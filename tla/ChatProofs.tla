--------------------------- MODULE ChatProofs ---------------------------
(***************************************************************************)
(* Conversation threads, for any number of requests and threads: types and *)
(* what each step does to the request that takes it and to the locks, for  *)
(* any number of server processes; then the safety properties, for one     *)
(* process.  The per-thread lock lives in the process, so several          *)
(* processes do not have them.                                             *)
(***************************************************************************)
EXTENDS ChatProperties, SequenceTheorems, TLAPS

-----------------------------------------------------------------------------
(* Case analysis *)

\* What a request, or the thread table, can do in one step.
RequestStep(q) == (\E t \in Threads : Arrive(q, t)) \/ HandlerStep(q) \/ StoreFails(q)

ThreadStep(t) == CreateThread(t) \/ DeleteThread(t) \/ Expire(t)

LEMMA StepCases ==
  ASSUME [Next]_vars
  PROVE  \/ UNCHANGED vars
         \/ \E q \in Requests : RequestStep(q)
         \/ \E t \in Threads : ThreadStep(t)
         \/ \E i \in Instances : Crash(i)
BY DEF Next, RequestStep, ThreadStep

-----------------------------------------------------------------------------
(* Types *)

LEMMA KeyType ==
  ASSUME TypeOK, NEW q \in Requests, req[q].pc # "new"
  PROVE  Key(q) \in Instances \X Threads
BY ChatAssumption DEF TypeOK, Key

LEMMA LastMessagesType ==
  ASSUME NEW S, NEW m \in Seq(S)
  PROVE  LastMessages(m) \in Seq(S)
<1> DEFINE a == IF Len(m) > 2 * HistoryTurns THEN Len(m) - 2 * HistoryTurns + 1 ELSE 1
<1>1. Len(m) \in Nat /\ HistoryTurns \in Nat \ {0}
  BY ChatAssumption
<1>2. a \in Int /\ a >= 1
  BY <1>1
<1>3. SubSeq(m, a, Len(m)) \in Seq(S)
  BY <1>1, <1>2
<1>4. QED
  BY <1>3 DEF LastMessages

LEMMA TypeInit == Init => TypeOK
BY ChatAssumption DEF Init, TypeOK, Request, Holding, Section

\* What a step of request q does to the requests: q is now at pc, in thread t.
Moved(q, pc, t) ==
  /\ req' \in [Requests -> Request]
  /\ req'[q].pc = pc /\ req'[q].thread = t
  /\ \A p \in Requests : p # q => req'[p] = req[p]

\* What it does to the locks and the event loops: q holds or frees its own.
LocksMoved(q, pc, t) ==
  /\ lock' \in [Instances \X Threads -> Requests \cup {None}]
  /\ loop' \in [Instances -> Requests \cup {None}]
  /\ \A k \in Instances \X Threads :
       /\ lock'[k] = q => pc \in Holding /\ k = <<Home[q], t>>
       /\ \A p \in Requests : p # q /\ lock'[k] = p => lock[k] = p
  /\ \A i \in Instances :
       /\ loop'[i] = q => pc \in Section /\ i = Home[q]
       /\ \A p \in Requests : p # q /\ loop'[i] = p => loop[i] = p

StoreType ==
  /\ status \in [Threads -> {"unborn", "stored", "gone"}]
  /\ messages \in [Threads -> Seq(Message)]

LEMMA TypeMoved ==
  ASSUME TypeOK, NEW q \in Requests, NEW pc, pc # "new", NEW t \in Threads,
         Moved(q, pc, t), LocksMoved(q, pc, t), StoreType',
         queue' \in [Instances \X Threads -> Seq(Requests)], faults' \in Nat
  PROVE  TypeOK'
<1>1. \A p \in Requests : req'[p].pc # "new" => req'[p].thread \in Threads
  BY DEF TypeOK, Moved
<1>2. ASSUME NEW p \in Requests, NEW k \in Instances \X Threads, lock'[k] = p
      PROVE  req'[p].pc \in Holding /\ Key(p)' = k
  <2>1. CASE p = q
    BY <1>2, <2>1 DEF Moved, LocksMoved, Key
  <2>2. CASE p # q
    BY <1>2, <2>2 DEF Moved, LocksMoved, Key, TypeOK
  <2>3. QED
    BY <2>1, <2>2
<1>3. ASSUME NEW p \in Requests, NEW i \in Instances, loop'[i] = p
      PROVE  req'[p].pc \in Section /\ Home[p] = i
  <2>1. CASE p = q
    BY <1>3, <2>1 DEF Moved, LocksMoved
  <2>2. CASE p # q
    BY <1>3, <2>2 DEF Moved, LocksMoved, TypeOK
  <2>3. QED
    BY <2>1, <2>2
<1>4. QED
  BY <1>1, <1>2, <1>3 DEF TypeOK, Moved, LocksMoved, StoreType

-----------------------------------------------------------------------------
(* The shape of each step *)

LEMMA HomeType == \A q \in Requests : Home[q] \in Instances
BY ChatAssumption

LEMMA MovedBy ==
  ASSUME TypeOK, NEW q \in Requests, NEW x \in Request, req' = [req EXCEPT ![q] = x]
  PROVE  req'[q] = x /\ Moved(q, x.pc, x.thread)
BY DEF TypeOK, Moved

\* q holds no lock, or keeps what it holds.
LEMMA LocksKept ==
  ASSUME TypeOK, NEW q \in Requests, NEW pc, NEW t, UNCHANGED <<lock, loop>>,
         req[q].pc \in Holding => pc \in Holding /\ t = req[q].thread,
         req[q].pc \in Section => pc \in Section
  PROVE  LocksMoved(q, pc, t)
BY DEF LocksMoved, TypeOK, Key, Section, Holding

LocksFreed(q) ==
  /\ \A k \in Instances \X Threads : lock'[k] = IF k = Key(q) THEN None ELSE lock[k]
  /\ \A i \in Instances : loop'[i] = IF i = Home[q] THEN None ELSE loop[i]

LEMMA RespondShape ==
  ASSUME TypeOK, NEW q \in Requests, req[q].pc # "new",
         NEW result \in {"ok", "404", "500", "lost"}, Respond(q, result)
  PROVE  /\ Moved(q, "done", req[q].thread)
         /\ req'[q].window = req[q].window /\ req'[q].result = result
         /\ LocksFreed(q)
         /\ LocksMoved(q, "done", req[q].thread)
<1> DEFINE x == [req[q] EXCEPT !.pc = "done", !.result = result]
<1>1. Key(q) \in Instances \X Threads /\ Home[q] \in Instances
  BY KeyType, HomeType
<1>2. req[q] \in Request /\ req' = [req EXCEPT ![q] = x]
  BY DEF TypeOK, Respond
<1>3. /\ x \in Request
      /\ x.pc = "done" /\ x.thread = req[q].thread
      /\ x.window = req[q].window /\ x.result = result
  BY <1>2 DEF Request
<1>4. lock' \in [Instances \X Threads -> Requests \cup {None}]
  BY <1>1 DEF TypeOK, Respond
<1>5. loop' \in [Instances -> Requests \cup {None}]
  BY <1>1 DEF TypeOK, Respond
<1>6. LocksFreed(q)
  BY <1>1 DEF TypeOK, Respond, LocksFreed
<1>7. LocksMoved(q, "done", req[q].thread)
  BY <1>4, <1>5, <1>6, ChatAssumption DEF LocksMoved, LocksFreed, TypeOK
<1> HIDE DEF x
<1>8. QED
  BY <1>2, <1>3, <1>6, <1>7, MovedBy

LocksTaken(q, t) ==
  /\ lock[<<Home[q], t>>] = None /\ loop[Home[q]] = None
  /\ \A k \in Instances \X Threads :
       lock'[k] = IF k = <<Home[q], t>> THEN q ELSE lock[k]
  /\ \A i \in Instances : loop'[i] = IF i = Home[q] THEN q ELSE loop[i]

LEMMA LocksTakenMoved ==
  ASSUME TypeOK, NEW q \in Requests, NEW t, req[q].pc \notin Holding, LocksTaken(q, t),
         lock' \in [Instances \X Threads -> Requests \cup {None}],
         loop' \in [Instances -> Requests \cup {None}]
  PROVE  LocksMoved(q, "ask_get", t)
<1>1. \A k \in Instances \X Threads : lock[k] # q
  BY DEF TypeOK
<1>2. \A i \in Instances : loop[i] # q
  BY DEF TypeOK, Holding
<1>3. QED
  BY <1>1, <1>2 DEF LocksMoved, LocksTaken, Holding, Section

LEMMA NotFoundShape ==
  ASSUME TypeOK, NEW q \in Requests, NEW t \in Threads, NotFound(q, t)
  PROVE  /\ Moved(q, "done", t) /\ req[q].pc = "new" /\ req'[q].result = "404"
         /\ LocksMoved(q, "done", t)
<1> DEFINE x == [req[q] EXCEPT !.pc = "done", !.thread = t, !.result = "404"]
<1>1. req[q] \in Request /\ req[q].pc = "new" /\ req' = [req EXCEPT ![q] = x]
  BY DEF TypeOK, NotFound
<1>2. x \in Request /\ x.pc = "done" /\ x.thread = t /\ x.result = "404"
  BY <1>1 DEF Request
<1>3. LocksMoved(q, "done", t)
  BY <1>1, LocksKept DEF NotFound, Holding, Section
<1> HIDE DEF x
<1>4. QED
  BY <1>1, <1>2, <1>3, MovedBy

LEMMA WaitShape ==
  ASSUME TypeOK, NEW q \in Requests, NEW t \in Threads, Wait(q, t)
  PROVE  /\ Moved(q, "waiting", t) /\ req[q].pc = "new"
         /\ req'[q].result = req[q].result
         /\ LocksMoved(q, "waiting", t)
         /\ queue' \in [Instances \X Threads -> Seq(Requests)]
<1> DEFINE x == [req[q] EXCEPT !.pc = "waiting", !.thread = t]
<1>1. req[q] \in Request /\ req[q].pc = "new" /\ req' = [req EXCEPT ![q] = x]
  BY DEF TypeOK, Wait
<1>2. x \in Request /\ x.pc = "waiting" /\ x.thread = t /\ x.result = req[q].result
  BY <1>1 DEF Request
<1>3. LocksMoved(q, "waiting", t)
  BY <1>1, LocksKept DEF Wait, Holding, Section
<1>4. queue' \in [Instances \X Threads -> Seq(Requests)]
  BY HomeType DEF TypeOK, Wait
<1> HIDE DEF x
<1>5. QED
  BY <1>1, <1>2, <1>3, <1>4, MovedBy

LEMMA EnterShape ==
  ASSUME TypeOK, NEW q \in Requests, NEW t \in Threads, Enter(q, t)
  PROVE  /\ Moved(q, "ask_get", t) /\ req[q].pc = "new"
         /\ req'[q].result = req[q].result
         /\ LocksMoved(q, "ask_get", t) /\ LocksTaken(q, t)
<1> DEFINE x == [req[q] EXCEPT !.pc = "ask_get", !.thread = t]
<1>1. req[q] \in Request /\ req[q].pc = "new" /\ req' = [req EXCEPT ![q] = x]
  BY DEF TypeOK, Enter
<1>2. x \in Request /\ x.pc = "ask_get" /\ x.thread = t /\ x.result = req[q].result
  BY <1>1 DEF Request, Holding, Section
<1>3. LocksTaken(q, t)
  BY HomeType DEF Enter, Contended, LocksTaken, TypeOK
<1>4. /\ lock' \in [Instances \X Threads -> Requests \cup {None}]
      /\ loop' \in [Instances -> Requests \cup {None}]
  BY HomeType DEF Enter, TypeOK
<1>5. LocksMoved(q, "ask_get", t)
  BY <1>1, <1>3, <1>4, LocksTakenMoved DEF Holding, Section
<1> HIDE DEF x
<1>6. QED
  BY <1>1, <1>2, <1>3, <1>5, MovedBy

LEMMA ResumeShape ==
  ASSUME TypeOK, NEW q \in Requests, Resume(q)
  PROVE  /\ Moved(q, "ask_get", req[q].thread) /\ req[q].pc = "waiting"
         /\ req'[q].result = req[q].result
         /\ LocksMoved(q, "ask_get", req[q].thread) /\ LocksTaken(q, req[q].thread)
         /\ queue' \in [Instances \X Threads -> Seq(Requests)]
<1> DEFINE x == [req[q] EXCEPT !.pc = "ask_get"]
<1>1. req[q] \in Request /\ req[q].pc = "waiting" /\ req' = [req EXCEPT ![q] = x]
  BY DEF TypeOK, Resume
<1>2. /\ x \in Request /\ x.pc = "ask_get" /\ x.thread = req[q].thread
      /\ x.result = req[q].result
  BY <1>1 DEF Request, Holding, Section
<1>3. Key(q) \in Instances \X Threads
  BY <1>1, KeyType
<1>4. LocksTaken(q, req[q].thread)
  BY <1>3, HomeType DEF Resume, LocksTaken, TypeOK, Key
<1>5. /\ lock' \in [Instances \X Threads -> Requests \cup {None}]
      /\ loop' \in [Instances -> Requests \cup {None}]
  BY <1>3, HomeType DEF Resume, TypeOK
<1>6. queue' \in [Instances \X Threads -> Seq(Requests)]
  <2>1. queue[Key(q)] \in Seq(Requests) /\ queue[Key(q)] # <<>>
    BY <1>3 DEF Resume, TypeOK
  <2>2. Tail(queue[Key(q)]) \in Seq(Requests)
    BY <2>1
  <2>3. QED
    BY <1>3, <2>2 DEF Resume, TypeOK
<1>7. LocksMoved(q, "ask_get", req[q].thread)
  BY <1>1, <1>4, <1>5, LocksTakenMoved DEF Holding, Section
<1> HIDE DEF x
<1>8. QED
  BY <1>1, <1>2, <1>4, <1>6, <1>7, MovedBy

LEMMA AppendGetShape ==
  ASSUME TypeOK, NEW q \in Requests, NEW from \in Section, NEW to \in Section,
         AppendGet(q, from, to)
  PROVE  /\ Moved(q, to, req[q].thread) /\ req[q].pc = from
         /\ req'[q].result = req[q].result
         /\ req'[q].copy = messages[req[q].thread]
         /\ LocksMoved(q, to, req[q].thread)
<1> DEFINE x == [req[q] EXCEPT !.pc = to, !.copy = messages[req[q].thread]]
<1>1. req[q] \in Request /\ req[q].pc = from /\ req' = [req EXCEPT ![q] = x]
  BY DEF TypeOK, AppendGet
<1>2. messages[req[q].thread] \in Seq(Message)
  BY <1>1 DEF TypeOK, Section
<1>3. /\ x \in Request /\ x.pc = to /\ x.thread = req[q].thread
      /\ x.result = req[q].result /\ x.copy = messages[req[q].thread]
  BY <1>1, <1>2 DEF Request, Holding
<1>4. LocksMoved(q, to, req[q].thread)
  BY <1>1, LocksKept DEF AppendGet, Holding
<1> HIDE DEF x
<1>5. QED
  BY <1>1, <1>3, <1>4, MovedBy

LEMMA AskSaveShape ==
  ASSUME TypeOK, NEW q \in Requests, AskSave(q)
  PROVE  /\ Moved(q, "window", req[q].thread) /\ req[q].pc = "ask_save"
         /\ req'[q].result = req[q].result
         /\ LocksMoved(q, "window", req[q].thread)
<1> DEFINE x == [req[q] EXCEPT !.pc = "window"]
<1>1. req[q] \in Request /\ req[q].pc = "ask_save" /\ req' = [req EXCEPT ![q] = x]
  BY DEF TypeOK, AskSave
<1>2. /\ x \in Request /\ x.pc = "window" /\ x.thread = req[q].thread
      /\ x.result = req[q].result
  BY <1>1 DEF Request, Holding, Section
<1>3. LocksMoved(q, "window", req[q].thread)
  BY <1>1, LocksKept DEF AskSave, Holding, Section
<1> HIDE DEF x
<1>4. QED
  BY <1>1, <1>2, <1>3, MovedBy

LEMMA TakeWindowShape ==
  ASSUME TypeOK, NEW q \in Requests, TakeWindow(q)
  PROVE  /\ Moved(q, "running", req[q].thread) /\ req[q].pc = "window"
         /\ req'[q].result = req[q].result
         /\ req'[q].window = LastMessages(messages[req[q].thread])
         /\ LocksMoved(q, "running", req[q].thread)
         /\ \A i \in Instances : loop'[i] = IF i = Home[q] THEN None ELSE loop[i]
<1> DEFINE w == LastMessages(messages[req[q].thread])
           x == [req[q] EXCEPT !.pc = "running", !.window = w]
<1>1. req[q] \in Request /\ req[q].pc = "window" /\ req' = [req EXCEPT ![q] = x]
  BY DEF TypeOK, TakeWindow
<1>2. w \in Seq(Message)
  BY <1>1, LastMessagesType DEF TypeOK
<1> HIDE DEF w
<1>3. /\ x \in Request /\ x.pc = "running" /\ x.thread = req[q].thread
      /\ x.result = req[q].result /\ x.window = w
  BY <1>1, <1>2 DEF Request, Holding
<1>4. /\ loop' \in [Instances -> Requests \cup {None}]
      /\ \A i \in Instances : loop'[i] = IF i = Home[q] THEN None ELSE loop[i]
  BY HomeType DEF TakeWindow, TypeOK
<1>5. LocksMoved(q, "running", req[q].thread)
  BY <1>1, <1>4, ChatAssumption DEF TakeWindow, LocksMoved, TypeOK, Key, Holding
<1> HIDE DEF x
<1>6. QED
  BY <1>1, <1>3, <1>4, <1>5, MovedBy DEF w

LEMMA PipelineReturnsShape ==
  ASSUME TypeOK, NEW q \in Requests, PipelineReturns(q)
  PROVE  /\ Moved(q, "ans_get", req[q].thread) /\ req[q].pc = "running"
         /\ req'[q].result = req[q].result
         /\ LocksMoved(q, "ans_get", req[q].thread)
         /\ loop[Home[q]] = None
         /\ \A i \in Instances : loop'[i] = IF i = Home[q] THEN q ELSE loop[i]
<1> DEFINE x == [req[q] EXCEPT !.pc = "ans_get"]
<1>1. req[q] \in Request /\ req[q].pc = "running" /\ req' = [req EXCEPT ![q] = x]
  BY DEF TypeOK, PipelineReturns
<1>2. /\ x \in Request /\ x.pc = "ans_get" /\ x.thread = req[q].thread
      /\ x.result = req[q].result
  BY <1>1 DEF Request, Holding, Section
<1>3. /\ loop' \in [Instances -> Requests \cup {None}]
      /\ loop[Home[q]] = None
      /\ \A i \in Instances : loop'[i] = IF i = Home[q] THEN q ELSE loop[i]
  BY HomeType DEF PipelineReturns, TypeOK
<1>4. LocksMoved(q, "ans_get", req[q].thread)
  BY <1>1, <1>3 DEF PipelineReturns, LocksMoved, TypeOK, Key, Holding, Section
<1> HIDE DEF x
<1>5. QED
  BY <1>1, <1>2, <1>3, <1>4, MovedBy

LEMMA SaveShape ==
  ASSUME TypeOK, NEW t \in Threads, NEW m \in Seq(Message), Save(t, m)
  PROVE  /\ StoreType'
         /\ status'[t] = "stored" /\ messages'[t] = m
         /\ \A u \in Threads : u # t => status'[u] = status[u] /\ messages'[u] = messages[u]
BY DEF TypeOK, Save, StoreType

\* The message a request adds.
LEMMA MessageType == \A q \in Requests : User(q) \in Message /\ Assistant(q) \in Message
BY DEF User, Assistant, Message

LEMMA CopyType ==
  ASSUME TypeOK, NEW q \in Requests
  PROVE  req[q].copy \in Seq(Message)
BY DEF TypeOK, Request

\* What a step of the thread table does.
LEMMA ThreadShape ==
  ASSUME TypeOK, NEW t \in Threads, ThreadStep(t)
  PROVE  /\ StoreType' /\ messages'[t] = <<>> /\ UNCHANGED <<lock, queue, loop, req, faults>>
         /\ \/ CreateThread(t) /\ status'[t] = "stored"
            \/ (DeleteThread(t) \/ Expire(t)) /\ status'[t] = "gone"
         /\ \A u \in Threads : u # t => status'[u] = status[u] /\ messages'[u] = messages[u]
<1>1. CASE CreateThread(t)
  <2>1. <<>> \in Seq(Message)
    OBVIOUS
  <2>2. QED
    BY <1>1, <2>1, SaveShape DEF CreateThread
<1>2. CASE DeleteThread(t)
  BY <1>2 DEF DeleteThread, TypeOK, StoreType
<1>3. CASE Expire(t)
  BY <1>3 DEF Expire, TypeOK, StoreType
<1>4. QED
  BY <1>1, <1>2, <1>3 DEF ThreadStep

Died(q, i) == Home[q] = i /\ req[q].pc \notin {"new", "done"}

LEMMA CrashShape ==
  ASSUME TypeOK, NEW i \in Instances, Crash(i)
  PROVE  /\ req' \in [Requests -> Request]
         /\ \A q \in Requests :
              IF Died(q, i)
              THEN /\ req'[q].pc = "done" /\ req'[q].thread = req[q].thread
                   /\ req'[q].result = "lost" /\ req'[q].window = req[q].window
              ELSE req'[q] = req[q]
         /\ lock' \in [Instances \X Threads -> Requests \cup {None}]
         /\ queue' \in [Instances \X Threads -> Seq(Requests)]
         /\ \A j \in Instances, t \in Threads :
              lock'[<<j, t>>] = IF j = i THEN None ELSE lock[<<j, t>>]
         /\ loop' \in [Instances -> Requests \cup {None}]
         /\ \A j \in Instances : loop'[j] = IF j = i THEN None ELSE loop[j]
         /\ UNCHANGED <<status, messages>> /\ faults' \in Nat
<1>1. ASSUME NEW q \in Requests
      PROVE  /\ req'[q] \in Request
             /\ IF Died(q, i)
                THEN /\ req'[q].pc = "done" /\ req'[q].thread = req[q].thread
                     /\ req'[q].result = "lost" /\ req'[q].window = req[q].window
                ELSE req'[q] = req[q]
  <2> DEFINE x == [req[q] EXCEPT !.pc = "done", !.result = "lost"]
  <2>1. req[q] \in Request /\ req'[q] = IF Died(q, i) THEN x ELSE req[q]
    BY DEF TypeOK, Crash, Died
  <2>2. /\ x \in Request /\ x.pc = "done" /\ x.thread = req[q].thread
        /\ x.result = "lost" /\ x.window = req[q].window
    BY <2>1 DEF Request
  <2> HIDE DEF x
  <2>3. QED
    BY <2>1, <2>2
<1>2. req' \in [Requests -> Request]
  BY <1>1 DEF Crash
<1>3. lock' \in [Instances \X Threads -> Requests \cup {None}]
  BY DEF Crash, TypeOK
<1>4. queue' \in [Instances \X Threads -> Seq(Requests)]
  <2>1. <<>> \in Seq(Requests)
    OBVIOUS
  <2>2. \A k \in Instances \X Threads : queue[k] \in Seq(Requests)
    BY DEF TypeOK
  <2>3. QED
    BY <2>1, <2>2 DEF Crash
<1>5. \A j \in Instances, t \in Threads :
        lock'[<<j, t>>] = IF j = i THEN None ELSE lock[<<j, t>>]
  BY DEF Crash
<1>6. /\ loop' \in [Instances -> Requests \cup {None}]
      /\ \A j \in Instances : loop'[j] = IF j = i THEN None ELSE loop[j]
  BY DEF Crash, TypeOK
<1>7. UNCHANGED <<status, messages>> /\ faults' \in Nat
  <2>1. Fault /\ UNCHANGED <<status, messages>>
    BY DEF Crash
  <2>2. QED
    BY <2>1 DEF Fault, TypeOK
<1>8. QED
  BY <1>1, <1>2, <1>3, <1>4, <1>5, <1>6, <1>7

-----------------------------------------------------------------------------
(* Type correctness *)

LEMMA TypeRequestStep ==
  ASSUME TypeOK, NEW q \in Requests, RequestStep(q)
  PROVE  TypeOK'
<1> USE DEF StoreType
<1>1. ASSUME NEW t \in Threads, NotFound(q, t) PROVE TypeOK'
  BY <1>1, NotFoundShape, TypeMoved DEF NotFound, TypeOK
<1>2. ASSUME NEW t \in Threads, Wait(q, t) PROVE TypeOK'
  BY <1>2, WaitShape, TypeMoved DEF Wait, TypeOK
<1>3. ASSUME NEW t \in Threads, Enter(q, t) PROVE TypeOK'
  BY <1>3, EnterShape, TypeMoved DEF Enter, TypeOK
<1>4. CASE Resume(q)
  BY <1>4, ResumeShape, TypeMoved DEF Resume, TypeOK
<1>5. ASSUME NEW from \in Section, NEW to \in Section, AppendGet(q, from, to) PROVE TypeOK'
  BY <1>5, AppendGetShape, TypeMoved DEF AppendGet, TypeOK, Section
<1>6. CASE AskSave(q)
  <2>1. req[q].thread \in Threads /\ Append(req[q].copy, User(q)) \in Seq(Message)
    BY <1>6, CopyType, MessageType DEF AskSave, TypeOK
  <2>2. StoreType'
    BY <1>6, <2>1, SaveShape DEF AskSave
  <2>3. QED
    BY <1>6, <2>1, <2>2, AskSaveShape, TypeMoved DEF AskSave, TypeOK
<1>7. CASE TakeWindow(q)
  BY <1>7, TakeWindowShape, TypeMoved DEF TakeWindow, TypeOK
<1>8. CASE PipelineReturns(q)
  BY <1>8, PipelineReturnsShape, TypeMoved DEF PipelineReturns, TypeOK
<1>9. CASE AnswerSave(q)
  <2>1. req[q].thread \in Threads /\ Append(req[q].copy, Assistant(q)) \in Seq(Message)
    BY <1>9, CopyType, MessageType DEF AnswerSave, TypeOK
  <2>2. StoreType'
    BY <1>9, <2>1, SaveShape DEF AnswerSave
  <2>3. QED
    BY <1>9, <2>1, <2>2, RespondShape, TypeMoved DEF AnswerSave, TypeOK
<1>10. CASE AppendKeyError(q)
  BY <1>10, RespondShape, TypeMoved DEF AppendKeyError, TypeOK
<1>11. CASE StoreFails(q)
  <2>1. faults' \in Nat
    BY <1>11 DEF StoreFails, Fault, TypeOK
  <2>2. req[q].pc # "new" /\ Respond(q, "500") /\ UNCHANGED <<status, messages, queue>>
    BY <1>11 DEF StoreFails, Section
  <2>3. Moved(q, "done", req[q].thread) /\ LocksMoved(q, "done", req[q].thread)
    BY <2>2, RespondShape
  <2>4. /\ req[q].thread \in Threads /\ StoreType'
        /\ queue' \in [Instances \X Threads -> Seq(Requests)]
    BY <2>2 DEF TypeOK
  <2>5. QED
    BY <2>1, <2>3, <2>4, TypeMoved
<1>12. QED
  BY <1>1, <1>2, <1>3, <1>4, <1>5, <1>6, <1>7, <1>8, <1>9, <1>10, <1>11
  DEF RequestStep, Arrive, HandlerStep, Section

LEMMA TypeStep ==
  ASSUME TypeOK, [Next]_vars
  PROVE  TypeOK'
<1>1. CASE UNCHANGED vars
  BY <1>1 DEF TypeOK, vars, Key
<1>2. ASSUME NEW q \in Requests, RequestStep(q) PROVE TypeOK'
  BY <1>2, TypeRequestStep
<1>3. ASSUME NEW t \in Threads, ThreadStep(t) PROVE TypeOK'
  BY <1>3, ThreadShape DEF TypeOK, StoreType, Key
<1>4. ASSUME NEW i \in Instances, Crash(i) PROVE TypeOK'
  <2>1. \A q \in Requests : req'[q].thread = req[q].thread
                            /\ (req'[q].pc # "new" => req[q].pc # "new")
    BY <1>4, CrashShape DEF Died
  <2>2. ASSUME NEW q \in Requests, NEW j \in Instances, NEW t \in Threads,
               lock'[<<j, t>>] = q
        PROVE  req'[q].pc \in Holding /\ Key(q)' = <<j, t>>
    <3>1. j # i /\ lock[<<j, t>>] = q
      BY <1>4, <2>2, CrashShape, ChatAssumption
    <3>2. req[q].pc \in Holding /\ Key(q) = <<j, t>>
      BY <3>1 DEF TypeOK
    <3>3. ~Died(q, i)
      BY <3>1, <3>2 DEF Died, Key
    <3>4. QED
      BY <1>4, <3>2, <3>3, CrashShape DEF Key
  <2>3. ASSUME NEW q \in Requests, NEW j \in Instances, loop'[j] = q
        PROVE  req'[q].pc \in Section /\ Home[q] = j
    <3>1. j # i /\ loop[j] = q
      BY <1>4, <2>3, CrashShape, ChatAssumption
    <3>2. req[q].pc \in Section /\ Home[q] = j
      BY <3>1 DEF TypeOK
    <3>3. QED
      BY <1>4, <3>1, <3>2, CrashShape DEF Died
  <2>4. \A q \in Requests, k \in Instances \X Threads :
          lock'[k] = q => req'[q].pc \in Holding /\ Key(q)' = k
    BY <2>2
  <2>5. QED
    BY <1>4, <2>1, <2>3, <2>4, CrashShape DEF TypeOK
<1>5. QED
  BY <1>1, <1>2, <1>3, <1>4, StepCases

\* Every reachable state is well typed, and locks and event loops are only held
\* by requests inside them, for any number of server processes.
THEOREM ChatTypeCorrect == Spec => []TypeOK
<1>1. TypeOK /\ [Next]_vars => TypeOK'
  BY TypeStep
<1>2. QED
  BY <1>1, TypeInit, PTL DEF Spec

SingleProcess == \A i, j \in Instances : i = j

-----------------------------------------------------------------------------
(* Mutual exclusion, for any number of processes *)

\* A request inside its thread's lock owns that lock, and one in the middle of
\* a section owns its event loop.
Inside(q) ==
  /\ req[q].pc \in Holding => lock[Key(q)] = q
  /\ req[q].pc \in Section => loop[Home[q]] = q

LocksInv == \A q \in Requests : Inside(q)

LEMMA LocksUnchanged ==
  ASSUME LocksInv, NEW q \in Requests, NEW pc, Moved(q, pc, req[q].thread),
         UNCHANGED <<lock, loop>>,
         pc \in Holding => req[q].pc \in Holding, pc \in Section => req[q].pc \in Section
  PROVE  LocksInv'
BY DEF LocksInv, Inside, Moved, Key

LEMMA LocksIdle ==
  ASSUME LocksInv, NEW q \in Requests, NEW pc, NEW t, Moved(q, pc, t),
         UNCHANGED <<lock, loop>>, pc \notin Holding
  PROVE  LocksInv'
BY DEF LocksInv, Inside, Moved, Key, Holding

LEMMA LocksOnTaken ==
  ASSUME TypeOK, LocksInv, NEW q \in Requests, NEW t \in Threads,
         Moved(q, "ask_get", t), LocksTaken(q, t)
  PROVE  LocksInv'
<1>1. ASSUME NEW p \in Requests, p # q PROVE Inside(p)'
  <2>1. req'[p] = req[p] /\ Key(p)' = Key(p) /\ p # None
    BY <1>1, ChatAssumption DEF Moved, Key
  <2>2. req[p].pc \in Holding => Key(p) \in Instances \X Threads
    BY KeyType DEF Holding, Section
  <2>3. QED
    BY <1>1, <2>1, <2>2, HomeType DEF LocksInv, Inside, LocksTaken
<1>2. Inside(q)'
  <2>1. Key(q)' = <<Home[q], t>> /\ <<Home[q], t>> \in Instances \X Threads
    BY HomeType DEF Moved, Key
  <2>2. QED
    BY <2>1, HomeType DEF LocksTaken, Inside
<1>3. QED
  BY <1>1, <1>2 DEF LocksInv

LEMMA LocksOnFreed ==
  ASSUME TypeOK, LocksInv, NEW q \in Requests, req[q].pc \in Section,
         Moved(q, "done", req[q].thread), LocksFreed(q)
  PROVE  LocksInv'
<1>1. ASSUME NEW p \in Requests, p # q PROVE Inside(p)'
  <2>1. req'[p] = req[p] /\ Key(p)' = Key(p)
    BY <1>1 DEF Moved, Key
  <2>2. req[p].pc \in Holding => Key(p) \in Instances \X Threads
    BY KeyType DEF Holding, Section
  <2>3. lock[Key(q)] = q /\ loop[Home[q]] = q
    BY DEF LocksInv, Inside, Holding
  <2>4. QED
    BY <1>1, <2>1, <2>2, <2>3, HomeType DEF LocksInv, Inside, LocksFreed
<1>2. Inside(q)'
  BY DEF Moved, Inside, Holding, Section
<1>3. QED
  BY <1>1, <1>2 DEF LocksInv

LEMMA LocksRequestStep ==
  ASSUME TypeOK, LocksInv, NEW q \in Requests, RequestStep(q)
  PROVE  LocksInv'
<1> USE DEF Holding, Section
<1>1. ASSUME NEW t \in Threads, NotFound(q, t) PROVE LocksInv'
  BY <1>1, NotFoundShape, LocksIdle DEF NotFound
<1>2. ASSUME NEW t \in Threads, Wait(q, t) PROVE LocksInv'
  BY <1>2, WaitShape, LocksIdle DEF Wait
<1>3. ASSUME NEW t \in Threads, Enter(q, t) PROVE LocksInv'
  BY <1>3, EnterShape, LocksOnTaken
<1>4. CASE Resume(q)
  BY <1>4, ResumeShape, LocksOnTaken DEF TypeOK
<1>5. ASSUME NEW from \in Section, NEW to \in Section, AppendGet(q, from, to) PROVE LocksInv'
  BY <1>5, AppendGetShape, LocksUnchanged DEF AppendGet
<1>6. CASE AskSave(q)
  BY <1>6, AskSaveShape, LocksUnchanged DEF AskSave
<1>7. CASE TakeWindow(q)
  <2>1. /\ Moved(q, "running", req[q].thread) /\ req[q].pc = "window"
        /\ \A i \in Instances : loop'[i] = IF i = Home[q] THEN None ELSE loop[i]
        /\ lock' = lock
    BY <1>7, TakeWindowShape DEF TakeWindow
  <2>2. loop[Home[q]] = q
    BY <2>1 DEF LocksInv, Inside
  <2>3. ASSUME NEW p \in Requests PROVE Inside(p)'
    BY <2>1, <2>2, HomeType DEF LocksInv, Inside, Moved, Key
  <2>4. QED
    BY <2>3 DEF LocksInv
<1>8. CASE PipelineReturns(q)
  <2>1. /\ Moved(q, "ans_get", req[q].thread) /\ req[q].pc = "running"
        /\ loop[Home[q]] = None
        /\ \A i \in Instances : loop'[i] = IF i = Home[q] THEN q ELSE loop[i]
        /\ lock' = lock
    BY <1>8, PipelineReturnsShape DEF PipelineReturns
  <2>2. ASSUME NEW p \in Requests PROVE Inside(p)'
    BY <2>1, HomeType, ChatAssumption DEF LocksInv, Inside, Moved, Key
  <2>3. QED
    BY <2>2 DEF LocksInv
<1>9. CASE AnswerSave(q)
  BY <1>9, RespondShape, LocksOnFreed DEF AnswerSave
<1>10. CASE AppendKeyError(q)
  BY <1>10, RespondShape, LocksOnFreed DEF AppendKeyError
<1>11. CASE StoreFails(q)
  BY <1>11, RespondShape, LocksOnFreed DEF StoreFails
<1>12. QED
  BY <1>1, <1>2, <1>3, <1>4, <1>5, <1>6, <1>7, <1>8, <1>9, <1>10, <1>11
  DEF RequestStep, Arrive, HandlerStep

LEMMA LocksCrash ==
  ASSUME TypeOK, LocksInv, NEW i \in Instances, Crash(i)
  PROVE  LocksInv'
<1> SUFFICES ASSUME NEW q \in Requests PROVE Inside(q)'
  BY DEF LocksInv
<1>1. CASE Died(q, i)
  BY <1>1, CrashShape DEF Inside, Holding, Section
<1>2. CASE ~Died(q, i)
  <2>1. req'[q] = req[q] /\ Key(q)' = Key(q)
    BY <1>2, CrashShape DEF Key
  <2>2. CASE req[q].pc \in Holding
    <3>1. Home[q] # i /\ req[q].thread \in Threads
      BY <1>2, <2>2 DEF Died, Holding, Section, TypeOK
    <3>2. lock'[Key(q)] = lock[Key(q)] /\ loop'[Home[q]] = loop[Home[q]]
      BY <3>1, CrashShape, HomeType DEF Key
    <3>3. QED
      BY <2>1, <3>2 DEF LocksInv, Inside
  <2>3. CASE req[q].pc \notin Holding
    BY <2>1, <2>3 DEF Inside, Holding
  <2>4. QED
    BY <2>2, <2>3
<1>3. QED
  BY <1>1, <1>2

LEMMA LocksStep ==
  ASSUME TypeOK, LocksInv, [Next]_vars
  PROVE  LocksInv'
<1>1. CASE UNCHANGED vars
  BY <1>1 DEF LocksInv, Inside, Key, vars
<1>2. ASSUME NEW t \in Threads, ThreadStep(t) PROVE LocksInv'
  BY <1>2, ThreadShape DEF LocksInv, Inside, Key
<1>3. QED
  BY <1>1, <1>2, LocksRequestStep, LocksCrash, StepCases

\* With one process, at most one request is inside a thread's lock.
LEMMA OneHolder ==
  ASSUME SingleProcess, TypeOK, LocksInv, NEW p \in Requests, NEW q \in Requests,
         req[p].pc \in Holding, req[q].pc \in Holding, req[p].thread = req[q].thread
  PROVE  p = q
BY HomeType DEF SingleProcess, LocksInv, Inside, Key

-----------------------------------------------------------------------------
(* The invariant of one process *)

\* Where a request has added its question.
Written == {"window", "running", "ans_get", "ans_save", "done"}

\* What a request inside the lock knows of its thread: the row it read is still
\* the row, and while the thread lives its own question is the last message.
Stored(q) == req[q].pc \in {"ask_save", "window", "ans_save"} =>
               status[req[q].thread] = "stored"

CopyFresh(q) == req[q].pc \in {"ask_save", "ans_save"} =>
                  req[q].copy = messages[req[q].thread]

Asked(q) ==
  req[q].pc \in Written \ {"done"} /\ status[req[q].thread] = "stored" =>
    /\ messages[req[q].thread] # <<>>
    /\ messages[req[q].thread][Len(messages[req[q].thread])] = User(q)

Known(q) == req[q].pc # "new" /\ req[q].result # "404" =>
              status[req[q].thread] # "unborn"

Ended(q) == req[q].result # "none" => req[q].pc = "done"

Local(q) == Stored(q) /\ CopyFresh(q) /\ Asked(q) /\ Known(q) /\ Ended(q)

\* The conjuncts of WindowSettled and AcknowledgedTurnKept, for one request.
Window(q) ==
  req[q].pc = "running" =>
    /\ req[q].window # <<>>
    /\ req[q].window[Len(req[q].window)] = User(q)
    /\ \A k \in DOMAIN req[q].window :
         req[q].window[k].of # q => req[req[q].window[k].of].pc = "done"

TurnIn(q, m) ==
  \E k \in DOMAIN m : k > 1 /\ m[k - 1] = User(q) /\ m[k] = Assistant(q)

Acked(q) ==
  req[q].result = "ok" /\ status[req[q].thread] = "stored" =>
    TurnIn(q, messages[req[q].thread])

\* A message in a thread is of a request on that thread that has asked.
Authors(t) ==
  \A k \in DOMAIN messages[t] :
    /\ req[messages[t][k].of].thread = t
    /\ req[messages[t][k].of].pc \in Written

Pairs(t) ==
  \A k \in DOMAIN messages[t] :
    messages[t][k].role = "assistant" =>
      k > 1 /\ messages[t][k - 1] = User(messages[t][k].of)

ThreadInv ==
  /\ \A q \in Requests : Local(q) /\ Window(q) /\ Acked(q)
  /\ \A t \in Threads : Authors(t) /\ Pairs(t)

LEMMA InitInv == Init => LocksInv /\ ThreadInv
BY DEF Init, LocksInv, Inside, ThreadInv, Local, Stored, CopyFresh, Asked, Known, Ended,
       Window, Acked, Authors, Pairs, Written, Holding, Section

LEMMA AuthorType ==
  ASSUME TypeOK, NEW t \in Threads, NEW k \in DOMAIN messages[t]
  PROVE  messages[t][k].of \in Requests
<1>1. messages[t] \in Seq(Message)
  BY DEF TypeOK
<1>2. messages[t][k] \in Message
  BY <1>1
<1>3. QED
  BY <1>2 DEF Message

LEMMA WindowAuthorType ==
  ASSUME TypeOK, NEW q \in Requests, NEW k \in DOMAIN req[q].window
  PROVE  req[q].window[k].of \in Requests
<1>1. req[q].window \in Seq(Message)
  BY DEF TypeOK, Request
<1>2. req[q].window[k] \in Message
  BY <1>1
<1>3. QED
  BY <1>2 DEF Message

-----------------------------------------------------------------------------
(* Steps that leave the store alone *)

LEMMA QuietStep ==
  ASSUME TypeOK, ThreadInv, NEW q \in Requests, NEW pc, NEW t,
         Moved(q, pc, t), UNCHANGED <<status, messages>>,
         req[q].pc # "done", req[q].pc \in Written => pc \in Written /\ t = req[q].thread,
         Local(q)', Window(q)', req'[q].result # "ok"
  PROVE  ThreadInv'
<1>1. ASSUME NEW p \in Requests, p # q PROVE Local(p)' /\ Acked(p)'
  BY <1>1 DEF ThreadInv, Moved, Local, Stored, CopyFresh, Asked, Known, Ended, Acked
<1>2. ASSUME NEW p \in Requests, p # q PROVE Window(p)'
  <2>1. req'[p] = req[p]
    BY <1>2 DEF Moved
  <2>2. SUFFICES ASSUME req[p].pc = "running", NEW k \in DOMAIN req[p].window,
                        req[p].window[k].of # p
                 PROVE  req'[req[p].window[k].of].pc = "done"
    BY <2>1 DEF ThreadInv, Window
  <2>3. req[req[p].window[k].of].pc = "done" /\ req[p].window[k].of \in Requests
    BY <2>2, WindowAuthorType DEF ThreadInv, Window
  <2>4. QED
    BY <2>3 DEF Moved
<1>3. Acked(q)'
  BY DEF Acked
<1>4. ASSUME NEW u \in Threads PROVE Authors(u)' /\ Pairs(u)'
  <2>1. Pairs(u)'
    BY DEF ThreadInv, Pairs
  <2>2. ASSUME NEW k \in DOMAIN messages[u]
        PROVE  /\ req'[messages[u][k].of].thread = u
               /\ req'[messages[u][k].of].pc \in Written
    BY <2>2, AuthorType DEF ThreadInv, Authors, Moved
  <2>3. QED
    BY <2>1, <2>2 DEF Authors
<1>5. QED
  BY <1>1, <1>2, <1>3, <1>4 DEF ThreadInv

\* The last messages of a non-empty history are the end of it.
LEMMA LastMessagesSuffix ==
  ASSUME NEW S, NEW m \in Seq(S), m # <<>>
  PROVE  /\ LastMessages(m) # <<>>
         /\ LastMessages(m)[Len(LastMessages(m))] = m[Len(m)]
         /\ \A k \in DOMAIN LastMessages(m) : \E j \in DOMAIN m : LastMessages(m)[k] = m[j]
<1> DEFINE a == IF Len(m) > 2 * HistoryTurns THEN Len(m) - 2 * HistoryTurns + 1 ELSE 1
           w == SubSeq(m, a, Len(m))
<1>1. Len(m) \in Nat \ {0} /\ HistoryTurns \in Nat \ {0}
  BY ChatAssumption, EmptySeq
<1>2. a \in Int /\ 1 <= a /\ a <= Len(m)
  BY <1>1
<1> HIDE DEF a
<1>3. w \in Seq(S) /\ Len(w) = Len(m) - a + 1
  BY <1>1, <1>2
<1>4. \A k \in 1 .. Len(w) : w[k] = m[a + k - 1]
  BY <1>1, <1>2
<1>5. w # <<>> /\ w[Len(w)] = m[Len(m)]
  BY <1>1, <1>2, <1>3, <1>4
<1>6. \A k \in DOMAIN w : a + k - 1 \in DOMAIN m /\ w[k] = m[a + k - 1]
  BY <1>1, <1>2, <1>3, <1>4
<1>7. LastMessages(m) = w
  BY DEF LastMessages, a
<1> HIDE DEF w
<1>8. QED
  BY <1>5, <1>6, <1>7

LEMMA TakeWindowInv ==
  ASSUME SingleProcess, TypeOK, LocksInv, ThreadInv, NEW q \in Requests, TakeWindow(q)
  PROVE  ThreadInv'
<1> DEFINE t == req[q].thread
           m == messages[t]
<1>1. /\ Moved(q, "running", t) /\ req[q].pc = "window" /\ UNCHANGED <<status, messages>>
      /\ req'[q].result = req[q].result /\ req'[q].window = LastMessages(m)
  BY TakeWindowShape DEF TakeWindow
<1>2. t \in Threads /\ m \in Seq(Message)
  BY <1>1 DEF TypeOK
<1>3. m # <<>> /\ m[Len(m)] = User(q)
  BY <1>1 DEF ThreadInv, Local, Stored, Asked, Written
<1>4. ASSUME NEW j \in DOMAIN m, m[j].of # q PROVE req'[m[j].of].pc = "done"
  <2>1. m[j].of \in Requests
    BY <1>2, AuthorType
  <2>2. req[m[j].of].thread = t /\ req[m[j].of].pc \in Written
    BY <1>2 DEF ThreadInv, Authors
  <2>3. req[m[j].of].pc \notin Holding
    BY <1>1, <1>4, <2>1, <2>2, OneHolder DEF Holding, Section
  <2>4. QED
    BY <1>1, <1>4, <2>1, <2>2, <2>3 DEF Written, Holding, Section, Moved
<1>5. Local(q)'
  BY <1>1 DEF ThreadInv, Local, Stored, CopyFresh, Asked, Known, Ended, Moved, Written
<1>6. Window(q)'
  <2>1. /\ LastMessages(m) # <<>>
        /\ LastMessages(m)[Len(LastMessages(m))] = m[Len(m)]
        /\ \A k \in DOMAIN LastMessages(m) : \E j \in DOMAIN m : LastMessages(m)[k] = m[j]
    BY <1>2, <1>3, LastMessagesSuffix
  <2> HIDE DEF m
  <2>2. ASSUME NEW k \in DOMAIN LastMessages(m), LastMessages(m)[k].of # q
        PROVE  req'[LastMessages(m)[k].of].pc = "done"
    BY <2>1, <2>2, <1>4
  <2>3. QED
    BY <1>1, <1>3, <2>1, <2>2 DEF Window
<1>7. req'[q].result # "ok"
  BY <1>1 DEF ThreadInv, Local, Ended
<1>8. QED
  BY <1>1, <1>5, <1>6, <1>7, QuietStep DEF Written

\* The handler's other steps, up to the first save and after the pipeline.
LEMMA QuietRequestStep ==
  ASSUME SingleProcess, TypeOK, LocksInv, ThreadInv, NEW q \in Requests,
         RequestStep(q), ~AskSave(q), ~AnswerSave(q)
  PROVE  ThreadInv'
<1> USE DEF Section, Holding, Written
<1>0. Local(q)
  BY DEF ThreadInv
<1> DEFINE Facts == /\ UNCHANGED <<status, messages>> /\ req[q].pc # "done"
                    /\ Local(q)' /\ Window(q)' /\ req'[q].result # "ok"
<1>1. ASSUME NEW t \in Threads, NotFound(q, t) PROVE ThreadInv'
  <2>1. Moved(q, "done", t) /\ req[q].pc = "new" /\ req'[q].result = "404"
    BY <1>1, NotFoundShape
  <2>2. Facts
    BY <1>1, <2>1 DEF NotFound, Moved, Local, Stored, CopyFresh, Asked, Known, Ended, Window
  <2>3. QED
    BY <2>1, <2>2, QuietStep
<1>2. ASSUME NEW t \in Threads, NEW pc \in {"waiting", "ask_get"},
             Moved(q, pc, t), req[q].pc \in {"new", "waiting"},
             req[q].pc = "new" \/ t = req[q].thread,
             req[q].pc = "new" => status[t] = "stored",
             req'[q].result = req[q].result, UNCHANGED <<status, messages>>
      PROVE  ThreadInv'
  <2>1. Facts
    BY <1>0, <1>2 DEF Moved, Local, Stored, CopyFresh, Asked, Known, Ended, Window
  <2>2. QED
    BY <1>2, <2>1, QuietStep
<1>3. ASSUME NEW t \in Threads, Wait(q, t) \/ Enter(q, t) PROVE ThreadInv'
  BY <1>3, <1>2, WaitShape, EnterShape DEF Wait, Enter
<1>4. CASE Resume(q)
  BY <1>4, <1>2, ResumeShape DEF Resume, TypeOK
<1>5. CASE AppendGet(q, "ask_get", "ask_save")
  <2>1. /\ Moved(q, "ask_save", req[q].thread) /\ req[q].pc = "ask_get"
        /\ req'[q].result = req[q].result /\ req'[q].copy = messages[req[q].thread]
    BY <1>5, AppendGetShape
  <2>2. Facts
    BY <1>0, <1>5, <2>1
    DEF AppendGet, Moved, Local, Stored, CopyFresh, Asked, Known, Ended, Window
  <2>3. QED
    BY <2>1, <2>2, QuietStep
<1>6. CASE AppendGet(q, "ans_get", "ans_save")
  <2>1. /\ Moved(q, "ans_save", req[q].thread) /\ req[q].pc = "ans_get"
        /\ req'[q].result = req[q].result /\ req'[q].copy = messages[req[q].thread]
    BY <1>6, AppendGetShape
  <2>2. Facts
    BY <1>0, <1>6, <2>1
    DEF AppendGet, Moved, Local, Stored, CopyFresh, Asked, Known, Ended, Window
  <2>3. QED
    BY <2>1, <2>2, QuietStep
<1>7. CASE PipelineReturns(q)
  <2>1. /\ Moved(q, "ans_get", req[q].thread) /\ req[q].pc = "running"
        /\ req'[q].result = req[q].result
    BY <1>7, PipelineReturnsShape
  <2>2. Facts
    BY <1>0, <1>7, <2>1
    DEF PipelineReturns, Moved, Local, Stored, CopyFresh, Asked, Known, Ended, Window
  <2>3. QED
    BY <2>1, <2>2, QuietStep
<1>8. CASE AppendKeyError(q) \/ StoreFails(q)
  <2>1. /\ Moved(q, "done", req[q].thread) /\ req'[q].result = "500"
        /\ req[q].pc \in Section /\ UNCHANGED <<status, messages>>
    BY <1>8, RespondShape DEF AppendKeyError, StoreFails
  <2>2. Facts
    BY <1>0, <2>1 DEF Moved, Local, Stored, CopyFresh, Asked, Known, Ended, Window
  <2>3. QED
    BY <2>1, <2>2, QuietStep
<1>9. QED
  BY <1>1, <1>3, <1>4, <1>5, <1>6, <1>7, <1>8, TakeWindowInv
  DEF RequestStep, Arrive, HandlerStep

-----------------------------------------------------------------------------
(* Steps that change the store *)

\* Message m is added to the history of thread t, which exists.
Added(t, m) ==
  /\ status' = status /\ status[t] = "stored"
  /\ messages'[t] = Append(messages[t], m)
  /\ \A u \in Threads : u # t => messages'[u] = messages[u]

LEMMA SaveAdds ==
  ASSUME TypeOK, ThreadInv, NEW q \in Requests, NEW m,
         req[q].pc \in {"ask_save", "ans_save"},
         Save(req[q].thread, Append(req[q].copy, m))
  PROVE  Added(req[q].thread, m)
<1>1. status[req[q].thread] = "stored" /\ req[q].copy = messages[req[q].thread]
  BY DEF ThreadInv, Local, Stored, CopyFresh
<1>2. QED
  BY <1>1 DEF Save, Added, TypeOK

LEMMA TurnKept ==
  ASSUME NEW q, NEW m \in Seq(Message), NEW e \in Message, TurnIn(q, m)
  PROVE  TurnIn(q, Append(m, e))
<1>1. PICK k \in DOMAIN m : k > 1 /\ m[k - 1] = User(q) /\ m[k] = Assistant(q)
  BY DEF TurnIn
<1>2. k \in 1 .. Len(m) /\ k - 1 \in 1 .. Len(m) /\ Len(m) \in Nat
  BY <1>1
<1>3. Append(m, e)[k] = m[k] /\ Append(m, e)[k - 1] = m[k - 1]
  BY <1>2
<1>4. k \in DOMAIN Append(m, e)
  BY <1>2
<1>5. QED
  BY <1>1, <1>3, <1>4 DEF TurnIn

LEMMA TurnAdded ==
  ASSUME NEW q \in Requests, NEW m \in Seq(Message), m # <<>>, m[Len(m)] = User(q)
  PROVE  TurnIn(q, Append(m, Assistant(q)))
<1> DEFINE k == Len(m) + 1
           s == Append(m, Assistant(q))
<1>1. Len(m) \in Nat \ {0}
  BY EmptySeq
<1>2. k \in DOMAIN s /\ k > 1
  BY <1>1, MessageType
<1>3. s[k] = Assistant(q) /\ s[Len(m)] = User(q) /\ Len(m) = k - 1
  BY <1>1, MessageType
<1> HIDE DEF k, s
<1>4. s[k - 1] = User(q) /\ s[k] = Assistant(q)
  BY <1>3
<1>5. TurnIn(q, s)
  BY <1>2, <1>4 DEF TurnIn
<1>6. QED
  BY <1>5 DEF s

LEMMA AddedStep ==
  ASSUME SingleProcess, TypeOK, LocksInv, ThreadInv, NEW q \in Requests, NEW pc \in Written,
         req[q].pc \in Holding, Moved(q, pc, req[q].thread),
         NEW m \in Message, m.of = q, Added(req[q].thread, m),
         m.role = "assistant" =>
           /\ messages[req[q].thread] # <<>>
           /\ messages[req[q].thread][Len(messages[req[q].thread])] = User(q),
         Local(q)', Window(q)', Acked(q)'
  PROVE  ThreadInv'
<1> DEFINE t == req[q].thread
<1>1. t \in Threads /\ messages[t] \in Seq(Message)
  BY DEF TypeOK, Holding, Section
<1>2. /\ Len(messages[t]) \in Nat
      /\ DOMAIN messages'[t] = 1 .. Len(messages[t]) + 1
      /\ DOMAIN messages[t] = 1 .. Len(messages[t])
      /\ \A k \in DOMAIN messages[t] : messages'[t][k] = messages[t][k]
      /\ messages'[t][Len(messages[t]) + 1] = m
  BY <1>1 DEF Added
<1>3. ASSUME NEW p \in Requests, p # q PROVE Local(p)' /\ Window(p)' /\ Acked(p)'
  <2>1. req'[p] = req[p] /\ status' = status
    BY <1>3 DEF Moved, Added
  <2>2. Window(p)'
    <3>1. SUFFICES ASSUME req[p].pc = "running", NEW k \in DOMAIN req[p].window,
                          req[p].window[k].of # p
                   PROVE  req'[req[p].window[k].of].pc = "done"
      BY <2>1 DEF ThreadInv, Window
    <3>2. req[req[p].window[k].of].pc = "done" /\ req[p].window[k].of \in Requests
      BY <3>1, WindowAuthorType DEF ThreadInv, Window
    <3>3. QED
      BY <3>2 DEF Moved, Holding, Section
  <2>3. CASE req[p].thread # t
    <3>1. req[p].thread \in Threads => messages'[req[p].thread] = messages[req[p].thread]
      BY <2>3 DEF Added
    <3>2. req[p].pc # "new" => req[p].thread \in Threads
      BY DEF TypeOK
    <3>3. Local(p) /\ Acked(p)
      BY DEF ThreadInv
    <3>4. Local(p)'
      BY <2>1, <3>1, <3>2, <3>3 DEF Local, Stored, CopyFresh, Asked, Known, Ended, Written
    <3>5. Acked(p)'
      BY <2>1, <3>1, <3>2, <3>3 DEF Acked, Local, Ended
    <3>6. QED
      BY <2>2, <3>4, <3>5
  <2>4. CASE req[p].thread = t
    <3>1. req[p].pc \notin Holding
      BY <1>3, <2>4, OneHolder
    <3>2. Local(p) /\ Acked(p)
      BY DEF ThreadInv
    <3>3. Local(p)'
      BY <2>1, <3>1, <3>2
      DEF Local, Stored, CopyFresh, Asked, Known, Ended, Written, Holding, Section
    <3>4. TurnIn(p, messages[t]) => TurnIn(p, messages'[t])
      BY <1>1, TurnKept DEF Added
    <3>5. Acked(p)'
      BY <2>1, <2>4, <3>2, <3>4 DEF Acked
    <3>6. QED
      BY <2>2, <3>3, <3>5
  <2>5. QED
    BY <2>3, <2>4
<1>4. ASSUME NEW u \in Threads PROVE Authors(u)' /\ Pairs(u)'
  <2>1. ASSUME NEW p \in Requests, req[p].thread = u, req[p].pc \in Written
        PROVE  req'[p].thread = u /\ req'[p].pc \in Written
    BY <2>1 DEF Moved
  <2>2. \A k \in DOMAIN messages[u] :
          /\ req'[messages[u][k].of].thread = u
          /\ req'[messages[u][k].of].pc \in Written
    BY <2>1, AuthorType DEF ThreadInv, Authors
  <2>3. Pairs(u)
    BY DEF ThreadInv
  <2>4. CASE u # t
    BY <2>2, <2>3, <2>4 DEF Authors, Pairs, Added
  <2>5. CASE u = t
    <3> DEFINE n == Len(messages[t]) + 1
    <3>1. ASSUME NEW k \in DOMAIN messages'[t]
          PROVE  /\ k \in DOMAIN messages[t] \/ k = n
                 /\ k \in DOMAIN messages[t] => messages'[t][k] = messages[t][k]
                 /\ k \in DOMAIN messages[t] /\ k > 1 => messages'[t][k - 1] = messages[t][k - 1]
      BY <1>2, <3>1
    <3>2. messages'[t][n] = m /\ req'[q].thread = t /\ req'[q].pc \in Written
      BY <1>2 DEF Moved
    <3>3. m.role = "assistant" => n > 1 /\ messages'[t][n - 1] = User(q)
      BY <1>1, <1>2, EmptySeq
    <3> HIDE DEF n, t
    <3>4. ASSUME NEW k \in DOMAIN messages'[t]
          PROVE  /\ req'[messages'[t][k].of].thread = t
                 /\ req'[messages'[t][k].of].pc \in Written
      <4>1. CASE k \in DOMAIN messages[t]
        BY <2>2, <2>5, <3>1, <3>4, <4>1
      <4>2. CASE k = n
        BY <3>2, <4>2
      <4>3. QED
        BY <3>1, <3>4, <4>1, <4>2
    <3>5. ASSUME NEW k \in DOMAIN messages'[t], messages'[t][k].role = "assistant"
          PROVE  k > 1 /\ messages'[t][k - 1] = User(messages'[t][k].of)
      <4>1. CASE k \in DOMAIN messages[t]
        BY <2>3, <2>5, <3>1, <3>5, <4>1 DEF Pairs
      <4>2. CASE k = n
        BY <3>2, <3>3, <3>5, <4>2
      <4>3. QED
        BY <3>1, <3>5, <4>1, <4>2
    <3>6. QED
      BY <2>5, <3>4, <3>5 DEF Authors, Pairs
  <2>6. QED
    BY <2>4, <2>5
<1>5. QED
  BY <1>3, <1>4 DEF ThreadInv

LEMMA AskSaveInv ==
  ASSUME SingleProcess, TypeOK, LocksInv, ThreadInv, NEW q \in Requests, AskSave(q)
  PROVE  ThreadInv'
<1> DEFINE t == req[q].thread
<1>0. Save(t, Append(req[q].copy, User(q)))
  BY DEF AskSave
<1>1. /\ Moved(q, "window", t) /\ req[q].pc = "ask_save" /\ req'[q].result = req[q].result
      /\ Added(t, User(q)) /\ Local(q)
  BY <1>0, AskSaveShape, SaveAdds DEF ThreadInv
<1>2. User(q) \in Message /\ User(q).of = q /\ User(q).role # "assistant"
  BY MessageType DEF User
<1>3. t \in Threads /\ messages[t] \in Seq(Message)
  BY <1>1 DEF TypeOK
<1>4. messages'[t] # <<>> /\ messages'[t][Len(messages'[t])] = User(q)
  <2>1. messages'[t] = Append(messages[t], User(q))
    BY <1>1 DEF Added
  <2> DEFINE m == messages[t]
             u == User(q)
  <2>2. m \in Seq(Message) /\ u \in Message
    BY <1>2, <1>3
  <2> HIDE DEF m, u
  <2>3. Append(m, u) # <<>> /\ Append(m, u)[Len(Append(m, u))] = u
    BY <2>2, EmptySeq
  <2>4. QED
    BY <2>1, <2>3 DEF m, u
<1>5. Local(q)'
  BY <1>1, <1>4 DEF Local, Stored, CopyFresh, Asked, Known, Ended, Moved, Added
<1>6. Window(q)' /\ Acked(q)'
  BY <1>1 DEF Window, Acked, Moved, Local, Ended
<1>7. "window" \in Written /\ req[q].pc \in Holding
  BY <1>1 DEF Written, Holding, Section
<1>8. QED
  BY <1>1, <1>2, <1>5, <1>6, <1>7, AddedStep

LEMMA AnswerSaveInv ==
  ASSUME SingleProcess, TypeOK, LocksInv, ThreadInv, NEW q \in Requests, AnswerSave(q)
  PROVE  ThreadInv'
<1> DEFINE t == req[q].thread
<1>1. /\ Moved(q, "done", t) /\ req[q].pc = "ans_save" /\ req'[q].result = "ok"
      /\ Added(t, Assistant(q)) /\ Local(q)
  BY RespondShape, SaveAdds DEF AnswerSave, ThreadInv
<1>2. Assistant(q) \in Message /\ Assistant(q).of = q
  BY MessageType DEF Assistant
<1>3. t \in Threads /\ messages[t] \in Seq(Message)
  BY <1>1 DEF TypeOK
<1>4. messages[t] # <<>> /\ messages[t][Len(messages[t])] = User(q)
  BY <1>1 DEF Local, Stored, Asked, Written
<1>5. Local(q)'
  BY <1>1 DEF Local, Stored, CopyFresh, Asked, Known, Ended, Moved, Added, Written
<1>6. Acked(q)'
  <2>1. messages'[t] = Append(messages[t], Assistant(q))
    BY <1>1 DEF Added
  <2>2. TurnIn(q, messages'[t])
    BY <1>3, <1>4, <2>1, TurnAdded
  <2>3. QED
    BY <1>1, <2>2 DEF Acked, Moved
<1>7. Window(q)'
  BY <1>1 DEF Window, Moved
<1>8. "done" \in Written /\ req[q].pc \in Holding
  BY <1>1 DEF Written, Holding, Section
<1>9. QED
  BY <1>1, <1>2, <1>4, <1>5, <1>6, <1>7, <1>8, AddedStep

\* Creation, deletion and expiry: no request is in the middle of a section on
\* the thread, and a new thread is one no request has found yet.
LEMMA ThreadStepInv ==
  ASSUME SingleProcess, TypeOK, LocksInv, ThreadInv, NEW t \in Threads, ThreadStep(t)
  PROVE  ThreadInv'
<1>1. /\ req' = req /\ messages'[t] = <<>>
      /\ \/ CreateThread(t) /\ status'[t] = "stored"
         \/ (DeleteThread(t) \/ Expire(t)) /\ status'[t] = "gone"
      /\ \A u \in Threads : u # t => status'[u] = status[u] /\ messages'[u] = messages[u]
  BY ThreadShape
<1>2. ASSUME NEW q \in Requests, req[q].thread = t, req[q].pc # "new"
      PROVE  /\ req[q].pc \notin {"ask_save", "window", "ans_save"}
             /\ status'[t] = "stored" => req[q].pc = "done" /\ req[q].result = "404"
  <2>1. CASE CreateThread(t)
    <3>1. status[t] = "unborn"
      BY <2>1 DEF CreateThread
    <3>2. req[q].result = "404" /\ req[q].pc = "done"
      BY <1>2, <3>1 DEF ThreadInv, Local, Known, Ended
    <3>3. QED
      BY <3>2
  <2>2. CASE DeleteThread(t)
    <3>1. PICK i \in Instances : loop[i] = None
      BY <2>2 DEF DeleteThread
    <3>2. loop[Home[q]] # q
      BY <3>1, HomeType, ChatAssumption DEF SingleProcess
    <3>3. req[q].pc \notin Section
      BY <3>2 DEF LocksInv, Inside
    <3>4. status'[t] = "gone"
      BY <2>2 DEF DeleteThread, TypeOK
    <3>5. QED
      BY <3>3, <3>4 DEF Section
  <2>3. CASE Expire(t)
    <3>1. req[q].pc \notin Holding \ {"ask_get"} /\ status'[t] = "gone"
      BY <1>2, <2>3 DEF Expire, TypeOK
    <3>2. QED
      BY <3>1 DEF Holding, Section
  <2>4. QED
    BY <2>1, <2>2, <2>3 DEF ThreadStep
<1>3. ASSUME NEW q \in Requests PROVE Local(q)' /\ Acked(q)'
  <2>1. Local(q) /\ Acked(q)
    BY DEF ThreadInv
  <2>2. CASE req[q].pc = "new"
    BY <1>1, <2>1, <2>2 DEF Local, Stored, CopyFresh, Asked, Known, Ended, Acked, Written
  <2>3. CASE req[q].pc # "new" /\ req[q].thread = t
    BY <1>1, <1>2, <2>1, <2>3
    DEF Local, Stored, CopyFresh, Asked, Known, Ended, Acked, Written
  <2>4. CASE req[q].pc # "new" /\ req[q].thread # t
    <3>1. /\ messages'[req[q].thread] = messages[req[q].thread]
          /\ status'[req[q].thread] = status[req[q].thread]
      BY <1>1, <2>4 DEF TypeOK
    <3>2. QED
      BY <1>1, <2>1, <3>1 DEF Local, Stored, CopyFresh, Asked, Known, Ended, Acked
  <2>5. QED
    BY <2>2, <2>3, <2>4
<1>4. ASSUME NEW q \in Requests PROVE Window(q)'
  BY <1>1 DEF ThreadInv, Window
<1>5. ASSUME NEW u \in Threads PROVE Authors(u)' /\ Pairs(u)'
  BY <1>1 DEF ThreadInv, Authors, Pairs
<1>6. QED
  BY <1>3, <1>4, <1>5 DEF ThreadInv

LEMMA CrashInv ==
  ASSUME TypeOK, ThreadInv, NEW i \in Instances, Crash(i)
  PROVE  ThreadInv'
<1>1. UNCHANGED <<status, messages>>
  BY CrashShape
<1>2. \A q \in Requests :
        /\ Died(q, i) => /\ req'[q].pc = "done" /\ req'[q].thread = req[q].thread
                         /\ req'[q].result = "lost"
        /\ ~Died(q, i) => req'[q] = req[q]
  BY CrashShape
<1>3. ASSUME NEW q \in Requests PROVE Local(q)' /\ Acked(q)'
  <2>1. Local(q) /\ Acked(q)
    BY DEF ThreadInv
  <2>2. QED
    BY <1>1, <1>2, <2>1
    DEF Local, Stored, CopyFresh, Asked, Known, Ended, Acked, Died, Written
<1>4. ASSUME NEW q \in Requests PROVE Window(q)'
  <2>1. SUFFICES ASSUME req'[q].pc = "running" PROVE Window(q)'
    BY DEF Window
  <2>2. req'[q] = req[q] /\ Window(q)
    BY <1>2, <2>1 DEF ThreadInv
  <2>3. ASSUME NEW k \in DOMAIN req[q].window, req[q].window[k].of # q
        PROVE  req'[req[q].window[k].of].pc = "done"
    BY <1>2, <2>1, <2>2, <2>3, WindowAuthorType DEF Window
  <2>4. QED
    BY <2>1, <2>2, <2>3 DEF Window
<1>5. ASSUME NEW u \in Threads PROVE Authors(u)' /\ Pairs(u)'
  <2>1. ASSUME NEW p \in Requests, req[p].thread = u, req[p].pc \in Written
        PROVE  req'[p].thread = u /\ req'[p].pc \in Written
    BY <1>2, <2>1 DEF Written
  <2>2. Authors(u)'
    BY <1>1, <2>1, AuthorType DEF ThreadInv, Authors
  <2>3. QED
    BY <1>1, <2>2 DEF ThreadInv, Pairs
<1>6. QED
  BY <1>3, <1>4, <1>5 DEF ThreadInv

LEMMA ThreadInvStep ==
  ASSUME SingleProcess, TypeOK, LocksInv, ThreadInv, [Next]_vars
  PROVE  ThreadInv'
<1>1. CASE UNCHANGED vars
  BY <1>1
  DEF vars, ThreadInv, Local, Stored, CopyFresh, Asked, Known, Ended, Window, Acked,
      Authors, Pairs
<1>2. QED
  BY <1>1, QuietRequestStep, AskSaveInv, AnswerSaveInv, ThreadStepInv, CrashInv, StepCases

-----------------------------------------------------------------------------
(* The theorems *)

LEMMA InvCorrect ==
  ASSUME SingleProcess
  PROVE  Spec => [](TypeOK /\ LocksInv /\ ThreadInv)
<1>1. Init => TypeOK /\ LocksInv /\ ThreadInv
  BY TypeInit, InitInv
<1>2. TypeOK /\ LocksInv /\ ThreadInv /\ [Next]_vars => (TypeOK /\ LocksInv /\ ThreadInv)'
  BY TypeStep, LocksStep, ThreadInvStep
<1>3. QED
  BY <1>1, <1>2, PTL DEF Spec

\* With one server process, an answer in a thread's history directly follows
\* its question, however many requests wait, fail, or are cut off.
THEOREM AnswersFollowQuestionsCorrect ==
  ASSUME SingleProcess
  PROVE  Spec => []AnswersFollowQuestions
<1>1. ThreadInv => AnswersFollowQuestions
  BY DEF ThreadInv, Pairs, AnswersFollowQuestions
<1>2. QED
  BY <1>1, InvCorrect, PTL

\* With one server process, a turn whose answer was sent stays in the history.
THEOREM AcknowledgedTurnKeptCorrect ==
  ASSUME SingleProcess
  PROVE  Spec => []AcknowledgedTurnKept
<1>1. ThreadInv => AcknowledgedTurnKept
  BY DEF ThreadInv, Acked, TurnIn, AcknowledgedTurnKept
<1>2. QED
  BY <1>1, InvCorrect, PTL

\* With one server process, the pipeline's history ends with the question it
\* answers and holds no turn in progress.
THEOREM WindowSettledCorrect ==
  ASSUME SingleProcess
  PROVE  Spec => []WindowSettled
<1>1. ThreadInv => WindowSettled
  BY DEF ThreadInv, Window, WindowSettled
<1>2. QED
  BY <1>1, InvCorrect, PTL

\* What HistoryOnlyGrows says of one step.
GrowsStep ==
  \A t \in Threads :
    /\ status[t] = "gone" => status'[t] = "gone"
    /\ status[t] = "stored" /\ status'[t] = "stored" =>
         /\ Len(messages'[t]) >= Len(messages[t])
         /\ SubSeq(messages'[t], 1, Len(messages[t])) = messages[t]

LEMMA GrowsBy ==
  ASSUME NEW S, NEW s \in Seq(S), NEW e \in S
  PROVE  /\ Len(Append(s, e)) >= Len(s) /\ SubSeq(Append(s, e), 1, Len(s)) = s
         /\ Len(s) >= Len(s) /\ SubSeq(s, 1, Len(s)) = s
OBVIOUS

LEMMA GrowsSame ==
  ASSUME TypeOK, NEW t \in Threads, status'[t] = status[t], messages'[t] = messages[t]
  PROVE  /\ status[t] = "gone" => status'[t] = "gone"
         /\ Len(messages'[t]) >= Len(messages[t])
         /\ SubSeq(messages'[t], 1, Len(messages[t])) = messages[t]
<1>1. messages[t] \in Seq(Message)
  BY DEF TypeOK
<1>2. QED
  BY <1>1

LEMMA GrowsAdded ==
  ASSUME TypeOK, NEW t \in Threads, NEW m \in Message, Added(t, m)
  PROVE  GrowsStep
<1>1. messages[t] \in Seq(Message) /\ messages'[t] = Append(messages[t], m)
  BY DEF TypeOK, Added
<1>2. /\ Len(messages'[t]) >= Len(messages[t])
      /\ SubSeq(messages'[t], 1, Len(messages[t])) = messages[t]
  BY <1>1, GrowsBy
<1>3. QED
  BY <1>2, GrowsSame DEF Added, GrowsStep

LEMMA Grows ==
  ASSUME TypeOK, ThreadInv, [Next]_vars
  PROVE  GrowsStep
<1>1. ASSUME UNCHANGED <<status, messages>> PROVE GrowsStep
  BY <1>1, GrowsSame DEF GrowsStep
<1>2. CASE UNCHANGED vars
  BY <1>1, <1>2 DEF vars
<1>3. ASSUME NEW q \in Requests, RequestStep(q) PROVE GrowsStep
  <2>1. CASE AskSave(q)
    <3>1. Save(req[q].thread, Append(req[q].copy, User(q))) /\ req[q].pc = "ask_save"
      BY <2>1 DEF AskSave
    <3>2. req[q].thread \in Threads
      BY <3>1 DEF TypeOK
    <3>3. QED
      BY <3>1, <3>2, SaveAdds, GrowsAdded, MessageType
  <2>2. CASE AnswerSave(q)
    <3>1. Save(req[q].thread, Append(req[q].copy, Assistant(q))) /\ req[q].pc = "ans_save"
      BY <2>2 DEF AnswerSave
    <3>2. req[q].thread \in Threads
      BY <3>1 DEF TypeOK
    <3>3. QED
      BY <3>1, <3>2, SaveAdds, GrowsAdded, MessageType
  <2>3. CASE ~AskSave(q) /\ ~AnswerSave(q)
    <3>1. UNCHANGED <<status, messages>>
      BY <1>3, <2>3
      DEF RequestStep, Arrive, HandlerStep, NotFound, Wait, Enter, Resume, AppendGet,
          TakeWindow, PipelineReturns, AppendKeyError, StoreFails
    <3>2. QED
      BY <1>1, <3>1
  <2>4. QED
    BY <2>1, <2>2, <2>3
<1>4. ASSUME NEW t \in Threads, ThreadStep(t) PROVE GrowsStep
  <2>1. status[t] = "unborn" \/ status'[t] = "gone"
    BY <1>4, ThreadShape DEF CreateThread
  <2>2. QED
    BY <1>4, <2>1, ThreadShape, GrowsSame DEF GrowsStep
<1>5. ASSUME NEW i \in Instances, Crash(i) PROVE GrowsStep
  BY <1>1, <1>5, CrashShape
<1>6. QED
  BY <1>2, <1>3, <1>4, <1>5, StepCases

\* With one server process, a history is only ever appended to, and a thread
\* that was deleted or has expired does not come back.
THEOREM HistoryOnlyGrowsCorrect ==
  ASSUME SingleProcess
  PROVE  Spec => HistoryOnlyGrows
<1>1. TypeOK /\ ThreadInv /\ [Next]_vars => [GrowsStep]_vars
  BY Grows
<1>2. QED
  BY <1>1, InvCorrect, PTL DEF Spec, HistoryOnlyGrows, GrowsStep
=============================================================================
