---------------------------- MODULE ChatThreads ----------------------------
(***************************************************************************)
(* The conversation API: POST /threads/{id}/chat with its per-thread lock, *)
(* thread creation and deletion, and the session store behind them.        *)
(*                                                                         *)
(* Every handler is `async def` on one event loop per server process: it   *)
(* is interrupted only where it awaits (the lock, the pipeline).  The code *)
(* between two awaits is a sequence of store calls, one action each; the   *)
(* handlers of another process sharing the store can run in between.       *)
(*                                                                         *)
(* Abstracted: a message is its role and the request it belongs to; a      *)
(* request is a POST on one thread.  Thread ids (uuid4) are never reused.  *)
(* Expired rows are purged by the read that would have found them, so      *)
(* expiry is a step of its own.                                            *)
(***************************************************************************)
EXTENDS Naturals, Sequences

CONSTANTS
  Instances,     \* server processes sharing the session store
  Requests,      \* POST .../chat requests
  Home,          \* Home[q]: the process that serves request q
  Threads,       \* thread ids
  None,          \* no request / no thread
  HistoryTurns,  \* n of get_last_n_turns
  MaxFaults      \* bound on store failures and crashes

ASSUME ChatAssumption ==
  /\ Home \in [Requests -> Instances]
  /\ None \notin Requests \cup Threads
  /\ HistoryTurns \in Nat \ {0}
  /\ MaxFaults \in Nat

VARIABLES
  status,    \* status[t]: "unborn", "stored" (the row exists) or "gone"
  messages,  \* messages[t]: Thread.messages
  lock,      \* lock[i, t]: request inside process i's lock of thread t
  queue,     \* queue[<<i, t>>]: requests waiting for that lock, in order
  loop,      \* loop[i]: request whose code occupies i's event loop
  req,       \* req[q]: the handler's local state
  faults     \* store failures and crashes so far

store == <<status, messages>>
vars == <<status, messages, lock, queue, loop, req, faults>>

-----------------------------------------------------------------------------
(* State *)

User(q) == [role |-> "user", of |-> q]
Assistant(q) == [role |-> "assistant", of |-> q]
Message == [role : {"user", "assistant"}, of : Requests]

\* Points of the handler that run to the next await without giving way.
Section == {"ask_get", "ask_save", "window", "ans_get", "ans_save"}

\* Points inside `async with mgr.request_lock(thread_id)`.
Holding == Section \cup {"running"}

Request ==
  [pc     : Holding \cup {"new", "waiting", "done"},
   thread : Threads \cup {None},
   copy   : Seq(Message),  \* thread.messages as append_message read it
   window : Seq(Message),  \* history handed to the pipeline
   result : {"none", "ok", "404", "500", "lost"}]

\* m[-(n * 2):]
LastMessages(m) ==
  SubSeq(m, IF Len(m) > 2 * HistoryTurns THEN Len(m) - 2 * HistoryTurns + 1 ELSE 1,
         Len(m))

Key(q) == <<Home[q], req[q].thread>>

Fault == faults < MaxFaults /\ faults' = faults + 1

\* Thread t's row is replaced, or inserted if it is not there.
Save(t, m) ==
  /\ status' = [status EXCEPT ![t] = "stored"]
  /\ messages' = [messages EXCEPT ![t] = m]

\* A bug: the lock is only released on the way out of a successful answer.
RespondKeepingLock(q, result) ==
  /\ req' = [req EXCEPT ![q] = [req[q] EXCEPT !.pc = "done", !.result = result]]
  /\ lock' = IF result = "ok" THEN [lock EXCEPT ![Key(q)] = None] ELSE lock
  /\ loop' = [loop EXCEPT ![Home[q]] = None]

\* The handler leaves the lock, by returning or by an exception.
Respond(q, result) ==
  /\ req' = [req EXCEPT ![q] = [req[q] EXCEPT !.pc = "done", !.result = result]]
  /\ lock' = [lock EXCEPT ![Key(q)] = None]
  /\ loop' = [loop EXCEPT ![Home[q]] = None]

-----------------------------------------------------------------------------
(* POST /threads/{thread_id}/chat *)

NotFound(q, t) ==
  /\ req[q].pc = "new"
  /\ loop[Home[q]] = None
  /\ status[t] # "stored"
  /\ req' = [req EXCEPT ![q] = [req[q] EXCEPT !.pc = "done", !.thread = t,
                                             !.result = "404"]]
  /\ UNCHANGED <<status, messages, lock, queue, loop, faults>>

\* A bug: only the line is looked at, not the holder.
ContendedByWaiters(i, t) == queue[<<i, t>>] # <<>>

Contended(i, t) == lock[<<i, t>>] # None \/ queue[<<i, t>>] # <<>>

\* The thread exists; its lock is taken or others are in line for it.
Wait(q, t) ==
  /\ req[q].pc = "new"
  /\ loop[Home[q]] = None
  /\ status[t] = "stored"
  /\ Contended(Home[q], t)
  /\ queue' = [queue EXCEPT ![<<Home[q], t>>] = Append(@, q)]
  /\ req' = [req EXCEPT ![q] = [req[q] EXCEPT !.pc = "waiting", !.thread = t]]
  /\ UNCHANGED <<status, messages, lock, loop, faults>>

\* A bug: no per-thread lock.
EnterUnlocked(q, t) ==
  /\ req[q].pc = "new"
  /\ loop[Home[q]] = None
  /\ status[t] = "stored"
  /\ lock' = [lock EXCEPT ![<<Home[q], t>>] = q]
  /\ loop' = [loop EXCEPT ![Home[q]] = q]
  /\ req' = [req EXCEPT ![q] = [req[q] EXCEPT !.pc = "ask_get", !.thread = t]]
  /\ UNCHANGED <<status, messages, queue, faults>>

\* A free lock is taken without giving way to the event loop.
Enter(q, t) ==
  /\ req[q].pc = "new"
  /\ loop[Home[q]] = None
  /\ status[t] = "stored"
  /\ ~Contended(Home[q], t)
  /\ lock' = [lock EXCEPT ![<<Home[q], t>>] = q]
  /\ loop' = [loop EXCEPT ![Home[q]] = q]
  /\ req' = [req EXCEPT ![q] = [req[q] EXCEPT !.pc = "ask_get", !.thread = t]]
  /\ UNCHANGED <<status, messages, queue, faults>>

\* The first in line wakes up inside the lock; asyncio locks are fair.
Resume(q) ==
  /\ req[q].pc = "waiting"
  /\ loop[Home[q]] = None
  /\ lock[Key(q)] = None
  /\ queue[Key(q)] # <<>> /\ Head(queue[Key(q)]) = q
  /\ lock' = [lock EXCEPT ![Key(q)] = q]
  /\ queue' = [queue EXCEPT ![Key(q)] = Tail(@)]
  /\ loop' = [loop EXCEPT ![Home[q]] = q]
  /\ req' = [req EXCEPT ![q].pc = "ask_get"]
  /\ UNCHANGED <<status, messages, faults>>

\* append_message reads the thread again.
AppendGet(q, from, to) ==
  /\ req[q].pc = from
  /\ status[req[q].thread] = "stored"
  /\ req' = [req EXCEPT ![q] = [req[q] EXCEPT !.pc = to,
                                             !.copy = messages[req[q].thread]]]
  /\ UNCHANGED <<status, messages, lock, queue, loop, faults>>

\* The thread was deleted, or expired, since the handler looked it up.
AppendKeyError(q) ==
  /\ req[q].pc \in {"ask_get", "ans_get"}
  /\ status[req[q].thread] # "stored"
  /\ Respond(q, "500")
  /\ UNCHANGED <<status, messages, queue, faults>>

AskSave(q) ==
  /\ req[q].pc = "ask_save"
  /\ Save(req[q].thread, Append(req[q].copy, User(q)))
  /\ req' = [req EXCEPT ![q].pc = "window"]
  /\ UNCHANGED <<lock, queue, loop, faults>>

\* get_last_n_turns, then the handler awaits pipeline.run.
TakeWindow(q) ==
  /\ req[q].pc = "window"
  /\ req' = [req EXCEPT ![q] =
              [req[q] EXCEPT !.pc = "running",
                             !.window = LastMessages(messages[req[q].thread])]]
  /\ loop' = [loop EXCEPT ![Home[q]] = None]
  /\ UNCHANGED <<status, messages, lock, queue, faults>>

\* A bug: the answer is added to the Thread object read for the question.
PipelineReturnsToStaleCopy(q) ==
  /\ req[q].pc = "running"
  /\ loop[Home[q]] = None
  /\ loop' = [loop EXCEPT ![Home[q]] = q]
  /\ req' = [req EXCEPT ![q] = [req[q] EXCEPT !.pc = "ans_save",
                                             !.copy = Append(@, User(q))]]
  /\ UNCHANGED <<status, messages, lock, queue, faults>>

\* pipeline.run maps every failure of its stages to an answer.
PipelineReturns(q) ==
  /\ req[q].pc = "running"
  /\ loop[Home[q]] = None
  /\ loop' = [loop EXCEPT ![Home[q]] = q]
  /\ req' = [req EXCEPT ![q].pc = "ans_get"]
  /\ UNCHANGED <<status, messages, lock, queue, faults>>

\* A bug: the history is trimmed to the window when the answer is saved.
AnswerSaveTrimmed(q) ==
  /\ req[q].pc = "ans_save"
  /\ Save(req[q].thread, Append(req[q].window, Assistant(q)))
  /\ Respond(q, "ok")
  /\ UNCHANGED <<queue, faults>>

AnswerSave(q) ==
  /\ req[q].pc = "ans_save"
  /\ Save(req[q].thread, Append(req[q].copy, Assistant(q)))
  /\ Respond(q, "ok")
  /\ UNCHANGED <<queue, faults>>

\* A store call raises (Redis unreachable, database locked).
StoreFails(q) ==
  /\ req[q].pc \in Section
  /\ Fault
  /\ Respond(q, "500")
  /\ UNCHANGED <<status, messages, queue>>

-----------------------------------------------------------------------------
(* The other handlers, time and crashes *)

CreateThread(t) ==
  /\ status[t] = "unborn"
  /\ \E i \in Instances : loop[i] = None
  /\ Save(t, <<>>)
  /\ UNCHANGED <<lock, queue, loop, req, faults>>

\* DELETE takes no lock: a request on the thread may be waiting or running.
DeleteThread(t) ==
  /\ status[t] = "stored"
  /\ \E i \in Instances : loop[i] = None
  /\ status' = [status EXCEPT ![t] = "gone"]
  /\ messages' = [messages EXCEPT ![t] = <<>>]
  /\ UNCHANGED <<lock, queue, loop, req, faults>>

\* The TTL (hours) runs from the last save: no request that has just saved, or
\* is about to refresh what it read, sees its thread expire.
Expire(t) ==
  /\ status[t] = "stored"
  /\ \A q \in Requests :
       req[q].thread = t => req[q].pc \notin Holding \ {"ask_get"}
  /\ status' = [status EXCEPT ![t] = "gone"]
  /\ messages' = [messages EXCEPT ![t] = <<>>]
  /\ UNCHANGED <<lock, queue, loop, req, faults>>

\* The process dies: its requests and locks are lost, the store is not.
Crash(i) ==
  /\ Fault
  /\ req' = [q \in Requests |->
               IF Home[q] = i /\ req[q].pc \notin {"new", "done"}
               THEN [req[q] EXCEPT !.pc = "done", !.result = "lost"]
               ELSE req[q]]
  /\ lock' = [k \in Instances \X Threads |-> IF k[1] = i THEN None ELSE lock[k]]
  /\ queue' = [k \in Instances \X Threads |-> IF k[1] = i THEN <<>> ELSE queue[k]]
  /\ loop' = [loop EXCEPT ![i] = None]
  /\ UNCHANGED <<status, messages>>

-----------------------------------------------------------------------------
(* Specification *)

Init ==
  /\ status = [t \in Threads |-> "unborn"]
  /\ messages = [t \in Threads |-> <<>>]
  /\ lock = [k \in Instances \X Threads |-> None]
  /\ queue = [k \in Instances \X Threads |-> <<>>]
  /\ loop = [i \in Instances |-> None]
  /\ req = [q \in Requests |-> [pc |-> "new", thread |-> None, copy |-> <<>>,
                                window |-> <<>>, result |-> "none"]]
  /\ faults = 0

Arrive(q, t) == NotFound(q, t) \/ Wait(q, t) \/ Enter(q, t)

\* The steps the event loop takes for an accepted request.
HandlerStep(q) ==
  \/ Resume(q)
  \/ AppendGet(q, "ask_get", "ask_save")
  \/ AskSave(q)
  \/ TakeWindow(q)
  \/ PipelineReturns(q)
  \/ AppendGet(q, "ans_get", "ans_save")
  \/ AppendKeyError(q)
  \/ AnswerSave(q)

Next ==
  \/ \E q \in Requests, t \in Threads : Arrive(q, t)
  \/ \E q \in Requests : HandlerStep(q) \/ StoreFails(q)
  \/ \E t \in Threads : CreateThread(t) \/ DeleteThread(t) \/ Expire(t)
  \/ \E i \in Instances : Crash(i)

Spec == Init /\ [][Next]_vars

\* The event loop runs every ready handler, and the pipeline returns: each of
\* its stages is bounded by a timeout or by the LLM client's own.
FairSpec == Spec /\ \A q \in Requests : WF_vars(HandlerStep(q))
=============================================================================
