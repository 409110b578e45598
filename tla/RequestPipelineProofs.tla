----------------------- MODULE RequestPipelineProofs -----------------------
(***************************************************************************)
(* Safety of the request pipeline over a shared pool, for any number of    *)
(* requests, queries and threads, and whatever hangs, raises or is late.   *)
(***************************************************************************)
EXTENDS RequestPipeline, DataFacts

-----------------------------------------------------------------------------
(* Sequences without repetition *)

Distinct(s) == \A i, j \in DOMAIN s : s[i] = s[j] => i = j

LEMMA AppendSet ==
  ASSUME NEW S, NEW s \in Seq(S), NEW e \in S, Distinct(s), e \notin ToSet(s)
  PROVE  /\ Append(s, e) \in Seq(S) /\ Distinct(Append(s, e))
         /\ ToSet(Append(s, e)) = ToSet(s) \cup {e}
<1> DEFINE t == Append(s, e)
           n == Len(s)
<1>1. /\ t \in Seq(S) /\ Len(t) = n + 1 /\ n \in Nat
      /\ \A i \in 1..n : t[i] = s[i]
      /\ t[n + 1] = e
  BY AppendProperties
<1>2. DOMAIN s = 1..n /\ DOMAIN t = 1..n + 1
  BY <1>1
<1> HIDE DEF t, n
<1>3. \A i \in 1..n : s[i] # e
  BY <1>2 DEF ToSet
<1>4. Distinct(t)
  BY <1>1, <1>2, <1>3 DEF Distinct
<1>5. ToSet(t) = ToSet(s) \cup {e}
  <2>1. \A i \in DOMAIN t : t[i] \in ToSet(s) \cup {e}
    BY <1>1, <1>2 DEF ToSet
  <2>2. \A i \in DOMAIN s : s[i] \in ToSet(t)
    BY <1>1, <1>2 DEF ToSet
  <2>3. e \in ToSet(t)
    BY <1>1, <1>2 DEF ToSet
  <2>4. QED
    BY <2>1, <2>2, <2>3 DEF ToSet
<1>6. QED
  BY <1>1, <1>4, <1>5 DEF t

LEMMA TailSet ==
  ASSUME NEW S, NEW s \in Seq(S), s # <<>>, Distinct(s)
  PROVE  /\ Tail(s) \in Seq(S) /\ Distinct(Tail(s))
         /\ Head(s) \in S /\ Head(s) \in ToSet(s)
         /\ ToSet(Tail(s)) = ToSet(s) \ {Head(s)}
<1> DEFINE t == Tail(s)
           n == Len(s)
<1>1. /\ t \in Seq(S) /\ Len(t) = n - 1 /\ n \in Nat /\ Head(s) \in S
      /\ \A i \in 1..Len(t) : t[i] = s[i + 1]
  BY HeadTailProperties
<1>2. DOMAIN s = 1..n /\ DOMAIN t = 1..n - 1 /\ n # 0 /\ Head(s) = s[1]
  <2>1. n # 0
    BY EmptySeq
  <2>2. Head(s) = s[1]
    OBVIOUS
  <2>3. DOMAIN s = 1..n
    OBVIOUS
  <2>4. DOMAIN t = 1..Len(t)
    BY <1>1
  <2>5. QED
    BY <1>1, <2>1, <2>2, <2>3, <2>4
<1> HIDE DEF t, n
<1>3. \A i \in 1..n - 1 : t[i] = s[i + 1]
  BY <1>1
<1>4. Distinct(t)
  <2> SUFFICES ASSUME NEW i \in 1..n - 1, NEW j \in 1..n - 1, t[i] = t[j]
               PROVE  i = j
    BY <1>2 DEF Distinct
  <2>1. i + 1 \in DOMAIN s /\ j + 1 \in DOMAIN s /\ s[i + 1] = s[j + 1]
    BY <1>1, <1>2, <1>3
  <2>2. i + 1 = j + 1
    BY <2>1 DEF Distinct
  <2>3. QED
    BY <1>1, <2>2
<1>5. Head(s) \in ToSet(s)
  BY <1>1, <1>2 DEF ToSet
<1>6. ToSet(t) = ToSet(s) \ {Head(s)}
  <2>1. \A i \in DOMAIN t : t[i] \in ToSet(s) /\ t[i] # s[1]
    BY <1>1, <1>2, <1>3 DEF ToSet, Distinct
  <2>2. \A i \in DOMAIN s : s[i] # s[1] => i - 1 \in DOMAIN t /\ t[i - 1] = s[i]
    BY <1>1, <1>2, <1>3
  <2>3. QED
    BY <1>2, <2>1, <2>2 DEF ToSet
<1>7. QED
  BY <1>1, <1>4, <1>5, <1>6 DEF t

\* The smallest element of a set of numbers that has one.
LEMMA LeastIndex ==
  ASSUME NEW n \in Nat, NEW s, NEW e, NEW j \in 1..n, s[j] = e,
         \A i, k \in 1..n : s[i] = s[k] => i = k
  PROVE  Min({i \in 1..n : s[i] = e}) = j
<1> DEFINE I == {i \in 1..n : s[i] = e}
<1>1. I = {j}
  OBVIOUS
<1>2. Min({j}) = CHOOSE x \in {j} : \A y \in {j} : x <= y
  BY DEF Min
<1>3. \A y \in {j} : j <= y
  OBVIOUS
<1>4. Min({j}) = j
  BY <1>2, <1>3
<1>5. QED
  BY <1>1, <1>4

LEMMA PartOf ==
  ASSUME NEW S, NEW s \in Seq(S), NEW m \in 1..Len(s) + 1, NEW k \in 0..Len(s), m <= k + 1
  PROVE  /\ SubSeq(s, m, k) \in Seq(S)
         /\ Len(SubSeq(s, m, k)) = k + 1 - m
         /\ \A i \in 1..k + 1 - m : SubSeq(s, m, k)[i] = s[m + i - 1]
<1>1. Len(s) \in Nat /\ m \in Int /\ k \in Int
  OBVIOUS
<1>2. \A i \in m..k : s[i] \in S
  BY <1>1
<1> DEFINE part == SubSeq(s, m, k)
<1>3. /\ part \in Seq(S)
      /\ Len(part) = IF m <= k THEN k - m + 1 ELSE 0
      /\ \A i \in 1..k - m + 1 : part[i] = s[m + i - 1]
  BY <1>1, <1>2, SubSeqProperties
<1> HIDE DEF part
<1>4. k - m + 1 = k + 1 - m /\ (m <= k \/ k - m + 1 = 0)
  BY <1>1
<1>5. QED
  BY <1>3, <1>4 DEF part

LEMMA RemoveFirstSet ==
  ASSUME NEW S, NEW s \in Seq(S), Distinct(s), NEW e
  PROVE  LET t == RemoveFirst(s, e)
         IN  t \in Seq(S) /\ Distinct(t) /\ ToSet(t) = ToSet(s) \ {e}
<1> DEFINE n == Len(s)
<1>1. n \in Nat /\ DOMAIN s = 1..n /\ \A i \in 1..n : s[i] \in S
  OBVIOUS
<1> HIDE DEF n
<1>2. CASE \E j \in 1..n : s[j] = e
  <2>1. PICK j \in 1..n : s[j] = e
    BY <1>2
  <2>2. \A i, k \in 1..n : s[i] = s[k] => i = k
    BY <1>1 DEF Distinct
  <2>3. RemoveFirst(s, e) = RemoveAt(s, j)
    <3>1. {i \in 1..n : s[i] = e} # {}
      BY <2>1
    <3>2. SelectInSeq(s, LAMBDA v : v = e) = Min({i \in 1..n : s[i] = e})
      BY <3>1 DEF SelectInSeq, n
    <3>3. Min({i \in 1..n : s[i] = e}) = j
      BY <1>1, <2>1, <2>2, LeastIndex
    <3>4. QED
      BY <1>2, <3>2, <3>3 DEF RemoveFirst, n
  <2> DEFINE a == SubSeq(s, 1, j - 1)
             b == SubSeq(s, j + 1, n)
             t == a \o b
  <2>4. /\ a \in Seq(S) /\ Len(a) = j - 1
        /\ \A i \in 1..j - 1 : a[i] = s[i]
    <3>1. 1 \in 1..n + 1 /\ j - 1 \in 0..n /\ 1 <= (j - 1) + 1
      BY <1>1
    <3>2. /\ a \in Seq(S) /\ Len(a) = (j - 1) + 1 - 1
          /\ \A i \in 1..(j - 1) + 1 - 1 : a[i] = s[1 + i - 1]
      BY <3>1, PartOf DEF n
    <3>3. (j - 1) + 1 - 1 = j - 1 /\ \A i \in 1..j - 1 : 1 + i - 1 = i
      BY <1>1
    <3> HIDE DEF a
    <3>4. QED
      BY <3>2, <3>3
  <2>5. /\ b \in Seq(S) /\ Len(b) = n - j
        /\ \A i \in 1..n - j : b[i] = s[i + j]
    <3>1. j + 1 \in 1..n + 1 /\ n \in 0..n
      BY <1>1
    <3>2. /\ b \in Seq(S) /\ Len(b) = n + 1 - (j + 1)
          /\ \A i \in 1..n + 1 - (j + 1) : b[i] = s[j + 1 + i - 1]
      BY <3>1, PartOf DEF n
    <3>3. n + 1 - (j + 1) = n - j /\ \A i \in 1..n - j : j + 1 + i - 1 = i + j
      <4>1. n \in Int /\ j \in Int
        BY <1>1
      <4>2. \A i \in 1..n - j : j + 1 + i - 1 = i + j
        BY <4>1
      <4>3. QED
        BY <4>1, <4>2
    <3> HIDE DEF b
    <3>4. QED
      BY <3>2, <3>3
  <2> HIDE DEF a, b
  <2>6. /\ t \in Seq(S) /\ DOMAIN t = 1..n - 1
        /\ \A i \in 1..n - 1 : t[i] = IF i < j THEN s[i] ELSE s[i + 1]
    <3>1. /\ t \in Seq(S) /\ Len(t) = (j - 1) + (n - j)
          /\ \A i \in 1..(j - 1) + (n - j) : t[i] = IF i <= j - 1 THEN a[i] ELSE b[i - (j - 1)]
      <4>1. /\ t \in Seq(S) /\ Len(t) = Len(a) + Len(b)
            /\ \A i \in 1..Len(a) + Len(b) :
                 t[i] = IF i <= Len(a) THEN a[i] ELSE b[i - Len(a)]
        BY <2>4, <2>5, ConcatProperties
      <4> HIDE DEF t
      <4>2. QED
        BY <2>4, <2>5, <4>1
    <3>2. (j - 1) + (n - j) = n - 1
      BY <1>1
    <3> HIDE DEF t
    <3>3. ASSUME NEW i \in 1..n - 1 PROVE t[i] = IF i < j THEN s[i] ELSE s[i + 1]
      <4>1. CASE i < j
        <5>1. i \in 1..j - 1
          BY <1>1, <4>1
        <5>2. a[i] = s[i]
          BY <2>4, <5>1
        <5>3. QED
          BY <1>1, <3>1, <3>2, <4>1, <5>1, <5>2
      <4>2. CASE ~(i < j)
        <5>1. i - (j - 1) \in 1..n - j /\ i - (j - 1) + j = i + 1
          BY <1>1, <4>2
        <5>2. b[i - (j - 1)] = s[i + 1]
          BY <2>5, <5>1
        <5>3. QED
          BY <1>1, <3>1, <3>2, <4>2, <5>2
      <4>3. QED
        BY <4>1, <4>2
    <3>4. DOMAIN t = 1..Len(t)
      BY <3>1
    <3>5. QED
      BY <3>1, <3>2, <3>3, <3>4
  <2> HIDE DEF t
  <2>7. Distinct(t)
    BY <1>1, <2>2, <2>6 DEF Distinct
  <2>8. ToSet(t) = ToSet(s) \ {e}
    <3>1. \A i \in DOMAIN t : t[i] \in ToSet(s) /\ t[i] # e
      BY <1>1, <2>1, <2>2, <2>6 DEF ToSet
    <3>2. \A i \in DOMAIN s : s[i] # e => \E k \in DOMAIN t : t[k] = s[i]
      <4> SUFFICES ASSUME NEW i \in 1..n, s[i] # e
                   PROVE  \E k \in 1..n - 1 : t[k] = s[i]
        BY <1>1, <2>6
      <4>1. CASE i < j
        BY <1>1, <2>6, <4>1
      <4>2. CASE i > j
        <5>1. i - 1 \in 1..n - 1 /\ ~(i - 1 < j) /\ (i - 1) + 1 = i
          BY <1>1, <4>2
        <5>2. t[i - 1] = s[i]
          BY <2>6, <5>1
        <5>3. QED
          BY <5>1, <5>2
      <4>3. QED
        BY <1>1, <2>1, <4>1, <4>2
    <3>3. QED
      BY <3>1, <3>2 DEF ToSet
  <2>9. QED
    BY <2>3, <2>6, <2>7, <2>8 DEF RemoveAt, t, a, b, n
<1>3. CASE ~\E j \in 1..n : s[j] = e
  BY <1>1, <1>3 DEF RemoveFirst, ToSet, n
<1>4. QED
  BY <1>2, <1>3

-----------------------------------------------------------------------------
(* The pool *)

\* The stages a request has submitted calls for once it is at a stage.
Reached(s) ==
  CASE s = "new" -> {}
    [] s = "guard" -> {"guard"}
    [] s = "retrieve" -> {"guard", "retrieve"}
    [] s = "generate" -> {"guard", "retrieve", "generate"}
    [] OTHER -> Stages

\* The stages that can come after a stage.
After(s) ==
  CASE s = "new" -> {"guard"}
    [] s = "guard" -> {"retrieve", "done"}
    [] s = "retrieve" -> {"generate", "done"}
    [] s = "generate" -> {"check", "done"}
    [] OTHER -> {"done"}

PoolType ==
  /\ stage \in [Requests -> Stages \cup {"new", "done"}]
  /\ queue \in Seq(Calls)
  /\ running \subseteq Calls /\ hung \subseteq running
  /\ IsFiniteSet(running) /\ Cardinality(running) <= workers
  /\ workers \in PoolSizes

\* A queued call is awaited and not running; a running one was submitted before.
QueuedAwaited == \A c \in ToSet(queue) : stage[c.request] = c.stage /\ c \notin running

RunningReached == \A c \in running : c.stage \in Reached(stage[c.request])

AwaitedHeld ==
  \A r \in Requests :
    stage[r] \in Stages => Call(r, stage[r]) \in running \cup ToSet(queue)

PoolInv ==
  PoolType /\ Distinct(queue) /\ QueuedAwaited /\ RunningReached /\ AwaitedHeld

LEMMA StageOrder ==
  ASSUME NEW s \in Stages \cup {"new", "done"}, NEW n \in After(s), s # "done"
  PROVE  /\ n \in Stages \cup {"done"}
         /\ Reached(s) \subseteq Reached(n)
         /\ n \in Stages => n \notin Reached(s) /\ n \in Reached(n)
BY DEF Stages, After, Reached

LEMMA CallType ==
  /\ \A r \in Requests, s \in Stages :
       Call(r, s) \in Calls /\ Call(r, s).request = r /\ Call(r, s).stage = s
  /\ \A c \in Calls :
       c.request \in Requests /\ c.stage \in Stages /\ c = Call(c.request, c.stage)
BY DEF Call, Calls

LEMMA QueueIsCalls == PoolType => ToSet(queue) \subseteq Calls
BY DEF PoolType, ToSet

\* The request r leaves its stage s for n: its call is neither in the queue any
\* more nor needed on a worker, and that of n is queued.
Moves(r, s, n, base) ==
  /\ stage[r] = s /\ s # "done" /\ n \in After(s)
  /\ stage' = [stage EXCEPT ![r] = n]
  /\ base \in Seq(Calls) /\ Distinct(base) /\ ToSet(base) = ToSet(queue) \ {Call(r, s)}
  /\ queue' = IF n = "done" THEN base ELSE Append(base, Call(r, n))
  /\ \/ running' = running
     \/ running' = running \ {Call(r, s)} /\ Call(r, s) \notin hung
  /\ hung' = hung /\ workers' = workers

LEMMA MovesInv ==
  ASSUME PoolInv, NEW r \in Requests, NEW s, NEW n, NEW base, Moves(r, s, n, base)
  PROVE  PoolInv'
<1>1. /\ s \in Stages \cup {"new", "done"} /\ s # "done"
      /\ n \in Stages \cup {"done"}
      /\ Reached(s) \subseteq Reached(n)
      /\ n \in Stages => n \notin Reached(s) /\ n \in Reached(n)
  BY StageOrder DEF Moves, PoolInv, PoolType
<1>2. /\ stage' = [stage EXCEPT ![r] = n]
      /\ stage' \in [Requests -> Stages \cup {"new", "done"}]
      /\ stage'[r] = n
      /\ \A u \in Requests : u # r => stage'[u] = stage[u]
  BY <1>1 DEF Moves, PoolInv, PoolType
<1>3. \A c \in ToSet(base) : /\ c \in ToSet(queue) /\ c \in Calls /\ c \notin running
                             /\ stage[c.request] = c.stage /\ c.request # r
  <2> TAKE c \in ToSet(base)
  <2>1. c \in ToSet(queue) /\ c # Call(r, s) /\ c \in Calls
    BY QueueIsCalls DEF Moves, PoolInv
  <2>2. stage[c.request] = c.stage /\ c \notin running
    BY <2>1 DEF PoolInv, QueuedAwaited
  <2>3. c.request # r
    BY <2>1, <2>2, CallType DEF Moves
  <2>4. QED
    BY <2>1, <2>2, <2>3
<1>4. /\ queue' \in Seq(Calls) /\ Distinct(queue')
      /\ ToSet(queue') = ToSet(base) \cup (IF n = "done" THEN {} ELSE {Call(r, n)})
  <2>1. CASE n = "done"
    BY <2>1 DEF Moves
  <2>2. CASE n # "done"
    <3>1. Call(r, n) \in Calls /\ Call(r, n).request = r
      BY <1>1, <2>2, CallType
    <3>2. Call(r, n) \notin ToSet(base)
      BY <1>3, <3>1
    <3>3. QED
      BY <2>2, <3>1, <3>2, AppendSet DEF Moves
  <2>3. QED
    BY <2>1, <2>2
<1>5. running' \subseteq running
  BY DEF Moves
<1>6. PoolType'
  <2>1. IsFiniteSet(running) /\ Cardinality(running) \in Nat /\ workers \in Nat
        /\ Cardinality(running) <= workers
    BY FS_CardinalityType, PipelineAssumption DEF PoolInv, PoolType
  <2>2. IsFiniteSet(running') /\ Cardinality(running') <= workers
    <3>1. IsFiniteSet(running') /\ Cardinality(running') <= Cardinality(running)
      BY <1>5, <2>1, FS_Subset
    <3>2. Cardinality(running') \in Nat
      BY <3>1, FS_CardinalityType
    <3>3. QED
      BY <2>1, <3>1, <3>2
  <2>3. hung' \subseteq running' /\ running' \subseteq Calls
    BY DEF Moves, PoolInv, PoolType
  <2>4. QED
    BY <1>2, <1>4, <2>2, <2>3 DEF Moves, PoolInv, PoolType
<1>7. QueuedAwaited'
  <2>1. ASSUME NEW c \in ToSet(base) PROVE stage'[c.request] = c.stage /\ c \notin running'
    BY <1>2, <1>3, <1>5, CallType
  <2>2. CASE n # "done"
    <3>1. n \in Stages /\ Call(r, n).request = r /\ Call(r, n).stage = n
      BY <1>1, <2>2, CallType
    <3>2. Call(r, n) \notin running
      BY <1>1, <3>1 DEF PoolInv, RunningReached, Moves
    <3>3. QED
      BY <1>2, <1>4, <1>5, <2>1, <3>1, <3>2 DEF QueuedAwaited
  <2>3. QED
    BY <1>4, <2>1, <2>2 DEF QueuedAwaited
<1>8. RunningReached'
  <2>1. ASSUME NEW c \in running PROVE c.stage \in Reached(stage'[c.request])
    <3>1. c.request \in Requests /\ c.stage \in Reached(stage[c.request])
      BY CallType DEF PoolInv, PoolType, RunningReached
    <3>2. QED
      BY <1>1, <1>2, <3>1 DEF Moves
  <2>2. QED
    BY <1>5, <2>1 DEF RunningReached
<1>9. AwaitedHeld'
  <2> SUFFICES ASSUME NEW u \in Requests, stage'[u] \in Stages
               PROVE  Call(u, stage'[u]) \in running' \cup ToSet(queue')
    BY DEF AwaitedHeld
  <2>1. CASE u = r
    <3>1. n # "done"
      BY <1>2, <2>1 DEF Stages
    <3>2. QED
      BY <1>2, <1>4, <2>1, <3>1
  <2>2. CASE u # r
    <3>1. stage'[u] = stage[u] /\ Call(u, stage[u]) \in running \cup ToSet(queue)
      BY <1>2, <2>2 DEF PoolInv, AwaitedHeld
    <3>2. Call(u, stage[u]) # Call(r, s)
      BY <2>2 DEF Call
    <3>3. QED
      BY <1>4, <3>1, <3>2 DEF Moves
  <2>3. QED
    BY <2>1, <2>2
<1>10. QED
  BY <1>4, <1>6, <1>7, <1>8, <1>9 DEF PoolInv

\* A call returned to the request that awaits it.
LEMMA ReturnedBase ==
  ASSUME PoolInv, NEW r \in Requests, NEW s \in Stages, Returns(r, s)
  PROVE  /\ queue \in Seq(Calls) /\ Distinct(queue) /\ ToSet(queue) = ToSet(queue) \ {Call(r, s)}
         /\ stage[r] = s /\ s # "done"
         /\ running' = running \ {Call(r, s)} /\ Call(r, s) \notin hung
         /\ hung' = hung /\ workers' = workers
<1>1. Call(r, s) \in running
  BY DEF Returns
<1>2. Call(r, s) \notin ToSet(queue)
  BY <1>1 DEF PoolInv, QueuedAwaited
<1>3. QED
  BY <1>2 DEF Returns, PoolInv, PoolType, Stages

\* A call cancelled if it was queued.
LEMMA CancelledBase ==
  ASSUME PoolInv, NEW r, NEW s
  PROVE  /\ Cancel(r, s) \in Seq(Calls) /\ Distinct(Cancel(r, s))
         /\ ToSet(Cancel(r, s)) = ToSet(queue) \ {Call(r, s)}
BY RemoveFirstSet DEF PoolInv, PoolType, Cancel

LEMMA StartInv == PoolInv /\ Start => PoolInv'
<1> SUFFICES ASSUME PoolInv, Start PROVE PoolInv'
  OBVIOUS
<1> DEFINE c == Head(queue)
<1>1. /\ queue' \in Seq(Calls) /\ Distinct(queue')
      /\ c \in Calls /\ c \in ToSet(queue)
      /\ ToSet(queue') = ToSet(queue) \ {c}
  BY TailSet DEF Start, PoolInv, PoolType
<1>2. /\ running' = running \cup {c} /\ hung' \subseteq hung \cup {c}
      /\ stage' = stage /\ workers' = workers /\ Cardinality(running) < workers
  BY DEF Start
<1>3. stage[c.request] = c.stage /\ c \notin running
  BY <1>1 DEF PoolInv, QueuedAwaited
<1> HIDE DEF c
<1>4. IsFiniteSet(running') /\ Cardinality(running') <= workers
  <2>1. IsFiniteSet(running) /\ Cardinality(running) \in Nat /\ workers \in Nat
    BY FS_CardinalityType, PipelineAssumption DEF PoolInv, PoolType
  <2>2. IsFiniteSet(running') /\ Cardinality(running') = Cardinality(running) + 1
    BY <1>2, <1>3, <2>1, FS_AddElement
  <2>3. QED
    BY <1>2, <2>1, <2>2
<1>5. PoolType'
  BY <1>1, <1>2, <1>4 DEF PoolInv, PoolType
<1>6. QueuedAwaited'
  BY <1>1, <1>2 DEF PoolInv, QueuedAwaited
<1>7. RunningReached'
  <2>1. c.stage \in Reached(c.stage)
    BY <1>1, CallType DEF Stages, Reached
  <2>2. QED
    BY <1>2, <1>3, <2>1 DEF PoolInv, RunningReached
<1>8. AwaitedHeld'
  BY <1>1, <1>2 DEF PoolInv, AwaitedHeld
<1>9. QED
  BY <1>1, <1>5, <1>6, <1>7, <1>8 DEF PoolInv

LEMMA HangInv == ASSUME PoolInv, NEW r \in Requests, Hang(r) PROVE PoolInv'
BY DEF Hang, PoolInv, PoolType, QueuedAwaited, RunningReached, AwaitedHeld

LEMMA DiscardInv ==
  ASSUME PoolInv, NEW r \in Requests, NEW s \in Stages, Discard(r, s)
  PROVE  PoolInv'
<1>1. /\ running' = running \ {Call(r, s)} /\ Call(r, s) \notin hung /\ stage[r] # s
      /\ stage' = stage /\ queue' = queue /\ hung' = hung /\ workers' = workers
  BY DEF Discard
<1>2. IsFiniteSet(running') /\ Cardinality(running') <= workers
  <2>1. /\ IsFiniteSet(running) /\ Cardinality(running) \in Nat /\ workers \in Nat
        /\ Cardinality(running) <= workers
    BY FS_CardinalityType, PipelineAssumption DEF PoolInv, PoolType
  <2>2. IsFiniteSet(running') /\ Cardinality(running') <= Cardinality(running)
    BY <1>1, <2>1, FS_Subset
  <2>3. Cardinality(running') \in Nat
    BY <2>2, FS_CardinalityType
  <2>4. QED
    BY <2>1, <2>2, <2>3
<1>3. PoolType'
  BY <1>1, <1>2 DEF PoolInv, PoolType
<1>4. QueuedAwaited' /\ RunningReached'
  BY <1>1 DEF PoolInv, QueuedAwaited, RunningReached
<1>5. AwaitedHeld'
  <2>1. \A u \in Requests : Call(u, stage[u]) # Call(r, s)
    BY <1>1 DEF Call
  <2>2. QED
    BY <1>1, <2>1 DEF PoolInv, AwaitedHeld
<1>6. QED
  BY <1>1, <1>3, <1>4, <1>5 DEF PoolInv

LEMMA InitPool == Init => PoolInv
<1> SUFFICES ASSUME Init PROVE PoolInv
  OBVIOUS
<1>1. queue \in Seq(Calls) /\ ToSet(queue) = {} /\ Distinct(queue)
  BY EmptySeq DEF Init, ToSet, Distinct
<1>2. IsFiniteSet(running) /\ Cardinality(running) <= workers
  BY FS_EmptySet, PipelineAssumption DEF Init
<1>3. QED
  BY <1>1, <1>2 DEF Init, PoolInv, PoolType, QueuedAwaited, RunningReached, AwaitedHeld, Stages

LEMMA NextPool == PoolInv /\ [Next]_vars => PoolInv'
<1> SUFFICES ASSUME PoolInv, [Next]_vars PROVE PoolInv'
  OBVIOUS
<1>1. CASE Start
  BY <1>1, StartInv
<1>2. ASSUME NEW r \in Requests, Ask(r) PROVE PoolInv'
  <2>1. Call(r, "new") \notin ToSet(queue)
    BY QueueIsCalls DEF PoolInv, Call, Calls, Stages
  <2>2. Moves(r, "new", "guard", queue)
    BY <1>2, <2>1 DEF Ask, Submit, Moves, After, PoolInv, PoolType
  <2>3. QED
    BY <2>2, MovesInv
<1>3. ASSUME NEW r \in Requests, Hang(r) PROVE PoolInv'
  BY <1>3, HangInv
<1>4. ASSUME NEW r \in Requests, Finish(r) PROVE PoolInv'
  <2>1. CASE FinishGuard(r) \/ GuardRaises(r)
    <3>1. Returns(r, "guard") /\ "guard" \in Stages
      BY <2>1 DEF FinishGuard, GuardRaises, Stages
    <3>2. \E n \in {"retrieve", "done"} : Moves(r, "guard", n, queue)
      BY <2>1, <3>1, ReturnedBase
      DEF FinishGuard, GuardRaises, Submit, Return, Moves, After
    <3>3. QED
      BY <3>2, MovesInv
  <2>2. CASE FinishRetrieve(r) \/ RetrieveRaises(r)
    <3>1. Returns(r, "retrieve") /\ "retrieve" \in Stages
      BY <2>2 DEF FinishRetrieve, RetrieveRaises, Stages
    <3>2. \E n \in {"generate", "done"} : Moves(r, "retrieve", n, queue)
      BY <2>2, <3>1, ReturnedBase
      DEF FinishRetrieve, RetrieveRaises, Submit, Return, Moves, After
    <3>3. QED
      BY <3>2, MovesInv
  <2>3. CASE FinishGenerate(r)
    <3>1. Returns(r, "generate") /\ "generate" \in Stages
      BY <2>3 DEF FinishGenerate, Stages
    <3>2. \E n \in {"check", "done"} : Moves(r, "generate", n, queue)
      BY <2>3, <3>1, ReturnedBase DEF FinishGenerate, Submit, Return, Moves, After
    <3>3. QED
      BY <3>2, MovesInv
  <2>4. CASE FinishCheck(r) \/ CheckRaises(r)
    <3>1. Returns(r, "check") /\ "check" \in Stages
      BY <2>4 DEF FinishCheck, CheckRaises, Stages
    <3>2. Moves(r, "check", "done", queue)
      BY <2>4, <3>1, ReturnedBase DEF FinishCheck, CheckRaises, Return, Moves, After
    <3>3. QED
      BY <3>2, MovesInv
  <2>5. CASE \E s \in {"guard", "retrieve"} : Discard(r, s)
    BY <2>5, DiscardInv DEF Stages
  <2>6. QED
    BY <1>4, <2>1, <2>2, <2>3, <2>4, <2>5 DEF Finish
<1>5. ASSUME NEW r \in Requests, TimeoutGuard(r) PROVE PoolInv'
  <2>1. Moves(r, "guard", "retrieve", Cancel(r, "guard"))
    BY <1>5, CancelledBase DEF TimeoutGuard, Submit, Moves, After
  <2>2. QED
    BY <2>1, MovesInv
<1>6. ASSUME NEW r \in Requests, TimeoutRetrieve(r) PROVE PoolInv'
  <2>1. Moves(r, "retrieve", "done", Cancel(r, "retrieve"))
    BY <1>6, CancelledBase DEF TimeoutRetrieve, Return, Moves, After
  <2>2. QED
    BY <2>1, MovesInv
<1>7. CASE UNCHANGED vars
  BY <1>7 DEF vars, PoolInv, PoolType, QueuedAwaited, RunningReached, AwaitedHeld
<1>8. QED
  BY <1>1, <1>2, <1>3, <1>4, <1>5, <1>6, <1>7 DEF Next

LEMMA PoolHolds == PoolInv => QueueHoldsAwaited
<1> SUFFICES ASSUME PoolInv PROVE QueueHoldsAwaited
  OBVIOUS
<1>1. ASSUME NEW r \in Requests, stage[r] \in Stages
      PROVE  \/ Call(r, stage[r]) \in running
             \/ \E i \in DOMAIN queue : queue[i] = Call(r, stage[r])
  BY <1>1 DEF PoolInv, AwaitedHeld, ToSet
<1>2. ASSUME NEW i \in DOMAIN queue
      PROVE  /\ stage[queue[i].request] = queue[i].stage
             /\ queue[i] \notin running
             /\ \A j \in DOMAIN queue : queue[i] = queue[j] => i = j
  <2>1. queue[i] \in ToSet(queue)
    BY DEF ToSet
  <2>2. QED
    BY <2>1 DEF PoolInv, QueuedAwaited, Distinct
<1>3. QED
  BY <1>1, <1>2 DEF QueueHoldsAwaited

\* A request that awaits a call has it once in the queue or on a worker, and no
\* abandoned call waits for a worker (pipeline.py:67-125), for any pool.
THEOREM QueueHoldsAwaitedCorrect == Spec => []QueueHoldsAwaited
<1>1. Spec => []PoolInv
  BY InitPool, NextPool, PTL DEF Spec
<1>2. QED
  BY <1>1, PoolHolds, PTL

-----------------------------------------------------------------------------
(* The requests *)

Verdicts == {"none", "passed", "refused", "late", "raised"}
Sentinels == {"none", "REFUSAL", "INSUFFICIENT_CONTEXT", "ANSWER"}

RequestType ==
  /\ stage \in [Requests -> Stages \cup {"new", "done"}]
  /\ query \in [Requests -> Queries]
  /\ verdict \in [Requests -> Verdicts]
  /\ DOMAIN found = Requests
  /\ DOMAIN response = Requests
  /\ \A r \in Requests : response[r].sentinel \in Sentinels
  /\ embedder \in WarmupEmbedder

\* The queries the input guard refuses whatever a label the LLM gives.
Barred(q) == q.pii # {} \/ q.injection \/ (q.advisory /\ ~IntentLlm)

\* Until its guard has been late or has raised, such a query is not past it.
Guarded(r) ==
  /\ stage[r] \in {"new", "guard"} => verdict[r] = "none"
  /\ Barred(query[r]) /\ verdict[r] \notin {"late", "raised"} =>
       /\ stage[r] \in {"new", "guard", "done"}
       /\ found[r] = <<>>
       /\ response[r].sentinel # "ANSWER"

RequestInv == RequestType /\ \A r \in Requests : Guarded(r)

LEMMA SentinelOf ==
  /\ RefusalResponse.sentinel = "REFUSAL"
  /\ InsufficientResponse.sentinel = "INSUFFICIENT_CONTEXT"
  /\ NoResponse.sentinel = "none"
  /\ \A gen, answer, vetted : Answer(gen, answer, vetted).sentinel = "ANSWER"
BY DEF RefusalResponse, InsufficientResponse, NoResponse, Answer

\* A token that matches some pattern is found by the first pattern it matches.
LEMMA ScrubFinds ==
  ASSUME NEW q \in Query, q.pii # {}
  PROVE  Scrub(q) # {}
<1> DEFINE names == {"PAN", "phone", "Aadhaar", "email"}
<1>1. PICK token \in q.pii : TRUE
  OBVIOUS
<1>2. token \subseteq names /\ token # {}
  BY <1>1 DEF Query
<1>3. /\ DOMAIN PiiPatterns = 1..4
      /\ PiiPatterns[1] = "PAN" /\ PiiPatterns[2] = "phone"
      /\ PiiPatterns[3] = "Aadhaar" /\ PiiPatterns[4] = "email"
  BY DEF PiiPatterns
<1>4. ASSUME NEW j \in 1..4, PiiPatterns[j] \in token,
             \A k \in 1..(j - 1) : PiiPatterns[k] \notin token
      PROVE  Scrub(q) # {}
  BY <1>1, <1>3, <1>4 DEF Scrub
<1>5. CASE "PAN" \in token
  <2>1. \A k \in 1..(1 - 1) : PiiPatterns[k] \notin token
    OBVIOUS
  <2>2. QED
    BY <1>3, <1>4, <1>5, <2>1
<1>6. CASE "PAN" \notin token /\ "phone" \in token
  <2>1. \A k \in 1..(2 - 1) : k = 1
    OBVIOUS
  <2>2. QED
    BY <1>3, <1>4, <1>6, <2>1
<1>7. CASE "PAN" \notin token /\ "phone" \notin token /\ "Aadhaar" \in token
  <2>1. \A k \in 1..(3 - 1) : k = 1 \/ k = 2
    OBVIOUS
  <2>2. QED
    BY <1>3, <1>4, <1>7, <2>1
<1>8. CASE "PAN" \notin token /\ "phone" \notin token /\ "Aadhaar" \notin token
  <2>1. \A k \in 1..(4 - 1) : k = 1 \/ k = 2 \/ k = 3
    OBVIOUS
  <2>2. "email" \in token
    BY <1>2, <1>8
  <2>3. QED
    BY <1>3, <1>4, <1>8, <2>1, <2>2
<1>9. QED
  BY <1>5, <1>6, <1>7, <1>8

\* The guard does not pass a barred query.
LEMMA BarredFails ==
  ASSUME NEW q \in Query, Barred(q), NEW label
  PROVE  ~InputPassed(q, label)
<1>1. q.injection \in BOOLEAN /\ q.advisory \in BOOLEAN
  BY DEF Query
<1>2. CASE Scrub(q) # {}
  BY <1>2 DEF InputPassed, InputVerdict
<1>3. CASE Scrub(q) = {} /\ InjectionDetected(q)
  BY <1>3 DEF InputPassed, InputVerdict
<1>4. CASE Scrub(q) = {} /\ ~InjectionDetected(q)
  <2>1. q.advisory /\ ~IntentLlm
    BY <1>1, <1>4, ScrubFinds DEF Barred, InjectionDetected
  <2>2. Classify(q, label) = RuleBased(q)
    BY <2>1 DEF Classify, IntentClient
  <2>3. RuleBased(q) = "ADVISORY"
    BY <2>1 DEF RuleBased
  <2>4. InputVerdict(q, label) = "ADVISORY"
    BY <1>4, <2>2, <2>3 DEF InputVerdict
  <2>5. QED
    BY <2>4 DEF InputPassed
<1>5. QED
  BY <1>2, <1>3, <1>4

\* What a step of request r leaves alone, and what it may do to r.
Step(r) ==
  /\ query' = query /\ embedder' = embedder
  /\ stage' \in [Requests -> Stages \cup {"new", "done"}]
  /\ verdict' \in [Requests -> Verdicts]
  /\ DOMAIN found' = Requests /\ DOMAIN response' = Requests
  /\ response'[r].sentinel \in Sentinels
  /\ \A u \in Requests : u # r => /\ stage'[u] = stage[u] /\ verdict'[u] = verdict[u]
                                  /\ found'[u] = found[u] /\ response'[u] = response[u]

LEMMA StepInv ==
  ASSUME RequestInv, NEW r \in Requests, Step(r), Guarded(r)'
  PROVE  RequestInv'
<1>1. RequestType'
  BY DEF RequestInv, RequestType, Step
<1>2. ASSUME NEW u \in Requests, u # r PROVE Guarded(u)'
  BY <1>2 DEF RequestInv, Guarded, Step
<1>3. QED
  BY <1>1, <1>2 DEF RequestInv

LEMMA InitRequest == Init => RequestInv
BY SentinelOf DEF Init, RequestInv, RequestType, Guarded, Stages, Verdicts, Sentinels

\* The output guard returns an answer or gives none.
LEMMA CheckShape ==
  ASSUME NEW r \in Requests, FinishCheck(r) \/ CheckRaises(r)
  PROVE  /\ Returns(r, "check") /\ UNCHANGED <<verdict, found>>
         /\ \E resp : resp.sentinel \in {"ANSWER", "INSUFFICIENT_CONTEXT"} /\ Return(r, resp)
<1>1. CASE FinishCheck(r)
  <2>1. PICK ruling \in Rulings :
          LET output == OutputVerdict(generated[r], found[r], ruling) IN
          Return(r, IF output.passed THEN Answer(generated[r], output.answer, TRUE)
                                     ELSE InsufficientResponse)
    BY <1>1 DEF FinishCheck
  <2> DEFINE output == OutputVerdict(generated[r], found[r], ruling)
             answer == Answer(generated[r], output.answer, TRUE)
  <2>2. Return(r, answer) \/ Return(r, InsufficientResponse)
    <3> DEFINE ok == output.passed
    <3>1. Return(r, IF ok THEN answer ELSE InsufficientResponse)
      BY <2>1
    <3> HIDE DEF ok, answer
    <3>2. QED
      BY <3>1
  <2>3. answer.sentinel = "ANSWER"
    BY SentinelOf
  <2> HIDE DEF answer
  <2>4. QED
    BY <1>1, <2>2, <2>3, SentinelOf DEF FinishCheck
<1>2. CASE CheckRaises(r)
  <2> DEFINE answer == Answer(generated[r], generated[r].answer, FALSE)
  <2>1. answer.sentinel = "ANSWER"
    BY SentinelOf
  <2>2. Return(r, answer)
    BY <1>2 DEF CheckRaises
  <2> HIDE DEF answer
  <2>3. QED
    BY <1>2, <2>1, <2>2 DEF CheckRaises
<1>3. QED
  BY <1>1, <1>2

LEMMA FinishInv ==
  ASSUME RequestInv, NEW r \in Requests, Finish(r)
  PROVE  RequestInv'
<1> USE DEF RequestInv, RequestType, Guarded, Step, Submit, Return, Returns, Stages, Verdicts,
            Sentinels
<1>1. CASE FinishGuard(r)
  <2>1. PICK label \in LlmLabels :
          IF InputPassed(query[r], label)
          THEN verdict' = [verdict EXCEPT ![r] = "passed"]
               /\ Submit(r, "retrieve", queue) /\ UNCHANGED response
          ELSE verdict' = [verdict EXCEPT ![r] = "refused"] /\ Return(r, RefusalResponse)
    BY <1>1 DEF FinishGuard
  <2>2. Barred(query[r]) => ~InputPassed(query[r], label)
    BY BarredFails, PipelineAssumption
  <2>3. QED
    BY <1>1, <2>1, <2>2, SentinelOf, StepInv DEF FinishGuard
<1>2. CASE GuardRaises(r)
  BY <1>2, StepInv DEF GuardRaises
<1>3. CASE FinishRetrieve(r)
  BY <1>3, SentinelOf, StepInv DEF FinishRetrieve
<1>4. CASE RetrieveRaises(r)
  BY <1>4, SentinelOf, StepInv DEF RetrieveRaises
<1>5. CASE FinishGenerate(r)
  BY <1>5, SentinelOf, StepInv DEF FinishGenerate
<1>6. CASE FinishCheck(r) \/ CheckRaises(r)
  <2>1. PICK resp : resp.sentinel \in {"ANSWER", "INSUFFICIENT_CONTEXT"} /\ Return(r, resp)
    BY <1>6, CheckShape
  <2>2. Returns(r, "check") /\ UNCHANGED <<verdict, found>>
    BY <1>6, CheckShape
  <2>3. QED
    BY <2>1, <2>2, StepInv
<1>7. CASE \E s \in {"guard", "retrieve"} : Discard(r, s)
  BY <1>7 DEF Discard
<1>8. QED
  BY <1>1, <1>2, <1>3, <1>4, <1>5, <1>6, <1>7 DEF Finish

LEMMA NextRequest == RequestInv /\ [Next]_vars => RequestInv'
<1> SUFFICES ASSUME RequestInv, [Next]_vars PROVE RequestInv'
  OBVIOUS
<1> USE DEF RequestInv, RequestType, Guarded
<1>1. CASE Start
  BY <1>1 DEF Start
<1>2. ASSUME NEW r \in Requests, Ask(r) PROVE RequestInv'
  BY <1>2, StepInv DEF Ask, Submit, Step, Stages, Verdicts, Sentinels
<1>3. ASSUME NEW r \in Requests, Hang(r) PROVE RequestInv'
  BY <1>3 DEF Hang
<1>4. ASSUME NEW r \in Requests, TimeoutGuard(r) PROVE RequestInv'
  BY <1>4, StepInv DEF TimeoutGuard, Submit, Step, Stages, Verdicts, Sentinels
<1>5. ASSUME NEW r \in Requests, TimeoutRetrieve(r) PROVE RequestInv'
  BY <1>5, SentinelOf, StepInv DEF TimeoutRetrieve, Return, Step, Stages, Verdicts, Sentinels
<1>6. CASE UNCHANGED vars
  BY <1>6 DEF vars
<1>7. QED
  BY <1>1, <1>2, <1>3, <1>4, <1>5, <1>6, FinishInv DEF Next

\* Every reachable state is well typed, and the pool runs no more calls than it
\* has threads (pipeline.py:67-125), for any number of either.
THEOREM PipelineTypeCorrect == Spec => []TypeOK
<1>1. PoolInv /\ RequestInv => TypeOK
  BY DEF PoolInv, PoolType, RequestInv, RequestType, TypeOK, Verdicts, Sentinels
<1>2. Spec => []PoolInv
  BY InitPool, NextPool, PTL DEF Spec
<1>3. Spec => []RequestInv
  BY InitRequest, NextRequest, PTL DEF Spec
<1>4. QED
  BY <1>1, <1>2, <1>3, PTL

\* No query with personal data or an injected instruction gets candidates or an answer
\* unless the guard failed open (pipeline.py:67-89), whatever the LLM labels it.
THEOREM RefusedStaysOutCorrect == Spec => []RefusedStaysOut
<1>1. RequestInv => RefusedStaysOut
  <2> SUFFICES ASSUME RequestInv, NEW r \in Requests, Barred(query[r]),
                      found[r] # <<>> \/ response[r].sentinel = "ANSWER"
               PROVE  verdict[r] \in {"late", "raised"}
    BY DEF RefusedStaysOut, Barred
  <2>1. QED
    BY DEF RequestInv, Guarded
<1>2. Spec => []RequestInv
  BY InitRequest, NextRequest, PTL DEF Spec
<1>3. QED
  BY <1>1, <1>2, PTL

\* The step LateResultIgnored allows.
KeptStep ==
  \A r \in Requests :
    /\ stage[r] = "done" => /\ stage'[r] = "done"
                            /\ response'[r] = response[r]
    /\ stage[r] # "retrieve" => found'[r] = found[r]
    /\ stage[r] # "guard" => verdict'[r] = verdict[r]

LEMMA Keeps == RequestInv /\ [Next]_vars => [KeptStep]_vars
<1> SUFFICES ASSUME RequestType, Next PROVE KeptStep
  BY DEF RequestInv
<1> USE DEF RequestType, Submit, Return, Returns, KeptStep
<1>1. CASE Start
  BY <1>1 DEF Start
<1>2. ASSUME NEW r \in Requests,
             Ask(r) \/ Hang(r) \/ TimeoutGuard(r) \/ TimeoutRetrieve(r)
      PROVE  KeptStep
  BY <1>2 DEF Ask, Hang, TimeoutGuard, TimeoutRetrieve
<1>3. ASSUME NEW r \in Requests, Finish(r) PROVE KeptStep
  <2>1. CASE FinishGuard(r) \/ GuardRaises(r)
    BY <2>1 DEF FinishGuard, GuardRaises
  <2>2. CASE FinishRetrieve(r) \/ RetrieveRaises(r)
    BY <2>2 DEF FinishRetrieve, RetrieveRaises
  <2>3. CASE FinishGenerate(r)
    BY <2>3 DEF FinishGenerate
  <2>4. CASE FinishCheck(r) \/ CheckRaises(r)
    BY <2>4 DEF FinishCheck, CheckRaises
  <2>5. CASE \E s \in {"guard", "retrieve"} : Discard(r, s)
    BY <2>5 DEF Discard
  <2>6. QED
    BY <1>3, <2>1, <2>2, <2>3, <2>4, <2>5 DEF Finish
<1>4. QED
  BY <1>1, <1>2, <1>3 DEF Next

\* A request that was answered, or that gave a call up, is not changed by what the
\* call returns (pipeline.py:67-125), whatever the order of timers and returns.
THEOREM LateResultIgnoredCorrect == Spec => LateResultIgnored
<1>1. Spec => []RequestInv
  BY InitRequest, NextRequest, PTL DEF Spec
<1>2. RequestInv /\ [Next]_vars => [KeptStep]_vars
  BY Keeps
<1>3. QED
  BY <1>1, <1>2, PTL DEF Spec, LateResultIgnored, KeptStep

-----------------------------------------------------------------------------
(* The answers *)

\* What the output guard is given: a citation of the registry or of the best
\* candidate, and an answer.
Drafted(r) ==
  /\ generated[r].citation \in KnownSourceUrls \cup {found[r][1].url}
  /\ generated[r].answer \in Seq(STRING) /\ generated[r].answer # <<>>

\* What ShownAnswerVetted says of an answer.
Vetted(resp) ==
  /\ Len(resp.answer) \in 1..MaxSentences
  /\ \A i \in DOMAIN resp.answer : resp.answer[i] # "advice"
  /\ resp.citation \in KnownSourceUrls

Shown(r) ==
  IF response[r].vetted
  THEN Vetted(response[r])
  ELSE response[r].citation \in KnownSourceUrls \cup {found[r][1].url}

Answered(r) ==
  /\ stage[r] = "check" => Drafted(r)
  /\ response[r].sentinel = "ANSWER" => stage[r] = "done" /\ Shown(r)

AnswersInv == DOMAIN generated = Requests /\ \A r \in Requests : Answered(r)

LEMMA InitAnswers == Init => AnswersInv
BY SentinelOf DEF Init, AnswersInv, Answered

\* A reply that is no sentinel has an answer, and a page to cite.
LEMMA DraftOf ==
  ASSUME NEW candidates, NEW reply \in Replies,
         ~Generate(candidates, FALSE, reply).sentinel
  PROVE  LET gen == Generate(candidates, FALSE, reply)
         IN /\ gen.citation \in KnownSourceUrls \cup {candidates[1].url}
            /\ gen.answer \in Seq(STRING) /\ gen.answer # <<>>
<1>1. Insufficient.sentinel = TRUE
  BY DEF Insufficient
<1>2. reply.kind = "text"
  BY <1>1 DEF Generate
<1>3. reply \in LlmReplies
  <2> DEFINE raised == [kind |-> "raise", answer |-> <<>>, citation |-> "", date |-> ""]
  <2>1. raised.kind # "text"
    OBVIOUS
  <2>2. reply \in {raised} \cup LlmReplies
    BY DEF Replies
  <2> HIDE DEF raised
  <2>3. QED
    BY <1>2, <2>1, <2>2
<1>4. Generate(candidates, FALSE, reply) = ParseResponse(reply, candidates)
  BY <1>1 DEF Generate
<1>5. ParseResponse(reply, candidates).answer = AnswerText(reply.answer)
  BY DEF ParseResponse, Draft
<1>6. ParseResponse(reply, candidates).citation \in KnownSourceUrls \cup {candidates[1].url}
  BY DEF ParseResponse, Draft, CitedPage
<1>7. QED
  BY <1>2, <1>3, <1>4, <1>5, <1>6, PipelineAssumption

\* The output guard passes what it may show.
LEMMA PassedIsVetted ==
  ASSUME NEW gen, gen.answer \in Seq(STRING), gen.answer # <<>>, NEW candidates, NEW ruling,
         OutputVerdict(gen, candidates, ruling).passed
  PROVE  Vetted(Answer(gen, OutputVerdict(gen, candidates, ruling).answer, TRUE))
<1> DEFINE kept == Enforce(gen.answer)
<1>1. ~AdviceDetected(gen.answer) /\ gen.citation \in KnownSourceUrls
  BY DEF OutputVerdict
<1>2. OutputVerdict(gen, candidates, ruling).answer = kept
  BY DEF OutputVerdict
<1>3. Len(gen.answer) \in Nat \ {0} /\ DOMAIN gen.answer = 1..Len(gen.answer)
  OBVIOUS
<1>4. MaxSentences \in Nat \ {0}
  BY GuardAssumption
<1>5. /\ Len(kept) \in 1..MaxSentences
      /\ \A i \in DOMAIN kept : i \in DOMAIN gen.answer /\ kept[i] = gen.answer[i]
  <2>1. CASE Len(gen.answer) <= MaxSentences
    BY <1>3, <1>4, <2>1 DEF Enforce, SplitSentences
  <2>2. CASE ~(Len(gen.answer) <= MaxSentences)
    <3>1. kept = SubSeq(gen.answer, 1, MaxSentences)
      BY <2>2 DEF Enforce, SplitSentences
    <3>2. 1 \in 1..Len(gen.answer) /\ MaxSentences \in 1..Len(gen.answer)
      BY <1>3, <1>4, <2>2
    <3>3. /\ Len(kept) = MaxSentences
          /\ \A i \in 1..MaxSentences : kept[i] = gen.answer[i]
          /\ DOMAIN kept = 1..MaxSentences
      BY <1>3, <1>4, <3>1, <3>2
    <3>4. QED
      BY <1>3, <1>4, <3>2, <3>3
  <2>3. QED
    BY <2>1, <2>2
<1>6. \A i \in DOMAIN kept : kept[i] # "advice"
  BY <1>1, <1>5 DEF AdviceDetected
<1>7. QED
  BY <1>1, <1>2, <1>5, <1>6 DEF Vetted, Answer

\* A request a step leaves alone.
Still(u) ==
  /\ stage'[u] = stage[u] /\ response'[u] = response[u]
  /\ generated'[u] = generated[u] /\ found'[u] = found[u]

\* A step after which the request has no answer and none to be checked.
Unanswered(u) == stage'[u] # "check" /\ response'[u].sentinel # "ANSWER"

LEMMA StillAnswered ==
  ASSUME NEW u, Answered(u), Still(u)
  PROVE  Answered(u)'
BY DEF Answered, Still, Drafted, Shown, Vetted

LEMMA AnswersStep ==
  ASSUME AnswersInv, DOMAIN generated' = Requests, NEW r \in Requests,
         \A u \in Requests \ {r} : Still(u),
         Still(r) \/ Unanswered(r) \/ Answered(r)'
  PROVE  AnswersInv'
<1>1. ASSUME NEW u \in Requests, Still(u) PROVE Answered(u)'
  BY <1>1, StillAnswered DEF AnswersInv
<1>2. Unanswered(r) => Answered(r)'
  BY DEF Unanswered, Answered
<1>3. QED
  BY <1>1, <1>2 DEF AnswersInv

LEMMA FinishAnswers ==
  ASSUME RequestInv, AnswersInv, NEW r \in Requests, Finish(r)
  PROVE  AnswersInv'
<1> USE DEF RequestInv, RequestType, AnswersInv, Still, Unanswered, Submit, Return, Returns
<1>1. CASE FinishGuard(r)
  BY <1>1, SentinelOf, AnswersStep DEF FinishGuard, Answered
<1>2. CASE GuardRaises(r)
  BY <1>2, AnswersStep DEF GuardRaises, Answered
<1>3. CASE FinishRetrieve(r)
  BY <1>3, SentinelOf, AnswersStep DEF FinishRetrieve, Answered
<1>4. CASE RetrieveRaises(r)
  BY <1>4, SentinelOf, AnswersStep DEF RetrieveRaises, Answered
<1>5. CASE FinishGenerate(r)
  <2>1. PICK reply \in Replies :
          LET gen == Generate(found[r], FALSE, reply) IN
          /\ generated' = [generated EXCEPT ![r] = gen]
          /\ IF gen.sentinel
             THEN Return(r, InsufficientResponse)
             ELSE Submit(r, "check", queue) /\ UNCHANGED response
    BY <1>5 DEF FinishGenerate
  <2> DEFINE gen == Generate(found[r], FALSE, reply)
  <2>2. /\ generated' = [generated EXCEPT ![r] = gen] /\ found' = found
        /\ stage[r] = "generate"
    BY <1>5, <2>1 DEF FinishGenerate
  <2>3. CASE gen.sentinel
    <3>1. Return(r, InsufficientResponse)
      BY <2>1, <2>3
    <3> HIDE DEF gen
    <3>2. QED
      BY <2>2, <3>1, SentinelOf, AnswersStep
  <2>4. CASE ~gen.sentinel
    <3>1. stage' = [stage EXCEPT ![r] = "check"] /\ response' = response
      BY <2>1, <2>4
    <3>2. /\ gen.citation \in KnownSourceUrls \cup {found[r][1].url}
          /\ gen.answer \in Seq(STRING) /\ gen.answer # <<>>
      BY <2>4, DraftOf
    <3>3. response[r].sentinel # "ANSWER"
      BY <2>2 DEF Answered
    <3> HIDE DEF gen
    <3>4. Answered(r)'
      BY <2>2, <3>1, <3>2, <3>3 DEF Answered, Drafted
    <3>5. QED
      BY <2>2, <3>1, <3>4, AnswersStep
  <2>5. QED
    BY <2>3, <2>4
<1>6. CASE FinishCheck(r)
  <2>1. PICK ruling \in Rulings :
          LET output == OutputVerdict(generated[r], found[r], ruling) IN
          Return(r, IF output.passed THEN Answer(generated[r], output.answer, TRUE)
                                     ELSE InsufficientResponse)
    BY <1>6 DEF FinishCheck
  <2> DEFINE output == OutputVerdict(generated[r], found[r], ruling)
             answer == Answer(generated[r], output.answer, TRUE)
  <2>2. stage[r] = "check" /\ found' = found /\ generated' = generated
    BY <1>6 DEF FinishCheck
  <2>3. Drafted(r)
    BY <2>2 DEF Answered
  <2>4. CASE output.passed
    <3>1. Return(r, answer)
      BY <2>1, <2>4
    <3>2. Vetted(answer)
      BY <2>3, <2>4, PassedIsVetted DEF Drafted
    <3>3. answer.vetted = TRUE
      BY DEF Answer
    <3> HIDE DEF answer
    <3>4. Answered(r)'
      BY <3>1, <3>2, <3>3 DEF Answered, Shown, Vetted
    <3>5. QED
      BY <2>2, <3>1, <3>4, AnswersStep
  <2>5. CASE ~output.passed
    <3>1. Return(r, InsufficientResponse)
      BY <2>1, <2>5
    <3>2. QED
      BY <2>2, <3>1, SentinelOf, AnswersStep
  <2>6. QED
    BY <2>4, <2>5
<1>7. CASE CheckRaises(r)
  <2> DEFINE answer == Answer(generated[r], generated[r].answer, FALSE)
  <2>1. /\ Return(r, answer) /\ stage[r] = "check"
        /\ found' = found /\ generated' = generated
    BY <1>7 DEF CheckRaises
  <2>2. Drafted(r)
    BY <2>1 DEF Answered
  <2>3. answer.vetted = FALSE /\ answer.citation = generated[r].citation
    BY DEF Answer
  <2> HIDE DEF answer
  <2>4. Answered(r)'
    BY <2>1, <2>2, <2>3 DEF Answered, Shown, Drafted
  <2>5. QED
    BY <2>1, <2>4, AnswersStep
<1>8. CASE \E s \in {"guard", "retrieve"} : Discard(r, s)
  BY <1>8, AnswersStep DEF Discard
<1>9. QED
  BY <1>1, <1>2, <1>3, <1>4, <1>5, <1>6, <1>7, <1>8 DEF Finish

LEMMA NextAnswers == RequestInv /\ AnswersInv /\ [Next]_vars => AnswersInv'
<1> SUFFICES ASSUME RequestInv, AnswersInv, [Next]_vars PROVE AnswersInv'
  OBVIOUS
<1>1. CASE Start \/ UNCHANGED vars
  <2>1. \A u \in Requests : Still(u)
    BY <1>1 DEF Start, vars, Still
  <2>2. DOMAIN generated' = Requests
    BY <1>1 DEF Start, vars, AnswersInv
  <2>3. QED
    BY <2>1, <2>2, StillAnswered DEF AnswersInv
<1>2. ASSUME NEW r \in Requests, Ask(r) \/ Hang(r) \/ TimeoutGuard(r) \/ TimeoutRetrieve(r)
      PROVE  AnswersInv'
  <2>1. DOMAIN generated' = Requests /\ \A u \in Requests \ {r} : Still(u)
    BY <1>2 DEF Ask, Hang, TimeoutGuard, TimeoutRetrieve, Submit, Return, Still, AnswersInv,
                RequestInv, RequestType
  <2>2. Still(r) \/ Unanswered(r)
    BY <1>2, SentinelOf
    DEF Ask, Hang, TimeoutGuard, TimeoutRetrieve, Submit, Return, Still, Unanswered,
        AnswersInv, Answered, RequestInv, RequestType
  <2>3. QED
    BY <2>1, <2>2, AnswersStep
<1>3. QED
  BY <1>1, <1>2, FinishAnswers DEF Next

\* An answer the output guard has seen is short, gives no advice and cites the
\* registry, and one it failed on cites the registry or the best candidate
\* (pipeline.py:120-157), whatever an LLM replies.
THEOREM ShownAnswerVettedCorrect == Spec => []ShownAnswerVetted
<1>1. AnswersInv => ShownAnswerVetted
  BY DEF AnswersInv, Answered, Shown, Vetted, ShownAnswerVetted
<1>2. Spec => []RequestInv
  BY InitRequest, NextRequest, PTL DEF Spec
<1>3. Spec => []AnswersInv
  BY <1>2, InitAnswers, NextAnswers, PTL DEF Spec
<1>4. QED
  BY <1>1, <1>3, PTL

-----------------------------------------------------------------------------
(* The date of an answer *)

\* A ranked search over finitely many chunks returns a list of them.
LEMMA RankingsListed ==
  ASSUME NEW H, IsFiniteSet(H), NEW n \in Nat, NEW list \in Rankings(H, n)
  PROVE  list \in Seq(H)
<1>1. PICK s \in SetToSeqs(H) : list = Truncate(s, n)
  BY DEF Rankings
<1>2. s \in Seq(H)
  BY OrderingFacts
<1>3. QED
  BY <1>1, <1>2, PrefixFacts DEF Truncate

\* The fusion of two lists is a list.
LEMMA FusedListed ==
  ASSUME NEW D, NEW dense \in Seq(D), NEW sparse \in Seq(D)
  PROVE  \E T : RrfFuse(dense, sparse) \in Seq(T)
<1> DEFINE chunks == ToSet(dense \o sparse)
           n == Cardinality(chunks)
           place(c) == 1 + Cardinality({d \in chunks : Ahead(dense, sparse, d, c)})
           chosen(i) == CHOOSE c \in chunks : place(c) = i
           ranked == [i \in 1..n |-> chosen(i)]
           T == {ranked[i] : i \in 1..n}
<1>1. dense \o sparse \in Seq(D)
  OBVIOUS
<1>2. n \in Nat
  BY <1>1, FiniteElements, FS_CardinalityType
<1>3. RrfFuse(dense, sparse) = Truncate(ranked, TopKRrf)
  BY DEF RrfFuse
<1> HIDE DEF n, chosen
<1>4. DOMAIN ranked = 1..n /\ ranked = [i \in 1..n |-> ranked[i]]
  OBVIOUS
<1> HIDE DEF ranked
<1>5. ranked \in [1..n -> T]
  BY <1>4
<1>6. ranked \in Seq(T)
  BY <1>2, <1>5
<1>7. Truncate(ranked, TopKRrf) \in Seq(T)
  BY <1>6, PrefixFacts, RetrievalAssumption DEF Truncate
<1>8. QED
  BY <1>3, <1>7

\* What the retriever makes of two lists is a list.
LEMMA ResultListed ==
  ASSUME NEW D, NEW dense \in Seq(D), NEW sparse \in Seq(D),
         NEW result \in RetrievalResults(dense, sparse)
  PROVE  \E T : result.candidates \in Seq(T)
<1> DEFINE fused == RrfFuse(dense, sparse)
<1>1. PICK T : fused \in Seq(T)
  BY FusedListed
<1>2. PICK r \in Rerank(dense, sparse) :
        result = [candidates |-> IF BelowThreshold(r) THEN <<>> ELSE r.candidates,
                  below |-> BelowThreshold(r)]
  BY DEF RetrievalResults
<1>3. \E U : r.candidates \in Seq(U)
  <2>1. CASE RerankerProvider = "passthrough"
    <3> DEFINE top == IF fused = <<>> THEN 0 ELSE RrfScore(dense, sparse, fused[1])
    <3>1. r \in PassthroughRerank(dense, sparse)
      BY <1>2, <2>1 DEF Rerank
    <3>2. PassthroughRerank(dense, sparse) = {[candidates |-> Truncate(fused, TopNRerank), top |-> top]}
      BY DEF PassthroughRerank
    <3> HIDE DEF fused, top
    <3>3. r.candidates = Truncate(fused, TopNRerank)
      BY <3>1, <3>2
    <3>4. Truncate(fused, TopNRerank) \in Seq(T)
      BY <1>1, PrefixFacts, RetrievalAssumption DEF Truncate
    <3>5. QED
      BY <3>3, <3>4
  <2>2. CASE RerankerProvider # "passthrough"
    <3> DEFINE L == Rankings(ToSet(fused), TopNRerank)
    <3>1. r \in CrossEncoderRerank(dense, sparse)
      BY <1>2, <2>2 DEF Rerank
    <3>2. CrossEncoderRerank(dense, sparse)
            = {[candidates |-> s, top |-> t] : s \in L, t \in {0, ScoreUnit}}
      BY DEF CrossEncoderRerank
    <3> HIDE DEF L
    <3>3. PICK s \in L, t \in {0, ScoreUnit} : r = [candidates |-> s, top |-> t]
      BY <3>1, <3>2
    <3>4. r.candidates \in Rankings(ToSet(fused), TopNRerank)
      BY <3>3 DEF L
    <3> HIDE DEF fused
    <3>5. IsFiniteSet(ToSet(fused))
      BY <1>1, FiniteElements
    <3>6. r.candidates \in Seq(ToSet(fused))
      BY <3>4, <3>5, RankingsListed, RetrievalAssumption
    <3>7. QED
      BY <3>6
  <2>3. QED
    BY <2>1, <2>2
<1>4. result.candidates = <<>> \/ result.candidates = r.candidates
  BY <1>2
<1>5. <<>> \in Seq(D)
  OBVIOUS
<1>6. QED
  BY <1>3, <1>4, <1>5

\* What the retriever returns is a list.
LEMMA CandidatesListed ==
  ASSUME NEW result \in Retrieved
  PROVE  \E T : result.candidates \in Seq(T)
<1>1. PICK dense \in ChromaQuery(Collection, "", "any") : result \in RetrievalResults(dense, <<>>)
  BY DEF Retrieved
<1> DEFINE rows == {x \in Collection : /\ ~x.deleted
                                       /\ "" \in {"", x.version}
                                       /\ SchemeAdmits("any", x)}
           H == {x.chunk : x \in rows}
<1>2. IsFiniteSet(H)
  <2>1. IsFiniteSet(rows)
    BY PipelineAssumption, FS_Subset
  <2> DEFINE f == [x \in rows |-> x.chunk]
  <2>2. f \in Surjection(rows, H)
    BY DEF Surjection
  <2>3. QED
    BY <2>1, <2>2, FS_Surjection
<1>3. dense \in Seq(H)
  <2>1. dense \in Rankings(H, TopKSearch)
    BY DEF ChromaQuery
  <2> HIDE DEF H
  <2>2. QED
    BY <1>2, <2>1, RankingsListed, RetrievalAssumption
<1> HIDE DEF H, rows
<1>4. QED
  BY <1>1, <1>3, EmptyListed, ResultListed

Listed(candidates) == DOMAIN candidates = 1..Len(candidates) /\ Len(candidates) \in Nat

ReplyDates == {FieldText(reply.date) : reply \in LlmReplies} \ {""}

\* What DateOfCitedPage says of a citation and a date.
Dated(citation, date, candidates) ==
  date \notin ReplyDates /\ citation \in {candidates[i].url : i \in DOMAIN candidates}
    => \E i \in DOMAIN candidates : candidates[i].url = citation /\ candidates[i].date = date

DatedRequest(r) ==
  /\ Listed(found[r])
  /\ stage[r] = "check" => Dated(generated[r].citation, generated[r].date, found[r])
  /\ response[r].sentinel = "ANSWER" =>
       stage[r] = "done" /\ Dated(response[r].citation, response[r].date, found[r])

DatesInv == DOMAIN generated = Requests /\ \A r \in Requests : DatedRequest(r)

\* Where a reply has no date, that of a candidate of the cited page is taken.
LEMMA LastUpdatedIsOfPage ==
  ASSUME NEW candidates, Listed(candidates), NEW url,
         url \in {candidates[i].url : i \in DOMAIN candidates}
  PROVE  \E i \in DOMAIN candidates :
           candidates[i].url = url /\ candidates[i].date = LastUpdatedForUrl(url, candidates)
<1> DEFINE I == {i \in 1..Len(candidates) : candidates[i].url = url}
<1>1. I # {} /\ I \subseteq Nat
  BY DEF Listed
<1>2. Min(I) \in I
  BY <1>1, MinOfNats
<1>3. SelectInSeq(candidates, LAMBDA c : c.url = url) = Min(I)
  BY <1>1 DEF SelectInSeq
<1>4. Min(I) # 0
  BY <1>2 DEF Listed
<1>5. LastUpdatedForUrl(url, candidates) = candidates[Min(I)].date
  BY <1>3, <1>4 DEF LastUpdatedForUrl
<1>6. QED
  BY <1>2, <1>5 DEF Listed

LEMMA DraftDated ==
  ASSUME NEW candidates, Listed(candidates), NEW reply \in Replies,
         ~Generate(candidates, FALSE, reply).sentinel
  PROVE  LET gen == Generate(candidates, FALSE, reply)
         IN  Dated(gen.citation, gen.date, candidates)
<1> DEFINE gen == Generate(candidates, FALSE, reply)
<1>1. reply.kind = "text" /\ gen = ParseResponse(reply, candidates)
  BY DEF Generate, Insufficient
<1>2. reply \in LlmReplies
  <2> DEFINE raised == [kind |-> "raise", answer |-> <<>>, citation |-> "", date |-> ""]
  <2>1. raised.kind # "text"
    OBVIOUS
  <2>2. reply \in {raised} \cup LlmReplies
    BY DEF Replies
  <2> HIDE DEF raised
  <2>3. QED
    BY <1>1, <2>1, <2>2
<1>3. gen.date = IF FieldText(reply.date) = "" THEN LastUpdatedForUrl(gen.citation, candidates)
                                               ELSE FieldText(reply.date)
  <2> DEFINE cited == CitedPage(reply, candidates)
             date == IF FieldText(reply.date) = "" THEN LastUpdatedForUrl(cited, candidates)
                                                   ELSE FieldText(reply.date)
  <2>1. ParseResponse(reply, candidates)
          = [sentinel |-> FALSE, answer |-> AnswerText(reply.answer), citation |-> cited,
             date |-> date]
    BY DEF ParseResponse, Draft
  <2> HIDE DEF cited, date, gen
  <2>2. gen.citation = cited /\ gen.date = date
    BY <1>1, <2>1
  <2>3. QED
    BY <2>2 DEF date
<1> HIDE DEF gen
<1>4. FieldText(reply.date) # "" => FieldText(reply.date) \in ReplyDates
  BY <1>2 DEF ReplyDates
<1>5. Dated(gen.citation, gen.date, candidates)
  <2>1. CASE FieldText(reply.date) = ""
    <3>1. gen.date = LastUpdatedForUrl(gen.citation, candidates)
      BY <1>3, <2>1
    <3>2. SUFFICES ASSUME gen.citation \in {candidates[i].url : i \in DOMAIN candidates}
                   PROVE  \E i \in DOMAIN candidates :
                            candidates[i].url = gen.citation /\ candidates[i].date = gen.date
      BY DEF Dated
    <3>3. QED
      BY <3>1, <3>2, LastUpdatedIsOfPage
  <2>2. CASE FieldText(reply.date) # ""
    BY <1>3, <1>4, <2>2 DEF Dated
  <2>3. QED
    BY <2>1, <2>2
<1>6. QED
  BY <1>5 DEF gen

LEMMA InitDates == Init => DatesInv
<1>1. Init => \A r \in Requests : found[r] = <<>> /\ stage[r] = "new" /\ response[r] = NoResponse
  BY DEF Init
<1>2. Listed(<<>>)
  BY DEF Listed
<1>3. QED
  BY <1>1, <1>2, SentinelOf DEF Init, DatesInv, DatedRequest

\* A step after which a request has no answer and none to be checked: what it
\* has found is a list.
Undated(u) == Unanswered(u) /\ Listed(found'[u])

LEMMA DatesStep ==
  ASSUME DatesInv, DOMAIN generated' = Requests, NEW r \in Requests,
         \A u \in Requests \ {r} : Still(u),
         Still(r) \/ Undated(r) \/ DatedRequest(r)'
  PROVE  DatesInv'
<1>1. ASSUME NEW u \in Requests, Still(u) PROVE DatedRequest(u)'
  <2>1. DatedRequest(u)
    BY DEF DatesInv
  <2>2. QED
    BY <1>1, <2>1 DEF DatedRequest, Still, Listed, Dated
<1>2. Undated(r) => DatedRequest(r)'
  BY DEF Undated, Unanswered, DatedRequest
<1>3. QED
  BY <1>1, <1>2 DEF DatesInv

LEMMA FinishDates ==
  ASSUME RequestInv, DatesInv, NEW r \in Requests, Finish(r)
  PROVE  DatesInv'
<1>0. DatedRequest(r) /\ DOMAIN generated = Requests
  BY DEF DatesInv
<1> USE DEF RequestInv, RequestType, Still, Undated, Unanswered, Submit, Return, Returns
<1>1. CASE FinishGuard(r)
  BY <1>0, <1>1, SentinelOf, DatesStep DEF FinishGuard, DatedRequest
<1>2. CASE GuardRaises(r)
  BY <1>0, <1>2, DatesStep DEF GuardRaises, DatedRequest
<1>3. CASE FinishRetrieve(r)
  <2>1. PICK result \in Retrieved :
          found' = [found EXCEPT ![r] = [i \in DOMAIN result.candidates |->
                                           Candidate(result.candidates[i])]]
    BY <1>3 DEF FinishRetrieve
  <2> DEFINE list == [i \in DOMAIN result.candidates |-> Candidate(result.candidates[i])]
  <2>2. Listed(list)
    <3>1. PICK T : result.candidates \in Seq(T)
      BY CandidatesListed
    <3>2. DOMAIN result.candidates = 1..Len(result.candidates) /\ Len(result.candidates) \in Nat
      BY <3>1
    <3>3. DOMAIN list = 1..Len(result.candidates)
      BY <3>2
    <3> HIDE DEF list
    <3>4. Len(list) = Len(result.candidates)
      BY <3>2, <3>3
    <3>5. QED
      BY <3>2, <3>3, <3>4 DEF Listed
  <2> HIDE DEF list
  <2>3. found' = [found EXCEPT ![r] = list]
    BY <2>1 DEF list
  <2>4. found'[r] = list /\ \A u \in Requests \ {r} : found'[u] = found[u]
    BY <2>3
  <2>5. stage[r] = "retrieve" /\ response[r].sentinel # "ANSWER"
    BY <1>0, <1>3 DEF FinishRetrieve, DatedRequest
  <2>6. /\ generated' = generated
        /\ Return(r, InsufficientResponse) \/ (Submit(r, "generate", queue) /\ response' = response)
    BY <1>3 DEF FinishRetrieve
  <2>7. Unanswered(r)
    BY <2>5, <2>6, SentinelOf
  <2>8. \A u \in Requests \ {r} : stage'[u] = stage[u] /\ response'[u] = response[u]
    BY <2>6
  <2>9. QED
    BY <1>0, <2>2, <2>4, <2>6, <2>7, <2>8, DatesStep
<1>4. CASE RetrieveRaises(r)
  BY <1>0, <1>4, SentinelOf, DatesStep DEF RetrieveRaises, DatedRequest
<1>5. CASE FinishGenerate(r)
  <2>1. PICK reply \in Replies :
          LET gen == Generate(found[r], FALSE, reply) IN
          /\ generated' = [generated EXCEPT ![r] = gen]
          /\ IF gen.sentinel
             THEN Return(r, InsufficientResponse)
             ELSE Submit(r, "check", queue) /\ UNCHANGED response
    BY <1>5 DEF FinishGenerate
  <2> DEFINE gen == Generate(found[r], FALSE, reply)
  <2>2. /\ generated' = [generated EXCEPT ![r] = gen] /\ found' = found
        /\ stage[r] = "generate" /\ Listed(found[r])
    BY <1>0, <1>5, <2>1 DEF FinishGenerate, DatedRequest
  <2>3. CASE gen.sentinel
    <3>1. Return(r, InsufficientResponse)
      BY <2>1, <2>3
    <3> HIDE DEF gen
    <3>2. QED
      BY <1>0, <2>2, <3>1, SentinelOf, DatesStep
  <2>4. CASE ~gen.sentinel
    <3>1. stage' = [stage EXCEPT ![r] = "check"] /\ response' = response
      BY <2>1, <2>4
    <3>2. Dated(gen.citation, gen.date, found[r])
      BY <2>2, <2>4, DraftDated
    <3>3. response[r].sentinel # "ANSWER"
      BY <1>0, <2>2 DEF DatedRequest
    <3> HIDE DEF gen
    <3>4. generated'[r] = gen /\ DOMAIN generated' = Requests
      BY <1>0, <2>2
    <3>5. DatedRequest(r)'
      BY <2>2, <3>1, <3>2, <3>3, <3>4 DEF DatedRequest
    <3>6. QED
      BY <1>0, <2>2, <3>1, <3>4, <3>5, DatesStep
  <2>5. QED
    BY <2>3, <2>4
<1>6. CASE FinishCheck(r)
  <2>1. PICK ruling \in Rulings :
          LET output == OutputVerdict(generated[r], found[r], ruling) IN
          Return(r, IF output.passed THEN Answer(generated[r], output.answer, TRUE)
                                     ELSE InsufficientResponse)
    BY <1>6 DEF FinishCheck
  <2> DEFINE output == OutputVerdict(generated[r], found[r], ruling)
             answer == Answer(generated[r], output.answer, TRUE)
  <2>2. stage[r] = "check" /\ found' = found /\ generated' = generated
    BY <1>6 DEF FinishCheck
  <2>3. Listed(found[r]) /\ Dated(generated[r].citation, generated[r].date, found[r])
    BY <1>0, <2>2 DEF DatedRequest
  <2>4. answer.citation = generated[r].citation /\ answer.date = generated[r].date
    BY DEF Answer
  <2>5. Return(r, answer) \/ Return(r, InsufficientResponse)
    BY <2>1
  <2> HIDE DEF answer
  <2>6. Unanswered(r) \/ DatedRequest(r)'
    BY <2>2, <2>3, <2>4, <2>5, SentinelOf DEF DatedRequest
  <2>7. QED
    BY <1>0, <2>2, <2>3, <2>5, <2>6, DatesStep
<1>7. CASE CheckRaises(r)
  <2> DEFINE answer == Answer(generated[r], generated[r].answer, FALSE)
  <2>1. /\ Return(r, answer) /\ stage[r] = "check"
        /\ found' = found /\ generated' = generated
    BY <1>7 DEF CheckRaises
  <2>2. Listed(found[r]) /\ Dated(generated[r].citation, generated[r].date, found[r])
    BY <1>0, <2>1 DEF DatedRequest
  <2>3. answer.citation = generated[r].citation /\ answer.date = generated[r].date
    BY DEF Answer
  <2> HIDE DEF answer
  <2>4. DatedRequest(r)'
    BY <2>1, <2>2, <2>3 DEF DatedRequest
  <2>5. QED
    BY <1>0, <2>1, <2>4, DatesStep
<1>8. CASE \E s \in {"guard", "retrieve"} : Discard(r, s)
  BY <1>0, <1>8, DatesStep DEF Discard
<1>9. QED
  BY <1>1, <1>2, <1>3, <1>4, <1>5, <1>6, <1>7, <1>8 DEF Finish

LEMMA NextDates == RequestInv /\ DatesInv /\ [Next]_vars => DatesInv'
<1> SUFFICES ASSUME RequestInv, DatesInv, [Next]_vars PROVE DatesInv'
  OBVIOUS
<1>1. CASE Start \/ UNCHANGED vars
  <2>1. \A u \in Requests : Still(u)
    BY <1>1 DEF Start, vars, Still
  <2>2. DOMAIN generated' = Requests
    BY <1>1 DEF Start, vars, DatesInv
  <2>3. ASSUME NEW u \in Requests PROVE DatedRequest(u)'
    <3>1. DatedRequest(u) /\ Still(u)
      BY <2>1 DEF DatesInv
    <3>2. QED
      BY <3>1 DEF DatedRequest, Still, Listed, Dated
  <2>4. QED
    BY <2>2, <2>3 DEF DatesInv
<1>2. ASSUME NEW r \in Requests, Ask(r) \/ Hang(r) \/ TimeoutGuard(r) \/ TimeoutRetrieve(r)
      PROVE  DatesInv'
  <2>1. DatedRequest(r)
    BY DEF DatesInv
  <2>2. DOMAIN generated' = Requests /\ \A u \in Requests \ {r} : Still(u)
    BY <1>2 DEF Ask, Hang, TimeoutGuard, TimeoutRetrieve, Submit, Return, Still, DatesInv,
                RequestInv, RequestType
  <2>3. Still(r) \/ Undated(r)
    BY <1>2, <2>1, SentinelOf
    DEF Ask, Hang, TimeoutGuard, TimeoutRetrieve, Submit, Return, Still, Unanswered, Undated,
        DatedRequest, RequestInv, RequestType
  <2>4. QED
    BY <2>2, <2>3, DatesStep
<1>3. QED
  BY <1>1, <1>2, FinishDates DEF Next

\* Where the reply has no date (a JSON null is one: "None"), an answer shows that of a candidate of the
\* page it cites, when there is one (generator.py:137-140,162-166), whatever the
\* two searches returned and in whatever order.
THEOREM DateOfCitedPageCorrect == Spec => []DateOfCitedPage
<1>1. DatesInv => DateOfCitedPage
  <2> SUFFICES ASSUME DatesInv, NEW r \in Requests, response[r].sentinel = "ANSWER",
                      response[r].date \notin
                        {FieldText(reply.date) : reply \in LlmReplies} \ {""},
                      response[r].citation \in {found[r][i].url : i \in DOMAIN found[r]}
               PROVE  \E i \in DOMAIN found[r] : /\ found[r][i].url = response[r].citation
                                                  /\ found[r][i].date = response[r].date
    BY DEF DateOfCitedPage
  <2>1. Dated(response[r].citation, response[r].date, found[r])
    BY DEF DatesInv, DatedRequest
  <2>2. QED
    BY <2>1 DEF Dated, ReplyDates
<1>2. Spec => []RequestInv
  BY InitRequest, NextRequest, PTL DEF Spec
<1>3. Spec => []DatesInv
  BY <1>2, InitDates, NextDates, PTL DEF Spec
<1>4. QED
  BY <1>1, <1>3, PTL
=============================================================================
