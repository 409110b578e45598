---------------------------- MODULE ScraperProofs ----------------------------
(***************************************************************************)
(* The circuit breaker bounds the sources tried in vain, what a run reports *)
(* as changed is complete on disk, and the politeness limiter spaces the   *)
(* sources: for every registry, threshold, interval, jitter and back-off.  *)
(***************************************************************************)
EXTENDS Scraper, DataFacts

-----------------------------------------------------------------------------
(* The politeness limiter *)

\* The clock and the limiter's slot are natural numbers, an attempt in progress is
\* counted from 1, and the next slot is an interval away from the last source.
SlotInv ==
  /\ now \in Nat /\ nextAllowed \in Nat /\ start \in Nat \cup {-1}
  /\ attempt \in Nat /\ (pc = "fetch" => attempt >= 1)
  /\ start >= 0 => start + Interval <= nextAllowed

\* Two successive sources start at least the interval apart.
SpacedStep == pc = "loop" /\ pc' = "fetch" /\ start >= 0 => start' - start >= Interval

\* A pause between two attempts is a natural number.
LEMMA PauseType ==
  ASSUME NEW n \in Nat \ {0}
  PROVE  Backoff[Min({n, Len(Backoff)})] \in Nat
<1>1. Backoff \in Seq(Nat) /\ Len(Backoff) \in Nat \ {0}
  BY ScraperAssumption
<1>2. Min({n, Len(Backoff)}) \in 1..Len(Backoff)
  BY <1>1, MinOfTwo
<1>3. QED
  BY <1>1, <1>2

\* The slot moves past every source, and no source starts before it.
LEMMA SlotStep ==
  ASSUME SlotInv, [Next]_vars
  PROVE  SlotInv' /\ SpacedStep
<1>1. CASE StartRun
  BY <1>1 DEF StartRun, SlotInv, SpacedStep
<1>2. CASE NextSource
  <2>1. PICK jitter \in Jitters : Wait(jitter)
    BY <1>2 DEF NextSource
  <2>2. jitter \in Nat /\ Interval \in Nat
    BY ScraperAssumption
  <2>3. Max({now, nextAllowed}) \in Nat /\ Max({now, nextAllowed}) >= nextAllowed
    BY MaxOfTwo DEF SlotInv
  <2>4. PICK t \in Nat : t >= nextAllowed /\ now' = t /\ nextAllowed' = t + Interval
    BY <2>1, <2>2, <2>3 DEF Wait, SlotInv
  <2>5. start' = t /\ attempt' = 1
    BY <1>2, <2>4 DEF NextSource
  <2>6. SlotInv'
    BY <2>2, <2>4, <2>5 DEF SlotInv
  <2>7. SpacedStep
    BY <2>2, <2>4, <2>5 DEF SlotInv, SpacedStep
  <2>8. QED
    BY <2>6, <2>7
<1>3. CASE FetchFails
  <2>1. pc = "fetch" /\ attempt \in Nat \ {0}
    BY <1>3 DEF FetchFails, SlotInv
  <2>2. CASE attempt < Attempts
    <3>1. PICK took \in Latencies : /\ now' = now + took + Backoff[Min({attempt, Len(Backoff)})]
                                    /\ attempt' = attempt + 1
      BY <1>3, <2>2 DEF FetchFails
    <3>2. Backoff[Min({attempt, Len(Backoff)})] \in Nat /\ took \in Nat
      BY <2>1, PauseType, ScraperAssumption
    <3>3. now' \in Nat /\ attempt' \in Nat \ {0}
      BY <2>1, <3>1, <3>2 DEF SlotInv
    <3>4. QED
      BY <1>3, <3>3 DEF FetchFails, SlotInv, SpacedStep
  <2>3. CASE ~(attempt < Attempts)
    <3>1. pc' = "loop" /\ now' \in Nat /\ attempt' = attempt
      BY <1>3, <2>3, ScraperAssumption DEF FetchFails, Result, SlotInv
    <3>2. QED
      BY <1>3, <3>1 DEF FetchFails, SlotInv, SpacedStep
  <2>4. QED
    BY <2>2, <2>3
<1>4. CASE FetchOk
  <2>1. now' \in Nat
    BY <1>4, ScraperAssumption DEF FetchOk, SlotInv
  <2>2. UNCHANGED <<nextAllowed, start, attempt>> /\ pc' # "fetch"
    BY <1>4 DEF FetchOk, Result
  <2>3. QED
    BY <2>1, <2>2 DEF SlotInv, SpacedStep
<1>5. CASE BreakerTrips \/ ParseFails \/ ParseOk \/ Emit \/ WriteReport \/ Crash
  <2>1. UNCHANGED <<now, nextAllowed, start, attempt>> /\ pc' # "fetch"
    BY <1>5 DEF BreakerTrips, ParseFails, ParseOk, Emit, WriteReport, Crash, Result
  <2>2. QED
    BY <2>1 DEF SlotInv, SpacedStep
<1>6. CASE UNCHANGED vars
  BY <1>6 DEF vars, SlotInv, SpacedStep
<1>7. QED
  BY <1>1, <1>2, <1>3, <1>4, <1>5, <1>6 DEF Next

\* The first requests of two successive sources of a run are at least the interval
\* apart (rate_limit.py:29-37), whatever the jitters, the fetches and the back-off
\* take and however many attempts there are, and wherever earlier runs died.
THEOREM SourcesSpacedCorrect == Spec => SourcesSpaced
<1>1. Init => SlotInv
  BY DEF Init, SlotInv
<1>2. SlotInv /\ [Next]_vars => SlotInv'
  BY SlotStep
<1>3. SlotInv /\ [Next]_vars => [SpacedStep]_vars
  BY SlotStep
<1>4. QED
  BY <1>1, <1>2, <1>3, PTL DEF Spec, SourcesSpaced, SpacedStep

-----------------------------------------------------------------------------
(* The circuit breaker and the files of a run *)

\* What a file may hold: nothing, or a page some source shows.
Contents == {"none"} \cup UNION {PagesOf[s] : s \in DOMAIN PagesOf}

\* The run has an id, the corpus directory of every id has a place for every
\* source, and the targets left are positions of the registry.
ScrapeType ==
  /\ pc \in {"idle", "loop", "fetch", "parse", "emit"}
  /\ run \in RunIds
  /\ todo \subseteq DOMAIN SourceList
  /\ page \in Contents
  /\ files \in [RunIds -> [ToSet(SourceList) -> [html : Contents, json : Contents]]]

\* A target is in the works only while the failures are within the tolerance, and
\* there is at least one target then, so the fraction is defined.  A process that
\* runs has no exit code.
BreakerInv ==
  /\ IsFiniteSet(DOMAIN results)
  /\ total \in Nat /\ Cardinality(todo) <= total
  /\ pc \in {"fetch", "parse", "emit"} =>
       todo # {} /\ Failed * FailedDen <= FailedNum * total
  /\ pc # "idle" => exit = -1
  /\ BreakerBoundsFailures

\* Only sources have results, no target left has one yet, and the files of the target in the works are
\* those of the page just fetched.
FilesInv ==
  /\ DOMAIN results \subseteq ToSet(SourceList)
  /\ \A i \in todo : SourceList[i] \notin DOMAIN results
  /\ pc \in {"parse", "emit"} => files[run][Target].html = page
  /\ pc = "emit" => files[run][Target].json = page
  /\ ChangedIsComplete

ScrapeInv == ScrapeType /\ BreakerInv /\ FilesInv

\* The files of the run with one of the target's replaced.
WithHtml(t, c) == [files EXCEPT ![run][t].html = c]
WithJson(t, c) == [files EXCEPT ![run][t].json = c]

\* Writing one file of a source leaves its other file and the other sources alone.
LEMMA WriteOneFile ==
  ASSUME ScrapeType, NEW t \in ToSet(SourceList), NEW c \in Contents
  PROVE  /\ WithHtml(t, c) \in [RunIds -> [ToSet(SourceList) -> [html : Contents, json : Contents]]]
         /\ WithHtml(t, c)[run][t] = [html |-> c, json |-> files[run][t].json]
         /\ \A x \in ToSet(SourceList) : x = t \/ WithHtml(t, c)[run][x] = files[run][x]
         /\ WithJson(t, c) \in [RunIds -> [ToSet(SourceList) -> [html : Contents, json : Contents]]]
         /\ WithJson(t, c)[run][t] = [html |-> files[run][t].html, json |-> c]
         /\ \A x \in ToSet(SourceList) : x = t \/ WithJson(t, c)[run][x] = files[run][x]
<1> DEFINE F == [html : Contents, json : Contents]
           T == ToSet(SourceList)
           h == [files[run][t] EXCEPT !.html = c]
           j == [files[run][t] EXCEPT !.json = c]
<1>1. run \in RunIds /\ files \in [RunIds -> [T -> F]] /\ files[run] \in [T -> F]
      /\ files[run][t] \in F
  BY DEF ScrapeType
<1>2. h \in F /\ j \in F
  BY <1>1
<1>3. h = [html |-> c, json |-> files[run][t].json] /\ j = [html |-> files[run][t].html, json |-> c]
  BY <1>1
<1>4. /\ WithHtml(t, c) = [files EXCEPT ![run] = [files[run] EXCEPT ![t] = h]]
      /\ WithJson(t, c) = [files EXCEPT ![run] = [files[run] EXCEPT ![t] = j]]
  BY <1>1 DEF WithHtml, WithJson
<1> HIDE DEF F, T, h, j
<1>5. t \in T
  BY DEF T
<1>6. \A v \in F : /\ [files EXCEPT ![run] = [files[run] EXCEPT ![t] = v]] \in [RunIds -> [T -> F]]
                   /\ [files EXCEPT ![run] = [files[run] EXCEPT ![t] = v]][run][t] = v
                   /\ \A x \in T : x = t \/
                        [files EXCEPT ![run] = [files[run] EXCEPT ![t] = v]][run][x] = files[run][x]
  BY <1>1, <1>5
<1>7. QED
  BY <1>2, <1>3, <1>4, <1>6 DEF F, T

\* The target of a run that has one left: the source at the least position left.
LEMMA TargetFacts ==
  ASSUME ScrapeType, todo # {}
  PROVE  /\ Min(todo) \in todo
         /\ Target = SourceList[Min(todo)]
         /\ Target \in ToSet(SourceList)
         /\ Target \in DOMAIN PagesOf
<1>1. DOMAIN SourceList \subseteq Nat
  BY ScraperAssumption, LenProperties
<1>2. Min(todo) \in todo
  BY <1>1, MinOfNats DEF ScrapeType
<1>3. Target = SourceList[Min(todo)]
  BY DEF Target
<1>4. Min(todo) \in DOMAIN SourceList
  BY <1>2 DEF ScrapeType
<1>5. Target \in ToSet(SourceList)
  BY <1>3, <1>4 DEF ToSet
<1>6. Target \in DOMAIN PagesOf
  BY <1>3, <1>4, ScraperAssumption, ElementOfSeq, LenProperties
<1>7. QED
  BY <1>2, <1>3, <1>5, <1>6

\* Two positions left are two sources.
LEMMA OtherTargets ==
  ASSUME ScrapeType, NEW i \in todo, NEW j \in todo, i # j
  PROVE  SourceList[i] # SourceList[j]
  BY ScraperAssumption DEF ScrapeType, IsInjective

\* Every file is written where the corpus directory has a place for it.
LEMMA ScrapeTypeStep ==
  ASSUME ScrapeInv, [Next]_vars
  PROVE  ScrapeType'
<1> USE DEF ScrapeInv, ScrapeType
<1>1. CASE StartRun
  BY <1>1 DEF StartRun
<1>2. CASE NextSource \/ BreakerTrips \/ WriteReport \/ Crash
  BY <1>2 DEF NextSource, BreakerTrips, WriteReport, Crash
<1>3. CASE FetchFails
  BY <1>3 DEF FetchFails, Result
<1>4. CASE FetchOk
  <2>1. todo # {}
    BY <1>4 DEF FetchOk, BreakerInv
  <2>2. Target \in ToSet(SourceList) /\ Target \in DOMAIN PagesOf
    BY <2>1, TargetFacts
  <2>3. page' \in Contents
    BY <1>4, <2>2 DEF FetchOk, Fetch, FetchPlaywright, FetchHttpx, Contents
  <2>4. files' \in [RunIds -> [ToSet(SourceList) -> [html : Contents, json : Contents]]]
    <3>1. files' = files \/ files' = WithHtml(Target, page')
      BY <1>4 DEF FetchOk, WithHtml
    <3>2. WithHtml(Target, page')
            \in [RunIds -> [ToSet(SourceList) -> [html : Contents, json : Contents]]]
      BY <2>2, <2>3, WriteOneFile
    <3>3. QED
      BY <3>1, <3>2
  <2>5. todo' \subseteq DOMAIN SourceList /\ pc' \in {"loop", "parse"} /\ run' = run
    BY <1>4 DEF FetchOk, Result
  <2>6. QED
    BY <2>3, <2>4, <2>5
<1>5. CASE ParseFails
  BY <1>5 DEF ParseFails, Result
<1>6. CASE ParseOk
  <2>1. todo # {}
    BY <1>6 DEF ParseOk, BreakerInv
  <2>2. Target \in ToSet(SourceList)
    BY <2>1, TargetFacts
  <2>3. files' \in [RunIds -> [ToSet(SourceList) -> [html : Contents, json : Contents]]]
    <3>1. files' = WithJson(Target, page)
      BY <1>6 DEF ParseOk, WriteStructured, WithJson
    <3>2. WithJson(Target, page)
            \in [RunIds -> [ToSet(SourceList) -> [html : Contents, json : Contents]]]
      BY <2>2, WriteOneFile
    <3>3. QED
      BY <3>1, <3>2
  <2>4. QED
    BY <1>6, <2>3 DEF ParseOk
<1>7. CASE Emit
  BY <1>7 DEF Emit, Result
<1>8. CASE UNCHANGED vars
  BY <1>8 DEF vars
<1>9. QED
  BY <1>1, <1>2, <1>3, <1>4, <1>5, <1>6, <1>7, <1>8 DEF Next

\* Finitely many positions are left.
LEMMA TodoFinite ==
  ASSUME NEW S, S \subseteq DOMAIN SourceList
  PROVE  IsFiniteSet(S)
<1>1. Len(SourceList) \in Nat /\ DOMAIN SourceList = 1..Len(SourceList)
  BY ScraperAssumption, LenProperties
<1>2. IsFiniteSet(1..Len(SourceList))
  BY <1>1, FS_Interval
<1>3. QED
  BY <1>1, <1>2, FS_Subset

\* A result adds at most one failure, none unless it is one, and there is a target
\* less to go.
LEMMA ResultCounts ==
  ASSUME ScrapeType, BreakerInv, todo # {}, NEW status, Result(status)
  PROVE  /\ IsFiniteSet(DOMAIN results')
         /\ Cardinality(todo') <= total
         /\ Failed' \in Nat
         /\ Failed' <= Failed + 1
         /\ status # "failed" => Failed' <= Failed
<1> DEFINE F  == {s \in DOMAIN results : results[s] = "failed"}
           G  == {s \in DOMAIN results' : results'[s] = "failed"}
<1>1. DOMAIN results' = DOMAIN results \cup {Target}
  BY DEF Result
<1>2. IsFiniteSet(DOMAIN results')
  BY <1>1, FS_AddElement DEF BreakerInv
<1>3. G \subseteq F \cup {Target} /\ (status # "failed" => G \subseteq F)
  BY DEF Result
<1>4. IsFiniteSet(F) /\ F \subseteq DOMAIN results
  BY FS_Subset DEF BreakerInv
<1>5. /\ IsFiniteSet(F \cup {Target})
      /\ Cardinality(F \cup {Target}) \in {Cardinality(F), Cardinality(F) + 1}
  BY <1>4, FS_AddElement, FS_CardinalityType
<1>6. Cardinality(F) \in Nat
  BY <1>4, FS_CardinalityType
<1>7. Cardinality(G) \in Nat /\ Cardinality(G) <= Cardinality(F \cup {Target})
  BY <1>3, <1>5, FS_Subset, FS_CardinalityType
<1>8. status # "failed" => Cardinality(G) <= Cardinality(F)
  BY <1>3, <1>4, FS_Subset
<1>9. Cardinality(todo') <= total
  <2>1. IsFiniteSet(todo)
    BY TodoFinite DEF ScrapeType
  <2>2. todo' \subseteq todo
    BY DEF Result
  <2>3. /\ Cardinality(todo') <= Cardinality(todo)
        /\ Cardinality(todo) \in Nat /\ Cardinality(todo') \in Nat
    BY <2>1, <2>2, FS_Subset, FS_CardinalityType
  <2>4. QED
    BY <2>3 DEF BreakerInv
<1>10. Failed = Cardinality(F) /\ Failed' = Cardinality(G)
  BY DEF Failed
<1> HIDE DEF F, G
<1>11. Failed' <= Failed + 1
  BY <1>5, <1>6, <1>7, <1>10
<1>12. QED
  BY <1>2, <1>7, <1>8, <1>9, <1>10, <1>11

\* At most one failure goes past the tolerance, and exit code 0 is given only where
\* there is none.
LEMMA BreakerStep ==
  ASSUME ScrapeInv, [Next]_vars
  PROVE  BreakerInv'
<1>a. ScrapeType /\ BreakerInv
  BY DEF ScrapeInv
<1>b. FailedNum \in Nat /\ FailedDen \in Nat
  BY ScraperAssumption
<1>c. IsFiniteSet(DOMAIN results) /\ total \in Nat /\ Cardinality(todo) <= total
  BY <1>a DEF BreakerInv
<1>d. Failed \in Nat
  <2>1. IsFiniteSet({s \in DOMAIN results : results[s] = "failed"})
    BY <1>c, FS_Subset
  <2>2. QED
    BY <2>1, FS_CardinalityType DEF Failed
<1>e. \A m \in Nat : m * FailedDen <= FailedNum * total
        => (m > 0 => (m - 1) * FailedDen <= FailedNum * total)
  BY <1>b, <1>c
<1>f. \A m, n \in Nat : m <= n + 1 /\ n * FailedDen <= FailedNum * total /\ m > 0
        => (m - 1) * FailedDen <= FailedNum * total
  <2>1. \A k, n \in Nat : k <= n => k * FailedDen <= n * FailedDen
    BY <1>b
  <2>2. \A k, n \in Nat : k * FailedDen \in Int /\ FailedNum * total \in Int
    BY <1>b, <1>c
  <2>3. \A m, n \in Nat : m <= n + 1 /\ m > 0 => m - 1 \in Nat /\ m - 1 <= n
    OBVIOUS
  <2>4. QED
    BY <2>1, <2>2, <2>3
<1>1. CASE StartRun
  <2>1. results' = <<>> /\ pc' = "loop" /\ exit' = -1
    BY <1>1 DEF StartRun
  <2>2. todo' \subseteq DOMAIN SourceList /\ total' = Cardinality(todo')
    BY <1>1 DEF StartRun
  <2>3. total' \in Nat
    BY <2>2, TodoFinite, FS_CardinalityType
  <2>4. DOMAIN results' = {}
    BY <2>1
  <2>5. IsFiniteSet(DOMAIN results') /\ Failed' = 0
    <3>1. {s \in DOMAIN results' : results'[s] = "failed"} = {}
      BY <2>4
    <3>2. QED
      BY <2>4, <3>1, FS_EmptySet DEF Failed
  <2>6. QED
    BY <2>1, <2>2, <2>3, <2>5 DEF BreakerInv, BreakerBoundsFailures
<1>2. ASSUME UNCHANGED <<results, total, todo>>
      PROVE  /\ Failed' = Failed
             /\ IsFiniteSet(DOMAIN results') /\ total' \in Nat
             /\ Cardinality(todo') <= total'
             /\ Failed' > 0 => (Failed' - 1) * FailedDen <= FailedNum * total'
  <2>1. Failed' = Failed
    BY <1>2 DEF Failed
  <2>2. QED
    BY <1>2, <1>a, <2>1 DEF BreakerInv, BreakerBoundsFailures
<1>3. CASE BreakerTrips
  <2>1. UNCHANGED <<results, total, todo>> /\ pc' = "idle" /\ exit' = 2
    BY <1>3 DEF BreakerTrips
  <2>2. QED
    BY <1>2, <2>1 DEF BreakerInv, BreakerBoundsFailures
<1>4. CASE NextSource
  <2>1. UNCHANGED <<results, total, todo, exit>> /\ pc = "loop" /\ pc' = "fetch"
    BY <1>4 DEF NextSource
  <2>2. todo # {} /\ ~BreakerOpens
    BY <1>4 DEF NextSource
  <2>3. total > 0
    <3>1. IsFiniteSet(todo)
      BY <1>a, TodoFinite DEF ScrapeType
    <3>2. Cardinality(todo) \in Nat /\ Cardinality(todo) # 0
      BY <2>2, <3>1, FS_CardinalityType, FS_EmptySet
    <3>3. QED
      BY <1>c, <3>2
  <2>4. Failed * FailedDen <= FailedNum * total
    <3>1. ~ (Failed * FailedDen > FailedNum * total)
      BY <2>2, <2>3 DEF BreakerOpens
    <3>2. Failed * FailedDen \in Int /\ FailedNum * total \in Int
      BY <1>b, <1>c, <1>d
    <3>3. QED
      BY <3>1, <3>2
  <2>5. exit' = -1
    BY <1>a, <2>1 DEF BreakerInv
  <2>6. todo' # {} /\ Failed' * FailedDen <= FailedNum * total'
    BY <1>2, <2>1, <2>2, <2>4
  <2>7. QED
    BY <1>2, <2>1, <2>5, <2>6 DEF BreakerInv, BreakerBoundsFailures
<1>5. ASSUME pc \in {"fetch", "parse", "emit"}, NEW status, Result(status),
             UNCHANGED <<total, exit>>
      PROVE  BreakerInv'
  <2>1. todo # {} /\ Failed * FailedDen <= FailedNum * total /\ exit = -1
    BY <1>a, <1>5 DEF BreakerInv
  <2>2. /\ IsFiniteSet(DOMAIN results')
        /\ Cardinality(todo') <= total
        /\ Failed' \in Nat /\ Failed' <= Failed + 1
    BY <1>a, <1>5, <2>1, ResultCounts
  <2>3. Failed' > 0 => (Failed' - 1) * FailedDen <= FailedNum * total
    BY <1>d, <1>f, <2>1, <2>2
  <2>4. pc' = "loop" /\ exit' = -1 /\ total' = total
    BY <1>5, <2>1 DEF Result
  <2>5. QED
    BY <1>c, <2>2, <2>3, <2>4 DEF BreakerInv, BreakerBoundsFailures
<1>6. ASSUME pc \in {"fetch", "parse", "emit"}, UNCHANGED <<results, total, todo, exit>>
      PROVE  BreakerInv'
  <2>1. todo # {} /\ Failed * FailedDen <= FailedNum * total /\ exit = -1
    BY <1>a, <1>6 DEF BreakerInv
  <2>2. todo' # {} /\ Failed' * FailedDen <= FailedNum * total' /\ exit' = -1
    BY <1>2, <1>6, <2>1
  <2>3. QED
    BY <1>2, <1>6, <2>2 DEF BreakerInv, BreakerBoundsFailures
<1>7. CASE FetchFails
  BY <1>5, <1>6, <1>7 DEF FetchFails
<1>8. CASE FetchOk
  BY <1>5, <1>6, <1>8 DEF FetchOk
<1>9. CASE ParseFails
  BY <1>5, <1>9 DEF ParseFails
<1>10. CASE ParseOk
  BY <1>6, <1>10 DEF ParseOk
<1>11. CASE Emit
  BY <1>5, <1>11 DEF Emit
<1>12. CASE WriteReport
  <2>1. UNCHANGED <<results, total, todo>> /\ pc' = "idle" /\ todo = {}
    BY <1>12 DEF WriteReport
  <2>2. exit' = 0 => Failed = 0
    BY <1>12, <1>d DEF WriteReport
  <2>3. QED
    BY <1>2, <2>1, <2>2 DEF BreakerInv, BreakerBoundsFailures
<1>13. CASE Crash
  <2>1. UNCHANGED <<results, total, todo, exit>> /\ pc' = "idle" /\ exit = -1
    BY <1>13, <1>a DEF Crash, BreakerInv
  <2>2. QED
    BY <1>2, <2>1 DEF BreakerInv, BreakerBoundsFailures
<1>14. CASE UNCHANGED vars
  <2>1. UNCHANGED <<results, total, todo, exit, pc>>
    BY <1>14 DEF vars
  <2>2. QED
    BY <1>2, <1>a, <2>1 DEF BreakerInv, BreakerBoundsFailures
<1>15. QED
  BY <1>1, <1>3, <1>4, <1>7, <1>8, <1>9, <1>10, <1>11, <1>12, <1>13, <1>14 DEF Next

\* The result of the target in the works joins those of the others, and no target
\* left has one.
LEMMA ResultKeeps ==
  ASSUME ScrapeType, FilesInv, todo # {}, NEW status, Result(status)
  PROVE  /\ DOMAIN results' = DOMAIN results \cup {Target}
         /\ results'[Target] = status
         /\ \A s \in DOMAIN results : s # Target /\ results'[s] = results[s]
         /\ \A i \in todo' : SourceList[i] \notin DOMAIN results'
<1>1. Min(todo) \in todo /\ Target = SourceList[Min(todo)]
  BY TargetFacts
<1>2. DOMAIN results' = DOMAIN results \cup {Target} /\ results'[Target] = status
  BY DEF Result
<1>3. Target \notin DOMAIN results
  BY <1>1 DEF FilesInv
<1>4. \A s \in DOMAIN results : s # Target /\ results'[s] = results[s]
  BY <1>3 DEF Result
<1>5. \A i \in todo' : i \in todo /\ i # Min(todo)
  BY DEF Result
<1>6. \A i \in todo' : SourceList[i] # Target
  BY <1>1, <1>5, OtherTargets
<1>7. \A i \in todo' : SourceList[i] \notin DOMAIN results
  BY <1>5 DEF FilesInv
<1>8. QED
  BY <1>2, <1>4, <1>6, <1>7

\* What is reported as changed stays complete.
LEMMA FilesStep ==
  ASSUME ScrapeInv, [Next]_vars
  PROVE  FilesInv'
<1>a. ScrapeType /\ FilesInv
  BY DEF ScrapeInv
<1>b. pc \in {"fetch", "parse", "emit"} => todo # {}
  BY DEF ScrapeInv, BreakerInv
<1>1. CASE StartRun
  BY <1>1 DEF StartRun, FilesInv, ChangedIsComplete
<1>2. CASE NextSource \/ BreakerTrips \/ WriteReport \/ Crash
  <2>1. UNCHANGED <<run, todo, page, results, files, events>>
        /\ pc' \notin {"parse", "emit"}
    BY <1>2 DEF NextSource, BreakerTrips, WriteReport, Crash
  <2>2. QED
    BY <1>a, <2>1 DEF FilesInv, ChangedIsComplete, Target
<1>3. ASSUME todo # {}, NEW status, status # "changed", Result(status),
             UNCHANGED <<run, files, events>>
      PROVE  FilesInv'
  <2>1. pc' = "loop"
    BY <1>3 DEF Result
  <2>2. ChangedIsComplete'
    BY <1>a, <1>3, ResultKeeps DEF FilesInv, ChangedIsComplete
  <2>3. QED
    BY <1>a, <1>3, <2>1, <2>2, ResultKeeps, TargetFacts DEF FilesInv
<1>4. ASSUME todo # {}, UNCHANGED <<run, todo, results, events>>,
             files' \in [RunIds -> [ToSet(SourceList) -> [html : Contents, json : Contents]]],
             \A s \in ToSet(SourceList) : s = Target \/ files'[run][s] = files[run][s]
      PROVE  /\ \A i \in todo' : SourceList[i] \notin DOMAIN results'
             /\ ChangedIsComplete' /\ Target' = Target
  <2>1. Target \notin DOMAIN results
    BY <1>a, <1>4, TargetFacts DEF FilesInv
  <2>2. \A s \in DOMAIN results : s \in ToSet(SourceList) => files'[run][s] = files[run][s]
    BY <1>4, <2>1
  <2>3. Target' = Target
    BY <1>4 DEF Target
  <2>4. QED
    BY <1>a, <1>4, <2>2, <2>3 DEF FilesInv, ChangedIsComplete
<1>5. CASE FetchFails
  <2>1. CASE attempt < Attempts
    <3>1. UNCHANGED <<run, todo, page, results, files, events>> /\ pc' = "fetch"
      BY <1>5, <2>1 DEF FetchFails
    <3>2. QED
      BY <1>a, <3>1 DEF FilesInv, ChangedIsComplete
  <2>2. CASE ~ (attempt < Attempts)
    BY <1>b, <1>3, <1>5, <2>2 DEF FetchFails
  <2>3. QED
    BY <2>1, <2>2
<1>6. CASE ParseFails
  BY <1>b, <1>3, <1>6 DEF ParseFails
<1>7. CASE FetchOk
  <2>1. todo # {} /\ run \in RunIds /\ Target \in ToSet(SourceList)
    BY <1>a, <1>b, <1>7, TargetFacts DEF FetchOk, ScrapeType
  <2>2. CASE ~force /\ LastChecksums[Target] = page'
    <3>1. Result("unchanged") /\ UNCHANGED <<run, files, events>>
      BY <1>7, <2>2 DEF FetchOk
    <3>2. QED
      BY <1>3, <2>1, <3>1
  <2>3. CASE ~ (~force /\ LastChecksums[Target] = page')
    <3>1. /\ files' = WithHtml(Target, page')
          /\ pc' = "parse" /\ UNCHANGED <<run, todo, results, events>>
      BY <1>7, <2>3 DEF FetchOk, WithHtml
    <3>2. page' \in Contents
      BY ScrapeTypeStep DEF ScrapeType
    <3>3. /\ files' \in [RunIds -> [ToSet(SourceList) -> [html : Contents, json : Contents]]]
          /\ files'[run][Target] = [html |-> page', json |-> files[run][Target].json]
          /\ \A s \in ToSet(SourceList) : s = Target \/ files'[run][s] = files[run][s]
      <4> DEFINE g == WithHtml(Target, page')
      <4>1. g \in [RunIds -> [ToSet(SourceList) -> [html : Contents, json : Contents]]]
        BY <1>a, <2>1, <3>2, WriteOneFile
      <4>2. g[run][Target] = [html |-> page', json |-> files[run][Target].json]
        BY <1>a, <2>1, <3>2, WriteOneFile
      <4>3. \A s \in ToSet(SourceList) : s = Target \/ g[run][s] = files[run][s]
        BY <1>a, <2>1, <3>2, WriteOneFile
      <4>4. files' = g
        BY <3>1
      <4> HIDE DEF g
      <4>5. QED
        BY <4>1, <4>2, <4>3, <4>4
    <3>4. /\ \A i \in todo' : SourceList[i] \notin DOMAIN results'
          /\ ChangedIsComplete' /\ Target' = Target
      BY <1>4, <2>1, <3>1, <3>3
    <3>5. files'[run'][Target'].html = page'
      BY <3>1, <3>3, <3>4
    <3>6. QED
      BY <1>a, <3>1, <3>4, <3>5 DEF FilesInv
  <2>4. QED
    BY <2>2, <2>3
<1>8. CASE ParseOk
  <2>1. todo # {} /\ run \in RunIds /\ Target \in ToSet(SourceList)
    BY <1>a, <1>b, <1>8, TargetFacts DEF ParseOk, ScrapeType
  <2>2. /\ files' = WithJson(Target, page)
        /\ pc = "parse" /\ pc' = "emit" /\ UNCHANGED <<run, todo, page, results, events>>
    BY <1>8 DEF ParseOk, WriteStructured, WithJson
  <2>3. page \in Contents
    BY <1>a DEF ScrapeType
  <2>4. /\ files' \in [RunIds -> [ToSet(SourceList) -> [html : Contents, json : Contents]]]
        /\ files'[run][Target] = [html |-> files[run][Target].html, json |-> page]
        /\ \A s \in ToSet(SourceList) : s = Target \/ files'[run][s] = files[run][s]
    <3> DEFINE g == WithJson(Target, page)
    <3>1. g \in [RunIds -> [ToSet(SourceList) -> [html : Contents, json : Contents]]]
      BY <1>a, <2>1, <2>3, WriteOneFile
    <3>2. g[run][Target] = [html |-> files[run][Target].html, json |-> page]
      BY <1>a, <2>1, <2>3, WriteOneFile
    <3>3. \A s \in ToSet(SourceList) : s = Target \/ g[run][s] = files[run][s]
      BY <1>a, <2>1, <2>3, WriteOneFile
    <3>4. files' = g
      BY <2>2
    <3> HIDE DEF g
    <3>5. QED
      BY <3>1, <3>2, <3>3, <3>4
  <2>5. /\ \A i \in todo' : SourceList[i] \notin DOMAIN results'
        /\ ChangedIsComplete' /\ Target' = Target
    BY <1>4, <2>1, <2>2, <2>4
  <2>6. files'[run'][Target'].html = page' /\ files'[run'][Target'].json = page'
    BY <1>a, <2>2, <2>4, <2>5 DEF FilesInv
  <2>7. QED
    BY <1>a, <2>2, <2>5, <2>6 DEF FilesInv
<1>9. CASE Emit
  <2>1. todo # {} /\ Target \in ToSet(SourceList)
    BY <1>a, <1>b, <1>9, TargetFacts DEF Emit
  <2>2. /\ Result("changed") /\ UNCHANGED <<run, files>> /\ pc = "emit" /\ pc' = "loop"
        /\ events' = events \cup {[source |-> Target, checksum |-> page]}
    BY <1>9 DEF Emit, Result
  <2>3. files[run][Target].html = page /\ files[run][Target].json = page
    BY <1>a, <2>2 DEF FilesInv
  <2>4. /\ DOMAIN results' = DOMAIN results \cup {Target}
        /\ \A s \in DOMAIN results : s # Target /\ results'[s] = results[s]
        /\ \A i \in todo' : SourceList[i] \notin DOMAIN results'
    BY <1>a, <2>1, <2>2, ResultKeeps
  <2>5. ASSUME NEW s \in DOMAIN results', results'[s] = "changed"
        PROVE  /\ files'[run'][s].html = files'[run'][s].json
               /\ [source |-> s, checksum |-> files'[run'][s].json] \in events'
    <3>1. CASE s = Target
      BY <2>2, <2>3, <3>1
    <3>2. CASE s # Target
      <4>1. s \in DOMAIN results /\ results[s] = "changed"
        BY <2>4, <2>5, <3>2
      <4>2. QED
        BY <1>a, <2>2, <4>1 DEF FilesInv, ChangedIsComplete
    <3>3. QED
      BY <3>1, <3>2
  <2>6. ChangedIsComplete'
    BY <2>5 DEF ChangedIsComplete
  <2>7. QED
    BY <1>a, <2>1, <2>2, <2>4, <2>6 DEF FilesInv
<1>10. CASE UNCHANGED vars
  BY <1>a, <1>10 DEF vars, FilesInv, ChangedIsComplete, Target
<1>11. QED
  BY <1>1, <1>2, <1>5, <1>6, <1>7, <1>8, <1>9, <1>10 DEF Next

\* Every state of the scraping service satisfies the invariant.
THEOREM ScrapeInvariant == Spec => []ScrapeInv
<1>1. ASSUME Init PROVE ScrapeInv
  <2>1. DOMAIN results = {} /\ todo = {}
    BY <1>1 DEF Init
  <2>2. ScrapeType
    BY <1>1 DEF Init, ScrapeType, NoFile, Contents
  <2>3. BreakerInv
    <3>1. {s \in DOMAIN results : results[s] = "failed"} = {}
      BY <2>1
    <3>2. Failed = 0 /\ Cardinality(todo) = 0 /\ IsFiniteSet(DOMAIN results)
      BY <2>1, <3>1, FS_EmptySet DEF Failed
    <3>3. QED
      BY <1>1, <2>1, <3>2 DEF Init, BreakerInv, BreakerBoundsFailures
  <2>4. FilesInv
    BY <1>1, <2>1 DEF Init, FilesInv, ChangedIsComplete
  <2>5. QED
    BY <2>2, <2>3, <2>4 DEF ScrapeInv
<1>2. ScrapeInv /\ [Next]_vars => ScrapeInv'
  BY ScrapeTypeStep, BreakerStep, FilesStep DEF ScrapeInv
<1>3. QED
  BY <1>1, <1>2, PTL DEF Spec

\* The circuit breaker (service.py:109-134) lets at most one source fail past the
\* tolerated fraction, and the exit code is 0 only where none failed and none was
\* left out (scheduler/cli.py:70-86).
THEOREM BreakerBoundsFailuresCorrect == Spec => []BreakerBoundsFailures
<1>1. ScrapeInv => BreakerBoundsFailures
  BY DEF ScrapeInv, BreakerInv
<1>2. QED
  BY <1>1, ScrapeInvariant, PTL

\* A source reported as changed (service.py) has the HTML and the JSON of the page
\* its event names, whatever runs of the same id died before.
THEOREM ChangedIsCompleteCorrect == Spec => []ChangedIsComplete
<1>1. ScrapeInv => ChangedIsComplete
  BY DEF ScrapeInv, FilesInv
<1>2. QED
  BY <1>1, ScrapeInvariant, PTL
=============================================================================
