------------------------------ MODULE Scraper ------------------------------
(***************************************************************************)
(* The scraping service as the scheduler's CLI runs it: the circuit        *)
(* breaker, the politeness limiter, fetches with retries, and what a run   *)
(* leaves in the corpus directory of its run id.  One process at a time;   *)
(* it may die at any step, and a run id may be used again.  A page is a    *)
(* model value; its checksum is the page itself.                           *)
(***************************************************************************)
EXTENDS Integers, SequencesExt

CONSTANTS
  SourceList,             \* the registry, a sequence
  Targets,                \* bound: the values --sources may have
  PagesOf,                \* bound: the pages each source may show
  Unparsable, Invalid,    \* pages the parser raises on, the validator refuses
  LastChecksums,          \* last_checksums, "none" where there is none
  RunIds,                 \* run ids; one may be used again
  FailedNum, FailedDen,   \* abort_if_failed_fraction_exceeds, a fraction
  Attempts, Backoff,      \* per_url_attempts, backoff_seconds
  Interval, Jitters,      \* the limiter's interval, bound: its jitters
  Latencies,              \* bound: how long a fetch may take
  MaxRuns                 \* bound: runs

ASSUME ScraperAssumption ==
  /\ {FailedNum, Interval, MaxRuns} \subseteq Nat
  /\ {FailedDen, Attempts} \subseteq Nat \ {0}
  /\ Jitters \subseteq Nat /\ Latencies \subseteq Nat /\ Backoff \in Seq(Nat) /\ Backoff # <<>>
  /\ SourceList \in Seq(DOMAIN PagesOf) /\ IsInjective(SourceList)

VARIABLES
  pc, run, force,  \* where the process is, its run id and --force
  total, todo,     \* how many targets there are; the positions of those left
  attempt,         \* of the fetch in progress
  page,            \* what it fetched
  results,         \* report.results, by source
  files,           \* what the corpus directory of a run id holds of a source
  events,          \* DocumentChangedEvents of this run
  robots,          \* the cached robots.txt: "unread", "allows", "disallows"
  now, nextAllowed, start,  \* the clock, _next_allowed, the last source's start
  exit,            \* the exit code, -1 before the process has one
  runs             \* runs so far

vars == <<pc, run, force, total, todo, attempt, page, results, files, events,
          robots, now, nextAllowed, start, exit, runs>>

NoFile == [html |-> "none", json |-> "none"]

Init ==
  /\ pc = "idle" /\ run \in RunIds /\ force = FALSE
  /\ total = 0 /\ todo = {} /\ attempt = 0 /\ page = "none"
  /\ results = <<>>
  /\ files = [i \in RunIds |-> [s \in ToSet(SourceList) |-> NoFile]]
  /\ events = {}
  /\ robots = "unread"
  /\ now = 0 /\ nextAllowed = 0 /\ start = -1
  /\ exit = -1 /\ runs = 0

\* A process starts: its limiter and its robots cache are fresh.
StartRun ==
  /\ pc = "idle" /\ runs < MaxRuns
  /\ runs' = runs + 1
  /\ run' \in RunIds /\ force' \in BOOLEAN
  /\ \E wanted \in Targets : todo' = {i \in DOMAIN SourceList : SourceList[i] \in wanted}
  /\ total' = Cardinality(todo')
  /\ pc' = "loop" /\ results' = <<>> /\ events' = {} /\ exit' = -1
  /\ robots' = "unread" /\ now' = 0 /\ nextAllowed' = 0 /\ start' = -1
  /\ UNCHANGED <<attempt, page, files>>

-----------------------------------------------------------------------------

\* The targets are taken in the registry's order.
Target == SourceList[Min(todo)]

Failed == Cardinality({s \in DOMAIN results : results[s] = "failed"})

\* A bug: the fraction is computed with an integer division.
BreakerOpensWhole == total > 0 /\ (Failed \div total) * FailedDen > FailedNum

\* failed / total > threshold, over all targets of the run.
BreakerOpens == total > 0 /\ Failed * FailedDen > FailedNum * total

BreakerTrips ==
  /\ pc = "loop" /\ todo # {} /\ BreakerOpens
  /\ pc' = "idle" /\ exit' = 2
  /\ UNCHANGED <<run, force, total, todo, attempt, page, results, files, events,
                 robots, now, nextAllowed, start, runs>>

\* A bug: the next slot is counted from the time before the sleep.
WaitFromArrival(jitter) ==
  /\ now' = Max({now, nextAllowed}) + jitter
  /\ nextAllowed' = now + Interval

\* The jitter is slept off on top of the delay.
Wait(jitter) ==
  /\ now' = Max({now, nextAllowed}) + jitter
  /\ nextAllowed' = now' + Interval

NextSource ==
  /\ pc = "loop" /\ todo # {} /\ ~BreakerOpens
  /\ \E jitter \in Jitters : Wait(jitter)
  /\ start' = now'
  /\ attempt' = 1 /\ pc' = "fetch"
  /\ UNCHANGED <<run, force, total, todo, page, results, files, events, robots, exit, runs>>

\* The source's result is appended, and the loop goes on.
Result(status) ==
  /\ results' = [s \in DOMAIN results \cup {Target} |->
                   IF s = Target THEN status ELSE results[s]]
  /\ todo' = todo \ {Min(todo)}
  /\ pc' = "loop"

\* A robots.txt that cannot be read allows the fetch and is not cached.
CanFetch == IF robots = "unread" THEN {"unread", "allows", "disallows"} ELSE {robots}

\* The page comes from Playwright or, failing that, from httpx.
FetchPlaywright(s) == PagesOf[s]
FetchHttpx(s) == PagesOf[s]
Fetch(s) == FetchPlaywright(s) \cup FetchHttpx(s)

\* Neither does, or robots.txt forbids it: a pause, and another attempt.
FetchFails ==
  /\ pc = "fetch"
  /\ robots' \in CanFetch
  /\ IF attempt < Attempts
     THEN /\ \E took \in Latencies :
               now' = now + took + Backoff[Min({attempt, Len(Backoff)})]
          /\ attempt' = attempt + 1
          /\ UNCHANGED <<results, todo, pc>>
     ELSE /\ Result("failed") /\ UNCHANGED attempt
          /\ \E took \in Latencies : now' = now + took
  /\ UNCHANGED <<run, force, total, page, files, events, nextAllowed, start, exit, runs>>

FetchOk ==
  /\ pc = "fetch"
  /\ robots' \in CanFetch \ {"disallows"}
  /\ page' \in Fetch(Target)
  /\ \E took \in Latencies : now' = now + took
  /\ IF ~force /\ LastChecksums[Target] = page'
     THEN Result("unchanged") /\ UNCHANGED files
     ELSE /\ files' = [files EXCEPT ![run][Target].html = page']
          /\ pc' = "parse"
          /\ UNCHANGED <<results, todo>>
  /\ UNCHANGED <<run, force, total, attempt, events, nextAllowed, start, exit, runs>>

Validate(p) == p \notin Invalid

\* A page the parser or the validator refuses leaves the JSON that was there.
ParseFails ==
  /\ pc = "parse" /\ (page \in Unparsable \/ ~Validate(page))
  /\ Result("degraded")
  /\ UNCHANGED <<run, force, total, attempt, page, files, events, robots, now,
                 nextAllowed, start, exit, runs>>

\* A bug: a file that is there already is not written again.
WriteStructuredOnce ==
  files' = IF files[run][Target].json = "none"
           THEN [files EXCEPT ![run][Target].json = page] ELSE files

WriteStructured == files' = [files EXCEPT ![run][Target].json = page]

ParseOk ==
  /\ pc = "parse" /\ page \notin Unparsable /\ Validate(page)
  /\ WriteStructured
  /\ pc' = "emit"
  /\ UNCHANGED <<run, force, total, todo, attempt, page, results, events, robots, now,
                 nextAllowed, start, exit, runs>>

Emit ==
  /\ pc = "emit"
  /\ events' = events \cup {[source |-> Target, checksum |-> page]}
  /\ Result("changed")
  /\ UNCHANGED <<run, force, total, attempt, page, files, robots, now, nextAllowed, start,
                 exit, runs>>

\* The report; the exit code says whether a source failed.  No ratio was ever put
\* on the list the drift alert averages.
WriteReport ==
  /\ pc = "loop" /\ todo = {}
  /\ pc' = "idle"
  /\ exit' = IF Failed > 0 THEN 1 ELSE 0
  /\ UNCHANGED <<run, force, total, todo, attempt, page, results, files, events, robots,
                 now, nextAllowed, start, runs>>

\* The process dies, or the disk refuses a write.
Crash ==
  /\ pc # "idle"
  /\ pc' = "idle"
  /\ UNCHANGED <<run, force, total, todo, attempt, page, results, files, events, robots,
                 now, nextAllowed, start, exit, runs>>

Next ==
  \/ StartRun \/ BreakerTrips \/ NextSource
  \/ FetchFails \/ FetchOk \/ ParseFails \/ ParseOk \/ Emit
  \/ WriteReport \/ Crash

Spec == Init /\ [][Next]_vars

-----------------------------------------------------------------------------
(* Properties *)

\* At most one source more than the tolerated fraction is ever tried in vain, and
\* a run that goes past the fraction does not exit with 0.
BreakerBoundsFailures ==
  /\ Failed > 0 => (Failed - 1) * FailedDen <= FailedNum * total
  /\ exit = 0 => Failed = 0 /\ todo = {}

\* A source reported as changed has the HTML and the JSON of the page its event
\* names, whatever earlier or crashed runs with the same id left there, until that
\* id is used again.
ChangedIsComplete ==
  \A s \in DOMAIN results :
    results[s] = "changed" =>
      /\ files[run][s].html = files[run][s].json
      /\ [source |-> s, checksum |-> files[run][s].json] \in events

\* The first requests of two successive sources are at least the interval apart,
\* however long the jitter, the fetches and their retries took.  (The retries of
\* one source only keep the pauses of the back-off.)
SourcesSpaced ==
  [][pc = "loop" /\ pc' = "fetch" /\ start >= 0 => start' - start >= Interval]_vars
=============================================================================
