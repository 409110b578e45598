---------------------------- MODULE PushToChroma ----------------------------
(***************************************************************************)
(* The daily job: phase_4_3_push_to_chroma/run.py fetches, chunks and      *)
(* embeds every source and upserts the chunks into the Chroma collection   *)
(* in batches.  It runs in CI, started by the ingest workflow, which the   *)
(* retry workflow re-dispatches, and on a developer's machine, started by  *)
(* run_local.py: nothing keeps the two apart.  What happens to one source  *)
(* is local to the process and one step; every call to Chroma is a step.   *)
(***************************************************************************)
EXTENDS Embedder, FiniteSets

CONSTANTS
  Sources,     \* SOURCES, a sequence
  Pages,       \* bound: for each source the pages it may show, as chunk lists
  BatchSize,   \* of an upsert
  MaxRuns,     \* bound: runs started
  MaxAttempt   \* bound: attempts of one workflow run

ASSUME PushAssumption ==
  /\ {BatchSize, EmbedBatchSize, MaxAttempts} \subseteq Nat \ {0}
  /\ {MaxRuns, MaxAttempt} \subseteq Nat
  /\ Sources \in Seq(DOMAIN Pages)
  /\ \A source \in DOMAIN Pages : \A page \in Pages[source] :
       page.chunks \in Seq([id : STRING, text : DOMAIN Display])

VARIABLES
  collection,  \* what the collection holds under each chunk id
  job,         \* the process of run.py of each actor
  report,      \* ingest_report.json in each actor's checkout
  runs,        \* how many runs were started: the clock behind RUN_ID
  localOk,     \* what run_local.py said last: "none", "passed", "failed"
  active,      \* the workflow run in progress, or NoRun
  pending,     \* the one that waits in the concurrency group, or NoRun
  last,        \* the one that completed last
  retries      \* retry jobs that sleep, as the depths of their dispatches

vars == <<collection, job, report, runs, localOk, active, pending, last, retries>>
ci == <<active, pending, last, retries>>

Actors == {"ci", "local"}

\* `depth` counts the re-dispatches that led to a run.
NoRun == [event |-> "none", attempt |-> 0, depth |-> 0]

\* The report the repository has at this commit, of an earlier run.
CommittedReport == [run |-> 0, status |-> "ok", pushed |-> 1, total |-> 1]

Idle == [pc |-> "idle", run |-> 0, todo |-> <<>>, failures |-> {}, cache |-> <<>>,
         rows |-> <<>>, offset |-> 0, code |-> 1]

Init ==
  /\ collection = <<>>
  /\ job = [a \in Actors |-> Idle]
  /\ report = [a \in Actors |-> CommittedReport]
  /\ runs = 0
  /\ localOk = "none"
  /\ active = NoRun /\ pending = NoRun
  /\ last = [run |-> NoRun, conclusion |-> "none", retried |-> FALSE]
  /\ retries = <<>>

-----------------------------------------------------------------------------
(* run.py *)

StartJob(a) ==
  /\ runs < MaxRuns
  /\ runs' = runs + 1
  /\ job' = [job EXCEPT ![a] = [Idle EXCEPT !.pc = "sources", !.run = runs + 1,
                                            !.todo = Sources]]

\* The process ends with an exit code.
Exit(j, code) == [j EXCEPT !.pc = "exited", !.code = code]

FetchHttpx(source) == Pages[source] \cup {[ok |-> FALSE, chunks |-> <<>>]}

\* Playwright's page, or httpx's when Playwright fails.
FetchPage(source) == Pages[source] \cup FetchHttpx(source)

\* Whether the page could be fetched and parsed: `chunks` is what it chunks into.
Parses(page) == page.ok

\* Fetching, parsing, the cap and the embedder may each raise.
ChunkAndEmbed(page, cache, failures) ==
  IF Parses(page) THEN Embed(page.chunks, cache, failures)
             ELSE [ok |-> FALSE, cache |-> cache, out |-> <<>>]

ProcessSource(a) ==
  /\ job[a].pc = "sources" /\ job[a].todo # <<>>
  /\ \E page \in FetchPage(Head(job[a].todo)), failures \in {0, MaxAttempts} :
       LET source == Head(job[a].todo)
           done == ChunkAndEmbed(page, job[a].cache, failures)
           next == [job[a] EXCEPT !.todo = Tail(@), !.cache = done.cache]
       IN job' = [job EXCEPT ![a] =
                    IF done.ok THEN [next EXCEPT !.rows = @ \o done.out]
                               ELSE [next EXCEPT !.failures = @ \cup {source}]]
  /\ UNCHANGED <<collection, report, runs, localOk, ci>>

\* Without a chunk nothing is pushed, and the report says so.
SourcesDone(a) ==
  /\ job[a].pc = "sources" /\ job[a].todo = <<>>
  /\ IF job[a].rows = <<>>
     THEN /\ report' = [report EXCEPT ![a] = [run |-> job[a].run, status |-> "aborted",
                                              pushed |-> 0, total |-> 0]]
          /\ job' = [job EXCEPT ![a] = Exit(@, 1)]
     ELSE /\ job' = [job EXCEPT ![a].pc = "push"]
          /\ UNCHANGED report
  /\ UNCHANGED <<collection, runs, localOk, ci>>

\* The key is the chunk id, whatever run the row came from.
Upsert(col, batch, run) ==
  LET ids == {batch[i].id : i \in DOMAIN batch}
      at(id) == CHOOSE i \in DOMAIN batch : batch[i].id = id
  IN Merge(col, [id \in ids |-> [run |-> run, text |-> batch[at(id)].text,
                                 vector |-> batch[at(id)].vector]])

\* Chroma refuses a batch that has an id twice.
DuplicateIds(batch) == ~IsInjective([i \in DOMAIN batch |-> batch[i].id])

\* A bug: only full batches are sent.
BatchesLeftFull(j) == j.offset + BatchSize <= Len(j.rows)

BatchesLeft(j) == j.offset < Len(j.rows)

PushBatch(a) ==
  /\ job[a].pc = "push" /\ BatchesLeft(job[a])
  /\ LET batch == SubSeq(job[a].rows, job[a].offset + 1,
                         Min({job[a].offset + BatchSize, Len(job[a].rows)}))
     IN IF DuplicateIds(batch)
        THEN job' = [job EXCEPT ![a] = Exit(@, 1)] /\ UNCHANGED collection
        ELSE /\ collection' = Upsert(collection, batch, job[a].run)
             /\ job' = [job EXCEPT ![a].offset = @ + BatchSize]
  /\ UNCHANGED <<report, runs, localOk, ci>>

\* An exception in the push ends the process: no report is written.
PushFails(a) ==
  /\ job[a].pc = "push"
  /\ job' = [job EXCEPT ![a] = Exit(@, 1)]
  /\ UNCHANGED <<collection, report, runs, localOk, ci>>

Count(col, run) == Cardinality({id \in DOMAIN col : col[id].run = run})

WriteReport(a) ==
  /\ job[a].pc = "push" /\ ~BatchesLeft(job[a])
  /\ report' = [report EXCEPT ![a] =
                  [run |-> job[a].run,
                   status |-> IF job[a].failures = {} THEN "ok" ELSE "partial",
                   pushed |-> Len(job[a].rows), total |-> Count(collection, job[a].run)]]
  /\ job' = [job EXCEPT ![a] = Exit(@, IF @.failures = {} THEN 0 ELSE 1)]
  /\ UNCHANGED <<collection, runs, localOk, ci>>

-----------------------------------------------------------------------------
(* run_local.py *)

CheckIngestReport == report["local"].status \in {"ok", "partial"}
                       /\ report["local"].pushed > 0

LocalStart ==
  /\ job["local"].pc = "idle"
  /\ StartJob("local")
  /\ UNCHANGED <<collection, report, localOk, ci>>

\* A bug: the exit code of run.py is not looked at.
LocalOkByReport(j) == CheckIngestReport

LocalOk(j) == j.code = 0 /\ CheckIngestReport

LocalFinish ==
  /\ job["local"].pc = "exited"
  /\ localOk' = IF LocalOk(job["local"]) THEN "passed" ELSE "failed"
  /\ job' = [job EXCEPT !["local"] = Idle]
  /\ UNCHANGED <<collection, report, runs, ci>>

\* The developer stops both processes.
LocalKill ==
  /\ job["local"].pc \notin {"idle", "exited"}
  /\ job' = [job EXCEPT !["local"] = Idle]
  /\ UNCHANGED <<collection, report, runs, localOk, ci>>

-----------------------------------------------------------------------------
(* The workflows *)

\* The concurrency group keeps one waiting run: a newer one replaces it.
Trigger(run) == pending' = run

Schedule ==
  /\ runs < MaxRuns
  /\ Trigger([event |-> "schedule", attempt |-> 1, depth |-> 0])
  /\ UNCHANGED <<collection, job, report, runs, localOk, active, last, retries>>

\* By hand or by the admin endpoint.
DispatchIngest ==
  /\ runs < MaxRuns
  /\ Trigger([event |-> "workflow_dispatch", attempt |-> 1, depth |-> 0])
  /\ UNCHANGED <<collection, job, report, runs, localOk, active, last, retries>>

\* Somebody re-runs the last workflow run: it keeps its event.
Rerun ==
  /\ last.conclusion \in {"failure", "cancelled"}
  /\ last.run.attempt < MaxAttempt
  /\ Trigger([last.run EXCEPT !.attempt = @ + 1])
  /\ UNCHANGED <<collection, job, report, runs, localOk, active, last, retries>>

\* The runner checks the repository out, its report included.
TakeRun ==
  /\ active = NoRun /\ pending # NoRun
  /\ active' = pending /\ pending' = NoRun
  /\ StartJob("ci")
  /\ report' = [report EXCEPT !["ci"] = CommittedReport]
  /\ UNCHANGED <<collection, localOk, last, retries>>

\* A bug: whatever started the failed run, it is retried.
RetryRunsAfterAny(run, conclusion) == conclusion = "failure"

RetryRuns(run, conclusion) == conclusion = "failure" /\ run.event = "schedule"

\* A bug: the process of the run goes on.
CompleteKeepsProcess(conclusion) ==
  /\ active' = NoRun
  /\ last' = [run |-> active, conclusion |-> conclusion, retried |-> FALSE]
  /\ UNCHANGED <<collection, job, report, runs, localOk, pending, retries>>

Complete(conclusion) ==
  /\ active' = NoRun
  /\ last' = [run |-> active, conclusion |-> conclusion,
              retried |-> RetryRuns(active, conclusion)]
  /\ retries' = IF RetryRuns(active, conclusion)
                THEN Append(retries, active.depth + 1)
                ELSE retries
  /\ job' = [job EXCEPT !["ci"] = Idle]
  /\ UNCHANGED <<collection, report, runs, localOk, pending>>

CiFinish ==
  /\ job["ci"].pc = "exited"
  /\ Complete(IF job["ci"].code = 0 THEN "success" ELSE "failure")

\* The job is stopped after 30 minutes, or by hand.
CiCancelled ==
  /\ active # NoRun /\ job["ci"].pc # "exited"
  /\ Complete("cancelled")

\* After its 15 minutes the retry job dispatches the workflow, as an event that is
\* not "schedule"; the call may fail.  The step that gives up on a third attempt
\* exits with 0, which does not end the job.
RetryDispatch ==
  /\ retries # <<>>
  /\ retries' = Tail(retries)
  /\ \/ Trigger([event |-> "workflow_dispatch", attempt |-> 1, depth |-> Head(retries)])
     \/ UNCHANGED pending
  /\ UNCHANGED <<collection, job, report, runs, localOk, active, last>>

-----------------------------------------------------------------------------

RunStep(a) ==
  ProcessSource(a) \/ SourcesDone(a) \/ PushBatch(a) \/ PushFails(a) \/ WriteReport(a)

Next ==
  \/ \E a \in Actors : RunStep(a)
  \/ LocalStart \/ LocalFinish \/ LocalKill
  \/ Schedule \/ DispatchIngest \/ Rerun
  \/ TakeRun \/ CiFinish \/ CiCancelled \/ RetryDispatch

Spec == Init /\ [][Next]_vars

-----------------------------------------------------------------------------
(* Properties *)

PageTexts(source) ==
  UNION {{page.chunks[i].text : i \in DOMAIN page.chunks} : page \in Pages[source]}

TypeOK ==
  /\ \A id \in DOMAIN collection :
       /\ collection[id].run \in 1..runs
       /\ \E s \in ToSet(Sources) : collection[id].text \in PageTexts(s)
  /\ \A a \in Actors :
       /\ job[a].pc \in {"idle", "sources", "push", "exited"}
       /\ job[a].run \in 0..runs /\ report[a].run \in 0..runs
       /\ job[a].offset \in 0..(Len(job[a].rows) + BatchSize - 1)
  /\ runs \in 0..MaxRuns
  /\ active = NoRun <=> job["ci"].pc = "idle"

\* Exit code 0 means that every chunk of every source was pushed: each is served,
\* by this run or another one, and no source is missing from the run.
ExitZeroServed ==
  \A a \in Actors :
    job[a].pc = "exited" /\ job[a].code = 0 =>
      /\ job[a].failures = {} /\ job[a].todo = <<>>
      /\ \A i \in DOMAIN job[a].rows : job[a].rows[i].id \in DOMAIN collection

\* Whatever batch, place in a batch, cache hit, retry, crash or other run it came
\* through, a served vector was computed from a text of the pages that has the hash
\* of the text beside it: the same one up to the case of its letters.
VectorMatchesText ==
  \A id \in DOMAIN collection : \E s \in ToSet(Sources) : \E t \in PageTexts(s) :
    /\ collection[id].vector = EmbedText(t)
    /\ NormalizeForHash(t) = NormalizeForHash(collection[id].text)

\* run_local passes only if this very run pushed its chunks: the report of an
\* earlier one, which a failed push leaves on disk, never passes for it.
LocalPassMeansPushed ==
  [][/\ job["local"].pc = "exited" /\ job'["local"].pc = "idle"
     /\ localOk' = "passed"
     => /\ report["local"].run = job["local"].run
        /\ report["local"].pushed = Len(job["local"].rows)
        /\ job["local"].offset >= Len(job["local"].rows)]_vars

\* A retry is never retried in its turn, whoever re-runs whatever run: the two
\* workflows cannot keep each other going.
RetriesDoNotChain ==
  /\ \A i \in DOMAIN retries : retries[i] <= 1
  /\ active.depth <= 1 /\ pending.depth <= 1

\* Claimed: a scheduled run that fails is re-dispatched up to two times.
FailedRetryIsRetried ==
  last.conclusion = "failure" /\ last.run.depth = 1 => last.retried
=============================================================================
