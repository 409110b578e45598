----------------------------- MODULE Ingestion -----------------------------
(***************************************************************************)
(* `python -m phase_5_ingestion_cli.cli run`: the CLI process walks the    *)
(* changed sources of a report; for each one IngestionPipeline.handle      *)
(* writes three stores (BM25 documents, fact KV, vector rows) that share   *)
(* no transaction, then asks SnapshotManager to move the live pointer to   *)
(* the run's corpus_version.  Every statement on a store commits on its    *)
(* own (autocommit), so each is an action; a process may die, and a call   *)
(* may raise, between any two.                                             *)
(*                                                                         *)
(* Abstracted: a document is the set of chunk ids the segmenter, chunker   *)
(* and hasher derive from it; what a store holds under a key is the        *)
(* version that wrote it.  The chunks of a document are written in any     *)
(* order (the code's order depends on the page).                           *)
(***************************************************************************)
EXTENDS VectorIndex, Sequences, Functions

CONSTANTS
  Runners,          \* processes that may run the CLI
  None,             \* no version / no source / no chunk
  Docs,             \* Docs[s]: the chunk sets source s's JSON may yield
  Facts,            \* the fact_table chunks; each is also a fact_kv key
  RequiredSources,  \* smoke.required_sources
  RequiredFacts,    \* smoke.required_facts
  MinChunks,        \* smoke.min_chunks
  Keep,             \* snapshot.keep_versions
  Serial,           \* at most one run at a time (the concurrency group)
  RunsPerVersion,   \* runs that may reuse one run_id; 1: run ids are fresh
  MaxFaults         \* bound on exceptions and crashes

ASSUME IngestionAssumption ==
  /\ None \notin Versions \cup Sources \cup Chunks
  /\ Docs \in [Sources -> SUBSET SUBSET Chunks]
  /\ \A s \in Sources : \A d \in Docs[s] : \A c \in d : SourceOf[c] = s
  /\ Facts \subseteq Chunks
  /\ RequiredSources \subseteq Sources
  /\ RequiredFacts \subseteq Facts
  /\ MinChunks \in Nat
  /\ Keep \in Nat \ {0}
  /\ Serial \in BOOLEAN
  /\ RunsPerVersion \in Nat
  /\ MaxFaults \in Nat

VARIABLES
  rows,     \* the vector index
  bm25,     \* bm25[c]: version whose run last wrote c's BM25 document, or None
  factKV,   \* factKV[c]: version whose run last wrote fact c, or None
  live,     \* corpus_pointer.live
  history,  \* corpus_history, oldest first
  job,      \* job[r]: the local state of the CLI process r
  started,  \* started[v]: runs begun with version v's run_id
  faults    \* exceptions and crashes so far

vars == <<rows, bm25, factKV, live, history, job, started, faults>>

-----------------------------------------------------------------------------
(* Process state *)

\* Where an exception leaves `handle` for the `except Exception` of the CLI.
InHandle ==
  {"chunks", "orphans", "softdelete", "bm25delete", "history", "pointer", "gc"}

Job ==
  [pc       : InHandle \cup {"idle", "next", "exited"},
   version  : Versions \cup {None},
   todo     : SUBSET Sources,      \* sources the loop has not reached
   source   : Sources \cup {None}, \* source being ingested
   doc      : SUBSET Chunks,       \* its chunks
   left     : SUBSET Chunks,       \* those without a BM25 write yet
   pending  : Chunks \cup {None},  \* fact chunk whose fact_kv put is due
   orphans  : SUBSET Chunks,
   results  : [Sources -> {"none", "ok", "smoke_failed", "error"}]]

IdleJob ==
  [pc |-> "idle", version |-> None, todo |-> {}, source |-> None, doc |-> {},
   left |-> {}, pending |-> None, orphans |-> {},
   results |-> [s \in Sources |-> "none"]]

Running(r) == job[r].pc \notin {"idle", "exited"}

Goto(r, pc) == job' = [job EXCEPT ![r].pc = pc]

\* A bug: the pending fact of a failed source is carried into the next one.
EndSourceKeepsPending(r, status) ==
  job' = [job EXCEPT ![r] =
            [job[r] EXCEPT !.pc = "next", !.source = None, !.doc = {}, !.left = {},
                           !.orphans = {}, !.results[job[r].source] = status]]

\* `handle` returned or raised: append the result and take the next source.
EndSource(r, status) ==
  job' = [job EXCEPT ![r] =
            [job[r] EXCEPT !.pc = "next", !.source = None, !.doc = {}, !.left = {},
                           !.pending = None, !.orphans = {},
                           !.results[job[r].source] = status]]

Fault == faults < MaxFaults /\ faults' = faults + 1

-----------------------------------------------------------------------------
(* The loop of _cmd_run *)

\* S is what _sources_from_report returns: the changed sources of the report
\* whose structured JSON is there (one whose JSON is missing is dropped with a
\* warning).  It may be empty: the run then ends at once, with exit code 0.
StartRun(r, v, S) ==
  /\ ~Running(r)
  /\ Serial => \A q \in Runners : ~Running(q)
  /\ started[v] < RunsPerVersion
  /\ started' = [started EXCEPT ![v] = @ + 1]
  /\ job' = [job EXCEPT ![r] = [IdleJob EXCEPT !.pc = "next", !.version = v, !.todo = S]]
  /\ UNCHANGED <<rows, bm25, factKV, live, history, faults>>

\* A bug: the loop does not move past the source it has loaded.
LoadDocAgain(r, s, d) ==
  /\ job[r].pc = "next"
  /\ s \in job[r].todo
  /\ d \in Docs[s]
  /\ job' = [job EXCEPT ![r] = [job[r] EXCEPT !.pc = "chunks", !.source = s,
                                              !.doc = d, !.left = d]]
  /\ UNCHANGED <<rows, bm25, factKV, live, history, started, faults>>

\* Load the JSON, segment, chunk, hash, embed; the duplicate-id guard passed.
LoadDoc(r, s, d) ==
  /\ job[r].pc = "next"
  /\ s \in job[r].todo
  /\ d \in Docs[s]
  /\ job' = [job EXCEPT ![r] = [job[r] EXCEPT !.pc = "chunks", !.todo = @ \ {s},
                                              !.source = s, !.doc = d, !.left = d]]
  /\ UNCHANGED <<rows, bm25, factKV, live, history, started, faults>>

\* The same steps raised (unreadable JSON, embedder down or over its cap,
\* duplicate chunk ids): nothing was written.
LoadFails(r, s) ==
  /\ job[r].pc = "next"
  /\ s \in job[r].todo
  /\ Fault
  /\ job' = [job EXCEPT ![r] = [job[r] EXCEPT !.todo = @ \ {s}, !.results[s] = "error"]]
  /\ UNCHANGED <<rows, bm25, factKV, live, history, started>>

\* After the last source, or at once when there is none.
FinishRun(r) ==
  /\ job[r].pc = "next"
  /\ job[r].todo = {}
  /\ Goto(r, "exited")
  /\ UNCHANGED <<rows, bm25, factKV, live, history, started, faults>>

\* A bug: only exceptions count as failures.
ExitCodeIgnoringSmoke(r) ==
  IF \E s \in Sources : job[r].results[s] = "error" THEN 1 ELSE 0

ExitCode(r) ==
  IF \E s \in Sources : job[r].results[s] \in {"smoke_failed", "error"} THEN 1 ELSE 0

-----------------------------------------------------------------------------
(* IndexWriter.upsert *)

WriteBm25(r, c) ==
  /\ job[r].pc = "chunks"
  /\ job[r].pending = None
  /\ c \in job[r].left
  /\ bm25' = [bm25 EXCEPT ![c] = job[r].version]
  /\ job' = [job EXCEPT ![r].left = @ \ {c},
                        ![r].pending = IF c \in Facts THEN c ELSE None]
  /\ UNCHANGED <<rows, factKV, live, history, started, faults>>

PutFact(r) ==
  /\ job[r].pc = "chunks"
  /\ job[r].pending # None
  /\ factKV' = [factKV EXCEPT ![job[r].pending] = job[r].version]
  /\ job' = [job EXCEPT ![r].pending = None]
  /\ UNCHANGED <<rows, bm25, live, history, started, faults>>

\* A bug: the vector batch does not wait for the last fact_kv put.
ChunksDoneFactDue(r) == job[r].pc = "chunks" /\ job[r].left = {}

\* Every chunk went through the loop: the batched vector write is next.
ChunksDone(r) ==
  /\ job[r].pc = "chunks"
  /\ job[r].left = {}
  /\ job[r].pending = None

UpsertVectors(r) ==
  /\ ChunksDone(r)
  /\ rows' = Upsert(rows, job[r].version, job[r].doc)
  /\ Goto(r, "orphans")
  /\ UNCHANGED <<bm25, factKV, live, history, started, faults>>

\* The batch raised part way: any of its rows may have been committed (whether
\* executemany is one implicit transaction depends on the driver and libpq).
UpsertVectorsFails(r) ==
  /\ ChunksDone(r)
  /\ Fault
  /\ \E W \in SUBSET job[r].doc : rows' = Upsert(rows, job[r].version, W)
  /\ EndSource(r, "error")
  /\ UNCHANGED <<bm25, factKV, live, history, started>>

\* A bug: the difference is taken the wrong way round.
FindOrphansSwapped(r) ==
  /\ job[r].pc = "orphans"
  /\ job' = [job EXCEPT ![r] =
               [job[r] EXCEPT !.pc = "softdelete",
                              !.orphans = job[r].doc \ ChunkIdsForSource(
                                            rows, job[r].source, job[r].version)]]
  /\ UNCHANGED <<rows, bm25, factKV, live, history, started, faults>>

FindOrphans(r) ==
  /\ job[r].pc = "orphans"
  /\ job' = [job EXCEPT ![r] =
               [job[r] EXCEPT !.pc = "softdelete",
                              !.orphans = ChunkIdsForSource(rows, job[r].source,
                                                            job[r].version) \ job[r].doc]]
  /\ UNCHANGED <<rows, bm25, factKV, live, history, started, faults>>

\* A bug: the soft delete only reaches the run's own version.
SoftDeleteInOwnVersion(r) ==
  /\ job[r].pc = "softdelete"
  /\ rows' = [rows EXCEPT ![job[r].version] =
                SoftDelete(rows, job[r].orphans)[job[r].version]]
  /\ Goto(r, "bm25delete")
  /\ UNCHANGED <<bm25, factKV, live, history, started, faults>>

SoftDeleteOrphans(r) ==
  /\ job[r].pc = "softdelete"
  /\ rows' = SoftDelete(rows, job[r].orphans)
  /\ Goto(r, "bm25delete")
  /\ UNCHANGED <<bm25, factKV, live, history, started, faults>>

DeleteBm25(r, c) ==
  /\ job[r].pc = "bm25delete"
  /\ c \in job[r].orphans
  /\ bm25' = [bm25 EXCEPT ![c] = None]
  /\ job' = [job EXCEPT ![r].orphans = @ \ {c}]
  /\ UNCHANGED <<rows, factKV, live, history, started, faults>>

-----------------------------------------------------------------------------
(* SnapshotManager.try_swap *)

\* The structural smoke runner: pass_rate = 1.0.
SmokePasses(v) ==
  /\ Count(rows, v) >= MinChunks
  /\ RequiredSources \subseteq DistinctSourceIds(rows, v)
  /\ \A f \in RequiredFacts : factKV[f] # None

\* A bug: a failed smoke test is logged but does not block the swap.
RunSmokeUngated(r) ==
  /\ job[r].pc = "bm25delete"
  /\ job[r].orphans = {}
  /\ Goto(r, "history")
  /\ UNCHANGED <<rows, bm25, factKV, live, history, started, faults>>

\* A bug: the pointer is updated without the history row.
RunSmokeSkipsHistory(r) ==
  /\ job[r].pc = "bm25delete"
  /\ job[r].orphans = {}
  /\ IF SmokePasses(job[r].version) THEN Goto(r, "pointer")
                                    ELSE EndSource(r, "smoke_failed")
  /\ UNCHANGED <<rows, bm25, factKV, live, history, started, faults>>

\* A bug: the first failed smoke test aborts the remaining sources.
RunSmokeAborts(r) ==
  /\ job[r].pc = "bm25delete"
  /\ job[r].orphans = {}
  /\ IF SmokePasses(job[r].version)
     THEN Goto(r, "history")
     ELSE job' = [job EXCEPT ![r] =
                    [IdleJob EXCEPT !.pc = "next", !.version = job[r].version]]
  /\ UNCHANGED <<rows, bm25, factKV, live, history, started, faults>>

\* `upsert` returned (no orphan left to delete) and the smoke test runs.  Its
\* autocommitted counts and look-ups are one step: between them no step of
\* another process changes what they read, for the rows of a version are served
\* or soft-deleted only by a run of that version (runs of one version do not
\* overlap, nor do any on Chroma, in the instances checked), the purge takes
\* soft-deleted rows only, and a fact entry is never removed.
RunSmoke(r) ==
  /\ job[r].pc = "bm25delete"
  /\ job[r].orphans = {}
  /\ IF SmokePasses(job[r].version) THEN Goto(r, "history")
                                    ELSE EndSource(r, "smoke_failed")
  /\ UNCHANGED <<rows, bm25, factKV, live, history, started, faults>>

\* set_live, first statement: INSERT INTO corpus_history ON CONFLICT DO NOTHING.
RecordHistory(r) ==
  /\ job[r].pc = "history"
  /\ history' = IF job[r].version \in Range(history) THEN history
                ELSE Append(history, job[r].version)
  /\ Goto(r, "pointer")
  /\ UNCHANGED <<rows, bm25, factKV, live, started, faults>>

\* set_live, second statement: UPDATE corpus_pointer SET live.
FlipPointer(r) ==
  /\ job[r].pc = "pointer"
  /\ live' = job[r].version
  /\ Goto(r, "gc")
  /\ UNCHANGED <<rows, bm25, factKV, history, started, faults>>

\* A bug: one version too many is dropped.
ToDropOneMore == {history[i] : i \in 1 .. (Len(history) - Keep + 1)}

\* history[:-keep], the versions the gc callback is told to drop.
ToDrop == {history[i] : i \in 1 .. (Len(history) - Keep)}

\* The wired callback only logs ToDrop; `handle` then returns "ok".
GcOldVersions(r) ==
  /\ job[r].pc = "gc"
  /\ EndSource(r, "ok")
  /\ UNCHANGED <<rows, bm25, factKV, live, history, started, faults>>

-----------------------------------------------------------------------------
(* Failures, and the purge cron *)

\* A store call raised; the CLI logs it, records "error" and goes on.
IngestError(r) ==
  /\ job[r].pc \in InHandle
  /\ Fault
  /\ EndSource(r, "error")
  /\ UNCHANGED <<rows, bm25, factKV, live, history, started>>

\* The process dies: what the stores committed stays.
Crash(r) ==
  /\ Running(r)
  /\ Fault
  /\ job' = [job EXCEPT ![r] = IdleJob]
  /\ UNCHANGED <<rows, bm25, factKV, live, history, started>>

\* `cli purge`: which soft-deleted rows are past the cutoff is left open.  The
\* command always purges Postgres, also when the index is in Chroma.
Purge ==
  /\ Backend = "pgvector"
  /\ \E D \in SUBSET DeletedRows(rows) \ {{}} : rows' = HardPurge(rows, D)
  /\ UNCHANGED <<bm25, factKV, live, history, job, started, faults>>

-----------------------------------------------------------------------------
(* Specification *)

Init ==
  /\ rows = EmptyIndex
  /\ bm25 = [c \in Chunks |-> None]
  /\ factKV = [c \in Facts |-> None]
  /\ live = None
  /\ history = <<>>
  /\ job = [r \in Runners |-> IdleJob]
  /\ started = [v \in Versions |-> 0]
  /\ faults = 0

\* The steps a running CLI takes by itself.
RunnerStep(r) ==
  \/ \E s \in Sources : \E d \in Docs[s] : LoadDoc(r, s, d)
  \/ \E c \in Chunks : WriteBm25(r, c) \/ DeleteBm25(r, c)
  \/ PutFact(r)
  \/ UpsertVectors(r)
  \/ FindOrphans(r)
  \/ SoftDeleteOrphans(r)
  \/ RunSmoke(r)
  \/ RecordHistory(r)
  \/ FlipPointer(r)
  \/ GcOldVersions(r)
  \/ FinishRun(r)

Failure(r) ==
  \/ \E s \in Sources : LoadFails(r, s)
  \/ UpsertVectorsFails(r)
  \/ IngestError(r)
  \/ Crash(r)

Next ==
  \/ \E r \in Runners :
       \/ \E v \in Versions, S \in SUBSET Sources : StartRun(r, v, S)
       \/ RunnerStep(r)
       \/ Failure(r)
  \/ Purge

Spec == Init /\ [][Next]_vars

\* A process that is running keeps being scheduled; nobody must start one.
FairSpec == Spec /\ \A r \in Runners : WF_vars(RunnerStep(r))

-----------------------------------------------------------------------------
(* Type correctness *)

\* A running process names a version, and inside `handle` a source; it holds a
\* document only there.  What is left to write comes from the document, and
\* only a fact is ever due.
JobOK(j) ==
  /\ j.pc \notin {"idle", "exited"} => j.version \in Versions
  /\ j.pc \in InHandle => j.source \in Sources
  /\ j.pc \notin InHandle => j.doc = {}
  /\ j.left \subseteq j.doc
  /\ j.pending \in (j.doc \cap Facts) \cup {None}

JobsOK == job \in [Runners -> Job] /\ \A r \in Runners : JobOK(job[r])

\* Every variable stays in its type, and every process record is coherent.
TypeOK ==
  /\ rows \in Index
  /\ bm25 \in [Chunks -> Versions \cup {None}]
  /\ factKV \in [Facts -> Versions \cup {None}]
  /\ live \in Versions \cup {None}
  /\ history \in Seq(Versions)
  /\ JobsOK
  /\ started \in [Versions -> Nat]
  /\ faults \in 0 .. MaxFaults
=============================================================================
