------------------------- MODULE IngestionProofs -------------------------
(***************************************************************************)
(* Type correctness and the safety properties of the ingestion run, for    *)
(* every value of the constants.  Each property is proved from an          *)
(* inductive strengthening; the frame lemmas say once which steps can      *)
(* disturb which store.  The last part is about runs with fresh run ids on *)
(* pgvector, whose smoke test requires every registered source: published  *)
(* versions are frozen, the served version stays vetted, and the ingestion *)
(* implements CorpusSwap.  Runs may overlap, raise and die at any point.   *)
(***************************************************************************)
EXTENDS IngestionProperties, TLAPS

-----------------------------------------------------------------------------
(* The operators on the vector index *)

\* An upsert into a version yields an index, with either backend's key.
LEMMA UpsertType ==
  ASSUME NEW R \in Index, NEW v \in Versions, NEW cs \in SUBSET Chunks
  PROVE  Upsert(R, v, cs) \in Index
BY DEF Upsert, PgUpsert, ChromaUpsert, Index, RowState

\* A soft delete and a hard purge yield an index.
LEMMA DeleteType ==
  ASSUME NEW R \in Index, NEW cs, NEW D
  PROVE  SoftDelete(R, cs) \in Index /\ HardPurge(R, D) \in Index
BY DEF SoftDelete, HardPurge, Index, RowState

\* After an upsert a version holds the written chunks, served, and of the
\* others at most what it held before.
LEMMA UpsertRows ==
  ASSUME NEW R \in Index, NEW v \in Versions, NEW cs \in SUBSET Chunks,
         NEW u \in Versions, NEW c \in Chunks, Upsert(R, v, cs)[u][c] # "none"
  PROVE  \/ u = v /\ c \in cs /\ Upsert(R, v, cs)[u][c] = "live"
         \/ R[u][c] = Upsert(R, v, cs)[u][c]
BY DEF Upsert, PgUpsert, ChromaUpsert, Index, RowState

\* A soft delete neither adds nor removes a row and stops serving exactly the
\* chunks it is given.
LEMMA SoftDeleteRows ==
  ASSUME NEW R \in Index, NEW cs, NEW u \in Versions, NEW c \in Chunks
  PROVE  /\ SoftDelete(R, cs)[u][c] = "none" <=> R[u][c] = "none"
         /\ SoftDelete(R, cs)[u][c] = "live" <=> R[u][c] = "live" /\ c \notin cs
BY DEF SoftDelete, Index, RowState

\* A purge keeps every row that is served and adds none.
LEMMA PurgeRows ==
  ASSUME NEW R \in Index, NEW D \in SUBSET DeletedRows(R),
         NEW u \in Versions, NEW c \in Chunks
  PROVE  /\ HardPurge(R, D)[u][c] # "none" => R[u][c] = HardPurge(R, D)[u][c]
         /\ R[u][c] = "live" => HardPurge(R, D)[u][c] = "live"
BY DEF HardPurge, DeletedRows, Index, RowState

-----------------------------------------------------------------------------
(* Type correctness *)

\* Replacing one process record by a coherent one.
LEMMA JobUpdate ==
  ASSUME JobsOK, NEW r \in Runners, NEW j \in Job, JobOK(j),
         job' = [job EXCEPT ![r] = j]
  PROVE  JobsOK'
<1>1. job' \in [Runners -> Job]
  BY DEF JobsOK
<1>2. ASSUME NEW q \in Runners PROVE JobOK(job'[q])
  <2>1. job'[q] = IF q = r THEN j ELSE job[q]
    BY DEF JobsOK
  <2>2. QED
    BY <2>1 DEF JobsOK
<1>3. QED
  BY <1>1, <1>2 DEF JobsOK, JobOK

LEMMA InitType == Init => TypeOK
<1>1. ASSUME Init PROVE JobsOK
  BY <1>1 DEF Init, IdleJob, Job, JobsOK, JobOK, InHandle
<1>2. QED
  BY <1>1, IngestionAssumption DEF Init, TypeOK, EmptyIndex, Index, RowState

\* What ends a source keeps the process records in their type.
LEMMA EndSourceType ==
  ASSUME TypeOK, NEW r \in Runners, job[r].pc \in InHandle,
         NEW status \in {"ok", "smoke_failed", "error"}, EndSource(r, status)
  PROVE  JobsOK'
<1> DEFINE j == [job[r] EXCEPT !.pc = "next", !.source = None, !.doc = {}, !.left = {},
                               !.pending = None, !.orphans = {},
                               !.results[job[r].source] = status]
<1>1. job[r] \in Job
  BY DEF TypeOK, JobsOK
<1>2. j \in Job
  BY <1>1 DEF Job, InHandle
<1>3. JobOK(j)
  BY <1>1 DEF Job, JobOK, InHandle, TypeOK, JobsOK
<1>4. job' = [job EXCEPT ![r] = j]
  BY DEF EndSource
<1>5. QED
  BY <1>2, <1>3, <1>4, JobUpdate DEF TypeOK

\* A move of the program counter keeps the process records in their type.
LEMMA GotoType ==
  ASSUME TypeOK, NEW r \in Runners, Running(r), NEW pc \in InHandle \cup {"exited"},
         IF pc \in InHandle THEN job[r].pc \in InHandle ELSE job[r].pc = "next",
         Goto(r, pc)
  PROVE  JobsOK'
<1> DEFINE j == [job[r] EXCEPT !.pc = pc]
<1>1. job[r] \in Job /\ JobOK(job[r])
  BY DEF TypeOK, JobsOK
<1>2. j \in Job /\ JobOK(j)
  BY <1>1 DEF Job, JobOK, InHandle, Running
<1>3. job' = [job EXCEPT ![r] = j]
  BY DEF Goto
<1>4. QED
  BY <1>2, <1>3, JobUpdate DEF TypeOK

LEMMA FaultType == TypeOK /\ Fault => faults' \in 0 .. MaxFaults
BY IngestionAssumption DEF TypeOK, Fault

\* Starting a run and taking a source.
LEMMA LoopType ==
  ASSUME TypeOK, NEW r \in Runners,
         \/ \E v \in Versions, S \in SUBSET Sources : StartRun(r, v, S)
         \/ \E s \in Sources : \E d \in Docs[s] : LoadDoc(r, s, d)
         \/ \E s \in Sources : LoadFails(r, s)
         \/ FinishRun(r)
         \/ Crash(r)
  PROVE  TypeOK'
<1>1. job[r] \in Job /\ JobOK(job[r])
  BY DEF TypeOK, JobsOK
<1>2. ASSUME NEW v \in Versions, NEW S \in SUBSET Sources, StartRun(r, v, S)
      PROVE  TypeOK'
  <2> DEFINE j == [IdleJob EXCEPT !.pc = "next", !.version = v, !.todo = S]
  <2>1. j \in Job /\ JobOK(j)
    BY DEF IdleJob, Job, JobOK, InHandle
  <2>2. job' = [job EXCEPT ![r] = j]
    BY <1>2 DEF StartRun
  <2>3. JobsOK'
    BY <2>1, <2>2, JobUpdate DEF TypeOK
  <2>4. started' \in [Versions -> Nat]
    <3>1. started \in [Versions -> Nat] /\ started[v] + 1 \in Nat
      BY DEF TypeOK
    <3>2. started' = [started EXCEPT ![v] = started[v] + 1]
      BY <1>2 DEF StartRun
    <3>3. QED
      BY <3>1, <3>2
  <2>5. UNCHANGED <<rows, bm25, factKV, live, history, faults>>
    BY <1>2 DEF StartRun
  <2>6. QED
    BY <2>3, <2>4, <2>5 DEF TypeOK
<1>3. ASSUME NEW s \in Sources, NEW d \in Docs[s], LoadDoc(r, s, d)
      PROVE  TypeOK'
  <2> DEFINE j == [job[r] EXCEPT !.pc = "chunks", !.todo = @ \ {s}, !.source = s,
                                 !.doc = d, !.left = d]
  <2>1. d \in SUBSET Chunks
    BY IngestionAssumption
  <2>2. job[r].pc = "next" /\ job[r].pending = None
    BY <1>1, <1>3 DEF LoadDoc, JobOK, InHandle
  <2>3. j \in Job /\ JobOK(j)
    BY <1>1, <2>1, <2>2 DEF Job, JobOK, InHandle
  <2>4. job' = [job EXCEPT ![r] = j]
    BY <1>3 DEF LoadDoc
  <2>5. JobsOK'
    BY <2>3, <2>4, JobUpdate DEF TypeOK
  <2>6. QED
    BY <1>3, <2>5 DEF LoadDoc, TypeOK
<1>4. ASSUME NEW s \in Sources, LoadFails(r, s)
      PROVE  TypeOK'
  <2> DEFINE j == [job[r] EXCEPT !.todo = @ \ {s}, !.results[s] = "error"]
  <2>1. j \in Job /\ JobOK(j)
    BY <1>1, <1>4 DEF Job, JobOK, InHandle, LoadFails
  <2>2. job' = [job EXCEPT ![r] = j]
    BY <1>4 DEF LoadFails
  <2>3. JobsOK'
    BY <2>1, <2>2, JobUpdate DEF TypeOK
  <2>4. QED
    BY <1>4, <2>3, FaultType DEF LoadFails, TypeOK
<1>5. ASSUME FinishRun(r) PROVE TypeOK'
  <2>1. JobsOK'
    BY <1>5, GotoType DEF FinishRun, Running, InHandle
  <2>2. QED
    BY <1>5, <2>1 DEF FinishRun, TypeOK
<1>6. ASSUME Crash(r) PROVE TypeOK'
  <2>1. IdleJob \in Job /\ JobOK(IdleJob)
    BY DEF IdleJob, Job, JobOK, InHandle
  <2>2. JobsOK'
    BY <1>6, <2>1, JobUpdate DEF TypeOK, Crash
  <2>3. QED
    BY <1>6, <2>2, FaultType DEF Crash, TypeOK
<1>7. QED
  BY <1>2, <1>3, <1>4, <1>5, <1>6

\* The stages of `upsert`.
LEMMA UpsertStagesType ==
  ASSUME TypeOK, NEW r \in Runners,
         \/ \E c \in Chunks : WriteBm25(r, c) \/ DeleteBm25(r, c)
         \/ PutFact(r)
         \/ UpsertVectors(r)
         \/ UpsertVectorsFails(r)
         \/ FindOrphans(r)
         \/ SoftDeleteOrphans(r)
  PROVE  TypeOK'
<1>1. job[r] \in Job /\ JobOK(job[r])
  BY DEF TypeOK, JobsOK
<1>2. ASSUME NEW c \in Chunks, WriteBm25(r, c) PROVE TypeOK'
  <2> DEFINE j == [job[r] EXCEPT !.left = @ \ {c},
                                 !.pending = IF c \in Facts THEN c ELSE None]
  <2>1. job[r].pc = "chunks" /\ c \in job[r].left /\ job[r].version \in Versions
    BY <1>1, <1>2 DEF WriteBm25, JobOK
  <2>2. j \in Job /\ JobOK(j)
    BY <1>1, <2>1 DEF Job, JobOK, InHandle
  <2>3. job' = [job EXCEPT ![r] = j]
    BY <1>2 DEF WriteBm25, TypeOK, JobsOK, Job
  <2>4. JobsOK'
    BY <2>2, <2>3, JobUpdate DEF TypeOK
  <2>5. bm25' \in [Chunks -> Versions \cup {None}]
    BY <1>2, <2>1 DEF WriteBm25, TypeOK
  <2>6. UNCHANGED <<rows, factKV, live, history, started, faults>>
    BY <1>2 DEF WriteBm25
  <2>7. QED
    BY <2>4, <2>5, <2>6 DEF TypeOK
<1>3. ASSUME NEW c \in Chunks, DeleteBm25(r, c) PROVE TypeOK'
  <2> DEFINE j == [job[r] EXCEPT !.orphans = @ \ {c}]
  <2>1. j \in Job /\ JobOK(j)
    BY <1>1 DEF Job, JobOK
  <2>2. job' = [job EXCEPT ![r] = j]
    BY <1>3 DEF DeleteBm25
  <2>3. JobsOK'
    BY <2>1, <2>2, JobUpdate DEF TypeOK
  <2>4. bm25' \in [Chunks -> Versions \cup {None}]
    BY <1>3 DEF DeleteBm25, TypeOK
  <2>5. UNCHANGED <<rows, factKV, live, history, started, faults>>
    BY <1>3 DEF DeleteBm25
  <2>6. QED
    BY <2>3, <2>4, <2>5 DEF TypeOK
<1>4. ASSUME PutFact(r) PROVE TypeOK'
  <2> DEFINE j == [job[r] EXCEPT !.pending = None]
  <2>1. job[r].pc = "chunks" /\ job[r].version \in Versions
    BY <1>1, <1>4 DEF PutFact, JobOK
  <2>2. j \in Job /\ JobOK(j)
    BY <1>1 DEF Job, JobOK
  <2>3. job' = [job EXCEPT ![r] = j]
    BY <1>4 DEF PutFact
  <2>4. JobsOK'
    BY <2>2, <2>3, JobUpdate DEF TypeOK
  <2>5. factKV' \in [Facts -> Versions \cup {None}]
    BY <1>4, <2>1 DEF PutFact, TypeOK
  <2>6. UNCHANGED <<rows, bm25, live, history, started, faults>>
    BY <1>4 DEF PutFact
  <2>7. QED
    BY <2>4, <2>5, <2>6 DEF TypeOK
<1>5. ASSUME UpsertVectors(r) PROVE TypeOK'
  <2>1. JobsOK'
    BY <1>5, GotoType DEF UpsertVectors, ChunksDone, Running, InHandle
  <2>2. job[r].version \in Versions /\ job[r].doc \in SUBSET Chunks
    BY <1>1, <1>5 DEF UpsertVectors, ChunksDone, JobOK, Job
  <2>3. rows' \in Index
    BY <1>5, <2>2, UpsertType DEF UpsertVectors, TypeOK
  <2>4. QED
    BY <1>5, <2>1, <2>3 DEF UpsertVectors, TypeOK
<1>6. ASSUME UpsertVectorsFails(r) PROVE TypeOK'
  <2>1. JobsOK'
    BY <1>6, EndSourceType DEF UpsertVectorsFails, ChunksDone, InHandle
  <2>2. job[r].version \in Versions /\ job[r].doc \in SUBSET Chunks
    BY <1>1, <1>6 DEF UpsertVectorsFails, ChunksDone, JobOK, Job
  <2>3. PICK W \in SUBSET job[r].doc : rows' = Upsert(rows, job[r].version, W)
    BY <1>6 DEF UpsertVectorsFails
  <2>4. rows' \in Index
    BY <2>2, <2>3, UpsertType DEF TypeOK
  <2>5. QED
    BY <1>6, <2>1, <2>4, FaultType DEF UpsertVectorsFails, TypeOK
<1>7. ASSUME FindOrphans(r) PROVE TypeOK'
  <2> DEFINE os == ChunkIdsForSource(rows, job[r].source, job[r].version) \ job[r].doc
             j == [job[r] EXCEPT !.pc = "softdelete", !.orphans = os]
  <2>1. os \in SUBSET Chunks
    BY DEF ChunkIdsForSource, ServedChunks
  <2>2. j \in Job /\ JobOK(j)
    BY <1>1, <1>7, <2>1 DEF Job, JobOK, InHandle, FindOrphans
  <2>3. job' = [job EXCEPT ![r] = j]
    BY <1>7 DEF FindOrphans
  <2>4. JobsOK'
    BY <2>2, <2>3, JobUpdate DEF TypeOK
  <2>5. QED
    BY <1>7, <2>4 DEF FindOrphans, TypeOK
<1>8. ASSUME SoftDeleteOrphans(r) PROVE TypeOK'
  <2>1. JobsOK'
    BY <1>8, GotoType DEF SoftDeleteOrphans, Running, InHandle
  <2>2. rows' \in Index
    BY <1>8, DeleteType DEF SoftDeleteOrphans, TypeOK
  <2>3. QED
    BY <1>8, <2>1, <2>2 DEF SoftDeleteOrphans, TypeOK
<1>9. QED
  BY <1>2, <1>3, <1>4, <1>5, <1>6, <1>7, <1>8

\* The stages of `try_swap`, and the exception handler.
LEMMA SwapStagesType ==
  ASSUME TypeOK, NEW r \in Runners,
         \/ RunSmoke(r)
         \/ RecordHistory(r)
         \/ FlipPointer(r)
         \/ GcOldVersions(r)
         \/ IngestError(r)
  PROVE  TypeOK'
<1>1. job[r] \in Job /\ JobOK(job[r])
  BY DEF TypeOK, JobsOK
<1>2. ASSUME RunSmoke(r) PROVE TypeOK'
  <2>1. job[r].pc \in InHandle /\ Running(r)
    BY <1>2 DEF RunSmoke, InHandle, Running
  <2>2. JobsOK'
    BY <1>2, <2>1, GotoType, EndSourceType DEF RunSmoke, InHandle
  <2>3. QED
    BY <1>2, <2>2 DEF RunSmoke, TypeOK
<1>3. ASSUME RecordHistory(r) PROVE TypeOK'
  <2>1. JobsOK'
    BY <1>3, GotoType DEF RecordHistory, Running, InHandle
  <2>2. job[r].version \in Versions
    BY <1>1, <1>3 DEF RecordHistory, JobOK
  <2>3. history' \in Seq(Versions)
    BY <1>3, <2>2 DEF RecordHistory, TypeOK
  <2>4. QED
    BY <1>3, <2>1, <2>3 DEF RecordHistory, TypeOK
<1>4. ASSUME FlipPointer(r) PROVE TypeOK'
  <2>1. JobsOK'
    BY <1>4, GotoType DEF FlipPointer, Running, InHandle
  <2>2. job[r].version \in Versions
    BY <1>1, <1>4 DEF FlipPointer, JobOK
  <2>3. QED
    BY <1>4, <2>1, <2>2 DEF FlipPointer, TypeOK
<1>5. ASSUME GcOldVersions(r) PROVE TypeOK'
  <2>1. JobsOK'
    BY <1>5, EndSourceType DEF GcOldVersions, InHandle
  <2>2. QED
    BY <1>5, <2>1 DEF GcOldVersions, TypeOK
<1>6. ASSUME IngestError(r) PROVE TypeOK'
  <2>1. JobsOK'
    BY <1>6, EndSourceType DEF IngestError
  <2>2. QED
    BY <1>6, <2>1, FaultType DEF IngestError, TypeOK
<1>7. QED
  BY <1>2, <1>3, <1>4, <1>5, <1>6

LEMMA NextType == TypeOK /\ [Next]_vars => TypeOK'
<1> SUFFICES ASSUME TypeOK, [Next]_vars PROVE TypeOK'
  OBVIOUS
<1>1. CASE UNCHANGED vars
  BY <1>1 DEF vars, TypeOK, JobsOK, JobOK
<1>2. CASE Purge
  <2>1. rows' \in Index
    BY <1>2, DeleteType DEF Purge, TypeOK
  <2>2. JobsOK'
    BY <1>2 DEF Purge, TypeOK, JobsOK, JobOK
  <2>3. QED
    BY <1>2, <2>1, <2>2 DEF Purge, TypeOK
<1>3. ASSUME NEW r \in Runners,
             \/ \E v \in Versions, S \in SUBSET Sources : StartRun(r, v, S)
             \/ RunnerStep(r)
             \/ Failure(r)
      PROVE  TypeOK'
  BY <1>3, LoopType, UpsertStagesType, SwapStagesType DEF RunnerStep, Failure
<1>4. QED
  BY <1>1, <1>2, <1>3 DEF Next

\* Every reachable state is well typed: no step of a run, no exception and no
\* crash leaves a store or a process record outside its type.
THEOREM TypeCorrect == Spec => []TypeOK
BY InitType, NextType, PTL DEF Spec

-----------------------------------------------------------------------------
(* Frames *)

\* What a process can do in one step.
RunStep(r) ==
  \/ \E v \in Versions, S \in SUBSET Sources : StartRun(r, v, S)
  \/ RunnerStep(r)
  \/ Failure(r)

LEMMA StepCases ==
  ASSUME [Next]_vars
  PROVE  UNCHANGED vars \/ Purge \/ \E r \in Runners : RunStep(r)
BY DEF Next, RunStep

\* The record of a process after a source has ended, and after a move.
LEMMA EndSourceJob ==
  ASSUME TypeOK, NEW r \in Runners, NEW status, EndSource(r, status)
  PROVE  /\ job'[r].pc = "next" /\ job'[r].doc = {} /\ job'[r].orphans = {}
         /\ job'[r].version = job[r].version /\ job'[r].todo = job[r].todo
BY DEF TypeOK, JobsOK, Job, EndSource

LEMMA LoadFailsJob ==
  ASSUME TypeOK, NEW r \in Runners, NEW s \in Sources, LoadFails(r, s)
  PROVE  /\ job'[r].pc = "next" /\ job'[r].doc = job[r].doc
         /\ job'[r].orphans = job[r].orphans /\ job'[r].version = job[r].version
         /\ job'[r].todo = job[r].todo \ {s}
<1>1. job'[r] = [job[r] EXCEPT !.todo = @ \ {s}, !.results[s] = "error"]
  BY DEF TypeOK, JobsOK, LoadFails
<1>2. QED
  BY <1>1 DEF TypeOK, JobsOK, Job, LoadFails

LEMMA GotoJob ==
  ASSUME TypeOK, NEW r \in Runners, NEW pc, Goto(r, pc)
  PROVE  /\ job'[r].pc = pc /\ job'[r].doc = job[r].doc /\ job'[r].left = job[r].left
         /\ job'[r].pending = job[r].pending /\ job'[r].orphans = job[r].orphans
         /\ job'[r].version = job[r].version /\ job'[r].todo = job[r].todo
         /\ job'[r].source = job[r].source
BY DEF TypeOK, JobsOK, Job, Goto

\* A process only changes its own record.
LEMMA JobFrame ==
  ASSUME TypeOK, NEW r \in Runners, RunStep(r), NEW q \in Runners, q # r
  PROVE  job'[q] = job[q]
<1>1. job \in [Runners -> Job]
  BY DEF TypeOK, JobsOK
<1>2. CASE \E v \in Versions, S \in SUBSET Sources : StartRun(r, v, S)
  BY <1>1, <1>2 DEF StartRun
<1>3. CASE Failure(r)
  BY <1>1, <1>3 DEF Failure, LoadFails, UpsertVectorsFails, IngestError, Crash, EndSource
<1>4. CASE RunnerStep(r)
  BY <1>1, <1>4
  DEF RunnerStep, LoadDoc, WriteBm25, DeleteBm25, PutFact, UpsertVectors, FindOrphans,
      SoftDeleteOrphans, RunSmoke, RecordHistory, FlipPointer, GcOldVersions, FinishRun,
      EndSource, Goto
<1>5. QED
  BY <1>2, <1>3, <1>4 DEF RunStep

\* No step removes a fact_kv entry.
LEMMA FactKVGrows ==
  ASSUME TypeOK, [Next]_vars, NEW c \in Facts, factKV[c] # None
  PROVE  factKV'[c] # None
<1>1. CASE UNCHANGED vars \/ Purge
  BY <1>1 DEF vars, Purge
<1>2. ASSUME NEW r \in Runners, RunStep(r) PROVE factKV'[c] # None
  <2>1. CASE PutFact(r)
    <3>1. job[r].version \in Versions
      BY <2>1 DEF PutFact, TypeOK, JobsOK, JobOK
    <3>2. job[r].version # None
      BY <3>1, IngestionAssumption
    <3>3. QED
      BY <2>1, <3>2 DEF PutFact, TypeOK
  <2>2. CASE ~PutFact(r)
    BY <1>2, <2>2
    DEF RunStep, RunnerStep, Failure, StartRun, LoadDoc, LoadFails, FinishRun, WriteBm25,
        DeleteBm25, UpsertVectors, UpsertVectorsFails, FindOrphans, SoftDeleteOrphans,
        RunSmoke, RecordHistory, FlipPointer, GcOldVersions, IngestError, Crash
  <2>3. QED
    BY <2>1, <2>2
<1>3. QED
  BY <1>1, <1>2, StepCases

\* Only the vector write of a process that is done with its chunk loop adds
\* rows or serves more, and only chunks of its document.
LEMMA RowsGrow ==
  ASSUME TypeOK, NEW r \in Runners, RunStep(r), NEW v \in Versions, NEW c \in Chunks,
         ~ (ChunksDone(r) /\ c \in job[r].doc)
  PROVE  /\ rows'[v][c] # "none" => rows[v][c] # "none"
         /\ rows'[v][c] = "live" => rows[v][c] = "live"
<1>1. rows \in Index
  BY DEF TypeOK
<1>2. CASE UpsertVectors(r) \/ UpsertVectorsFails(r)
  <2>1. ChunksDone(r) /\ \E W \in SUBSET job[r].doc : rows' = Upsert(rows, job[r].version, W)
    BY <1>2 DEF UpsertVectors, UpsertVectorsFails
  <2>2. job[r].version \in Versions /\ job[r].doc \in SUBSET Chunks
    BY <2>1 DEF ChunksDone, TypeOK, JobsOK, JobOK, Job
  <2>3. PICK W \in SUBSET job[r].doc : rows' = Upsert(rows, job[r].version, W)
    BY <2>1
  <2>4. W \in SUBSET Chunks /\ c \notin W
    BY <2>1, <2>2
  <2>5. QED
    BY <1>1, <2>2, <2>3, <2>4, UpsertRows
<1>3. CASE SoftDeleteOrphans(r)
  BY <1>1, <1>3, SoftDeleteRows DEF SoftDeleteOrphans
<1>4. CASE ~(UpsertVectors(r) \/ UpsertVectorsFails(r) \/ SoftDeleteOrphans(r))
  BY <1>4
  DEF RunStep, RunnerStep, Failure, StartRun, LoadDoc, LoadFails, FinishRun, WriteBm25,
      DeleteBm25, PutFact, FindOrphans, RunSmoke, RecordHistory, FlipPointer,
      GcOldVersions, IngestError, Crash
<1>5. QED
  BY <1>2, <1>3, <1>4

\* The purge changes no other store, adds no row and keeps what is served.
LEMMA PurgeFrame ==
  ASSUME TypeOK, Purge
  PROVE  /\ UNCHANGED <<bm25, factKV, live, history, job, started, faults>>
         /\ \A v \in Versions, c \in Chunks :
              /\ rows'[v][c] # "none" => rows[v][c] # "none"
              /\ rows'[v][c] = "live" <=> rows[v][c] = "live"
<1>1. PICK D \in SUBSET DeletedRows(rows) : rows' = HardPurge(rows, D)
  BY DEF Purge
<1>2. rows \in Index
  BY DEF TypeOK
<1>3. ASSUME NEW v \in Versions, NEW c \in Chunks
      PROVE  /\ rows'[v][c] # "none" => rows[v][c] # "none"
             /\ rows'[v][c] = "live" <=> rows[v][c] = "live"
  BY <1>1, <1>2, PurgeRows
<1>4. QED
  BY <1>3 DEF Purge

\* Only the deletion of its orphans takes a BM25 document away.
LEMMA Bm25Frame ==
  ASSUME TypeOK, NEW r \in Runners, RunStep(r), NEW c \in Chunks, bm25[c] # None
  PROVE  bm25'[c] # None \/ (job[r].pc = "bm25delete" /\ c \in job[r].orphans)
<1>1. CASE \E d \in Chunks : WriteBm25(r, d)
  <2>1. PICK d \in Chunks : WriteBm25(r, d)
    BY <1>1
  <2>2. job[r].version \in Versions
    BY <2>1 DEF WriteBm25, TypeOK, JobsOK, JobOK
  <2>3. job[r].version # None
    BY <2>2, IngestionAssumption
  <2>4. QED
    BY <2>1, <2>3 DEF WriteBm25, TypeOK
<1>2. CASE \E d \in Chunks : DeleteBm25(r, d)
  BY <1>2 DEF DeleteBm25, TypeOK
<1>3. CASE ~ \E d \in Chunks : WriteBm25(r, d) \/ DeleteBm25(r, d)
  BY <1>3
  DEF RunStep, RunnerStep, Failure, StartRun, LoadDoc, LoadFails, FinishRun, PutFact,
      UpsertVectors, UpsertVectorsFails, FindOrphans, SoftDeleteOrphans, RunSmoke,
      RecordHistory, FlipPointer, GcOldVersions, IngestError, Crash
<1>4. QED
  BY <1>1, <1>2, <1>3

-----------------------------------------------------------------------------
(* Where a process can be after a step *)

\* The chunk loop is entered with a document and left by the vector write.
LEMMA IntoChunks ==
  ASSUME TypeOK, NEW r \in Runners, RunStep(r), job'[r].pc = "chunks"
  PROVE  \/ \E s \in Sources : \E d \in Docs[s] : LoadDoc(r, s, d)
         \/ \E c \in Chunks : WriteBm25(r, c)
         \/ PutFact(r)
<1>1. job \in [Runners -> Job]
  BY DEF TypeOK, JobsOK
<1>2. CASE \E v \in Versions, S \in SUBSET Sources : StartRun(r, v, S)
  BY <1>1, <1>2 DEF StartRun, IdleJob
<1>3. CASE Crash(r) \/ \E s \in Sources : LoadFails(r, s)
  BY <1>1, <1>3, LoadFailsJob DEF Crash, IdleJob
<1>4. CASE \E status : EndSource(r, status)
  BY <1>4, EndSourceJob
<1>5. CASE \E pc \in (InHandle \cup {"exited"}) \ {"chunks"} : Goto(r, pc)
  BY <1>5, GotoJob
<1>6. CASE FindOrphans(r) \/ \E c \in Chunks : DeleteBm25(r, c)
  BY <1>1, <1>6 DEF FindOrphans, DeleteBm25, Job
<1>7. QED
  BY <1>2, <1>3, <1>4, <1>5, <1>6
  DEF RunStep, RunnerStep, Failure, UpsertVectors, UpsertVectorsFails, SoftDeleteOrphans,
      RunSmoke, RecordHistory, FlipPointer, GcOldVersions, FinishRun, IngestError, InHandle

\* The BM25 deletion is entered by the soft delete.
LEMMA IntoBm25Delete ==
  ASSUME TypeOK, NEW r \in Runners, RunStep(r), job'[r].pc = "bm25delete"
  PROVE  SoftDeleteOrphans(r) \/ \E c \in Chunks : DeleteBm25(r, c)
<1>1. job \in [Runners -> Job]
  BY DEF TypeOK, JobsOK
<1>2. CASE \E v \in Versions, S \in SUBSET Sources : StartRun(r, v, S)
  BY <1>1, <1>2 DEF StartRun, IdleJob
<1>3. CASE Crash(r) \/ \E s \in Sources : LoadFails(r, s)
  BY <1>1, <1>3, LoadFailsJob DEF Crash, IdleJob
<1>4. CASE \E status : EndSource(r, status)
  BY <1>4, EndSourceJob
<1>5. CASE \E pc \in (InHandle \cup {"exited"}) \ {"bm25delete"} : Goto(r, pc)
  BY <1>5, GotoJob
<1>6. CASE \/ FindOrphans(r)
           \/ PutFact(r)
           \/ \E s \in Sources : \E d \in Docs[s] : LoadDoc(r, s, d)
           \/ \E c \in Chunks : WriteBm25(r, c)
  <2>1. CASE FindOrphans(r) \/ PutFact(r)
    BY <1>1, <2>1 DEF FindOrphans, PutFact, Job
  <2>2. CASE \E s \in Sources : \E d \in Docs[s] : LoadDoc(r, s, d)
    BY <1>1, <2>2 DEF LoadDoc, Job
  <2>3. CASE \E c \in Chunks : WriteBm25(r, c)
    BY <1>1, <2>3 DEF WriteBm25, Job
  <2>4. QED
    BY <1>6, <2>1, <2>2, <2>3
<1>7. CASE UpsertVectors(r) \/ RunSmoke(r) \/ RecordHistory(r) \/ FlipPointer(r) \/ FinishRun(r)
  BY <1>4, <1>5, <1>7
  DEF UpsertVectors, RunSmoke, RecordHistory, FlipPointer, FinishRun, InHandle
<1>8. CASE UpsertVectorsFails(r) \/ GcOldVersions(r) \/ IngestError(r)
  BY <1>4, <1>8 DEF UpsertVectorsFails, GcOldVersions, IngestError
<1>9. QED
  BY <1>2, <1>3, <1>6, <1>7, <1>8 DEF RunStep, RunnerStep, Failure

\* The smoke test is followed by the two statements of set_live and the gc.
LEMMA IntoSwap ==
  ASSUME TypeOK, NEW r \in Runners, RunStep(r),
         job'[r].pc \in {"orphans", "history", "pointer", "gc"}
  PROVE  \/ UpsertVectors(r) /\ job'[r].pc = "orphans"
         \/ RunSmoke(r) /\ SmokePasses(job[r].version) /\ job'[r].pc = "history"
         \/ RecordHistory(r) /\ job'[r].pc = "pointer"
         \/ FlipPointer(r) /\ job'[r].pc = "gc"
<1>1. job \in [Runners -> Job]
  BY DEF TypeOK, JobsOK
<1>2. CASE \E v \in Versions, S \in SUBSET Sources : StartRun(r, v, S)
  BY <1>1, <1>2 DEF StartRun, IdleJob
<1>3. CASE Crash(r) \/ \E s \in Sources : LoadFails(r, s)
  BY <1>1, <1>3, LoadFailsJob DEF Crash, IdleJob
<1>4. CASE \E status : EndSource(r, status)
  BY <1>4, EndSourceJob
<1>5. CASE FindOrphans(r) \/ PutFact(r) \/ \E c \in Chunks : DeleteBm25(r, c)
  <2>1. CASE FindOrphans(r)
    BY <1>1, <2>1 DEF FindOrphans, Job
  <2>2. CASE PutFact(r)
    BY <1>1, <2>2 DEF PutFact, Job
  <2>3. CASE \E c \in Chunks : DeleteBm25(r, c)
    BY <1>1, <2>3 DEF DeleteBm25, Job
  <2>4. QED
    BY <1>5, <2>1, <2>2, <2>3
<1>6. CASE \E s \in Sources : \E d \in Docs[s] : LoadDoc(r, s, d)
  BY <1>1, <1>6 DEF LoadDoc, Job
<1>7. CASE \E c \in Chunks : WriteBm25(r, c)
  BY <1>1, <1>7 DEF WriteBm25, Job
<1>8. CASE UpsertVectors(r) \/ SoftDeleteOrphans(r) \/ FinishRun(r)
  BY <1>8, GotoJob DEF UpsertVectors, SoftDeleteOrphans, FinishRun
<1>9. CASE RunSmoke(r) \/ RecordHistory(r) \/ FlipPointer(r)
  BY <1>4, <1>9, GotoJob DEF RunSmoke, RecordHistory, FlipPointer
<1>10. CASE UpsertVectorsFails(r) \/ GcOldVersions(r) \/ IngestError(r)
  BY <1>4, <1>10 DEF UpsertVectorsFails, GcOldVersions, IngestError
<1>11. QED
  BY <1>2, <1>3, <1>5, <1>6, <1>7, <1>8, <1>9, <1>10 DEF RunStep, RunnerStep, Failure

-----------------------------------------------------------------------------
(* Facts *)

\* Inside the chunk loop, every fact already handled has its entry, but for the
\* one whose put is due.
FactsPut(r) ==
  job[r].pc = "chunks" =>
    \A c \in (job[r].doc \ job[r].left) \cap Facts :
      c = job[r].pending \/ factKV[c] # None

FactInv == FactRowsBacked /\ \A r \in Runners : FactsPut(r)

LEMMA FactInit == Init => FactInv
BY IngestionAssumption
DEF Init, FactInv, FactRowsBacked, FactsPut, EmptyIndex, IdleJob

LEMMA FactsPutStep ==
  ASSUME TypeOK, FactInv, NEW r \in Runners, RunStep(r),
         \A c \in Facts : factKV[c] # None => factKV'[c] # None
  PROVE  \A q \in Runners : FactsPut(q)'
<1> USE DEF FactsPut
<1>1. ASSUME NEW q \in Runners, q # r PROVE FactsPut(q)'
  BY <1>1, JobFrame DEF FactInv
<1>2. job \in [Runners -> Job] /\ JobOK(job[r])
  BY DEF TypeOK, JobsOK
<1>3. CASE \E s \in Sources : \E d \in Docs[s] : LoadDoc(r, s, d)
  <2>1. job'[r].left = job'[r].doc
    BY <1>2, <1>3 DEF LoadDoc, Job
  <2>2. QED
    BY <1>1, <2>1
<1>4. CASE \E c \in Chunks : WriteBm25(r, c)
  <2>1. PICK c \in Chunks : WriteBm25(r, c)
    BY <1>4
  <2>2. /\ job[r].pc = "chunks" /\ job[r].pending = None /\ c # None
        /\ job'[r].doc = job[r].doc
        /\ job'[r].left = job[r].left \ {c}
        /\ job'[r].pending = IF c \in Facts THEN c ELSE None
    BY <1>2, <2>1, IngestionAssumption DEF WriteBm25, Job
  <2>3. FactsPut(r)'
    BY <2>2, IngestionAssumption DEF FactInv
  <2>4. QED
    BY <1>1, <2>3
<1>5. CASE PutFact(r)
  <2>1. /\ job[r].pc = "chunks" /\ job[r].pending \in Facts
        /\ job'[r].doc = job[r].doc
        /\ job'[r].left = job[r].left
        /\ job[r].version \in Versions
    BY <1>2, <1>5 DEF PutFact, Job, JobOK
  <2>2. factKV'[job[r].pending] # None
    BY <1>5, <2>1, IngestionAssumption DEF PutFact, TypeOK
  <2>3. FactsPut(r)'
    BY <2>1, <2>2 DEF FactInv
  <2>4. QED
    BY <1>1, <2>3
<1>6. CASE job'[r].pc # "chunks"
  BY <1>1, <1>6
<1>7. QED
  BY <1>3, <1>4, <1>5, <1>6, IntoChunks

LEMMA FactStep == TypeOK /\ FactInv /\ [Next]_vars => FactInv'
<1> SUFFICES ASSUME TypeOK, FactInv, [Next]_vars PROVE FactInv'
  OBVIOUS
<1>1. \A c \in Facts : factKV[c] # None => factKV'[c] # None
  BY FactKVGrows
<1>2. FactRowsBacked'
  <2> SUFFICES ASSUME NEW v \in Versions, NEW c \in Facts, rows'[v][c] # "none"
               PROVE  factKV'[c] # None
    BY DEF FactRowsBacked
  <2>1. c \in Chunks
    BY IngestionAssumption
  <2>2. CASE rows[v][c] # "none"
    BY <1>1, <2>2 DEF FactInv, FactRowsBacked
  <2>3. ASSUME NEW r \in Runners, ChunksDone(r), c \in job[r].doc
        PROVE  factKV'[c] # None
    BY <1>1, <2>1, <2>3, IngestionAssumption DEF FactInv, FactsPut, ChunksDone
  <2>4. CASE UNCHANGED vars \/ Purge
    BY <2>1, <2>2, <2>4, PurgeFrame DEF vars
  <2>5. QED
    BY <2>1, <2>2, <2>3, <2>4, RowsGrow, StepCases
<1>3. \A r \in Runners : FactsPut(r)'
  <2>1. CASE UNCHANGED vars \/ Purge
    BY <2>1 DEF FactInv, FactsPut, vars, Purge
  <2>2. ASSUME NEW r \in Runners, RunStep(r) PROVE \A q \in Runners : FactsPut(q)'
    BY <1>1, <2>2, FactsPutStep
  <2>3. QED
    BY <2>1, <2>2, StepCases
<1>4. QED
  BY <1>2, <1>3 DEF FactInv

\* An exact lookup never misses a fact some version has a row for, with any
\* number of overlapping runs, re-used run ids, exceptions and crashes: the
\* facts of a source are all put before its vector rows are written.
THEOREM FactRowsBackedCorrect == Spec => []FactRowsBacked
<1>1. Init => FactInv
  BY FactInit
<1>2. TypeOK /\ FactInv /\ [Next]_vars => FactInv'
  BY FactStep
<1>3. FactInv => FactRowsBacked
  BY DEF FactInv
<1>4. QED
  BY <1>1, <1>2, <1>3, TypeCorrect, PTL DEF Spec

-----------------------------------------------------------------------------
(* Dense rows have their BM25 document, for runs one at a time *)

\* Inside the chunk loop, every chunk already handled has its BM25 document.
SparseWritten(r) ==
  job[r].pc = "chunks" => \A c \in job[r].doc \ job[r].left : bm25[c] # None

\* Orphans that still have a BM25 document are served by no version.
OrphansDead(r) ==
  job[r].pc = "bm25delete" =>
    \A c \in job[r].orphans, v \in Versions : rows[v][c] # "live"

OneRunner == \A q, r \in Runners : Running(q) /\ Running(r) => q = r

SparseInv ==
  /\ DenseInSparse
  /\ OneRunner
  /\ \A r \in Runners : SparseWritten(r) /\ OrphansDead(r)

LEMMA SparseInit == Init => SparseInv
BY DEF Init, SparseInv, DenseInSparse, OneRunner, SparseWritten, OrphansDead, Running,
       EmptyIndex, IdleJob

\* While one process takes a step, no other one is running.
LEMMA OthersNotRunning ==
  ASSUME Serial, TypeOK, OneRunner, NEW r \in Runners, RunStep(r),
         NEW q \in Runners, q # r
  PROVE  ~Running(q) /\ ~Running(q)'
<1>1. ~Running(q)
  <2>1. CASE \E v \in Versions, S \in SUBSET Sources : StartRun(r, v, S)
    BY <2>1 DEF StartRun
  <2>2. CASE RunnerStep(r) \/ Failure(r)
    <3>1. Running(r)
      BY <2>2
      DEF RunnerStep, Failure, LoadDoc, WriteBm25, DeleteBm25, PutFact, UpsertVectors,
          UpsertVectorsFails, ChunksDone, FindOrphans, SoftDeleteOrphans, RunSmoke,
          RecordHistory, FlipPointer, GcOldVersions, FinishRun, LoadFails, IngestError,
          Crash, InHandle, Running
    <3>2. QED
      BY <3>1 DEF OneRunner
  <2>3. QED
    BY <2>1, <2>2 DEF RunStep
<1>2. QED
  BY <1>1, JobFrame DEF Running

\* The chunk loop writes the BM25 document of each chunk it handles.
LEMMA SparseWrittenStep ==
  ASSUME TypeOK, NEW r \in Runners, SparseWritten(r), RunStep(r)
  PROVE  SparseWritten(r)'
<1> SUFFICES ASSUME job'[r].pc = "chunks", NEW c \in job'[r].doc \ job'[r].left
             PROVE  bm25'[c] # None
  BY DEF SparseWritten
<1>0. job \in [Runners -> Job] /\ JobOK(job[r])
  BY DEF TypeOK, JobsOK
<1>1. CASE \E s \in Sources : \E d \in Docs[s] : LoadDoc(r, s, d)
  BY <1>0, <1>1 DEF LoadDoc, Job
<1>2. CASE PutFact(r)
  BY <1>0, <1>2 DEF PutFact, Job, SparseWritten
<1>3. CASE \E d \in Chunks : WriteBm25(r, d)
  <2>1. PICK d \in Chunks : WriteBm25(r, d)
    BY <1>3
  <2>2. /\ job[r].pc = "chunks" /\ job[r].version \in Versions
        /\ job'[r].doc = job[r].doc /\ job'[r].left = job[r].left \ {d}
        /\ job[r].doc \subseteq Chunks
    BY <1>0, <2>1 DEF WriteBm25, Job, JobOK
  <2>3. c = d \/ bm25[c] # None
    BY <2>2 DEF SparseWritten
  <2>4. job[r].version # None
    BY <2>2, IngestionAssumption
  <2>5. QED
    BY <2>1, <2>2, <2>3, <2>4 DEF WriteBm25, TypeOK
<1>4. QED
  BY <1>1, <1>2, <1>3, IntoChunks

LEMMA SparseRunStep ==
  ASSUME Serial, TypeOK, SparseInv, NEW r \in Runners, RunStep(r)
  PROVE  SparseInv'
<1>1. job \in [Runners -> Job] /\ JobOK(job[r])
  BY DEF TypeOK, JobsOK
<1>2. \A q \in Runners \ {r} : ~Running(q)'
  BY OthersNotRunning DEF SparseInv
<1>3. OneRunner'
  BY <1>2 DEF OneRunner
<1>4. \A q \in Runners \ {r} : SparseWritten(q)' /\ OrphansDead(q)'
  BY <1>2 DEF SparseWritten, OrphansDead, Running
<1>5. SparseWritten(r)'
  BY SparseWrittenStep DEF SparseInv
<1>6. OrphansDead(r)'
  <2> SUFFICES ASSUME job'[r].pc = "bm25delete", NEW c \in job'[r].orphans, NEW v \in Versions
               PROVE  rows'[v][c] # "live"
    BY DEF OrphansDead
  <2>1. CASE SoftDeleteOrphans(r)
    <3>1. c \in job[r].orphans /\ c \in Chunks
      BY <1>1, <2>1, GotoJob DEF SoftDeleteOrphans, Job
    <3>2. QED
      BY <2>1, <3>1, SoftDeleteRows DEF SoftDeleteOrphans, TypeOK
  <2>2. CASE \E d \in Chunks : DeleteBm25(r, d)
    BY <1>1, <2>2 DEF DeleteBm25, Job, SparseInv, OrphansDead
  <2>3. QED
    BY <2>1, <2>2, IntoBm25Delete
<1>7. DenseInSparse'
  <2> SUFFICES ASSUME NEW v \in Versions, NEW c \in Chunks, rows'[v][c] = "live"
               PROVE  bm25'[c] # None
    BY DEF DenseInSparse
  <2>1. CASE ChunksDone(r) /\ c \in job[r].doc
    <3>1. bm25[c] # None /\ job[r].pc # "bm25delete"
      BY <2>1 DEF ChunksDone, SparseInv, SparseWritten
    <3>2. QED
      BY <3>1, Bm25Frame
  <2>2. CASE rows[v][c] = "live"
    <3>1. bm25[c] # None
      BY <2>2 DEF SparseInv, DenseInSparse
    <3>2. ~ (job[r].pc = "bm25delete" /\ c \in job[r].orphans)
      BY <2>2 DEF SparseInv, OrphansDead
    <3>3. QED
      BY <3>1, <3>2, Bm25Frame
  <2>3. QED
    BY <2>1, <2>2, RowsGrow
<1>8. QED
  BY <1>3, <1>4, <1>5, <1>6, <1>7 DEF SparseInv

LEMMA SparseStep ==
  ASSUME Serial
  PROVE  TypeOK /\ SparseInv /\ [Next]_vars => SparseInv'
<1> SUFFICES ASSUME TypeOK, SparseInv, [Next]_vars PROVE SparseInv'
  OBVIOUS
<1>1. CASE UNCHANGED vars
  BY <1>1 DEF vars, SparseInv, DenseInSparse, OneRunner, SparseWritten, OrphansDead, Running
<1>2. CASE Purge
  <2>1. \A r \in Runners : SparseWritten(r)'
    BY <1>2, PurgeFrame DEF SparseInv, SparseWritten
  <2>2. ASSUME NEW r \in Runners PROVE OrphansDead(r)'
    BY <1>2, PurgeFrame DEF SparseInv, OrphansDead, TypeOK, JobsOK, Job
  <2>3. DenseInSparse'
    BY <1>2, PurgeFrame DEF SparseInv, DenseInSparse
  <2>4. OneRunner'
    BY <1>2, PurgeFrame DEF SparseInv, OneRunner, Running
  <2>5. QED
    BY <2>1, <2>2, <2>3, <2>4 DEF SparseInv
<1>3. QED
  BY <1>1, <1>2, SparseRunStep, StepCases

\* What dense search can return, sparse search can reach, with either vector
\* backend and whatever run ids are re-used, as long as runs do not overlap:
\* the BM25 writes come before the rows, the soft delete of every version
\* before the BM25 deletes.
THEOREM DenseInSparseCorrect ==
  ASSUME Serial
  PROVE  Spec => []DenseInSparse
<1>1. Init => SparseInv
  BY SparseInit
<1>2. TypeOK /\ SparseInv /\ [Next]_vars => SparseInv'
  BY SparseStep
<1>3. SparseInv => DenseInSparse
  BY DEF SparseInv
<1>4. QED
  BY <1>1, <1>2, <1>3, TypeCorrect, PTL DEF Spec

-----------------------------------------------------------------------------
(* The pointer names a recorded version *)

\* The pointer is only about to move to a version already recorded.
Recorded(r) == job[r].pc \in {"pointer", "gc"} => job[r].version \in Range(history)

HistoryInv == LiveInHistory /\ \A r \in Runners : Recorded(r)

LEMMA RangeAppend ==
  ASSUME NEW h \in Seq(Versions), NEW v \in Versions
  PROVE  Range(Append(h, v)) = Range(h) \cup {v}
<1>1. DOMAIN h = 1 .. Len(h) /\ Len(h) \in Nat
  OBVIOUS
<1>2. DOMAIN Append(h, v) = 1 .. Len(h) + 1
  BY <1>1
<1>3. /\ \A i \in 1 .. Len(h) : Append(h, v)[i] = h[i]
      /\ Append(h, v)[Len(h) + 1] = v
  BY <1>1
<1>4. 1 .. Len(h) + 1 = (1 .. Len(h)) \cup {Len(h) + 1}
  BY <1>1
<1>5. QED
  BY <1>1, <1>2, <1>3, <1>4 DEF Range

\* The history only grows, by the version of a process at that stage.
LEMMA HistoryGrows ==
  ASSUME TypeOK, NEW r \in Runners, RunStep(r)
  PROVE  \/ RecordHistory(r) /\ Range(history') = Range(history) \cup {job[r].version}
         \/ ~RecordHistory(r) /\ history' = history
<1>1. CASE RecordHistory(r)
  <2>1. job[r].version \in Versions /\ history \in Seq(Versions)
    BY <1>1 DEF RecordHistory, TypeOK, JobsOK, JobOK
  <2>2. Range(Append(history, job[r].version)) = Range(history) \cup {job[r].version}
    BY <2>1, RangeAppend
  <2>3. QED
    BY <1>1, <2>2 DEF RecordHistory
<1>2. CASE ~RecordHistory(r)
  BY <1>2
  DEF RunStep, RunnerStep, Failure, StartRun, LoadDoc, LoadFails, FinishRun, WriteBm25,
      PutFact, DeleteBm25, UpsertVectors, UpsertVectorsFails, FindOrphans,
      SoftDeleteOrphans, RunSmoke, FlipPointer, GcOldVersions, IngestError, Crash
<1>3. QED
  BY <1>1, <1>2

\* Only the second statement of set_live moves the pointer.
LEMMA LiveFrame ==
  ASSUME NEW r \in Runners, RunStep(r)
  PROVE  live' = live \/ FlipPointer(r)
BY DEF RunStep, RunnerStep, Failure, StartRun, LoadDoc, LoadFails, FinishRun, WriteBm25,
       PutFact, DeleteBm25, UpsertVectors, UpsertVectorsFails, FindOrphans,
       SoftDeleteOrphans, RunSmoke, RecordHistory, GcOldVersions, IngestError, Crash

LEMMA HistoryStep == TypeOK /\ HistoryInv /\ [Next]_vars => HistoryInv'
<1> SUFFICES ASSUME TypeOK, HistoryInv, [Next]_vars PROVE HistoryInv'
  OBVIOUS
<1>1. CASE UNCHANGED vars \/ Purge
  BY <1>1 DEF vars, Purge, HistoryInv, LiveInHistory, Recorded
<1>2. ASSUME NEW r \in Runners, RunStep(r) PROVE HistoryInv'
  <2>1. Range(history) \subseteq Range(history')
    BY <1>2, HistoryGrows
  <2>2. LiveInHistory'
    BY <1>2, <2>1, LiveFrame DEF HistoryInv, LiveInHistory, Recorded, FlipPointer
  <2>3. ASSUME NEW q \in Runners, q # r PROVE Recorded(q)'
    BY <1>2, <2>1, <2>3, JobFrame DEF HistoryInv, Recorded
  <2>4. Recorded(r)'
    <3>1. CASE RecordHistory(r)
      BY <1>2, <3>1, GotoJob, HistoryGrows DEF RecordHistory, Recorded
    <3>2. CASE FlipPointer(r)
      BY <2>1, <3>2, GotoJob DEF FlipPointer, HistoryInv, Recorded
    <3>3. QED
      BY <1>2, <3>1, <3>2, IntoSwap DEF Recorded
  <2>5. QED
    BY <2>2, <2>3, <2>4 DEF HistoryInv
<1>3. QED
  BY <1>1, <1>2, StepCases

LEMMA HistoryInit == Init => HistoryInv
BY DEF Init, HistoryInv, LiveInHistory, Recorded, IdleJob

\* The live pointer always names a version of corpus_history, for overlapping
\* runs, re-used run ids and a process dying between the two statements.
THEOREM LiveInHistoryCorrect == Spec => []LiveInHistory
<1>1. HistoryInv => LiveInHistory
  BY DEF HistoryInv
<1>2. QED
  BY <1>1, HistoryInit, HistoryStep, TypeCorrect, PTL DEF Spec

-----------------------------------------------------------------------------
(* What upsert leaves behind, for runs one at a time *)

\* A vector write serves the chunks it is given.
LEMMA UpsertServes ==
  ASSUME NEW R \in Index, NEW v \in Versions, NEW cs \in SUBSET Chunks
  PROVE  cs \subseteq ServedChunks(Upsert(R, v, cs), v)
BY DEF Upsert, PgUpsert, ChromaUpsert, ServedChunks, Index, RowState

LEMMA SoftDeleteServes ==
  ASSUME NEW R \in Index, NEW v \in Versions, NEW s, NEW cs
  PROVE  ChunkIdsForSource(SoftDelete(R, cs), s, v) = ChunkIdsForSource(R, s, v) \ cs
BY DEF SoftDelete, ChunkIdsForSource, ServedChunks, Index, RowState

\* The orphans are looked for between the vector write and the soft delete.
LEMMA IntoSoftDelete ==
  ASSUME TypeOK, NEW r \in Runners, RunStep(r), job'[r].pc = "softdelete"
  PROVE  FindOrphans(r)
<1>1. job \in [Runners -> Job]
  BY DEF TypeOK, JobsOK
<1>2. CASE \E v \in Versions, S \in SUBSET Sources : StartRun(r, v, S)
  BY <1>1, <1>2 DEF StartRun, IdleJob
<1>3. CASE Crash(r) \/ \E s \in Sources : LoadFails(r, s)
  BY <1>1, <1>3, LoadFailsJob DEF Crash, IdleJob
<1>4. CASE \E status : EndSource(r, status)
  BY <1>4, EndSourceJob
<1>5. CASE \E pc \in (InHandle \cup {"exited"}) \ {"softdelete"} : Goto(r, pc)
  BY <1>5, GotoJob
<1>6. CASE PutFact(r) \/ \E c \in Chunks : WriteBm25(r, c) \/ DeleteBm25(r, c)
  <2>1. CASE PutFact(r)
    BY <1>1, <2>1 DEF PutFact, Job
  <2>2. CASE \E c \in Chunks : WriteBm25(r, c)
    BY <1>1, <2>2 DEF WriteBm25, Job
  <2>3. CASE \E c \in Chunks : DeleteBm25(r, c)
    BY <1>1, <2>3 DEF DeleteBm25, Job
  <2>4. QED
    BY <1>6, <2>1, <2>2, <2>3
<1>7. CASE \E s \in Sources : \E d \in Docs[s] : LoadDoc(r, s, d)
  BY <1>1, <1>7 DEF LoadDoc, Job
<1>8. CASE UpsertVectors(r) \/ SoftDeleteOrphans(r) \/ FinishRun(r)
  BY <1>5, <1>8 DEF UpsertVectors, SoftDeleteOrphans, FinishRun, InHandle
<1>9. CASE RunSmoke(r) \/ RecordHistory(r) \/ FlipPointer(r)
  BY <1>4, <1>5, <1>9 DEF RunSmoke, RecordHistory, FlipPointer, InHandle
<1>10. CASE UpsertVectorsFails(r) \/ GcOldVersions(r) \/ IngestError(r)
  BY <1>4, <1>10 DEF UpsertVectorsFails, GcOldVersions, IngestError
<1>11. QED
  BY <1>2, <1>3, <1>6, <1>7, <1>8, <1>9, <1>10 DEF RunStep, RunnerStep, Failure

\* What the version serves of the source being ingested.
Serves(r) == ChunkIdsForSource(rows, job[r].source, job[r].version)

\* The chunks in hand are of the source in hand; they are served once written,
\* next to the orphans, and alone once those are soft-deleted.
Converging(r) ==
  /\ job[r].pc \in InHandle => \A c \in job[r].doc : SourceOf[c] = job[r].source
  /\ job[r].pc = "orphans" => job[r].doc \subseteq Serves(r)
  /\ job[r].pc = "softdelete" =>
       job[r].doc \subseteq Serves(r) /\ job[r].orphans = Serves(r) \ job[r].doc
  /\ job[r].pc \in {"bm25delete", "history", "pointer", "gc"} => Serves(r) = job[r].doc

ConvergeInv == OneRunner /\ \A r \in Runners : Converging(r)

LEMMA ConvergeInit == Init => ConvergeInv
BY DEF Init, ConvergeInv, OneRunner, Running, Converging, InHandle, IdleJob

\* A process keeps its document and its source until the source ends.
LEMMA SameDocument ==
  ASSUME TypeOK, NEW r \in Runners, RunStep(r), job'[r].pc \in InHandle
  PROVE  \/ /\ \E s \in Sources : \E d \in Docs[s] : LoadDoc(r, s, d)
            /\ job'[r].doc \in Docs[job'[r].source] /\ job'[r].source \in Sources
         \/ /\ job[r].pc \in InHandle
            /\ job'[r].doc = job[r].doc /\ job'[r].source = job[r].source
            /\ job'[r].version = job[r].version
<1>1. job \in [Runners -> Job] /\ JobOK(job[r])
  BY DEF TypeOK, JobsOK
<1>2. CASE \E v \in Versions, S \in SUBSET Sources : StartRun(r, v, S)
  BY <1>1, <1>2 DEF StartRun, IdleJob, InHandle
<1>3. CASE Crash(r)
  BY <1>1, <1>3 DEF Crash, IdleJob, InHandle
<1>4. CASE \E s \in Sources : LoadFails(r, s)
  BY <1>4, LoadFailsJob DEF InHandle
<1>5. CASE \E status : EndSource(r, status)
  BY <1>5, EndSourceJob DEF InHandle
<1>6. CASE job[r].pc \in InHandle /\ \E pc \in InHandle : Goto(r, pc)
  BY <1>6, GotoJob
<1>7. CASE FindOrphans(r)
  BY <1>1, <1>7 DEF FindOrphans, Job, InHandle
<1>8. CASE PutFact(r)
  BY <1>1, <1>8 DEF PutFact, Job, InHandle
<1>9. CASE \E c \in Chunks : WriteBm25(r, c)
  BY <1>1, <1>9 DEF WriteBm25, Job, InHandle
<1>10. CASE \E c \in Chunks : DeleteBm25(r, c)
  BY <1>1, <1>10 DEF DeleteBm25, Job, InHandle
<1>11. CASE \E s \in Sources : \E d \in Docs[s] : LoadDoc(r, s, d)
  BY <1>1, <1>11 DEF LoadDoc, Job
<1>12. CASE FinishRun(r)
  BY <1>12, GotoJob DEF FinishRun, InHandle
<1>13. CASE UpsertVectors(r) \/ SoftDeleteOrphans(r) \/ RecordHistory(r) \/ FlipPointer(r)
  BY <1>6, <1>13
  DEF UpsertVectors, ChunksDone, SoftDeleteOrphans, RecordHistory, FlipPointer, InHandle
<1>14. CASE RunSmoke(r)
  BY <1>5, <1>6, <1>14 DEF RunSmoke, InHandle
<1>15. CASE UpsertVectorsFails(r) \/ GcOldVersions(r) \/ IngestError(r)
  BY <1>5, <1>15 DEF UpsertVectorsFails, GcOldVersions, IngestError
<1>16. QED
  BY <1>2, <1>3, <1>4, <1>7, <1>8, <1>9, <1>10, <1>11, <1>12, <1>13, <1>14, <1>15
  DEF RunStep, RunnerStep, Failure

LEMMA ConvergingStep ==
  ASSUME TypeOK, NEW r \in Runners, Converging(r), RunStep(r)
  PROVE  Converging(r)'
<1>1. /\ rows \in Index /\ job \in [Runners -> Job]
      /\ JobOK(job[r]) /\ job[r].doc \in SUBSET Chunks
      /\ job[r].pc \in InHandle => job[r].version \in Versions
  BY DEF TypeOK, JobsOK, JobOK, Job, InHandle
<1>2. ASSUME job'[r].pc \in InHandle
      PROVE  \A c \in job'[r].doc : SourceOf[c] = job'[r].source
  BY <1>2, SameDocument, IngestionAssumption DEF Converging
<1>3. ASSUME job'[r].pc = "orphans" PROVE job'[r].doc \subseteq Serves(r)'
  <2>1. UpsertVectors(r) /\ job[r].pc = "chunks"
    BY <1>3, IntoSwap DEF UpsertVectors, ChunksDone
  <2>2. /\ job'[r].doc = job[r].doc /\ job'[r].source = job[r].source
        /\ job'[r].version = job[r].version
    BY <2>1, GotoJob DEF UpsertVectors
  <2>3. job[r].doc \subseteq ServedChunks(rows', job[r].version)
    BY <1>1, <2>1, UpsertServes DEF UpsertVectors, InHandle
  <2>4. QED
    BY <2>1, <2>2, <2>3 DEF Converging, Serves, ChunkIdsForSource, InHandle
<1>4. ASSUME job'[r].pc = "softdelete"
      PROVE  job'[r].doc \subseteq Serves(r)' /\ job'[r].orphans = Serves(r)' \ job'[r].doc
  <2>1. FindOrphans(r)
    BY <1>4, IntoSoftDelete
  <2>2. /\ job'[r].doc = job[r].doc /\ job'[r].source = job[r].source
        /\ job'[r].version = job[r].version
        /\ job'[r].orphans = ChunkIdsForSource(rows, job[r].source, job[r].version) \ job[r].doc
        /\ rows' = rows /\ job[r].pc = "orphans"
    BY <1>1, <2>1 DEF FindOrphans, Job
  <2>3. QED
    BY <2>2 DEF Converging, Serves
<1>5. ASSUME job'[r].pc \in {"bm25delete", "history", "pointer", "gc"}
      PROVE  Serves(r)' = job'[r].doc
  <2>1. CASE SoftDeleteOrphans(r)
    <3>1. /\ job'[r].doc = job[r].doc /\ job'[r].source = job[r].source
          /\ job'[r].version = job[r].version
          /\ rows' = SoftDelete(rows, job[r].orphans) /\ job[r].pc = "softdelete"
      BY <2>1, GotoJob DEF SoftDeleteOrphans
    <3>2. Serves(r)' = Serves(r) \ job[r].orphans
      BY <1>1, <3>1, SoftDeleteServes DEF Serves, InHandle
    <3>3. QED
      BY <3>1, <3>2 DEF Converging
  <2>2. CASE ~SoftDeleteOrphans(r)
    <3>1. /\ rows' = rows
          /\ job[r].pc \in {"bm25delete", "history", "pointer", "gc"}
      BY <1>5, <2>2, IntoBm25Delete, IntoSwap
      DEF DeleteBm25, RunSmoke, RecordHistory, FlipPointer
    <3>2. ~ \E s \in Sources : \E d \in Docs[s] : LoadDoc(r, s, d)
      BY <3>1 DEF LoadDoc
    <3>3. /\ job'[r].doc = job[r].doc /\ job'[r].source = job[r].source
          /\ job'[r].version = job[r].version
      BY <1>5, <3>2, SameDocument DEF InHandle
    <3>4. QED
      BY <3>1, <3>3 DEF Converging, Serves
  <2>3. QED
    BY <2>1, <2>2
<1>6. QED
  BY <1>2, <1>3, <1>4, <1>5 DEF Converging

LEMMA ConvergeStep ==
  ASSUME Serial
  PROVE  TypeOK /\ ConvergeInv /\ [Next]_vars => ConvergeInv'
<1> SUFFICES ASSUME TypeOK, ConvergeInv, [Next]_vars PROVE ConvergeInv'
  OBVIOUS
<1>1. CASE UNCHANGED vars
  BY <1>1 DEF vars, ConvergeInv, OneRunner, Running, Converging, Serves
<1>2. CASE Purge
  <2>1. job' = job
    BY <1>2, PurgeFrame
  <2>2. OneRunner'
    BY <2>1 DEF ConvergeInv, OneRunner, Running
  <2>3. ASSUME NEW r \in Runners PROVE Converging(r)'
    <3>1. job[r].pc \in InHandle => Serves(r)' = Serves(r)
      BY <1>2, <2>1, PurgeFrame
      DEF Serves, ChunkIdsForSource, ServedChunks, TypeOK, JobsOK, JobOK, InHandle
    <3>2. QED
      BY <2>1, <3>1 DEF ConvergeInv, Converging, InHandle
  <2>4. QED
    BY <2>2, <2>3 DEF ConvergeInv
<1>3. ASSUME NEW r \in Runners, RunStep(r) PROVE ConvergeInv'
  <2>1. \A q \in Runners \ {r} : ~Running(q)'
    BY <1>3, OthersNotRunning DEF ConvergeInv
  <2>2. \A q \in Runners \ {r} : Converging(q)'
    BY <2>1 DEF Running, Converging, InHandle
  <2>3. QED
    BY <1>3, <2>1, <2>2, ConvergingStep DEF ConvergeInv, OneRunner
<1>4. QED
  BY <1>1, <1>2, <1>3, StepCases

\* A source whose upsert returned is served exactly as its page says, with either
\* backend and whatever earlier or crashed runs of the same run id left, as long
\* as runs do not overlap (index_writer.py:160-246).
THEOREM UpsertConvergesCorrect ==
  ASSUME Serial
  PROVE  Spec => []UpsertConverges
<1>1. ConvergeInv => UpsertConverges
  BY DEF ConvergeInv, Converging, Serves, UpsertConverges
<1>2. QED
  BY <1>1, ConvergeInit, ConvergeStep, TypeCorrect, PTL DEF Spec

-----------------------------------------------------------------------------
(* The exit code, for runs one at a time *)

\* A source only ends well once the pointer names the run's version.
Swapped(r) ==
  Running(r) =>
    /\ job[r].pc = "gc" => live = job[r].version
    /\ (\E s \in Sources : job[r].results[s] = "ok") => live = job[r].version

SwappedInv == OneRunner /\ \A r \in Runners : Swapped(r)

LEMMA SwappedInit == Init => SwappedInv
BY DEF Init, SwappedInv, OneRunner, Running, Swapped, IdleJob

\* The end of a source adds its result.
LEMMA SwappedEnd ==
  ASSUME TypeOK, NEW r \in Runners, Swapped(r), job[r].pc \in InHandle, live' = live,
         NEW status \in {"ok", "smoke_failed", "error"}, EndSource(r, status),
         status = "ok" => job[r].pc = "gc"
  PROVE  Swapped(r)'
<1>1. job'[r].pc = "next" /\ job'[r].version = job[r].version
  BY EndSourceJob
<1>2. /\ job[r].source \in Sources
      /\ job[r].results \in [Sources -> {"none", "ok", "smoke_failed", "error"}]
      /\ job'[r].results = [job[r].results EXCEPT ![job[r].source] = status]
  BY DEF TypeOK, JobsOK, JobOK, Job, EndSource
<1>3. Running(r)
  BY DEF Running, InHandle
<1>4. ASSUME NEW s \in Sources, job'[r].results[s] = "ok" PROVE live = job[r].version
  <2>1. CASE s = job[r].source
    BY <1>2, <1>3, <1>4, <2>1 DEF Swapped
  <2>2. CASE s # job[r].source
    BY <1>2, <1>3, <1>4, <2>2 DEF Swapped
  <2>3. QED
    BY <2>1, <2>2
<1>5. QED
  BY <1>1, <1>2, <1>4 DEF Swapped

\* A move inside a run keeps the results.
LEMMA SwappedGoto ==
  ASSUME TypeOK, NEW r \in Runners, Swapped(r), job[r].pc \in InHandle,
         NEW pc \in InHandle, Goto(r, pc),
         \/ live' = live /\ pc # "gc"
         \/ live' = job[r].version
  PROVE  Swapped(r)'
<1>1. /\ job'[r].pc = pc /\ job'[r].version = job[r].version
      /\ job'[r].results = job[r].results
  BY DEF TypeOK, JobsOK, Job, Goto
<1>2. Running(r)
  BY DEF Running, InHandle
<1>3. QED
  BY <1>1, <1>2 DEF Swapped

LEMMA SwappedStep ==
  ASSUME TypeOK, NEW r \in Runners, Swapped(r), RunStep(r)
  PROVE  Swapped(r)'
<1>1. job \in [Runners -> Job]
  BY DEF TypeOK, JobsOK
<1>2. CASE \E v \in Versions, S \in SUBSET Sources : StartRun(r, v, S)
  BY <1>1, <1>2 DEF StartRun, IdleJob, Swapped, InHandle
<1>3. CASE Crash(r) \/ FinishRun(r)
  BY <1>1, <1>3, GotoJob DEF Crash, FinishRun, IdleJob, Swapped, Running
<1>4. CASE \E s \in Sources : LoadFails(r, s)
  <2>1. PICK s \in Sources : LoadFails(r, s)
    BY <1>4
  <2>2. job'[r] = [job[r] EXCEPT !.todo = @ \ {s}, !.results[s] = "error"]
    BY <1>1, <2>1 DEF LoadFails
  <2>3. /\ job'[r].pc = "next" /\ job'[r].version = job[r].version /\ live' = live
        /\ job'[r].results = [job[r].results EXCEPT ![s] = "error"]
        /\ job[r].results \in [Sources -> {"none", "ok", "smoke_failed", "error"}]
        /\ job[r].pc = "next"
    BY <1>1, <2>1, <2>2 DEF LoadFails, Job
  <2>4. QED
    BY <2>3 DEF Swapped, Running
<1>5. CASE \E s \in Sources : \E d \in Docs[s] : LoadDoc(r, s, d)
  <2>1. /\ job'[r].pc = "chunks" /\ job'[r].version = job[r].version /\ live' = live
        /\ job'[r].results = job[r].results /\ job[r].pc = "next"
    BY <1>1, <1>5 DEF LoadDoc, Job
  <2>2. QED
    BY <2>1 DEF Swapped, Running, InHandle
<1>6. CASE \/ FindOrphans(r) \/ PutFact(r)
           \/ \E c \in Chunks : WriteBm25(r, c) \/ DeleteBm25(r, c)
  <2>1. /\ job'[r].pc \in InHandle \ {"gc"} /\ job'[r].version = job[r].version
        /\ job'[r].results = job[r].results /\ live' = live /\ job[r].pc \in InHandle
    <3>1. CASE FindOrphans(r)
      BY <1>1, <3>1 DEF FindOrphans, Job, InHandle
    <3>2. CASE PutFact(r)
      BY <1>1, <3>2 DEF PutFact, Job, InHandle
    <3>3. CASE \E c \in Chunks : WriteBm25(r, c)
      BY <1>1, <3>3 DEF WriteBm25, Job, InHandle
    <3>4. CASE \E c \in Chunks : DeleteBm25(r, c)
      BY <1>1, <3>4 DEF DeleteBm25, Job, InHandle
    <3>5. QED
      BY <1>6, <3>1, <3>2, <3>3, <3>4
  <2>2. QED
    BY <2>1 DEF Swapped, Running, InHandle
<1>7. CASE UpsertVectors(r) \/ SoftDeleteOrphans(r) \/ RecordHistory(r) \/ FlipPointer(r)
  BY <1>7, SwappedGoto
  DEF UpsertVectors, ChunksDone, SoftDeleteOrphans, RecordHistory, FlipPointer, InHandle
<1>8. CASE RunSmoke(r)
  BY <1>8, SwappedGoto, SwappedEnd DEF RunSmoke, InHandle
<1>9. CASE UpsertVectorsFails(r) \/ GcOldVersions(r) \/ IngestError(r)
  BY <1>9, SwappedEnd
  DEF UpsertVectorsFails, ChunksDone, GcOldVersions, IngestError, InHandle
<1>10. QED
  BY <1>2, <1>3, <1>4, <1>5, <1>6, <1>7, <1>8, <1>9 DEF RunStep, RunnerStep, Failure

LEMMA SwappedNext ==
  ASSUME Serial
  PROVE  TypeOK /\ SwappedInv /\ [Next]_vars => SwappedInv'
<1> SUFFICES ASSUME TypeOK, SwappedInv, [Next]_vars PROVE SwappedInv'
  OBVIOUS
<1>1. CASE UNCHANGED vars \/ Purge
  BY <1>1 DEF vars, Purge, SwappedInv, OneRunner, Running, Swapped
<1>2. ASSUME NEW r \in Runners, RunStep(r) PROVE SwappedInv'
  <2>1. \A q \in Runners \ {r} : ~Running(q)'
    BY <1>2, OthersNotRunning DEF SwappedInv
  <2>2. QED
    BY <1>2, <2>1, SwappedStep DEF SwappedInv, OneRunner, Swapped
<1>3. QED
  BY <1>1, <1>2, StepCases

\* The step SuccessIsServed allows.
ExitStep ==
  \A r \in Runners :
    /\ job[r].pc = "next"
    /\ job'[r].pc = "exited"
    /\ ExitCode(r) = 0
    /\ \E s \in Sources : job[r].results[s] # "none"
    => live = job[r].version

LEMMA ExitsHonestly == TypeOK /\ SwappedInv /\ [Next]_vars => [ExitStep]_vars
<1> SUFFICES ASSUME TypeOK, SwappedInv, Next, NEW q \in Runners,
                    job[q].pc = "next", job'[q].pc = "exited", ExitCode(q) = 0,
                    \E s \in Sources : job[q].results[s] # "none"
             PROVE  live = job[q].version
  BY DEF ExitStep
<1>1. PICK r \in Runners : RunStep(r)
  BY DEF Next, RunStep, Purge
<1>2. r = q
  BY <1>1, JobFrame
<1>3. job \in [Runners -> Job] /\ job[q] \in Job
  BY DEF TypeOK, JobsOK
<1>4. FinishRun(q)
  <2>1. CASE \E v \in Versions, S \in SUBSET Sources : StartRun(q, v, S)
    BY <1>3, <2>1 DEF StartRun, IdleJob
  <2>2. CASE Crash(q)
    BY <1>3, <2>2 DEF Crash, IdleJob
  <2>3. CASE \E s \in Sources : LoadFails(q, s)
    BY <2>3, LoadFailsJob
  <2>4. CASE \E s \in Sources : \E d \in Docs[s] : LoadDoc(q, s, d)
    BY <1>3, <2>4 DEF LoadDoc, Job
  <2>5. QED
    BY <1>1, <1>2, <2>1, <2>2, <2>3, <2>4
    DEF RunStep, RunnerStep, Failure, WriteBm25, DeleteBm25, PutFact, UpsertVectors,
        UpsertVectorsFails, ChunksDone, FindOrphans, SoftDeleteOrphans, RunSmoke,
        RecordHistory, FlipPointer, GcOldVersions, IngestError, InHandle
<1>5. \A s \in Sources : job[q].results[s] \in {"none", "ok"}
  BY <1>3 DEF ExitCode, Job
<1>6. Running(q)
  BY <1>4 DEF FinishRun, Running
<1>7. \E s \in Sources : job[q].results[s] = "ok"
  BY <1>5
<1>8. QED
  BY <1>6, <1>7 DEF SwappedInv, Swapped

\* Exit code 0 of a run that took up a source means that the version it built is
\* being served (cli.py:202-228), whatever failed, crashed or was re-run before, as
\* long as runs do not overlap.  A run that was left no source (cli.py:171-174)
\* exits with 0 as well, and its version need not be served.
THEOREM SuccessIsServedCorrect ==
  ASSUME Serial
  PROVE  Spec => SuccessIsServed
<1>1. Spec => [](TypeOK /\ SwappedInv)
  BY SwappedInit, SwappedNext, TypeCorrect, PTL DEF Spec
<1>2. TypeOK /\ SwappedInv /\ [Next]_vars => [ExitStep]_vars
  BY ExitsHonestly
<1>3. QED
  BY <1>1, <1>2, PTL DEF Spec, SuccessIsServed, ExitStep

-----------------------------------------------------------------------------
(* The gc callback, for runs one at a time with fresh run ids *)

\* A recorded version has been started; while its run goes on it is the latest
\* one, and no version is recorded twice.
LatestRecorded(r) ==
  Running(r) =>
    /\ started[job[r].version] > 0
    /\ job[r].version \in Range(history) => history[Len(history)] = job[r].version
    /\ job[r].pc \in {"pointer", "gc"} => job[r].version \in Range(history)
    /\ job[r].pc = "gc" => live = job[r].version

GcInv ==
  /\ OneRunner
  /\ \A i, j \in DOMAIN history : history[i] = history[j] => i = j
  /\ \A v \in Range(history) : started[v] > 0
  /\ \A r \in Runners : LatestRecorded(r)

LEMMA GcInit == Init => GcInv
BY DEF Init, GcInv, OneRunner, Running, LatestRecorded, IdleJob, Range

\* The version of a process only changes with its run, and a run is only counted
\* when it starts.
LEMMA RunVersionFrame ==
  ASSUME TypeOK, NEW r \in Runners, RunStep(r), Running(r)'
  PROVE  \/ \E v \in Versions, S \in SUBSET Sources : StartRun(r, v, S)
         \/ started' = started /\ job'[r].version = job[r].version /\ Running(r)
<1>1. job \in [Runners -> Job]
  BY DEF TypeOK, JobsOK
<1>2. CASE Crash(r)
  BY <1>1, <1>2 DEF Crash, IdleJob, Running
<1>3. CASE \E s \in Sources : LoadFails(r, s)
  BY <1>3, LoadFailsJob DEF LoadFails, Running
<1>4. CASE UpsertVectorsFails(r) \/ GcOldVersions(r) \/ IngestError(r)
  BY <1>4, EndSourceJob
  DEF UpsertVectorsFails, ChunksDone, GcOldVersions, IngestError, Running, InHandle
<1>5. CASE RunSmoke(r)
  BY <1>5, EndSourceJob, GotoJob DEF RunSmoke, Running
<1>6. CASE UpsertVectors(r) \/ SoftDeleteOrphans(r) \/ RecordHistory(r) \/ FlipPointer(r)
  BY <1>6, GotoJob
  DEF UpsertVectors, ChunksDone, SoftDeleteOrphans, RecordHistory, FlipPointer, Running
<1>7. CASE FinishRun(r)
  BY <1>7, GotoJob DEF FinishRun, Running
<1>8. CASE FindOrphans(r) \/ PutFact(r)
  BY <1>1, <1>8 DEF FindOrphans, PutFact, Job, Running
<1>9. CASE \E c \in Chunks : WriteBm25(r, c) \/ DeleteBm25(r, c)
  BY <1>1, <1>9 DEF WriteBm25, DeleteBm25, Job, Running
<1>10. CASE \E s \in Sources : \E d \in Docs[s] : LoadDoc(r, s, d)
  BY <1>1, <1>10 DEF LoadDoc, Job, Running
<1>11. QED
  BY <1>2, <1>3, <1>4, <1>5, <1>6, <1>7, <1>8, <1>9, <1>10 DEF RunStep, RunnerStep, Failure

\* No count of starts goes down.
LEMMA StartedGrows ==
  ASSUME TypeOK, NEW r \in Runners, RunStep(r), NEW v \in Versions
  PROVE  started'[v] >= started[v]
<1>1. started \in [Versions -> Nat]
  BY DEF TypeOK
<1>2. CASE \E u \in Versions, S \in SUBSET Sources : StartRun(r, u, S)
  BY <1>1, <1>2 DEF StartRun
<1>3. CASE started' = started
  BY <1>1, <1>3
<1>4. QED
  BY <1>2, <1>3
  DEF RunStep, RunnerStep, Failure, LoadDoc, LoadFails, FinishRun, WriteBm25, PutFact,
      DeleteBm25, UpsertVectors, UpsertVectorsFails, FindOrphans, SoftDeleteOrphans,
      RunSmoke, RecordHistory, FlipPointer, GcOldVersions, IngestError, Crash

LEMMA GcRunStep ==
  ASSUME Serial, RunsPerVersion = 1, TypeOK, GcInv, NEW r \in Runners, RunStep(r)
  PROVE  GcInv'
<1>1. \A q \in Runners \ {r} : ~Running(q)'
  BY OthersNotRunning DEF GcInv
<1>2. history \in Seq(Versions) /\ started \in [Versions -> Nat]
  BY DEF TypeOK
<1>3. CASE RecordHistory(r)
  <2>1. /\ job[r].version \in Versions /\ Running(r) /\ job'[r].pc = "pointer"
        /\ job'[r].version = job[r].version /\ started' = started /\ live' = live
    BY <1>3, GotoJob DEF RecordHistory, TypeOK, JobsOK, JobOK, Running
  <2>2. started[job[r].version] > 0
    BY <2>1 DEF GcInv, LatestRecorded
  <2>3. CASE job[r].version \in Range(history)
    BY <1>1, <1>3, <2>1, <2>2, <2>3 DEF RecordHistory, GcInv, OneRunner, LatestRecorded
  <2>4. CASE job[r].version \notin Range(history)
    <3> DEFINE n == Len(history)
               v == job[r].version
    <3>1. /\ history' = Append(history, v) /\ n \in Nat
          /\ DOMAIN history = 1..n /\ DOMAIN history' = 1..n + 1
          /\ \A i \in 1..n : history'[i] = history[i]
          /\ history'[n + 1] = v /\ Len(history') = n + 1
      BY <1>2, <1>3, <2>1, <2>4 DEF RecordHistory
    <3>2. Range(history') = Range(history) \cup {v}
      BY <1>2, <2>1, <3>1, RangeAppend
    <3> HIDE DEF n, v
    <3>3. \A i \in 1..n : history[i] # v
      BY <2>4, <3>1 DEF Range, v
    <3>4. \A i, j \in DOMAIN history' : history'[i] = history'[j] => i = j
      BY <3>1, <3>3 DEF GcInv
    <3>5. LatestRecorded(r)'
      BY <2>1, <2>2, <3>1, <3>2 DEF LatestRecorded, v
    <3>6. \A u \in Range(history') : started'[u] > 0
      BY <2>1, <2>2, <3>2 DEF GcInv, v
    <3>7. QED
      BY <1>1, <3>4, <3>5, <3>6 DEF GcInv, OneRunner, LatestRecorded
  <2>5. QED
    BY <2>3, <2>4
<1>4. CASE ~RecordHistory(r)
  <2>1. history' = history
    BY <1>4, HistoryGrows
  <2>2. \A u \in Range(history') : started'[u] > 0
    <3>1. Range(history) \subseteq Versions
      BY <1>2 DEF Range
    <3>2. ASSUME NEW u \in Range(history) PROVE started'[u] > 0
      <4>1. started'[u] >= started[u] /\ started[u] > 0 /\ started[u] \in Nat
        BY <1>2, <3>1, StartedGrows DEF GcInv
      <4>2. started' \in [Versions -> Nat]
        BY NextType DEF TypeOK, Next, RunStep
      <4>3. QED
        BY <3>1, <4>1, <4>2
    <3>3. QED
      BY <2>1, <3>2
  <2>3. ASSUME Running(r)' PROVE LatestRecorded(r)'
    <3>1. CASE \E v \in Versions, S \in SUBSET Sources : StartRun(r, v, S)
      <4>1. PICK v \in Versions : \E S \in SUBSET Sources : StartRun(r, v, S)
        BY <3>1
      <4>2. started[v] = 0 /\ started'[v] = 1
        BY <1>2, <4>1 DEF StartRun
      <4>3. job'[r].version = v /\ job'[r].pc = "next"
        BY <4>1 DEF StartRun, IdleJob, TypeOK, JobsOK
      <4>4. v \notin Range(history)
        BY <4>2 DEF GcInv
      <4>5. QED
        BY <2>1, <4>2, <4>3, <4>4 DEF LatestRecorded
    <3>2. CASE started' = started /\ job'[r].version = job[r].version /\ Running(r)
      <4>1. CASE job'[r].pc \notin {"pointer", "gc"}
        BY <2>1, <3>2, <4>1 DEF GcInv, LatestRecorded
      <4>2. CASE FlipPointer(r)
        <5>1. job[r].pc = "pointer" /\ live' = job[r].version /\ job'[r].pc = "gc"
          BY <4>2, GotoJob DEF FlipPointer
        <5>2. QED
          BY <2>1, <3>2, <5>1 DEF GcInv, LatestRecorded
      <4>3. QED
        BY <1>4, <4>1, <4>2, IntoSwap
    <3>3. QED
      BY <2>3, <3>1, <3>2, RunVersionFrame
  <2>4. QED
    BY <1>1, <2>1, <2>2, <2>3 DEF GcInv, OneRunner, LatestRecorded
<1>5. QED
  BY <1>3, <1>4

LEMMA GcStep ==
  ASSUME Serial, RunsPerVersion = 1
  PROVE  TypeOK /\ GcInv /\ [Next]_vars => GcInv'
<1> SUFFICES ASSUME TypeOK, GcInv, [Next]_vars PROVE GcInv'
  OBVIOUS
<1>1. CASE UNCHANGED vars \/ Purge
  BY <1>1 DEF vars, Purge, GcInv, OneRunner, Running, LatestRecorded
<1>2. QED
  BY <1>1, GcRunStep, StepCases

LEMMA GcHolds == TypeOK /\ GcInv => GcKeepsLive
<1> SUFFICES ASSUME TypeOK, GcInv, NEW r \in Runners, job[r].pc = "gc", live \in ToDrop
             PROVE  FALSE
  BY DEF GcKeepsLive
<1> DEFINE n == Len(history)
<1>1. history \in Seq(Versions) /\ n \in Nat /\ DOMAIN history = 1..n /\ Keep \in Nat \ {0}
  BY IngestionAssumption DEF TypeOK
<1>2. PICK i \in 1..(n - Keep) : live = history[i]
  BY DEF ToDrop
<1>3. i \in 1..n /\ n \in 1..n /\ i # n
  BY <1>1
<1>4. live = history[n]
  BY DEF GcInv, LatestRecorded, Running
<1>5. QED
  BY <1>1, <1>2, <1>3, <1>4 DEF GcInv

\* The gc callback is never told to drop the version being served
\* (snapshot.py:89-96), for runs one at a time under fresh run ids, whatever keep
\* is and whatever fails.  A run id used again can put an old version live without
\* moving it in the history.
THEOREM GcKeepsLiveCorrect ==
  ASSUME Serial, RunsPerVersion = 1
  PROVE  Spec => []GcKeepsLive
<1>1. Init => GcInv
  BY GcInit
<1>2. TypeOK /\ GcInv /\ [Next]_vars => GcInv'
  BY GcStep
<1>3. TypeOK /\ GcInv => GcKeepsLive
  BY GcHolds
<1>4. QED
  BY <1>1, <1>2, <1>3, TypeCorrect, PTL DEF Spec

-----------------------------------------------------------------------------
(* Runs with fresh run ids *)

FreshRuns ==
  /\ Backend = "pgvector"
  /\ RunsPerVersion = 1
  /\ RequiredSources = Sources

-----------------------------------------------------------------------------
(* The inductive invariant *)

VettedVersion(v) ==
  /\ Count(rows, v) >= MinChunks
  /\ RequiredSources \subseteq DistinctSourceIds(rows, v)

\* A version whose run id was never used holds nothing.
Unstarted ==
  \A v \in Versions : started[v] = 0 =>
    /\ \A c \in Chunks : rows[v][c] = "none"
    /\ v \notin Range(history)
    /\ \A r \in Runners : Running(r) => job[r].version # v

DistinctVersions ==
  \A q, r \in Runners :
    Running(q) /\ Running(r) /\ job[q].version = job[r].version => q = r

\* The document is that of the source the loop has taken.
DocOfSource(r) ==
  job[r].pc \in InHandle =>
    /\ job[r].source \notin job[r].todo
    /\ \A c \in job[r].doc : SourceOf[c] = job[r].source

\* A run has written nothing of the sources it has not reached, so it finds no
\* orphan in its own version.
RowsAreDone(r) ==
  /\ job[r].orphans = {}
  /\ Running(r) =>
       \A c \in Chunks : rows[job[r].version][c] # "none" =>
         /\ SourceOf[c] \notin job[r].todo
         /\ job[r].pc = "chunks" => SourceOf[c] # job[r].source
         /\ job[r].pc = "orphans" /\ SourceOf[c] = job[r].source => c \in job[r].doc

\* A run that has published its version writes no more rows.
PublishedIsDone(r) ==
  Running(r) /\ job[r].version \in Range(history) =>
    job[r].todo = {} /\ job[r].pc \in {"next", "history", "pointer", "gc"}

\* A version about to be recorded or put live has passed the smoke test.
SwapIsVetted(r) ==
  job[r].pc \in {"history", "pointer", "gc"} =>
    job[r].todo = {} /\ VettedVersion(job[r].version)

HistoryVetted == \A v \in Range(history) : VettedVersion(v)

SwapInv ==
  /\ HistoryInv
  /\ Unstarted
  /\ DistinctVersions
  /\ HistoryVetted
  /\ \A r \in Runners :
       DocOfSource(r) /\ RowsAreDone(r) /\ PublishedIsDone(r) /\ SwapIsVetted(r)

-----------------------------------------------------------------------------
(* Frames *)

LEMMA SwapInit == Init => SwapInv
<1> SUFFICES ASSUME Init PROVE SwapInv
  OBVIOUS
<1>1. Range(history) = {}
  BY DEF Init, Range
<1>2. ASSUME NEW r \in Runners PROVE job[r] = IdleJob
  BY DEF Init
<1>3. Unstarted /\ DistinctVersions /\ HistoryVetted
  BY <1>1, <1>2
  DEF Init, Unstarted, DistinctVersions, HistoryVetted, EmptyIndex, Running, IdleJob
<1>4. ASSUME NEW r \in Runners
      PROVE  DocOfSource(r) /\ RowsAreDone(r) /\ PublishedIsDone(r) /\ SwapIsVetted(r)
  BY <1>2 DEF DocOfSource, RowsAreDone, PublishedIsDone, SwapIsVetted, Running, IdleJob, InHandle
<1>5. QED
  BY <1>3, <1>4, HistoryInit DEF SwapInv

\* A process that goes on running keeps its version.
LEMMA RunKeeps ==
  ASSUME TypeOK, NEW r \in Runners, RunStep(r), Running(r)',
         ~ \E v \in Versions, S \in SUBSET Sources : StartRun(r, v, S)
  PROVE  /\ Running(r)
         /\ job'[r].version = job[r].version
         /\ job'[r].todo \subseteq job[r].todo
<1>1. job \in [Runners -> Job]
  BY DEF TypeOK, JobsOK
<1>2. job'[r].pc \notin {"idle", "exited"}
  BY DEF Running
<1>3. Running(r)
  <2>1. RunnerStep(r) \/ Failure(r)
    BY DEF RunStep
  <2>2. QED
    BY <2>1
    DEF RunnerStep, Failure, LoadDoc, WriteBm25, DeleteBm25, PutFact, UpsertVectors,
        UpsertVectorsFails, ChunksDone, FindOrphans, SoftDeleteOrphans, RunSmoke,
        RecordHistory, FlipPointer, GcOldVersions, FinishRun, LoadFails, IngestError,
        Crash, InHandle, Running
<1>4. CASE Crash(r)
  BY <1>1, <1>2, <1>4 DEF Crash, IdleJob
<1>5. CASE \E s \in Sources : LoadFails(r, s)
  BY <1>3, <1>5, LoadFailsJob
<1>6. CASE \E s \in Sources : \E d \in Docs[s] : LoadDoc(r, s, d)
  BY <1>1, <1>3, <1>6 DEF LoadDoc, Job
<1>7. CASE \E c \in Chunks : WriteBm25(r, c)
  BY <1>1, <1>3, <1>7 DEF WriteBm25, Job
<1>8. CASE \E c \in Chunks : DeleteBm25(r, c)
  BY <1>1, <1>3, <1>8 DEF DeleteBm25, Job
<1>9. CASE PutFact(r)
  BY <1>1, <1>3, <1>9 DEF PutFact, Job
<1>10. CASE FindOrphans(r)
  BY <1>1, <1>3, <1>10 DEF FindOrphans, Job
<1>11. CASE \E pc : Goto(r, pc)
  BY <1>3, <1>11, GotoJob
<1>12. CASE \E status : EndSource(r, status)
  BY <1>3, <1>12, EndSourceJob
<1>13. CASE UpsertVectors(r) \/ SoftDeleteOrphans(r) \/ FinishRun(r) \/ RunSmoke(r)
              \/ RecordHistory(r) \/ FlipPointer(r)
  BY <1>11, <1>12, <1>13
  DEF UpsertVectors, SoftDeleteOrphans, FinishRun, RunSmoke, RecordHistory, FlipPointer
<1>14. CASE UpsertVectorsFails(r) \/ GcOldVersions(r) \/ IngestError(r)
  BY <1>12, <1>14 DEF UpsertVectorsFails, GcOldVersions, IngestError
<1>15. QED
  BY <1>4, <1>5, <1>6, <1>7, <1>8, <1>9, <1>10, <1>13, <1>14
  DEF RunStep, RunnerStep, Failure

\* A step changes the rows of no version but the process's own, and those only
\* when its chunk loop is done.
LEMMA FreshFrame ==
  ASSUME FreshRuns, TypeOK, NEW r \in Runners, RunStep(r), job[r].orphans = {},
         NEW v \in Versions, ~ (ChunksDone(r) /\ v = job[r].version)
  PROVE  rows'[v] = rows[v]
<1>1. rows \in Index
  BY DEF TypeOK
<1>2. CASE UpsertVectors(r) \/ UpsertVectorsFails(r)
  <2>1. ChunksDone(r) /\ \E W : rows' = Upsert(rows, job[r].version, W)
    BY <1>2 DEF UpsertVectors, UpsertVectorsFails
  <2>2. PICK W : rows' = PgUpsert(rows, job[r].version, W)
    BY <2>1 DEF FreshRuns, Upsert
  <2>3. QED
    BY <1>1, <2>1, <2>2 DEF PgUpsert, Index
<1>3. CASE SoftDeleteOrphans(r)
  BY <1>1, <1>3 DEF SoftDeleteOrphans, SoftDelete, Index
<1>4. CASE ~(UpsertVectors(r) \/ UpsertVectorsFails(r) \/ SoftDeleteOrphans(r))
  BY <1>4
  DEF RunStep, RunnerStep, Failure, StartRun, LoadDoc, LoadFails, FinishRun, WriteBm25,
      DeleteBm25, PutFact, FindOrphans, RunSmoke, RecordHistory, FlipPointer,
      GcOldVersions, IngestError, Crash
<1>5. QED
  BY <1>2, <1>3, <1>4

\* A version whose rows did not change is as vetted as before.
LEMMA VettedFrame ==
  ASSUME NEW v \in Versions,
         \A c \in Chunks : rows'[v][c] = "live" <=> rows[v][c] = "live"
  PROVE  /\ ServedChunks(rows', v) = ServedChunks(rows, v)
         /\ VettedVersion(v)' <=> VettedVersion(v)
<1>1. ServedChunks(rows', v) = ServedChunks(rows, v)
  BY DEF ServedChunks
<1>2. QED
  BY <1>1 DEF VettedVersion, Count, DistinctSourceIds

\* Only StartRun uses up a run id.
LEMMA StartedFrame ==
  ASSUME NEW r \in Runners, RunStep(r)
  PROVE  \/ started' = started
         \/ \E v \in Versions, S \in SUBSET Sources : StartRun(r, v, S)
BY DEF RunStep, RunnerStep, Failure, LoadDoc, LoadFails, FinishRun, WriteBm25, PutFact,
       DeleteBm25, UpsertVectors, UpsertVectorsFails, FindOrphans, SoftDeleteOrphans,
       RunSmoke, RecordHistory, FlipPointer, GcOldVersions, IngestError, Crash

\* Inside `handle`, past LoadDoc, a step keeps the source, its document and what
\* is left to do, and follows the order of the code.
LEMMA HandleKeeps ==
  ASSUME TypeOK, NEW r \in Runners, RunStep(r), job'[r].pc \in InHandle,
         ~ \E s \in Sources : \E d \in Docs[s] : LoadDoc(r, s, d)
  PROVE  /\ job'[r].source = job[r].source
         /\ job'[r].doc = job[r].doc
         /\ job'[r].todo = job[r].todo
         /\ job'[r].version = job[r].version
         /\ \/ job[r].pc = "chunks" /\ job'[r].pc \in {"chunks", "orphans"}
            \/ job[r].pc = "orphans" /\ job'[r].pc = "softdelete"
            \/ job[r].pc = "softdelete" /\ job'[r].pc = "bm25delete"
            \/ job[r].pc = "bm25delete" /\ job'[r].pc \in {"bm25delete", "history"}
            \/ job[r].pc = "history" /\ job'[r].pc = "pointer"
            \/ job[r].pc = "pointer" /\ job'[r].pc = "gc"
<1>1. job \in [Runners -> Job]
  BY DEF TypeOK, JobsOK
<1>2. job'[r].pc \notin {"idle", "exited", "next"}
  BY DEF InHandle
<1>3. CASE \E v \in Versions, S \in SUBSET Sources : StartRun(r, v, S)
  BY <1>1, <1>2, <1>3 DEF StartRun, IdleJob
<1>4. CASE Crash(r)
  BY <1>1, <1>2, <1>4 DEF Crash, IdleJob
<1>5. CASE \E s \in Sources : LoadFails(r, s)
  BY <1>2, <1>5, LoadFailsJob
<1>6. CASE \E c \in Chunks : WriteBm25(r, c)
  BY <1>1, <1>6 DEF WriteBm25, Job
<1>7. CASE \E c \in Chunks : DeleteBm25(r, c)
  BY <1>1, <1>7 DEF DeleteBm25, Job
<1>8. CASE PutFact(r)
  BY <1>1, <1>8 DEF PutFact, Job
<1>9. CASE FindOrphans(r)
  BY <1>1, <1>9 DEF FindOrphans, Job
<1>10. CASE \E status : EndSource(r, status)
  BY <1>2, <1>10, EndSourceJob
<1>11. CASE UpsertVectors(r) \/ SoftDeleteOrphans(r) \/ FinishRun(r)
  BY <1>2, <1>11, GotoJob DEF UpsertVectors, ChunksDone, SoftDeleteOrphans, FinishRun
<1>12. CASE RunSmoke(r) \/ RecordHistory(r) \/ FlipPointer(r)
  BY <1>10, <1>12, GotoJob DEF RunSmoke, RecordHistory, FlipPointer
<1>13. CASE UpsertVectorsFails(r) \/ GcOldVersions(r) \/ IngestError(r)
  BY <1>10, <1>13 DEF UpsertVectorsFails, GcOldVersions, IngestError
<1>14. QED
  BY <1>3, <1>4, <1>5, <1>6, <1>7, <1>8, <1>9, <1>11, <1>12, <1>13
  DEF RunStep, RunnerStep, Failure

\* Only FindOrphans adds an orphan.
LEMMA OrphansShrink ==
  ASSUME TypeOK, NEW r \in Runners, RunStep(r), ~FindOrphans(r)
  PROVE  job'[r].orphans \subseteq job[r].orphans
<1>1. job \in [Runners -> Job]
  BY DEF TypeOK, JobsOK
<1>2. CASE \E v \in Versions, S \in SUBSET Sources : StartRun(r, v, S)
  BY <1>1, <1>2 DEF StartRun, IdleJob
<1>3. CASE Crash(r)
  BY <1>1, <1>3 DEF Crash, IdleJob
<1>4. CASE \E s \in Sources : LoadFails(r, s)
  BY <1>4, LoadFailsJob
<1>5. CASE \E s \in Sources : \E d \in Docs[s] : LoadDoc(r, s, d)
  BY <1>1, <1>5 DEF LoadDoc, Job
<1>6. CASE \E c \in Chunks : WriteBm25(r, c)
  BY <1>1, <1>6 DEF WriteBm25, Job
<1>7. CASE \E c \in Chunks : DeleteBm25(r, c)
  BY <1>1, <1>7 DEF DeleteBm25, Job
<1>8. CASE PutFact(r)
  BY <1>1, <1>8 DEF PutFact, Job
<1>9. CASE \E status : EndSource(r, status)
  BY <1>9, EndSourceJob
<1>10. CASE UpsertVectors(r) \/ SoftDeleteOrphans(r) \/ FinishRun(r) \/ RunSmoke(r)
              \/ RecordHistory(r) \/ FlipPointer(r)
  BY <1>9, <1>10, GotoJob
  DEF UpsertVectors, SoftDeleteOrphans, FinishRun, RunSmoke, RecordHistory, FlipPointer
<1>11. CASE UpsertVectorsFails(r) \/ GcOldVersions(r) \/ IngestError(r)
  BY <1>9, <1>11 DEF UpsertVectorsFails, GcOldVersions, IngestError
<1>12. QED
  BY <1>2, <1>3, <1>4, <1>5, <1>6, <1>7, <1>8, <1>10, <1>11 DEF RunStep, RunnerStep, Failure

LEMMA StartUses ==
  ASSUME TypeOK, NEW r \in Runners, NEW v \in Versions, NEW S, StartRun(r, v, S)
  PROVE  /\ started'[v] # 0 /\ started' # started
         /\ \A u \in Versions : u # v => started'[u] = started[u]
<1>1. started \in [Versions -> Nat] /\ started' = [started EXCEPT ![v] = started[v] + 1]
  BY DEF TypeOK, StartRun
<1>2. started[v] + 1 # 0 /\ started[v] + 1 # started[v]
  BY <1>1
<1>3. QED
  BY <1>1, <1>2

-----------------------------------------------------------------------------
(* The steps of a process *)

\* No step touches the rows of a recorded version.
LEMMA HistoryFrozen ==
  ASSUME FreshRuns, TypeOK, SwapInv, NEW r \in Runners, RunStep(r),
         NEW v \in Range(history)
  PROVE  v \in Versions /\ rows'[v] = rows[v]
<1>1. v \in Versions
  BY DEF TypeOK, Range
<1>2. ~ (ChunksDone(r) /\ v = job[r].version)
  BY DEF ChunksDone, SwapInv, PublishedIsDone, Running
<1>3. QED
  BY <1>1, <1>2, FreshFrame DEF SwapInv, RowsAreDone

LEMMA UnstartedStep ==
  ASSUME FreshRuns, TypeOK, SwapInv, NEW r \in Runners, RunStep(r)
  PROVE  Unstarted'
<1> SUFFICES ASSUME NEW v \in Versions, started'[v] = 0
             PROVE  /\ \A c \in Chunks : rows'[v][c] = "none"
                    /\ v \notin Range(history')
                    /\ \A q \in Runners : Running(q)' => job'[q].version # v
  BY DEF Unstarted
<1>1. started[v] = 0 /\ ~ \E S \in SUBSET Sources : StartRun(r, v, S)
  BY StartedFrame, StartUses
<1>2. /\ \A c \in Chunks : rows[v][c] = "none"
      /\ v \notin Range(history)
      /\ \A q \in Runners : Running(q) => job[q].version # v
  BY <1>1 DEF SwapInv, Unstarted
<1>3. \A c \in Chunks : rows'[v][c] = "none"
  <2>1. ~ (ChunksDone(r) /\ v = job[r].version)
    BY <1>2 DEF ChunksDone, Running
  <2>2. QED
    BY <1>2, <2>1, FreshFrame DEF SwapInv, RowsAreDone
<1>4. v \notin Range(history')
  BY <1>2, HistoryGrows DEF RecordHistory, Running
<1>5. ASSUME NEW q \in Runners, Running(q)' PROVE job'[q].version # v
  <2>1. CASE q # r
    BY <1>2, <1>5, <2>1, JobFrame DEF Running
  <2>2. CASE q = r /\ \E u \in Versions, S \in SUBSET Sources : StartRun(r, u, S)
    <3>1. PICK u \in Versions, S \in SUBSET Sources : StartRun(r, u, S)
      BY <2>2
    <3>2. u # v /\ job'[r].version = u
      BY <1>1, <3>1 DEF StartRun, IdleJob, TypeOK, JobsOK
    <3>3. QED
      BY <2>2, <3>2
  <2>3. CASE q = r /\ ~ \E u \in Versions, S \in SUBSET Sources : StartRun(r, u, S)
    BY <1>2, <1>5, <2>3, RunKeeps
  <2>4. QED
    BY <2>1, <2>2, <2>3
<1>6. QED
  BY <1>3, <1>4, <1>5

LEMMA DistinctStep ==
  ASSUME FreshRuns, TypeOK, SwapInv, NEW r \in Runners, RunStep(r)
  PROVE  DistinctVersions'
<1>1. ASSUME NEW q \in Runners, q # r, Running(q)', Running(r)'
      PROVE  job'[q].version # job'[r].version
  <2>1. Running(q) /\ job'[q].version = job[q].version
    BY <1>1, JobFrame DEF Running
  <2>2. CASE \E v \in Versions, S \in SUBSET Sources : StartRun(r, v, S)
    <3>1. PICK v \in Versions, S \in SUBSET Sources : StartRun(r, v, S)
      BY <2>2
    <3>2. job'[r].version = v
      BY <3>1 DEF StartRun, TypeOK, JobsOK, IdleJob
    <3>3. started[v] = 0
      <4>1. started[v] \in Nat /\ started[v] < 1
        BY <3>1 DEF StartRun, FreshRuns, TypeOK
      <4>2. QED
        BY <4>1
    <3>4. QED
      BY <2>1, <3>2, <3>3 DEF SwapInv, Unstarted
  <2>3. CASE ~ \E v \in Versions, S \in SUBSET Sources : StartRun(r, v, S)
    BY <1>1, <2>1, <2>3, RunKeeps DEF SwapInv, DistinctVersions
  <2>4. QED
    BY <2>2, <2>3
<1>2. ASSUME NEW p \in Runners, NEW q \in Runners, p # r, q # r,
             Running(p)', Running(q)', job'[p].version = job'[q].version
      PROVE  p = q
  BY <1>2, JobFrame DEF Running, SwapInv, DistinctVersions
<1>3. QED
  BY <1>1, <1>2 DEF DistinctVersions

LEMMA HistoryVettedStep ==
  ASSUME FreshRuns, TypeOK, SwapInv, NEW r \in Runners, RunStep(r)
  PROVE  HistoryVetted'
<1> SUFFICES ASSUME NEW v \in Range(history') PROVE VettedVersion(v)'
  BY DEF HistoryVetted
<1>1. CASE v \in Range(history)
  <2>1. v \in Versions /\ rows'[v] = rows[v]
    BY <1>1, HistoryFrozen
  <2>2. QED
    BY <1>1, <2>1, VettedFrame DEF SwapInv, HistoryVetted
<1>2. CASE v \notin Range(history)
  <2>1. RecordHistory(r) /\ v = job[r].version
    BY <1>2, HistoryGrows
  <2>2. v \in Versions /\ VettedVersion(v) /\ rows' = rows
    BY <2>1 DEF RecordHistory, TypeOK, JobsOK, JobOK, SwapInv, SwapIsVetted
  <2>3. QED
    BY <2>2, VettedFrame
<1>3. QED
  BY <1>1, <1>2

\* What the other processes rely on is not disturbed.
LEMMA OthersStep ==
  ASSUME FreshRuns, TypeOK, SwapInv, NEW r \in Runners, RunStep(r),
         NEW q \in Runners, q # r
  PROVE  (DocOfSource(q) /\ RowsAreDone(q) /\ PublishedIsDone(q) /\ SwapIsVetted(q))'
<1>1. job'[q] = job[q]
  BY JobFrame
<1>2. Running(q) => job[q].version \in Versions /\ rows'[job[q].version] = rows[job[q].version]
  <2> SUFFICES ASSUME Running(q)
               PROVE  job[q].version \in Versions
                        /\ rows'[job[q].version] = rows[job[q].version]
    OBVIOUS
  <2>1. job[q].version \in Versions
    BY DEF TypeOK, JobsOK, JobOK, Running
  <2>2. ~ (ChunksDone(r) /\ job[q].version = job[r].version)
    BY DEF ChunksDone, SwapInv, DistinctVersions, Running
  <2>3. QED
    BY <2>1, <2>2, FreshFrame DEF SwapInv, RowsAreDone
<1>3. DocOfSource(q)'
  BY <1>1 DEF SwapInv, DocOfSource
<1>4. RowsAreDone(q)'
  BY <1>1, <1>2 DEF SwapInv, RowsAreDone, Running
<1>5. PublishedIsDone(q)'
  <2>1. Running(q) /\ job[q].version \in Range(history') => job[q].version \in Range(history)
    BY HistoryGrows DEF RecordHistory, SwapInv, DistinctVersions, Running
  <2>2. QED
    BY <1>1, <2>1 DEF SwapInv, PublishedIsDone, Running
<1>6. SwapIsVetted(q)'
  <2>1. job[q].pc \in {"history", "pointer", "gc"} =>
          job[q].version \in Versions /\ rows'[job[q].version] = rows[job[q].version]
    BY <1>2 DEF Running
  <2>2. QED
    BY <1>1, <2>1, VettedFrame DEF SwapInv, SwapIsVetted
<1>7. QED
  BY <1>3, <1>4, <1>5, <1>6

LEMMA DocOfSourceStep ==
  ASSUME TypeOK, SwapInv, NEW r \in Runners, RunStep(r)
  PROVE  DocOfSource(r)'
<1> SUFFICES ASSUME job'[r].pc \in InHandle
             PROVE  /\ job'[r].source \notin job'[r].todo
                    /\ \A c \in job'[r].doc : SourceOf[c] = job'[r].source
  BY DEF DocOfSource
<1>1. CASE \E s \in Sources : \E d \in Docs[s] : LoadDoc(r, s, d)
  <2>0. PICK s \in Sources : \E d \in Docs[s] : LoadDoc(r, s, d)
    BY <1>1
  <2>1. PICK d \in Docs[s] : LoadDoc(r, s, d)
    BY <2>0
  <2>2. /\ job'[r].source = s /\ job'[r].doc = d
        /\ job'[r].todo = job[r].todo \ {s}
    BY <2>1 DEF LoadDoc, TypeOK, JobsOK, Job
  <2>3. QED
    BY <2>2, IngestionAssumption
<1>2. CASE ~ \E s \in Sources : \E d \in Docs[s] : LoadDoc(r, s, d)
  <2>1. job[r].pc \in InHandle
    BY <1>2, HandleKeeps DEF InHandle
  <2>2. QED
    BY <1>2, <2>1, HandleKeeps DEF SwapInv, DocOfSource
<1>3. QED
  BY <1>1, <1>2

LEMMA NoOrphansStep ==
  ASSUME TypeOK, SwapInv, NEW r \in Runners, RunStep(r)
  PROVE  job'[r].orphans = {}
<1>1. CASE FindOrphans(r)
  <2>1. /\ job[r].pc = "orphans"
        /\ job'[r].orphans = ChunkIdsForSource(rows, job[r].source, job[r].version) \ job[r].doc
    BY <1>1 DEF FindOrphans, TypeOK, JobsOK, Job
  <2>2. ChunkIdsForSource(rows, job[r].source, job[r].version) \subseteq job[r].doc
    BY <2>1 DEF ChunkIdsForSource, ServedChunks, SwapInv, RowsAreDone, Running
  <2>3. QED
    BY <2>1, <2>2
<1>2. CASE ~FindOrphans(r)
  BY <1>2, OrphansShrink DEF SwapInv, RowsAreDone
<1>3. QED
  BY <1>1, <1>2

\* A process done with its chunk loop leaves it by its next step.
LEMMA ChunksDoneLeaves ==
  ASSUME TypeOK, NEW r \in Runners, RunStep(r), ChunksDone(r)
  PROVE  job'[r].pc # "chunks"
BY IntoChunks DEF ChunksDone, LoadDoc, WriteBm25, PutFact

LEMMA RowsAreDoneStep ==
  ASSUME FreshRuns, TypeOK, SwapInv, NEW r \in Runners, RunStep(r)
  PROVE  RowsAreDone(r)'
<1> SUFFICES ASSUME Running(r)', NEW c \in Chunks, rows'[job'[r].version][c] # "none"
             PROVE  /\ SourceOf[c] \notin job'[r].todo
                    /\ job'[r].pc = "chunks" => SourceOf[c] # job'[r].source
                    /\ job'[r].pc = "orphans" /\ SourceOf[c] = job'[r].source
                         => c \in job'[r].doc
  BY NoOrphansStep DEF RowsAreDone
<1>1. ~ \E v \in Versions, S \in SUBSET Sources : StartRun(r, v, S)
  <2> SUFFICES ASSUME NEW v \in Versions, NEW S \in SUBSET Sources, StartRun(r, v, S)
               PROVE  FALSE
    OBVIOUS
  <2>1. job'[r].version = v /\ rows' = rows
    BY DEF StartRun, TypeOK, JobsOK, IdleJob
  <2>2. started[v] \in Nat /\ started[v] < 1
    BY DEF StartRun, FreshRuns, TypeOK
  <2>3. started[v] = 0
    BY <2>2
  <2>4. QED
    BY <2>1, <2>3 DEF SwapInv, Unstarted
<1>2. /\ Running(r) /\ job[r].version \in Versions
      /\ job'[r].version = job[r].version /\ job'[r].todo \subseteq job[r].todo
  BY <1>1, RunKeeps DEF TypeOK, JobsOK, JobOK, Running
<1>3. rows[job[r].version][c] # "none" =>
        /\ SourceOf[c] \notin job[r].todo
        /\ job[r].pc = "chunks" => SourceOf[c] # job[r].source
  BY <1>2 DEF SwapInv, RowsAreDone
<1>4. CASE ChunksDone(r)
  <2>1. job[r].pc = "chunks" /\ job'[r].pc # "chunks"
    BY <1>4, ChunksDoneLeaves DEF ChunksDone
  <2>2. rows[job[r].version][c] # "none" \/ c \in job[r].doc
    BY <1>2, RowsGrow
  <2>3. c \in job[r].doc => SourceOf[c] = job[r].source /\ job[r].source \notin job[r].todo
    BY <2>1 DEF SwapInv, DocOfSource, InHandle
  <2>4. job'[r].pc = "orphans" => job'[r].source = job[r].source /\ job'[r].doc = job[r].doc
    BY IntoSwap, GotoJob DEF UpsertVectors
  <2>5. QED
    BY <1>2, <1>3, <2>1, <2>2, <2>3, <2>4
<1>5. CASE ~ChunksDone(r)
  <2>1. rows[job[r].version][c] # "none"
    BY <1>2, <1>5, FreshFrame DEF SwapInv, RowsAreDone
  <2>2. job'[r].pc # "orphans"
    BY <1>5, IntoSwap DEF UpsertVectors
  <2>3. job'[r].pc = "chunks" => SourceOf[c] # job'[r].source
    <3>1. CASE \E s \in Sources : \E d \in Docs[s] : LoadDoc(r, s, d)
      <4>1. PICK s \in Sources : \E d \in Docs[s] : LoadDoc(r, s, d)
        BY <3>1
      <4>2. s \in job[r].todo /\ job'[r].source = s
        BY <4>1 DEF LoadDoc, TypeOK, JobsOK, Job
      <4>3. QED
        BY <1>3, <2>1, <4>2
    <3>2. CASE ~ \E s \in Sources : \E d \in Docs[s] : LoadDoc(r, s, d)
      <4> SUFFICES ASSUME job'[r].pc = "chunks" PROVE SourceOf[c] # job'[r].source
        OBVIOUS
      <4>1. job[r].pc = "chunks" /\ job'[r].source = job[r].source
        BY <3>2, HandleKeeps DEF InHandle
      <4>2. QED
        BY <1>3, <2>1, <4>1
    <3>3. QED
      BY <3>1, <3>2
  <2>4. QED
    BY <1>2, <1>3, <2>1, <2>2, <2>3
<1>6. QED
  BY <1>4, <1>5

LEMMA PublishedIsDoneStep ==
  ASSUME FreshRuns, TypeOK, SwapInv, NEW r \in Runners, RunStep(r)
  PROVE  PublishedIsDone(r)'
<1> SUFFICES ASSUME Running(r)', job'[r].version \in Range(history')
             PROVE  job'[r].todo = {} /\ job'[r].pc \in {"next", "history", "pointer", "gc"}
  BY DEF PublishedIsDone
<1>1. ~ \E v \in Versions, S \in SUBSET Sources : StartRun(r, v, S)
  <2> SUFFICES ASSUME NEW v \in Versions, NEW S \in SUBSET Sources, StartRun(r, v, S)
               PROVE  FALSE
    OBVIOUS
  <2>1. job'[r].version = v /\ history' = history
    BY DEF StartRun, TypeOK, JobsOK, IdleJob
  <2>2. started[v] \in Nat /\ started[v] < 1
    BY DEF StartRun, FreshRuns, TypeOK
  <2>3. started[v] = 0
    BY <2>2
  <2>4. QED
    BY <2>1, <2>3 DEF SwapInv, Unstarted
<1>2. /\ Running(r) /\ job'[r].version = job[r].version
      /\ job'[r].todo \subseteq job[r].todo
  BY <1>1, RunKeeps
<1>3. CASE RecordHistory(r)
  BY <1>2, <1>3, GotoJob DEF RecordHistory, SwapInv, SwapIsVetted
<1>4. CASE ~RecordHistory(r)
  <2>1. job[r].version \in Range(history)
    BY <1>2, <1>4, HistoryGrows
  <2>2. job[r].todo = {} /\ job[r].pc \in {"next", "history", "pointer", "gc"}
    BY <1>2, <2>1 DEF SwapInv, PublishedIsDone
  <2>3. ~ \E s \in Sources : \E d \in Docs[s] : LoadDoc(r, s, d)
    BY <2>2 DEF LoadDoc
  <2>4. job'[r].pc \in InHandle \cup {"next"}
    <3>1. job'[r] \in Job
      BY NextType DEF TypeOK, JobsOK, Next, RunStep
    <3>2. QED
      BY <3>1 DEF Job, Running
  <2>5. job'[r].pc \in InHandle => job'[r].pc \in {"pointer", "gc"}
    BY <2>2, <2>3, HandleKeeps
  <2>6. QED
    BY <1>2, <2>2, <2>4, <2>5
<1>5. QED
  BY <1>3, <1>4

LEMMA SwapIsVettedStep ==
  ASSUME FreshRuns, TypeOK, SwapInv, NEW r \in Runners, RunStep(r)
  PROVE  SwapIsVetted(r)'
<1> SUFFICES ASSUME job'[r].pc \in {"history", "pointer", "gc"}
             PROVE  job'[r].todo = {} /\ VettedVersion(job[r].version)'
  BY DEF SwapIsVetted
<1>1. CASE RunSmoke(r) /\ SmokePasses(job[r].version) /\ job'[r].pc = "history"
  <2>1. /\ rows' = rows /\ job[r].version \in Versions /\ Running(r)
        /\ job'[r].version = job[r].version /\ job'[r].todo = job[r].todo
        /\ job[r].todo \subseteq Sources
    BY <1>1, GotoJob, EndSourceJob DEF RunSmoke, TypeOK, JobsOK, JobOK, Job, Running
  <2>2. VettedVersion(job[r].version)
    BY <1>1 DEF SmokePasses, VettedVersion
  <2>3. job[r].todo = {}
    <3> SUFFICES ASSUME NEW s \in job[r].todo PROVE FALSE
      OBVIOUS
    <3>1. s \in DistinctSourceIds(rows, job[r].version)
      BY <2>1, <2>2 DEF VettedVersion, FreshRuns
    <3>2. PICK c \in Chunks : rows[job[r].version][c] = "live" /\ SourceOf[c] = s
      BY <3>1 DEF DistinctSourceIds, ServedChunks
    <3>3. QED
      BY <2>1, <3>2 DEF SwapInv, RowsAreDone
  <2>4. QED
    BY <2>1, <2>2, <2>3, VettedFrame
<1>2. CASE RecordHistory(r) \/ FlipPointer(r)
  <2>1. /\ rows' = rows /\ job[r].version \in Versions
        /\ job'[r].version = job[r].version /\ job'[r].todo = job[r].todo
        /\ job[r].pc \in {"history", "pointer", "gc"}
    BY <1>2, GotoJob DEF RecordHistory, FlipPointer, TypeOK, JobsOK, JobOK
  <2>2. QED
    BY <2>1, VettedFrame DEF SwapInv, SwapIsVetted
<1>3. QED
  BY <1>1, <1>2, IntoSwap

-----------------------------------------------------------------------------
(* The theorems *)

LEMMA SwapInvStep ==
  ASSUME FreshRuns
  PROVE  TypeOK /\ SwapInv /\ [Next]_vars => SwapInv'
<1> SUFFICES ASSUME TypeOK, SwapInv, [Next]_vars PROVE SwapInv'
  OBVIOUS
<1>1. HistoryInv'
  BY HistoryStep DEF SwapInv
<1>2. CASE UNCHANGED vars
  BY <1>1, <1>2
  DEF vars, SwapInv, Unstarted, DistinctVersions, HistoryVetted, DocOfSource, RowsAreDone,
      PublishedIsDone, SwapIsVetted, VettedVersion, Running
<1>3. CASE Purge
  <2>1. UNCHANGED <<history, job, started>>
    BY <1>3, PurgeFrame
  <2>2. ASSUME NEW v \in Versions, NEW c \in Chunks
        PROVE  /\ rows'[v][c] # "none" => rows[v][c] # "none"
               /\ rows'[v][c] = "live" <=> rows[v][c] = "live"
    BY <1>3, PurgeFrame
  <2>3. \A v \in Versions : VettedVersion(v)' <=> VettedVersion(v)
    BY <2>2, VettedFrame
  <2>4. Range(history) \subseteq Versions
    BY DEF TypeOK, Range
  <2>5. \A r \in Runners : Running(r) => job[r].version \in Versions
    BY DEF TypeOK, JobsOK, JobOK, Running
  <2>6. Unstarted' /\ DistinctVersions'
    BY <2>1, <2>2 DEF SwapInv, Unstarted, DistinctVersions, Running
  <2>7. HistoryVetted'
    BY <2>1, <2>3, <2>4 DEF SwapInv, HistoryVetted
  <2>8. ASSUME NEW r \in Runners
        PROVE  (DocOfSource(r) /\ RowsAreDone(r) /\ PublishedIsDone(r) /\ SwapIsVetted(r))'
    <3>1. DocOfSource(r)' /\ PublishedIsDone(r)'
      BY <2>1 DEF SwapInv, DocOfSource, PublishedIsDone, Running
    <3>2. RowsAreDone(r)'
      BY <2>1, <2>2, <2>5 DEF SwapInv, RowsAreDone, Running
    <3>3. SwapIsVetted(r)'
      BY <2>1, <2>3, <2>5 DEF SwapInv, SwapIsVetted, Running
    <3>4. QED
      BY <3>1, <3>2, <3>3
  <2>9. QED
    BY <1>1, <2>6, <2>7, <2>8 DEF SwapInv
<1>4. ASSUME NEW r \in Runners, RunStep(r) PROVE SwapInv'
  <2>1. ASSUME NEW q \in Runners
        PROVE  (DocOfSource(q) /\ RowsAreDone(q) /\ PublishedIsDone(q) /\ SwapIsVetted(q))'
    BY <1>4, OthersStep, DocOfSourceStep, RowsAreDoneStep, PublishedIsDoneStep, SwapIsVettedStep
  <2>2. QED
    BY <1>1, <1>4, <2>1, UnstartedStep, DistinctStep, HistoryVettedStep DEF SwapInv
<1>5. QED
  BY <1>2, <1>3, <1>4, StepCases

\* What the stores of a recorded version serve is not changed by any step.
LEMMA FrozenStep ==
  ASSUME FreshRuns, TypeOK, SwapInv, [Next]_vars, NEW v \in Range(history)
  PROVE  ServedChunks(rows', v) = ServedChunks(rows, v)
<1>1. v \in Versions
  BY DEF TypeOK, Range
<1>2. CASE UNCHANGED vars
  BY <1>2 DEF vars
<1>3. CASE Purge
  BY <1>1, <1>3, PurgeFrame, VettedFrame
<1>4. ASSUME NEW r \in Runners, RunStep(r)
      PROVE  ServedChunks(rows', v) = ServedChunks(rows, v)
  <2>1. rows'[v] = rows[v]
    BY <1>4, HistoryFrozen
  <2>2. QED
    BY <2>1 DEF ServedChunks
<1>5. QED
  BY <1>2, <1>3, <1>4, StepCases

\* A published version never changes again: a query that pinned it, or a
\* rollback to it, finds the rows it was vetted with, while other runs, crashed
\* runs and the purge go on.
THEOREM PublishedVersionsFrozenCorrect ==
  ASSUME FreshRuns
  PROVE  Spec => PublishedVersionsFrozen
<1>1. TypeOK /\ SwapInv /\ [Next]_vars =>
        \A v \in Range(history) : ServedChunks(rows', v) = ServedChunks(rows, v)
  BY FrozenStep
<1>2. QED
  BY <1>1, SwapInit, SwapInvStep, TypeCorrect, PTL DEF Spec, PublishedVersionsFrozen

\* The served version always holds its minimum of chunks and every required
\* source.
THEOREM LiveVersionVettedCorrect ==
  ASSUME FreshRuns
  PROVE  Spec => []LiveVersionVetted
<1>1. SwapInv => LiveVersionVetted
  BY DEF SwapInv, HistoryInv, LiveInHistory, HistoryVetted, VettedVersion, LiveVersionVetted
<1>2. QED
  BY <1>1, SwapInit, SwapInvStep, TypeCorrect, PTL DEF Spec

LEMMA SwapRefinementStep ==
  ASSUME FreshRuns, TypeOK, SwapInv, [Next]_vars
  PROVE  [Swap!SwapNext]_(Swap!swapVars)
<1> DEFINE served == IF live = None THEN {} ELSE ServedChunks(rows, live)
<1>1. CASE live' = live
  <2>1. live # None => ServedChunks(rows', live) = ServedChunks(rows, live)
    BY FrozenStep DEF SwapInv, HistoryInv, LiveInHistory
  <2>2. QED
    BY <1>1, <2>1 DEF Swap!swapVars
<1>2. CASE \E r \in Runners : FlipPointer(r)
  <2>1. PICK r \in Runners : FlipPointer(r)
    BY <1>2
  <2>2. /\ live' = job[r].version /\ rows' = rows
        /\ job[r].version \in Versions /\ VettedVersion(job[r].version)
    BY <2>1 DEF FlipPointer, TypeOK, JobsOK, JobOK, SwapInv, SwapIsVetted
  <2>3. job[r].version # None
    BY <2>2, IngestionAssumption
  <2>4. served' = ServedChunks(rows, job[r].version)
    BY <2>2, <2>3
  <2>5. Swap!Vetted(ServedChunks(rows, job[r].version))
    <3>1. \A S : Swap!Cardinality(S) = Cardinality(S)
      BY DEF Swap!Cardinality, Cardinality
    <3>2. QED
      BY <2>2, <3>1 DEF Swap!Vetted, VettedVersion, Count, DistinctSourceIds
  <2>6. Swap!Publish(job[r].version, ServedChunks(rows, job[r].version))
    BY <2>2, <2>4, <2>5 DEF Swap!Publish
  <2>7. ServedChunks(rows, job[r].version) \in SUBSET Chunks
    BY DEF ServedChunks
  <2>8. QED
    BY <2>2, <2>6, <2>7 DEF Swap!SwapNext
<1>3. QED
  <2>1. CASE UNCHANGED vars \/ Purge
    BY <1>1, <2>1, PurgeFrame DEF vars
  <2>2. QED
    BY <1>1, <1>2, <2>1, LiveFrame, StepCases

\* The ingestion implements the shadow rebuild: readers are only ever served
\* the empty corpus or a whole vetted one, replaced in a single step.
THEOREM ImplementsCorpusSwapCorrect ==
  ASSUME FreshRuns
  PROVE  Spec => ImplementsCorpusSwap
<1>1. Init => Swap!SwapInit
  BY DEF Init, Swap!SwapInit
<1>2. TypeOK /\ SwapInv /\ [Next]_vars => [Swap!SwapNext]_(Swap!swapVars)
  BY SwapRefinementStep
<1>3. QED
  BY <1>1, <1>2, SwapInit, SwapInvStep, TypeCorrect, PTL
  DEF Spec, ImplementsCorpusSwap, Swap!SwapSpec

-----------------------------------------------------------------------------
(* Overlapping runs with fresh run ids *)

\* With fresh run ids no orphan is found, so no BM25 document is taken away and
\* the stores agree even if runs overlap.
LEMMA OverlapStep ==
  ASSUME FreshRuns, TypeOK, SwapInv, NEW r \in Runners, RunStep(r),
         DenseInSparse, \A q \in Runners : SparseWritten(q)
  PROVE  DenseInSparse' /\ \A q \in Runners : SparseWritten(q)'
<1>1. \A c \in Chunks : bm25[c] # None => bm25'[c] # None
  BY Bm25Frame DEF SwapInv, RowsAreDone
<1>2. ASSUME NEW q \in Runners, q # r PROVE SparseWritten(q)'
  <2>1. job'[q] = job[q] /\ job[q].doc \subseteq Chunks
    BY <1>2, JobFrame DEF TypeOK, JobsOK, Job
  <2>2. QED
    BY <1>1, <2>1 DEF SparseWritten
<1>3. DenseInSparse'
  <2> SUFFICES ASSUME NEW v \in Versions, NEW c \in Chunks, rows'[v][c] = "live"
               PROVE  bm25'[c] # None
    BY DEF DenseInSparse
  <2>1. CASE ChunksDone(r) /\ c \in job[r].doc
    BY <1>1, <2>1 DEF ChunksDone, SparseWritten
  <2>2. CASE rows[v][c] = "live"
    BY <1>1, <2>2 DEF DenseInSparse
  <2>3. QED
    BY <2>1, <2>2, RowsGrow
<1>4. QED
  BY <1>2, <1>3, SparseWrittenStep

\* What dense search can return, sparse search can reach, without the
\* concurrency group too when run ids are never re-used.
THEOREM OverlapDenseInSparse ==
  ASSUME FreshRuns
  PROVE  Spec => []DenseInSparse
<1> DEFINE Inv == DenseInSparse /\ \A q \in Runners : SparseWritten(q)
<1>1. Init => Inv
  BY SparseInit DEF SparseInv
<1>2. TypeOK /\ SwapInv /\ Inv /\ [Next]_vars => Inv'
  <2> SUFFICES ASSUME TypeOK, SwapInv, Inv, [Next]_vars PROVE Inv'
    OBVIOUS
  <2>1. CASE UNCHANGED vars
    BY <2>1 DEF vars, DenseInSparse, SparseWritten
  <2>2. CASE Purge
    BY <2>2, PurgeFrame DEF DenseInSparse, SparseWritten
  <2>3. QED
    BY <2>1, <2>2, OverlapStep, StepCases
<1>3. QED
  BY <1>1, <1>2, SwapInit, SwapInvStep, TypeCorrect, PTL DEF Spec

=============================================================================
