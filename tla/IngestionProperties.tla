------------------------ MODULE IngestionProperties ------------------------
(***************************************************************************)
(* What the ingestion run must guarantee to readers, to operators and to   *)
(* the next run, stated over module Ingestion.                             *)
(***************************************************************************)
EXTENDS Ingestion

-----------------------------------------------------------------------------
(* Agreement of the three stores *)

\* A row that dense search can return, in any corpus version, has a BM25
\* document, so sparse search can reach it as well.  The BM25 table is not
\* versioned: this needs BM25 written before the vector rows, the soft delete
\* before the BM25 delete, and a soft delete that spans every version.
DenseInSparse ==
  \A v \in Versions, c \in Chunks : rows[v][c] = "live" => bm25[c] # None

\* A fact chunk that has a row, served or soft-deleted, has its fact_kv entry:
\* an exact lookup never misses a fact that retrieval can cite.
FactRowsBacked ==
  \A v \in Versions, c \in Facts : rows[v][c] # "none" => factKV[c] # None

\* When `upsert` has returned (the smoke test and the swap are still to come)
\* the version serves exactly the document's chunks for that source, whatever
\* earlier runs, crashes and partial writes under the same run_id left behind.
UpsertConverges ==
  \A r \in Runners :
    (job[r].pc = "bm25delete" /\ job[r].orphans = {})
      \/ job[r].pc \in {"history", "pointer", "gc"}
    => ChunkIdsForSource(rows, job[r].source, job[r].version) = job[r].doc

-----------------------------------------------------------------------------
(* The live pointer *)

\* The served version always has its minimum of chunks and a chunk of every
\* required source: no later run, failed run, retry or purge degrades it.
LiveVersionVetted ==
  live # None =>
    /\ Count(rows, live) >= MinChunks
    /\ RequiredSources \subseteq DistinctSourceIds(rows, live)

\* A version that was recorded in corpus_history never changes again: a query
\* that pinned it, or a rollback to it, finds the rows it was vetted with.  This is
\* a promise between distinct run ids: a run id used again edits its own version.
PublishedVersionsFrozen ==
  [][\A v \in Range(history) : ServedChunks(rows', v) = ServedChunks(rows, v)]_vars

\* The pointer only names a recorded version, whatever dies in between.
LiveInHistory == live # None => live \in Range(history)

\* The gc callback is never told to drop the version being served.
GcKeepsLive == \A r \in Runners : job[r].pc = "gc" => live \notin ToDrop

\* A run that took up a source may only exit with code 0 when the version it
\* built is the one being served: no smoke failure, exception or half-done swap is
\* reported as success.  A run whose report leaves it no source is outside: it exits
\* with code 0 too, and nothing was swapped (README, section 4).
SuccessIsServed ==
  [][\A r \in Runners :
       /\ job[r].pc = "next"
       /\ job'[r].pc = "exited"
       /\ ExitCode(r) = 0
       /\ \E s \in Sources : job[r].results[s] # "none"
       => live = job[r].version]_vars

\* The ingestion implements the shadow rebuild: what readers are served only
\* changes when the pointer moves to a vetted version.
Swap == INSTANCE CorpusSwap WITH
          served <- IF live = None THEN {} ELSE ServedChunks(rows, live)

ImplementsCorpusSwap == Swap!SwapSpec

-----------------------------------------------------------------------------
(* Progress, under FairSpec *)

\* Every run ends, whatever the smoke test says and whichever call raises: the
\* loop never waits on a source, a store or another run.
RunEnds == \A r \in Runners : Running(r) ~> ~Running(r)

\* A run over every registered source that meets no fault puts its version
\* live, although the smoke test blocks the swap after each source but the last.
CompleteRunPublishes ==
  \A v \in Versions :
    (\E r \in Runners : /\ job[r].pc = "next"
                        /\ job[r].version = v
                        /\ job[r].todo = Sources) ~> (live = v \/ faults > 0)
=============================================================================
