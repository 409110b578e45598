---------------------------- MODULE VectorIndex ----------------------------
(***************************************************************************)
(* The vector store behind the VectorIndex protocol, as operators on its   *)
(* contents.  A chunk_id is rendered from its source, so one chunk belongs *)
(* to one source (SourceOf).  Texts and embeddings are abstracted away: a  *)
(* row is absent, served, or soft-deleted.  Two backends are wired by the  *)
(* composition roots and differ only in the key of a row:                  *)
(*   "pgvector"  PRIMARY KEY (corpus_version, chunk_id)                    *)
(*   "chroma"    the document id is the chunk_id alone                     *)
(***************************************************************************)
EXTENDS Naturals, FiniteSets

CONSTANTS
  Versions,   \* corpus_version values, one per run_id
  Sources,    \* registered source ids
  Chunks,     \* chunk ids
  SourceOf,   \* the source each chunk id names
  Backend     \* "pgvector" or "chroma"

ASSUME VectorIndexAssumption ==
  /\ SourceOf \in [Chunks -> Sources]
  /\ Backend \in {"pgvector", "chroma"}

RowState == {"none", "live", "deleted"}

Index == [Versions -> [Chunks -> RowState]]

EmptyIndex == [v \in Versions |-> [c \in Chunks |-> "none"]]

-----------------------------------------------------------------------------
(* Writes *)

\* INSERT ... ON CONFLICT (corpus_version, chunk_id) DO UPDATE, deleted_at = NULL.
PgUpsert(rows, v, cs) ==
  [rows EXCEPT ![v] = [c \in Chunks |-> IF c \in cs THEN "live" ELSE @[c]]]

\* A bug: collection.add, which leaves a document that exists as it is.
ChromaAdd(rows, v, cs) ==
  [u \in Versions |-> [c \in Chunks |->
     IF u = v /\ c \in cs /\ \A w \in Versions : rows[w][c] = "none" THEN "live"
     ELSE rows[u][c]]]

\* collection.upsert(ids = chunk ids): the row another version held is replaced.
ChromaUpsert(rows, v, cs) ==
  [u \in Versions |-> [c \in Chunks |->
     IF c \notin cs THEN rows[u][c] ELSE IF u = v THEN "live" ELSE "none"]]

Upsert(rows, v, cs) ==
  IF Backend = "chroma" THEN ChromaUpsert(rows, v, cs) ELSE PgUpsert(rows, v, cs)

\* Flips deleted_at on the given chunk ids, whatever corpus_version holds them.
SoftDelete(rows, cs) ==
  [v \in Versions |-> [c \in Chunks |->
     IF c \in cs /\ rows[v][c] = "live" THEN "deleted" ELSE rows[v][c]]]

\* Soft-deleted rows, as <<version, chunk>> pairs.
DeletedRows(rows) == {p \in Versions \X Chunks : rows[p[1]][p[2]] = "deleted"}

\* DELETE of the soft-deleted rows past the cutoff (the pairs D).
HardPurge(rows, D) ==
  [v \in Versions |-> [c \in Chunks |-> IF <<v, c>> \in D THEN "none" ELSE rows[v][c]]]

-----------------------------------------------------------------------------
(* Reads *)

\* The rows a dense search over version v can return: deleted_at IS NULL.
ServedChunks(rows, v) == {c \in Chunks : rows[v][c] = "live"}

\* A bug: the corpus_version condition is dropped from the query.
ChunkIdsInAnyVersion(rows, s, v) ==
  {c \in Chunks : SourceOf[c] = s /\ \E u \in Versions : rows[u][c] = "live"}

ChunkIdsForSource(rows, s, v) == {c \in ServedChunks(rows, v) : SourceOf[c] = s}

Count(rows, v) == Cardinality(ServedChunks(rows, v))

DistinctSourceIds(rows, v) == {SourceOf[c] : c \in ServedChunks(rows, v)}
=============================================================================
