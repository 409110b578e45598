---------------------------- MODULE CorpusSwap ----------------------------
(***************************************************************************)
(* What the shadow rebuild promises its readers, and nothing of how: the   *)
(* corpus they are served changes only by publishing a whole, vetted       *)
(* replacement in one step (the snapshot and atomic swap of the            *)
(* architecture).  A corpus is the set of chunks a search can return.      *)
(***************************************************************************)
EXTENDS Naturals, FiniteSets

CONSTANTS
  Versions,         \* names a published corpus can have
  Chunks,           \* everything a corpus may contain
  Sources,
  SourceOf,         \* the source of each chunk
  RequiredSources,  \* a vetted corpus covers these
  MinChunks,        \* and has at least this many chunks
  None              \* no corpus published yet

VARIABLES
  live,     \* the version being served
  served    \* its chunks

swapVars == <<live, served>>

Vetted(cs) ==
  /\ Cardinality(cs) >= MinChunks
  /\ RequiredSources \subseteq {SourceOf[c] : c \in cs}

SwapInit ==
  /\ live = None
  /\ served = {}

Publish(v, cs) ==
  /\ Vetted(cs)
  /\ live' = v
  /\ served' = cs

SwapNext == \E v \in Versions, cs \in SUBSET Chunks : Publish(v, cs)

SwapSpec == SwapInit /\ [][SwapNext]_swapVars
=============================================================================
