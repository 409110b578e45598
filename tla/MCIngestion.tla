---------------------------- MODULE MCIngestion ----------------------------
(***************************************************************************)
(* A small registry for TLC: source s1 yields a fact and a section chunk,  *)
(* source s2 a fact.  s1's page may lose either chunk, or both, between    *)
(* runs; s2's page is stable.                                              *)
(***************************************************************************)
EXTENDS IngestionProperties, TLC

CONSTANTS s1, s2, f1, c1, f2

MCSources == {s1, s2}

MCChunks == {f1, c1, f2}

MCSourceOf == (f1 :> s1) @@ (c1 :> s1) @@ (f2 :> s2)

\* Documents that vary from run to run.
VaryingDocs == (s1 :> SUBSET {f1, c1}) @@ (s2 :> {{f2}})

\* Documents that never lose a chunk.
StableDocs == (s1 :> {{f1, c1}}) @@ (s2 :> {{f2}})

MCFacts == {f1, f2}

VersionSymmetry == Permutations(Versions)

OverlapSymmetry == Permutations(Versions) \cup Permutations(Runners)
=============================================================================
