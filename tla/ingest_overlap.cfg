SPECIFICATION Spec
CONSTANTS
  s1 = s1
  s2 = s2
  f1 = f1
  c1 = c1
  f2 = f2
  None = None
  Sources <- MCSources
  Chunks <- MCChunks
  SourceOf <- MCSourceOf
  Facts <- MCFacts
  RequiredSources <- MCSources
  RequiredFacts <- MCFacts
  MinChunks = 2
  Versions = {v1, v2}
  Runners = {r1, r2}
  Docs <- VaryingDocs
  Backend = "pgvector"
  Serial = FALSE
  RunsPerVersion = 1
  MaxFaults = 1
  Keep = 2
SYMMETRY OverlapSymmetry
INVARIANT LiveVersionVetted
PROPERTY PublishedVersionsFrozen
CHECK_DEADLOCK FALSE
