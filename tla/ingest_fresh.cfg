SPECIFICATION Spec
CONSTANTS
  s1 = s1
  s2 = s2
  f1 = f1
  c1 = c1
  f2 = f2
  None = None
  Sources <- MCSources
  Chunks <- MCChunks
  SourceOf <- MCSourceOf
  Facts <- MCFacts
  RequiredSources <- MCSources
  RequiredFacts <- MCFacts
  MinChunks = 2
  Versions = {v1, v2, v3}
  Runners = {r1}
  Docs <- VaryingDocs
  Backend = "pgvector"
  Serial = TRUE
  RunsPerVersion = 1
  MaxFaults = 2
  Keep = 1
SYMMETRY VersionSymmetry
INVARIANTS TypeOK GcKeepsLive
PROPERTY ImplementsCorpusSwap
CHECK_DEADLOCK FALSE
