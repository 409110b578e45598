SPECIFICATION Spec
CONSTANTS
  s1 = s1
  s2 = s2
  f1 = f1
  c1 = c1
  f2 = f2
  None = None
  Sources <- MCSources
  Chunks <- MCChunks
  SourceOf <- MCSourceOf
  Facts <- MCFacts
  RequiredSources <- MCSources
  RequiredFacts <- MCFacts
  MinChunks = 2
  Versions = {v1, v2}
  Runners = {r1}
  Docs <- VaryingDocs
  Backend = "pgvector"
  Serial = TRUE
  RunsPerVersion = 2
  MaxFaults = 2
  Keep = 2
SYMMETRY VersionSymmetry
INVARIANTS DenseInSparse FactRowsBacked UpsertConverges LiveInHistory
PROPERTY SuccessIsServed
CHECK_DEADLOCK FALSE
