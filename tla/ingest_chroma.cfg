SPECIFICATION FairSpec
CONSTANTS
  s1 = s1
  s2 = s2
  f1 = f1
  c1 = c1
  f2 = f2
  None = None
  Sources <- MCSources
  Chunks <- MCChunks
  SourceOf <- MCSourceOf
  Facts <- MCFacts
  RequiredSources = {s2}
  RequiredFacts = {f2}
  MinChunks = 1
  Versions = {v1, v2}
  Runners = {r1}
  Docs <- VaryingDocs
  Backend = "chroma"
  Serial = TRUE
  RunsPerVersion = 2
  MaxFaults = 1
  Keep = 2
INVARIANT UpsertConverges
PROPERTIES RunEnds CompleteRunPublishes
CHECK_DEADLOCK FALSE
