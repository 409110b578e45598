SPECIFICATION Spec
CONSTANTS
  s1 = s1
  s2 = s2
  f1 = f1
  c1 = c1
  f2 = f2
  None = None
  Sources <- MCSources
  Chunks <- MCChunks
  SourceOf <- MCSourceOf
  Facts <- MCFacts
  RequiredSources <- MCSources
  RequiredFacts <- MCFacts
  MinChunks = 2
  Versions = {v1, v2}
  Runners = {r1}
  Docs <- StableDocs
  Backend = "chroma"
  Serial = TRUE
  RunsPerVersion = 1
  MaxFaults = 0
  Keep = 2
INVARIANT LiveVersionVetted
CHECK_DEADLOCK FALSE
