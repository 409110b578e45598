SPECIFICATION Spec
CONSTANTS
  Sources <- MCSources
  Pages <- MCPages
  Display <- MCDisplay
  Lower <- MCLower
  EmbedBatchSize = 2
  MaxAttempts = 2
  HardCap = 3
  BatchSize = 2
  MaxRuns = 2
  MaxAttempt = 2
INVARIANTS TypeOK ExitZeroServed VectorMatchesText RetriesDoNotChain
PROPERTY LocalPassMeansPushed
CHECK_DEADLOCK FALSE
