SPECIFICATION Spec
CONSTANTS
  SourceList <- MCSourceList
  Targets <- MCTargets
  PagesOf <- MCPagesOf
  Unparsable = {"odd"}
  Invalid = {"poor"}
  LastChecksums <- MCLastChecksums
  RunIds = {1}
  FailedNum = 1
  FailedDen = 2
  Attempts = 2
  Backoff <- MCBackoff
  Interval = 3
  Jitters = {0, 2}
  Latencies = {0, 4}
  MaxRuns = 2
INVARIANTS BreakerBoundsFailures ChangedIsComplete
PROPERTY SourcesSpaced
CHECK_DEADLOCK FALSE
