SPECIFICATION FairSpec
CONSTANTS
  q1 = q1
  q2 = q2
  q3 = q3
  i1 = i1
  None = None
  Requests <- MCRequests
  Home <- OneProcess
  Instances = {i1}
  Threads = {t1, t2}
  HistoryTurns = 2
  MaxFaults = 1
INVARIANTS TypeOK AnswersFollowQuestions AcknowledgedTurnKept WindowSettled
PROPERTIES HistoryOnlyGrows EveryRequestEnds
CHECK_DEADLOCK FALSE
