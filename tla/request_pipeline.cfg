SPECIFICATION FairSpec
CONSTANTS
  r1 = r1
  r2 = r2
  Requests = {r1, r2}
  Queries <- MCQueries
  Collection <- MCCollection
  Pages <- MCPages
  LlmReplies <- MCReplies
  PoolSizes = {1, 2}
  GroqInstalled = TRUE
  KnownSourceUrls = {"u1", "u2"}
  IntentLlm = FALSE
  JudgeLlm = TRUE
  MaxSentences = 3
  GroqKey = TRUE
  AnthropicKey = FALSE
  Null = Null
  RrfK = 60
  MaxRank = 2
  ScoreUnit = 3782
  TopKSearch = 2
  TopKRrf = 2
  TopNRerank = 2
  ThresholdInverse = 100
  RerankerConfig <- MCRerankerConfig
  RewriterLlm = FALSE
  Abbreviations <- MCAbbreviations
INVARIANTS TypeOK QueueHoldsAwaited RefusedStaysOut ShownAnswerVetted DateOfCitedPage
PROPERTIES LateResultIgnored EveryRequestEnds
CHECK_DEADLOCK FALSE
