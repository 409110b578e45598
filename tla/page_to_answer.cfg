SPECIFICATION Spec
CONSTANTS
  TargetTokens = 4
  OverlapTokens = 1
  MinTokens = 3
  TableRowLimit = 3
  TableTokenLimit = 6
  CharsPerToken = 2
  Slugify <- MCSlugify
  RrfK = 60
  MaxRank = 3
  ScoreUnit = 238266
  TopKSearch = 3
  TopKRrf = 3
  TopNRerank = 2
  ThresholdInverse = 100
  RerankerConfig <- MCRerankerConfig
  RewriterLlm = FALSE
  Abbreviations <- MCAbbreviations
  Pages <- MCPages
  Questions <- MCQuestions
  Backend = "in_memory"
INVARIANTS IndexHoldsPage PiecesFit NeighboursMeet FusionRespectsRanks
CHECK_DEADLOCK FALSE
