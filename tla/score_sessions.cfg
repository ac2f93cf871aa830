SPECIFICATION Spec
CONSTANTS
  Businesses = {1}
  Site = 1
  Sources <- MCSources
  Types <- MCTypes
  SignalTypes <- MCTypes
  Trustable <- MCSources
  Conditions <- MCConditions
  Depth <- MCDepth
  MultiTypes <- MCMultiTypes
  Values <- MCValues
  None = None
  Scorers <- MCScorers
  p1 = p1
  p2 = p2
  Names <- MCNames
  Archives <- MCArchives
  Entries <- MCEntries
  Figures = {"24", "48"}
  Mailboxes = {"a@", "b@"}
  Weights <- MCWeights
  Counts = {10}
  MaxAnswers = 2
  MaxScores = 2
  Home = "/"
  Fallback <- MCFallback
  PagesAt <- MCPagesAt
  Noise <- MCNoise
  RankOf <- MCRankOf
  MaxContactPages = 2
  MaxVisits = 1
INVARIANT TypeOK
INVARIANT ScoresReproducible
INVARIANT HonestConfidence
INVARIANT ConfidenceNeverFalls
INVARIANT OutdatedOnlyByOverlap
INVARIANT PersonSettlesAds
INVARIANT PaidAbsenceIsHistory
INVARIANT VisitIsPolite
INVARIANT ReportIsTheSite
SYMMETRY Either
CHECK_DEADLOCK FALSE
