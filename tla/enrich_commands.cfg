SPECIFICATION Spec
CONSTANTS
  Businesses = {1}
  Procs <- MCProcs
  Workers <- MCOneWorker
  PoolOf <- MCPools
  Resumes <- MCDefaultResume
  Faults = {"crash", "statement"}
  None = None
  p1 = p1
  p2 = p2
  w1 = w1
  w2 = w2
  Sources <- MCSources
  Types <- MCTypes
  MultiTypes <- MCMultiTypes
  Values <- MCValues
  SiteReads <- MCManyReads
  AdReads <- MCNoAds
INVARIANT TypeOK
INVARIANT OneCurrent
INVARIANT CheckpointIsHonest
INVARIANT EmailIsOnRecord
PROPERTY QuietOnceExcluded
PROPERTY HistoryIsFinal
PROPERTY BeliefIsLatest
CHECK_DEADLOCK FALSE
