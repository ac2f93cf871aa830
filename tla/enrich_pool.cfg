SPECIFICATION FairSpec
CONSTANTS
  Businesses = {1, 2, 3}
  Procs <- MCOneProc
  Workers <- MCWorkers
  PoolOf <- MCPools
  Resumes <- MCAnyResume
  Faults = {"crash", "statement"}
  None = None
  p1 = p1
  p2 = p2
  w1 = w1
  w2 = w2
  Sources <- MCSources
  Types <- MCTypes
  MultiTypes <- MCMultiTypes
  Values <- MCValues
  SiteReads <- MCSiteReads
  AdReads <- MCNoAds
INVARIANT EveryTargetAccounted
INVARIANT CompletedMeansHandled
PROPERTY PoolDrains
CHECK_DEADLOCK FALSE
