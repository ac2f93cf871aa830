SPECIFICATION Spec
CONSTANTS
  Businesses = {1, 2}
  Procs <- MCProcs
  Workers <- MCOneWorker
  PoolOf <- MCPools
  Resumes <- MCDefaultResume
  Faults = {"crash"}
  None = None
  p1 = p1
  p2 = p2
  w1 = w1
  w2 = w2
  Sources <- MCSources
  Types <- MCTypes
  MultiTypes <- MCMultiTypes
  Values <- MCValues
  SiteReads <- MCSiteReads
  AdReads <- MCNoAds
PROPERTY ResumePicksUp
CHECK_DEADLOCK FALSE
