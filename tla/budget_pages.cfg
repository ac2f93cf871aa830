SPECIFICATION FairSpec
CONSTANTS
  p1 = p1
  p2 = p2
  Procs <- MCProcs
  Limits = {2}
  PageSize = 1
  MaxPages = 2
  MaxRetries = 2
  Ceiling = 1
  Months = 2
  Faults = {"crash", "expiry"}
INVARIANT TypeOK
INVARIANT OvershootBounded
INVARIANT DriftBounded
PROPERTY CommandsEnd
CHECK_DEADLOCK FALSE
