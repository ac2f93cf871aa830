SPECIFICATION FairSpec
CONSTANTS
  p1 = p1
  p2 = p2
  p3 = p3
  Nobody = Nobody
  Procs <- MCProcs
  Versions = {1, 2}
  Embedded <- MCEmbedded
  Statements = 2
  Givens <- MCGivens
  Flags <- MCFlags
  MaxFaults = 1
  NumberOf <- MCNumberOf
  BoolOf <- MCBoolOf
  Addresses = {"a@b"}
  DefaultMargin = 90
  UnmeteredCap = 5000
  FreeMonthly <- MCFreeMonthly
INVARIANT NeverHalfMigrated
INVARIANT ReadySeesSchema
INVARIANT BillsOnlyOnRequest
PROPERTY StartsInTheEnd
CHECK_DEADLOCK FALSE
