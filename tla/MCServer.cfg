CONSTANTS
  old = old
  new = new
  r1 = r1
  r2 = r2
  None = None
  Instance <- Instances
  Build <- Builds
  File = {1, 2}
  Request <- Requests
  Name <- Names
  Fold <- Folds
  Legacy = {2}
  LastDay = 2
  MaxStops = 1
  MaxSaves = 1
SPECIFICATION FairSpec
INVARIANTS SchemaInOrder TwinsNeedOverlap BalanceIsLastSaved
PROPERTIES StartsServe RatesGoForward
CHECK_DEADLOCK FALSE
