CONSTANTS
  p1 = p1
  p2 = p2
  main = main
  a1 = a1
  a2 = a2
  None = None
  Caller <- TwoCallers
  Main = main
  Account <- TwoAccounts
  EnvAccount = a1
  Lifetime = 3
  Ahead = 2
  Margin = 1
  Retry = 2
  CallTime = 1
  MaxClients = 2
  LastTick = 3
  MaxRestarts = 1
SPECIFICATION ConnectionSpec
SYMMETRY CallerSymmetry
INVARIANTS SessionIsOfStoredAccount TokenOutlivesCall
PROPERTY OneRenewalPerLapse
CHECK_DEADLOCK FALSE
