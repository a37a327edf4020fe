CONSTANTS
  invoices = invoices
  customers = customers
  Pass <- TwoPasses
  Customers <- customers
  MaxPages = 3
  MaxConcurrent = 2
  Attempts = 2
SPECIFICATION FairSpec
INVARIANTS ConcurrencyCap NoPageLost SweepOnlyAfterCompletePass StoreErrorFailsRun
PROPERTIES NoWriteAfterJoin ImplementsContract RequestAnswered
