CONSTANTS
  FV1 = FV1
  FC1 = FC1
  MM1 = MM1
  NoDay = NoDay
  Invoice <- Invoices
  Purchase <- Purchases
  Plan <- Plans
  Row <- Rows
  Income <- Incomes
  Worth <- Worths
  Day <- Days
  LastDay = 1
  Month = 2
  Horizon <- Horizons
  MaxChanges = 1
  MaxReading = 1
SPECIFICATION Spec
INVARIANTS ChartEndsAtEstimate ViewsAgree AlertsAddUp
PROPERTY OffByWhatWasWritten
CHECK_DEADLOCK FALSE
