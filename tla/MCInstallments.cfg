CONSTANTS
  NoDay = NoDay
  Amount <- Amounts
  Balance <- Balances
  Day <- Days
  MaxLength = 3
SPECIFICATION LoopSpec
INVARIANTS OwedIsPlaced MatchesCalendar PeriodHoldsPayments
PROPERTY PaidSettlesEarliest
CHECK_DEADLOCK FALSE
