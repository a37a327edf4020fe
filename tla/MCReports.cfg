CONSTANTS
  newyear = newyear
  october = october
  ahead = ahead
  invoice = invoice
  purchase = purchase
  february = february
  lastyear = lastyear
  Row <- Rows
  Movement <- Movements
  Expense <- Expenses
  On <- Dates
  Worth <- Worths
  Today <- Asked
  MaxChanges = 1
  MaxNights = 1
SPECIFICATION Spec
INVARIANTS MonthsAreWhole PartsAddUp WeeksCountAhead ColumnsMeet
CHECK_DEADLOCK FALSE
