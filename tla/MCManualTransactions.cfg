CONSTANTS
  c1 = c1
  c2 = c2
  x1 = x1
  v1 = v1
  v2 = v2
  Nothing = Nothing
  Client <- TwoClients
  MaxRows = 3
  MaxNumber = 2
  Receipt <- OneReceipt
  Content <- TwoValues
  Typed <- AllForms
SPECIFICATION ManualSpec
SYMMETRY Symmetric
INVARIANTS ReceiptsBelongToSync SharedNumberNeedsOverlap
CHECK_DEADLOCK FALSE
