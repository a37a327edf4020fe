CONSTANTS
  r1 = r1
  r2 = r2
  Customer <- FourPeople
  Blank <- OneBlank
  Run <- TwoRuns
  PageSize = 2
  MaxPages = 2
  Skew = 0
  MaxChanges = 1
SPECIFICATION Spec
SYMMETRY RunSymmetry
PROPERTY ListedStaysActive
CHECK_DEADLOCK FALSE
