SPECIFICATION Spec
CONSTANTS
  LeftInputs <- MCInputs
  RightInputs <- MCInputs
  Hash <- MCHash
  EstimatedRows = {0, 5, 20}
  RowWidth = 1
  BudgetBytes = 4
  kMaxPartitions = 3
  Faults = {}
  NoRow = NoRow
INVARIANT SemiAntiBuiltOnce
CHECK_DEADLOCK FALSE
