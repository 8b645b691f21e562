SPECIFICATION FairSpec
CONSTANTS
  LeftInputs <- MCInputs
  RightInputs <- MCInputs
  Hash <- MCHash
  EstimatedRows = {0, 5, 20}
  RowWidth = 1
  BudgetBytes = 4
  kMaxPartitions = 3
  Faults = {"call", "close"}
  NoRow = NoRow
INVARIANTS TypeOK JoinExact OneBucketResident ScratchRemoved BucketsFitBudget BuiltOnce
PROPERTY CallsReturn
CHECK_DEADLOCK FALSE
