SPECIFICATION Spec
CONSTANTS
  NULL = NULL
  IntMax = 100
  ExactMax = 50
  Matches <- MCMatches
  Prefix <- MCPrefix
  Year <- MCYear
  Calls <- MCCalls
  Queries <- MCQueries
  Databases <- MCDatabases
  Commits <- MCCommits
  Configs <- MCConfigs
INVARIANTS CpuCorrect GpuCorrect Planned PruningSound ColumnsAgree OptimizerPreserves
CHECK_DEADLOCK FALSE
