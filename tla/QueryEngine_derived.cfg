SPECIFICATION Spec
CONSTANTS
  NULL = NULL
  IntMax = 100
  ExactMax = 50
  Matches <- MCMatches
  Prefix <- MCPrefix
  Year <- MCYear
  Calls <- MCCalls
  Queries <- MCDerived
  Databases <- MCDatabases
  Commits <- MCCommits
  Configs <- MCConfigs
INVARIANT DerivedTableIsASource
CHECK_DEADLOCK FALSE
