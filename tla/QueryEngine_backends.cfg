SPECIFICATION Spec
CONSTANTS
  NULL = NULL
  IntMax = 100
  ExactMax = 50
  Matches <- MCMatches
  Prefix <- MCPrefix
  Year <- MCYear
  Calls <- MCCalls
  Queries <- MCBackend
  Databases <- MCDatabases
  Commits <- MCCommits
  Configs <- MCConfigs
INVARIANT BackendsAgree
CHECK_DEADLOCK FALSE
