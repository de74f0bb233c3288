SPECIFICATION FairSpec
CONSTANTS
  Threads <- MCThreads
  EnvSets <- DefaultEnvSets
  OptionSets <- DefaultOptionSets
  Files <- DefaultFiles
  None = none
  MaxFiles = 3
  OldLogs <- MCOldLogs
  MaxStarts = 1
PROPERTIES StartFinishes
CHECK_DEADLOCK FALSE
