SPECIFICATION FairSpec
CONSTANTS
  Threads <- MCThreads
  EnvSets <- MCEnvSets
  OptionSets <- MCOptionSets
  Files <- MCFiles
  None = none
  MaxFiles = 3
  OldLogs <- MCOldLogs
  MaxStarts = 2
INVARIANTS ProcessTypeOK  RunsOnlyQuiet RotationKeepsOrder TerminatesOnlyEarly ExitSaves
PROPERTIES StopEnds
CHECK_DEADLOCK FALSE
