CONSTANTS
  Addrs = {a1}
  Callers = {k1}
  None = none
  MaxLog = 1
  MaxCommands = 2
  MaxStarts = 1
SPECIFICATION FairSpec
CHECK_DEADLOCK FALSE
INVARIANTS ReplicationTypeOK NoCircularWait CommandsCounted SlaveNotAhead 
  
