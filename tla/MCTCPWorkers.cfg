CONSTANTS
  Conns = {c1}
  Workers = {w1}
  None = none
  MaxMessages = 1
SPECIFICATION FairSpec
CHECK_DEADLOCK FALSE
PROPERTIES WorkersJoined
