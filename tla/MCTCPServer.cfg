CONSTANTS
  Conns = {c1, c2}
  Workers = {w1}
  None = none
  MaxMessages = 1
SPECIFICATION FairSpec
CHECK_DEADLOCK FALSE
INVARIANTS ServerTypeOK ClosedOnce StopClosesAll
PROPERTIES NoNewWaits LeaversFreed StopHangsOnlyThere
