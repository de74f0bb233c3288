CONSTANTS
  Requests <- MCRequests
  MaxRequests = 2
SPECIFICATION Spec
CHECK_DEADLOCK FALSE
INVARIANTS  WholeUnderstood
