CONSTANTS
  Keys = {1, 2, 3}
  Values = {v}
  Nodes = {n1, n2}
  Head = head
  Null = null
  MaxLevel = 1
  MaxDeletes = 1
SPECIFICATION FairReadersSpec
CHECK_DEADLOCK FALSE
PROPERTIES ReaderReturns
