CONSTANTS
  Keys = {1, 2, 3, 4}
  Values = {v, w}
  Nodes = {n1, n2, n3}
  Head = head
  Null = null
  MaxLevel = 2
  MaxDeletes = 2
SPECIFICATION FairSpec
CHECK_DEADLOCK FALSE
INVARIANTS TypeOK LevelsOrdered WriterMemorySafe
PROPERTIES ImplementsMap MaxLevelNeverRises WriterReturns
