CONSTANTS
  Keys = {1, 2, 3}
  Values = {v}
  Nodes = {n1, n2, n3}
  Head = head
  Null = null
  MaxLevel = 2
  MaxDeletes = 1
SPECIFICATION ReadersSpec
SYMMETRY HeapSymmetry
INVARIANTS ReaderMemorySafe FoundIsThere MissedIsAbsent
PROPERTIES ImplementsWalk
