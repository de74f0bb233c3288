CONSTANTS
  Keys = {1, 2}
  Values = {v, m}
  Multiline = {m}
  Cut = cut
  Clients = {c1, c2}
  Persister = persister
  Main = main
  Commands = {"SET", "DEL", "SAVE", "LOAD"}
  AofEnabled = FALSE
  AofFsyncs = {"always"}
  MaxCommands = 3
  MaxStarts = 2
  MaxMarks = 1
  MaxReplicationLog = 0
SPECIFICATION Spec
SYMMETRY ClientSymmetry
CHECK_DEADLOCK FALSE
INVARIANTS StoreTypeOK  
  
