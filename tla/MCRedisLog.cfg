CONSTANTS
  Keys = {1}
  Values = {v, w}
  Multiline = {}
  Cut = cut
  Clients = {c1, c2}
  Persister = persister
  Main = main
  Commands = {"SET", "DEL", "FLUSH"}
  AofEnabled = TRUE
  AofFsyncs = {"always", "everysec"}
  MaxCommands = 3
  MaxStarts = 2
  MaxMarks = 0
  MaxReplicationLog = 2
SPECIFICATION Spec
SYMMETRY ClientSymmetry
CHECK_DEADLOCK FALSE
INVARIANTS LoggedFirst LogGivesData
