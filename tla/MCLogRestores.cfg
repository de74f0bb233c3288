CONSTANTS
  Keys = {1}
  Values = {v}
  Multiline = {}
  Cut = cut
  Clients = {c1}
  Persister = persister
  Main = main
  Commands = {"SET", "DEL"}
  AofEnabled = TRUE
  AofFsyncs = {"always"}
  MaxCommands = 2
  MaxStarts = 2
  MaxMarks = 0
  MaxReplicationLog = 0
SPECIFICATION Spec
CHECK_DEADLOCK FALSE
PROPERTIES AofRestores
