SPECIFICATION Spec
CONSTANTS
  Requests = {r1, r2, r3}
  Paths = {bin}
  Kinds = {"open", "close"}
  FileStates <- FilesStay
  StartupCommands = 1
  bin = bin
  link = link
  None = None
PROPERTIES
  EveryRequestEnds
  NoLeakedWorker
CHECK_DEADLOCK FALSE
