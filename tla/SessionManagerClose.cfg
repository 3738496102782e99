SPECIFICATION Spec
CONSTANTS
  Requests = {r1, r2, r3}
  Paths = {bin}
  Kinds = {"open", "close"}
  FileStates <- FilesOfOnePath
  StartupCommands = 3
  bin = bin
  link = link
  None = None
SYMMETRY Symmetry
INVARIANT CloseStopsSession
CHECK_DEADLOCK FALSE
