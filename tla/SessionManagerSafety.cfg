SPECIFICATION Spec
CONSTANTS
  Requests = {r1, r2, r3}
  Paths = {bin}
  Kinds = {"open", "reload", "close"}
  FileStates <- FilesOfOnePath
  StartupCommands = 2
  bin = bin
  link = link
  None = None
SYMMETRY Symmetry
INVARIANTS
  TypeOK
  InUseIsClosable
  CachedIsStarted
  StoppingHasCloser
CHECK_DEADLOCK FALSE
