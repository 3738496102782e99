SPECIFICATION Spec
CONSTANTS
  Handlers = {h1, h2}
  Closers = {k1, k2}
  Calls = {c1, c2}
  Shutdown = Shutdown
  None = None
INVARIANTS
  TypeOK
  RunsInOrder
  DrainsExactly
  RefusedNeverRan
PROPERTIES
  NoStrandedCall
  WorkerStops
  ImplementsExecutor
CHECK_DEADLOCK FALSE
