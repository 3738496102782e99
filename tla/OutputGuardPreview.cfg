SPECIFICATION Spec
CONSTANTS
  Guards = {g1}
  Texts <- Mixed
  MaxInline = 3
  Preview = 3
  TTL = 1
  MaxCall = 1
  MaxTime = 4
  Faults = {}
  None = None
INVARIANT GuardReturns
CHECK_DEADLOCK FALSE
