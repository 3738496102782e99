SPECIFICATION AsmSpec
CONSTANTS
  Handlers = {h1, h2}
  Arches = {"x86", "arm"}
  Widths = {16, 64}
  Wishes <- AllWays
  Original <- Binary
  Unset = Unset
  Garbled = Garbled
  Failures = {"timeout"}
SYMMETRY Symmetry
INVARIANT RestoredAtRest
CHECK_DEADLOCK FALSE
