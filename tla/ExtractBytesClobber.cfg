SPECIFICATION ExtractSpec
CONSTANTS
  Requests = {r1, r2}
  Paths = {p1}
  Data <- ShortAndLong
  Nothing = Nothing
SYMMETRY Symmetry
INVARIANTS
  NeverClobbers
CHECK_DEADLOCK FALSE
