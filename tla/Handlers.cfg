SPECIFICATION MCSpec
CONSTANTS
  \* AsmOverride
  Handlers = {h1, h2}
  Arches = {"x86", "arm"}
  Widths = {16, 64}
  Wishes <- AllWays
  Original <- Binary
  Unset = Unset
  Garbled = Garbled
  Failures = {"timeout", "garbled"}
  \* OutputGuard
  Guards = {g1, g2}
  Texts <- Plain
  MaxInline = 3
  Preview = 3
  TTL = 1
  MaxCall = 1
  MaxTime = 4
  Faults = {"write", "list", "stat", "remove"}
  None = None
  \* ExtractBytes
  Requests = {r1, r2, r3}
  Paths = {p1}
  Data <- ShortAndLong
  Nothing = Nothing
SYMMETRY Symmetry
INVARIANTS
  SharedTypeOK
  TurnsKeepSettings
  RestoreIsTried
  ReportedStays
  SweepIsThorough
  TurnsReportTruly
CHECK_DEADLOCK FALSE
