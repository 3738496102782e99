SPECIFICATION QuerySpec
CONSTANTS
  \* GlobMatch
  Patterns <- GMPatterns
  Names <- GMNames
  Star = "*"
  AnyOne = "?"
  NoStar = NoStar
  \* FindXrefs
  Inventories <- FDInventories
  SearchTypes = {"functions", "bytes", "other"}
  HitLimits = {0, 1, 2, 9}
  XrefLimits = {0, 1, 9}
  HitCap = 2
  XrefLists <- FDLists
  NotRows = NotRows
  Refused = Refused
  NoAddress = NoAddress
  \* Pages
  Modes = {"imports", "strings", "sections", "info"}
  RowLists <- PGLists
  PageLimits = {0, 1, 2}
  Offsets = {0, 1, 5}
  MaxPages = 6
  MaxChanges = 1
  \* FunctionGraph
  BlockLists <- FGLists
  NoTarget = NoTarget
  \* FunctionAnalysis
  Plans = {"profile", "analyze_with_assembly"}
  Texts = {"code", "Cannot", "message", "short"}
  RefLists <- FARefLists
  Neighbours = {0, 3}
  MaxNeighbours = 1
  NameAnswers = {"none", "name"}
  Absent = Absent
  \* AddressMap
  MaxAddress = 7
  SectionLists <- AMLists
  NoOffset = NoOffset
INVARIANTS
  QueriesTypeOK
  GlobDecides
  ListsAreWhole
  FailuresAreTold
  PagesAddUp
  GraphAgrees
  OffsetKeepsDistance
PROPERTIES
  QueriesEnd
CHECK_DEADLOCK FALSE
