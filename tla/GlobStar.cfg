SPECIFICATION GlobSpec
CONSTANTS
  Patterns <- GMPatterns
  Names <- GMNames
  Star = "*"
  AnyOne = "?"
  NoStar = NoStar
INVARIANT GlobIsRight
CHECK_DEADLOCK FALSE
