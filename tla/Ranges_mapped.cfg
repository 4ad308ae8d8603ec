CONSTANTS
  PageSize = 2
  Block = 4
  Word = 2
  IntMax = 64
  Inputs <- DataAboveText
SPECIFICATION Spec
INVARIANTS TouchedIsMapped CodeIntact RangesSorted BenchExactlyCode
CHECK_DEADLOCK FALSE
