CONSTANTS
  ProgLen = 8
  Ecalls <- TwoEcalls
  RunLengths = {1, 2, 3, 4, 5, 6}
  Warmups = {0, 1, 2}
  LoaderOps = 2
  RobSize = 2
  MaxIntr = 1
SPECIFICATION Spec
INVARIANTS OverflowStaysInUser
CHECK_DEADLOCK FALSE
