CONSTANTS
  IntMax = 16777216
  Inputs <- Checkpoints
SPECIFICATION Spec
INVARIANTS JumpsLand StubsInGaps GiveUpOnlyIfHopeless
CHECK_DEADLOCK FALSE
