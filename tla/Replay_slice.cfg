CONSTANTS
  Calls <- TwoEcalls
  MaxCalls = 3
  Insts = {4, 12, 20}
  Midpoint <- SharedMidpoint
  MaxEvents = 5
SPECIFICATION SliceSpec
INVARIANTS SliceTypeOK RoundTrip NoDuplicates ReplayEndsAtExit
PROPERTIES ImplementsSliceReplay
CHECK_DEADLOCK FALSE
