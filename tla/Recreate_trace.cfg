CONSTANTS
  Pc = {8, 20}
  CallPcs <- TwoEcalls
  ExitPc = 24
  Ctrls <- OverlapCtrls
  MaxBench = 13
  TraceCtrls <- ConsecutiveTraces
  Traced = {8, 16}
SPECIFICATION Spec
INVARIANTS TraceLength
CHECK_DEADLOCK FALSE
