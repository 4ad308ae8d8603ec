CONSTANTS
  Pc = {6, 8, 12, 16, 20}
  Compressed = {6}
  Ecall = {12}
  Uops <- SingleUop
  Ctrls <- WarmupCtrls
  PageSize = 8
  MaxInst = 9
SPECIFICATION Spec
INVARIANTS ExitInstFourBytes
CHECK_DEADLOCK FALSE
