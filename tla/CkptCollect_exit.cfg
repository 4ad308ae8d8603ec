CONSTANTS
  Pc = {6, 8, 12, 16}
  Compressed = {6}
  Ecall = {12}
  Uops <- ReleaseAmo
  Ctrls <- OverlapCtrls
  PageSize = 8
  MaxInst = 6
SPECIFICATION FairSpec
INVARIANTS TypeOK ExitFirstAfterLastSyscall ExitCodeRecorded NextCtrlAhead NoCkptLost
  StrictLengthExact
PROPERTIES AllCkptsCreated
CHECK_DEADLOCK FALSE
