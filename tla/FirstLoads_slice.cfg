CONSTANTS
  Addr <- FourBytes
  Val = {0, 1}
  Accesses <- AlignedAccesses
  Block = 4
  LineSize = 2
  PageSize = 4
  FileBacked = {}
  ScUnpaired = FALSE
SPECIFICATION Spec
INVARIANTS FirstLoadsComplete FirstLoadsUnique
