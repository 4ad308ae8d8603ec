CONSTANTS
  Addr <- SixBytes
  Val = {0, 1}
  Accesses <- BlockCrossingStore
  Block = 4
  LineSize = 4
  PageSize = 4
  FileBacked = {}
  ScUnpaired = FALSE
SPECIFICATION Spec
INVARIANTS FirstLoadsComplete
