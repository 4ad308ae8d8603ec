CONSTANTS
  Word = 2
  Cover = 6
  HeadSize = 2
  MaxCompressSize = 6
  ExtraDataSize = 8
  Inputs <- AllLoads
SPECIFICATION Spec
INVARIANTS BytesRestored BufferFits
CHECK_DEADLOCK FALSE
