CONSTANTS
  AddrSpace = 10
  NDEBUG = FALSE
  b0 = b0
  b1 = b1
  fresh = fresh
  foreign = foreign
  x = x
  y = y
  Blocks = {b0, b1}
  Root = b0
  RootStart = 2
  RootSize = 3
  Byte <- MCByte
  Data <- MCData
  SkipSizes = {1}
  SubSizes = {2}
  Fresh = fresh
  Foreign = foreign
  CursorLimit = 7
  ChecksPlaceholder = TRUE
SPECIFICATION Spec
PROPERTIES EmittedIsPatchable
CHECK_DEADLOCK FALSE
