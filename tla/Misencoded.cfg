CONSTANTS
  AddrBytes = 8
  AddrSpace = 4096
  NDEBUG = FALSE
  Start = 1024
  BlockSize = 20
  MeasureStart = 0
  Fresh = 204
  Calls <- MisencodedCalls
  Regs = {}
  Scales = {}
  Offsets = {}
  Imms = {}
  Aligns = {}
  MaxInstructions = 1
  MaxMoves = 0
  Slack = 4
  ChecksOperands = FALSE
  ChecksSpill = TRUE
SPECIFICATION Spec
INVARIANTS Faithful
CHECK_DEADLOCK FALSE
