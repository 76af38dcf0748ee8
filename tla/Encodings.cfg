CONSTANTS
  AddrBytes = 4
  AddrSpace = 4096
  NDEBUG = FALSE
  Start = 1024
  BlockSize = 20
  MeasureStart = 0
  Fresh = 204
  Calls <- EncodingCalls
  Regs <- NewRegs
  Scales <- NewScales
  Offsets <- NewOffsets
  Imms <- NewImms
  Aligns = {}
  MaxInstructions = 1
  MaxMoves = 0
  Slack = 4
  ChecksOperands = TRUE
  ChecksSpill = TRUE
SPECIFICATION Spec
INVARIANTS TypeOK Faithful Encoded MeasureAgrees
PROPERTIES SpillsThreeBytes
CHECK_DEADLOCK FALSE
