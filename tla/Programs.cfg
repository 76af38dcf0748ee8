CONSTANTS
  AddrBytes = 4
  AddrSpace = 4096
  NDEBUG = FALSE
  Start = 1024
  BlockSize = 16
  MeasureStart = 0
  Fresh = 204
  Calls <- ProgramCalls
  Regs <- FewRegs
  Scales = {2}
  Offsets <- FewOffsets
  Imms <- FewImms
  Aligns = {}
  MaxInstructions = 2
  MaxMoves = 1
  Slack = 4
  ChecksOperands = TRUE
  ChecksSpill = TRUE
SPECIFICATION StreamSpec
INVARIANTS Faithful Encoded MeasuredSizeSuffices
PROPERTIES ImplementsStream ImplementsBytes
CHECK_DEADLOCK FALSE
