CONSTANTS
  AddrBytes = 4
  AddrSpace = 4096
  NDEBUG = TRUE
  Start = 1024
  BlockSize = 12
  MeasureStart = 0
  Fresh = 204
  Calls <- ProgramCalls
  Regs <- FewRegs
  Scales = {2}
  Offsets <- FewOffsets
  Imms <- FewImms
  Aligns = {}
  MaxInstructions = 2
  MaxMoves = 1
  Slack = 3
  ChecksOperands = TRUE
  ChecksSpill = TRUE
SPECIFICATION Spec
INVARIANTS Contained
CHECK_DEADLOCK FALSE
