CONSTANTS
  AddrBytes = 4
  AddrSpace = 4096
  NDEBUG = FALSE
  Start = 1024
  BlockSize = 12
  MeasureStart = 0
  Fresh = 204
  Calls <- ProgramCalls
  Regs <- FewRegs
  Scales = {2}
  Offsets <- FewOffsets
  Imms <- FewImms
  Aligns = {}
  MaxInstructions = 2
  MaxMoves = 0
  Slack = 0
  ChecksOperands = TRUE
  ChecksSpill = TRUE
SPECIFICATION Spec
INVARIANTS MeasuredSizeSuffices
CHECK_DEADLOCK FALSE
