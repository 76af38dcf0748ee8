CONSTANTS
  AddrBytes = 4
  AddrSpace = 4096
  NDEBUG = FALSE
  Start = 1024
  BlockSize = 280
  MeasureStart = 0
  Fresh = 204
  Calls <- LabelCalls
  Regs = {}
  Scales = {}
  Offsets = {}
  Imms = {}
  Aligns = {16}
  MaxInstructions = 3
  MaxMoves = 0
  Slack = 4
  ChecksOperands = TRUE
  ChecksSpill = TRUE
SPECIFICATION Spec
INVARIANTS Faithful MeasureAgrees BindsAlike ShortReach
CHECK_DEADLOCK FALSE
