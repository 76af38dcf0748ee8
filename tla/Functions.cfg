CONSTANTS
  AddrBytes = 4
  AddrSpace = 65536
  NDEBUG = FALSE
  CodeStart = 1024
  CodeSize = 168
  InputRegs = 1216
  OutputRegs = 1244
  InputMemory = 1272
  OutputMemory = 1276
  MemorySize = 4
  StackStart = 1280
  StackSize = 80
  ReturnAddress = 600
  Inputs <- MCInputs
  Programs <- MCPrograms
  Arguments <- MCArguments
  MaxInvocations = 2
SPECIFICATION Spec
INVARIANTS TypeOK ConventionKept NoAccessViolation ExecutesAsEmitted
PROPERTIES WritesOwnFrame ImplementsCall
CHECK_DEADLOCK FALSE
