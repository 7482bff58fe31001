SPECIFICATION Spec
CONSTANTS
  Cartridges <- Carts
  opcodes <- OpcodeTable
  PopsLowByteFirst = TRUE
  MaxCycles = 66
INVARIANTS
  TypeOK
  StatusDiscipline
  TraceMarks
  CopiesAgree
PROPERTIES
  ControlFlow
  Frame
  CycleTiming
  TraceShowsOperand
  TraceShowsValue
