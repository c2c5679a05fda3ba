CONSTANT
  Pc = {0, 4, 6}
  Bad = {6}
  ExitCode = {0, 1}
  MaxCount = 3
  MaxPress = 2
  MemSize = 4
  FileSize = 4
  Vaddr = {0, 2, 3, 4, 6, 7}
  Memsz = {0, 1, 2, 4}
  Offset = {0, 2}
SPECIFICATION Spec
INVARIANT TypeOK StopsWhereAsked BreakpointsHold OneStopPerInterrupt LoadersAgree
PROPERTY InterruptStops StepReturns
CHECK_DEADLOCK FALSE
