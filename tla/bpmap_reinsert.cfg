CONSTANTS
  Addr = {1, 2, 3, 4}
  MaxNode = 4
SPECIFICATION Spec
CHECK_DEADLOCK FALSE
PROPERTY ImplementsBreakpoints
