CONSTANTS
  Addr = {1, 2, 3, 4, 5, 6, 7, 8}
  MaxNode = 8
SPECIFICATION PhasedSpec
CHECK_DEADLOCK FALSE
INVARIANT RedBlack
PROPERTY ImplementsBreakpoints
