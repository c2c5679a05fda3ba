CONSTANTS
  ByteMod = 16
  NReg = 16
  NMem = 2
  CountMod = 1
  MISA = 256
  Lines = {"timer", "sw", "ext"}
  Alu <- MCAluResult
  BitAnd <- MCAnd
  BitOr <- MCOr
  Programs <- IrqPrograms
  DataImages <- MCDataImages
  Scratch <- MCScratch
SPECIFICATION Spec
CHECK_DEADLOCK FALSE
INVARIANT PipeInv
PROPERTY ImplementsIsa SquashedIsSilent
