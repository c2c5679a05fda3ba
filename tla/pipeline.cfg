CONSTANTS
  ByteMod = 16
  NReg = 16
  NMem = 2
  CountMod = 4
  MISA = 256
  Lines = {}
  Alu <- MCAluResult
  BitAnd <- MCAnd
  BitOr <- MCOr
  Programs <- PipelinePrograms
  DataImages <- MCDataImages
  Scratch <- MCScratch
SPECIFICATION Spec
CHECK_DEADLOCK FALSE
INVARIANT TypeOK PipeInv
PROPERTY ImplementsIsa SquashedIsSilent
