CONSTANTS
  ByteMod = 16
  NReg = 16
  NMem = 2
  CountMod = 2
  MISA = 256
  Lines = {}
  Alu <- MCAluResult
  BitAnd <- MCAnd
  BitOr <- MCOr
  Programs <- IllegalStorePrograms
  DataImages <- MCDataImages
  Scratch <- MCScratch
SPECIFICATION Spec
CHECK_DEADLOCK FALSE
PROPERTY FaultLeavesMemory
