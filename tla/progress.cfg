CONSTANTS
  ByteMod = 16
  NReg = 16
  NMem = 2
  CountMod = 1
  MISA = 256
  Lines = {"timer"}
  Alu <- MCAluResult
  BitAnd <- MCAnd
  BitOr <- MCOr
  Programs <- HeldPrograms
  DataImages <- MCDataImages
  Scratch <- MCScratch
SPECIFICATION HeldSpec
CHECK_DEADLOCK FALSE
PROPERTY CommitsForever HeldIrqServed
