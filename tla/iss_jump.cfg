CONSTANTS
  ByteMod = 16
  NReg = 32
  CountMod = 262144
  NText = 16
  NMem = 8
  MISA = 256
  BranchPenalty = 2
  BranchPredict = FALSE
  SingleRam = FALSE
  ExtBit = 16
  SYS = 17
  A0 = 10
  MaxSteps = 6
  Alu <- MCAluResult
  BitAnd <- MCAnd
  BitOr <- MCOr
  Mmio <- MCMmio
  HostResults <- OneHost
  Programs <- JumpIrqPrograms
  DataImages <- MCDataImages
SPECIFICATION Spec
CHECK_DEADLOCK FALSE
PROPERTY MisalignedJumpTraps
