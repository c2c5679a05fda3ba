CONSTANT
  XLEN = 4
  Funct7 = {0, 1, 2, 3, 4, 5, 8, 16, 20, 24, 32, 36, 48, 52, 61, 64, 96, 100, 127}
  RegBits = {0, 1, 2, 4, 8, 16, 31}
SPECIFICATION Spec
INVARIANT DecodersAgree TextNamesWhatRuns CompressedAsPrinted
INVARIANT CoreMatchesSimulator DivisionIdentity BitManipAsSpecified
