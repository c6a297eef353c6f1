CONSTANTS
  WordBits = 4
  ExpMax = 15
  Bias = 8
  Ten = 3
  FracDigits = 4
  Floats <- ManyFloats
  Numbers <- Words
  Texts <- ManyTexts
SPECIFICATION TSpec
INVARIANTS AgreesWithReference SumsAreClose KeepsValues TextsMeanNumbers
PROPERTY Returns
CHECK_DEADLOCK FALSE
