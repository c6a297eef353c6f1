CONSTANTS
  WordBits = 4
  ExpMax = 15
  Bias = 8
  Ten = 3
  FracDigits = 4
  Floats <- FewFloats
  Numbers = {}
  Texts = {}
SPECIFICATION TSpec
INVARIANT LargerFirst
CHECK_DEADLOCK FALSE
