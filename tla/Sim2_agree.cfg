CONSTANTS
  Specs <- Touching
  Files <- ShortFiles
  Starts = {0, 5}
  MaxCycle = 7
SPECIFICATION Spec
PROPERTY ImplementsPython
CHECK_DEADLOCK FALSE
