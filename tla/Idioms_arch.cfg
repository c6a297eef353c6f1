CONSTANTS
  Banks <- OneBank
  Files <- Idiom
  PowerUps <- Operands
  Starts = {0}
  MaxCycle = 0
SPECIFICATION ISpec
INVARIANT SequencesCompute
CHECK_DEADLOCK FALSE
