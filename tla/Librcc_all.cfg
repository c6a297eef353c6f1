CONSTANTS
  Space = 32
  Operands <- AllOperands
  Scratch = {19}
  Link = 7
  Top = 3
SPECIFICATION Spec
INVARIANTS TypeOK Product UnsignedDivision SignedDivision KeepsTheCall
PROPERTY Returns
CHECK_DEADLOCK FALSE
