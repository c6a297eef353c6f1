-------------------------------- MODULE Isa ---------------------------------
(* Words of the RRISC instruction set (pytools/isa.py): the four three-bit  *)
(* fields of an instruction, the offset of a branch, the bits of a word.    *)
EXTENDS Integers

Space == 4096
Word == 0..4095
Reg == 0..7

AND == 0
SUB == 1
ADD == 2
ADDC == 3
LUI == 4
ADDI == 5
SUBI == 6
SPEC == 7

JALR == 0
ROR == 1
ROL == 2
LWR == 3
SWR == 4

Halt == 4095

Op(ir) == (ir \div 512) % 8
Rd(ir) == (ir \div 64) % 8
Ra(ir) == (ir \div 8) % 8
Rb(ir) == ir % 8
Imm6(ir) == ir % 64

R3(op, rd, ra, rb) == op * 512 + rd * 64 + ra * 8 + rb
RI(op, rd, imm) == op * 512 + rd * 64 + imm

\* Fault: rd = 7 taken for the sign of a six-bit two's complement offset.
BranchOffset_Signed(rd, imm) == IF rd = 7 /\ imm >= 32 THEN imm - 64 ELSE imm
BranchOffset(rd, imm) == IF rd = 7 THEN imm - 64 ELSE imm

Bit(v, p) == (v \div p) % 2

And(a, b) ==
  LET both(p) == Bit(a, p) * Bit(b, p) * p
  IN  both(1) + both(2) + both(4) + both(8) + both(16) + both(32) + both(64)
      + both(128) + both(256) + both(512) + both(1024) + both(2048)
=============================================================================
