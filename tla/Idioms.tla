------------------------------- MODULE Idioms -------------------------------
(* The instruction sequences of Arch.md, "Multi-Word Arithmetic Patterns"    *)
(* and the notes on compare, li and call, run on the CPU: what a carry or a  *)
(* return address is worth shows only some instructions later.  The          *)
(* subtraction of those patterns is left out: it loses its borrow.           *)
EXTENDS Cpu

VARIABLE before     \* the registers at power-up
ivars == <<vars, before>>

IInit == Init /\ before = reg
INext == Next /\ UNCHANGED before
ISpec == IInit /\ [][INext]_ivars

Clrt == R3(ADDC, 0, 0, 0)

\* (r2:r1) += (r4:r3)
MultiAdd == <<Clrt, R3(ADDC, 1, 1, 3), R3(ADDC, 2, 2, 4), Halt>>

\* (r3:r2:r1) shifted by one.
ShiftLeft == <<Clrt, R3(SPEC, 1, 1, ROL), R3(SPEC, 2, 2, ROL), R3(SPEC, 3, 3, ROL), Halt>>
ShiftRight == <<Clrt, R3(SPEC, 3, 3, ROR), R3(SPEC, 2, 2, ROR), R3(SPEC, 1, 1, ROR), Halt>>

\* The same to the right with r3's sign kept; r4 is the copy that loses it.
ShiftSigned == <<R3(AND, 4, 3, 7), R3(SPEC, 4, 4, ROL),
                 R3(SPEC, 3, 3, ROR), R3(SPEC, 2, 2, ROR), R3(SPEC, 1, 1, ROR), Halt>>

\* A compare and a branch 61 words back to the increment of r5.
CompareBack == <<RI(LUI, 6, 1), R3(SPEC, 0, 6, JALR), 0, 0, RI(ADDI, 5, 1), Halt>>
               \o [i \in 1..58 |-> 0] \o <<R3(SUB, 0, 1, 2), RI(ADDI, 7, 3), Halt>>

\* li r5, 6; call through r5 itself; r1 = 2 * r1 in the callee, + 63 after it.
Call == <<RI(LUI, 5, 0), RI(ADDI, 5, 6), R3(SPEC, 5, 5, JALR), RI(ADDI, 1, 63), Halt, 0,
          R3(ADD, 1, 1, 1), R3(SPEC, 0, 5, JALR)>>

\* The assembler's or and xor of r2 and r3 into r1, with r4 as its scratch register.
Or == <<R3(AND, 4, 2, 3), R3(ADD, 1, 2, 3), R3(SUB, 1, 1, 4), Halt>>
Xor == <<R3(AND, 4, 2, 3), R3(ADD, 1, 2, 3), R3(SUB, 1, 1, 4), R3(SUB, 1, 1, 4), Halt>>

Idiom == {Or, Xor, MultiAdd, ShiftLeft, ShiftRight, ShiftSigned, CompareBack, Call}

\* The image starts at 0, in memory that answers for every word of it.
Placed ==
  /\ Files \subseteq Idiom /\ Starts = {0}
  /\ \A f \in Files : \A a \in 0..(Len(f) - 1) :
       \E k \in 1..Len(Banks) : Drivers(a) = {k} /\ Banks[k].type # "io"
ASSUME PlacedAssumption == Placed

Ran(f) == outcome = "halted" /\ args.file = f

Long(r, hi, lo) == r[hi] * Space + r[lo]

\* Bit n of the 36-bit value in r3:r2:r1.
BitAt(r, n) == Bit(r[1 + n \div 12], 2^(n % 12))
-----------------------------------------------------------------------------
\* Two-word addition is addition modulo 2^24, and T is its carry: what addc
\* leaves in T is what the next addc needs.
AddCarries ==
  Ran(MultiAdd) =>
    T * Space * Space + Long(reg, 2, 1) = Long(before, 2, 1) + Long(before, 4, 3)

\* Rotating three words through T shifts the 36-bit value, to either side, and
\* leaves the bit shifted out in T; the signed shift repeats the sign.
ShiftsThroughT ==
  /\ Ran(ShiftLeft) => /\ \A n \in 1..35 : BitAt(reg, n) = BitAt(before, n - 1)
                       /\ BitAt(reg, 0) = 0 /\ T = BitAt(before, 35)
  /\ Ran(ShiftRight) \/ Ran(ShiftSigned) =>
       /\ \A n \in 0..34 : BitAt(reg, n) = BitAt(before, n + 1)
       /\ BitAt(reg, 35) = IF Ran(ShiftSigned) THEN BitAt(before, 35) ELSE 0
       /\ T = BitAt(before, 0)

\* A compare into r0 and a branch 61 words back: taken exactly when r1 < r2,
\* unsigned.
ComparesUnsigned ==
  Ran(CompareBack) => reg[5] = (before[5] + Flag(before[1] < before[2])) % Space

\* A call through the link register itself comes back to the word after it.
CallReturns == Ran(Call) => reg[1] = (2 * before[1] + 63) % Space

\* asm.py has no or instruction: the sum less what both words share is their
\* union, and less it once more, what only one has.
UnitesBits ==
  \A n \in 0..11 : LET b == Bit(before[2], 2^n)
                      c == Bit(before[3], 2^n)
                  IN  /\ Ran(Or) => Bit(reg[1], 2^n) = IF b = 1 \/ c = 1 THEN 1 ELSE 0
                      /\ Ran(Xor) => Bit(reg[1], 2^n) = IF b # c THEN 1 ELSE 0

\* Every sequence has computed what is said of it when it halts: Arch.md's sum,
\* shifts, compare and call, and asm.py's or and xor, each carried through T,
\* the link register or the scratch register over several instructions.
SequencesCompute ==
  AddCarries /\ ShiftsThroughT /\ ComparesUnsigned /\ CallReturns /\ UnitesBits
=============================================================================
