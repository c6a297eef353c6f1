------------------------------- MODULE MCCpu --------------------------------
(* Cpu on banks that meet and overlap, under every short program of chosen   *)
(* instructions.                                                             *)
EXTENDS Cpu, TLC

\* A ROM at 0..1; RAM at 2..4; a ROM at 4..5, over the last word of the RAM;
\* two io words; nothing behind them.
MeetingBanks == <<[type |-> "rom", base |-> 0, size |-> 2], [type |-> "ram", base |-> 2, size |-> 3],
                  [type |-> "rom", base |-> 4, size |-> 2], [type |-> "io", base |-> 6, size |-> 2]>>

Cleared == <<[o \in 0..1 |-> 0], [o \in 0..2 |-> 0], [o \in 0..1 |-> 0], [o \in {} |-> 0]>>
Regs(r1, r2, r3, r4, r5, r6) ==
  [r \in Reg |-> <<0, r1, r2, r3, r4, r5, r6, 4095>>[r + 1]]

\* What a cleared and a scrambled machine start with; the scrambled registers
\* point at each kind of address.
SomePowerUps ==
  {[reg |-> Regs(0, 0, 0, 0, 0, 0), T |-> 0, data |-> Cleared],
   [reg |-> Regs(1, 2, 3, 4, 5, 6), T |-> 1,
    data |-> [Cleared EXCEPT ![2] = [o \in 0..2 |-> 4095]]]}

\* One instruction of every kind, on registers that hold such addresses.
Words == {R3(AND, 3, 5, 6), R3(SUB, 3, 2, 1), R3(ADD, 1, 5, 7), R3(ADDC, 2, 7, 7),
          RI(LUI, 4, 63), RI(ADDI, 1, 2), RI(SUBI, 4, 1), RI(LUI, 0, 3), RI(ADDI, 7, 63),
          RI(ADDI, 0, 0),
          R3(SPEC, 1, 1, JALR), R3(SPEC, 7, 4, ROR), R3(SPEC, 6, 7, ROL),
          R3(SPEC, 7, 3, LWR), R3(SPEC, 1, 4, LWR), R3(SPEC, 5, 1, SWR), R3(SPEC, 6, 2, SWR),
          R3(SPEC, 4, 4, 5), Halt}

Second == {R3(SPEC, 1, 1, JALR), R3(SPEC, 5, 1, SWR), R3(SPEC, 6, 4, SWR), RI(ADDI, 7, 63),
           R3(ADDC, 2, 7, 7), R3(SPEC, 7, 3, LWR)}
ShortFiles == {<<u, v, w, x>> : u \in Words, v \in Second, w \in {R3(SPEC, 3, 5, SWR)}, x \in Words}
=============================================================================
