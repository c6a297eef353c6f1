------------------------------- MODULE MCSim2 -------------------------------
(* Sim2 on three banks that touch, under every short program of chosen       *)
(* instructions.                                                             *)
EXTENDS Sim2, TLC

Touching == <<[type |-> "ram", base |-> 0, size |-> 4], [type |-> "rom", base |-> 5, size |-> 1],
              [type |-> "io", base |-> 4, size |-> 1]>>

Words == {R3(AND, 1, 2, 7), R3(SUB, 1, 0, 7), R3(SUB, 2, 1, 2), R3(ADD, 2, 7, 7), R3(ADDC, 1, 1, 1),
          RI(LUI, 1, 32), RI(LUI, 7, 63), RI(ADDI, 1, 5), RI(ADDI, 0, 2), RI(SUBI, 1, 1), RI(SUBI, 0, 1),
          R3(SPEC, 2, 1, JALR), R3(SPEC, 1, 1, JALR), R3(SPEC, 1, 1, ROR), R3(SPEC, 1, 7, ROL),
          R3(SPEC, 2, 0, LWR), R3(SPEC, 7, 1, SWR), R3(SPEC, 0, 0, 6)}

ShortFiles == {<<u, v, w, Halt, 0, 0>> : u \in Words, v \in Words, w \in Words}
=============================================================================
