------------------------------ MODULE MCIdioms ------------------------------
(* Idioms on operands at the edges of a word.                                *)
EXTENDS Idioms, TLC

OneBank == <<[type |-> "ram", base |-> 0, size |-> 68]>>

Edges == {0, 1, 2047, 2048, 4095}
Operands ==
  {[reg |-> [r \in Reg |-> <<0, a, b, c, d, 0, 0, 4095>>[r + 1]], T |-> t,
    data |-> <<[o \in 0..67 |-> 0]>>] :
     a \in Edges, b \in Edges, c \in Edges, d \in Edges, t \in {0, 1}}
=============================================================================
