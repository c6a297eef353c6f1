------------------------------- MODULE Sixbit -------------------------------
(***************************************************************************)
(* The RRISC SIXBIT character set (pytools/sixbit.py; the decode table is  *)
(* repeated in sim2.c).  A host character is its code point, a SIXBIT      *)
(* value a number in 0..63.  The tables are given by what they compute:    *)
(* 1..30 are the upper-case letters and [ \ ] ^, 31 is newline, 32..63 are *)
(* the code points of space to '?'; 0 decodes to no character.             *)
(***************************************************************************)
EXTENDS Integers

NoChar == -1               \* Python's None / '' : no such character or value

Newline == 10
CarriageReturn == 13

Encode_LowBits(ch) == ch % 64      \* fault: the line ends are not mapped

\* encode_sixbit: lower case folds to upper, CR to newline, and a character
\* outside the table ('@', '_', control characters, 8-bit bytes) has no value.
Encode(ch) ==
  CASE ch \in 32..63                       -> ch
    [] ch \in 65..94                       -> ch - 64
    [] ch \in 97..122                      -> ch - 96
    [] ch \in {Newline, CarriageReturn}    -> 31
    [] OTHER                               -> NoChar

\* decode_sixbit: NUL decodes to the empty string.
Decode(v) ==
  LET w == v % 64 IN
  CASE w \in 1..30  -> w + 64
    [] w = 31       -> Newline
    [] w \in 32..63 -> w
    [] w = 0        -> NoChar
=============================================================================
