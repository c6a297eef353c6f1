------------------------------ MODULE MCLibrcc ------------------------------
(* Librcc on every pair of five-bit words.                                   *)
EXTENDS Librcc

AllOperands == Word \X Word
=============================================================================
