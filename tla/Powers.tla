------------------------------- MODULE Powers -------------------------------
(* Powers of two, as a function of the exponent.                             *)
EXTENDS Integers

Pow[n \in Nat] == IF n = 0 THEN 1 ELSE 2 * Pow[n - 1]
=============================================================================
