------------------------------- MODULE Float48 -------------------------------
(***************************************************************************)
(* The 48-bit float of RRISC and the reference arithmetic that is written  *)
(* beside the runtime (pytools/float48.py).  The format is a parameter: a  *)
(* significand of three words, an exponent and a sign.  A normal number    *)
(* has its leading bit set; exponent 0 is zero, ExpMax infinity or NaN.    *)
(***************************************************************************)
EXTENDS Powers

CONSTANTS WordBits,  \* 12 in the code
          ExpMax,    \* 2047
          Bias       \* 1024

ASSUME FormatAssumption ==
  /\ WordBits \in Nat \ {0} /\ ExpMax \in Nat /\ Bias \in 1..ExpMax
  /\ Bias + WordBits - 1 < ExpMax    \* a word is a normal number

Space == Pow[WordBits]
Space2 == Space * Space
SigBits == 3 * WordBits
SigSpace == Pow[SigBits]
Lead == Pow[SigBits - 1]

\* Bits of the first word, which the runtime computes exponents in.
ExpSpace == 2 * (ExpMax + 1)

Pack(sign, e, sig) == [s |-> sign % 2, e |-> e % (ExpMax + 1), sig |-> sig % SigSpace]

\* A number that is neither zero nor above all numbers has its leading bit set.
Float == {f \in [s : {0, 1}, e : 0..ExpMax, sig : 0..(SigSpace - 1)] :
            f.e \in 1..(ExpMax - 1) => f.sig >= Lead}

Zero(sign) == Pack(sign, 0, 0)
Inf(sign) == Pack(sign, ExpMax, 0)
NaN == Pack(0, ExpMax, Lead)

Classify(f) == CASE f.e = 0                        -> "zero"
                 [] f.e = ExpMax /\ f.sig = 0      -> "inf"
                 [] f.e = ExpMax /\ f.sig # 0      -> "nan"
                 [] OTHER                          -> "normal"
Classes(a, b) == <<Classify(a), Classify(b)>>

\* An exponent too large or too small for the format.
Fit(sign, e, sig) == CASE e >= ExpMax -> Inf(sign)
                       [] e <= 0      -> Zero(sign)
                       [] OTHER       -> Pack(sign, e, sig)

\* Bits to the leading one: what the loop shifts by.
Shift(sig) == CHOOSE k \in 0..(SigBits - 1) : sig * Pow[k] \in Lead..(SigSpace - 1)

\* _special_addsub.
SpecialSum(a, b) ==
  LET c == Classes(a, b)
  IN  CASE c[1] = "nan" \/ c[2] = "nan" -> NaN
        [] c = <<"inf", "inf">>         -> IF a.s = b.s THEN Inf(a.s) ELSE NaN
        [] c[1] = "inf" /\ c[2] \in {"zero", "normal"} -> Inf(a.s)
        [] c[2] = "inf" /\ c[1] \in {"zero", "normal"} -> Inf(b.s)
        [] c = <<"zero", "zero">>       -> Zero(a.s * b.s)
        [] c = <<"zero", "normal">>     -> b
        [] c = <<"normal", "zero">>     -> a

\* Two normal numbers, the one with the larger exponent first.  A negative
\* difference has its leading bit set and is not shifted.
SumOf(a, b) ==
  LET aligned == IF a.e - b.e >= SigBits THEN 0 ELSE b.sig \div Pow[a.e - b.e]
      sum == a.sig + aligned
      difference == (a.sig - aligned) % SigSpace
  IN  CASE a.s = b.s /\ sum >= SigSpace -> Fit(a.s, a.e + 1, sum \div 2)
        [] a.s = b.s /\ sum < SigSpace  -> Fit(a.s, a.e, sum)
        [] a.s # b.s /\ a.sig = aligned -> Zero(0)
        [] OTHER -> Fit(a.s, a.e - Shift(difference), difference * Pow[Shift(difference)])

FaddBits(a, b) ==
  CASE Classes(a, b) # <<"normal", "normal">> -> SpecialSum(a, b)
    [] Classes(a, b) = <<"normal", "normal">> /\ a.e >= b.e -> SumOf(a, b)
    [] OTHER -> SumOf(b, a)

FmulBits(a, b) ==
  LET c == Classes(a, b)
      sign == a.s + b.s
      product == a.sig * b.sig
  IN  CASE c[1] = "nan" \/ c[2] = "nan" \/ c \in {<<"zero", "inf">>, <<"inf", "zero">>} -> NaN
        [] c \in {<<"inf", "inf">>, <<"inf", "normal">>, <<"normal", "inf">>} -> Inf(sign)
        [] c \in {<<"zero", "zero">>, <<"zero", "normal">>, <<"normal", "zero">>} -> Zero(sign)
        [] OTHER -> IF product >= SigSpace * Lead
                    THEN Fit(sign, a.e + b.e - Bias + 1, product \div SigSpace)
                    ELSE Fit(sign, a.e + b.e - Bias, product \div Lead)

FdivBits(a, b) ==
  LET c == Classes(a, b)
      sign == a.s + b.s
      q == (a.sig * SigSpace) \div b.sig
  IN  CASE c[1] = "nan" \/ c[2] = "nan" \/ c \in {<<"zero", "zero">>, <<"inf", "inf">>} -> NaN
        [] c \in {<<"normal", "zero">>, <<"inf", "zero">>, <<"inf", "normal">>} -> Inf(sign)
        [] c \in {<<"zero", "normal">>, <<"zero", "inf">>, <<"normal", "inf">>} -> Zero(sign)
        [] OTHER -> IF q >= SigSpace THEN Fit(sign, a.e - b.e + Bias, q \div 2)
                    ELSE Fit(sign, a.e - b.e + Bias - 1, q)
=============================================================================
