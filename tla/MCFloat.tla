------------------------------- MODULE MCFloat -------------------------------
(* Words of four bits and exponents up to 15: leading bits, last bits,       *)
(* differences whose words add up to a full word, alignments by every        *)
(* distance up to beyond the significand; texts to the base three.           *)
EXTENDS Decimal

Significands == {Lead + d : d \in {0, 1, 31, 273, 1024, 1536, 2018, 2047}}
Exponents == {1, 2, 7, 8, 9, 10, 11, 14}
Specials == {Zero(0), Zero(1), Inf(0), Inf(1), NaN}
ManyFloats == [s : {0, 1}, e : Exponents, sig : Significands] \cup Specials
Words == 0..(Space - 1)

\* Blanks, a sign, digits, a point, digits and what stops them.
Strings(S, n) == UNION {[1..k -> S] : k \in 0..n}
ManyTexts ==
  {sign \o whole \o tail \o <<Nul>> :
     sign \in {<<>>, <<Minus>>, <<Plus>>, <<Blank>>, <<Blank, Blank, Minus>>, <<Minus, Minus>>},
     whole \in Strings(0..2, 3),
     tail \in {<<>>, <<Minus>>, <<Dot>>, <<Dot, Dot, 1>>}
                \cup {<<Dot>> \o fraction : fraction \in Strings(0..2, 3)}}

\* One and one and a half.
FewFloats == {Pack(s, Bias, sig) : s \in {0, 1}, sig \in {Lead, Lead + Lead \div 2}}
=============================================================================
