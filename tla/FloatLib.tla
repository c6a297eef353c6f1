------------------------------ MODULE FloatLib ------------------------------
(***************************************************************************)
(* The float routines of the runtime (lib/float), label by label: the      *)
(* straight-line code between two labels is one action, every turn of a    *)
(* loop another.  A significand is a number: that chains of addc, rol and  *)
(* ror through T handle its words as one is shown in module Idioms.  The   *)
(* exponent is computed in one register and wraps there.                   *)
(***************************************************************************)
EXTENDS Float48

CONSTANTS Floats,    \* the operands called with
          Numbers    \* the words __itof is called with

ASSUME OperandAssumption == Floats \subseteq Float /\ Numbers \subseteq 0..(Space - 1)

\* fneg of a float: the sign bit of the first word wraps.
Negated(f) == [f EXCEPT !.s = (@ + 1) % 2]

Calls ==
  [op : {"fadd", "fsub", "fmul", "fdiv", "fcmp"}, a : Floats, b : Floats]
    \cup [op : {"ftoi"}, a : Floats] \cup [op : {"itof"}, n : Numbers]

VARIABLES
  call,     \* the routine and what its operands point to
  pc,       \* "enter", the loop it is in, "done"
  a, b,     \* unpacked operands; a has the larger exponent in __fadd
  r,        \* result under construction
  acc,      \* product, quotient or magnitude
  sh,       \* multiplicand or dividend, shifted left
  rem,      \* multiplier or remainder
  count,    \* loop counter
  result    \* float or word returned

work == <<a, b, r, acc, sh, rem, count>>
vars == <<call, pc, work, result>>

None == [s |-> 0, e |-> 0, sig |-> 0]

Init ==
  /\ call \in Calls
  /\ pc = "enter"
  /\ a = None /\ b = None /\ r = None /\ result = None
  /\ acc = 0 /\ sh = 0 /\ rem = 0 /\ count = 0

Return(value) == pc' = "done" /\ result' = value /\ UNCHANGED <<call, work>>
Continue(label) == pc' = label /\ UNCHANGED <<call, result>>

Enters(ops) == pc = "enter" /\ call.op \in ops

High(sig) == sig \div Space2
-----------------------------------------------------------------------------
(* __fadd, and __fsub, which hands it a copy of b with the sign turned.      *)

Addend == IF call.op = "fsub" THEN Negated(call.b) ELSE call.b

AddSpecial ==
  /\ Enters({"fadd", "fsub"})
  /\ \/ call.a.e = ExpMax /\ Return(call.a)
     \/ call.a.e # ExpMax /\ (Addend.e = ExpMax \/ call.a.e = 0) /\ Return(Addend)
     \/ call.a.e \notin {0, ExpMax} /\ Addend.e = 0 /\ Return(call.a)

\* Fault: the operands stay in the order they came in.
Ordered_AsGiven(x, y) == <<x, y>>

Ordered(x, y) == IF x.e < y.e THEN <<y, x>> ELSE <<x, y>>

AddEnter ==
  /\ Enters({"fadd", "fsub"})
  /\ {call.a.e, Addend.e} \cap {0, ExpMax} = {}
  /\ \E xy \in {Ordered(call.a, Addend)} :
       LET difference == (xy[1].e - xy[2].e) % ExpSpace
       IN  /\ a' = xy[1]
           /\ IF difference >= SigBits
              THEN b' = [xy[2] EXCEPT !.sig = 0] /\ count' = 0
              ELSE b' = xy[2] /\ count' = difference
  /\ Continue("align")
  /\ UNCHANGED <<r, acc, sh, rem>>

Align ==
  /\ pc = "align" /\ count > 0
  /\ b' = [b EXCEPT !.sig = @ \div 2]
  /\ count' = count - 1
  /\ UNCHANGED <<call, pc, a, r, acc, sh, rem, result>>

AddMagnitudes ==
  /\ pc = "align" /\ count = 0 /\ a.s = b.s
  /\ LET sum == a.sig + b.sig
     IN  \/ sum < SigSpace /\ Return(Pack(a.s, a.e, sum))
         \/ sum >= SigSpace /\ a.e + 1 < ExpMax /\ Return(Pack(a.s, a.e + 1, sum \div 2))
         \/ sum >= SigSpace /\ a.e + 1 >= ExpMax /\ Return(Inf(a.s))

\* The three words of a significand, added up.
WordSum(sig) == High(sig) + ((sig \div Space) % Space) + (sig % Space)

\* Fault: only the first word is tested.
LooksZero_FirstWord(sig) == High(sig) = 0

\* The sum of the three words, a word itself, stands for the test of all of them.
LooksZero(sig) == WordSum(sig) % Space = 0

Subtract ==
  /\ pc = "align" /\ count = 0 /\ a.s # b.s
  /\ LET difference == (a.sig - b.sig) % SigSpace
     IN  \/ LooksZero(difference) /\ Return(Zero(0))
         \/ /\ ~LooksZero(difference)
            /\ r' = [a EXCEPT !.sig = difference]
            /\ Continue("norm")
            /\ UNCHANGED <<a, b, acc, sh, rem, count>>

Normalise ==
  /\ pc = "norm"
  /\ \/ r.sig >= Lead /\ Return(Pack(r.s, r.e, r.sig))
     \/ r.sig < Lead /\ r.e = 1 /\ Return(Zero(0))
     \/ /\ r.sig < Lead /\ r.e # 1
        /\ r' = [r EXCEPT !.sig = 2 * @, !.e = @ - 1]
        /\ UNCHANGED <<call, pc, a, b, acc, sh, rem, count, result>>
-----------------------------------------------------------------------------
(* __fmul and __fdiv, on the first words of the significands.                *)

Sign == (call.a.s + call.b.s) % 2

MulSpecial ==
  /\ Enters({"fmul"})
  /\ \/ (call.a.e = 0 \/ call.b.e = 0) /\ Return(Zero(0))
     \/ call.a.e # 0 /\ call.b.e # 0 /\ ExpMax \in {call.a.e, call.b.e} /\ Return(Inf(Sign))

MulEnter ==
  /\ Enters({"fmul"})
  /\ {call.a.e, call.b.e} \cap {0, ExpMax} = {}
  /\ acc' = 0 /\ sh' = High(call.a.sig) /\ rem' = High(call.b.sig)
  /\ count' = WordBits
  /\ Continue("mul")
  /\ UNCHANGED <<a, b, r>>

MulLoop ==
  /\ pc = "mul" /\ count > 0
  /\ acc' = (acc + (rem % 2) * sh) % Space2
  /\ sh' = (2 * sh) % Space2
  /\ rem' = rem \div 2
  /\ count' = count - 1
  /\ UNCHANGED <<call, pc, a, b, r, result>>

\* The checks on the exponent of a product or quotient.
Checked(e, sig) == CASE e = 0 -> Zero(0)
                     [] e # 0 /\ e >= ExpMax -> Inf(Sign)
                     [] OTHER -> Pack(Sign, e, sig)

MulEnd ==
  /\ pc = "mul" /\ count = 0
  /\ LET e == call.a.e + call.b.e - Bias
     IN  IF acc >= Space2 \div 2
         THEN Return(Checked((e + 1) % ExpSpace, acc * Space))
         ELSE Return(Checked(e % ExpSpace, 2 * acc * Space))

DivSpecial ==
  /\ Enters({"fdiv"})
  /\ \/ call.b.e = 0 /\ Return(Inf(Sign))
     \/ call.b.e # 0 /\ call.a.e = 0 /\ Return(Zero(0))
     \/ call.b.e # 0 /\ call.a.e = ExpMax /\ Return(Inf(Sign))
     \/ call.b.e = ExpMax /\ call.a.e \notin {0, ExpMax} /\ Return(Zero(0))

DivEnter ==
  /\ Enters({"fdiv"})
  /\ {call.a.e, call.b.e} \cap {0, ExpMax} = {}
  /\ acc' = 0 /\ sh' = High(call.a.sig) /\ rem' = 0
  /\ count' = 2 * WordBits - 1
  /\ Continue("div")
  /\ UNCHANGED <<a, b, r>>

\* Fault: the bit shifted out of the remainder is forgotten.
Goes_WithoutCarry(remainder, divisor) == remainder % Space >= divisor

\* The remainder has a bit more than a word: it is in T.
Goes(remainder, divisor) == remainder >= Space \/ remainder >= divisor

DivLoop ==
  /\ pc = "div" /\ count > 0
  /\ LET divisor == High(call.b.sig)
         remainder == 2 * rem + (2 * sh) \div Space
     IN  IF Goes(remainder, divisor)
         THEN rem' = (remainder - divisor) % Space /\ acc' = (2 * acc + 1) % Space
         ELSE rem' = remainder % Space /\ acc' = (2 * acc) % Space
  /\ sh' = (2 * sh) % Space
  /\ count' = count - 1
  /\ UNCHANGED <<call, pc, a, b, r, result>>

DivEnd ==
  /\ pc = "div" /\ count = 0
  /\ LET e == call.a.e - call.b.e + Bias
     IN  IF acc >= Space \div 2
         THEN Return(Checked(e % ExpSpace, acc * Space2))
         ELSE Return(Checked((e - 1) % ExpSpace, 2 * acc * Space2))
-----------------------------------------------------------------------------
(* __fcmp, __itof and __ftoi.                                                *)

\* Fault: the larger magnitude is the larger number.
Turned_Never(sign, order) == order

\* Among negative numbers the larger magnitude is the smaller number.
Turned(sign, order) == IF sign = 1 THEN -order ELSE order

Order(m, n) == IF m < n THEN -1 ELSE IF n < m THEN 1 ELSE 0

Compare ==
  /\ Enters({"fcmp"})
  /\ LET x == call.a
         y == call.b
     IN  \/ x.e = 0 /\ y.e = 0 /\ Return(0)
         \/ {x.e, y.e} # {0} /\ x.s # y.s /\ Return(IF x.s = 1 THEN -1 ELSE 1)
         \/ {x.e, y.e} # {0} /\ x.s = y.s /\ x.e # y.e /\ Return(Turned(x.s, Order(x.e, y.e)))
         \/ {x.e, y.e} # {0} /\ x.s = y.s /\ x.e = y.e /\ Return(Turned(x.s, Order(x.sig, y.sig)))

\* Fault: the bias of a number one bit wider than a word.
OneWord_Wide == Bias + WordBits

\* The exponent of a number whose units are the last bit of the first word.
OneWord == Bias + WordBits - 1

IsNegative(n) == n >= Space \div 2

\* Fault: zero is normalised like any other word.
IsZero_Never(n) == FALSE

IsZero(n) == n = 0

ItofZero == Enters({"itof"}) /\ IsZero(call.n) /\ Return(Zero(0))

ItofEnter ==
  /\ Enters({"itof"}) /\ ~IsZero(call.n)
  /\ acc' = IF IsNegative(call.n) THEN (-call.n) % Space ELSE call.n
  /\ count' = 0
  /\ Continue("itof")
  /\ UNCHANGED <<a, b, r, sh, rem>>

ItofLoop ==
  /\ pc = "itof"
  /\ IF acc >= Space \div 2
     THEN Return(Pack(IF IsNegative(call.n) THEN 1 ELSE 0, OneWord - count, acc * Space2))
     ELSE /\ acc' = (2 * acc) % Space
          /\ count' = (count + 1) % ExpSpace
          /\ UNCHANGED <<call, pc, a, b, r, sh, rem, result>>

\* Shifted out of the word, to either side, or nothing to shift.
FtoiZero ==
  /\ Enters({"ftoi"})
  /\ call.a.e \in {0, ExpMax} \/ call.a.e - OneWord \notin (1 - WordBits)..(WordBits - 1)
  /\ Return(0)

FtoiEnter ==
  /\ Enters({"ftoi"})
  /\ call.a.e \notin {0, ExpMax}
  /\ call.a.e - OneWord \in (1 - WordBits)..(WordBits - 1)
  /\ acc' = High(call.a.sig)
  /\ IF call.a.e >= OneWord
     THEN count' = call.a.e - OneWord /\ Continue("left")
     ELSE count' = OneWord - call.a.e /\ Continue("right")
  /\ UNCHANGED <<a, b, r, sh, rem>>

FtoiLoop ==
  /\ pc \in {"left", "right"} /\ count > 0
  /\ acc' = IF pc = "left" THEN (2 * acc) % Space ELSE acc \div 2
  /\ count' = count - 1
  /\ UNCHANGED <<call, pc, a, b, r, sh, rem, result>>

FtoiEnd ==
  /\ pc \in {"left", "right"} /\ count = 0
  /\ Return(IF call.a.s = 1 THEN (-acc) % Space ELSE acc)

Next ==
  \/ AddSpecial \/ AddEnter \/ Align \/ AddMagnitudes \/ Subtract \/ Normalise
  \/ MulSpecial \/ MulEnter \/ MulLoop \/ MulEnd
  \/ DivSpecial \/ DivEnter \/ DivLoop \/ DivEnd
  \/ Compare \/ ItofZero \/ ItofEnter \/ ItofLoop
  \/ FtoiZero \/ FtoiEnter \/ FtoiLoop \/ FtoiEnd
-----------------------------------------------------------------------------
(* What the routines promise.                                                *)

Returned(ops) == pc = "done" /\ call.op \in ops
Operands == <<call.a, IF call.op \in {"fadd", "fsub"} THEN Addend ELSE call.b>>
BothNormal == Classes(Operands[1], Operands[2]) = <<"normal", "normal">>

\* Equal exponents, unequal signs, and the second significand is the larger.
Reversed == LET x == Operands[1]
                y == Operands[2]
            IN  BothNormal /\ x.e = y.e /\ x.s # y.s /\ x.sig < y.sig

\* What is left of the first significand when the second, of no larger exponent,
\* is aligned to it and taken away.
Remainder(x, y) ==
  LET distance == x.e - y.e
      aligned == IF distance >= SigBits THEN 0 ELSE y.sig \div Pow[distance]
  IN  (x.sig - aligned) % SigSpace

\* The fault of the test for zero: the difference of the significands is not
\* zero, but its three words add up to a multiple of a word.
Vanishes ==
  LET x == Operands[1]
      y == Operands[2]
      difference == IF x.e < y.e THEN Remainder(y, x) ELSE Remainder(x, y)
  IN  BothNormal /\ x.s # y.s /\ difference # 0 /\ WordSum(difference) % Space = 0

SameFloat(f, g) == f = g \/ (f.e = 0 /\ g.e = 0)

\* A float that __fmul and __fdiv take for f.
Cut(f) == [f EXCEPT !.sig = High(@) * Space2]

\* Where the reference has no number for the operands, the runtime returns one of
\* the summands, and zero or infinity as a product or quotient.
WithoutNaN(x, y) ==
  CASE call.op \in {"fadd", "fsub"} -> IF x.e = ExpMax THEN x ELSE y
    [] call.op = "fmul" -> IF 0 \in {x.e, y.e} THEN Zero(0) ELSE Inf(Sign)
    [] call.op = "fdiv" -> IF y.e = 0 \/ x.e = ExpMax THEN Inf(Sign) ELSE Zero(0)

\* The routines compute what the reference beside them computes, whatever the
\* operands.  They differ only in the sign of zero, in 12-bit factors and
\* quotients (float/README.md); where the reference has no number; where words
\* of a difference add up to nothing (Vanishes); where an exponent below zero
\* wraps around to infinity; and by one in the last place of a quotient.
AgreesWithReference ==
  LET x == Operands[1]
      y == Operands[2]
      reference == CASE call.op \in {"fadd", "fsub"} -> FaddBits(x, y)
                     [] call.op = "fmul" -> FmulBits(Cut(x), Cut(y))
                     [] call.op = "fdiv" -> FdivBits(Cut(x), Cut(y))
      wraps == BothNormal /\ result = Inf(Sign)
  IN  Returned({"fadd", "fsub", "fmul", "fdiv"}) =>
      IF reference = NaN THEN result = WithoutNaN(x, y)
      ELSE CASE call.op \in {"fadd", "fsub"} ->
                  IF Vanishes THEN result = Zero(0) ELSE SameFloat(result, reference)
             [] call.op = "fmul" ->
                  SameFloat(result, reference) \/ (wraps /\ x.e + y.e < Bias)
             [] call.op = "fdiv" ->
                  \/ SameFloat(result, Cut(reference))
                  \/ wraps /\ x.e + Bias < y.e + 1
                  \/ /\ BothNormal /\ reference.sig < SigSpace
                     /\ [result EXCEPT !.sig = @ + Space2] = Cut(reference)

\* The value of a float, in units of the least exponent.
Value(f) == IF f.e = 0 THEN 0 ELSE (IF f.s = 1 THEN -1 ELSE 1) * f.sig * Pow[f.e]
Magnitude(v) == IF v < 0 THEN -v ELSE v

\* A sum or difference is within one unit in the last place of the result or
\* of the larger operand; it is zero only below the least normal number and
\* infinite only above the largest.  The exceptions are those of the operands: a
\* larger second significand with the same exponent and the other sign, and a
\* difference whose words add up to nothing.
SumsAreClose ==
  LET x == Operands[1]
      y == Operands[2]
      exact == Value(x) + Value(y)
      scale == CHOOSE e \in {x.e, y.e, result.e} : \A d \in {x.e, y.e, result.e} : d <= e
  IN  Returned({"fadd", "fsub"}) /\ ExpMax \notin {x.e, y.e} /\ ~Reversed /\ ~Vanishes =>
        CASE result.e = ExpMax -> Magnitude(exact) >= SigSpace * Pow[ExpMax - 1]
          [] result.e = 0      -> Magnitude(exact) < 2 * Lead
          [] OTHER -> Magnitude(Value(result) - exact) < Pow[scale]

\* __fcmp orders floats, infinities included, as their values are ordered.
ComparesValues ==
  Returned({"fcmp"}) /\ "nan" \notin {Classify(call.a), Classify(call.b)} =>
    LET value(f) == IF f.e = ExpMax THEN (IF f.s = 1 THEN -1 ELSE 1) * SigSpace * Pow[ExpMax]
                    ELSE Value(f)
    IN  result = Order(value(call.a), value(call.b))

Signed(n) == IF IsNegative(n) THEN n - Space ELSE n
Unit == Pow[Bias + SigBits - 1]

\* __itof is exact, and __ftoi cuts off the fraction of every float whose whole
\* part fits in a word, so it takes back what __itof gave.
IntegersConvert ==
  /\ Returned({"itof"}) =>
       Value(result) = Signed(call.n) * Unit /\ Classify(result) \in {"zero", "normal"}
  /\ Returned({"ftoi"}) /\ Classify(call.a) = "normal" =>
       LET whole == Magnitude(Value(call.a)) \div Unit
           n == IF call.a.s = 1 THEN -whole ELSE whole
       IN  n \in -(Space \div 2)..(Space \div 2 - 1) => Signed(result) = n

\* Numbers keep their values when they are compared or converted.
KeepsValues == ComparesValues /\ IntegersConvert

\* float48.py, of the same step: '|a| >= |b| after the swap + alignment'.
LargerFirst == pc = "align" /\ count = 0 /\ a.s # b.s => a.sig >= b.sig
=============================================================================
