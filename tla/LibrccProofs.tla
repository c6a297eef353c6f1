---------------------------- MODULE LibrccProofs ----------------------------
(* Proofs about module Librcc, for words of every even size.                 *)
EXTENDS Librcc, Lemmas

(***************************************************************************)
(* Arithmetic.                                                             *)
(***************************************************************************)
LEMMA ModWord == ASSUME NEW v \in Int PROVE v % Space \in Word
BY SpaceAssumption DEF Word

LEMMA WordMod == ASSUME NEW v \in Word PROVE v % Space = v
BY SpaceAssumption DEF Word

LEMMA ModAdd ==
  ASSUME NEW a \in Int, NEW b \in Int
  PROVE  ((a % Space) + b) % Space = (a + b) % Space
<1>. DEFINE s == a % Space
            p == a \div Space
            c == s + b
            r == c % Space
            q == c \div Space
<1>1. p \in Int /\ s \in Int /\ a = p * Space + s
  BY SpaceAssumption
<1>2. c \in Int
  BY <1>1
<1>. HIDE DEF c
<1>3. q \in Int /\ r \in Nat /\ r < Space /\ c = q * Space + r
  BY <1>2, SpaceAssumption
<1>4. a + b = p * Space + q * Space + r
  <2>. HIDE DEF p, q, s, r
  <2>. QED BY <1>1, <1>3, SpaceAssumption DEF c
<1>. HIDE DEF p, q, s, r
<1>5. p * Space + q * Space = (p + q) * Space
  BY <1>1, <1>3, SpaceAssumption
<1>6. a + b = (p + q) * Space + r
  BY <1>1, <1>3, <1>4, <1>5, SpaceAssumption
<1>. DEFINE x == a + b
            k == p + q
<1>7. x \in Int /\ k \in Int /\ x = k * Space + r
  BY <1>1, <1>3, <1>6
<1>. HIDE DEF x, k
<1>8. r = x % Space
  BY <1>3, <1>7, SpaceAssumption, DivUnique
<1>. QED BY <1>8 DEF x, r, c, s

LEMMA MagnitudeIsAbs ==
  ASSUME NEW v \in Word
  PROVE  /\ Magnitude(v) \in Word /\ Magnitude(v) = Abs(Signed(v))
         /\ Signed(v) \in Int /\ (Signed(v) < 0) = (Sign(v) = 1) /\ Sign(v) \in {0, 1}
         /\ (Magnitude(v) = 0) = (v = 0) /\ (Signed(v) = 0) = (v = 0)
<1>1. CASE 2 * v >= Space
  <2>1. (0 - v) % Space = Space - v
    BY <1>1, SpaceAssumption DEF Word
  <2>. QED BY <1>1, <2>1, SpaceAssumption DEF Word, Magnitude, Neg, Sign, Signed, Abs
<1>2. CASE ~(2 * v >= Space)
  BY <1>2, SpaceAssumption DEF Word, Magnitude, Sign, Signed, Abs
<1>. QED BY <1>1, <1>2

LEMMA QuotientOfMagnitudes ==
  ASSUME NEW x \in Int, NEW y \in Int, NEW q \in Word, q = Abs(x) \div Abs(y)
  PROVE  Quotient(x, y) % Space = IF (x < 0) = (y < 0) THEN q ELSE Neg(q)
<1>1. q \in Int /\ q % Space = q /\ 0 - q = -q
  BY WordMod DEF Word
<1>2. Quotient(x, y) = IF (x < 0) = (y < 0) THEN q ELSE 0 - q
  BY <1>1 DEF Quotient
<1>. QED BY <1>1, <1>2 DEF Neg

LEMMA RemainderOfMagnitudes ==
  ASSUME NEW x \in Int, NEW y \in Int, y # 0, NEW r \in Word, r = Abs(x) % Abs(y)
  PROVE  Remainder(x, y) % Space = IF x < 0 THEN Neg(r) ELSE r
<1>. DEFINE q == Abs(x) \div Abs(y)
<1>1. Abs(x) \in Nat /\ Abs(y) \in Nat \ {0} /\ r \in Int /\ r % Space = r
  BY WordMod DEF Abs, Word
<1>2. q \in Int /\ Abs(x) = Abs(y) * q + r
  BY <1>1
<1>3. Quotient(x, y) = IF (x < 0) = (y < 0) THEN q ELSE -q
  BY DEF Quotient
<1>. HIDE DEF q
<1>4. y * Quotient(x, y) = IF x < 0 THEN -(Abs(y) * q) ELSE Abs(y) * q
  <2>1. (-y) * q = -(y * q) /\ y * (-q) = -(y * q) /\ -(-(y * q)) = y * q
    BY <1>2
  <2>. QED BY <1>2, <1>3, <2>1 DEF Abs
<1>5. Remainder(x, y) = IF x < 0 THEN 0 - r ELSE r
  <2>1. CASE x < 0
    BY <1>1, <1>2, <1>4, <2>1 DEF Remainder, Abs
  <2>2. CASE ~(x < 0)
    BY <1>1, <1>2, <1>4, <2>2 DEF Remainder, Abs
  <2>. QED BY <2>1, <2>2
<1>. QED BY <1>1, <1>5 DEF Neg

(***************************************************************************)
(* Types.                                                                  *)
(***************************************************************************)
LEMMA CallTypes ==
  ASSUME TypeOK
  PROVE  call.routine \in Routines /\ call.r3 \in Word /\ call.r2 \in Word
BY OperandAssumption DEF TypeOK

LEMMA SignTypes ==
  ASSUME NEW v \in Word
  PROVE  Sign(v) \in Word /\ Magnitude(v) \in Word /\ Neg(v) \in Word
<1>1. Sign(v) \in {0, 1} /\ 0 \in Word /\ 1 \in Word
  BY SpaceAssumption DEF Sign, Word
<1>2. 0 - v \in Int
  BY DEF Word
<1>3. Neg(v) \in Word
  BY <1>2, ModWord DEF Neg
<1>. QED BY <1>1, <1>3 DEF Magnitude

LEMMA LastSlotWord == LastSlot \in Word
<1>1. Top - 1 \in Int
  BY ScratchAssumption DEF Word
<1>. QED BY <1>1, ModWord DEF LastSlot

(***************************************************************************)
(* The inductive invariant: what lies on the stack at each place, how the  *)
(* registers of a loop relate to the operands of the call, and the         *)
(* results.                                                                *)
(***************************************************************************)
IsSigned == call.routine \in {"__div", "__mod"}
Dividend == IF IsSigned THEN Magnitude(call.r3) ELSE call.r3
Divisor == IF IsSigned THEN Magnitude(call.r2) ELSE call.r2

Frame == IF at = "loop" /\ call.routine = "__div"
         THEN <<Sign(call.r2), Sign(call.r3), Link>>
         ELSE IF at = "loop" /\ call.routine = "__mod"
         THEN <<Sign(call.r3), Link>>
         ELSE <<>>

StackInv == stack = Frame /\ r5 = Link

EntryInv == at = "entry" => r3 = call.r3 /\ r2 = call.r2

MulInv == at = "loop" /\ call.routine = "__mul" =>
            r3 = call.r3 /\ r2 <= call.r2 /\ r1 = ((call.r2 - r2) * call.r3) % Space

DivInv == at = "loop" /\ call.routine # "__mul" =>
            r2 = Divisor /\ r2 > 0 /\ Dividend = r1 * r2 + r4

Results == Product /\ UnsignedDivision /\ SignedDivision

IInv == TypeOK /\ StackInv /\ EntryInv /\ MulInv /\ DivInv /\ Results

USE DEF Enters, ByZero, Divisions, Routines, Push, Return, LoopEnds, Borrows

LEMMA CallStays == Next => call' = call
BY DEF Next, MulEnter, MulLoop, MulEnd, DivideByZero, UnsignedEnter, DivEnter, ModEnter,
       DivideLoop, UnsignedEnd, DivEnd, ModEnd

LEMMA Start == Init => IInv
<1>. SUFFICES ASSUME Init PROVE IInv
  OBVIOUS
<1>1. PICK f \in Routines, o \in Operands : call = [routine |-> f, r3 |-> o[1], r2 |-> o[2]]
  BY DEF Init
<1>2. call.r3 = o[1] /\ call.r2 = o[2] /\ o[1] \in Word /\ o[2] \in Word
  BY <1>1, OperandAssumption
<1>3. r1 \in Word /\ r2 \in Word /\ r3 \in Word /\ r4 \in Word /\ r5 \in Word
  BY <1>2, ScratchAssumption DEF Init
<1>4. stack = <<>> /\ stack \in Seq(Word) /\ at = "entry" /\ r5 = Link
  BY DEF Init
<1>5. TypeOK
  BY <1>1, <1>3, <1>4 DEF TypeOK
<1>6. StackInv
  BY <1>4 DEF StackInv, Frame
<1>7. EntryInv
  BY DEF EntryInv, Init
<1>8. MulInv /\ DivInv /\ Results
  BY <1>4 DEF MulInv, DivInv, Results, Product, UnsignedDivision, SignedDivision, Returned
<1>. QED BY <1>5, <1>6, <1>7, <1>8 DEF IInv

LEMMA StackStep == IInv /\ Next => StackInv'
<1>. SUFFICES ASSUME IInv, Next PROVE StackInv'
  OBVIOUS
<1>1. stack = Frame /\ r5 = Link /\ call' = call
  BY CallStays DEF IInv, StackInv
<1>2. EntryInv
  BY DEF IInv
<1>3. CASE MulEnter \/ MulLoop \/ MulEnd
  BY <1>1, <1>3 DEF StackInv, Frame, MulEnter, MulLoop, MulEnd
<1>4. CASE DivideByZero \/ UnsignedEnter \/ UnsignedEnd
  BY <1>1, <1>4 DEF StackInv, Frame, DivideByZero, UnsignedEnter, UnsignedEnd
<1>5. CASE DivEnter
  <2>1. stack = <<>> /\ stack' = <<Sign(r2), Sign(r3), r5>>
    BY <1>1, <1>5 DEF DivEnter, Frame
  <2>. QED BY <1>1, <1>2, <1>5, <2>1 DEF DivEnter, StackInv, Frame, EntryInv, Sign
<1>6. CASE ModEnter
  <2>1. stack = <<>> /\ stack' = <<Sign(r3), r5>>
    BY <1>1, <1>6 DEF ModEnter, Frame
  <2>. QED BY <1>1, <1>2, <1>6, <2>1 DEF ModEnter, StackInv, Frame, EntryInv, Sign
<1>7. CASE DivideLoop
  BY <1>1, <1>7 DEF DivideLoop, StackInv, Frame, Sign
<1>8. CASE DivEnd
  <2>1. stack = <<Sign(call.r2), Sign(call.r3), Link>>
    BY <1>1, <1>8 DEF DivEnd, Frame
  <2>2. stack' = <<>> /\ r5' = Link /\ at' = "returned"
    BY <1>8, <2>1 DEF DivEnd
  <2>. QED BY <2>2 DEF StackInv, Frame
<1>9. CASE ModEnd
  <2>1. stack = <<Sign(call.r3), Link>>
    BY <1>1, <1>9 DEF ModEnd, Frame
  <2>2. stack' = <<>> /\ r5' = Link /\ at' = "returned"
    BY <1>9, <2>1 DEF ModEnd
  <2>. QED BY <2>2 DEF StackInv, Frame
<1>. QED BY <1>3, <1>4, <1>5, <1>6, <1>7, <1>8, <1>9 DEF Next

LEMMA TypeStep == IInv /\ Next => TypeOK'
<1>. SUFFICES ASSUME IInv, Next PROVE TypeOK'
  OBVIOUS
<1>1. TypeOK /\ StackInv' /\ call' = call
  BY CallStays, StackStep DEF IInv
<1>2. r1 \in Word /\ r2 \in Word /\ r3 \in Word /\ r4 \in Word /\ r5 \in Word
  BY <1>1 DEF TypeOK
<1>3. stack' \in Seq(Word) /\ r5' \in Word
  <2>1. Sign(call.r2) \in Word /\ Sign(call.r3) \in Word /\ Link \in Word
    BY <1>1, CallTypes, SignTypes, ScratchAssumption
  <2>2. Frame' \in Seq(Word)
    BY <1>1, <2>1 DEF Frame, Sign
  <2>. QED BY <1>1, <2>1, <2>2 DEF StackInv
<1>4. (r1 + r3) % Space \in Word /\ (r1 + 1) % Space \in Word /\ 0 \in Word /\ LastSlot \in Word
  <2>1. r1 + r3 \in Int /\ r1 + 1 \in Int
    BY <1>2 DEF Word
  <2>2. 0 \in Word
    BY SpaceAssumption DEF Word
  <2>. QED BY <2>1, <2>2, ModWord, LastSlotWord
<1>5. r2 # 0 => r2 - 1 \in Word
  BY <1>2, SpaceAssumption DEF Word
<1>6. ~Borrows => r4 - r2 \in Word
  BY <1>2, SpaceAssumption DEF Word
<1>7. /\ Magnitude(r2) \in Word /\ Magnitude(r3) \in Word /\ Neg(r1) \in Word /\ Neg(r4) \in Word
  BY <1>2, SignTypes
<1>8. stack \in Seq(Word)
  BY <1>1 DEF TypeOK
<1>9. r1' \in Word
  BY <1>2, <1>4 DEF Next, MulEnter, MulLoop, MulEnd, DivideByZero, UnsignedEnter, DivEnter,
     ModEnter, DivideLoop, UnsignedEnd, DivEnd, ModEnd
<1>10. r2' \in Word
  BY <1>2, <1>4, <1>5, <1>7 DEF Next, MulEnter, MulLoop, MulEnd, DivideByZero, UnsignedEnter,
     DivEnter, ModEnter, DivideLoop, UnsignedEnd, DivEnd, ModEnd
<1>11. r3' \in Word
  BY <1>2, <1>7 DEF Next, MulEnter, MulLoop, MulEnd, DivideByZero, UnsignedEnter, DivEnter,
     ModEnter, DivideLoop, UnsignedEnd, DivEnd, ModEnd
<1>12. r4' \in Word
  <2>1. CASE DivEnd
    <3>1. stack[2] = Sign(call.r3)
      BY <2>1 DEF DivEnd, IInv, StackInv, Frame
    <3>2. stack[2] \in Word
      BY <3>1, <1>1, CallTypes, SignTypes
    <3>. QED BY <2>1, <3>2 DEF DivEnd
  <2>2. CASE ~DivEnd
    BY <2>2, <1>2, <1>6, <1>7 DEF Next, MulEnter, MulLoop, MulEnd, DivideByZero, UnsignedEnter,
       DivEnter, ModEnter, DivideLoop, UnsignedEnd, ModEnd
  <2>. QED BY <2>1, <2>2
<1>13. at' \in {"entry", "loop", "returned"}
  BY <1>1 DEF TypeOK, Next, MulEnter, MulLoop, MulEnd, DivideByZero, UnsignedEnter, DivEnter,
     ModEnter, DivideLoop, UnsignedEnd, DivEnd, ModEnd
<1>14. \E f \in Routines, o \in Operands : call' = [routine |-> f, r3 |-> o[1], r2 |-> o[2]]
  BY <1>1 DEF TypeOK
<1>. QED BY <1>3, <1>9, <1>10, <1>11, <1>12, <1>13, <1>14 DEF TypeOK

\* No action leads back to the entry.
LEMMA EntryStep == IInv /\ Next => EntryInv'
BY DEF EntryInv, Next, MulEnter, MulLoop, MulEnd, DivideByZero, UnsignedEnter, DivEnter,
   ModEnter, DivideLoop, UnsignedEnd, DivEnd, ModEnd, IInv

LEMMA MulStep == IInv /\ Next => MulInv'
<1>. SUFFICES ASSUME IInv, Next, at' = "loop", call.routine = "__mul" PROVE MulInv'
  BY CallStays DEF MulInv
<1>1. TypeOK /\ EntryInv /\ MulInv /\ call' = call
  BY CallStays DEF IInv
<1>. DEFINE c == call.r2
            d == call.r3
<1>2. r1 \in Word /\ r2 \in Word /\ r3 \in Word /\ c \in Word /\ d \in Word
  BY <1>1, CallTypes DEF TypeOK
<1>3. CASE MulEnter
  <2>1. r2' = c /\ r3' = d /\ r1' = 0
    BY <1>1, <1>3 DEF MulEnter, EntryInv
  <2>. HIDE DEF c, d
  <2>2. (c - c) * d = 0 /\ 0 % Space = 0 /\ c <= c
    BY <1>2, SpaceAssumption DEF Word
  <2>. QED BY <1>1, <2>1, <2>2 DEF MulInv, c, d
<1>4. CASE MulLoop
  <2>1. r3 = d /\ r2 <= c /\ r1 = ((c - r2) * d) % Space /\ r2 # 0
    BY <1>1, <1>4 DEF MulLoop, MulInv
  <2>2. r3' = d /\ r2' = r2 - 1 /\ r1' = (r1 + d) % Space
    BY <1>4, <2>1 DEF MulLoop
  <2>. HIDE DEF c, d
  <2>3. (c - r2) * d \in Int /\ d \in Int
    BY <1>2 DEF Word
  <2>4. (c - r2) * d + d = (c - (r2 - 1)) * d
    BY <1>2 DEF Word
  <2>5. r1' = ((c - r2) * d + d) % Space
    BY <2>1, <2>2, <2>3, ModAdd
  <2>6. r2 - 1 <= c
    BY <1>2, <2>1 DEF Word
  <2>. QED BY <1>1, <2>2, <2>4, <2>5, <2>6 DEF MulInv, c, d
<1>5. ~UnsignedEnter /\ ~DivEnter /\ ~ModEnter /\ ~DivideLoop
  BY DEF UnsignedEnter, DivEnter, ModEnter, DivideLoop
<1>. QED BY <1>3, <1>4, <1>5 DEF Next, MulEnd, DivideByZero, UnsignedEnd, DivEnd, ModEnd

LEMMA OperandTypes ==
  ASSUME TypeOK
  PROVE  Dividend \in Word /\ Divisor \in Word
BY CallTypes, SignTypes DEF Dividend, Divisor

\* The quotient has room for one more when one more subtraction is possible.
LEMMA QuotientFits ==
  ASSUME NEW q \in Word, NEW y \in Word, NEW r \in Word, NEW x \in Word,
         y > 0, r >= y, x = q * y + r
  PROVE  q + 1 \in Word /\ x = (q + 1) * y + (r - y)
<1>1. q \in Nat /\ y \in Nat /\ r \in Nat /\ x \in Nat /\ x < Space /\ q + 1 \in Nat
  BY SpaceAssumption DEF Word
<1>2. (q + 1) * y = q * y + y /\ y * (q + 1) = (q + 1) * y
  BY <1>1
<1>3. y * (q + 1) >= q + 1
  BY <1>1, MulGrows
<1>4. q * y \in Nat
  BY <1>1
<1>5. q + 1 <= x
  BY <1>1, <1>2, <1>3, <1>4
<1>. QED BY <1>1, <1>2, <1>4, <1>5, SpaceAssumption DEF Word

LEMMA DivStep == IInv /\ Next => DivInv'
<1>. SUFFICES ASSUME IInv, Next, at' = "loop", call.routine # "__mul" PROVE DivInv'
  BY CallStays DEF DivInv
<1>1. TypeOK /\ EntryInv /\ DivInv /\ call' = call
  BY CallStays DEF IInv
<1>2. /\ r1 \in Word /\ r2 \in Word /\ r4 \in Word /\ Dividend \in Word /\ Divisor \in Word
      /\ call.r2 \in Word /\ call.r3 \in Word
  BY <1>1, CallTypes, OperandTypes DEF TypeOK
<1>3. Dividend' = Dividend /\ Divisor' = Divisor
  BY <1>1 DEF Dividend, Divisor, IsSigned, Magnitude, Sign, Neg
<1>4. CASE UnsignedEnter \/ DivEnter \/ ModEnter
  <2>1. r4' = Dividend /\ r2' = Divisor /\ r1' = 0 /\ call.r2 # 0
    <3>1. r2 = call.r2 /\ r3 = call.r3
      BY <1>1, <1>4 DEF UnsignedEnter, DivEnter, ModEnter, EntryInv
    <3>2. CASE UnsignedEnter
      BY <3>1, <3>2 DEF UnsignedEnter, Dividend, Divisor, IsSigned
    <3>3. CASE DivEnter
      BY <3>1, <3>3 DEF DivEnter, Dividend, Divisor, IsSigned
    <3>4. CASE ModEnter
      BY <3>1, <3>4 DEF ModEnter, Dividend, Divisor, IsSigned
    <3>. QED BY <1>4, <3>2, <3>3, <3>4
  <2>2. Divisor # 0
    BY <1>2, <2>1, MagnitudeIsAbs DEF Divisor
  <2>3. Divisor > 0 /\ Dividend = 0 * Divisor + Dividend
    BY <1>2, <2>2 DEF Word
  <2>. QED BY <1>3, <2>1, <2>3 DEF DivInv
<1>5. CASE DivideLoop
  <2>1. r2 = Divisor /\ r2 > 0 /\ Dividend = r1 * r2 + r4 /\ r4 >= r2
    <3>1. r2 = Divisor /\ r2 > 0 /\ Dividend = r1 * r2 + r4 /\ ~(r4 < r2)
      BY <1>1, <1>5 DEF DivideLoop, DivInv
    <3>. QED BY <1>2, <3>1 DEF Word
  <2>2. r1 + 1 \in Word /\ Dividend = (r1 + 1) * r2 + (r4 - r2)
    BY <1>2, <2>1, QuotientFits
  <2>3. r1' = r1 + 1 /\ r4' = r4 - r2 /\ r2' = r2
    BY <1>5, <2>2, WordMod DEF DivideLoop
  <2>. QED BY <1>3, <2>1, <2>2, <2>3 DEF DivInv
<1>6. ~MulEnter /\ ~MulLoop
  BY DEF MulEnter, MulLoop
<1>. QED BY <1>4, <1>5, <1>6 DEF Next, MulEnd, DivideByZero, UnsignedEnd, DivEnd, ModEnd

LEMMA QuotientWord ==
  ASSUME TypeOK, DivInv, at = "loop", call.routine # "__mul", r4 < r2
  PROVE  r1 = Dividend \div Divisor /\ r4 = Dividend % Divisor
<1>1. r1 \in Nat /\ r4 \in Nat /\ Divisor \in Nat /\ Dividend \in Int
  <2>1. r1 \in Word /\ r4 \in Word /\ Divisor \in Word /\ Dividend \in Word
    BY OperandTypes DEF TypeOK
  <2>. QED BY <2>1, SpaceAssumption DEF Word
<1>2. r2 = Divisor /\ Divisor > 0 /\ Dividend = r1 * Divisor + r4 /\ r4 < Divisor
  BY DEF DivInv
<1>. QED BY <1>1, <1>2, DivUnique

\* At the end of each routine, r2 gets what the routine promises.
LEMMA ResultStep == IInv /\ Next => Results'
<1>. SUFFICES ASSUME IInv, Next, at' = "returned" PROVE Results'
  BY DEF Results, Product, UnsignedDivision, SignedDivision, Returned
<1>1. TypeOK /\ StackInv /\ EntryInv /\ MulInv /\ DivInv /\ call' = call
  BY CallStays DEF IInv
<1>2. call.r2 \in Word /\ call.r3 \in Word /\ r1 \in Word /\ r2 \in Word /\ r4 \in Word
  BY <1>1, CallTypes DEF TypeOK
<1>3. CASE MulEnd
  <2>1. r2' = ((call.r2 - 0) * call.r3) % Space /\ call.routine = "__mul"
    BY <1>1, <1>3 DEF MulEnd, MulInv
  <2>2. (call.r2 - 0) * call.r3 = call.r3 * call.r2
    BY <1>2 DEF Word
  <2>. QED BY <1>1, <2>1, <2>2
        DEF Results, Product, UnsignedDivision, SignedDivision, Returned
<1>4. CASE DivideByZero
  <2>1. call.r2 = 0 /\ r2' = 0 /\ call.routine # "__mul"
    BY <1>1, <1>4 DEF DivideByZero, EntryInv
  <2>2. Signed(call.r2) = 0
    BY <1>2, <2>1, MagnitudeIsAbs
  <2>. QED BY <1>1, <2>1, <2>2
        DEF Results, Product, UnsignedDivision, SignedDivision, Returned
<1>5. CASE UnsignedEnd
  <2>1. r1 = Dividend \div Divisor /\ r4 = Dividend % Divisor /\ Divisor > 0
    BY <1>1, <1>5, QuotientWord DEF UnsignedEnd, DivInv
  <2>2. Dividend = call.r3 /\ Divisor = call.r2
    BY <1>5 DEF UnsignedEnd, Dividend, Divisor, IsSigned
  <2>3. call.r2 # 0
    BY <1>2, <2>1, <2>2 DEF Word
  <2>4. CASE call.routine = "__udiv"
    BY <1>1, <1>5, <2>1, <2>2, <2>3, <2>4
    DEF UnsignedEnd, Results, Product, UnsignedDivision, SignedDivision, Returned
  <2>5. CASE call.routine = "__umod"
    BY <1>1, <1>5, <2>1, <2>2, <2>3, <2>5
    DEF UnsignedEnd, Results, Product, UnsignedDivision, SignedDivision, Returned
  <2>. QED BY <1>5, <2>4, <2>5 DEF UnsignedEnd
<1>. DEFINE x == Signed(call.r3)
            y == Signed(call.r2)
<1>6. ASSUME DivEnd \/ ModEnd
      PROVE  /\ r1 = Abs(x) \div Abs(y) /\ r4 = Abs(x) % Abs(y)
             /\ x \in Int /\ y \in Int /\ y # 0
  <2>1. r1 = Dividend \div Divisor /\ r4 = Dividend % Divisor /\ Divisor > 0
    BY <1>1, <1>6, QuotientWord DEF DivEnd, ModEnd, DivInv
  <2>2. Dividend = Magnitude(call.r3) /\ Divisor = Magnitude(call.r2)
    BY <1>6 DEF DivEnd, ModEnd, Dividend, Divisor, IsSigned
  <2>3. Magnitude(call.r3) = Abs(x) /\ Magnitude(call.r2) = Abs(y) /\ x \in Int /\ y \in Int
    BY <1>2, MagnitudeIsAbs
  <2>4. y # 0
    BY <2>1, <2>2, <2>3 DEF Abs
  <2>. QED BY <2>1, <2>2, <2>3, <2>4
<1>7. CASE DivEnd
  <2>1. stack[1] = Sign(call.r2) /\ stack[2] = Sign(call.r3)
    BY <1>1, <1>7 DEF DivEnd, StackInv, Frame
  <2>2. /\ (x < 0) = (Sign(call.r3) = 1) /\ (y < 0) = (Sign(call.r2) = 1)
        /\ Sign(call.r3) \in {0, 1} /\ Sign(call.r2) \in {0, 1}
    BY <1>2, MagnitudeIsAbs
  <2>3. r2' = IF (x < 0) = (y < 0) THEN r1 ELSE Neg(r1)
    BY <1>7, <2>1, <2>2 DEF DivEnd
  <2>4. r2' = Quotient(x, y) % Space
    BY <1>2, <1>6, <1>7, <2>3, QuotientOfMagnitudes
  <2>. QED BY <1>1, <1>6, <1>7, <2>4
        DEF DivEnd, Results, Product, UnsignedDivision, SignedDivision, Returned
<1>8. CASE ModEnd
  <2>1. stack[1] = Sign(call.r3)
    BY <1>1, <1>8 DEF ModEnd, StackInv, Frame
  <2>2. (x < 0) = (Sign(call.r3) = 1) /\ Sign(call.r3) \in {0, 1}
    BY <1>2, MagnitudeIsAbs
  <2>3. r2' = IF x < 0 THEN Neg(r4) ELSE r4
    BY <1>8, <2>1, <2>2 DEF ModEnd
  <2>4. r2' = Remainder(x, y) % Space
    BY <1>2, <1>6, <1>8, <2>3, RemainderOfMagnitudes
  <2>. QED BY <1>1, <1>6, <1>8, <2>4
        DEF ModEnd, Results, Product, UnsignedDivision, SignedDivision, Returned
<1>9. ~MulEnter /\ ~MulLoop /\ ~UnsignedEnter /\ ~DivEnter /\ ~ModEnter /\ ~DivideLoop
  BY DEF MulEnter, MulLoop, UnsignedEnter, DivEnter, ModEnter, DivideLoop
<1>. QED BY <1>3, <1>4, <1>5, <1>7, <1>8, <1>9 DEF Next

LEMMA Step == IInv /\ [Next]_vars => IInv'
<1>1. CASE Next
  BY <1>1, TypeStep, StackStep, EntryStep, MulStep, DivStep, ResultStep DEF IInv
<1>2. CASE UNCHANGED vars
  BY <1>2 DEF vars, IInv, TypeOK, StackInv, Frame, EntryInv, MulInv, DivInv, Dividend, Divisor,
     IsSigned, Magnitude, Sign, Neg, Results, Product, UnsignedDivision, SignedDivision, Returned,
     Signed, Quotient, Remainder, Abs
<1>. QED BY <1>1, <1>2

LEMMA Inductive == Spec => []IInv
BY Start, Step, PTL DEF Spec

\* Registers and stack hold words.
THEOREM TypeCorrect == Spec => []TypeOK
<1>1. IInv => TypeOK
  BY DEF IInv
<1>. QED BY <1>1, Inductive, PTL

\* __mul returns the product modulo the number of words, for every pair of
\* operands (librcc.s 48-59).
THEOREM MultipliesRight == Spec => []Product
<1>1. IInv => Product
  BY DEF IInv, Results
<1>. QED BY <1>1, Inductive, PTL

\* __udiv and __umod return quotient and remainder of unsigned operands, and
\* zero for a zero divisor (librcc.s 63-101).
THEOREM DividesUnsigned == Spec => []UnsignedDivision
<1>1. IInv => UnsignedDivision
  BY DEF IInv, Results
<1>. QED BY <1>1, Inductive, PTL

\* __div and __mod truncate towards zero and give the remainder the sign of the
\* dividend, the least number included (librcc.s 105-207).
THEOREM DividesSigned == Spec => []SignedDivision
<1>1. IInv => SignedDivision
  BY DEF IInv, Results
<1>. QED BY <1>1, Inductive, PTL

\* Whoever returns has popped what it pushed and has the caller's address in r5.
THEOREM CallKept == Spec => []KeepsTheCall
<1>1. IInv => KeepsTheCall
  BY DEF IInv, StackInv, Frame, KeepsTheCall
<1>. QED BY <1>1, Inductive, PTL
=============================================================================
