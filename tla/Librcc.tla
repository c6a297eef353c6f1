------------------------------- MODULE Librcc -------------------------------
(***************************************************************************)
(* The integer routines of lib/librcc.s: multiplication by repeated        *)
(* addition, division by repeated subtraction, and the signed forms, which *)
(* divide magnitudes and keep the signs on the stack.  Operands come in r3 *)
(* and r2, the result goes back in r2, r5 is the return address.           *)
(*                                                                         *)
(* One action is one piece of straight-line code, from a label to the      *)
(* branch or return that ends it.  A word is a number below Space, so that *)
(* TLC can take every pair of operands of a short word; the machine has    *)
(* Space = 4096.                                                           *)
(***************************************************************************)
EXTENDS Integers, Sequences

CONSTANTS Space,      \* the number of words, an even number
          Operands,   \* the pairs <<r3, r2>> of a call
          Scratch,    \* what a caller may leave in r1 and r4
          Link,       \* a return address
          Top         \* the caller's r6

Word == 0..(Space - 1)

ASSUME SpaceAssumption == Space \in Nat /\ Space > 0 /\ Space % 2 = 0
ASSUME OperandAssumption == Operands \subseteq Word \X Word
ASSUME ScratchAssumption == Scratch \subseteq Word /\ Link \in Word /\ Top \in Word

Routines == {"__mul", "__udiv", "__umod", "__div", "__mod"}

VARIABLES
  call,      \* the call: the routine and the values of r3 and r2
  at,        \* "entry", the loop of the routine, or "returned"
  r1, r2, r3, r4, r5,
  stack      \* the words from r6 up to the caller's r6, the word at r6 first

vars == <<call, at, r1, r2, r3, r4, r5, stack>>

Init == /\ \E f \in Routines, o \in Operands : call = [routine |-> f, r3 |-> o[1], r2 |-> o[2]]
        /\ at = "entry"
        /\ r3 = call.r3 /\ r2 = call.r2 /\ r5 = Link
        /\ r1 \in Scratch /\ r4 \in Scratch
        /\ stack = <<>>

Neg_NoMask(v) == 0 - v      \* fault: the difference is not cut to a word
Neg(v) == (0 - v) % Space
Sign(v) == IF 2 * v >= Space THEN 1 ELSE 0      \* rol moves it into T
Magnitude(v) == IF Sign(v) = 1 THEN Neg(v) ELSE v

Enters(routines) == at = "entry" /\ call.routine \in routines
Push(s) == stack' = s \o stack

\* jalr r0, r5: back to the caller, if r5 still is its address.
Return == at' = "returned"
-----------------------------------------------------------------------------
(* __mul *)

MulEnter_NoClear ==      \* fault: the sum starts from what r1 holds
  /\ Enters({"__mul"})
  /\ at' = "loop" /\ UNCHANGED <<call, r1, r2, r3, r4, r5, stack>>
MulEnter == /\ Enters({"__mul"})
            /\ r1' = 0 /\ at' = "loop"
            /\ UNCHANGED <<call, r2, r3, r4, r5, stack>>

\* sub r0, r0, r7 sets T, so the branch that closes the loop is always taken.
MulLoop == /\ at = "loop" /\ call.routine = "__mul" /\ r2 # 0
           /\ r1' = (r1 + r3) % Space /\ r2' = r2 - 1
           /\ UNCHANGED <<call, at, r3, r4, r5, stack>>

MulEnd == /\ at = "loop" /\ call.routine = "__mul" /\ r2 = 0
          /\ r2' = r1 /\ Return
          /\ UNCHANGED <<call, r1, r3, r4, r5, stack>>
-----------------------------------------------------------------------------
(* The other four begin with the test for zero and share their loop. *)

Divisions == Routines \ {"__mul"}
ByZero == Enters(Divisions) /\ r2 = 0

DivideByZero == /\ ByZero
                /\ r2' = 0 /\ Return
                /\ UNCHANGED <<call, r1, r3, r4, r5, stack>>

UnsignedEnter_Zero ==      \* fault: no test for zero
  /\ Enters({"__udiv", "__umod"})
  /\ r4' = r3 /\ r1' = 0 /\ at' = "loop"
  /\ UNCHANGED <<call, r2, r3, r5, stack>>
UnsignedEnter == /\ Enters({"__udiv", "__umod"}) /\ ~ByZero
                 /\ r4' = r3 /\ r1' = 0 /\ at' = "loop"
                 /\ UNCHANGED <<call, r2, r3, r5, stack>>

\* The sign of r2 is on top of the sign of r3, on top of the link.
DivEnter == /\ Enters({"__div"}) /\ ~ByZero
            /\ Push(<<Sign(r2), Sign(r3), r5>>)
            /\ r3' = Magnitude(r3) /\ r2' = Magnitude(r2)
            /\ r4' = r3' /\ r1' = 0 /\ at' = "loop"
            /\ UNCHANGED <<call, r5>>

ModEnter == /\ Enters({"__mod"}) /\ ~ByZero
            /\ Push(<<Sign(r3), r5>>)
            /\ r3' = Magnitude(r3) /\ r2' = Magnitude(r2)
            /\ r4' = r3' /\ r1' = 0 /\ at' = "loop"
            /\ UNCHANGED <<call, r5>>

\* sub r0, r4, r2: T tells whether another subtraction would borrow.
Borrows_OrZero == r4 <= r2      \* fault: the last one is not made when it leaves zero
Borrows == r4 < r2

DivideLoop == /\ at = "loop" /\ call.routine \in Divisions /\ ~Borrows
              /\ r4' = r4 - r2 /\ r1' = (r1 + 1) % Space
              /\ UNCHANGED <<call, at, r2, r3, r5, stack>>

LoopEnds(routine) == at = "loop" /\ call.routine = routine /\ Borrows

UnsignedEnd == /\ \/ LoopEnds("__udiv") /\ r2' = r1
                  \/ LoopEnds("__umod") /\ r2' = r4
               /\ Return /\ UNCHANGED <<call, r1, r3, r4, r5, stack>>

\* The word right below the caller's: the signed routines pop the link there.
LastSlot == (Top - 1) % Space

\* The signs add up to one when just one operand was negative.
DivEnd_LinkLast ==      \* fault: the link is taken from the sign's place
  /\ LoopEnds("__div")
  /\ r2' = IF stack[1] + stack[2] = 1 THEN Neg(r1) ELSE r1
  /\ r4' = stack[2] /\ r5' = stack[2] /\ r1' = LastSlot
  /\ stack' = Tail(Tail(stack))
  /\ Return /\ UNCHANGED <<call, r3>>
DivEnd == /\ LoopEnds("__div")
          /\ r2' = IF stack[1] + stack[2] = 1 THEN Neg(r1) ELSE r1
          /\ r4' = stack[2] /\ r5' = stack[3] /\ r1' = LastSlot
          /\ stack' = SubSeq(stack, 4, Len(stack))
          /\ Return /\ UNCHANGED <<call, r3>>

ModEnd_Floored ==      \* fault: the remainder is made to fit the divisor's sign
  /\ LoopEnds("__mod")
  /\ r4' = IF Sign(call.r2) # 0 THEN Neg(r4) ELSE r4
  /\ r2' = r4' /\ r1' = LastSlot
  /\ r5' = stack[2] /\ stack' = SubSeq(stack, 3, Len(stack))
  /\ Return /\ UNCHANGED <<call, r3>>
ModEnd == /\ LoopEnds("__mod")
          /\ r4' = IF stack[1] # 0 THEN Neg(r4) ELSE r4
          /\ r2' = r4' /\ r1' = LastSlot
          /\ r5' = stack[2] /\ stack' = SubSeq(stack, 3, Len(stack))
          /\ Return /\ UNCHANGED <<call, r3>>
-----------------------------------------------------------------------------
Next == \/ MulEnter \/ MulLoop \/ MulEnd
        \/ DivideByZero \/ UnsignedEnter \/ DivEnter \/ ModEnter \/ DivideLoop
        \/ UnsignedEnd \/ DivEnd \/ ModEnd

Spec == Init /\ [][Next]_vars /\ WF_vars(Next)
-----------------------------------------------------------------------------
\* Registers hold words: nothing but the two moduli of the code keeps them so.
TypeOK == /\ \E f \in Routines, o \in Operands : call = [routine |-> f, r3 |-> o[1], r2 |-> o[2]]
          /\ at \in {"entry", "loop", "returned"}
          /\ r1 \in Word /\ r2 \in Word /\ r3 \in Word /\ r4 \in Word /\ r5 \in Word
          /\ stack \in Seq(Word)

Returned(routine) == at = "returned" /\ call.routine = routine

Signed(v) == IF Sign(v) = 1 THEN v - Space ELSE v
Abs(x) == IF x < 0 THEN -x ELSE x

\* Division as C has it: towards zero, the remainder with the dividend's sign.
Quotient(x, y) == LET q == Abs(x) \div Abs(y) IN IF (x < 0) = (y < 0) THEN q ELSE -q
Remainder(x, y) == x - y * Quotient(x, y)

\* __mul: the product modulo the word size, for signed and unsigned operands.
Product == Returned("__mul") => r2 = (call.r3 * call.r2) % Space

\* __udiv and __umod: quotient and remainder, or zero for a zero divisor.
UnsignedDivision ==
  /\ Returned("__udiv") => r2 = IF call.r2 = 0 THEN 0 ELSE call.r3 \div call.r2
  /\ Returned("__umod") => r2 = IF call.r2 = 0 THEN 0 ELSE call.r3 % call.r2

\* __div and __mod: C's division of the signed values, whose one overflow, the
\* least number by -1, wraps; zero for a zero divisor.
SignedDivision ==
  LET x == Signed(call.r3)
      y == Signed(call.r2)
  IN  /\ Returned("__div") => r2 = IF y = 0 THEN 0 ELSE Quotient(x, y) % Space
      /\ Returned("__mod") => r2 = IF y = 0 THEN 0 ELSE Remainder(x, y) % Space

\* Every path comes back to the caller, with the caller's stack pointer.
KeepsTheCall == at = "returned" => r5 = Link /\ stack = <<>>

\* Every call comes back.
Returns == <>(at = "returned")
=============================================================================
