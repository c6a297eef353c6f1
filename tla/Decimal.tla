------------------------------- MODULE Decimal -------------------------------
(***************************************************************************)
(* Numbers as text: itoa (lib/itoa.s), __ftoa and __atof (lib/float), which *)
(* call itoa and the routines of module FloatLib.  A character is a number: *)
(* a digit its value, the others the names below.  The base is a parameter. *)
(***************************************************************************)
EXTENDS FloatLib, Sequences

LOCAL INSTANCE SequencesExt

CONSTANTS Ten,          \* 10 in the code
          FracDigits,   \* 4: digits __ftoa writes behind the point
          Texts         \* what __atof is called with

Nul == -1
Minus == -2
Plus == -3
Dot == -4
Blank == -5
IsDigit(c) == c >= 0

\* A text ends with its only Nul.
ASSUME TextAssumption ==
  /\ Ten \in 2..(Space \div 2 - 1) /\ FracDigits \in Nat \ {0}
  /\ \A s \in Texts : /\ s \in Seq(Blank..(Ten - 1)) /\ s # <<>>
                      /\ \A i \in 1..Len(s) : s[i] = Nul <=> i = Len(s)

Jobs == Calls \cup [op : {"itoa"}, n : Numbers] \cup [op : {"ftoa"}, x : Floats]
              \cup [op : {"atof"}, s : Texts]

VARIABLES
  job,        \* what the program called
  at,         \* label in itoa, __ftoa or __atof, "done"
  back,       \* where itoa returns to
  buf,        \* the characters written
  it,         \* frame of itoa
  fr,         \* frame of __ftoa or __atof
  vanished    \* some nonzero difference has been taken for zero

tvars == <<job, at, back, buf, it, fr, vanished>>

BufSize == 3 * WordBits + FracDigits

TInit ==
  /\ job \in Jobs
  /\ IF job \in Calls THEN call = job /\ pc = "enter" /\ at = "done"
     ELSE call = [op |-> "itof", n |-> 0] /\ pc = "done" /\ at = job.op
  /\ a = None /\ b = None /\ r = None /\ result = None
  /\ acc = 0 /\ sh = 0 /\ rem = 0 /\ count = 0
  /\ back = "done"
  /\ buf = [i \in 0..BufSize |-> Blank]
  /\ it = [n |-> IF job.op = "itoa" THEN job.n ELSE 0, buf |-> 0, p |-> 0,
           start |-> 0, end |-> 0, neg |-> FALSE, tmp |-> 0]
  /\ fr = [x |-> IF job.op = "ftoa" THEN job.x ELSE None, ten |-> None, frac |-> None,
           scale |-> None, fval |-> None, ipart |-> 0, iter |-> 0, p |-> 0, neg |-> FALSE]
  /\ vanished = FALSE

\* The routine called runs until it returns.
Library ==
  /\ Next
  /\ vanished' = (vanished \/ (pc' = "done" /\ call.op \in {"fadd", "fsub"} /\ Vanishes'))
  /\ UNCHANGED <<job, at, back, buf, it, fr>>

At(label) == at = label /\ pc = "done"
CallFloat(c, label) ==
  /\ call' = c /\ pc' = "enter" /\ at' = label
  /\ UNCHANGED <<job, back, work, result, vanished>>
Goto(label) == at' = label /\ UNCHANGED <<vars, job, back, vanished>>

Of(op, x, y) == [op |-> op, a |-> x, b |-> y]
Truncate(x) == [op |-> "ftoi", a |-> x]
FromWord(n) == [op |-> "itof", n |-> n]
-----------------------------------------------------------------------------
(* itoa *)

\* The digits of a number.
DecimalOf(n) ==
  LET digits[m \in 0..n] == IF m < Ten THEN <<m>> ELSE Append(digits[m \div Ten], m % Ten)
  IN  digits[n]

ItoaReturn(buffer, last) ==
  /\ buf' = [buffer EXCEPT ![last] = Nul]
  /\ at' = back
  /\ UNCHANGED <<vars, job, back, fr, vanished>>

\* The number without a positive twin is written out as it is.
ItoaLeast ==
  /\ At("itoa") /\ it.n = Space \div 2
  /\ LET digits == <<Minus>> \o DecimalOf(Space \div 2)
     IN  ItoaReturn([i \in DOMAIN buf |->
                       IF i - it.buf \in 0..(Len(digits) - 1) THEN digits[i - it.buf + 1]
                       ELSE buf[i]],
                    it.buf + Len(digits))
  /\ UNCHANGED it

ItoaEnter ==
  /\ At("itoa") /\ it.n # Space \div 2
  /\ IF it.n = 0
     THEN /\ buf' = [buf EXCEPT ![it.buf] = 0]
          /\ it' = [it EXCEPT !.p = it.buf + 1, !.neg = FALSE]
          /\ Goto("itoa.sign")
     ELSE /\ it' = [it EXCEPT !.n = IF IsNegative(@) THEN (-@) % Space ELSE @,
                              !.neg = IsNegative(it.n), !.p = it.buf, !.start = it.buf]
          /\ Goto("itoa.digits")
          /\ UNCHANGED buf
  /\ UNCHANGED fr

\* The division by subtraction (itoa_udiv10) is its quotient and remainder.
ItoaDigits ==
  /\ At("itoa.digits")
  /\ IF it.n # 0
     THEN /\ buf' = [buf EXCEPT ![it.p] = it.n % Ten]
          /\ it' = [it EXCEPT !.p = @ + 1, !.n = @ \div Ten]
          /\ Goto("itoa.digits")
     ELSE /\ it' = [it EXCEPT !.end = it.p - 1]
          /\ Goto("itoa.reverse")
          /\ UNCHANGED buf
  /\ UNCHANGED fr

\* Fault: the two in the middle stay as they are.
Crossed_Early(i, j) == i + 1 >= j

Crossed(i, j) == i >= j

ItoaReverse ==
  /\ At("itoa.reverse")
  /\ IF Crossed(it.start, it.end)
     THEN Goto("itoa.sign") /\ UNCHANGED <<buf, it>>
     ELSE /\ buf' = [buf EXCEPT ![it.start] = buf[it.end], ![it.end] = buf[it.start]]
          /\ it' = [it EXCEPT !.start = @ + 1, !.end = @ - 1]
          /\ Goto("itoa.reverse")
  /\ UNCHANGED fr

ItoaSign ==
  /\ At("itoa.sign")
  /\ IF it.neg
     THEN /\ it' = [it EXCEPT !.tmp = it.p - it.buf]
          /\ Goto("itoa.shift")
          /\ UNCHANGED <<buf, fr>>
     ELSE ItoaReturn(buf, it.p) /\ UNCHANGED it

\* Every character moves up by one, the last one first.
ItoaShift ==
  /\ At("itoa.shift")
  /\ IF it.tmp # 0
     THEN /\ buf' = [buf EXCEPT ![it.buf + it.tmp] = buf[it.buf + it.tmp - 1]]
          /\ it' = [it EXCEPT !.tmp = @ - 1]
          /\ Goto("itoa.shift")
          /\ UNCHANGED fr
     ELSE /\ it' = [it EXCEPT !.p = @ + 1]
          /\ ItoaReturn([buf EXCEPT ![it.buf] = Minus], it.p + 1)
-----------------------------------------------------------------------------
(* __ftoa *)

\* The test meant for a float of four zero words jumps away at the first zero
\* word: it finds the floats that have none.
NoWordIsZero(f) ==
  /\ f.s * (ExpMax + 1) + f.e # 0
  /\ High(f.sig) # 0 /\ (f.sig \div Space) % Space # 0 /\ f.sig % Space # 0

FtoaAsZero ==
  /\ At("ftoa") /\ NoWordIsZero(fr.x)
  /\ buf' = [i \in DOMAIN buf |-> CASE i \in {0} \cup 2..(FracDigits + 1) -> 0
                                     [] i = 1              -> Dot
                                     [] i = FracDigits + 2 -> Nul
                                     [] OTHER              -> buf[i]]
  /\ Goto("done")
  /\ UNCHANGED <<it, fr>>

FtoaEnter ==
  /\ At("ftoa") /\ ~NoWordIsZero(fr.x)
  /\ CallFloat(FromWord(Ten), "ftoa.sign")
  /\ UNCHANGED <<buf, it, fr>>

FtoaSign ==
  /\ At("ftoa.sign")
  /\ LET x == IF fr.x.s = 1 THEN Negated(fr.x) ELSE fr.x
     IN  /\ fr' = [fr EXCEPT !.ten = result, !.x = x, !.p = fr.x.s]
         /\ buf' = IF fr.x.s = 1 THEN [buf EXCEPT ![0] = Minus] ELSE buf
         /\ CallFloat(Truncate(x), "ftoa.whole")
  /\ UNCHANGED it

FtoaWhole ==
  /\ At("ftoa.whole")
  /\ fr' = [fr EXCEPT !.ipart = result]
  /\ it' = [it EXCEPT !.n = result, !.buf = fr.p]
  /\ at' = "itoa" /\ back' = "ftoa.scan"
  /\ UNCHANGED <<vars, job, buf, vanished>>

FtoaScan ==
  /\ At("ftoa.scan")
  /\ fr' = [fr EXCEPT !.p = @ + 1]
  /\ IF buf[fr.p] # Nul
     THEN Goto("ftoa.scan") /\ UNCHANGED buf
     ELSE /\ buf' = [buf EXCEPT ![fr.p] = Dot]
          /\ CallFloat(FromWord(fr.ipart), "ftoa.fraction")
  /\ UNCHANGED it

FtoaFraction ==
  /\ At("ftoa.fraction")
  /\ fr' = [fr EXCEPT !.iter = FracDigits]
  /\ CallFloat(Of("fsub", fr.x, result), "ftoa.digits")
  /\ UNCHANGED <<buf, it>>

FtoaDigits ==
  /\ At("ftoa.digits")
  /\ fr' = [fr EXCEPT !.frac = result]
  /\ IF fr.iter # 0
     THEN CallFloat(Of("fmul", result, fr.ten), "ftoa.product") /\ UNCHANGED buf
     ELSE buf' = [buf EXCEPT ![fr.p] = Nul] /\ Goto("done")
  /\ UNCHANGED it

FtoaProduct ==
  /\ At("ftoa.product")
  /\ fr' = [fr EXCEPT !.frac = result]
  /\ CallFloat(Truncate(result), "ftoa.digit")
  /\ UNCHANGED <<buf, it>>

FtoaDigit ==
  /\ At("ftoa.digit")
  /\ buf' = [buf EXCEPT ![fr.p] = result]
  /\ fr' = [fr EXCEPT !.p = @ + 1]
  /\ CallFloat(FromWord(result), "ftoa.less")
  /\ UNCHANGED it

FtoaLess ==
  /\ At("ftoa.less")
  /\ fr' = [fr EXCEPT !.iter = @ - 1]
  /\ CallFloat(Of("fsub", fr.frac, result), "ftoa.digits")
  /\ UNCHANGED <<buf, it>>
-----------------------------------------------------------------------------
(* __atof *)

Char == job.s[fr.p + 1]

AtofEnter ==
  /\ At("atof")
  /\ CallFloat(FromWord(0), "atof.ten")
  /\ UNCHANGED <<buf, it, fr>>

AtofTen ==
  /\ At("atof.ten")
  /\ fr' = [fr EXCEPT !.frac = result]
  /\ CallFloat(FromWord(Ten), "atof.blanks")
  /\ UNCHANGED <<buf, it>>

AtofBlanks ==
  /\ At("atof.blanks")
  /\ fr' = [fr EXCEPT !.ten = result, !.neg = Char = Minus,
                      !.p = IF Char \in {Blank, Minus, Plus} THEN @ + 1 ELSE @]
  /\ Goto(IF Char = Blank THEN "atof.blanks" ELSE "atof.int")
  /\ UNCHANGED <<buf, it>>

AtofInt ==
  /\ At("atof.int")
  /\ IF IsDigit(Char)
     THEN /\ fr' = [fr EXCEPT !.ipart = (Ten * @ + Char) % Space, !.p = @ + 1]
          /\ Goto("atof.int")
     ELSE CallFloat(FromWord(fr.ipart), "atof.dot") /\ UNCHANGED fr
  /\ UNCHANGED <<buf, it>>

Combine(whole, fraction) == CallFloat(Of("fadd", whole, fraction), "atof.sign")

AtofDot ==
  /\ At("atof.dot")
  /\ IF Char = Dot
     THEN /\ fr' = [fr EXCEPT !.fval = result, !.scale = fr.ten, !.p = @ + 1]
          /\ Goto("atof.frac")
     ELSE /\ fr' = [fr EXCEPT !.fval = result, !.scale = fr.ten]
          /\ Combine(result, fr.frac)
  /\ UNCHANGED <<buf, it>>

AtofFrac ==
  /\ At("atof.frac")
  /\ IF IsDigit(Char) THEN CallFloat(FromWord(Char), "atof.quotient")
     ELSE Combine(fr.fval, fr.frac)
  /\ UNCHANGED <<buf, it, fr>>

AtofQuotient ==
  /\ At("atof.quotient")
  /\ CallFloat(Of("fdiv", result, fr.scale), "atof.sum")
  /\ UNCHANGED <<buf, it, fr>>

AtofSum ==
  /\ At("atof.sum")
  /\ CallFloat(Of("fadd", fr.frac, result), "atof.scale")
  /\ UNCHANGED <<buf, it, fr>>

AtofScale ==
  /\ At("atof.scale")
  /\ fr' = [fr EXCEPT !.frac = result]
  /\ CallFloat(Of("fmul", fr.scale, fr.ten), "atof.next")
  /\ UNCHANGED <<buf, it>>

AtofNext ==
  /\ At("atof.next")
  /\ fr' = [fr EXCEPT !.scale = result, !.p = @ + 1]
  /\ Goto("atof.frac")
  /\ UNCHANGED <<buf, it>>

AtofSign ==
  /\ At("atof.sign")
  /\ fr' = [fr EXCEPT !.fval = IF fr.neg THEN Negated(result) ELSE result]
  /\ Goto("done")
  /\ UNCHANGED <<buf, it>>

TNext ==
  \/ Library
  \/ ItoaLeast \/ ItoaEnter \/ ItoaDigits \/ ItoaReverse \/ ItoaSign \/ ItoaShift
  \/ FtoaAsZero \/ FtoaEnter \/ FtoaSign \/ FtoaWhole \/ FtoaScan \/ FtoaFraction
  \/ FtoaDigits \/ FtoaProduct \/ FtoaDigit \/ FtoaLess
  \/ AtofEnter \/ AtofTen \/ AtofBlanks \/ AtofInt \/ AtofDot \/ AtofFrac
  \/ AtofQuotient \/ AtofSum \/ AtofScale \/ AtofNext \/ AtofSign

\* The processor keeps executing.
TSpec == TInit /\ [][TNext]_<<vars, tvars>> /\ WF_<<vars, tvars>>(TNext)
-----------------------------------------------------------------------------
(* What the texts mean.                                                      *)

Finished(op) == at = "done" /\ pc = "done" /\ job.op = op

Written == LET length == CHOOSE n \in DOMAIN buf : buf[n] = Nul /\ \A i \in 0..(n - 1) : buf[i] # Nul
           IN  [i \in 1..length |-> buf[i - 1]]

NumberOf(digits) == FoldLeft(LAMBDA n, d : Ten * n + d, 0, digits)
Signs(negative) == IF negative THEN <<Minus>> ELSE <<>>

\* itoa writes the number, with its sign, in decimal.
ItoaWrites ==
  Finished("itoa") =>
    Written = Signs(IsNegative(job.n)) \o DecimalOf(Magnitude(Signed(job.n)))

\* __ftoa writes sign and whole part of a number that fits in a word, and its
\* fraction rounded down, to the precision of one word and of its digits.
FtoaWrites ==
  Finished("ftoa") /\ Classify(job.x) \in {"zero", "normal"} =>
    LET size == Magnitude(Value(job.x))
        head == Signs(job.x.s = 1) \o DecimalOf(size \div Unit) \o <<Dot>>
        fraction == SubSeq(Written, Len(head) + 1, Len(Written))
        loss == (size % Unit) * Ten^FracDigits - NumberOf(fraction) * Unit
    IN  size < (Space \div 2) * Unit /\ ~vanished /\ ~NoWordIsZero(job.x) =>
          /\ IsPrefix(head, Written)
          /\ Len(fraction) = FracDigits /\ \A i \in 1..FracDigits : fraction[i] \in 0..(Ten - 1)
          /\ loss >= 0 /\ loss < Unit + (Ten^FracDigits * Unit) \div Pow[WordBits - 1]

\* Where the digits that start at i end.
DigitsEnd(s, i) == CHOOSE j \in i..Len(s) : ~IsDigit(s[j]) /\ \A m \in i..(j - 1) : IsDigit(s[m])

\* __atof reads blanks, a sign, digits and, behind a point, digits of a
\* fraction; whole numbers are exact, a fraction is to the precision of a word.
AtofReads ==
  Finished("atof") =>
    LET s == job.s
        blanks == CHOOSE i \in 0..Len(s) : s[i + 1] # Blank /\ \A m \in 1..i : s[m] = Blank
        first == IF s[blanks + 1] \in {Minus, Plus} THEN blanks + 2 ELSE blanks + 1
        point == DigitsEnd(s, first)
        last == IF s[point] = Dot THEN DigitsEnd(s, point + 1) ELSE point
        whole == NumberOf(SubSeq(s, first, point - 1))
        fraction == SubSeq(s, point + 1, last - 1)
        scale == Ten^Len(fraction)
        exact == (whole * scale + NumberOf(fraction)) * Unit
    IN  whole < Space \div 2 =>
          /\ fr.fval.s = IF s[blanks + 1] = Minus THEN 1 ELSE 0
          /\ Magnitude(Magnitude(Value(fr.fval)) * scale - exact)
               <= (NumberOf(fraction) * Unit) \div Pow[WordBits - 2]

\* Numbers and texts keep their values.
TextsMeanNumbers == ItoaWrites /\ FtoaWrites /\ AtofReads

\* Every call returns: loops that normalise find a leading bit or run out of
\* exponents, loops over text find its end, digits run out.
Returns == <>(at = "done" /\ pc = "done")
=============================================================================
