----------------------------- MODULE FloatProofs -----------------------------
(* Proofs about modules FloatLib and Decimal: for every size of the format,  *)
(* whatever is called, the float routines keep values, are close to the      *)
(* exact sum and compute what their reference computes.                      *)
EXTENDS Decimal, Lemmas

(***************************************************************************)
(* Powers of two.                                                          *)
(***************************************************************************)
LEMMA PowSum ==
  ASSUME NEW m \in Nat, NEW n \in Nat
  PROVE  Pow[m + n] = Pow[m] * Pow[n]
<1>. DEFINE S == {k \in Nat : Pow[m + k] = Pow[m] * Pow[k]}
<1>0. Pow[m] \in Nat
  BY PowNat
<1>1. 0 \in S
  BY <1>0, PowNext
<1>2. ASSUME NEW k \in Nat, k \in S PROVE k + 1 \in S
  <2>. DEFINE x == Pow[m]
              y == Pow[k]
  <2>1. Pow[k + 1] = 2 * y /\ Pow[(m + k) + 1] = 2 * Pow[m + k] /\ x \in Nat /\ y \in Nat
    BY PowNext, PowNat
  <2>2. Pow[m + k] = x * y /\ m + (k + 1) = (m + k) + 1
    BY <1>2
  <2>. HIDE DEF x, y
  <2>3. 2 * (x * y) = x * (2 * y)
    BY <2>1
  <2>4. Pow[m + (k + 1)] = x * Pow[k + 1]
    BY <2>1, <2>2, <2>3
  <2>. QED BY <2>4 DEF x
<1>3. n \in S
  <2>. HIDE DEF S
  <2>. QED BY <1>1, <1>2, SetInduction
<1>. QED BY <1>3

LEMMA PowGrows ==
  ASSUME NEW m \in Nat, NEW n \in Nat, m <= n
  PROVE  /\ Pow[n] = Pow[m] * Pow[n - m]
         /\ Pow[m] <= Pow[n]
         /\ m < n => 2 * Pow[m] <= Pow[n]
<1>. DEFINE k == n - m
            x == Pow[m]
            y == Pow[k]
<1>1. k \in Nat /\ m + k = n
  OBVIOUS
<1>. HIDE DEF k
<1>2. Pow[n] = x * y /\ x \in Nat /\ y \in Nat /\ x > 0 /\ y > 0
  BY <1>1, PowSum, PowNat
<1>3. m < n => y >= 2
  <2>. SUFFICES ASSUME m < n PROVE y >= 2
    OBVIOUS
  <2>. DEFINE j == k - 1
  <2>1. j \in Nat /\ k = j + 1
    BY <1>1
  <2>. HIDE DEF j
  <2>2. Pow[j + 1] = 2 * Pow[j] /\ Pow[j] \in Nat /\ Pow[j] > 0
    BY <2>1, PowNext, PowNat
  <2>. QED BY <2>1, <2>2
<1>. HIDE DEF x, y
<1>4. y * x >= x
  BY <1>2, MulGrows
<1>5. m < n => x * y >= 2 * x
  <2>. SUFFICES ASSUME m < n PROVE x * y >= 2 * x
    OBVIOUS
  <2>1. x * y = x * (y - 2) + 2 * x /\ y - 2 \in Nat
    BY <1>2, <1>3
  <2>2. x * (y - 2) \in Nat
    BY <1>2, <2>1
  <2>. QED BY <1>2, <2>1, <2>2
<1>. QED BY <1>2, <1>4, <1>5 DEF x, y, k

(***************************************************************************)
(* Quotients.                                                              *)
(***************************************************************************)
LEMMA Quotient ==
  ASSUME NEW x \in Int, NEW y \in Nat, y > 0
  PROVE  /\ x \div y \in Int /\ x % y \in Nat /\ x % y < y
         /\ x = (x \div y) * y + (x % y)
OBVIOUS

LEMMA MulMono ==
  ASSUME NEW a1 \in Int, NEW b1 \in Int, NEW n \in Nat, a1 <= b1
  PROVE  a1 * n <= b1 * n
<1>. DEFINE d == b1 - a1
<1>1. d \in Nat /\ b1 = a1 + d
  OBVIOUS
<1>. HIDE DEF d
<1>2. (a1 + d) * n = a1 * n + d * n /\ d * n \in Nat /\ a1 * n \in Int
  BY <1>1
<1>. QED BY <1>1, <1>2

LEMMA MulStrict ==
  ASSUME NEW a1 \in Int, NEW b1 \in Int, NEW n \in Nat, n > 0
  PROVE  (a1 * n < b1 * n) = (a1 < b1) /\ (a1 * n <= b1 * n) = (a1 <= b1)
<1>. DEFINE x == a1 * n
            y == b1 * n
<1>0. x \in Int /\ y \in Int
  OBVIOUS
<1>1. a1 <= b1 => x <= y
  BY MulMono
<1>2. ASSUME a1 < b1 PROVE x < y
  <2>1. (a1 + 1) * n <= b1 * n
    BY <1>2, MulMono
  <2>2. (a1 + 1) * n = x + n
    OBVIOUS
  <2>. QED BY <1>0, <2>1, <2>2
<1>3. ASSUME b1 < a1 PROVE y < x
  <2>1. (b1 + 1) * n <= a1 * n
    BY <1>3, MulMono
  <2>2. (b1 + 1) * n = y + n
    OBVIOUS
  <2>. QED BY <1>0, <2>1, <2>2
<1>4. b1 <= a1 => y <= x
  BY MulMono
<1>. HIDE DEF x, y
<1>5. (x < y) = (a1 < b1) /\ (x <= y) = (a1 <= b1)
  BY <1>0, <1>1, <1>2, <1>3, <1>4
<1>. QED BY <1>5 DEF x, y

\* A quotient is bounded as the products are.
LEMMA QuotientBounds ==
  ASSUME NEW x \in Int, NEW y \in Nat, y > 0, NEW q \in Int
  PROVE  /\ q * y <= x => q <= x \div y
         /\ x < q * y => x \div y < q
         /\ q <= x \div y => q * y <= x
         /\ x \div y < q => x < q * y
<1>. DEFINE p == x \div y
            r1 == x % y
<1>1. p \in Int /\ r1 \in Nat /\ r1 < y /\ x = p * y + r1
  BY Quotient
<1>. HIDE DEF p, r1
<1>2. p * y \in Int /\ q * y \in Int /\ (p + 1) * y = p * y + y
  BY <1>1
<1>3. (q <= p) = (q * y <= p * y) /\ (p + 1 <= q) = ((p + 1) * y <= q * y)
  BY <1>1, MulStrict
<1>4. (q <= p) \/ (p + 1 <= q)
  BY <1>1
<1>. DEFINE u == p * y
            v == q * y
<1>5. u \in Int /\ v \in Int /\ (q <= p) = (v <= u) /\ (p + 1 <= q) = (u + y <= v) /\ x = u + r1
  BY <1>1, <1>2, <1>3
<1>. HIDE DEF u, v
<1>6. /\ v <= x => q <= p
      /\ x < v => p < q
      /\ q <= p => v <= x
      /\ p < q => x < v
  BY <1>1, <1>4, <1>5
<1>. QED BY <1>6 DEF u, v, p

LEMMA DivTwice ==
  ASSUME NEW x \in Int, NEW y \in Nat, NEW z \in Nat, y > 0, z > 0
  PROVE  (x \div y) \div z = x \div (y * z)
<1>. DEFINE p == x \div y
            s == x % y
            q == p \div z
            t == p % z
            w == y * z
            u == t * y + s
<1>1. p \in Int /\ s \in Nat /\ s < y /\ x = p * y + s
  BY Quotient
<1>2. q \in Int /\ t \in Nat /\ t < z /\ p = q * z + t
  BY <1>1, Quotient
<1>. HIDE DEF p, s, q, t
<1>3. w \in Nat /\ w > 0 /\ u \in Nat
  BY <1>1, <1>2, MulGrows
<1>4. u < w
  <2>1. (t + 1) * y <= z * y
    BY <1>2, MulMono
  <2>2. (t + 1) * y = t * y + y /\ z * y = w /\ t * y \in Nat
    BY <1>2
  <2>. QED BY <1>1, <1>3, <2>1, <2>2
<1>5. x = q * w + u
  <2>1. p * y = (q * z) * y + t * y
    BY <1>2
  <2>2. (q * z) * y = q * w
    BY <1>2
  <2>. DEFINE v == q * w
              m == t * y
  <2>3. v \in Int /\ m \in Int /\ p * y = v + m /\ u = m + s
    BY <1>2, <1>3, <2>1, <2>2
  <2>4. x = (v + m) + s
    BY <1>1, <2>3
  <2>. HIDE DEF v, m, u
  <2>5. x = v + u
    BY <1>1, <2>3, <2>4
  <2>. QED BY <2>5 DEF v
<1>. HIDE DEF w, u
<1>6. q = x \div w
  BY <1>2, <1>3, <1>4, <1>5, DivUnique
<1>. QED BY <1>6 DEF w, q, p

(***************************************************************************)
(* The sizes of the format.                                                *)
(***************************************************************************)
Half == Pow[WordBits - 1]
Quarter == Pow[WordBits - 2]

LEMMA Widths ==
  /\ WordBits \in Nat /\ WordBits >= 3 /\ SigBits = 3 * WordBits
  /\ ExpMax \in Nat /\ Bias \in Nat /\ Bias >= 1 /\ Bias <= ExpMax
  /\ Bias + WordBits - 1 < ExpMax
  /\ ExpSpace = 2 * (ExpMax + 1)
<1>1. WordBits \in Nat /\ WordBits # 0 /\ ExpMax \in Nat /\ Bias \in 1..ExpMax
      /\ Bias + WordBits - 1 < ExpMax
  BY FormatAssumption
<1>2. Pow[0] = 1 /\ Pow[0 + 1] = 2 * Pow[0] /\ Pow[1 + 1] = 2 * Pow[1]
  BY PowNext
<1>3. Pow[1] = 2 /\ Pow[2] = 4
  BY <1>2
<1>4. Space \div 2 - 1 >= 2
  <2>1. Space \in Nat
    BY <1>1, PowNat DEF Space
  <2>2. Ten \in 2..(Space \div 2 - 1)
    BY TextAssumption
  <2>. QED BY <2>1, <2>2
<1>5. WordBits # 1 /\ WordBits # 2
  BY <1>3, <1>4 DEF Space
<1>. QED BY <1>1, <1>5 DEF SigBits, ExpSpace

LEMMA Sizes ==
  /\ Quarter \in Nat /\ Quarter > 0 /\ Half \in Nat /\ Half > 0 /\ Half = 2 * Quarter
  /\ Space \in Nat /\ Space > 0 /\ Space = 2 * Half /\ Space \div 2 = Half
  /\ Space2 \in Nat /\ Space2 > 0 /\ Space2 = Space * Space /\ Space2 \div 2 = Half * Space
  /\ Space2 = Pow[2 * WordBits]
  /\ SigSpace \in Nat /\ SigSpace > 0 /\ SigSpace = Space * Space2
  /\ Lead \in Nat /\ Lead > 0 /\ SigSpace = 2 * Lead /\ Lead = Half * Space2
<1>. DEFINE w == WordBits
            v == w - 1
            u == w - 2
            t == 2 * w
            l == SigBits - 1
<1>1. w \in Nat /\ v \in Nat /\ u \in Nat /\ v = u + 1 /\ w = v + 1 /\ t = w + w
      /\ t \in Nat /\ l = v + t /\ l \in Nat /\ SigBits = l + 1 /\ SigBits = w + t
  BY Widths
<1>. HIDE DEF w, v, u, t, l
<1>2. Pow[v] = 2 * Pow[u] /\ Pow[w] = 2 * Pow[v] /\ Pow[SigBits] = 2 * Pow[l]
  BY <1>1, PowNext
<1>3. Pow[t] = Pow[w] * Pow[w]
  BY <1>1, PowSum
<1>4. Pow[l] = Pow[v] * Pow[t]
  BY <1>1, PowSum
<1>5. Pow[SigBits] = Pow[w] * Pow[t]
  BY <1>1, PowSum
<1>6. /\ Pow[u] \in Nat /\ Pow[v] \in Nat /\ Pow[w] \in Nat /\ Pow[t] \in Nat /\ Pow[l] \in Nat
      /\ Pow[u] > 0 /\ Pow[v] > 0 /\ Pow[w] > 0 /\ Pow[t] > 0 /\ Pow[l] > 0
  BY <1>1, PowNat
<1>7. /\ Quarter = Pow[u] /\ Half = Pow[v] /\ Space = Pow[w] /\ Space2 = Space * Space
      /\ SigSpace = Pow[SigBits] /\ Lead = Pow[l] /\ Pow[2 * WordBits] = Pow[t]
  BY DEF Quarter, Half, Space, Space2, SigSpace, Lead, u, v, w, l, t
<1>8. Space2 = 2 * (Half * Space)
  <2>1. (2 * Half) * Space = 2 * (Half * Space)
    BY <1>6, <1>7
  <2>. QED BY <1>2, <1>7, <2>1
<1>9. Half * Space \in Nat
  BY <1>6, <1>7
<1>10. Space2 \div 2 = Half * Space
  BY <1>8, <1>9
<1>11. Space \div 2 = Half
  BY <1>2, <1>6, <1>7
<1>. QED BY <1>2, <1>3, <1>4, <1>5, <1>6, <1>7, <1>10, <1>11

(***************************************************************************)
(* Floats.                                                                 *)
(***************************************************************************)
LEMMA FloatFields ==
  ASSUME NEW f \in Float
  PROVE  /\ f.s \in {0, 1} /\ f.e \in Nat /\ f.e <= ExpMax
         /\ f.sig \in Nat /\ f.sig < SigSpace /\ f = [s |-> f.s, e |-> f.e, sig |-> f.sig]
         /\ f.e >= 1 /\ f.e < ExpMax => f.sig >= Lead
BY Sizes, Widths DEF Float

LEMMA FloatMade ==
  ASSUME NEW s \in {0, 1}, NEW e \in Nat, e <= ExpMax, NEW sig \in Nat, sig < SigSpace,
         e >= 1 /\ e < ExpMax => sig >= Lead
  PROVE  [s |-> s, e |-> e, sig |-> sig] \in Float
BY Sizes, Widths DEF Float

LEMMA Packed ==
  ASSUME NEW s \in {0, 1}, NEW e \in Nat, e <= ExpMax, NEW sig \in Nat, sig < SigSpace
  PROVE  Pack(s, e, sig) = [s |-> s, e |-> e, sig |-> sig]
<1>1. s % 2 = s
  OBVIOUS
<1>2. e % (ExpMax + 1) = e
  BY Widths
<1>3. sig % SigSpace = sig
  BY Sizes
<1>. QED BY <1>1, <1>2, <1>3 DEF Pack

LEMMA PackFloat ==
  ASSUME NEW s \in {0, 1}, NEW e \in Nat, e <= ExpMax, NEW sig \in Nat, sig < SigSpace,
         e >= 1 /\ e < ExpMax => sig >= Lead
  PROVE  Pack(s, e, sig) = [s |-> s, e |-> e, sig |-> sig] /\ Pack(s, e, sig) \in Float
BY Packed, FloatMade

LEMMA Extremes ==
  ASSUME NEW s \in {0, 1}
  PROVE  /\ Zero(s) = [s |-> s, e |-> 0, sig |-> 0] /\ Zero(s) \in Float
         /\ Inf(s) = [s |-> s, e |-> ExpMax, sig |-> 0] /\ Inf(s) \in Float
<1>1. 0 \in Nat /\ 0 < SigSpace /\ ExpMax \in Nat /\ 0 <= ExpMax /\ ~(0 >= 1)
  BY Sizes, Widths
<1>. QED BY <1>1, PackFloat DEF Zero, Inf

LEMMA NegatedFloat ==
  ASSUME NEW f \in Float
  PROVE  Negated(f) = [s |-> 1 - f.s, e |-> f.e, sig |-> f.sig] /\ Negated(f) \in Float
<1>1. f.s \in {0, 1} /\ f = [s |-> f.s, e |-> f.e, sig |-> f.sig]
  BY FloatFields
<1>2. (f.s + 1) % 2 = 1 - f.s /\ 1 - f.s \in {0, 1}
  BY <1>1
<1>3. Negated(f) = [s |-> 1 - f.s, e |-> f.e, sig |-> f.sig]
  BY <1>1, <1>2 DEF Negated
<1>. QED BY <1>2, <1>3, FloatFields, FloatMade

LEMMA HighWord ==
  ASSUME NEW sig \in Nat, sig < SigSpace
  PROVE  /\ High(sig) \in Nat /\ High(sig) < Space
         /\ sig >= Lead => High(sig) >= Half
<1>1. Space2 \in Nat /\ Space2 > 0 /\ Space \in Nat /\ Half \in Nat /\ SigSpace = Space * Space2
      /\ Lead = Half * Space2
  BY Sizes
<1>2. 0 * Space2 <= sig
  BY <1>1
<1>3. High(sig) \in Int /\ High(sig) >= 0
  BY <1>1, <1>2, QuotientBounds DEF High
<1>. QED BY <1>1, <1>3, QuotientBounds DEF High

(***************************************************************************)
(* The inductive invariant of the float routines: what is called, and what *)
(* the registers of each loop stand for.                                   *)
(***************************************************************************)
Word == 0..(Space - 1)
Sums == {"fadd", "fsub"}
Arithmetic == Sums \cup {"fmul", "fdiv"}

\* Any float and any word, whatever Floats and Numbers are.
AnyCall ==
  [op : Arithmetic \cup {"fcmp"}, a : Float, b : Float]
    \cup [op : {"ftoi"}, a : Float] \cup [op : {"itof"}, n : Word]

IsNormal(f) == f.e \in 1..(ExpMax - 1)

Larger == Ordered(call.a, Addend)[1]
Smaller == Ordered(call.a, Addend)[2]
Distance == Larger.e - Smaller.e
Kept == IF Distance >= SigBits THEN 0 ELSE Smaller.sig \div Pow[Distance]
Difference == (Larger.sig - Kept) % SigSpace

AlignInv ==
  pc = "align" =>
    /\ call.op \in Sums /\ IsNormal(call.a) /\ IsNormal(Addend)
    /\ a = Larger /\ b.s = Smaller.s /\ b \in [s : {0, 1}, e : Nat, sig : Nat]
    /\ IF Distance >= SigBits THEN count = 0 /\ b.sig = 0
       ELSE count \in 0..Distance /\ b.sig = Smaller.sig \div Pow[Distance - count]

NormInv ==
  pc = "norm" =>
    /\ call.op \in Sums /\ IsNormal(call.a) /\ IsNormal(Addend)
    /\ Larger.s # Smaller.s /\ ~LooksZero(Difference)
    /\ r \in [s : {0, 1}, e : Nat, sig : Nat] /\ r.s = Larger.s
    /\ 1 <= r.e /\ r.e <= Larger.e /\ r.sig < SigSpace
    /\ r.sig = Difference * Pow[Larger.e - r.e]

\* The low bits of the multiplier have been multiplied.
MulInv ==
  pc = "mul" =>
    /\ call.op = "fmul" /\ IsNormal(call.a) /\ IsNormal(call.b)
    /\ count \in 0..WordBits
    /\ sh = High(call.a.sig) * Pow[WordBits - count]
    /\ rem = High(call.b.sig) \div Pow[WordBits - count]
    /\ acc = High(call.a.sig) * (High(call.b.sig) % Pow[WordBits - count])

\* Quotient, remainder and what is left make up the dividend so far.
DivInv ==
  pc = "div" =>
    /\ call.op = "fdiv" /\ IsNormal(call.a) /\ IsNormal(call.b)
    /\ count \in 0..(2 * WordBits - 1)
    /\ acc \in Word /\ sh \in Word /\ rem \in Nat /\ rem < High(call.b.sig)
    /\ (acc * High(call.b.sig) + rem) * Space + sh
         = High(call.a.sig) * Pow[2 * WordBits - 1 - count]

ItofInv ==
  pc = "itof" =>
    /\ call.op = "itof" /\ call.n # 0
    /\ count \in Nat /\ acc \in Word
    /\ acc = Magnitude(Signed(call.n)) * Pow[count]

FtoiInv ==
  pc \in {"left", "right"} =>
    /\ call.op = "ftoi" /\ IsNormal(call.a)
    /\ count \in Nat /\ acc \in Word
    /\ pc = "left" => /\ call.a.e >= OneWord
                      /\ call.a.e = OneWord => count = 0 /\ acc = High(call.a.sig)
    /\ pc = "right" => /\ call.a.e < OneWord /\ count <= OneWord - call.a.e
                       /\ OneWord - call.a.e < WordBits
                       /\ acc = High(call.a.sig) \div Pow[OneWord - call.a.e - count]

ResultInv ==
  pc = "done" => /\ call.op \in Arithmetic \cup {"itof"} => result \in Float
                 /\ call.op = "ftoi" => result \in Word

Labels == {"enter", "align", "norm", "mul", "div", "itof", "left", "right", "done"}

FloatInv ==
  /\ pc \in Labels /\ call \in AnyCall
  /\ AlignInv /\ NormInv /\ MulInv /\ DivInv /\ ItofInv /\ FtoiInv /\ ResultInv

(***************************************************************************)
(* What the text routines hold, so that they call the float routines with  *)
(* floats and words.                                                       *)
(***************************************************************************)
AtofLabels == {"atof", "atof.ten", "atof.blanks", "atof.int", "atof.dot", "atof.frac",
               "atof.quotient", "atof.sum", "atof.scale", "atof.next", "atof.sign"}
TakesFloat == {"ftoa.sign", "ftoa.fraction", "ftoa.digits", "ftoa.product", "ftoa.less"}
                \cup (AtofLabels \ {"atof", "atof.int", "atof.frac"})
TakesWord == {"ftoa.whole", "ftoa.digit"}

OnDigit == {"atof.quotient", "atof.sum", "atof.scale", "atof.next"}

TextInv ==
  /\ fr \in [x : Float, ten : Float, frac : Float, scale : Float, fval : Float,
             ipart : Word, iter : Int, p : Int, neg : BOOLEAN]
  /\ back \in {"done", "ftoa.scan"}
  /\ at \in TakesFloat => call.op \in Arithmetic \cup {"itof"}
  /\ at \in TakesWord => call.op = "ftoi"
  /\ at \in AtofLabels => /\ job \in [op : {"atof"}, s : Texts]
                          /\ fr.p >= 0 /\ fr.p < Len(job.s)
  /\ at \in OnDigit => IsDigit(Char)


LEMMA Operand ==
  ASSUME call \in AnyCall
  PROVE  /\ call.op \in Arithmetic \cup {"fcmp", "ftoi", "itof"}
         /\ call.op \in Arithmetic \cup {"fcmp"} => call.a \in Float /\ call.b \in Float
         /\ call.op = "ftoi" => call.a \in Float
         /\ call.op = "itof" => call.n \in Word
BY DEF AnyCall, Arithmetic, Sums

LEMMA Summands ==
  ASSUME call \in AnyCall, call.op \in Sums
  PROVE  /\ call.a \in Float /\ Addend \in Float
         /\ Larger \in Float /\ Smaller \in Float /\ Larger.e >= Smaller.e
         /\ {Larger, Smaller} = {call.a, Addend}
<1>1. call.a \in Float /\ call.b \in Float
  BY Operand DEF Arithmetic
<1>2. Addend \in Float
  BY <1>1, NegatedFloat DEF Addend
<1>3. call.a.e \in Nat /\ Addend.e \in Nat
  BY <1>1, <1>2, FloatFields
<1>. QED BY <1>1, <1>2, <1>3 DEF Larger, Smaller, Ordered

LEMMA Aligning ==
  ASSUME call \in AnyCall, call.op \in Sums, IsNormal(call.a), IsNormal(Addend)
  PROVE  /\ IsNormal(Larger) /\ IsNormal(Smaller) /\ Distance \in Nat /\ Distance < ExpMax
         /\ Larger.sig \in Nat /\ Lead <= Larger.sig /\ Larger.sig < SigSpace
         /\ Smaller.sig \in Nat /\ Lead <= Smaller.sig /\ Smaller.sig < SigSpace
         /\ Kept \in Nat /\ Kept <= Smaller.sig
         /\ Difference \in Nat /\ Difference < SigSpace
<1>1. /\ Larger \in Float /\ Smaller \in Float /\ Larger.e >= Smaller.e
      /\ IsNormal(Larger) /\ IsNormal(Smaller)
  BY Summands
<1>2. /\ Larger.e \in Nat /\ Smaller.e \in Nat /\ Larger.e >= 1 /\ Larger.e < ExpMax
      /\ Smaller.e >= 1 /\ Smaller.e < ExpMax
      /\ Larger.sig \in Nat /\ Lead <= Larger.sig /\ Larger.sig < SigSpace
      /\ Smaller.sig \in Nat /\ Lead <= Smaller.sig /\ Smaller.sig < SigSpace
  BY <1>1, FloatFields, Widths, Sizes DEF IsNormal
<1>3. Distance \in Nat /\ Distance < ExpMax
  BY <1>1, <1>2, Widths DEF Distance
<1>4. Kept \in Nat /\ Kept <= Smaller.sig
  <2>. DEFINE x == Smaller.sig
              p == Pow[Distance]
              q == x \div p
  <2>1. p \in Nat /\ p > 0 /\ x \in Nat
    BY <1>2, <1>3, PowNat
  <2>. HIDE DEF x, p
  <2>2. q \in Int /\ q * p <= x
    BY <2>1, Quotient, QuotientBounds
  <2>3. q \in Nat
    <3>1. 0 * p <= x
      BY <2>1
    <3>. QED BY <2>1, <2>2, <3>1, QuotientBounds
  <2>. HIDE DEF q
  <2>4. p * q >= q /\ p * q = q * p
    BY <2>1, <2>3, MulGrows
  <2>5. q <= x
    BY <2>1, <2>2, <2>3, <2>4
  <2>. QED BY <1>2, <2>3, <2>5 DEF Kept, x, p, q
<1>5. Difference \in Nat /\ Difference < SigSpace
  BY <1>2, <1>4, Sizes DEF Difference
<1>. QED BY <1>1, <1>2, <1>3, <1>4, <1>5

LEMMA SameCall ==
  ASSUME call' = call
  PROVE  /\ Addend' = Addend /\ Larger' = Larger /\ Smaller' = Smaller /\ Distance' = Distance
         /\ Kept' = Kept /\ Difference' = Difference /\ Operands' = Operands /\ Sign' = Sign
BY DEF Addend, Larger, Smaller, Distance, Kept, Difference, Operands, Sign

USE DEF Sums, Arithmetic, Labels

LEMMA ReturnKeeps ==
  ASSUME FloatInv, NEW v, Return(v), call.op \in Arithmetic \cup {"itof"} => v \in Float,
         call.op = "ftoi" => v \in Word
  PROVE  FloatInv'
<1>1. pc' = "done" /\ result' = v /\ call' = call
  BY DEF Return
<1>2. pc' \in Labels /\ call' \in AnyCall /\ ResultInv'
  BY <1>1 DEF FloatInv, ResultInv
<1>3. AlignInv' /\ NormInv' /\ MulInv' /\ DivInv' /\ ItofInv' /\ FtoiInv'
  BY <1>1 DEF AlignInv, NormInv, MulInv, DivInv, ItofInv, FtoiInv
<1>. QED BY <1>2, <1>3 DEF FloatInv

\* A call of another routine, from anywhere.
LEMMA EntryKeeps == pc' = "enter" /\ call' \in AnyCall => FloatInv'
BY DEF FloatInv, AlignInv, NormInv, MulInv, DivInv, ItofInv, FtoiInv, ResultInv

LEMMA SpecialsKeep ==
  FloatInv /\ (AddSpecial \/ MulSpecial \/ DivSpecial \/ Compare \/ ItofZero \/ FtoiZero) => FloatInv'
<1>. SUFFICES ASSUME FloatInv,
                     AddSpecial \/ MulSpecial \/ DivSpecial \/ Compare \/ ItofZero \/ FtoiZero
              PROVE FloatInv'
  OBVIOUS
<1>1. call \in AnyCall
  BY DEF FloatInv
<1>2. Zero(0) \in Float /\ 0 \in Word
  BY Extremes, Sizes DEF Word
<1>3. CASE AddSpecial
  <2>1. call.op \in Sums /\ call.a \in Float /\ Addend \in Float
    BY <1>1, <1>3, Summands DEF AddSpecial, Enters
  <2>. QED BY <1>3, <2>1, ReturnKeeps DEF AddSpecial
<1>4. ASSUME call.op \in {"fmul", "fdiv"} PROVE Sign \in {0, 1} /\ Inf(Sign) \in Float
  <2>1. call.a.s \in {0, 1} /\ call.b.s \in {0, 1}
    BY <1>1, <1>4, Operand, FloatFields
  <2>2. Sign \in {0, 1}
    BY <2>1 DEF Sign
  <2>. QED BY <2>2, Extremes
<1>5. CASE MulSpecial
  BY <1>2, <1>4, <1>5, ReturnKeeps DEF MulSpecial, Enters
<1>6. CASE DivSpecial
  BY <1>2, <1>4, <1>6, ReturnKeeps DEF DivSpecial, Enters
<1>7. CASE Compare
  <2>1. call.op = "fcmp"
    BY <1>7 DEF Compare, Enters
  <2>2. PICK v : Return(v)
    BY <1>7 DEF Compare
  <2>. QED BY <2>1, <2>2, ReturnKeeps
<1>8. CASE ItofZero
  BY <1>2, <1>8, ReturnKeeps DEF ItofZero, Enters
<1>9. CASE FtoiZero
  BY <1>2, <1>9, ReturnKeeps DEF FtoiZero, Enters
<1>. QED BY <1>3, <1>5, <1>6, <1>7, <1>8, <1>9

(***************************************************************************)
(* The loops keep the invariant.                                           *)
(***************************************************************************)
\* In a state with a label only that label's conjunct says something.
LEMMA AtAlign == pc' = "align" /\ call' \in AnyCall /\ AlignInv' => FloatInv'
BY DEF FloatInv, ResultInv, NormInv, MulInv, DivInv, ItofInv, FtoiInv
LEMMA AtNorm == pc' = "norm" /\ call' \in AnyCall /\ NormInv' => FloatInv'
BY DEF FloatInv, ResultInv, AlignInv, MulInv, DivInv, ItofInv, FtoiInv
LEMMA AtMul == pc' = "mul" /\ call' \in AnyCall /\ MulInv' => FloatInv'
BY DEF FloatInv, ResultInv, AlignInv, NormInv, DivInv, ItofInv, FtoiInv
LEMMA AtDiv == pc' = "div" /\ call' \in AnyCall /\ DivInv' => FloatInv'
BY DEF FloatInv, ResultInv, AlignInv, NormInv, MulInv, ItofInv, FtoiInv
LEMMA AtItof == pc' = "itof" /\ call' \in AnyCall /\ ItofInv' => FloatInv'
BY DEF FloatInv, ResultInv, AlignInv, NormInv, MulInv, DivInv, FtoiInv
LEMMA AtFtoi == pc' \in {"left", "right"} /\ call' \in AnyCall /\ FtoiInv' => FloatInv'
BY DEF FloatInv, ResultInv, AlignInv, NormInv, MulInv, DivInv, ItofInv

LEMMA AddEnterKeeps == FloatInv /\ AddEnter => FloatInv'
<1>. SUFFICES ASSUME FloatInv, AddEnter PROVE FloatInv'
  OBVIOUS
<1>1. call \in AnyCall /\ call' = call /\ pc' = "align" /\ call.op \in Sums
  BY DEF FloatInv, AddEnter, Continue, Enters
<1>2. call.a \in Float /\ Addend \in Float
  BY <1>1, Summands
<1>3. IsNormal(call.a) /\ IsNormal(Addend)
  <2>1. call.a.e \notin {0, ExpMax} /\ Addend.e \notin {0, ExpMax}
    BY DEF AddEnter
  <2>. QED BY <1>2, <2>1, FloatFields, Widths DEF IsNormal
<1>4. Larger \in Float /\ Smaller \in Float /\ Distance \in Nat /\ Distance < ExpMax
  BY <1>1, <1>3, Aligning, Summands
<1>5. Distance % ExpSpace = Distance
  BY <1>4, Widths
<1>6. /\ a' = Larger
      /\ IF Distance >= SigBits THEN b' = [Smaller EXCEPT !.sig = 0] /\ count' = 0
         ELSE b' = Smaller /\ count' = Distance
  BY <1>5 DEF AddEnter, Larger, Smaller, Distance
<1>7. Smaller.s \in {0, 1} /\ Smaller.e \in Nat /\ Smaller.sig \in Nat
      /\ Smaller = [s |-> Smaller.s, e |-> Smaller.e, sig |-> Smaller.sig]
  BY <1>4, FloatFields
<1>8. AlignInv'
  <2>1. CASE Distance >= SigBits
    <3>1. b' = [s |-> Smaller.s, e |-> Smaller.e, sig |-> 0] /\ count' = 0
      BY <1>6, <1>7, <2>1
    <3>. QED BY <1>1, <1>3, <1>6, <1>7, <2>1, <3>1, SameCall DEF AlignInv, IsNormal
  <2>2. CASE ~(Distance >= SigBits)
    <3>1. Distance - Distance = 0 /\ Pow[0] = 1 /\ Smaller.sig \div 1 = Smaller.sig
      BY <1>4, <1>7, PowNext
    <3>2. b' = Smaller /\ count' = Distance /\ count' \in 0..Distance
      BY <1>4, <1>6, <2>2
    <3>3. b'.s = Smaller.s /\ b' \in [s : {0, 1}, e : Nat, sig : Nat] /\ b'.sig = Smaller.sig
      BY <1>7, <3>2
    <3>. QED BY <1>1, <1>3, <1>6, <2>2, <3>1, <3>2, <3>3, SameCall DEF AlignInv, IsNormal
  <2>. QED BY <2>1, <2>2
<1>. QED BY <1>1, <1>8, AtAlign

LEMMA AlignKeeps == FloatInv /\ Align => FloatInv'
<1>. SUFFICES ASSUME FloatInv, Align PROVE FloatInv'
  OBVIOUS
<1>1. call \in AnyCall /\ call' = call /\ pc' = "align" /\ AlignInv /\ a' = a /\ count > 0
  BY DEF FloatInv, Align
<1>2. /\ call.op \in Sums /\ IsNormal(call.a) /\ IsNormal(Addend)
      /\ a = Larger /\ b.s = Smaller.s /\ b \in [s : {0, 1}, e : Nat, sig : Nat]
      /\ count' = count - 1 /\ b' = [b EXCEPT !.sig = @ \div 2]
      /\ Distance < SigBits => count \in 0..Distance /\ b.sig = Smaller.sig \div Pow[Distance - count]
      /\ Distance >= SigBits => count = 0
  <2>1. Distance \in Nat /\ SigBits \in Nat
    BY <1>1, Aligning, Widths DEF AlignInv, Align
  <2>. QED BY <1>1, <2>1 DEF AlignInv, Align
<1>3. Distance \in Nat /\ Smaller.sig \in Nat /\ SigBits \in Nat
  BY <1>1, <1>2, Aligning, Widths
<1>4. Distance < SigBits /\ count \in 0..Distance /\ count - 1 \in 0..Distance
  BY <1>1, <1>2, <1>3
<1>. DEFINE k == Distance - count
<1>5. k \in Nat /\ k + 1 = Distance - count' /\ k + 1 \in Nat
  BY <1>2, <1>3, <1>4
<1>6. b.sig = Smaller.sig \div Pow[k]
  BY <1>2, <1>4
<1>. HIDE DEF k
<1>7. b'.s = b.s /\ b'.sig = b.sig \div 2 /\ b' \in [s : {0, 1}, e : Nat, sig : Nat]
  BY <1>2
<1>8. b'.sig = Smaller.sig \div Pow[k + 1]
  <2>1. Pow[k] \in Nat /\ Pow[k] > 0 /\ Pow[k + 1] = Pow[k] * 2
    BY <1>5, PowNext, PowNat
  <2>2. (Smaller.sig \div Pow[k]) \div 2 = Smaller.sig \div (Pow[k] * 2)
    BY <1>3, <2>1, DivTwice
  <2>. QED BY <1>6, <1>7, <2>1, <2>2
<1>9. AlignInv'
  <2>1. ~(Distance >= SigBits)
    BY <1>3, <1>4
  <2>. QED BY <1>1, <1>2, <1>4, <1>5, <1>7, <1>8, <2>1, SameCall DEF AlignInv, IsNormal
<1>. QED BY <1>1, <1>9, AtAlign

\* Aligned, the smaller operand has the significand Kept.
LEMMA Aligned ==
  ASSUME FloatInv, pc = "align", count = 0
  PROVE  /\ call \in AnyCall /\ call.op \in Sums /\ IsNormal(call.a) /\ IsNormal(Addend)
         /\ a = Larger /\ b.s = Smaller.s /\ b.sig = Kept
<1>1. /\ call \in AnyCall /\ call.op \in Sums /\ IsNormal(call.a) /\ IsNormal(Addend)
      /\ a = Larger /\ b.s = Smaller.s
  BY DEF FloatInv, AlignInv
<1>2. Distance \in Nat /\ Distance - 0 = Distance
  BY <1>1, Aligning
<1>. QED BY <1>1, <1>2 DEF FloatInv, AlignInv, Kept

\* The carry of two significands is at most one.
LEMMA SumFits ==
  ASSUME NEW m \in Nat, NEW n \in Nat, Lead <= m, m < SigSpace, n < SigSpace
  PROVE  /\ m + n \in Nat /\ Lead <= m + n
         /\ m + n >= SigSpace => /\ (m + n) \div 2 \in Nat /\ Lead <= (m + n) \div 2
                                 /\ (m + n) \div 2 < SigSpace
BY Sizes

LEMMA MagnitudesKeep == FloatInv /\ AddMagnitudes => FloatInv'
<1>. SUFFICES ASSUME FloatInv, AddMagnitudes PROVE FloatInv'
  OBVIOUS
<1>1. /\ call \in AnyCall /\ call.op \in Sums /\ IsNormal(call.a) /\ IsNormal(Addend)
      /\ a = Larger /\ b.sig = Kept
  BY Aligned DEF AddMagnitudes
<1>2. /\ Larger \in Float /\ IsNormal(Larger)
      /\ a.s \in {0, 1} /\ a.e \in Nat /\ a.e >= 1 /\ a.e < ExpMax
      /\ a.sig \in Nat /\ Lead <= a.sig /\ a.sig < SigSpace
      /\ b.sig \in Nat /\ b.sig < SigSpace
  <2>1. Larger \in Float /\ IsNormal(Larger)
    BY <1>1, Summands, Aligning
  <2>2. Kept \in Nat /\ Kept < SigSpace
    BY <1>1, Aligning, Sizes
  <2>3. a.sig \in Nat /\ Lead <= a.sig /\ a.sig < SigSpace
    BY <1>1, Aligning
  <2>. QED BY <1>1, <2>1, <2>2, <2>3, FloatFields, Widths DEF IsNormal
<1>. DEFINE sum == a.sig + b.sig
            half == sum \div 2
<1>3. /\ sum \in Nat /\ Lead <= sum
      /\ sum >= SigSpace => half \in Nat /\ Lead <= half /\ half < SigSpace
  BY <1>2, SumFits
<1>4. \/ sum < SigSpace /\ Return(Pack(a.s, a.e, sum))
      \/ sum >= SigSpace /\ a.e + 1 < ExpMax /\ Return(Pack(a.s, a.e + 1, half))
      \/ Return(Inf(a.s))
  BY DEF AddMagnitudes
<1>. HIDE DEF sum, half
<1>5. CASE sum < SigSpace /\ Return(Pack(a.s, a.e, sum))
  <2>1. Pack(a.s, a.e, sum) \in Float
    BY <1>2, <1>3, <1>5, PackFloat, Widths, Sizes
  <2>. QED BY <1>1, <1>5, <2>1, ReturnKeeps
<1>6. CASE sum >= SigSpace /\ a.e + 1 < ExpMax /\ Return(Pack(a.s, a.e + 1, half))
  <2>. DEFINE f == a.e + 1
  <2>1. f \in Nat /\ f <= ExpMax
    BY <1>2, <1>6, Widths
  <2>. HIDE DEF f
  <2>2. Pack(a.s, f, half) \in Float
    BY <1>2, <1>3, <1>6, <2>1, PackFloat
  <2>. QED BY <1>1, <1>6, <2>2, ReturnKeeps DEF f
<1>7. CASE Return(Inf(a.s))
  BY <1>1, <1>2, <1>7, Extremes, ReturnKeeps
<1>. QED BY <1>4, <1>5, <1>6, <1>7

LEMMA SubtractKeeps == FloatInv /\ Subtract => FloatInv'
<1>. SUFFICES ASSUME FloatInv, Subtract PROVE FloatInv'
  OBVIOUS
<1>1. /\ call \in AnyCall /\ call.op \in Sums /\ IsNormal(call.a) /\ IsNormal(Addend)
      /\ a = Larger /\ b.s = Smaller.s /\ b.sig = Kept /\ a.s # b.s
  BY Aligned DEF Subtract
<1>2. (a.sig - b.sig) % SigSpace = Difference
  BY <1>1 DEF Difference
<1>3. \/ Return(Zero(0))
      \/ ~LooksZero(Difference) /\ r' = [a EXCEPT !.sig = Difference] /\ Continue("norm")
  BY <1>2 DEF Subtract
<1>4. CASE Return(Zero(0))
  BY <1>1, <1>4, Extremes, ReturnKeeps
<1>5. CASE ~LooksZero(Difference) /\ r' = [a EXCEPT !.sig = Difference] /\ Continue("norm")
  <2>1. call' = call /\ pc' = "norm"
    BY <1>5 DEF Continue
  <2>2. Larger \in Float /\ IsNormal(Larger) /\ Difference \in Nat /\ Difference < SigSpace
    BY <1>1, Summands, Aligning
  <2>3. /\ Larger.s \in {0, 1} /\ Larger.e \in Nat /\ Larger.e >= 1
        /\ Larger = [s |-> Larger.s, e |-> Larger.e, sig |-> Larger.sig]
    BY <2>2, FloatFields, Widths DEF IsNormal
  <2>4. r' = [s |-> Larger.s, e |-> Larger.e, sig |-> Difference]
    BY <1>1, <1>5, <2>3
  <2>5. r' \in [s : {0, 1}, e : Nat, sig : Nat] /\ r'.s = Larger.s /\ r'.e = Larger.e
        /\ r'.sig = Difference
    BY <2>2, <2>3, <2>4
  <2>6. r'.sig = Difference * Pow[Larger.e - r'.e]
    BY <2>2, <2>3, <2>5, PowNext
  <2>7. LooksZero(Difference)' = LooksZero(Difference)
    BY <2>1, SameCall DEF LooksZero, WordSum, High
  <2>8. 1 <= r'.e /\ r'.e <= Larger.e /\ r'.sig < SigSpace
    BY <2>2, <2>3, <2>5
  <2>9. NormInv'
    BY <1>1, <1>5, <2>1, <2>5, <2>6, <2>7, <2>8, SameCall DEF NormInv, IsNormal
  <2>. QED BY <1>1, <2>1, <2>9, AtNorm
<1>. QED BY <1>3, <1>4, <1>5

LEMMA NormaliseKeeps == FloatInv /\ Normalise => FloatInv'
<1>. SUFFICES ASSUME FloatInv, Normalise PROVE FloatInv'
  OBVIOUS
<1>1. /\ call \in AnyCall /\ call.op \in Sums /\ IsNormal(call.a) /\ IsNormal(Addend)
      /\ Larger.s # Smaller.s /\ ~LooksZero(Difference)
      /\ r \in [s : {0, 1}, e : Nat, sig : Nat] /\ r.s = Larger.s
      /\ 1 <= r.e /\ r.e <= Larger.e /\ r.sig < SigSpace
      /\ r.sig = Difference * Pow[Larger.e - r.e]
  BY DEF FloatInv, NormInv, Normalise
<1>2. Larger.e \in Nat /\ Larger.e < ExpMax /\ Difference \in Nat
  <2>1. Larger \in Float /\ IsNormal(Larger)
    BY <1>1, Summands, Aligning
  <2>. QED BY <1>1, <2>1, FloatFields, Widths, Aligning DEF IsNormal
<1>3. \/ r.sig >= Lead /\ Return(Pack(r.s, r.e, r.sig))
      \/ Return(Zero(0))
      \/ /\ r.sig < Lead /\ r.e # 1 /\ r' = [r EXCEPT !.sig = 2 * @, !.e = @ - 1]
         /\ call' = call /\ pc' = "norm"
  BY DEF Normalise
<1>4. CASE r.sig >= Lead /\ Return(Pack(r.s, r.e, r.sig))
  <2>1. r.s \in {0, 1} /\ r.e \in Nat /\ r.e <= ExpMax /\ r.sig \in Nat
    BY <1>1, <1>2, Widths
  <2>2. Pack(r.s, r.e, r.sig) \in Float
    BY <1>1, <1>4, <2>1, PackFloat
  <2>. QED BY <1>1, <1>4, <2>2, ReturnKeeps
<1>5. CASE Return(Zero(0))
  BY <1>1, <1>5, Extremes, ReturnKeeps
<1>6. CASE /\ r.sig < Lead /\ r.e # 1 /\ r' = [r EXCEPT !.sig = 2 * @, !.e = @ - 1]
           /\ call' = call /\ pc' = "norm"
  <2>. DEFINE k == Larger.e - r.e
  <2>1. r.e \in Nat /\ r.sig \in Nat /\ r.e - 1 \in Nat /\ 1 <= r.e - 1 /\ r.e - 1 <= Larger.e
        /\ k \in Nat /\ Larger.e - (r.e - 1) = k + 1
    BY <1>1, <1>2, <1>6
  <2>2. /\ r'.s = r.s /\ r'.e = r.e - 1 /\ r'.sig = 2 * r.sig
        /\ r' \in [s : {0, 1}, e : Nat, sig : Nat]
    <3>1. r = [s |-> r.s, e |-> r.e, sig |-> r.sig] /\ r.s \in {0, 1}
      BY <1>1
    <3>2. r' = [s |-> r.s, e |-> r.e - 1, sig |-> 2 * r.sig]
      BY <1>6, <3>1
    <3>. QED BY <2>1, <3>1, <3>2
  <2>3. r'.sig < SigSpace
    BY <1>6, <2>1, <2>2, Sizes
  <2>4. r'.sig = Difference * Pow[k + 1]
    <3>1. r.sig = Difference * Pow[k]
      BY <1>1
    <3>. HIDE DEF k
    <3>2. Pow[k] \in Nat /\ Pow[k + 1] = 2 * Pow[k]
      BY <2>1, PowNext, PowNat
    <3>3. 2 * (Difference * Pow[k]) = Difference * (2 * Pow[k])
      BY <1>2, <3>2
    <3>. QED BY <2>2, <3>1, <3>2, <3>3
  <2>5. r'.sig = Difference * Pow[Larger.e - r'.e]
    BY <2>1, <2>2, <2>4
  <2>6. LooksZero(Difference)' = LooksZero(Difference)
    BY <1>6, SameCall DEF LooksZero, WordSum, High
  <2>7. NormInv'
    BY <1>1, <1>6, <2>1, <2>2, <2>3, <2>5, <2>6, SameCall DEF NormInv, IsNormal
  <2>. QED BY <1>1, <1>6, <2>7, AtNorm
<1>. QED BY <1>3, <1>4, <1>5, <1>6

\* One more bit of a number: its low part and what is left of it.
LEMMA NextBit ==
  ASSUME NEW y \in Nat, NEW p \in Nat, p > 0
  PROVE  /\ y % (2 * p) = (y % p) + ((y \div p) % 2) * p
         /\ y \div (2 * p) = (y \div p) \div 2
<1>. DEFINE q == y \div p
            t == y % p
            c == q % 2
            h == q \div 2
            u == c * p + t
<1>1. q \in Int /\ t \in Nat /\ t < p /\ y = q * p + t
  BY Quotient
<1>2. h \in Int /\ c \in {0, 1} /\ q = 2 * h + c
  BY <1>1
<1>. HIDE DEF q, t, c, h
<1>3. u \in Nat /\ u < 2 * p
  BY <1>1, <1>2
<1>4. y = h * (2 * p) + u
  <2>1. q * p = h * (2 * p) + c * p
    BY <1>1, <1>2
  <2>2. h * (2 * p) \in Int /\ c * p \in Int
    BY <1>1, <1>2
  <2>. QED BY <1>1, <2>1, <2>2
<1>5. u = y % (2 * p) /\ h = y \div (2 * p)
  <2>. HIDE DEF u
  <2>1. 2 * p \in Nat /\ 2 * p > 0
    OBVIOUS
  <2>. QED BY <1>2, <1>3, <1>4, <2>1, DivUnique
<1>6. u = t + c * p
  BY <1>1, <1>2
<1>. QED BY <1>5, <1>6 DEF q, t, c, h

LEMMA Parts ==
  ASSUME NEW y \in Nat, NEW n \in Nat, n > 0
  PROVE  y % n \in Nat /\ y % n < n /\ y % n <= y /\ y \div n \in Nat
<1>. DEFINE q == y \div n
            t == y % n
<1>1. q \in Int /\ t \in Nat /\ t < n /\ y = q * n + t
  BY Quotient
<1>2. 0 * n <= y
  OBVIOUS
<1>3. q >= 0
  BY <1>2, QuotientBounds
<1>. HIDE DEF q, t
<1>4. q \in Nat /\ q * n \in Nat
  BY <1>1, <1>3
<1>5. t <= y
  BY <1>1, <1>4
<1>. QED BY <1>1, <1>4, <1>5 DEF q, t

LEMMA ProductLess ==
  ASSUME NEW x \in Nat, NEW y \in Nat, NEW m \in Nat, NEW n \in Nat, x < m, y <= n, n > 0
  PROVE  x * y < m * n /\ x * y \in Nat
<1>1. y * x <= n * x
  BY MulMono
<1>2. x * n < m * n
  BY MulStrict
<1>3. x * y \in Nat /\ x * n \in Nat /\ m * n \in Nat /\ y * x = x * y /\ n * x = x * n
  OBVIOUS
<1>. QED BY <1>1, <1>2, <1>3

\* The first words of two normal operands.
LEMMA FirstWords ==
  ASSUME call \in AnyCall, call.op \in {"fmul", "fdiv"}, IsNormal(call.a), IsNormal(call.b)
  PROVE  /\ High(call.a.sig) \in Nat /\ Half <= High(call.a.sig) /\ High(call.a.sig) < Space
         /\ High(call.b.sig) \in Nat /\ Half <= High(call.b.sig) /\ High(call.b.sig) < Space
         /\ call.a.e \in Nat /\ 1 <= call.a.e /\ call.a.e < ExpMax
         /\ call.b.e \in Nat /\ 1 <= call.b.e /\ call.b.e < ExpMax
         /\ Sign \in {0, 1}
<1>1. call.a \in Float /\ call.b \in Float
  BY Operand
<1>2. /\ call.a.e \in Nat /\ 1 <= call.a.e /\ call.a.e < ExpMax
      /\ call.b.e \in Nat /\ 1 <= call.b.e /\ call.b.e < ExpMax
  BY <1>1, FloatFields, Widths DEF IsNormal
<1>3. call.a.s \in {0, 1} /\ call.b.s \in {0, 1}
  BY <1>1, FloatFields
<1>4. Sign \in {0, 1}
  BY <1>3 DEF Sign
<1>. QED BY <1>1, <1>2, <1>4, FloatFields, HighWord, Sizes

LEMMA EnterNormal ==
  ASSUME call \in AnyCall, call.op \in {"fmul", "fdiv"},
         {call.a.e, call.b.e} \cap {0, ExpMax} = {}
  PROVE  IsNormal(call.a) /\ IsNormal(call.b)
<1>1. call.a \in Float /\ call.b \in Float
  BY Operand
<1>2. call.a.e \notin {0, ExpMax} /\ call.b.e \notin {0, ExpMax}
  OBVIOUS
<1>. QED BY <1>1, <1>2, FloatFields, Widths DEF IsNormal

LEMMA MulEnterKeeps == FloatInv /\ MulEnter => FloatInv'
<1>. SUFFICES ASSUME FloatInv, MulEnter PROVE FloatInv'
  OBVIOUS
<1>1. /\ call \in AnyCall /\ call' = call /\ pc' = "mul" /\ call.op = "fmul"
      /\ acc' = 0 /\ sh' = High(call.a.sig) /\ rem' = High(call.b.sig) /\ count' = WordBits
  BY DEF FloatInv, MulEnter, Continue, Enters
<1>2. IsNormal(call.a) /\ IsNormal(call.b)
  BY <1>1, EnterNormal DEF MulEnter
<1>3. High(call.a.sig) \in Nat /\ High(call.b.sig) \in Nat
  BY <1>1, <1>2, FirstWords
<1>4. WordBits \in Nat /\ WordBits - WordBits = 0 /\ Pow[0] = 1
  BY Widths, PowNext
<1>5. /\ High(call.a.sig) * 1 = High(call.a.sig) /\ High(call.b.sig) \div 1 = High(call.b.sig)
      /\ High(call.a.sig) * (High(call.b.sig) % 1) = 0
  BY <1>3
<1>6. MulInv'
  BY <1>1, <1>2, <1>4, <1>5 DEF MulInv, High, IsNormal
<1>. QED BY <1>1, <1>6, AtMul

LEMMA MulLoopKeeps == FloatInv /\ MulLoop => FloatInv'
<1>. SUFFICES ASSUME FloatInv, MulLoop PROVE FloatInv'
  OBVIOUS
<1>. DEFINE x == High(call.a.sig)
            y == High(call.b.sig)
            i == WordBits - count
            p == Pow[i]
            bit == (y \div p) % 2
            low == y % p
            next == y % (2 * p)
<1>1. /\ call \in AnyCall /\ call' = call /\ pc' = "mul" /\ call.op = "fmul"
      /\ IsNormal(call.a) /\ IsNormal(call.b)
      /\ count \in 0..WordBits /\ count > 0 /\ count' = count - 1
      /\ sh = x * p /\ rem = y \div p /\ acc = x * low
      /\ acc' = (acc + (rem % 2) * sh) % Space2 /\ sh' = (2 * sh) % Space2 /\ rem' = rem \div 2
  BY DEF FloatInv, MulInv, MulLoop
<1>2. x \in Nat /\ y \in Nat /\ x < Space /\ y < Space
  BY <1>1, FirstWords
<1>3. /\ i \in Nat /\ i + 1 = WordBits - count' /\ i + 1 <= WordBits /\ i + 1 \in Nat
      /\ count' \in 0..WordBits
  BY <1>1, Widths
<1>4. p \in Nat /\ p > 0 /\ Pow[i + 1] = 2 * p /\ 2 * p <= Space
  <2>. HIDE DEF i
  <2>1. Pow[i + 1] <= Pow[WordBits]
    BY <1>3, PowGrows, Widths
  <2>. QED BY <1>3, <2>1, PowNext, PowNat DEF Space
<1>5. next = low + bit * p /\ y \div (2 * p) = (y \div p) \div 2
  BY <1>2, <1>4, NextBit
<1>6. low \in Nat /\ bit \in {0, 1} /\ next \in Nat /\ next <= y
  <2>. HIDE DEF y, p
  <2>1. low \in Nat /\ y \div p \in Nat
    BY <1>2, <1>4, Parts
  <2>2. 2 * p \in Nat /\ 2 * p > 0
    BY <1>4
  <2>3. next \in Nat /\ next <= y
    BY <1>2, <2>2, Parts
  <2>. QED BY <2>1, <2>3
<1>. HIDE DEF x, y, i, p, bit, low, next
<1>7. x * low + bit * (x * p) = x * next
  <2>1. x * (low + bit * p) = x * low + bit * (x * p)
    BY <1>2, <1>4, <1>6
  <2>. QED BY <1>5, <2>1
<1>8. x * next < Space * Space /\ x * next \in Nat
  BY <1>2, <1>6, ProductLess, Sizes
<1>9. x * (2 * p) < Space * Space /\ x * (2 * p) \in Nat
  BY <1>2, <1>4, ProductLess, Sizes
<1>10. acc' = x * next
  <2>1. acc' = (x * low + bit * (x * p)) % Space2
    BY <1>1 DEF bit
  <2>2. acc' = (x * next) % Space2
    BY <1>7, <2>1
  <2>. DEFINE v == x * next
  <2>3. v \in Nat /\ v < Space2 /\ Space2 \in Nat
    BY <1>8, Sizes
  <2>. HIDE DEF v
  <2>4. v % Space2 = v
    BY <2>3
  <2>. QED BY <2>2, <2>4 DEF v
<1>11. sh' = x * (2 * p)
  <2>1. 2 * (x * p) = x * (2 * p)
    BY <1>2, <1>4
  <2>. DEFINE v == x * (2 * p)
  <2>2. v \in Nat /\ v < Space2 /\ Space2 \in Nat /\ sh' = v % Space2
    BY <1>1, <1>9, <2>1, Sizes
  <2>. HIDE DEF v
  <2>3. v % Space2 = v
    BY <2>2
  <2>. QED BY <2>2, <2>3 DEF v
<1>12. rem' = y \div (2 * p)
  BY <1>1, <1>5
<1>13. Pow[WordBits - count'] = 2 * p /\ High(call'.a.sig) = x /\ High(call'.b.sig) = y
  BY <1>1, <1>3, <1>4 DEF x, y
<1>14. MulInv'
  <2>1. High(call.a.sig)' = x /\ High(call.b.sig)' = y
    BY <1>1 DEF x, y, High
  <2>. QED BY <1>1, <1>3, <1>10, <1>11, <1>12, <1>13, <2>1 DEF MulInv, IsNormal, next
<1>. QED BY <1>1, <1>14, AtMul

\* Two words or one word with the leading bit set make a significand.
LEMMA Normed ==
  ASSUME NEW v \in Nat
  PROVE  /\ Half * Space <= v /\ v < Space2 =>
              v * Space \in Nat /\ Lead <= v * Space /\ v * Space < SigSpace
         /\ Half <= v /\ v < Space =>
              v * Space2 \in Nat /\ Lead <= v * Space2 /\ v * Space2 < SigSpace
<1>. DEFINE h == Half
            w == Space
            d == Space2
<1>1. h \in Nat /\ w \in Nat /\ d \in Nat /\ w > 0 /\ d > 0 /\ d = w * w /\ Lead = h * d
      /\ SigSpace = w * d /\ Half * Space = h * w
  BY Sizes
<1>. HIDE DEF h, w, d
<1>2. (h * w) * w = h * d /\ d * w = w * d /\ h * w \in Nat /\ v * w \in Nat /\ v * d \in Nat
  BY <1>1
<1>3. h * w <= v /\ v < d => (h * w) * w <= v * w /\ v * w < d * w
  BY <1>1, <1>2, MulStrict
<1>4. h <= v /\ v < w => h * d <= v * d /\ v * d < w * d
  BY <1>1, MulStrict
<1>. QED BY <1>1, <1>2, <1>3, <1>4 DEF h, w, d

LEMMA CheckedFloat ==
  ASSUME Sign \in {0, 1}, NEW e \in Nat, NEW sig \in Nat, Lead <= sig, sig < SigSpace
  PROVE  Checked(e, sig) \in Float
<1>1. e = 0 \/ (e # 0 /\ e >= ExpMax) \/ (e # 0 /\ e < ExpMax)
  BY Widths
<1>2. CASE e = 0
  BY <1>2, Extremes DEF Checked
<1>3. CASE e # 0 /\ e >= ExpMax
  BY <1>3, Extremes DEF Checked
<1>4. CASE e # 0 /\ e < ExpMax
  <2>1. Checked(e, sig) = Pack(Sign, e, sig)
    BY <1>4, Widths DEF Checked
  <2>. QED BY <1>4, <2>1, PackFloat, Widths
<1>. QED BY <1>1, <1>2, <1>3, <1>4

\* The loop of __fmul multiplies.
LEMMA Multiplied ==
  ASSUME FloatInv, pc = "mul", count = 0
  PROVE  /\ call \in AnyCall /\ call.op = "fmul" /\ IsNormal(call.a) /\ IsNormal(call.b)
         /\ acc \in Nat /\ acc = High(call.a.sig) * High(call.b.sig)
         /\ acc < Space2 /\ Half * Space <= 2 * acc
<1>. DEFINE x == High(call.a.sig)
            y == High(call.b.sig)
<1>1. /\ call \in AnyCall /\ call.op = "fmul" /\ IsNormal(call.a) /\ IsNormal(call.b)
      /\ acc = x * (y % Pow[WordBits - 0])
  BY DEF FloatInv, MulInv
<1>2. x \in Nat /\ y \in Nat /\ x < Space /\ y < Space /\ Half <= x /\ Half <= y
  BY <1>1, FirstWords
<1>3. Pow[WordBits - 0] = Space
  BY Widths DEF Space
<1>. HIDE DEF x, y
<1>4. y % Space = y
  BY <1>2, Sizes
<1>5. acc = x * y
  BY <1>1, <1>3, <1>4
<1>6. x * y \in Nat /\ x * y < Space2
  BY <1>2, ProductLess, Sizes
<1>7. Half * Space <= 2 * acc
  <2>. DEFINE h == Half
  <2>1. h \in Nat /\ h <= x /\ h <= y /\ Half * Space = h * (2 * h)
    BY <1>2, Sizes
  <2>. HIDE DEF h
  <2>2. h * h <= x * h /\ h * x <= y * x
    BY <1>2, <2>1, MulMono
  <2>3. h * (2 * h) = 2 * (h * h) /\ h * x = x * h /\ y * x = x * y /\ h * h \in Nat /\ x * h \in Nat
    BY <1>2, <2>1
  <2>. QED BY <1>5, <1>6, <2>1, <2>2, <2>3
<1>. QED BY <1>1, <1>5, <1>6, <1>7 DEF x, y

LEMMA MulEndKeeps == FloatInv /\ MulEnd => FloatInv'
<1>. SUFFICES ASSUME FloatInv, MulEnd PROVE FloatInv'
  OBVIOUS
<1>1. /\ call \in AnyCall /\ call.op = "fmul" /\ IsNormal(call.a) /\ IsNormal(call.b)
      /\ acc \in Nat /\ acc < Space2 /\ Half * Space <= 2 * acc
  BY Multiplied DEF MulEnd
<1>2. call.a.e \in Nat /\ call.b.e \in Nat /\ Sign \in {0, 1}
  BY <1>1, FirstWords
<1>. DEFINE e == call.a.e + call.b.e - Bias
            over == (e + 1) % ExpSpace
            same == e % ExpSpace
<1>3. over \in Nat /\ same \in Nat
  <2>1. e \in Int /\ e + 1 \in Int /\ ExpSpace \in Nat /\ ExpSpace > 0
    BY <1>2, Widths
  <2>. HIDE DEF e
  <2>. QED BY <2>1, Quotient
<1>4. \/ acc >= Half * Space /\ Return(Checked(over, acc * Space))
      \/ acc < Half * Space /\ Return(Checked(same, 2 * acc * Space))
  BY <1>1, Sizes DEF MulEnd
<1>. HIDE DEF over, same
<1>5. CASE acc >= Half * Space /\ Return(Checked(over, acc * Space))
  <2>. DEFINE v == acc * Space
  <2>1. v \in Nat /\ Lead <= v /\ v < SigSpace
    BY <1>1, <1>5, Normed, Sizes
  <2>. HIDE DEF v
  <2>2. Checked(over, v) \in Float
    BY <1>2, <1>3, <2>1, CheckedFloat
  <2>. QED BY <1>1, <1>5, <2>2, ReturnKeeps DEF v
<1>6. CASE acc < Half * Space /\ Return(Checked(same, 2 * acc * Space))
  <2>. DEFINE u == 2 * acc
              v == u * Space
  <2>1. u \in Nat /\ Half * Space <= u /\ u < Space2
    <3>. DEFINE m == Half * Space
    <3>1. m \in Nat /\ Space2 = 2 * m
      <4>1. (2 * Half) * Space = 2 * (Half * Space)
        BY Sizes
      <4>. QED BY <4>1, Sizes
    <3>. HIDE DEF m
    <3>2. acc < m /\ m <= 2 * acc
      BY <1>1, <1>6 DEF m
    <3>3. u \in Nat /\ m <= u /\ u < Space2
      BY <1>1, <3>1, <3>2
    <3>. QED BY <3>3 DEF m
  <2>. HIDE DEF u
  <2>2. v \in Nat /\ Lead <= v /\ v < SigSpace
    BY <2>1, Normed
  <2>. HIDE DEF v
  <2>3. Checked(same, v) \in Float
    BY <1>2, <1>3, <2>2, CheckedFloat
  <2>. QED BY <1>1, <1>6, <2>3, ReturnKeeps DEF u, v
<1>. QED BY <1>4, <1>5, <1>6

LEMMA DivEnterKeeps == FloatInv /\ DivEnter => FloatInv'
<1>. SUFFICES ASSUME FloatInv, DivEnter PROVE FloatInv'
  OBVIOUS
<1>. DEFINE last == 2 * WordBits - 1
            x == High(call.a.sig)
            y == High(call.b.sig)
<1>1. /\ call \in AnyCall /\ call' = call /\ pc' = "div" /\ call.op = "fdiv"
      /\ acc' = 0 /\ sh' = x /\ rem' = 0 /\ count' = last
  BY DEF FloatInv, DivEnter, Continue, Enters
<1>2. IsNormal(call.a) /\ IsNormal(call.b)
  BY <1>1, EnterNormal DEF DivEnter
<1>3. x \in Nat /\ y \in Nat /\ x < Space /\ Half <= y
  BY <1>1, <1>2, FirstWords
<1>4. last \in Nat /\ last - last = 0 /\ Pow[0] = 1 /\ last \in 0..last
  BY Widths, PowNext
<1>5. High(call.a.sig)' = x /\ High(call.b.sig)' = y
  BY <1>1 DEF High
<1>. HIDE DEF last, x, y
<1>6. acc' \in Word /\ sh' \in Word /\ rem' \in Nat /\ rem' < y /\ count' \in 0..last
  BY <1>1, <1>3, <1>4, Sizes DEF Word
<1>7. (acc' * y + rem') * Space + sh' = x * Pow[last - count']
  BY <1>1, <1>3, <1>4, Sizes
<1>8. DivInv'
  BY <1>1, <1>2, <1>5, <1>6, <1>7 DEF DivInv, IsNormal, last
<1>. QED BY <1>1, <1>8, AtDiv

LEMMA DivLoopKeeps == FloatInv /\ DivLoop => FloatInv'
<1>. SUFFICES ASSUME FloatInv, DivLoop PROVE FloatInv'
  OBVIOUS
<1>. DEFINE x == High(call.a.sig)
            y == High(call.b.sig)
            last == 2 * WordBits - 1
            i == last - count
            c == (2 * sh) \div Space
            s == (2 * sh) % Space
            R == 2 * rem + c
            bit == IF Goes(R, y) THEN 1 ELSE 0
            n == 2 * acc + bit
            t == R - bit * y
            M == acc * y + rem
            N == n * y + t
<1>1. /\ call \in AnyCall /\ call' = call /\ pc' = "div" /\ call.op = "fdiv"
      /\ IsNormal(call.a) /\ IsNormal(call.b)
      /\ count \in 0..last /\ count > 0 /\ count' = count - 1
      /\ acc \in Word /\ sh \in Word /\ rem \in Nat /\ rem < y
      /\ M * Space + sh = x * Pow[i]
      /\ sh' = s
      /\ IF Goes(R, y) THEN rem' = (R - y) % Space /\ acc' = (2 * acc + 1) % Space
         ELSE rem' = R % Space /\ acc' = (2 * acc) % Space
  BY DEF FloatInv, DivInv, DivLoop
<1>2. x \in Nat /\ y \in Nat /\ x < Space /\ y < Space /\ Half <= y
  BY <1>1, FirstWords
<1>3. /\ i \in Nat /\ i + 1 = last - count' /\ i + 1 <= last /\ i + 1 \in Nat /\ last \in Nat
      /\ count' \in 0..last
  BY <1>1, Widths
<1>4. acc \in Nat /\ acc < Space /\ sh \in Nat /\ sh < Space /\ Space \in Nat /\ Space > 0
  BY <1>1, Sizes DEF Word
<1>5. c \in {0, 1} /\ s \in Nat /\ s < Space /\ 2 * sh = c * Space + s
  <2>1. c \in Int /\ s \in Nat /\ s < Space /\ 2 * sh = c * Space + s
    BY <1>4, Quotient
  <2>2. c \in Nat
    BY <1>4, Parts
  <2>3. c < 2
    BY <1>4, QuotientBounds
  <2>. HIDE DEF c
  <2>. QED BY <2>1, <2>2, <2>3
<1>. HIDE DEF x, y, i, c, s, last
<1>6. R \in Nat /\ R < 2 * y
  BY <1>1, <1>2, <1>5
<1>7. Goes(R, y) = (R >= y)
  BY <1>2, <1>4, <1>6 DEF Goes
<1>8. bit \in {0, 1} /\ t \in Nat /\ t < y /\ t < Space
  <2>. HIDE DEF R
  <2>1. CASE R >= y
    <3>1. bit = 1 /\ t = R - y
      <4>1. bit = 1
        BY <1>2, <1>6, <1>7, <2>1
      <4>2. t = R - bit * y
        OBVIOUS
      <4>. HIDE DEF t, bit
      <4>3. 1 * y = y
        BY <1>2
      <4>. QED BY <1>2, <1>6, <4>1, <4>2, <4>3
    <3>. HIDE DEF t, bit
    <3>. QED BY <1>2, <1>4, <1>6, <2>1, <3>1
  <2>2. CASE R < y
    <3>1. bit = 0 /\ t = R
      <4>0. ~(R >= y)
        BY <1>2, <1>6, <2>2
      <4>1. bit = 0
        BY <1>7, <4>0
      <4>2. t = R - bit * y
        OBVIOUS
      <4>. HIDE DEF t, bit
      <4>3. 0 * y = 0
        BY <1>2
      <4>. QED BY <1>2, <1>6, <4>1, <4>2, <4>3
    <3>. HIDE DEF t, bit
    <3>. QED BY <1>2, <1>4, <1>6, <2>2, <3>1
  <2>. QED BY <1>2, <1>6, <2>1, <2>2
<1>9. rem' = t % Space /\ acc' = n % Space
  BY <1>1, <1>2, <1>4, <1>6
<1>10. n \in Nat /\ M \in Nat /\ N \in Nat
  BY <1>1, <1>2, <1>4, <1>8
<1>11. N = 2 * M + c
  <2>1. n * y = 2 * (acc * y) + bit * y
    BY <1>2, <1>4, <1>8
  <2>. DEFINE u == acc * y
              v == bit * y
  <2>2. u \in Int /\ v \in Int /\ n * y = 2 * u + v /\ t = R - v /\ M = u + rem
    BY <1>2, <1>4, <1>8, <2>1
  <2>. HIDE DEF u, v, t, n, M
  <2>3. N = (2 * u + v) + (R - v)
    BY <2>2
  <2>4. (2 * u + v) + (R - v) = 2 * (u + rem) + c
    BY <1>1, <1>5, <2>2
  <2>. QED BY <2>2, <2>3, <2>4
<1>. HIDE DEF R, bit, n, t, M, N
<1>12. N * Space + s = x * Pow[i + 1]
  <2>1. Pow[i] \in Nat /\ Pow[i + 1] = 2 * Pow[i]
    BY <1>3, PowNext, PowNat
  <2>2. x * (2 * Pow[i]) = 2 * (x * Pow[i])
    BY <1>2, <2>1
  <2>3. N * Space = 2 * (M * Space) + c * Space
    BY <1>4, <1>5, <1>10, <1>11
  <2>. DEFINE u == M * Space
              v == c * Space
              z == x * Pow[i]
              k == N * Space
  <2>4. u \in Int /\ v \in Int /\ k = 2 * u + v /\ u + sh = z /\ z \in Int
    BY <1>1, <1>2, <1>4, <1>5, <1>10, <2>1, <2>3
  <2>. HIDE DEF u, v, z, k
  <2>5. k + s = 2 * z
    BY <1>4, <1>5, <2>4 DEF v
  <2>. QED BY <2>1, <2>2, <2>5 DEF k, z
<1>13. n < Space
  <2>1. Pow[i + 1] <= Pow[last] /\ Pow[i + 1] \in Nat /\ Pow[last] \in Nat
    BY <1>3, PowGrows, PowNat
  <2>2. Pow[last] = Half * Space
    <3>. DEFINE v == WordBits - 1
                w == WordBits
    <3>1. v \in Nat /\ w \in Nat /\ last = v + w /\ Half = Pow[v] /\ Space = Pow[w]
      BY Widths DEF last, Half, Space
    <3>. HIDE DEF v, w
    <3>. QED BY <3>1, PowSum
  <2>3. x * Pow[i + 1] < Space * (Half * Space)
    <3>. DEFINE p == Pow[i + 1]
                q == Half * Space
    <3>1. p \in Nat /\ q \in Nat /\ p <= q /\ q > 0
      <4>1. Half * Space \in Nat
        BY Sizes
      <4>2. Half * Space >= Space
        BY Sizes, MulGrows
      <4>. QED BY <1>4, <2>1, <2>2, <4>1, <4>2
    <3>. HIDE DEF p, q
    <3>2. x * p < Space * q
      BY <1>2, <1>4, <3>1, ProductLess
    <3>. QED BY <3>2 DEF p, q
  <2>4. Space * (Half * Space) = (Space * Half) * Space
    BY Sizes
  <2>5. N * Space < (Space * Half) * Space
    <3>. DEFINE u == N * Space
                v == x * Pow[i + 1]
                z == (Space * Half) * Space
    <3>1. u \in Int /\ v \in Int /\ z \in Int /\ u + s = v /\ v < z
      BY <1>2, <1>10, <1>12, <2>1, <2>3, <2>4, Sizes
    <3>. HIDE DEF u, v, z
    <3>2. u < z
      BY <1>5, <3>1
    <3>. QED BY <3>2 DEF u, z
  <2>. DEFINE h == Space * Half
  <2>6. h \in Int /\ N \in Int /\ Space \in Nat /\ Space > 0 /\ N * Space < h * Space
    BY <1>4, <1>10, <2>5, Sizes
  <2>. HIDE DEF h
  <2>7. N < h
    BY <2>6, MulStrict
  <2>8. h <= Space * y
    <3>1. Half * Space <= y * Space
      BY <1>2, <1>4, MulMono, Sizes
    <3>2. Half * Space = h /\ y * Space = Space * y
      BY <1>2, <1>4, Sizes DEF h
    <3>. QED BY <3>1, <3>2
  <2>9. n * y < Space * y
    <3>. DEFINE u == n * y
                v == Space * y
    <3>1. u \in Int /\ v \in Int /\ N = u + t /\ h <= v
      BY <1>2, <1>4, <1>10, <2>8 DEF N
    <3>. HIDE DEF u, v
    <3>2. u < v
      BY <1>8, <2>6, <2>7, <3>1
    <3>. QED BY <3>2 DEF u, v
  <2>10. y > 0
    BY <1>2, Sizes
  <2>. QED BY <1>2, <1>4, <1>10, <2>9, <2>10, MulStrict
<1>14. rem' = t /\ acc' = n
  <2>1. t % Space = t
    BY <1>4, <1>8
  <2>2. n % Space = n
    BY <1>4, <1>10, <1>13
  <2>. QED BY <1>9, <2>1, <2>2
<1>15. DivInv'
  <2>1. High(call.a.sig)' = x /\ High(call.b.sig)' = y
    BY <1>1 DEF x, y, High
  <2>2. acc' \in Word /\ sh' \in Word /\ rem' \in Nat /\ rem' < y
    BY <1>1, <1>4, <1>5, <1>8, <1>10, <1>13, <1>14 DEF Word
  <2>3. (acc' * y + rem') * Space + sh' = x * Pow[last - count']
    BY <1>1, <1>3, <1>12, <1>14 DEF N
  <2>. QED BY <1>1, <1>3, <2>1, <2>2, <2>3 DEF DivInv, IsNormal, last
<1>. QED BY <1>1, <1>15, AtDiv

\* The loop of __fdiv divides, to one bit less than two words.
LEMMA Divided ==
  ASSUME FloatInv, pc = "div", count = 0
  PROVE  /\ call \in AnyCall /\ call.op = "fdiv" /\ IsNormal(call.a) /\ IsNormal(call.b)
         /\ acc \in Nat /\ acc < Space /\ Half <= 2 * acc
         /\ acc = (High(call.a.sig) * Half) \div High(call.b.sig)
<1>. DEFINE x == High(call.a.sig)
            y == High(call.b.sig)
            M == acc * y + rem
<1>1. /\ call \in AnyCall /\ call.op = "fdiv" /\ IsNormal(call.a) /\ IsNormal(call.b)
      /\ acc \in Word /\ sh \in Word /\ rem \in Nat /\ rem < y
      /\ M * Space + sh = x * Pow[2 * WordBits - 1 - 0]
  BY DEF FloatInv, DivInv
<1>2. x \in Nat /\ y \in Nat /\ x < Space /\ y < Space /\ Half <= x /\ Half <= y
  BY <1>1, FirstWords
<1>3. acc \in Nat /\ acc < Space /\ sh \in Nat /\ sh < Space
  BY <1>1, Sizes DEF Word
<1>4. Pow[2 * WordBits - 1 - 0] = Half * Space
  <2>. DEFINE v == WordBits - 1
              w == WordBits
  <2>1. v \in Nat /\ w \in Nat /\ 2 * WordBits - 1 - 0 = v + w /\ Half = Pow[v] /\ Space = Pow[w]
    BY Widths DEF Half, Space
  <2>. HIDE DEF v, w
  <2>. QED BY <2>1, PowSum
<1>. HIDE DEF x, y
<1>. DEFINE h == Half
            w == Space
            N == x * h
<1>5. h \in Nat /\ w \in Nat /\ h > 0 /\ w > 0 /\ w = 2 * h /\ h = 2 * Quarter /\ Quarter \in Nat
  BY Sizes
<1>6. M * w + sh = N * w
  <2>1. M * Space + sh = x * (h * w)
    BY <1>1, <1>4
  <2>2. x * (h * w) = (x * h) * w
    BY <1>2, <1>5
  <2>. QED BY <2>1, <2>2
<1>7. M \in Nat /\ N \in Nat /\ sh < w
  BY <1>1, <1>2, <1>3, <1>5
<1>8. acc * y + rem = N
  <2>. HIDE DEF M, N, w
  <2>. DEFINE v == N * w
  <2>1. v \in Int /\ v = M * w + sh /\ v = N * w + 0
    BY <1>3, <1>5, <1>6, <1>7
  <2>. HIDE DEF v
  <2>2. M = v \div w
    BY <1>3, <1>5, <1>7, <2>1, DivUnique
  <2>3. N = v \div w
    BY <1>5, <1>7, <2>1, DivUnique
  <2>4. M = N
    BY <2>2, <2>3
  <2>. QED BY <2>4 DEF M
<1>9. acc = N \div y
  <2>. HIDE DEF N
  <2>. QED BY <1>1, <1>2, <1>3, <1>5, <1>7, <1>8, DivUnique DEF h
<1>10. h <= 2 * acc
  <2>. SUFFICES ASSUME 2 * acc < h PROVE FALSE
    BY <1>3, <1>5
  <2>1. acc <= Quarter - 1
    BY <1>3, <1>5
  <2>2. acc * y <= (Quarter - 1) * y
    BY <1>2, <1>3, <1>5, <2>1, MulMono
  <2>3. h * h <= x * h
    BY <1>2, <1>5, MulMono
  <2>4. Quarter * y <= Quarter * w
    <3>1. y * Quarter <= w * Quarter
      BY <1>2, <1>5, MulMono
    <3>2. y * Quarter = Quarter * y /\ w * Quarter = Quarter * w
      BY <1>2, <1>5
    <3>. QED BY <3>1, <3>2
  <2>5. (Quarter - 1) * y = Quarter * y - y /\ Quarter * w = h * h
    <3>1. (Quarter - 1) * y = Quarter * y - y
      BY <1>2, <1>5
    <3>2. Quarter * (2 * h) = (2 * Quarter) * h
      BY <1>5
    <3>. QED BY <1>5, <3>1, <3>2
  <2>. DEFINE a1 == acc * y
              a2 == Quarter * y
              a3 == h * h
  <2>6. a1 \in Int /\ a2 \in Int /\ a3 \in Int /\ N \in Int
    BY <1>2, <1>3, <1>5, <1>7
  <2>7. a1 <= a2 - y /\ a2 <= a3 /\ a3 <= N /\ a1 + rem = N
    BY <1>8, <2>2, <2>3, <2>4, <2>5
  <2>. HIDE DEF a1, a2, a3, N
  <2>. QED BY <1>1, <1>2, <2>6, <2>7 DEF y
<1>. QED BY <1>1, <1>3, <1>9, <1>10 DEF x, y

LEMMA DivEndKeeps == FloatInv /\ DivEnd => FloatInv'
<1>. SUFFICES ASSUME FloatInv, DivEnd PROVE FloatInv'
  OBVIOUS
<1>1. /\ call \in AnyCall /\ call.op = "fdiv" /\ IsNormal(call.a) /\ IsNormal(call.b)
      /\ acc \in Nat /\ acc < Space /\ Half <= 2 * acc
  BY Divided DEF DivEnd
<1>2. call.a.e \in Nat /\ call.b.e \in Nat /\ Sign \in {0, 1}
  BY <1>1, FirstWords
<1>. DEFINE e == call.a.e - call.b.e + Bias
            same == e % ExpSpace
            under == (e - 1) % ExpSpace
<1>3. same \in Nat /\ under \in Nat
  <2>1. e \in Int /\ e - 1 \in Int /\ ExpSpace \in Nat /\ ExpSpace > 0
    BY <1>2, Widths
  <2>. HIDE DEF e
  <2>. QED BY <2>1, Quotient
<1>4. \/ acc >= Half /\ Return(Checked(same, acc * Space2))
      \/ acc < Half /\ Return(Checked(under, 2 * acc * Space2))
  BY <1>1, Sizes DEF DivEnd
<1>. HIDE DEF same, under
<1>5. CASE acc >= Half /\ Return(Checked(same, acc * Space2))
  <2>. DEFINE v == acc * Space2
  <2>1. v \in Nat /\ Lead <= v /\ v < SigSpace
    BY <1>1, <1>5, Normed, Sizes
  <2>. HIDE DEF v
  <2>2. Checked(same, v) \in Float
    BY <1>2, <1>3, <2>1, CheckedFloat
  <2>. QED BY <1>1, <1>5, <2>2, ReturnKeeps DEF v
<1>6. CASE acc < Half /\ Return(Checked(under, 2 * acc * Space2))
  <2>. DEFINE u == 2 * acc
              v == u * Space2
  <2>1. u \in Nat /\ Half <= u /\ u < Space
    BY <1>1, <1>6, Sizes
  <2>. HIDE DEF u
  <2>2. v \in Nat /\ Lead <= v /\ v < SigSpace
    BY <2>1, Normed
  <2>. HIDE DEF v
  <2>3. Checked(under, v) \in Float
    BY <1>2, <1>3, <2>2, CheckedFloat
  <2>. QED BY <1>1, <1>6, <2>3, ReturnKeeps DEF u, v
<1>. QED BY <1>4, <1>5, <1>6

LEMMA SignedWord ==
  ASSUME NEW n \in Word
  PROVE  /\ Signed(n) \in Int /\ Magnitude(Signed(n)) \in Nat /\ Magnitude(Signed(n)) <= Half
         /\ n # 0 => Magnitude(Signed(n)) > 0
         /\ IsNegative(n) => Magnitude(Signed(n)) = (-n) % Space /\ Signed(n) = -Magnitude(Signed(n))
         /\ ~IsNegative(n) => Magnitude(Signed(n)) = n /\ Signed(n) = Magnitude(Signed(n))
<1>1. n \in Nat /\ n < Space /\ Half \in Nat /\ Half > 0 /\ Space = 2 * Half /\ Space \div 2 = Half
  BY Sizes DEF Word
<1>2. CASE n >= Half
  <2>1. IsNegative(n) /\ Signed(n) = n - Space
    BY <1>1, <1>2 DEF IsNegative, Signed
  <2>2. n - Space < 0 /\ Magnitude(n - Space) = Space - n
    BY <1>1 DEF Magnitude
  <2>3. (-n) % Space = Space - n
    BY <1>1, <1>2
  <2>. QED BY <1>1, <1>2, <2>1, <2>2, <2>3
<1>3. CASE ~(n >= Half)
  <2>1. ~IsNegative(n) /\ Signed(n) = n
    BY <1>1, <1>3 DEF IsNegative, Signed
  <2>2. Magnitude(n) = n
    BY <1>1 DEF Magnitude
  <2>. QED BY <1>1, <1>3, <2>1, <2>2
<1>. QED BY <1>2, <1>3

\* A leading bit is found before the word runs out.
LEMMA ItofBounds ==
  ASSUME FloatInv, pc = "itof"
  PROVE  /\ call \in AnyCall /\ call.op = "itof" /\ call.n \in Word /\ call.n # 0
         /\ count \in Nat /\ count < WordBits /\ acc \in Nat /\ acc < Space
         /\ acc = Magnitude(Signed(call.n)) * Pow[count]
         /\ OneWord - count \in Nat /\ 1 <= OneWord - count /\ OneWord - count < ExpMax
<1>1. /\ call \in AnyCall /\ call.op = "itof" /\ call.n # 0 /\ count \in Nat
      /\ acc \in Nat /\ acc < Space /\ acc = Magnitude(Signed(call.n)) * Pow[count]
  BY Sizes DEF FloatInv, ItofInv, Word
<1>2. call.n \in Word
  BY <1>1, Operand
<1>. DEFINE m == Magnitude(Signed(call.n))
            p == Pow[count]
<1>3. m \in Nat /\ m > 0 /\ p \in Nat /\ acc = m * p
  BY <1>1, <1>2, SignedWord, PowNat
<1>4. count < WordBits
  <2>. SUFFICES ASSUME WordBits <= count PROVE FALSE
    BY <1>1, Widths
  <2>1. Space <= p
    BY <1>1, PowGrows, Widths DEF Space
  <2>. HIDE DEF m, p
  <2>2. m * p >= p
    BY <1>3, MulGrows
  <2>. QED BY <1>1, <1>3, <2>1, <2>2, Sizes
<1>5. OneWord - count \in Nat /\ 1 <= OneWord - count /\ OneWord - count < ExpMax
  BY <1>1, <1>4, Widths DEF OneWord
<1>. QED BY <1>1, <1>2, <1>4, <1>5

LEMMA ItofEnterKeeps == FloatInv /\ ItofEnter => FloatInv'
<1>. SUFFICES ASSUME FloatInv, ItofEnter PROVE FloatInv'
  OBVIOUS
<1>1. /\ call \in AnyCall /\ call' = call /\ pc' = "itof" /\ call.op = "itof" /\ call.n # 0
      /\ acc' = (IF IsNegative(call.n) THEN (-call.n) % Space ELSE call.n) /\ count' = 0
  BY DEF FloatInv, ItofEnter, Continue, Enters, IsZero
<1>2. call.n \in Word
  BY <1>1, Operand
<1>. DEFINE m == Magnitude(Signed(call.n))
<1>3. acc' = m /\ m \in Nat /\ m < Space /\ m * Pow[0] = m
  BY <1>1, <1>2, SignedWord, Sizes, PowNext
<1>4. acc' \in Word
  BY <1>3, Sizes DEF Word
<1>5. m' = m
  BY <1>1 DEF Signed, IsNegative, Magnitude
<1>. HIDE DEF m
<1>6. ItofInv'
  BY <1>1, <1>3, <1>4, <1>5 DEF ItofInv, m
<1>. QED BY <1>1, <1>6, AtItof

LEMMA ItofLoopKeeps == FloatInv /\ ItofLoop => FloatInv'
<1>. SUFFICES ASSUME FloatInv, ItofLoop PROVE FloatInv'
  OBVIOUS
<1>. DEFINE m == Magnitude(Signed(call.n))
<1>1. /\ call \in AnyCall /\ call.op = "itof" /\ call.n \in Word /\ call.n # 0
      /\ count \in Nat /\ count < WordBits /\ acc \in Nat /\ acc < Space
      /\ acc = m * Pow[count]
      /\ OneWord - count \in Nat /\ 1 <= OneWord - count /\ OneWord - count < ExpMax
  BY ItofBounds DEF ItofLoop
<1>2. m \in Nat
  BY <1>1, SignedWord
<1>3. \/ /\ acc >= Half
         /\ Return(Pack(IF IsNegative(call.n) THEN 1 ELSE 0, OneWord - count, acc * Space2))
      \/ /\ acc < Half /\ acc' = (2 * acc) % Space /\ count' = (count + 1) % ExpSpace
         /\ call' = call /\ pc' = "itof"
  BY <1>1, Sizes DEF ItofLoop
<1>4. CASE acc >= Half /\
           Return(Pack(IF IsNegative(call.n) THEN 1 ELSE 0, OneWord - count, acc * Space2))
  <2>. DEFINE s == IF IsNegative(call.n) THEN 1 ELSE 0
              e == OneWord - count
              v == acc * Space2
  <2>1. s \in {0, 1} /\ e \in Nat /\ e <= ExpMax
    BY <1>1, Widths
  <2>2. v \in Nat /\ Lead <= v /\ v < SigSpace
    BY <1>1, <1>4, Normed, Sizes
  <2>. HIDE DEF s, e, v
  <2>3. Pack(s, e, v) \in Float
    BY <2>1, <2>2, PackFloat
  <2>. QED BY <1>1, <1>4, <2>3, ReturnKeeps DEF s, e, v
<1>5. CASE /\ acc < Half /\ acc' = (2 * acc) % Space /\ count' = (count + 1) % ExpSpace
           /\ call' = call /\ pc' = "itof"
  <2>1. acc' = 2 * acc /\ acc' \in Word
    <3>1. 2 * acc < Space /\ 2 * acc \in Nat /\ (2 * acc) % Space = 2 * acc
      BY <1>1, <1>5, Sizes
    <3>. QED BY <1>5, <3>1, Sizes DEF Word
  <2>2. count' = count + 1
    BY <1>1, <1>5, Widths
  <2>3. m' = m
    BY <1>5 DEF Signed, IsNegative, Magnitude
  <2>. HIDE DEF m
  <2>4. acc' = m * Pow[count + 1]
    <3>1. Pow[count + 1] = 2 * Pow[count] /\ Pow[count] \in Nat
      BY <1>1, PowNext, PowNat
    <3>2. 2 * (m * Pow[count]) = m * (2 * Pow[count])
      BY <1>2, <3>1
    <3>. QED BY <1>1, <2>1, <3>1, <3>2
  <2>5. ItofInv'
    BY <1>1, <1>5, <2>1, <2>2, <2>3, <2>4 DEF ItofInv, m
  <2>. QED BY <1>1, <1>5, <2>5, AtItof
<1>. QED BY <1>3, <1>4, <1>5

LEMMA FtoiEnterKeeps == FloatInv /\ FtoiEnter => FloatInv'
<1>. SUFFICES ASSUME FloatInv, FtoiEnter PROVE FloatInv'
  OBVIOUS
<1>. DEFINE e == call.a.e
            o == OneWord
<1>1. /\ call \in AnyCall /\ call' = call /\ call.op = "ftoi" /\ e \notin {0, ExpMax}
      /\ e - o \in (1 - WordBits)..(WordBits - 1)
      /\ acc' = High(call.a.sig)
      /\ IF e >= o THEN count' = e - o /\ pc' = "left" ELSE count' = o - e /\ pc' = "right"
  BY DEF FloatInv, FtoiEnter, Continue, Enters
<1>2. call.a \in Float
  BY <1>1, Operand
<1>3. e \in Nat /\ o \in Nat /\ e >= 1 /\ e < ExpMax /\ IsNormal(call.a)
  BY <1>1, <1>2, FloatFields, Widths DEF IsNormal, OneWord
<1>4. High(call.a.sig) \in Nat /\ High(call.a.sig) < Space
  BY <1>2, FloatFields, HighWord
<1>5. acc' \in Word
  BY <1>1, <1>4, Sizes DEF Word
<1>6. Pow[0] = 1 /\ High(call.a.sig) \div 1 = High(call.a.sig)
  BY <1>4, PowNext
<1>7. High(call.a.sig)' = High(call.a.sig) /\ IsNormal(call.a)' /\ o' = o
  BY <1>1, <1>3 DEF High, IsNormal, OneWord
<1>8. CASE e >= o
  <2>1. count' \in Nat /\ pc' = "left" /\ (e = o => count' = 0)
    BY <1>1, <1>3, <1>8
  <2>2. FtoiInv'
    BY <1>1, <1>5, <1>7, <1>8, <2>1 DEF FtoiInv
  <2>. QED BY <1>1, <2>1, <2>2, AtFtoi
<1>9. CASE ~(e >= o)
  <2>1. /\ count' \in Nat /\ pc' = "right" /\ e < o /\ count' <= o - e /\ o - e < WordBits
        /\ o - e - count' = 0
    BY <1>1, <1>3, <1>9, Widths
  <2>2. FtoiInv'
    BY <1>1, <1>5, <1>6, <1>7, <2>1 DEF FtoiInv
  <2>. QED BY <1>1, <2>1, <2>2, AtFtoi
<1>. QED BY <1>8, <1>9

LEMMA FtoiLoopKeeps == FloatInv /\ FtoiLoop => FloatInv'
<1>. SUFFICES ASSUME FloatInv, FtoiLoop PROVE FloatInv'
  OBVIOUS
<1>. DEFINE e == call.a.e
            o == OneWord
            k == o - e - count
<1>1. /\ call \in AnyCall /\ call' = call /\ call.op = "ftoi" /\ IsNormal(call.a)
      /\ pc \in {"left", "right"} /\ pc' = pc /\ count \in Nat /\ count > 0 /\ count' = count - 1
      /\ acc \in Word /\ acc' = IF pc = "left" THEN (2 * acc) % Space ELSE acc \div 2
      /\ pc = "left" => /\ e >= o
                        /\ e = o => count = 0 /\ acc = High(call.a.sig)
      /\ pc = "right" => /\ e < o /\ count <= o - e /\ o - e < WordBits
                         /\ acc = High(call.a.sig) \div Pow[k]
  BY DEF FloatInv, FtoiInv, FtoiLoop
<1>2. call.a \in Float
  BY <1>1, Operand
<1>3. e \in Nat /\ o \in Nat /\ acc \in Nat /\ acc < Space
  BY <1>1, <1>2, FloatFields, Widths, Sizes DEF OneWord, Word
<1>4. acc' \in Word
  <2>1. (2 * acc) % Space \in Nat /\ (2 * acc) % Space < Space /\ acc \div 2 \in Nat /\ acc \div 2 <= acc
    BY <1>3, Sizes
  <2>. QED BY <1>1, <1>3, <2>1, Sizes DEF Word
<1>5. High(call.a.sig)' = High(call.a.sig) /\ IsNormal(call.a)' /\ o' = o
  BY <1>1 DEF High, IsNormal, OneWord
<1>6. CASE pc = "left"
  <2>1. FtoiInv'
    BY <1>1, <1>3, <1>4, <1>5, <1>6 DEF FtoiInv
  <2>. QED BY <1>1, <2>1, AtFtoi
<1>7. CASE pc = "right"
  <2>1. k \in Nat /\ o - e - count' = k + 1 /\ count' \in Nat /\ count' <= o - e
    BY <1>1, <1>3, <1>7
  <2>2. acc' = High(call.a.sig) \div Pow[k + 1]
    <3>. HIDE DEF k
    <3>1. Pow[k] \in Nat /\ Pow[k] > 0 /\ Pow[k + 1] = Pow[k] * 2
      BY <2>1, PowNext, PowNat
    <3>. DEFINE x == High(call.a.sig)
    <3>2. x \in Nat
      BY <1>2, FloatFields, HighWord
    <3>. HIDE DEF x
    <3>3. (x \div Pow[k]) \div 2 = x \div (Pow[k] * 2)
      BY <3>1, <3>2, DivTwice
    <3>. QED BY <1>1, <1>7, <3>1, <3>3 DEF x
  <2>3. acc' = High(call.a.sig) \div Pow[o - e - count']
    BY <2>1, <2>2
  <2>4. FtoiInv'
    BY <1>1, <1>4, <1>5, <1>7, <2>1, <2>3 DEF FtoiInv
  <2>. QED BY <1>1, <2>4, AtFtoi
<1>. QED BY <1>1, <1>6, <1>7

LEMMA FtoiEndKeeps == FloatInv /\ FtoiEnd => FloatInv'
<1>. SUFFICES ASSUME FloatInv, FtoiEnd PROVE FloatInv'
  OBVIOUS
<1>1. /\ call.op = "ftoi" /\ acc \in Word
      /\ Return(IF call.a.s = 1 THEN (-acc) % Space ELSE acc)
  BY DEF FloatInv, FtoiInv, FtoiEnd
<1>2. (-acc) % Space \in Word
  <2>1. -acc \in Int
    BY <1>1, Sizes DEF Word
  <2>2. (-acc) % Space \in Nat /\ (-acc) % Space < Space
    BY <2>1, Quotient, Sizes
  <2>. QED BY <2>2, Sizes DEF Word
<1>. QED BY <1>1, <1>2, ReturnKeeps

LEMMA NextKeeps == FloatInv /\ Next => FloatInv'
BY SpecialsKeep, AddEnterKeeps, AlignKeeps, MagnitudesKeep, SubtractKeeps, NormaliseKeeps,
   MulEnterKeeps, MulLoopKeeps, MulEndKeeps, DivEnterKeeps, DivLoopKeeps, DivEndKeeps,
   ItofEnterKeeps, ItofLoopKeeps, FtoiEnterKeeps, FtoiLoopKeeps, FtoiEndKeeps DEF Next

(***************************************************************************)
(* The text routines call with floats and words.                           *)
(***************************************************************************)
LEMMA NextSameCall == Next => call' = call
BY DEF Next, AddSpecial, AddEnter, Align, AddMagnitudes, Subtract, Normalise, MulSpecial, MulEnter,
       MulLoop, MulEnd, DivSpecial, DivEnter, DivLoop, DivEnd, Compare, ItofZero, ItofEnter,
       ItofLoop, FtoiZero, FtoiEnter, FtoiLoop, FtoiEnd, Return, Continue

LEMMA NoneFloat == None \in Float
BY Extremes DEF None

LEMMA TextStart == TInit => FloatInv /\ TextInv
<1>. SUFFICES ASSUME TInit PROVE FloatInv /\ TextInv
  OBVIOUS
<1>1. \A f \in Floats : f \in Float
  BY OperandAssumption
<1>2. \A n \in Numbers : n \in Word
  BY OperandAssumption DEF Word
<1>3. 0 \in Word
  BY Sizes DEF Word
<1>4. \A c \in Calls : c \in AnyCall
  BY <1>1, <1>2 DEF Calls, AnyCall
<1>5. /\ job \in Jobs /\ result = None /\ back = "done"
      /\ IF job \in Calls THEN call = job /\ pc = "enter" /\ at = "done"
         ELSE call = [op |-> "itof", n |-> 0] /\ pc = "done" /\ at = job.op
  BY DEF TInit
<1>6. fr = [x |-> IF job.op = "ftoa" THEN job.x ELSE None, ten |-> None, frac |-> None,
            scale |-> None, fval |-> None, ipart |-> 0, iter |-> 0, p |-> 0, neg |-> FALSE]
  BY DEF TInit
<1>7. job \in Calls \/ job \in [op : {"itoa"}, n : Numbers] \/ job \in [op : {"ftoa"}, x : Floats]
      \/ job \in [op : {"atof"}, s : Texts]
  BY <1>5 DEF Jobs
<1>8. job \in Calls => job.op \notin {"itoa", "ftoa", "atof"}
  BY DEF Calls
<1>9. FloatInv
  <2>1. CASE job \in Calls
    BY <1>4, <1>5, <2>1
       DEF FloatInv, AlignInv, NormInv, MulInv, DivInv, ItofInv, FtoiInv, ResultInv
  <2>2. CASE job \notin Calls
    <3>1. call \in AnyCall /\ call.op = "itof"
      BY <1>3, <1>5, <2>2 DEF AnyCall
    <3>. QED BY <1>5, <2>2, <3>1, NoneFloat
         DEF FloatInv, AlignInv, NormInv, MulInv, DivInv, ItofInv, FtoiInv, ResultInv
  <2>. QED BY <2>1, <2>2
<1>10. (IF job.op = "ftoa" THEN job.x ELSE None) \in Float
  BY <1>1, <1>7, <1>8, NoneFloat
<1>11. /\ fr.p = 0
       /\ fr \in [x : Float, ten : Float, frac : Float, scale : Float, fval : Float,
                  ipart : Word, iter : Int, p : Int, neg : BOOLEAN]
  BY <1>3, <1>6, <1>10, NoneFloat
<1>12. at \in {"done", "itoa", "ftoa", "atof"}
  BY <1>5, <1>7
<1>13. at = "atof" => job \in [op : {"atof"}, s : Texts] /\ 0 < Len(job.s)
  <2>. SUFFICES ASSUME at = "atof" PROVE job \in [op : {"atof"}, s : Texts] /\ 0 < Len(job.s)
    OBVIOUS
  <2>1. job \in [op : {"atof"}, s : Texts]
    BY <1>5, <1>7, <1>8
  <2>2. job.s \in Seq(Blank..(Ten - 1)) /\ job.s # <<>>
    BY <2>1, TextAssumption
  <2>3. Len(job.s) \in Nat /\ Len(job.s) # 0
    BY <2>2, EmptySeq
  <2>. QED BY <2>1, <2>3
<1>14. TextInv
  BY <1>5, <1>11, <1>12, <1>13 DEF TextInv, TakesFloat, TakesWord, AtofLabels, OnDigit
<1>. QED BY <1>9, <1>14

\* Behind a character that is not the last one there is another.
LEMMA CharTypes ==
  ASSUME TextInv, at \in AtofLabels
  PROVE  /\ IsDigit(Char) => Char \in Word
         /\ Char # Nul => fr.p + 1 < Len(job.s)
         /\ IsDigit(Char) \/ Char \in {Blank, Minus, Plus, Dot} => Char # Nul
<1>1. job.s \in Texts /\ fr.p \in Int /\ fr.p >= 0 /\ fr.p < Len(job.s)
  BY DEF TextInv
<1>2. job.s \in Seq(Blank..(Ten - 1)) /\ \A i \in 1..Len(job.s) : job.s[i] = Nul <=> i = Len(job.s)
  BY <1>1, TextAssumption
<1>. DEFINE i == fr.p + 1
<1>3. Len(job.s) \in Nat /\ i \in 1..Len(job.s)
  BY <1>1, <1>2
<1>. HIDE DEF i
<1>4. Char = job.s[i] /\ Char \in Blank..(Ten - 1)
  <2>1. job.s[i] \in Blank..(Ten - 1)
    BY <1>2, <1>3, ElementOfSeq
  <2>. QED BY <2>1 DEF Char, i
<1>5. Char = Nul <=> i = Len(job.s)
  BY <1>2, <1>3, <1>4
<1>6. Char # Nul => fr.p + 1 < Len(job.s)
  BY <1>1, <1>3, <1>5 DEF i
<1>7. Ten \in Nat /\ Ten < Space
  BY TextAssumption, Sizes
<1>8. IsDigit(Char) => Char \in Word
  BY <1>4, <1>7, Sizes DEF IsDigit, Word, Blank
<1>9. IsDigit(Char) \/ Char \in {Blank, Minus, Plus, Dot} => Char # Nul
  BY DEF IsDigit, Nul, Blank, Minus, Plus, Dot
<1>. QED BY <1>6, <1>8, <1>9

LEMMA LibraryText == TextInv /\ Library => TextInv'
<1>. SUFFICES ASSUME TextInv, Library PROVE TextInv'
  OBVIOUS
<1>1. call' = call /\ job' = job /\ at' = at /\ back' = back /\ fr' = fr
  BY NextSameCall DEF Library
<1>2. Char' = Char
  BY <1>1 DEF Char
<1>. QED BY <1>1, <1>2 DEF TextInv

ItoaLabels == {"itoa", "itoa.sign", "itoa.digits", "itoa.reverse", "itoa.shift", "done", "ftoa.scan"}

Itoa == ItoaLeast \/ ItoaEnter \/ ItoaDigits \/ ItoaReverse \/ ItoaSign \/ ItoaShift

LEMMA ItoaText == TextInv /\ Itoa => TextInv' /\ UNCHANGED vars
<1>. SUFFICES ASSUME TextInv, Itoa PROVE TextInv' /\ UNCHANGED vars
  OBVIOUS
<1>1. UNCHANGED vars /\ fr' = fr /\ back' = back /\ at' \in ItoaLabels
  BY DEF Itoa, TextInv, ItoaLeast, ItoaEnter, ItoaDigits, ItoaReverse, ItoaSign, ItoaShift,
         ItoaReturn, Goto, ItoaLabels
<1>2. TextInv'
  BY <1>1 DEF TextInv, ItoaLabels, TakesFloat, TakesWord, AtofLabels, OnDigit
<1>. QED BY <1>1, <1>2

LEMMA Called ==
  ASSUME NEW c, NEW label, CallFloat(c, label)
  PROVE  /\ call' = c /\ pc' = "enter" /\ at' = label /\ job' = job /\ back' = back
BY DEF CallFloat

LEMMA CallsMade ==
  /\ \A x \in Float, y \in Float, op \in Arithmetic :
        Of(op, x, y) \in AnyCall /\ Of(op, x, y).op = op
  /\ \A x \in Float : Truncate(x) \in AnyCall /\ Truncate(x).op = "ftoi"
  /\ \A n \in Word : FromWord(n) \in AnyCall /\ FromWord(n).op = "itof"
BY DEF AnyCall, Of, Truncate, FromWord

Frames == [x : Float, ten : Float, frac : Float, scale : Float, fval : Float,
           ipart : Word, iter : Int, p : Int, neg : BOOLEAN]

LEMMA TenWord == Ten \in Word /\ 0 \in Word
BY TextAssumption, Sizes DEF Word

\* What a text routine finds when it goes on.
LEMMA AtLabel ==
  ASSUME FloatInv, TextInv, NEW label, At(label)
  PROVE  /\ at = label /\ fr \in Frames /\ back \in {"done", "ftoa.scan"}
         /\ label \in TakesFloat => result \in Float
         /\ label \in TakesWord => result \in Word
         /\ label \in AtofLabels => job \in [op : {"atof"}, s : Texts] /\ fr.p >= 0 /\ fr.p < Len(job.s)
BY DEF At, FloatInv, ResultInv, TextInv, Frames

LEMMA CallStep ==
  ASSUME TextInv, NEW c \in AnyCall, NEW label, CallFloat(c, label), fr' \in Frames,
         label \in TakesFloat => c.op \in Arithmetic \cup {"itof"},
         label \in TakesWord => c.op = "ftoi",
         label \in AtofLabels => /\ job \in [op : {"atof"}, s : Texts]
                                /\ fr'.p >= 0 /\ fr'.p < Len(job.s),
         label \in OnDigit => IsDigit(Char) /\ fr'.p = fr.p
  PROVE  TextInv' /\ pc' = "enter" /\ call' \in AnyCall
<1>1. call' = c /\ pc' = "enter" /\ at' = label /\ job' = job /\ back' = back
  BY Called
<1>2. label \in OnDigit => Char' = Char
  BY <1>1 DEF Char
<1>. QED BY <1>1, <1>2 DEF TextInv, Frames

LEMMA GotoStep ==
  ASSUME TextInv, NEW label, Goto(label), fr' \in Frames,
         label \in TakesFloat => at \in TakesFloat,
         label \notin TakesWord, label \notin OnDigit,
         label \in AtofLabels => at \in AtofLabels /\ fr'.p >= 0 /\ fr'.p < Len(job.s)
  PROVE  TextInv' /\ UNCHANGED vars
<1>1. UNCHANGED vars /\ call' = call /\ at' = label /\ job' = job /\ back' = back
  BY DEF Goto, vars
<1>. QED BY <1>1 DEF TextInv, Frames

StaysOrCalls == TextInv' /\ (UNCHANGED vars \/ (pc' = "enter" /\ call' \in AnyCall))

Ftoa == FtoaAsZero \/ FtoaEnter \/ FtoaSign \/ FtoaWhole \/ FtoaScan \/ FtoaFraction
          \/ FtoaDigits \/ FtoaProduct \/ FtoaDigit \/ FtoaLess

Atof == AtofEnter \/ AtofTen \/ AtofBlanks \/ AtofInt \/ AtofDot \/ AtofFrac
          \/ AtofQuotient \/ AtofSum \/ AtofScale \/ AtofNext \/ AtofSign

USE DEF TakesFloat, TakesWord, AtofLabels, OnDigit

LEMMA FtoaText == FloatInv /\ TextInv /\ Ftoa => StaysOrCalls
<1>. SUFFICES ASSUME FloatInv, TextInv, Ftoa PROVE StaysOrCalls
  OBVIOUS
<1>0. fr \in Frames /\ Ten \in Word /\ 0 \in Word
  BY TenWord DEF TextInv, Frames
<1>1. CASE FtoaAsZero
  <2>1. Goto("done") /\ fr' = fr
    BY <1>1 DEF FtoaAsZero
  <2>. QED BY <1>0, <2>1, GotoStep DEF StaysOrCalls
<1>2. CASE FtoaEnter
  <2>1. CallFloat(FromWord(Ten), "ftoa.sign") /\ fr' = fr
    BY <1>2 DEF FtoaEnter
  <2>. QED BY <1>0, <2>1, CallStep, CallsMade DEF StaysOrCalls
<1>3. CASE FtoaSign
  <2>. DEFINE x == IF fr.x.s = 1 THEN Negated(fr.x) ELSE fr.x
  <2>1. /\ CallFloat(Truncate(x), "ftoa.whole") /\ result \in Float
        /\ fr' = [fr EXCEPT !.ten = result, !.x = x, !.p = fr.x.s]
    BY <1>3, AtLabel DEF FtoaSign
  <2>2. x \in Float /\ fr.x.s \in Int
    BY <1>0, NegatedFloat, FloatFields DEF Frames
  <2>. HIDE DEF x
  <2>3. fr' \in Frames
    BY <1>0, <2>1, <2>2 DEF Frames
  <2>. QED BY <2>1, <2>2, <2>3, CallStep, CallsMade DEF StaysOrCalls
<1>4. CASE FtoaWhole
  <2>1. /\ result \in Word /\ fr' = [fr EXCEPT !.ipart = result]
        /\ at' = "itoa" /\ back' = "ftoa.scan" /\ UNCHANGED vars
    BY <1>4, AtLabel DEF FtoaWhole
  <2>2. fr' \in Frames
    BY <1>0, <2>1 DEF Frames
  <2>. QED BY <2>1, <2>2 DEF StaysOrCalls, TextInv, Frames
<1>5. CASE FtoaScan
  <2>1. fr' = [fr EXCEPT !.p = @ + 1]
    BY <1>5 DEF FtoaScan
  <2>2. fr' \in Frames /\ fr.ipart \in Word
    BY <1>0, <2>1 DEF Frames
  <2>3. CASE Goto("ftoa.scan")
    BY <2>2, <2>3, GotoStep DEF StaysOrCalls
  <2>4. CASE CallFloat(FromWord(fr.ipart), "ftoa.fraction")
    BY <2>2, <2>4, CallStep, CallsMade DEF StaysOrCalls
  <2>. QED BY <1>5, <2>3, <2>4 DEF FtoaScan
<1>6. CASE FtoaFraction
  <2>1. /\ result \in Float /\ fr' = [fr EXCEPT !.iter = FracDigits]
        /\ CallFloat(Of("fsub", fr.x, result), "ftoa.digits")
    BY <1>6, AtLabel DEF FtoaFraction
  <2>2. fr' \in Frames /\ fr.x \in Float
    <3>1. FracDigits \in Int
      BY TextAssumption
    <3>. QED BY <1>0, <2>1, <3>1 DEF Frames
  <2>. QED BY <2>1, <2>2, CallStep, CallsMade DEF StaysOrCalls
<1>7. CASE FtoaDigits
  <2>1. result \in Float /\ fr' = [fr EXCEPT !.frac = result]
    BY <1>7, AtLabel DEF FtoaDigits
  <2>2. fr' \in Frames /\ fr.ten \in Float
    BY <1>0, <2>1 DEF Frames
  <2>3. CASE CallFloat(Of("fmul", result, fr.ten), "ftoa.product")
    BY <2>1, <2>2, <2>3, CallStep, CallsMade DEF StaysOrCalls
  <2>4. CASE Goto("done")
    BY <2>2, <2>4, GotoStep DEF StaysOrCalls
  <2>. QED BY <1>7, <2>3, <2>4 DEF FtoaDigits
<1>8. CASE FtoaProduct
  <2>1. /\ result \in Float /\ fr' = [fr EXCEPT !.frac = result]
        /\ CallFloat(Truncate(result), "ftoa.digit")
    BY <1>8, AtLabel DEF FtoaProduct
  <2>2. fr' \in Frames
    BY <1>0, <2>1 DEF Frames
  <2>. QED BY <2>1, <2>2, CallStep, CallsMade DEF StaysOrCalls
<1>9. CASE FtoaDigit
  <2>1. /\ result \in Word /\ fr' = [fr EXCEPT !.p = @ + 1]
        /\ CallFloat(FromWord(result), "ftoa.less")
    BY <1>9, AtLabel DEF FtoaDigit
  <2>2. fr' \in Frames
    BY <1>0, <2>1 DEF Frames
  <2>. QED BY <2>1, <2>2, CallStep, CallsMade DEF StaysOrCalls
<1>10. CASE FtoaLess
  <2>1. /\ result \in Float /\ fr' = [fr EXCEPT !.iter = @ - 1]
        /\ CallFloat(Of("fsub", fr.frac, result), "ftoa.digits")
    BY <1>10, AtLabel DEF FtoaLess
  <2>2. fr' \in Frames /\ fr.frac \in Float
    BY <1>0, <2>1 DEF Frames
  <2>. QED BY <2>1, <2>2, CallStep, CallsMade DEF StaysOrCalls
<1>. QED BY <1>1, <1>2, <1>3, <1>4, <1>5, <1>6, <1>7, <1>8, <1>9, <1>10 DEF Ftoa

LEMMA AtofText == FloatInv /\ TextInv /\ Atof => StaysOrCalls
<1>. SUFFICES ASSUME FloatInv, TextInv, Atof PROVE StaysOrCalls
  OBVIOUS
<1>0. fr \in Frames /\ Ten \in Word /\ 0 \in Word
  BY TenWord DEF TextInv, Frames
<1>a. /\ at \in AtofLabels /\ job \in [op : {"atof"}, s : Texts] /\ fr.p \in Int
      /\ fr.p >= 0 /\ fr.p < Len(job.s)
  <2>1. at \in AtofLabels
    BY DEF Atof, At, AtofEnter, AtofTen, AtofBlanks, AtofInt, AtofDot, AtofFrac,
           AtofQuotient, AtofSum, AtofScale, AtofNext, AtofSign
  <2>. QED BY <1>0, <2>1 DEF TextInv, Frames
<1>b. /\ IsDigit(Char) => Char \in Word
      /\ IsDigit(Char) \/ Char \in {Blank, Minus, Plus, Dot} => fr.p + 1 < Len(job.s)
  BY <1>a, CharTypes
<1>1. CASE AtofEnter
  <2>1. CallFloat(FromWord(0), "atof.ten") /\ fr' = fr
    BY <1>1 DEF AtofEnter
  <2>. QED BY <1>0, <1>a, <2>1, CallStep, CallsMade DEF StaysOrCalls
<1>2. CASE AtofTen
  <2>1. /\ result \in Float /\ fr' = [fr EXCEPT !.frac = result]
        /\ CallFloat(FromWord(Ten), "atof.blanks")
    BY <1>2, AtLabel DEF AtofTen
  <2>2. fr' \in Frames /\ fr'.p = fr.p
    BY <1>0, <2>1 DEF Frames
  <2>. QED BY <1>0, <1>a, <2>1, <2>2, CallStep, CallsMade DEF StaysOrCalls
<1>3. CASE AtofBlanks
  <2>. DEFINE next == IF Char \in {Blank, Minus, Plus} THEN fr.p + 1 ELSE fr.p
              minus == Char = Minus
  <2>1. /\ at = "atof.blanks" /\ result \in Float
        /\ fr' = [fr EXCEPT !.ten = result, !.neg = minus, !.p = next]
    BY <1>3, AtLabel DEF AtofBlanks
  <2>2. next \in Int /\ next >= 0 /\ next < Len(job.s) /\ minus \in BOOLEAN
    BY <1>a, <1>b
  <2>. HIDE DEF next, minus
  <2>3. fr' \in Frames /\ fr'.p = next
    BY <1>0, <2>1, <2>2 DEF Frames
  <2>4. CASE Goto("atof.blanks")
    BY <1>a, <2>1, <2>2, <2>3, <2>4, GotoStep DEF StaysOrCalls
  <2>5. CASE Goto("atof.int")
    BY <1>a, <2>2, <2>3, <2>5, GotoStep DEF StaysOrCalls
  <2>. QED BY <1>3, <2>4, <2>5 DEF AtofBlanks
<1>4. CASE AtofInt
  <2>1. CASE IsDigit(Char)
    <3>. DEFINE v == (Ten * fr.ipart + Char) % Space
                next == fr.p + 1
    <3>1. fr' = [fr EXCEPT !.ipart = v, !.p = next] /\ Goto("atof.int")
      BY <1>4, <2>1 DEF AtofInt
    <3>2. v \in Word
      <4>1. Ten \in Int /\ fr.ipart \in Int /\ Char \in Int
        BY <1>0, <1>b, <2>1, Sizes DEF Frames, Word
      <4>2. Ten * fr.ipart + Char \in Int
        BY <4>1
      <4>3. v \in Nat /\ v < Space
        BY <4>2, Quotient, Sizes
      <4>. QED BY <4>3, Sizes DEF Word
    <3>3. next \in Int /\ next >= 0 /\ next < Len(job.s)
      BY <1>a, <1>b, <2>1
    <3>. HIDE DEF v, next
    <3>4. fr' \in Frames /\ fr'.p = next
      BY <1>0, <3>1, <3>2, <3>3 DEF Frames
    <3>. QED BY <1>a, <3>1, <3>3, <3>4, GotoStep DEF StaysOrCalls
  <2>2. CASE ~IsDigit(Char)
    <3>1. CallFloat(FromWord(fr.ipart), "atof.dot") /\ fr' = fr /\ fr.ipart \in Word
      BY <1>0, <1>4, <2>2 DEF AtofInt, Frames
    <3>. QED BY <1>0, <1>a, <3>1, CallStep, CallsMade DEF StaysOrCalls
  <2>. QED BY <2>1, <2>2
<1>5. CASE AtofDot
  <2>0. result \in Float /\ fr.frac \in Float /\ fr.ten \in Float
    BY <1>0, <1>5, AtLabel DEF AtofDot, Frames
  <2>1. CASE Char = Dot
    <3>. DEFINE next == fr.p + 1
    <3>1. /\ fr' = [fr EXCEPT !.fval = result, !.scale = fr.ten, !.p = next]
          /\ Goto("atof.frac")
      BY <1>5, <2>1 DEF AtofDot
    <3>2. next \in Int /\ next >= 0 /\ next < Len(job.s)
      BY <1>a, <1>b, <2>1
    <3>. HIDE DEF next
    <3>3. fr' \in Frames /\ fr'.p = next
      BY <1>0, <2>0, <3>1, <3>2 DEF Frames
    <3>. QED BY <1>a, <3>1, <3>2, <3>3, GotoStep DEF StaysOrCalls
  <2>2. CASE Char # Dot
    <3>1. /\ fr' = [fr EXCEPT !.fval = result, !.scale = fr.ten]
          /\ CallFloat(Of("fadd", result, fr.frac), "atof.sign")
      BY <1>5, <2>2 DEF AtofDot, Combine
    <3>2. fr' \in Frames /\ fr'.p = fr.p
      BY <1>0, <2>0, <3>1 DEF Frames
    <3>. QED BY <1>a, <2>0, <3>1, <3>2, CallStep, CallsMade DEF StaysOrCalls
  <2>. QED BY <2>1, <2>2
<1>6. CASE AtofFrac
  <2>1. CASE IsDigit(Char)
    <3>1. CallFloat(FromWord(Char), "atof.quotient") /\ fr' = fr
      BY <1>6, <2>1 DEF AtofFrac
    <3>. QED BY <1>0, <1>a, <1>b, <2>1, <3>1, CallStep, CallsMade DEF StaysOrCalls
  <2>2. CASE ~IsDigit(Char)
    <3>1. CallFloat(Of("fadd", fr.fval, fr.frac), "atof.sign") /\ fr' = fr
          /\ fr.fval \in Float /\ fr.frac \in Float
      BY <1>0, <1>6, <2>2 DEF AtofFrac, Combine, Frames
    <3>. QED BY <1>0, <1>a, <3>1, CallStep, CallsMade DEF StaysOrCalls
  <2>. QED BY <2>1, <2>2
<1>7. CASE AtofQuotient
  <2>1. /\ result \in Float /\ fr.scale \in Float /\ fr' = fr /\ IsDigit(Char)
        /\ CallFloat(Of("fdiv", result, fr.scale), "atof.sum")
    BY <1>0, <1>7, AtLabel DEF AtofQuotient, Frames, TextInv, At
  <2>. QED BY <1>0, <1>a, <2>1, CallStep, CallsMade DEF StaysOrCalls
<1>8. CASE AtofSum
  <2>1. /\ result \in Float /\ fr.frac \in Float /\ fr' = fr /\ IsDigit(Char)
        /\ CallFloat(Of("fadd", fr.frac, result), "atof.scale")
    BY <1>0, <1>8, AtLabel DEF AtofSum, Frames, TextInv, At
  <2>. QED BY <1>0, <1>a, <2>1, CallStep, CallsMade DEF StaysOrCalls
<1>9. CASE AtofScale
  <2>1. /\ result \in Float /\ fr.scale \in Float /\ fr.ten \in Float /\ IsDigit(Char)
        /\ fr' = [fr EXCEPT !.frac = result]
        /\ CallFloat(Of("fmul", fr.scale, fr.ten), "atof.next")
    BY <1>0, <1>9, AtLabel DEF AtofScale, Frames, TextInv, At
  <2>2. fr' \in Frames /\ fr'.p = fr.p
    BY <1>0, <2>1 DEF Frames
  <2>. QED BY <1>a, <2>1, <2>2, CallStep, CallsMade DEF StaysOrCalls
<1>10. CASE AtofNext
  <2>. DEFINE next == fr.p + 1
  <2>1. /\ result \in Float /\ IsDigit(Char) /\ Goto("atof.frac")
        /\ fr' = [fr EXCEPT !.scale = result, !.p = next]
    BY <1>10, AtLabel DEF AtofNext, TextInv, At
  <2>2. next \in Int /\ next >= 0 /\ next < Len(job.s)
    BY <1>a, <1>b, <2>1
  <2>. HIDE DEF next
  <2>3. fr' \in Frames /\ fr'.p = next
    BY <1>0, <2>1, <2>2 DEF Frames
  <2>. QED BY <1>a, <2>1, <2>2, <2>3, GotoStep DEF StaysOrCalls
<1>11. CASE AtofSign
  <2>. DEFINE v == IF fr.neg THEN Negated(result) ELSE result
  <2>1. result \in Float /\ Goto("done") /\ fr' = [fr EXCEPT !.fval = v]
    BY <1>11, AtLabel DEF AtofSign
  <2>2. v \in Float
    BY <2>1, NegatedFloat
  <2>. HIDE DEF v
  <2>3. fr' \in Frames
    BY <1>0, <2>1, <2>2 DEF Frames
  <2>. QED BY <2>1, <2>3, GotoStep DEF StaysOrCalls
<1>. QED BY <1>1, <1>2, <1>3, <1>4, <1>5, <1>6, <1>7, <1>8, <1>9, <1>10, <1>11 DEF Atof

LEMMA TextKeeps ==
  FloatInv /\ TextInv /\ (Itoa \/ Ftoa \/ Atof) => StaysOrCalls
BY ItoaText, FtoaText, AtofText DEF StaysOrCalls

(***************************************************************************)
(* Values.                                                                 *)
(***************************************************************************)
Given(s, m) == IF s = 1 THEN -m ELSE m

LEMMA ValueOf ==
  ASSUME NEW f \in Float, f.e >= 1
  PROVE  /\ f.sig * Pow[f.e] \in Nat
         /\ Value(f) = Given(f.s, f.sig * Pow[f.e])
         /\ Magnitude(Value(f)) = f.sig * Pow[f.e]
<1>. DEFINE p == Pow[f.e]
            m == f.sig * p
<1>1. f.sig \in Nat /\ f.e \in Nat /\ p \in Nat /\ f.s \in {0, 1}
  BY FloatFields, PowNat
<1>2. m \in Nat
  BY <1>1
<1>3. Value(f) = Given(f.s, m)
  <2>1. Value(f) = (IF f.s = 1 THEN -1 ELSE 1) * f.sig * p /\ f.e # 0
    BY <1>1 DEF Value
  <2>. HIDE DEF p
  <2>2. CASE f.s = 1
    <3>1. (-1) * f.sig * p = -(f.sig * p)
      BY <1>1
    <3>. QED BY <2>1, <2>2, <3>1 DEF Given
  <2>3. CASE f.s # 1
    BY <1>1, <2>1, <2>3 DEF Given
  <2>. QED BY <2>2, <2>3
<1>. HIDE DEF m
<1>4. Magnitude(Given(f.s, m)) = m
  BY <1>2 DEF Magnitude, Given
<1>. QED BY <1>2, <1>3, <1>4 DEF m

LEMMA NotNan ==
  ASSUME NEW f \in Float, Classify(f) # "nan"
  PROVE  f.e = ExpMax => f.sig = 0
BY FloatFields, Widths DEF Classify

LEMMA NormalClass ==
  ASSUME NEW f \in Float
  PROVE  /\ IsNormal(f) = (Classify(f) = "normal")
         /\ f.e = 0 => Classify(f) = "zero"
         /\ f.e = ExpMax => Classify(f) \in {"inf", "nan"}
         /\ f.e = 0 \/ f.e = ExpMax \/ IsNormal(f)
<1>1. f.e \in Nat /\ f.e <= ExpMax /\ ExpMax \in Nat /\ ExpMax > 0
  BY FloatFields, Widths
<1>2. CASE f.e = 0
  BY <1>1, <1>2 DEF Classify, IsNormal
<1>3. CASE f.e = ExpMax
  BY <1>1, <1>3 DEF Classify, IsNormal
<1>4. CASE f.e # 0 /\ f.e # ExpMax
  BY <1>1, <1>4 DEF Classify, IsNormal
<1>. QED BY <1>2, <1>3, <1>4

\* What a float counts for in a comparison, and its size.
Worth(f) == IF f.e = ExpMax THEN (IF f.s = 1 THEN -1 ELSE 1) * SigSpace * Pow[ExpMax] ELSE Value(f)
Size(f) == IF f.e = 0 THEN 0 ELSE IF f.e = ExpMax THEN SigSpace * Pow[ExpMax] ELSE f.sig * Pow[f.e]

LEMMA WorthOf ==
  ASSUME NEW f \in Float
  PROVE  /\ Size(f) \in Nat /\ Worth(f) = Given(f.s, Size(f))
         /\ f.e # 0 => Size(f) > 0
<1>. DEFINE q == Pow[ExpMax]
            t == SigSpace * q
<1>1. /\ f.sig \in Nat /\ f.e \in Nat /\ f.e <= ExpMax /\ f.s \in {0, 1} /\ q \in Nat /\ q > 0
      /\ SigSpace \in Nat /\ SigSpace > 0 /\ ExpMax # 0
  BY FloatFields, PowNat, Sizes, Widths
<1>. HIDE DEF q
<1>2. t \in Nat /\ t > 0
  BY <1>1, ProductLess
<1>3. CASE f.e = 0
  BY <1>1, <1>3 DEF Size, Worth, Value, Given
<1>4. CASE f.e = ExpMax
  <2>1. (-1) * SigSpace * q = -t /\ 1 * SigSpace * q = t
    BY <1>1
  <2>2. Size(f) = t /\ Worth(f) = (IF f.s = 1 THEN -1 ELSE 1) * SigSpace * q
    BY <1>1, <1>4 DEF Size, Worth, q
  <2>. HIDE DEF t
  <2>. QED BY <1>1, <1>2, <2>1, <2>2 DEF Given
<1>5. CASE f.e # 0 /\ f.e # ExpMax
  <2>1. f.e >= 1 /\ f.e < ExpMax /\ f.sig > 0
    <3>1. f.e >= 1 /\ f.e < ExpMax
      BY <1>1, <1>5, Widths
    <3>. QED BY <1>1, <3>1, FloatFields, Sizes
  <2>. DEFINE p == Pow[f.e]
  <2>2. p \in Nat /\ p > 0
    BY <1>1, PowNat
  <2>3. Value(f) = Given(f.s, f.sig * p)
    BY <2>1, ValueOf
  <2>. HIDE DEF p
  <2>4. f.sig * p \in Nat /\ f.sig * p >= p
    BY <1>1, <2>1, <2>2, MulGrows
  <2>5. f.sig * p > 0
    BY <2>2, <2>4
  <2>. QED BY <1>5, <2>3, <2>4, <2>5 DEF Size, Worth, p
<1>. QED BY <1>3, <1>4, <1>5

\* The exponent decides; between equal ones the significand does.
LEMMA SizeOrder ==
  ASSUME NEW f \in Float, NEW g \in Float, Classify(f) # "nan", Classify(g) # "nan"
  PROVE  /\ f.e < g.e => Size(f) < Size(g)
         /\ f.e = g.e /\ f.e # 0 => Order(Size(f), Size(g)) = Order(f.sig, g.sig)
<1>1. /\ f.sig \in Nat /\ f.e \in Nat /\ f.e <= ExpMax /\ f.sig < SigSpace
      /\ g.sig \in Nat /\ g.e \in Nat /\ g.e <= ExpMax /\ g.sig < SigSpace
      /\ f.e >= 1 /\ f.e < ExpMax => Lead <= f.sig
      /\ g.e >= 1 /\ g.e < ExpMax => Lead <= g.sig
      /\ f.e = ExpMax => f.sig = 0
      /\ g.e = ExpMax => g.sig = 0
  BY FloatFields, NotNan
<1>2. SigSpace \in Nat /\ SigSpace > 0 /\ Lead \in Nat /\ SigSpace = 2 * Lead
      /\ ExpMax \in Nat /\ ExpMax > 0
  BY Sizes, Widths
<1>3. ASSUME f.e < g.e PROVE Size(f) < Size(g)
  <2>1. CASE f.e = 0
    <3>1. g.e # 0 /\ Size(f) = 0
      BY <1>1, <1>3, <2>1 DEF Size
    <3>. QED BY <3>1, WorthOf
  <2>2. CASE f.e # 0
    <3>. DEFINE p == Pow[f.e]
                q == Pow[g.e]
                n == IF g.e = ExpMax THEN SigSpace ELSE g.sig
    <3>1. p \in Nat /\ p > 0 /\ q \in Nat /\ 2 * p <= q
      BY <1>1, <1>3, PowNat, PowGrows
    <3>2. n \in Nat /\ Lead <= n
      BY <1>1, <1>2, <1>3, <2>2
    <3>3. Size(f) = f.sig * p /\ Size(g) = n * q
      BY <1>1, <1>3, <2>2 DEF Size
    <3>. HIDE DEF p, q, n
    <3>4. f.sig * p < SigSpace * p
      BY <1>1, <1>2, <3>1, MulStrict
    <3>5. SigSpace * p = (2 * p) * Lead
      BY <1>2, <3>1
    <3>6. (2 * p) * Lead <= q * Lead
      BY <1>2, <3>1, MulMono
    <3>7. Lead * q <= n * q
      BY <1>2, <3>1, <3>2, MulMono
    <3>8. q * Lead = Lead * q /\ Lead * q \in Nat /\ n * q \in Nat /\ f.sig * p \in Nat
          /\ (2 * p) * Lead \in Nat
      BY <1>1, <1>2, <3>1, <3>2
    <3>. QED BY <3>3, <3>4, <3>5, <3>6, <3>7, <3>8
  <2>. QED BY <2>1, <2>2
<1>4. ASSUME f.e = g.e, f.e # 0 PROVE Order(Size(f), Size(g)) = Order(f.sig, g.sig)
  <2>1. CASE f.e = ExpMax
    BY <1>1, <1>4, <2>1, WorthOf DEF Size, Order
  <2>2. CASE f.e # ExpMax
    <3>. DEFINE p == Pow[f.e]
    <3>1. p \in Nat /\ p > 0
      BY <1>1, PowNat
    <3>2. Size(f) = f.sig * p /\ Size(g) = g.sig * p
      BY <1>4, <2>2 DEF Size
    <3>. HIDE DEF p
    <3>3. (f.sig * p < g.sig * p) = (f.sig < g.sig) /\ (g.sig * p < f.sig * p) = (g.sig < f.sig)
      BY <1>1, <3>1, MulStrict
    <3>. QED BY <3>2, <3>3 DEF Order
  <2>. QED BY <2>1, <2>2
<1>. QED BY <1>3, <1>4

LEMMA ComparesRight ==
  ASSUME NEW x \in Float, NEW y \in Float, Classify(x) # "nan", Classify(y) # "nan", NEW v,
         \/ x.e = 0 /\ y.e = 0 /\ v = 0
         \/ {x.e, y.e} # {0} /\ x.s # y.s /\ v = IF x.s = 1 THEN -1 ELSE 1
         \/ {x.e, y.e} # {0} /\ x.s = y.s /\ x.e # y.e /\ v = Turned(x.s, Order(x.e, y.e))
         \/ {x.e, y.e} # {0} /\ x.s = y.s /\ x.e = y.e /\ v = Turned(x.s, Order(x.sig, y.sig))
  PROVE  v = Order(Worth(x), Worth(y))
<1>. DEFINE m == Size(x)
            n == Size(y)
<1>1. /\ x.e \in Nat /\ y.e \in Nat /\ x.s \in {0, 1} /\ y.s \in {0, 1}
      /\ x.sig \in Nat /\ y.sig \in Nat
  BY FloatFields
<1>2. m \in Nat /\ n \in Nat /\ Worth(x) = Given(x.s, m) /\ Worth(y) = Given(y.s, n)
      /\ (x.e # 0 => m > 0) /\ (y.e # 0 => n > 0) /\ (x.e = 0 => m = 0) /\ (y.e = 0 => n = 0)
  BY WorthOf DEF Size
<1>3. (x.e < y.e => m < n) /\ (y.e < x.e => n < m)
      /\ (x.e = y.e /\ x.e # 0 => Order(m, n) = Order(x.sig, y.sig))
  BY SizeOrder
<1>. HIDE DEF m, n
<1>4. ASSUME x.s = y.s PROVE Order(Worth(x), Worth(y)) = Turned(x.s, Order(m, n))
  BY <1>1, <1>2, <1>4 DEF Order, Turned, Given
<1>5. CASE x.e = 0 /\ y.e = 0 /\ v = 0
  BY <1>2, <1>5 DEF Order, Given
<1>6. CASE {x.e, y.e} # {0} /\ x.s # y.s /\ v = IF x.s = 1 THEN -1 ELSE 1
  <2>1. m > 0 \/ n > 0
    BY <1>2, <1>6
  <2>. QED BY <1>1, <1>2, <1>6, <2>1 DEF Order, Given
<1>7. CASE {x.e, y.e} # {0} /\ x.s = y.s /\ x.e # y.e /\ v = Turned(x.s, Order(x.e, y.e))
  <2>1. Order(m, n) = Order(x.e, y.e)
    BY <1>1, <1>2, <1>3, <1>7 DEF Order
  <2>. QED BY <1>4, <1>7, <2>1
<1>8. CASE {x.e, y.e} # {0} /\ x.s = y.s /\ x.e = y.e /\ v = Turned(x.s, Order(x.sig, y.sig))
  <2>1. x.e # 0
    BY <1>8
  <2>. QED BY <1>3, <1>4, <1>8, <2>1
<1>. QED BY <1>5, <1>6, <1>7, <1>8

LEMMA CompareRight == FloatInv /\ Compare => ComparesValues'
<1>. SUFFICES ASSUME FloatInv, Compare PROVE ComparesValues'
  OBVIOUS
<1>1. call \in AnyCall /\ call' = call /\ call.op = "fcmp"
  BY DEF FloatInv, Compare, Enters, Return
<1>2. call.a \in Float /\ call.b \in Float
  BY <1>1, Operand
<1>. DEFINE x == call.a
            y == call.b
<1>3. ASSUME Classify(x) # "nan", Classify(y) # "nan"
      PROVE  result' = Order(Worth(x), Worth(y))
  <2>1. \/ x.e = 0 /\ y.e = 0 /\ result' = 0
        \/ {x.e, y.e} # {0} /\ x.s # y.s /\ result' = IF x.s = 1 THEN -1 ELSE 1
        \/ {x.e, y.e} # {0} /\ x.s = y.s /\ x.e # y.e /\ result' = Turned(x.s, Order(x.e, y.e))
        \/ {x.e, y.e} # {0} /\ x.s = y.s /\ x.e = y.e /\ result' = Turned(x.s, Order(x.sig, y.sig))
    BY DEF Compare, Return
  <2>. HIDE DEF x, y
  <2>2. x \in Float /\ y \in Float
    BY <1>2 DEF x, y
  <2>. QED BY <1>3, <2>1, <2>2, ComparesRight
<1>. HIDE DEF x, y
<1>. QED BY <1>1, <1>3 DEF ComparesValues, Worth, Value, Classify, Order, x, y

\* A common factor does not change a quotient.
LEMMA Cancelled ==
  ASSUME NEW x \in Nat, NEW y \in Nat, NEW z \in Nat, y > 0, z > 0
  PROVE  (x * z) \div (y * z) = x \div y
<1>. DEFINE q == x \div y
            t == x % y
            u == x * z
            v == y * z
            w == t * z
<1>1. q \in Int /\ t \in Nat /\ t < y /\ x = q * y + t
  BY Quotient
<1>. HIDE DEF q, t
<1>2. u \in Nat /\ v \in Nat /\ v > 0 /\ w \in Nat /\ w < v
  BY <1>1, MulGrows, MulStrict
<1>3. u = q * v + w
  <2>1. (q * y + t) * z = (q * y) * z + t * z /\ (q * y) * z = q * (y * z)
    BY <1>1
  <2>. QED BY <1>1, <2>1
<1>. HIDE DEF u, v, w
<1>4. q = u \div v
  BY <1>1, <1>2, <1>3, DivUnique
<1>. QED BY <1>4 DEF q, u, v

LEMMA UnitIs ==
  /\ OneWord \in Nat /\ OneWord >= 1 /\ OneWord < ExpMax
  /\ Unit \in Nat /\ Unit > 0 /\ Unit = Space2 * Pow[OneWord]
<1>. DEFINE o == OneWord
            t == 2 * WordBits
<1>1. o \in Nat /\ o >= 1 /\ o < ExpMax /\ t \in Nat /\ t + o \in Nat
      /\ Bias + SigBits - 1 = t + o
  BY Widths DEF OneWord
<1>. HIDE DEF o, t
<1>2. Pow[t + o] = Pow[t] * Pow[o] /\ Pow[t + o] \in Nat /\ Pow[t + o] > 0
  BY <1>1, PowSum, PowNat
<1>3. Space2 = Pow[t]
  BY Sizes DEF t
<1>. QED BY <1>1, <1>2, <1>3 DEF Unit, o

\* The whole part of a float.
LEMMA WholePart ==
  ASSUME NEW f \in Float, IsNormal(f)
  PROVE  /\ Magnitude(Value(f)) \div Unit \in Nat
         /\ f.e > OneWord => Magnitude(Value(f)) \div Unit >= Space
         /\ f.e <= OneWord => Magnitude(Value(f)) \div Unit = High(f.sig) \div Pow[OneWord - f.e]
<1>. DEFINE s == f.sig
            e == f.e
            p == Pow[e]
            o == OneWord
            m == s * p
            u == Unit
<1>1. e \in Nat /\ e >= 1 /\ e < ExpMax /\ s \in Nat /\ s < SigSpace /\ Lead <= s
  BY FloatFields, Widths DEF IsNormal
<1>2. Magnitude(Value(f)) = m /\ m \in Nat
  BY <1>1, ValueOf
<1>3. p \in Nat /\ p > 0 /\ o \in Nat /\ u \in Nat /\ u > 0 /\ u = Space2 * Pow[o]
  BY <1>1, PowNat, UnitIs
<1>. HIDE DEF u
<1>4. m \div u \in Nat
  BY <1>2, <1>3, Parts
<1>5. ASSUME e > o PROVE m \div u >= Space
  <2>. DEFINE q == Pow[o]
              h == Half
              d == Space2
  <2>1. q \in Nat /\ 2 * q <= p
    BY <1>1, <1>3, <1>5, PowNat, PowGrows
  <2>2. h \in Nat /\ d \in Nat /\ Lead = h * d /\ Space = 2 * h /\ Lead \in Nat
    BY Sizes
  <2>3. Space * u = Lead * (2 * q)
    <3>. HIDE DEF q, h, d
    <3>1. u = d * q
      BY <1>3 DEF d, q
    <3>2. (2 * h) * (d * q) = (h * d) * (2 * q)
      BY <2>1, <2>2
    <3>. QED BY <2>2, <3>1, <3>2
  <2>. HIDE DEF q, h, d, s, p
  <2>4. (2 * q) * Lead <= p * Lead /\ Lead * p <= s * p
    BY <1>1, <1>3, <2>1, <2>2, MulMono
  <2>5. (2 * q) * Lead = Lead * (2 * q) /\ p * Lead = Lead * p /\ Lead * (2 * q) \in Nat
        /\ Lead * p \in Nat /\ s * p \in Nat
    BY <1>1, <1>3, <2>1, <2>2
  <2>6. Space * u <= m
    BY <2>3, <2>4, <2>5
  <2>. HIDE DEF m
  <2>. QED BY <1>2, <1>3, <2>6, QuotientBounds, Sizes
<1>6. ASSUME e <= o PROVE m \div u = High(s) \div Pow[o - e]
  <2>. DEFINE k == o - e
              q == Pow[k]
              d == Space2
              y == d * q
  <2>1. k \in Nat /\ e <= o
    BY <1>1, <1>3, <1>6
  <2>2. Pow[o] = p * q /\ q \in Nat /\ q > 0 /\ d \in Nat /\ d > 0
    BY <1>1, <1>3, <2>1, PowGrows, PowNat, Sizes
  <2>. HIDE DEF q, s, p, d
  <2>3. y \in Nat /\ y > 0
    BY <2>2, MulGrows
  <2>4. u = y * p
    <3>1. u = d * (p * q)
      BY <1>3, <2>2 DEF d
    <3>. QED BY <1>3, <2>2, <3>1
  <2>. HIDE DEF y
  <2>5. (s * p) \div (y * p) = s \div y
    BY <1>1, <1>3, <2>3, Cancelled
  <2>. USE DEF y
  <2>6. (s \div d) \div q = s \div (d * q)
    BY <1>1, <2>2, DivTwice
  <2>. QED BY <2>4, <2>5, <2>6 DEF High, d, q
<1>. QED BY <1>2, <1>4, <1>5, <1>6 DEF u

\* A word with its sign is itself again.
LEMMA SignedBack ==
  ASSUME NEW m \in Nat
  PROVE  /\ m <= Half => Signed((-m) % Space) = -m
         /\ m < Half => Signed(m) = m
<1>1. Half \in Nat /\ Half > 0 /\ Space = 2 * Half /\ Space \div 2 = Half
  BY Sizes
<1>2. CASE m = 0
  <2>1. (-m) % Space = 0
    BY <1>1, <1>2
  <2>. QED BY <1>1, <1>2, <2>1 DEF Signed, IsNegative
<1>3. CASE m # 0
  <2>1. m <= Half => (-m) % Space = Space - m
    BY <1>1, <1>3
  <2>. QED BY <1>1, <1>3, <2>1 DEF Signed, IsNegative
<1>. QED BY <1>2, <1>3

LEMMA ItofExact == FloatInv /\ (ItofZero \/ ItofLoop) /\ pc' = "done" => IntegersConvert'
<1>. SUFFICES ASSUME FloatInv, ItofZero \/ ItofLoop, pc' = "done" PROVE IntegersConvert'
  OBVIOUS
<1>1. call' = call /\ call.op = "itof"
  BY DEF ItofZero, ItofLoop, Return, Enters, FloatInv, ItofInv
<1>. DEFINE n == call.n
<1>2. ASSUME NEW f \in Float, result' = f, f.e = 0 \/ IsNormal(f), Value(f) = Signed(n) * Unit
      PROVE  IntegersConvert'
  <2>1. Classify(f) \in {"zero", "normal"}
    BY <1>2, NormalClass
  <2>2. Value(result)' = Value(f) /\ Classify(result)' = Classify(f)
    BY <1>2 DEF Value, Classify
  <2>3. (Signed(n) * Unit)' = Signed(n) * Unit
    BY <1>1 DEF Signed, IsNegative
  <2>. QED BY <1>1, <1>2, <2>1, <2>2, <2>3 DEF IntegersConvert, Returned
<1>3. CASE ItofZero
  <2>1. n = 0 /\ result' = Zero(0)
    BY <1>3 DEF ItofZero, IsZero, Return
  <2>2. Signed(0) = 0
    BY SignedBack, Sizes
  <2>3. Signed(n) * Unit = 0
    BY <2>1, <2>2, UnitIs
  <2>4. Zero(0) \in Float /\ Zero(0).e = 0 /\ Value(Zero(0)) = 0
    BY Extremes DEF Value
  <2>. HIDE DEF n
  <2>. QED BY <1>2, <2>1, <2>3, <2>4
<1>4. CASE ItofLoop
  <2>. DEFINE m == Magnitude(Signed(n))
              s == IF IsNegative(n) THEN 1 ELSE 0
              e == OneWord - count
              v == acc * Space2
              f == Pack(s, e, v)
  <2>1. /\ n \in Word /\ n # 0 /\ acc \in Nat /\ acc < Space /\ acc = m * Pow[count] /\ pc = "itof"
        /\ count \in Nat /\ count <= OneWord
        /\ e \in Nat /\ 1 <= e /\ e < ExpMax
    BY <1>4, ItofBounds, UnitIs DEF ItofLoop
  <2>2. acc >= Half /\ result' = f
    BY <1>4, <2>1, Sizes DEF ItofLoop, Return
  <2>3. v \in Nat /\ Lead <= v /\ v < SigSpace /\ s \in {0, 1} /\ e <= ExpMax
    BY <2>1, <2>2, Normed, Widths, Sizes
  <2>4. m \in Nat /\ Signed(n) = Given(s, m)
    BY <2>1, SignedWord DEF Given
  <2>5. Pow[OneWord] = Pow[count] * Pow[e] /\ Pow[count] \in Nat /\ Pow[e] \in Nat
    BY <2>1, PowGrows, PowNat, UnitIs
  <2>. HIDE DEF n, m, s, e, v
  <2>6. f = [s |-> s, e |-> e, sig |-> v] /\ f \in Float
    BY <2>1, <2>3, PackFloat
  <2>7. Value(f) = Given(s, v * Pow[e])
    BY <2>1, <2>6, ValueOf
  <2>8. v * Pow[e] = m * Unit
    <3>. DEFINE x == Pow[count]
                y == Pow[e]
                d == Space2
    <3>1. x \in Nat /\ y \in Nat /\ d \in Nat /\ v = (m * x) * d /\ Unit = d * (x * y)
      BY <2>1, <2>5, UnitIs, Sizes DEF v
    <3>. HIDE DEF x, y, d
    <3>2. ((m * x) * d) * y = m * (d * (x * y))
      BY <2>4, <3>1
    <3>. QED BY <3>1, <3>2 DEF y
  <2>9. Given(s, m * Unit) = Given(s, m) * Unit
    BY <2>3, <2>4, UnitIs DEF Given
  <2>10. IsNormal(f)
    BY <2>1, <2>6, Widths DEF IsNormal
  <2>. HIDE DEF f
  <2>. QED BY <1>2, <2>2, <2>4, <2>6, <2>7, <2>8, <2>9, <2>10
<1>. QED BY <1>3, <1>4

\* What __ftoi returns for the whole part of a float.
LEMMA FtoiExact == FloatInv /\ (FtoiZero \/ FtoiEnd) => IntegersConvert'
<1>. SUFFICES ASSUME FloatInv, FtoiZero \/ FtoiEnd PROVE IntegersConvert'
  OBVIOUS
<1>. DEFINE f == call.a
            whole == Magnitude(Value(f)) \div Unit
            n == IF f.s = 1 THEN -whole ELSE whole
            h == High(f.sig)
<1>1. call' = call /\ pc' = "done" /\ call.op = "ftoi" /\ call \in AnyCall
  BY DEF FtoiZero, FtoiEnd, Return, Enters, FloatInv, FtoiInv
<1>2. f \in Float
  BY <1>1, Operand
<1>3. /\ f.s \in {0, 1} /\ f.e \in Nat /\ f.e <= ExpMax /\ h \in Nat /\ h < Space
      /\ IsNormal(f) = (Classify(f) = "normal")
  BY <1>2, FloatFields, HighWord, NormalClass
<1>4. (IsNormal(f) /\ n \in -Half..(Half - 1) => Signed(result') = n) => IntegersConvert'
  <2>1. n' = n /\ Classify(f)' = Classify(f)
    BY <1>1 DEF Value, Magnitude, Classify
  <2>2. Signed(result)' = Signed(result')
    BY DEF Signed, IsNegative
  <2>3. Space \div 2 = Half
    BY Sizes
  <2>4. IntegersConvert' = (Classify(f)' = "normal" =>
                             (n' \in -(Space \div 2)..(Space \div 2 - 1) => Signed(result)' = n'))
    BY <1>1 DEF IntegersConvert, Returned
  <2>. HIDE DEF n
  <2>. QED BY <1>3, <2>1, <2>2, <2>3, <2>4
<1>. SUFFICES ASSUME IsNormal(f), n \in -Half..(Half - 1) PROVE Signed(result') = n
  BY <1>4
<1>5. /\ whole \in Nat
      /\ f.e > OneWord => whole >= Space
      /\ f.e <= OneWord => whole = h \div Pow[OneWord - f.e]
  BY <1>2, WholePart
<1>6. Half \in Nat /\ Half > 0 /\ Space = 2 * Half /\ OneWord \in Nat
  BY Sizes, UnitIs
<1>. HIDE DEF whole
<1>7. whole <= Half /\ (f.s = 0 => whole < Half)
  BY <1>3, <1>5, <1>6
<1>8. f.e <= OneWord /\ whole = h \div Pow[OneWord - f.e]
  BY <1>3, <1>5, <1>6, <1>7
<1>9. CASE FtoiZero
  <2>. DEFINE k == OneWord - f.e
  <2>1. f.e \notin {0, ExpMax} /\ result' = 0
    BY <1>9, Widths DEF FtoiZero, Return, IsNormal
  <2>2. k \in Nat /\ WordBits <= k
    BY <1>3, <1>6, <1>8, <1>9, <2>1, Widths DEF FtoiZero
  <2>3. Space <= Pow[k] /\ Pow[k] \in Nat
    BY <2>2, PowGrows, PowNat, Widths DEF Space
  <2>. HIDE DEF k, h
  <2>4. h \div Pow[k] = 0
    BY <1>3, <1>6, <2>3
  <2>5. whole = 0
    BY <1>8, <2>4 DEF k
  <2>6. Signed(0) = 0
    BY <1>6, SignedBack
  <2>. QED BY <2>1, <2>5, <2>6
<1>10. CASE FtoiEnd
  <2>1. acc = whole
    <3>1. CASE pc = "left"
      <4>1. f.e = OneWord /\ acc = h
        BY <1>3, <1>6, <1>8, <3>1 DEF FloatInv, FtoiInv
      <4>2. OneWord - f.e = 0 /\ h \div 1 = h /\ Pow[0] = 1
        BY <1>3, <1>6, <4>1, PowNext
      <4>. QED BY <1>8, <4>1, <4>2
    <3>2. CASE pc = "right"
      <4>1. acc = h \div Pow[OneWord - f.e - count] /\ count = 0
        BY <1>10, <3>2 DEF FloatInv, FtoiInv, FtoiEnd
      <4>2. OneWord - f.e - 0 = OneWord - f.e
        BY <1>3, <1>6
      <4>. QED BY <1>8, <4>1, <4>2
    <3>. QED BY <1>10, <3>1, <3>2 DEF FtoiEnd
  <2>2. result' = IF f.s = 1 THEN (-whole) % Space ELSE whole
    BY <1>10, <2>1 DEF FtoiEnd, Return
  <2>. QED BY <1>3, <1>5, <1>7, <2>2, SignedBack
<1>. QED BY <1>9, <1>10

LEMMA SameRegisters == UNCHANGED vars => (FloatInv => FloatInv') /\ (KeepsValues => KeepsValues')
<1>. SUFFICES ASSUME UNCHANGED vars
              PROVE (FloatInv => FloatInv') /\ (KeepsValues => KeepsValues')
  OBVIOUS
<1>1. /\ call' = call /\ pc' = pc /\ a' = a /\ b' = b /\ r' = r /\ acc' = acc /\ sh' = sh
      /\ rem' = rem /\ count' = count /\ result' = result
  BY DEF vars, work
<1>2. AlignInv' = AlignInv /\ NormInv' = NormInv
  <2>1. LooksZero(Difference)' = LooksZero(Difference) /\ IsNormal(call.a)' = IsNormal(call.a)
        /\ IsNormal(Addend)' = IsNormal(Addend)
    BY <1>1, SameCall DEF LooksZero, WordSum, High, IsNormal
  <2>. QED BY <1>1, <2>1, SameCall DEF AlignInv, NormInv
<1>3. MulInv' = MulInv /\ DivInv' = DivInv /\ ItofInv' = ItofInv /\ FtoiInv' = FtoiInv
      /\ ResultInv' = ResultInv
  BY <1>1 DEF MulInv, DivInv, ItofInv, FtoiInv, ResultInv, High, IsNormal, Signed, IsNegative,
              Magnitude
<1>4. KeepsValues' = KeepsValues
  BY <1>1 DEF KeepsValues, ComparesValues, IntegersConvert, Returned, Value, Magnitude, Signed,
              IsNegative, Classify, Order
<1>. QED BY <1>1, <1>2, <1>3, <1>4 DEF FloatInv

LEMMA OtherReturns ==
  FloatInv /\ Next => Compare \/ ItofZero \/ ItofLoop \/ FtoiZero \/ FtoiEnd
                        \/ call'.op \in Arithmetic \/ pc' # "done"
BY DEF Next, AddSpecial, AddEnter, Align, AddMagnitudes, Subtract, Normalise, MulSpecial, MulEnter,
       MulLoop, MulEnd, DivSpecial, DivEnter, DivLoop, DivEnd, ItofEnter, FtoiEnter, FtoiLoop,
       Return, Continue, Enters, FloatInv, AlignInv, NormInv, MulInv, DivInv

LEMMA ValuesKept == FloatInv /\ Next => KeepsValues'
<1>. SUFFICES ASSUME FloatInv, Next PROVE KeepsValues'
  OBVIOUS
<1>1. call' = call
  BY NextSameCall
<1>2. CASE Compare
  <2>1. call'.op = "fcmp"
    BY <1>1, <1>2 DEF Compare, Enters
  <2>2. IntegersConvert'
    BY <2>1 DEF IntegersConvert, Returned
  <2>. QED BY <1>2, <2>2, CompareRight DEF KeepsValues
<1>3. CASE ItofZero \/ ItofLoop \/ FtoiZero \/ FtoiEnd
  <2>1. call'.op \in {"itof", "ftoi"}
    BY <1>1, <1>3 DEF ItofZero, ItofLoop, FtoiZero, FtoiEnd, Enters, FloatInv, ItofInv, FtoiInv
  <2>2. ComparesValues'
    BY <2>1 DEF ComparesValues, Returned
  <2>3. IntegersConvert'
    <3>1. CASE pc' # "done"
      BY <3>1 DEF IntegersConvert, Returned
    <3>2. CASE pc' = "done"
      BY <1>3, <3>2, ItofExact, FtoiExact
    <3>. QED BY <3>1, <3>2
  <2>. QED BY <2>2, <2>3 DEF KeepsValues
<1>4. CASE call'.op \in Arithmetic \/ pc' # "done"
  BY <1>4 DEF KeepsValues, ComparesValues, IntegersConvert, Returned
<1>. QED BY <1>2, <1>3, <1>4, OtherReturns

(***************************************************************************)
(* Sums.                                                                   *)
(***************************************************************************)
\* The leading bit of a number is found, and only one shift brings it up.
LEMMA ShiftFinds ==
  ASSUME NEW d \in Nat, d > 0, d < SigSpace
  PROVE  /\ Shift(d) \in Nat /\ Shift(d) < SigBits
         /\ Lead <= d * Pow[Shift(d)] /\ d * Pow[Shift(d)] < SigSpace
         /\ \A k \in Nat : /\ d * Pow[k] < Lead => k < Shift(d)
                           /\ Lead <= d * Pow[k] => Shift(d) <= k
                           /\ d * Pow[k] < SigSpace => k <= Shift(d)
<1>1. /\ SigBits \in Nat /\ SigBits >= 1 /\ Lead \in Nat /\ Lead > 0 /\ SigSpace = 2 * Lead
      /\ SigSpace \in Nat /\ Lead = Pow[SigBits - 1]
  BY Widths, Sizes DEF Lead
<1>2. ASSUME NEW j \in Nat, NEW k \in Nat, j < k PROVE 2 * (d * Pow[j]) <= d * Pow[k]
  <2>. DEFINE x == Pow[j]
              y == Pow[k]
  <2>1. x \in Nat /\ y \in Nat /\ 2 * x <= y
    BY <1>2, PowNat, PowGrows
  <2>. HIDE DEF x, y
  <2>2. (2 * x) * d <= y * d
    BY <2>1, MulMono
  <2>3. (2 * x) * d = 2 * (d * x) /\ y * d = d * y
    BY <2>1
  <2>. QED BY <2>2, <2>3 DEF x, y
<1>3. \A k \in Nat : d * Pow[k] \in Nat /\ d * Pow[k] > 0
  <2>. SUFFICES ASSUME NEW k \in Nat PROVE d * Pow[k] \in Nat /\ d * Pow[k] > 0
    OBVIOUS
  <2>. DEFINE y == Pow[k]
  <2>1. y \in Nat /\ y > 0
    BY PowNat
  <2>. HIDE DEF y
  <2>2. d * y \in Nat /\ d * y >= y
    BY <2>1, MulGrows
  <2>. QED BY <2>1, <2>2 DEF y
<1>4. \E k \in 0..(SigBits - 1) : d * Pow[k] \in Lead..(SigSpace - 1)
  <2>. SUFFICES ASSUME \A k \in 0..(SigBits - 1) : d * Pow[k] \notin Lead..(SigSpace - 1)
                PROVE  FALSE
    OBVIOUS
  <2>. DEFINE T == {k \in Nat : k < SigBits => d * Pow[k] < Lead}
              m == SigBits - 1
  <2>1. ASSUME NEW k \in Nat, k < SigBits, d * Pow[k] < SigSpace PROVE d * Pow[k] < Lead
    <3>1. k \in 0..(SigBits - 1)
      BY <1>1, <2>1
    <3>. DEFINE v == d * Pow[k]
    <3>2. v \notin Lead..(SigSpace - 1) /\ v \in Nat
      BY <1>3, <3>1
    <3>. HIDE DEF v
    <3>. QED BY <1>1, <2>1, <3>2 DEF v
  <2>2. 0 \in T
    <3>1. d * Pow[0] = d
      BY PowNext
    <3>. QED BY <2>1, <3>1
  <2>3. ASSUME NEW k \in Nat, k \in T PROVE k + 1 \in T
    <3>. SUFFICES ASSUME k + 1 < SigBits PROVE d * Pow[k + 1] < Lead
      OBVIOUS
    <3>1. d * Pow[k] < Lead
      BY <1>1, <2>3
    <3>2. Pow[k + 1] = 2 * Pow[k] /\ Pow[k] \in Nat
      BY PowNext, PowNat
    <3>3. d * (2 * Pow[k]) = 2 * (d * Pow[k]) /\ d * Pow[k] \in Nat
      BY <3>2
    <3>4. d * Pow[k + 1] < SigSpace
      BY <1>1, <3>1, <3>2, <3>3
    <3>. QED BY <2>1, <3>4
  <2>4. \A k \in Nat : k \in T
    <3>. HIDE DEF T
    <3>. QED BY <2>2, <2>3, SetInduction
  <2>5. m \in Nat /\ m < SigBits
    BY <1>1
  <2>6. d * Lead < Lead
    BY <1>1, <2>4, <2>5
  <2>7. d * Lead >= Lead
    BY <1>1, MulGrows
  <2>8. d * Lead \in Nat
    BY <1>1
  <2>. QED BY <1>1, <2>6, <2>7, <2>8
<1>. DEFINE s == Shift(d)
            v == d * Pow[s]
<1>5. s \in 0..(SigBits - 1) /\ v \in Lead..(SigSpace - 1)
  BY <1>4 DEF Shift
<1>. HIDE DEF s
<1>6. s \in Nat /\ s < SigBits
  BY <1>1, <1>5
<1>7. v \in Nat /\ Lead <= v /\ v < SigSpace
  <2>1. v \in Nat
    BY <1>3, <1>6
  <2>. HIDE DEF v
  <2>. QED BY <1>1, <1>5, <2>1
<1>8. ASSUME NEW k \in Nat
      PROVE  /\ d * Pow[k] < Lead => k < s
             /\ Lead <= d * Pow[k] => s <= k
             /\ d * Pow[k] < SigSpace => k <= s
  <2>. DEFINE w == d * Pow[k]
  <2>1. w \in Nat /\ (k < s => 2 * w <= v) /\ (s < k => 2 * v <= w) /\ (k = s => w = v)
    BY <1>2, <1>3, <1>6
  <2>. HIDE DEF w, v
  <2>2. /\ w < Lead => k < s
        /\ Lead <= w => s <= k
        /\ w < SigSpace => k <= s
    BY <1>1, <1>6, <1>7, <2>1
  <2>. QED BY <2>2 DEF w
<1>. QED BY <1>6, <1>7, <1>8 DEF s, v

LEMMA NoDifference ==
  ASSUME call \in AnyCall, call.op \in Sums, IsNormal(call.a), IsNormal(Addend)
  PROVE  /\ (Difference = 0) = (Larger.sig = Kept)
         /\ Kept <= Larger.sig => Difference = Larger.sig - Kept
<1>. DEFINE m == Larger.sig
            k == Kept
            n == SigSpace
<1>1. m \in Nat /\ m < n /\ k \in Nat /\ k < n /\ n \in Nat /\ n > 0
  BY Aligning, Sizes
<1>. HIDE DEF m, k, n
<1>2. k <= m => (m - k) % n = m - k
  BY <1>1
<1>3. m < k => (m - k) % n = m - k + n
  BY <1>1
<1>4. ((m - k) % n = 0) = (m = k)
  BY <1>1, <1>2, <1>3
<1>. QED BY <1>2, <1>4 DEF Difference, m, k, n

LEMMA LooksZeroOfZero == LooksZero(0)
<1>1. Space \in Nat /\ Space > 0 /\ Space2 \in Nat /\ Space2 > 0
  BY Sizes
<1>2. 0 \div Space2 = 0 /\ 0 \div Space = 0 /\ 0 % Space = 0 /\ (0 + 0 + 0) % Space = 0
  BY <1>1
<1>. QED BY <1>2 DEF LooksZero, WordSum, High

\* What __fadd returns for two normal operands.
SumCase(v) ==
  \/ /\ Larger.s = Smaller.s /\ Larger.sig + Kept < SigSpace
     /\ v = [s |-> Larger.s, e |-> Larger.e, sig |-> Larger.sig + Kept]
  \/ /\ Larger.s = Smaller.s /\ Larger.sig + Kept >= SigSpace /\ Larger.e + 1 < ExpMax
     /\ v = [s |-> Larger.s, e |-> Larger.e + 1, sig |-> (Larger.sig + Kept) \div 2]
  \/ /\ Larger.s = Smaller.s /\ Larger.sig + Kept >= SigSpace /\ Larger.e + 1 >= ExpMax
     /\ v = Inf(Larger.s)
  \/ Larger.s # Smaller.s /\ LooksZero(Difference) /\ v = Zero(0)
  \/ /\ Larger.s # Smaller.s /\ ~LooksZero(Difference) /\ Difference # 0
     /\ Larger.e <= Shift(Difference) /\ v = Zero(0)
  \/ /\ Larger.s # Smaller.s /\ ~LooksZero(Difference) /\ Difference # 0
     /\ Shift(Difference) < Larger.e
     /\ v = [s |-> Larger.s, e |-> Larger.e - Shift(Difference),
             sig |-> Difference * Pow[Shift(Difference)]]

LEMMA SumReturned ==
  ASSUME FloatInv, AddMagnitudes \/ Subtract \/ Normalise, pc' = "done"
  PROVE  /\ call' = call /\ call \in AnyCall /\ call.op \in Sums
         /\ IsNormal(call.a) /\ IsNormal(Addend)
         /\ SumCase(result')
<1>1. CASE AddMagnitudes
  <2>1. /\ call \in AnyCall /\ call.op \in Sums /\ IsNormal(call.a) /\ IsNormal(Addend)
        /\ a = Larger /\ b.s = Smaller.s /\ b.sig = Kept /\ call' = call
    BY <1>1, Aligned DEF AddMagnitudes, Return
  <2>2. /\ Larger.s \in {0, 1} /\ Larger.e \in Nat /\ Larger.e < ExpMax
        /\ Larger.sig \in Nat /\ Lead <= Larger.sig /\ Larger.sig < SigSpace
        /\ Kept \in Nat /\ Kept < SigSpace
    BY <2>1, Summands, Aligning, FloatFields, Sizes, Widths DEF IsNormal
  <2>. DEFINE L == Larger
              sum == L.sig + Kept
              half == sum \div 2
              next == L.e + 1
  <2>3. /\ sum \in Nat
        /\ sum >= SigSpace => half \in Nat /\ half < SigSpace
        /\ next \in Nat /\ L.e <= ExpMax
    BY <2>2, SumFits, Widths
  <2>4. /\ L.s = Smaller.s
        /\ \/ sum < SigSpace /\ result' = Pack(L.s, L.e, sum)
           \/ sum >= SigSpace /\ next < ExpMax /\ result' = Pack(L.s, next, half)
           \/ sum >= SigSpace /\ next >= ExpMax /\ result' = Inf(L.s)
    BY <1>1, <2>1 DEF AddMagnitudes, Return
  <2>. HIDE DEF sum, half, next
  <2>5. CASE sum < SigSpace /\ result' = Pack(L.s, L.e, sum)
    BY <2>1, <2>2, <2>3, <2>4, <2>5, Packed DEF SumCase, sum
  <2>6. CASE sum >= SigSpace /\ next < ExpMax /\ result' = Pack(L.s, next, half)
    <3>1. Pack(L.s, next, half) = [s |-> L.s, e |-> next, sig |-> half]
      BY <2>2, <2>3, <2>6, Packed, Widths
    <3>. QED BY <2>1, <2>4, <2>6, <3>1 DEF SumCase, sum, half, next
  <2>7. CASE sum >= SigSpace /\ next >= ExpMax /\ result' = Inf(L.s)
    BY <2>1, <2>4, <2>7 DEF SumCase, sum, next
  <2>. QED BY <2>4, <2>5, <2>6, <2>7
<1>2. CASE Subtract
  <2>1. /\ call \in AnyCall /\ call.op \in Sums /\ IsNormal(call.a) /\ IsNormal(Addend)
        /\ a = Larger /\ b.s = Smaller.s /\ b.sig = Kept /\ a.s # b.s
    BY <1>2, Aligned DEF Subtract
  <2>2. (a.sig - b.sig) % SigSpace = Difference
    BY <2>1 DEF Difference
  <2>3. LooksZero(Difference) /\ result' = Zero(0) /\ call' = call
    BY <1>2, <2>2 DEF Subtract, Return, Continue
  <2>. QED BY <2>1, <2>3 DEF SumCase
<1>3. CASE Normalise
  <2>1. /\ call \in AnyCall /\ call.op \in Sums /\ IsNormal(call.a) /\ IsNormal(Addend)
        /\ Larger.s # Smaller.s /\ ~LooksZero(Difference) /\ pc = "norm"
        /\ r \in [s : {0, 1}, e : Nat, sig : Nat] /\ r.s = Larger.s
        /\ 1 <= r.e /\ r.e <= Larger.e /\ r.sig < SigSpace
        /\ r.sig = Difference * Pow[Larger.e - r.e]
    BY <1>3 DEF FloatInv, NormInv, Normalise
  <2>2. Larger.e \in Nat /\ Larger.e < ExpMax /\ Larger.s \in {0, 1}
        /\ Difference \in Nat /\ Difference < SigSpace
    BY <2>1, Summands, Aligning, FloatFields, Widths DEF IsNormal
  <2>3. Difference # 0
    BY <2>1, LooksZeroOfZero
  <2>. DEFINE d == Difference
              k == Larger.e - r.e
              s == Shift(d)
              v == d * Pow[k]
  <2>4. k \in Nat /\ r.e \in Nat /\ r.e = Larger.e - k /\ r.sig \in Nat /\ r.sig = v
    BY <2>1, <2>2
  <2>5. /\ s \in Nat
        /\ v < Lead => k < s
        /\ Lead <= v => s <= k
        /\ v < SigSpace => k <= s
    BY <2>2, <2>3, <2>4, ShiftFinds
  <2>6. call' = call /\ \/ r.sig >= Lead /\ result' = Pack(r.s, r.e, r.sig)
                        \/ r.sig < Lead /\ r.e = 1 /\ result' = Zero(0)
    BY <1>3, <2>1 DEF Normalise, Return
  <2>. HIDE DEF s, v, k
  <2>7. CASE r.sig >= Lead /\ result' = Pack(r.s, r.e, r.sig)
    <3>1. k = s
      BY <2>1, <2>4, <2>5, <2>7, Sizes
    <3>2. result' = [s |-> Larger.s, e |-> Larger.e - s, sig |-> d * Pow[s]]
      BY <2>1, <2>2, <2>4, <2>7, <3>1, Packed, Widths DEF v
    <3>3. s < Larger.e
      BY <2>1, <2>2, <2>4, <3>1
    <3>. QED BY <2>1, <2>3, <2>6, <3>2, <3>3 DEF SumCase, s
  <2>8. CASE r.sig < Lead /\ r.e = 1 /\ result' = Zero(0)
    <3>1. Larger.e <= s
      BY <2>1, <2>2, <2>4, <2>5, <2>8
    <3>. QED BY <2>1, <2>3, <2>6, <2>8, <3>1 DEF SumCase, s
  <2>. QED BY <2>6, <2>7, <2>8
<1>. QED BY <1>1, <1>2, <1>3

\* What the reference returns for two normal operands.
LEMMA ReferenceSum ==
  ASSUME call \in AnyCall, call.op \in Sums, IsNormal(call.a), IsNormal(Addend)
  PROVE  FaddBits(call.a, Addend) =
           IF Larger.s = Smaller.s
           THEN IF Larger.sig + Kept >= SigSpace
                THEN Fit(Larger.s, Larger.e + 1, (Larger.sig + Kept) \div 2)
                ELSE Fit(Larger.s, Larger.e, Larger.sig + Kept)
           ELSE IF Larger.sig = Kept THEN Zero(0)
                ELSE Fit(Larger.s, Larger.e - Shift(Difference),
                         Difference * Pow[Shift(Difference)])
<1>. DEFINE x == call.a
            y == Addend
            L == Larger
            S == Smaller
<1>1. x \in Float /\ y \in Float /\ x.e \in Nat /\ y.e \in Nat
  BY Summands, FloatFields
<1>2. Classes(x, y) = <<"normal", "normal">>
  BY <1>1, NormalClass DEF Classes
<1>3. L = (IF x.e < y.e THEN y ELSE x) /\ S = (IF x.e < y.e THEN x ELSE y)
  BY DEF Larger, Smaller, Ordered
<1>4. FaddBits(x, y) = SumOf(L, S)
  <2>. HIDE DEF x, y, L, S
  <2>1. (x.e >= y.e) = ~(x.e < y.e)
    BY <1>1
  <2>. QED BY <1>2, <1>3, <2>1 DEF FaddBits
<1>5. /\ L.sig \in Nat /\ Kept \in Nat /\ SigSpace \in Nat
  BY Aligning, Sizes
<1>6. (IF L.e - S.e >= SigBits THEN 0 ELSE S.sig \div Pow[L.e - S.e]) = Kept
      /\ (L.sig - Kept) % SigSpace = Difference
  BY DEF Kept, Distance, Difference
<1>. HIDE DEF x, y, L, S
<1>7. SumOf(L, S) = CASE L.s = S.s /\ L.sig + Kept >= SigSpace -> Fit(L.s, L.e + 1, (L.sig + Kept) \div 2)
                      [] L.s = S.s /\ L.sig + Kept < SigSpace  -> Fit(L.s, L.e, L.sig + Kept)
                      [] L.s # S.s /\ L.sig = Kept             -> Zero(0)
                      [] OTHER -> Fit(L.s, L.e - Shift(Difference), Difference * Pow[Shift(Difference)])
  BY <1>6 DEF SumOf
<1>8. (L.sig + Kept < SigSpace) = ~(L.sig + Kept >= SigSpace)
  BY <1>5
<1>. QED BY <1>4, <1>7, <1>8 DEF L, S, x, y

LEMMA Fits ==
  ASSUME NEW s \in {0, 1}, NEW e \in Int, NEW sig \in Nat, sig < SigSpace
  PROVE  /\ e >= ExpMax => Fit(s, e, sig) = Inf(s)
         /\ e <= 0 => Fit(s, e, sig).e = 0 /\ Fit(s, e, sig) = Zero(s)
         /\ e > 0 /\ e < ExpMax => Fit(s, e, sig) = [s |-> s, e |-> e, sig |-> sig]
<1>1. CASE e >= ExpMax
  BY <1>1, Widths DEF Fit
<1>2. CASE e <= 0
  BY <1>2, Widths, Extremes DEF Fit
<1>3. CASE e > 0 /\ e < ExpMax
  <2>1. Fit(s, e, sig) = Pack(s, e, sig)
    BY <1>3, Widths DEF Fit
  <2>. QED BY <1>3, <2>1, Packed, Widths
<1>. QED BY <1>1, <1>2, <1>3

\* The property's words of a difference are those that __fadd tests.
LEMMA VanishesWhen ==
  ASSUME call \in AnyCall, call.op \in Sums, IsNormal(call.a), IsNormal(Addend)
  PROVE  Vanishes = (Larger.s # Smaller.s /\ Difference # 0 /\ LooksZero(Difference))
<1>. DEFINE x == call.a
            y == Addend
<1>1. x \in Float /\ y \in Float /\ IsNormal(x) /\ IsNormal(y)
  BY Summands
<1>2. Operands[1] = x /\ Operands[2] = y
  BY DEF Operands
<1>3. Larger = (IF x.e < y.e THEN y ELSE x) /\ Smaller = (IF x.e < y.e THEN x ELSE y)
  BY DEF Larger, Smaller, Ordered
<1>. HIDE DEF x, y
<1>4. BothNormal
  BY <1>1, <1>2, NormalClass DEF BothNormal, Classes
<1>5. Difference = Remainder(Larger, Smaller)
  BY DEF Difference, Kept, Distance, Remainder
<1>6. Difference = (IF x.e < y.e THEN Remainder(y, x) ELSE Remainder(x, y))
  BY <1>3, <1>5
<1>7. (x.s # y.s) = (Larger.s # Smaller.s)
  BY <1>3
<1>8. LooksZero(Difference) = (WordSum(Difference) % Space = 0)
  BY DEF LooksZero
<1>9. Vanishes = (x.s # y.s /\ Difference # 0 /\ WordSum(Difference) % Space = 0)
  BY <1>2, <1>4, <1>6 DEF Vanishes
<1>. QED BY <1>7, <1>8, <1>9

\* A sum is what the reference returns, unless the words of a difference that is
\* not zero add up to nothing.
LEMMA SumAgrees ==
  ASSUME call \in AnyCall, call.op \in Sums, IsNormal(call.a), IsNormal(Addend),
         NEW v, SumCase(v)
  PROVE  IF Vanishes THEN v = Zero(0) ELSE SameFloat(v, FaddBits(call.a, Addend))
<1>. DEFINE L == Larger
            S == Smaller
            d == Difference
            k == Shift(d)
            sum == L.sig + Kept
            half == sum \div 2
            next == L.e + 1
            less == L.e - k
            sig == d * Pow[k]
            F == FaddBits(call.a, Addend)
<1>1. /\ L.s \in {0, 1} /\ L.e \in Nat /\ L.e >= 1 /\ L.e < ExpMax
      /\ L.sig \in Nat /\ Lead <= L.sig /\ L.sig < SigSpace
      /\ Kept \in Nat /\ Kept < SigSpace
      /\ d \in Nat /\ d < SigSpace
  BY Summands, Aligning, FloatFields, Sizes, Widths DEF IsNormal
<1>2. /\ sum \in Nat
      /\ sum >= SigSpace => half \in Nat /\ half < SigSpace
      /\ next \in Nat /\ next > 0
  BY <1>1, SumFits
<1>3. d # 0 => /\ k \in Nat /\ less \in Int /\ (L.e <= k) = (less <= 0)
               /\ sig \in Nat /\ sig < SigSpace
  <2>. SUFFICES ASSUME d # 0
                PROVE  /\ k \in Nat /\ less \in Int /\ (L.e <= k) = (less <= 0)
                       /\ sig \in Nat /\ sig < SigSpace
    OBVIOUS
  <2>1. k \in Nat /\ sig < SigSpace
    BY <1>1, ShiftFinds
  <2>2. Pow[k] \in Nat
    BY <2>1, PowNat
  <2>3. sig \in Nat
    BY <1>1, <2>2
  <2>. QED BY <1>1, <2>1, <2>3
<1>4. (d = 0) = (L.sig = Kept)
  BY NoDifference
<1>5. F = IF L.s = S.s
          THEN IF sum >= SigSpace THEN Fit(L.s, next, half) ELSE Fit(L.s, L.e, sum)
          ELSE IF L.sig = Kept THEN Zero(0) ELSE Fit(L.s, less, sig)
  BY ReferenceSum
<1>6. SumCase(v) = (\/ L.s = S.s /\ sum < SigSpace /\ v = [s |-> L.s, e |-> L.e, sig |-> sum]
                    \/ L.s = S.s /\ sum >= SigSpace /\ next < ExpMax
                         /\ v = [s |-> L.s, e |-> next, sig |-> half]
                    \/ L.s = S.s /\ sum >= SigSpace /\ next >= ExpMax /\ v = Inf(L.s)
                    \/ L.s # S.s /\ LooksZero(d) /\ v = Zero(0)
                    \/ L.s # S.s /\ ~LooksZero(d) /\ d # 0 /\ L.e <= k /\ v = Zero(0)
                    \/ L.s # S.s /\ ~LooksZero(d) /\ d # 0 /\ k < L.e
                         /\ v = [s |-> L.s, e |-> less, sig |-> sig])
  BY DEF SumCase
<1>7. Zero(0).e = 0 /\ Vanishes = (L.s # S.s /\ d # 0 /\ LooksZero(d))
  BY Extremes, VanishesWhen
<1>. HIDE DEF L, S, d, k, sum, half, next, less, sig, F
<1>8. CASE L.s = S.s /\ sum < SigSpace /\ v = [s |-> L.s, e |-> L.e, sig |-> sum]
  <2>1. F = Fit(L.s, L.e, sum)
    BY <1>2, <1>5, <1>8, Sizes
  <2>2. F = v
    BY <1>1, <1>2, <1>8, <2>1, Fits
  <2>. QED BY <1>7, <1>8, <2>2 DEF SameFloat, F
<1>9. CASE L.s = S.s /\ sum >= SigSpace /\ next < ExpMax /\ v = [s |-> L.s, e |-> next, sig |-> half]
  <2>1. F = v
    BY <1>1, <1>2, <1>5, <1>9, Fits
  <2>. QED BY <1>7, <1>9, <2>1 DEF SameFloat, F
<1>10. CASE L.s = S.s /\ sum >= SigSpace /\ next >= ExpMax /\ v = Inf(L.s)
  <2>1. F = v
    BY <1>1, <1>2, <1>5, <1>10, Fits
  <2>. QED BY <1>7, <1>10, <2>1 DEF SameFloat, F
<1>11. CASE L.s # S.s /\ LooksZero(d) /\ v = Zero(0)
  <2>1. CASE d = 0
    BY <1>4, <1>5, <1>7, <1>11, <2>1 DEF SameFloat, F
  <2>2. CASE d # 0
    BY <1>7, <1>11, <2>2
  <2>. QED BY <2>1, <2>2
<1>12. CASE L.s # S.s /\ ~LooksZero(d) /\ d # 0 /\ L.e <= k /\ v = Zero(0)
  <2>1. F.e = 0
    BY <1>1, <1>3, <1>4, <1>5, <1>12, Fits
  <2>. QED BY <1>7, <1>12, <2>1 DEF SameFloat, F
<1>13. CASE L.s # S.s /\ ~LooksZero(d) /\ d # 0 /\ k < L.e /\ v = [s |-> L.s, e |-> less, sig |-> sig]
  <2>1. less > 0 /\ less < ExpMax
    BY <1>1, <1>3, <1>13, Widths DEF less
  <2>2. F = v
    BY <1>1, <1>3, <1>4, <1>5, <1>13, <2>1, Fits
  <2>. QED BY <1>7, <1>13, <2>2 DEF SameFloat, F
<1>. QED BY <1>6, <1>8, <1>9, <1>10, <1>11, <1>12, <1>13

LEMMA ValueIs ==
  ASSUME NEW s \in {0, 1}, NEW e \in Nat, e >= 1, NEW sig \in Nat
  PROVE  Value([s |-> s, e |-> e, sig |-> sig]) = Given(s, sig * Pow[e])
<1>. DEFINE p == Pow[e]
<1>1. p \in Nat
  BY PowNat
<1>2. Value([s |-> s, e |-> e, sig |-> sig]) = (IF s = 1 THEN -1 ELSE 1) * sig * p
  BY DEF Value
<1>. HIDE DEF p
<1>3. (-1) * sig * p = -(sig * p) /\ 1 * sig * p = sig * p
  BY <1>1
<1>. QED BY <1>2, <1>3 DEF Given, p

\* What is lost when the smaller operand is aligned.
LEMMA AlignmentLoses ==
  ASSUME call \in AnyCall, call.op \in Sums, IsNormal(call.a), IsNormal(Addend)
  PROVE  /\ Kept * Pow[Larger.e] \in Nat
         /\ Smaller.sig * Pow[Smaller.e] - Kept * Pow[Larger.e] \in Nat
         /\ Smaller.sig * Pow[Smaller.e] - Kept * Pow[Larger.e] < Pow[Larger.e]
         /\ Distance = 0 => /\ Kept = Smaller.sig
                            /\ Smaller.sig * Pow[Smaller.e] - Kept * Pow[Larger.e] = 0
         /\ Distance # 0 => Kept < Lead
<1>. DEFINE n == Smaller.sig
            d == Distance
            q == Pow[Smaller.e]
            p == Pow[Larger.e]
            w == Pow[d]
            k == Kept
            t == n % w
<1>1. /\ n \in Nat /\ n < SigSpace /\ d \in Nat /\ Larger.e \in Nat /\ Smaller.e \in Nat
      /\ Smaller.e <= Larger.e /\ d = Larger.e - Smaller.e /\ k \in Nat
  BY Summands, Aligning, FloatFields DEF Distance
<1>2. p = q * w /\ p \in Nat /\ p > 0 /\ q \in Nat /\ q > 0 /\ w \in Nat /\ w > 0
  BY <1>1, PowGrows, PowNat
<1>3. /\ SigBits \in Nat /\ SigSpace = Pow[SigBits] /\ SigSpace \in Nat /\ SigSpace = 2 * Lead
      /\ Lead \in Nat /\ Lead > 0 /\ SigBits > 0
  BY Widths, Sizes DEF SigSpace
<1>4. CASE d >= SigBits
  <2>0. k = 0
    BY <1>4 DEF Kept
  <2>1. k = 0 /\ d # 0
    <3>. HIDE DEF k, d
    <3>. QED BY <1>1, <1>3, <1>4, <2>0
  <2>. HIDE DEF d
  <2>2. SigSpace <= w
    <3>1. d \in Nat /\ SigBits \in Nat /\ SigBits <= d
      BY <1>1, <1>3, <1>4
    <3>2. Pow[SigBits] <= Pow[d]
      BY <3>1, PowGrows
    <3>. QED BY <1>3, <3>2
  <2>. HIDE DEF n, q, p, w, k
  <2>3. n * q < w * q
    BY <1>1, <1>2, <1>3, <2>2, MulStrict
  <2>4. w * q = p /\ n * q \in Nat /\ k * p = 0
    BY <1>1, <1>2, <2>1
  <2>5. k * p \in Nat /\ n * q - k * p \in Nat /\ n * q - k * p < p
    BY <1>2, <2>3, <2>4
  <2>6. d # 0 /\ k < Lead
    BY <1>3, <2>1
  <2>. QED BY <2>5, <2>6 DEF n, q, p, k, d
<1>5. CASE ~(d >= SigBits)
  <2>1. k = n \div w
    BY <1>5 DEF Kept
  <2>. HIDE DEF n, w, k
  <2>2. n = k * w + t /\ t \in Nat /\ t < w
    BY <1>1, <1>2, <2>1, Quotient
  <2>3. d = 0 => k = n
    <3>1. d = 0 => w = 1
      BY PowNext DEF w
    <3>. QED BY <1>1, <2>1, <3>1
  <2>4. d # 0 => k < Lead
    <3>. SUFFICES ASSUME d # 0 PROVE k < Lead
      OBVIOUS
    <3>. DEFINE j == d - 1
    <3>1. j \in Nat /\ d = j + 1
      BY <1>1
    <3>. HIDE DEF d, j
    <3>2. Pow[j + 1] = 2 * Pow[j] /\ Pow[j] \in Nat /\ Pow[j] > 0
      BY <3>1, PowNext, PowNat
    <3>3. w >= 2
      BY <3>1, <3>2 DEF w
    <3>4. 2 * k <= w * k
      BY <1>1, <1>2, <3>3, MulMono
    <3>5. w * k = k * w /\ k * w \in Nat
      BY <1>1, <1>2
    <3>. QED BY <1>1, <1>3, <2>2, <3>4, <3>5
  <2>. HIDE DEF t, q, p
  <2>5. n * q = k * p + t * q
    <3>1. (k * w + t) * q = k * (q * w) + t * q
      BY <1>1, <1>2, <2>2
    <3>. QED BY <1>2, <2>2, <3>1
  <2>6. t * q < w * q /\ w * q = p
    BY <1>2, <2>2, MulStrict
  <2>7. k * p \in Nat /\ t * q \in Nat /\ n * q \in Nat
    BY <1>1, <1>2, <2>2
  <2>. DEFINE u == k * p
              v == t * q
              z == n * q
  <2>8. u \in Nat /\ v \in Nat /\ z = u + v /\ v < p
    BY <2>5, <2>6, <2>7
  <2>9. d = 0 => z = u
    <3>. SUFFICES ASSUME d = 0 PROVE z = u
      OBVIOUS
    <3>1. w = 1
      BY PowNext DEF w
    <3>2. p = q /\ k = n
      BY <1>2, <2>3, <3>1
    <3>. QED BY <3>2
  <2>. HIDE DEF u, v, z
  <2>10. u \in Nat /\ z - u \in Nat /\ z - u < p /\ (d = 0 => z - u = 0)
    BY <1>2, <2>8, <2>9
  <2>. QED BY <2>3, <2>4, <2>10 DEF u, z, n, k, q, p
<1>. QED BY <1>4, <1>5

\* Where cancellation leaves nothing below zero.
LEMMA NothingBelow ==
  ASSUME call \in AnyCall, call.op \in Sums, IsNormal(call.a), IsNormal(Addend),
         Larger.s # Smaller.s, ~Reversed
  PROVE  Kept <= Larger.sig /\ (Kept = Larger.sig => Distance = 0)
<1>1. /\ Larger.sig \in Nat /\ Lead <= Larger.sig /\ Kept \in Nat /\ Lead \in Nat
      /\ (Distance # 0 => Kept < Lead) /\ (Distance = 0 => Kept = Smaller.sig)
  BY Aligning, AlignmentLoses, Sizes
<1>2. CASE Distance = 0
  <2>. DEFINE x == call.a
              y == Addend
  <2>1. x \in Float /\ y \in Float /\ x.e \in Nat /\ y.e \in Nat /\ x.sig \in Nat /\ y.sig \in Nat
    BY Summands, FloatFields
  <2>2. Classes(x, y) = <<"normal", "normal">>
    BY <2>1, NormalClass DEF Classes
  <2>3. Larger = (IF x.e < y.e THEN y ELSE x) /\ Smaller = (IF x.e < y.e THEN x ELSE y)
        /\ Larger.e - Smaller.e = 0
    BY <1>2 DEF Larger, Smaller, Ordered, Distance
  <2>4. Operands[1] = x /\ Operands[2] = y
    BY DEF Operands
  <2>. HIDE DEF x, y
  <2>5. x.e = y.e /\ Larger = x /\ Smaller = y
    BY <2>1, <2>3
  <2>6. ~(x.sig < y.sig)
    BY <2>2, <2>4, <2>5 DEF Reversed, BothNormal
  <2>. QED BY <1>1, <1>2, <2>1, <2>5, <2>6
<1>3. CASE Distance # 0
  BY <1>1, <1>3
<1>. QED BY <1>2, <1>3

Exact == Value(Operands[1]) + Value(Operands[2])

LEMMA ExactSum ==
  ASSUME call \in AnyCall, call.op \in Sums, IsNormal(call.a), IsNormal(Addend)
  PROVE  Exact = Given(Larger.s,
                       IF Larger.s = Smaller.s
                       THEN Larger.sig * Pow[Larger.e] + Smaller.sig * Pow[Smaller.e]
                       ELSE Larger.sig * Pow[Larger.e] - Smaller.sig * Pow[Smaller.e])
<1>. DEFINE L == Larger
            S == Smaller
            m == L.sig * Pow[L.e]
            n == S.sig * Pow[S.e]
<1>1. /\ L \in Float /\ S \in Float /\ IsNormal(L) /\ IsNormal(S)
      /\ L.s \in {0, 1} /\ S.s \in {0, 1} /\ L.e >= 1 /\ S.e >= 1
  BY Summands, Aligning, FloatFields, Widths DEF IsNormal
<1>2. m \in Nat /\ n \in Nat /\ Value(L) = Given(L.s, m) /\ Value(S) = Given(S.s, n)
  BY <1>1, ValueOf
<1>3. Exact = Value(L) + Value(S)
  <2>. DEFINE x == call.a
              y == Addend
  <2>1. x \in Float /\ y \in Float
    BY Summands
  <2>2. Value(x) \in Int /\ Value(y) \in Int
    <3>1. IsNormal(x) /\ IsNormal(y) /\ x.e >= 1 /\ y.e >= 1 /\ x.s \in {0, 1} /\ y.s \in {0, 1}
      BY <2>1, FloatFields, Widths DEF IsNormal
    <3>. QED BY <2>1, <3>1, ValueOf DEF Given
  <2>3. Exact = Value(x) + Value(y)
    BY DEF Exact, Operands
  <2>4. (L = x /\ S = y) \/ (L = y /\ S = x)
    BY DEF Larger, Smaller, Ordered
  <2>. HIDE DEF x, y, L, S
  <2>5. Value(x) + Value(y) = Value(y) + Value(x)
    BY <2>2
  <2>. QED BY <2>3, <2>4, <2>5
<1>. HIDE DEF m, n
<1>4. CASE L.s = S.s
  <2>1. Exact = Given(L.s, m + n)
    BY <1>1, <1>2, <1>3, <1>4 DEF Given
  <2>. QED BY <1>4, <2>1 DEF m, n
<1>5. CASE L.s # S.s
  <2>1. S.s = 1 - L.s
    BY <1>1, <1>5
  <2>2. Given(L.s, m) + Given(1 - L.s, n) = Given(L.s, m - n)
    BY <1>1, <1>2 DEF Given
  <2>3. Exact = Given(L.s, m - n)
    BY <1>2, <1>3, <2>1, <2>2
  <2>. QED BY <1>5, <2>3 DEF m, n
<1>. QED BY <1>4, <1>5

\* How far what is returned lies from the exact sum.
LEMMA SumClose ==
  ASSUME call \in AnyCall, call.op \in Sums, IsNormal(call.a), IsNormal(Addend),
         NEW v, SumCase(v), ~Reversed, ~Vanishes,
         NEW scale \in Nat, Larger.e <= scale, v.e <= scale
  PROVE  /\ v.e = ExpMax => Magnitude(Exact) >= SigSpace * Pow[ExpMax - 1]
         /\ v.e = 0 => Magnitude(Exact) < 2 * Lead
         /\ v.e \notin {0, ExpMax} => Magnitude(Value(v) - Exact) < Pow[scale]
<1>. DEFINE L == Larger
            S == Smaller
            p == Pow[L.e]
            m == L.sig * p
            u == Kept * p
            n == S.sig * Pow[S.e]
            lost == n - u
            top == Pow[scale]
<1>1. /\ L.s \in {0, 1} /\ L.e \in Nat /\ L.e >= 1 /\ L.e < ExpMax
      /\ L.sig \in Nat /\ Kept \in Nat /\ Kept < SigSpace /\ L.sig < SigSpace /\ Lead <= L.sig
      /\ Difference \in Nat /\ Difference < SigSpace
  BY Summands, Aligning, FloatFields, Sizes, Widths DEF IsNormal
<1>2. p \in Nat /\ p > 0 /\ p <= top /\ top \in Nat
  BY <1>1, PowNat, PowGrows
<1>3. u \in Nat /\ lost \in Nat /\ lost < p /\ (Distance = 0 => lost = 0)
  BY AlignmentLoses
<1>4. m \in Nat /\ n = u + lost
  <2>1. m \in Nat
    BY <1>1, <1>2
  <2>2. n \in Int
    <3>1. S.sig \in Nat /\ S.e \in Nat
      BY Summands, FloatFields
    <3>2. Pow[S.e] \in Nat
      BY <3>1, PowNat
    <3>. QED BY <3>1, <3>2
  <2>. HIDE DEF u, n
  <2>. QED BY <1>3, <2>1, <2>2
<1>5. Exact = Given(L.s, IF L.s = S.s THEN m + n ELSE m - n)
  BY ExactSum
<1>6. L.s # S.s => Kept <= L.sig /\ (Kept = L.sig => Distance = 0) /\ Difference = L.sig - Kept
  BY NothingBelow, NoDifference
<1>7. /\ (L.sig + Kept) * p = m + u
      /\ (L.sig - Kept) * p = m - u
  <2>1. L.sig \in Int /\ Kept \in Int /\ p \in Int
    BY <1>1, <1>2
  <2>. HIDE DEF L, p
  <2>. QED BY <2>1
<1>. HIDE DEF p, m, u, n, lost, top
<1>8. CASE L.s = S.s
  <2>. DEFINE sum == L.sig + Kept
              half == sum \div 2
              c == sum % 2
              t == half * (2 * p)
              o == c * p
  <2>1. sum \in Nat /\ half \in Nat /\ c \in {0, 1} /\ sum = 2 * half + c
    BY <1>1
  <2>2. sum * p = m + u
    BY <1>7
  <2>3. Exact = Given(L.s, m + u + lost) /\ Magnitude(Exact) = m + u + lost
    <3>1. m + n = m + u + lost
      BY <1>3, <1>4
    <3>2. m + u + lost \in Nat
      BY <1>3, <1>4
    <3>. QED BY <1>1, <1>5, <1>8, <3>1, <3>2 DEF Given, Magnitude
  <2>. HIDE DEF sum
  <2>4. CASE sum < SigSpace /\ v = [s |-> L.s, e |-> L.e, sig |-> sum]
    <3>1. Value(v) = Given(L.s, m + u)
      BY <1>1, <2>1, <2>2, <2>4, ValueIs DEF p
    <3>2. Magnitude(Value(v) - Exact) = Magnitude((m + u) - (m + u + lost))
      BY <1>1, <1>3, <1>4, <2>3, <3>1 DEF Given, Magnitude
    <3>3. Magnitude((m + u) - (m + u + lost)) = lost
      BY <1>3, <1>4 DEF Magnitude
    <3>. QED BY <1>1, <1>2, <1>3, <2>4, <3>2, <3>3 DEF top
  <2>5. CASE L.e + 1 < ExpMax /\ v = [s |-> L.s, e |-> L.e + 1, sig |-> half]
    <3>. DEFINE next == L.e + 1
    <3>1. Pow[next] = 2 * p /\ next \in Nat /\ next >= 1
      BY <1>1, PowNext DEF p
    <3>2. 2 * p <= top
      BY <1>1, <2>5, <3>1, PowGrows DEF top
    <3>. HIDE DEF next
    <3>3. Value(v) = Given(L.s, t)
      BY <1>1, <2>1, <2>5, <3>1, ValueIs DEF next
    <3>4. m + u = t + o /\ t \in Nat /\ o \in Nat /\ o <= p
      <4>1. (2 * half + c) * p = half * (2 * p) + c * p
        BY <1>2, <2>1
      <4>2. t \in Nat
        BY <1>2, <2>1
      <4>3. o = 0 \/ o = p
        BY <1>2, <2>1
      <4>. QED BY <1>2, <2>1, <2>2, <4>1, <4>2, <4>3
    <3>. HIDE DEF t, o
    <3>5. Magnitude(Value(v) - Exact) = Magnitude(t - (m + u + lost))
      BY <1>1, <1>3, <1>4, <2>3, <3>3, <3>4 DEF Given, Magnitude
    <3>6. Magnitude(t - (m + u + lost)) = o + lost
      BY <1>3, <1>4, <3>4 DEF Magnitude
    <3>7. o + lost < top
      BY <1>2, <1>3, <3>2, <3>4
    <3>. QED BY <1>1, <2>5, <3>5, <3>6, <3>7 DEF top
  <2>6. CASE sum >= SigSpace /\ L.e + 1 >= ExpMax /\ v = Inf(L.s)
    <3>1. v.e = ExpMax /\ L.e = ExpMax - 1 /\ ExpMax # 0
      BY <1>1, <2>6, Extremes, Widths
    <3>2. SigSpace * p <= sum * p
      BY <1>2, <2>1, <2>6, MulMono, Sizes
    <3>3. SigSpace * p \in Nat
      BY <1>2, Sizes
    <3>4. Magnitude(Exact) >= SigSpace * p
      BY <1>3, <1>4, <2>2, <2>3, <3>2, <3>3
    <3>. QED BY <3>1, <3>4 DEF p
  <2>. QED BY <1>8, <2>4, <2>5, <2>6 DEF SumCase, sum, half
<1>9. CASE L.s # S.s
  <2>. DEFINE d == Difference
              k == Shift(d)
              w == d * p
  <2>1. d \in Nat /\ d = L.sig - Kept /\ w = m - u /\ w \in Nat
    <3>1. d \in Nat /\ d = L.sig - Kept
      BY <1>1, <1>6, <1>9
    <3>. HIDE DEF d
    <3>2. w = m - u
      BY <1>7, <3>1
    <3>3. w \in Nat
      BY <1>2, <3>1
    <3>. QED BY <3>1, <3>2, <3>3 DEF d
  <2>2. Exact = Given(L.s, w - lost)
    <3>. HIDE DEF w
    <3>1. m - n = w - lost
      BY <1>3, <1>4, <2>1
    <3>. QED BY <1>5, <1>9, <3>1
  <2>3. d # 0 => w >= p
    <3>. HIDE DEF d
    <3>. QED BY <1>2, <2>1, MulGrows
  <2>4. d = 0 => w = 0 /\ lost = 0
    <3>1. d = 0 => Kept = L.sig
      BY <1>1, <2>1
    <3>2. 0 * p = 0
      BY <1>2
    <3>. QED BY <1>3, <1>6, <1>9, <3>1, <3>2
  <2>5. w - lost \in Nat /\ Magnitude(Exact) = w - lost
    <3>1. w - lost \in Nat
      <4>. HIDE DEF w, d
      <4>. QED BY <1>2, <1>3, <2>1, <2>3, <2>4
    <3>. HIDE DEF w
    <3>. QED BY <1>1, <2>2, <3>1 DEF Given, Magnitude
  <2>6. d # 0 => /\ k \in Nat /\ Pow[k] \in Nat /\ d * Pow[k] < SigSpace
    BY <1>1, ShiftFinds, PowNat
  <2>7. ASSUME v = Zero(0), d # 0 => L.e <= k
        PROVE  v.e = 0 /\ Magnitude(Exact) < 2 * Lead
    <3>1. v.e = 0
      BY <2>7, Extremes
    <3>2. CASE d = 0
      <4>. HIDE DEF w, d
      <4>. QED BY <2>4, <2>5, <3>1, <3>2, Sizes
    <3>3. CASE d # 0
      <4>1. L.e <= k
        BY <2>7, <3>3
      <4>2. p <= Pow[k]
        BY <1>1, <2>6, <3>3, <4>1, PowGrows DEF p
      <4>. DEFINE y == Pow[k]
      <4>3. y \in Nat /\ p <= y /\ d * y < SigSpace
        BY <2>6, <3>3, <4>2
      <4>. HIDE DEF y, d
      <4>4. p * d <= y * d /\ p * d = d * p /\ y * d = d * y
        BY <1>2, <2>1, <4>3, MulMono
      <4>5. w < SigSpace
        <5>1. d * y \in Nat /\ SigSpace \in Nat
          BY <2>1, <4>3, Sizes
        <5>. HIDE DEF w
        <5>. QED BY <2>1, <4>3, <4>4, <5>1 DEF w
      <4>. HIDE DEF w
      <4>. QED BY <1>3, <2>1, <2>5, <3>1, <4>5, Sizes
    <3>. QED BY <3>2, <3>3
  <2>8. ASSUME d # 0, k < L.e, v = [s |-> L.s, e |-> L.e - k, sig |-> d * Pow[k]]
        PROVE  v.e \notin {0, ExpMax} /\ Magnitude(Value(v) - Exact) < top
    <3>. DEFINE less == L.e - k
                sig == d * Pow[k]
    <3>1. k \in Nat /\ less \in Nat /\ less >= 1 /\ less < ExpMax /\ sig \in Nat /\ k <= L.e
      BY <1>1, <2>6, <2>8, Widths
    <3>2. p = Pow[k] * Pow[less] /\ Pow[k] \in Nat /\ Pow[less] \in Nat
      BY <1>1, <3>1, PowGrows, PowNat DEF p
    <3>3. sig * Pow[less] = w
      <4>. DEFINE x == Pow[k]
                  y == Pow[less]
      <4>1. x \in Nat /\ y \in Nat /\ p = x * y
        BY <3>2
      <4>. HIDE DEF x, y, d
      <4>2. (d * x) * y = d * (x * y)
        BY <2>1, <4>1
      <4>. QED BY <4>1, <4>2 DEF x, y
    <3>. HIDE DEF less, sig
    <3>4. Value(v) = Given(L.s, w)
      BY <1>1, <2>8, <3>1, <3>3, ValueIs DEF less, sig
    <3>5. v.e = less
      BY <2>8 DEF less
    <3>. HIDE DEF w
    <3>6. Magnitude(Value(v) - Exact) = Magnitude(w - (w - lost))
      BY <1>1, <1>3, <2>1, <2>2, <2>5, <3>4 DEF Given, Magnitude
    <3>7. Magnitude(w - (w - lost)) = lost
      BY <1>3, <2>1 DEF Magnitude
    <3>8. lost < top
      BY <1>2, <1>3
    <3>. QED BY <3>1, <3>5, <3>6, <3>7, <3>8, Widths
  <2>9. \/ v = Zero(0) /\ (d # 0 => L.e <= k)
        \/ d # 0 /\ k < L.e /\ v = [s |-> L.s, e |-> L.e - k, sig |-> d * Pow[k]]
    <3>1. ~(d # 0 /\ LooksZero(d))
      BY <1>9, VanishesWhen
    <3>. QED BY <1>9, <3>1 DEF SumCase
  <2>10. ExpMax # 0
    BY Widths
  <2>. HIDE DEF d, k, w
  <2>. QED BY <2>7, <2>8, <2>9, <2>10 DEF top
<1>. QED BY <1>8, <1>9

\* The scale of a sum is the largest exponent.
LEMMA ScaleOf ==
  ASSUME NEW i \in Nat, NEW j \in Nat, NEW k \in Nat,
         NEW scale, scale = CHOOSE e \in {i, j, k} : \A d \in {i, j, k} : d <= e
  PROVE  scale \in Nat /\ i <= scale /\ j <= scale /\ k <= scale
<1>1. \E e \in {i, j, k} : \A d \in {i, j, k} : d <= e
  <2>1. \/ j <= i /\ k <= i
        \/ i <= j /\ k <= j
        \/ i <= k /\ j <= k
    OBVIOUS
  <2>. QED BY <2>1
<1>2. scale \in {i, j, k} /\ \A d \in {i, j, k} : d <= scale
  BY <1>1
<1>. QED BY <1>2

\* What SumsAreClose says of a sum that is returned.
CloseTo(v) ==
  LET scale == CHOOSE e \in {Operands[1].e, Operands[2].e, v.e} :
                 \A d \in {Operands[1].e, Operands[2].e, v.e} : d <= e
  IN  CASE v.e = ExpMax -> Magnitude(Exact) >= SigSpace * Pow[ExpMax - 1]
        [] v.e = 0      -> Magnitude(Exact) < 2 * Lead
        [] OTHER -> Magnitude(Value(v) - Exact) < Pow[scale]

LEMMA CloseResult ==
  ASSUME call' = call
  PROVE  /\ call.op \notin Sums => SumsAreClose'
         /\ ExpMax \in {Operands[1].e, Operands[2].e} => SumsAreClose'
         /\ Reversed => SumsAreClose'
         /\ Vanishes => SumsAreClose'
         /\ CloseTo(result') => SumsAreClose'
<1>1. Operands' = Operands
  BY SameCall
<1>2. Reversed' = Reversed /\ BothNormal' = BothNormal /\ Exact' = Exact
  BY <1>1 DEF Reversed, BothNormal, Exact
<1>4. Vanishes' = Vanishes
  BY <1>1, <1>2 DEF Vanishes, Remainder, WordSum, High
<1>5. CloseTo(result)' = CloseTo(result')
  BY <1>1, <1>2 DEF CloseTo
<1>6. SumsAreClose' = (Returned(Sums)' /\ ExpMax \notin {Operands'[1].e, Operands'[2].e}
                       /\ ~Reversed' /\ ~Vanishes' => CloseTo(result)')
  BY DEF SumsAreClose, CloseTo, Exact
<1>. QED BY <1>1, <1>2, <1>4, <1>5, <1>6 DEF Returned

LEMMA OtherSums ==
  FloatInv /\ Next /\ pc' = "done" => \/ AddSpecial \/ AddMagnitudes \/ Subtract \/ Normalise
                                      \/ call.op \notin Sums
BY DEF Next, AddEnter, Align, MulSpecial, MulEnter, MulLoop, MulEnd, DivSpecial, DivEnter, DivLoop,
       DivEnd, Compare, ItofZero, ItofEnter, ItofLoop, FtoiZero, FtoiEnter, FtoiLoop, FtoiEnd,
       Return, Continue, Enters, FloatInv, AlignInv, NormInv, MulInv, DivInv, ItofInv, FtoiInv

LEMMA SumsKept == FloatInv /\ Next => SumsAreClose'
<1>. SUFFICES ASSUME FloatInv, Next PROVE SumsAreClose'
  OBVIOUS
<1>1. call' = call /\ call \in AnyCall
  BY NextSameCall DEF FloatInv
<1>2. CASE pc' # "done"
  BY <1>2 DEF SumsAreClose, Returned
<1>3. CASE call.op \notin Sums
  BY <1>1, <1>3, CloseResult
<1>. DEFINE x == Operands[1]
            y == Operands[2]
            v == result'
            scale == CHOOSE e \in {x.e, y.e, v.e} : \A d \in {x.e, y.e, v.e} : d <= e
<1>4. call.op \in Sums => x = call.a /\ y = Addend /\ x \in Float /\ y \in Float
  BY <1>1, Summands DEF Operands
<1>5. CASE AddSpecial
  <2>1. call.op \in Sums /\ x = call.a /\ y = Addend /\ x \in Float /\ y \in Float
    BY <1>4, <1>5 DEF AddSpecial, Enters
  <2>2. CASE ExpMax \in {x.e, y.e}
    BY <1>1, <2>2, CloseResult
  <2>3. CASE ExpMax \notin {x.e, y.e}
    <3>1. (v = y /\ x.e = 0) \/ (v = x /\ y.e = 0)
      BY <1>5, <2>1, <2>3 DEF AddSpecial, Return
    <3>2. /\ x.e \in Nat /\ y.e \in Nat /\ v.e \in Nat /\ v \in Float /\ v.e # ExpMax
          /\ ExpMax # 0
      BY <2>1, <2>3, <3>1, FloatFields, Widths
    <3>3. scale \in Nat
      <4>. DEFINE i == x.e
                  j == y.e
                  k == v.e
      <4>1. scale = CHOOSE e \in {i, j, k} : \A d \in {i, j, k} : d <= e
        OBVIOUS
      <4>2. i \in Nat /\ j \in Nat /\ k \in Nat
        BY <3>2
      <4>. HIDE DEF i, j, k, scale
      <4>3. scale \in Nat /\ i <= scale /\ j <= scale /\ k <= scale
        BY <4>1, <4>2, ScaleOf
      <4>. QED BY <4>3 DEF i, j, k
    <3>4. Pow[scale] > 0 /\ Pow[scale] \in Nat
      <4>. HIDE DEF scale
      <4>. QED BY <3>3, PowNat
    <3>5. Exact = Value(x) + Value(y)
      BY DEF Exact
    <3>6. /\ \A f \in Float : f.e = 0 => Value(f) = 0
          /\ Value(v) \in Int
      <4>1. \A f \in Float : f.e = 0 => Value(f) = 0
        BY DEF Value
      <4>2. v.e = 0 \/ v.e >= 1
        BY <3>2
      <4>3. v.e >= 1 => Value(v) \in Int
        BY <3>2, ValueOf, FloatFields DEF Given
      <4>. QED BY <3>2, <4>1, <4>2, <4>3
    <3>. HIDE DEF x, y, v
    <3>7. Exact = Value(v)
      BY <2>1, <3>1, <3>5, <3>6
    <3>8. v.e = 0 => Magnitude(Exact) < 2 * Lead
      BY <3>2, <3>6, <3>7, Sizes DEF Magnitude
    <3>9. Magnitude(Value(v) - Exact) < Pow[scale]
      <4>. HIDE DEF scale
      <4>. QED BY <3>4, <3>6, <3>7 DEF Magnitude
    <3>10. CloseTo(v)
      BY <3>2, <3>8, <3>9 DEF CloseTo, x, y
    <3>. QED BY <1>1, <3>10, CloseResult DEF v
  <2>. QED BY <2>2, <2>3
<1>6. CASE pc' = "done" /\ (AddMagnitudes \/ Subtract \/ Normalise)
  <2>1. /\ call.op \in Sums /\ IsNormal(call.a) /\ IsNormal(Addend) /\ SumCase(v)
    BY <1>6, SumReturned
  <2>2. x = call.a /\ y = Addend /\ x \in Float /\ y \in Float
    BY <1>4, <2>1
  <2>4. CASE Reversed
    BY <1>1, <2>4, CloseResult
  <2>5. CASE Vanishes
    BY <1>1, <2>5, CloseResult
  <2>6. CASE ~Reversed /\ ~Vanishes
    <3>1. v \in Float
      <4>1. FloatInv' /\ call'.op \in Sums /\ pc' = "done"
        BY <1>1, <1>6, <2>1, NextKeeps
      <4>. QED BY <4>1 DEF FloatInv, ResultInv
    <3>2. x.e \in Nat /\ y.e \in Nat /\ v.e \in Nat
      BY <2>2, <3>1, FloatFields
    <3>3. scale \in Nat /\ x.e <= scale /\ y.e <= scale /\ v.e <= scale
      <4>. DEFINE i == x.e
                  j == y.e
                  k == v.e
      <4>1. scale = CHOOSE e \in {i, j, k} : \A d \in {i, j, k} : d <= e
        OBVIOUS
      <4>2. i \in Nat /\ j \in Nat /\ k \in Nat
        BY <3>2
      <4>. HIDE DEF i, j, k, scale
      <4>3. scale \in Nat /\ i <= scale /\ j <= scale /\ k <= scale
        BY <4>1, <4>2, ScaleOf
      <4>. QED BY <4>3 DEF i, j, k
    <3>4. Larger.e <= scale
      BY <2>2, <3>3 DEF Larger, Ordered
    <3>. HIDE DEF scale
    <3>5. /\ v.e = ExpMax => Magnitude(Exact) >= SigSpace * Pow[ExpMax - 1]
          /\ v.e = 0 => Magnitude(Exact) < 2 * Lead
          /\ v.e \notin {0, ExpMax} => Magnitude(Value(v) - Exact) < Pow[scale]
      BY <1>1, <2>1, <2>2, <2>6, <3>3, <3>4, SumClose
    <3>. HIDE DEF x, y, v
    <3>6. ExpMax # 0
      BY Widths
    <3>7. CloseTo(v)
      BY <3>5, <3>6 DEF CloseTo, scale, x, y
    <3>. QED BY <1>1, <3>7, CloseResult DEF v
  <2>. QED BY <2>4, <2>5, <2>6
<1>. QED BY <1>2, <1>3, <1>5, <1>6, OtherSums

(***************************************************************************)
(* Operands that are no normal numbers.                                    *)
(***************************************************************************)
\* What the classes of operands say, and the special numbers as records.
LEMMA ClassFacts ==
  ASSUME NEW f \in Float
  PROVE  /\ (f.e = 0) = (Classify(f) = "zero")
         /\ (f.e = ExpMax) = (Classify(f) \in {"inf", "nan"})
         /\ Classify(f) \in {"zero", "inf", "nan", "normal"}
         /\ Classify(f) = "inf" => f = Inf(f.s)
<1>1. /\ f.e \in Nat /\ f.e <= ExpMax /\ ExpMax \in Nat /\ ExpMax > 0 /\ f.s \in {0, 1}
      /\ f = [s |-> f.s, e |-> f.e, sig |-> f.sig]
  BY FloatFields, Widths
<1>2. CASE f.e = 0
  BY <1>1, <1>2 DEF Classify
<1>3. CASE f.e = ExpMax /\ f.sig = 0
  <2>1. f = Inf(f.s) /\ Classify(f) = "inf"
    BY <1>1, <1>3, Extremes DEF Classify
  <2>. QED BY <1>1, <1>3, <2>1
<1>4. CASE f.e = ExpMax /\ f.sig # 0
  BY <1>1, <1>4 DEF Classify
<1>5. CASE f.e # 0 /\ f.e # ExpMax
  BY <1>1, <1>5 DEF Classify
<1>. QED BY <1>2, <1>3, <1>4, <1>5

\* NaN is neither a zero nor an infinity, and what fits is a number.
LEMMA NumbersFit ==
  /\ NaN.e = ExpMax /\ NaN.sig # 0 /\ ExpMax # 0
  /\ \A s : Inf(s) # NaN /\ Zero(s) # NaN
  /\ \A s : \A e \in Int : \A sig : Fit(s, e, sig) # NaN
<1>1. /\ ExpMax \in Nat /\ ExpMax > 0 /\ SigSpace \in Nat /\ SigSpace > 0
      /\ Lead \in Nat /\ Lead > 0 /\ Lead < SigSpace
  BY Widths, Sizes
<1>2. /\ ExpMax % (ExpMax + 1) = ExpMax /\ 0 % (ExpMax + 1) = 0
      /\ Lead % SigSpace = Lead /\ 0 % SigSpace = 0
  BY <1>1
<1>3. NaN.e = ExpMax /\ NaN.sig = Lead
  BY <1>2 DEF NaN, Pack
<1>4. \A s : Inf(s).sig = 0 /\ Zero(s).e = 0
  BY <1>2 DEF Inf, Zero, Pack
<1>5. \A s : Inf(s) # NaN /\ Zero(s) # NaN
  BY <1>1, <1>3, <1>4
<1>6. ASSUME NEW s, NEW e \in Int, NEW sig PROVE Fit(s, e, sig) # NaN
  <2>1. CASE e >= ExpMax
    BY <1>1, <1>5, <2>1 DEF Fit
  <2>2. CASE e <= 0
    BY <1>1, <1>5, <2>2 DEF Fit
  <2>3. CASE e > 0 /\ e < ExpMax
    <3>1. Fit(s, e, sig) = Pack(s, e, sig) /\ e % (ExpMax + 1) = e
      BY <1>1, <2>3 DEF Fit
    <3>2. Fit(s, e, sig).e = e
      BY <3>1 DEF Pack
    <3>. QED BY <1>1, <1>3, <2>3, <3>2
  <2>. QED BY <1>1, <2>1, <2>2, <2>3
<1>. QED BY <1>1, <1>3, <1>5, <1>6

\* The tests of __fadd in front of the sum choose what the reference chooses.
LEMMA SpecialSums ==
  ASSUME NEW x \in Float, NEW y \in Float, NEW v,
         \/ x.e = ExpMax /\ v = x
         \/ x.e # ExpMax /\ (y.e = ExpMax \/ x.e = 0) /\ v = y
         \/ x.e \notin {0, ExpMax} /\ y.e = 0 /\ v = x
  PROVE  IF FaddBits(x, y) = NaN THEN v = IF x.e = ExpMax THEN x ELSE y
         ELSE SameFloat(v, FaddBits(x, y))
<1>. DEFINE c == Classify(x)
            d == Classify(y)
            F == FaddBits(x, y)
<1>1. /\ (x.e = 0) = (c = "zero") /\ (x.e = ExpMax) = (c \in {"inf", "nan"})
      /\ (y.e = 0) = (d = "zero") /\ (y.e = ExpMax) = (d \in {"inf", "nan"})
      /\ c \in {"zero", "inf", "nan", "normal"} /\ d \in {"zero", "inf", "nan", "normal"}
      /\ c = "inf" => x = Inf(x.s)
      /\ d = "inf" => y = Inf(y.s)
  BY ClassFacts
<1>2. ExpMax # 0
  BY NumbersFit
<1>3. Classes(x, y) = <<c, d>>
  BY DEF Classes
<1>. HIDE DEF c, d
<1>4. <<c, d>> # <<"normal", "normal">>
  BY <1>1
<1>5. F = SpecialSum(x, y)
  BY <1>3, <1>4 DEF FaddBits
<1>. HIDE DEF F
<1>6. CASE c = "nan" \/ d = "nan"
  <2>1. F = NaN
    BY <1>3, <1>5, <1>6 DEF SpecialSum
  <2>2. v = IF x.e = ExpMax THEN x ELSE y
    BY <1>1, <1>2, <1>6
  <2>. QED BY <2>1, <2>2 DEF F
<1>7. CASE c = "inf" /\ d = "inf"
  <2>1. F = IF x.s = y.s THEN Inf(x.s) ELSE NaN
    BY <1>3, <1>5, <1>7 DEF SpecialSum
  <2>2. v = x /\ x = Inf(x.s) /\ x.e = ExpMax
    BY <1>1, <1>7
  <2>. QED BY <2>1, <2>2 DEF SameFloat, F
<1>8. CASE c = "inf" /\ d \in {"zero", "normal"}
  <2>1. F = Inf(x.s)
    BY <1>3, <1>5, <1>8 DEF SpecialSum
  <2>2. v = x /\ x = Inf(x.s) /\ x.e = ExpMax
    BY <1>1, <1>8
  <2>. QED BY <2>1, <2>2 DEF SameFloat, F
<1>9. CASE d = "inf" /\ c \in {"zero", "normal"}
  <2>1. F = Inf(y.s)
    BY <1>3, <1>5, <1>9 DEF SpecialSum
  <2>2. v = y /\ y = Inf(y.s) /\ x.e # ExpMax
    BY <1>1, <1>9
  <2>. QED BY <2>1, <2>2 DEF SameFloat, F
<1>10. CASE c = "zero" /\ d = "zero"
  <2>1. F = Zero(x.s * y.s)
    BY <1>3, <1>5, <1>10 DEF SpecialSum
  <2>2. v = y /\ y.e = 0
    BY <1>1, <1>2, <1>10
  <2>3. F.e = 0 /\ F # NaN
    <3>1. 0 % (ExpMax + 1) = 0
      BY Widths
    <3>. QED BY <2>1, <3>1, NumbersFit DEF Zero, Pack
  <2>. QED BY <2>2, <2>3 DEF SameFloat, F
<1>11. CASE c = "zero" /\ d = "normal"
  <2>1. F = y /\ v = y /\ x.e # ExpMax
    BY <1>1, <1>2, <1>3, <1>5, <1>11 DEF SpecialSum
  <2>. QED BY <2>1 DEF SameFloat, F
<1>12. CASE c = "normal" /\ d = "zero"
  <2>1. F = x /\ v = x /\ x.e # ExpMax
    BY <1>1, <1>2, <1>3, <1>5, <1>12 DEF SpecialSum
  <2>2. F # NaN
    BY <2>1, NumbersFit
  <2>. QED BY <2>1, <2>2 DEF SameFloat, F
<1>. QED BY <1>1, <1>4, <1>6, <1>7, <1>8, <1>9, <1>10, <1>11, <1>12

\* A factor or divisor cut to its first word keeps sign and exponent.
LEMMA CutKeeps ==
  ASSUME NEW f \in Float
  PROVE  /\ Cut(f).s = f.s /\ Cut(f).e = f.e
         /\ (f.e = 0) = (Classify(Cut(f)) = "zero")
         /\ (f.e = ExpMax) = (Classify(Cut(f)) \in {"inf", "nan"})
         /\ Classify(Cut(f)) \in {"zero", "inf", "nan", "normal"}
<1>1. /\ f.e \in Nat /\ f.e <= ExpMax /\ ExpMax \in Nat /\ ExpMax > 0
      /\ f = [s |-> f.s, e |-> f.e, sig |-> f.sig]
  BY FloatFields, Widths
<1>. DEFINE n == High(f.sig) * Space2
<1>2. Cut(f) = [s |-> f.s, e |-> f.e, sig |-> n]
  BY <1>1 DEF Cut
<1>. HIDE DEF n
<1>3. CASE f.e = 0
  BY <1>1, <1>2, <1>3 DEF Classify
<1>4. CASE f.e = ExpMax
  <2>1. Classify(Cut(f)) \in {"inf", "nan"}
    BY <1>1, <1>2, <1>4 DEF Classify
  <2>. QED BY <1>1, <1>2, <1>4, <2>1
<1>5. CASE f.e # 0 /\ f.e # ExpMax
  <2>1. Classify(Cut(f)) = "normal"
    BY <1>1, <1>2, <1>5 DEF Classify
  <2>. QED BY <1>1, <1>2, <1>5, <2>1
<1>. QED BY <1>3, <1>4, <1>5

\* Signs are added by the reference and combined by the runtime.
LEMMA SameSign ==
  ASSUME NEW s, s % 2 = Sign, Sign \in {0, 1}
  PROVE  Inf(s) = Inf(Sign) /\ Zero(s).e = 0
<1>1. Sign % 2 = Sign
  OBVIOUS
<1>2. 0 % (ExpMax + 1) = 0
  BY Widths
<1>. QED BY <1>1, <1>2 DEF Inf, Zero, Pack

LEMMA CutInfinite == Cut(Inf(Sign)) = Inf(Sign)
<1>1. 0 \div Space2 = 0 /\ 0 * Space2 = 0 /\ 0 % SigSpace = 0
  BY Sizes
<1>2. Inf(Sign).sig = 0 /\ Inf(Sign) = [s |-> Inf(Sign).s, e |-> Inf(Sign).e, sig |-> 0]
  BY <1>1 DEF Inf, Pack
<1>3. High(0) * Space2 = 0
  BY <1>1 DEF High
<1>. QED BY <1>2, <1>3 DEF Cut

LEMMA SpecialProducts ==
  ASSUME NEW x \in Float, NEW y \in Float, NEW v, (x.s + y.s) % 2 = Sign, Sign \in {0, 1},
         \/ (x.e = 0 \/ y.e = 0) /\ v = Zero(0)
         \/ x.e # 0 /\ y.e # 0 /\ ExpMax \in {x.e, y.e} /\ v = Inf(Sign)
  PROVE  IF FmulBits(Cut(x), Cut(y)) = NaN
         THEN v = IF 0 \in {x.e, y.e} THEN Zero(0) ELSE Inf(Sign)
         ELSE SameFloat(v, FmulBits(Cut(x), Cut(y)))
<1>. DEFINE f == Cut(x)
            g == Cut(y)
            c == Classify(f)
            d == Classify(g)
            F == FmulBits(f, g)
<1>1. /\ (x.e = 0) = (c = "zero") /\ (x.e = ExpMax) = (c \in {"inf", "nan"})
      /\ (y.e = 0) = (d = "zero") /\ (y.e = ExpMax) = (d \in {"inf", "nan"})
      /\ c \in {"zero", "inf", "nan", "normal"} /\ d \in {"zero", "inf", "nan", "normal"}
      /\ f.s = x.s /\ g.s = y.s
  BY CutKeeps
<1>2. Classes(f, g) = <<c, d>> /\ ExpMax # 0
  BY NumbersFit DEF Classes
<1>3. Inf(f.s + g.s) = Inf(Sign) /\ Zero(f.s + g.s).e = 0 /\ Zero(0).e = 0
  BY <1>1, SameSign, Extremes
<1>. HIDE DEF f, g, c, d
<1>4. /\ (c = "nan" \/ d = "nan" \/ <<c, d>> \in {<<"zero", "inf">>, <<"inf", "zero">>}) => F = NaN
      /\ <<c, d>> \in {<<"inf", "inf">>, <<"inf", "normal">>, <<"normal", "inf">>}
           => F = Inf(f.s + g.s)
      /\ <<c, d>> \in {<<"zero", "zero">>, <<"zero", "normal">>, <<"normal", "zero">>}
           => F = Zero(f.s + g.s)
  BY <1>2 DEF FmulBits
<1>. HIDE DEF F
<1>5. v = IF 0 \in {x.e, y.e} THEN Zero(0) ELSE Inf(Sign)
  BY <1>2
<1>6. CASE F = NaN
  BY <1>5, <1>6 DEF F, f, g
<1>7. CASE F # NaN /\ (c = "zero" \/ d = "zero")
  <2>1. F = Zero(f.s + g.s)
    BY <1>1, <1>4, <1>7
  <2>2. v = Zero(0)
    BY <1>1, <1>5, <1>7
  <2>. QED BY <1>3, <1>7, <2>1, <2>2 DEF SameFloat, F, f, g
<1>8. CASE F # NaN /\ c # "zero" /\ d # "zero"
  <2>1. x.e # 0 /\ y.e # 0 /\ ExpMax \in {x.e, y.e}
    BY <1>1, <1>8
  <2>2. F = Inf(f.s + g.s)
    BY <1>1, <1>4, <1>8, <2>1
  <2>3. v = Inf(Sign)
    BY <1>5, <2>1
  <2>. QED BY <1>3, <1>8, <2>2, <2>3 DEF SameFloat, F, f, g
<1>. QED BY <1>6, <1>7, <1>8

LEMMA SpecialQuotients ==
  ASSUME NEW x \in Float, NEW y \in Float, NEW v, (x.s + y.s) % 2 = Sign, Sign \in {0, 1},
         \/ y.e = 0 /\ v = Inf(Sign)
         \/ y.e # 0 /\ x.e = 0 /\ v = Zero(0)
         \/ y.e # 0 /\ x.e = ExpMax /\ v = Inf(Sign)
         \/ y.e = ExpMax /\ x.e \notin {0, ExpMax} /\ v = Zero(0)
  PROVE  IF FdivBits(Cut(x), Cut(y)) = NaN
         THEN v = IF y.e = 0 \/ x.e = ExpMax THEN Inf(Sign) ELSE Zero(0)
         ELSE SameFloat(v, Cut(FdivBits(Cut(x), Cut(y))))
<1>. DEFINE f == Cut(x)
            g == Cut(y)
            c == Classify(f)
            d == Classify(g)
            F == FdivBits(f, g)
<1>1. /\ (x.e = 0) = (c = "zero") /\ (x.e = ExpMax) = (c \in {"inf", "nan"})
      /\ (y.e = 0) = (d = "zero") /\ (y.e = ExpMax) = (d \in {"inf", "nan"})
      /\ c \in {"zero", "inf", "nan", "normal"} /\ d \in {"zero", "inf", "nan", "normal"}
      /\ f.s = x.s /\ g.s = y.s
  BY CutKeeps
<1>2. Classes(f, g) = <<c, d>> /\ ExpMax # 0
  BY NumbersFit DEF Classes
<1>3. /\ Inf(f.s + g.s) = Inf(Sign) /\ Zero(f.s + g.s).e = 0 /\ Zero(0).e = 0
  BY <1>1, SameSign, Extremes
<1>. HIDE DEF f, g, c, d
<1>4. /\ (c = "nan" \/ d = "nan" \/ <<c, d>> \in {<<"zero", "zero">>, <<"inf", "inf">>}) => F = NaN
      /\ <<c, d>> \in {<<"normal", "zero">>, <<"inf", "zero">>, <<"inf", "normal">>}
           => F = Inf(f.s + g.s)
      /\ <<c, d>> \in {<<"zero", "normal">>, <<"zero", "inf">>, <<"normal", "inf">>}
           => F = Zero(f.s + g.s)
  BY <1>2 DEF FdivBits
<1>. HIDE DEF F
<1>5. v = IF y.e = 0 \/ x.e = ExpMax THEN Inf(Sign) ELSE Zero(0)
  BY <1>2
<1>6. CASE F = NaN
  BY <1>5, <1>6 DEF F, f, g
<1>7. CASE F # NaN /\ (d = "zero" \/ c = "inf")
  <2>1. F = Inf(f.s + g.s)
    BY <1>1, <1>4, <1>7
  <2>2. v = Inf(Sign)
    BY <1>1, <1>5, <1>7
  <2>3. Cut(Inf(Sign)) = Inf(Sign)
    BY CutInfinite
  <2>. QED BY <1>3, <1>7, <2>1, <2>2, <2>3 DEF SameFloat, F, f, g
<1>8. CASE F # NaN /\ d # "zero" /\ c # "inf"
  <2>1. y.e # 0 /\ x.e # ExpMax
    BY <1>1, <1>4, <1>8
  <2>2. c \in {"zero", "normal"} /\ d \in {"normal", "inf"} /\ ~(c = "normal" /\ d = "normal")
    BY <1>1, <1>2, <1>4, <1>8
  <2>3. F = Zero(f.s + g.s)
    BY <1>4, <2>2
  <2>4. v = Zero(0)
    BY <1>5, <2>1
  <2>5. Cut(F).e = F.e
    BY DEF Cut
  <2>. QED BY <1>3, <1>8, <2>3, <2>4, <2>5 DEF SameFloat, F, f, g
<1>. QED BY <1>6, <1>7, <1>8

LEMMA SumIsNumber ==
  ASSUME call \in AnyCall, call.op \in Sums, IsNormal(call.a), IsNormal(Addend)
  PROVE  FaddBits(call.a, Addend) # NaN
<1>. DEFINE e == Larger.e
            k == Shift(Difference)
<1>1. e \in Int /\ Difference \in Nat /\ Difference < SigSpace
  BY Summands, Aligning, FloatFields
<1>2. Larger.sig # Kept => k \in Nat
  BY <1>1, NoDifference, ShiftFinds
<1>. HIDE DEF k
<1>3. Larger.sig # Kept => e - k \in Int
  BY <1>1, <1>2
<1>4. e + 1 \in Int
  BY <1>1
<1>. QED BY <1>1, <1>3, <1>4, ReferenceSum, NumbersFit DEF k

(***************************************************************************)
(* Products and quotients.                                                 *)
(***************************************************************************)
\* An exponent below zero wraps to one that is too large.
LEMMA CheckedFits ==
  ASSUME Sign \in {0, 1}, NEW s \in Int, s % 2 = Sign, NEW e \in Int, 1 - ExpMax <= e, e < ExpSpace,
         NEW sig \in Nat, sig < SigSpace
  PROVE  /\ e < 0 => Checked(e % ExpSpace, sig) = Inf(Sign)
         /\ e = 0 => Checked(e % ExpSpace, sig).e = 0 /\ Fit(s, e, sig) = Zero(Sign)
         /\ e > 0 => Checked(e % ExpSpace, sig) = Fit(s, e, sig)
         /\ e >= ExpMax => Fit(s, e, sig) = Inf(Sign)
         /\ e > 0 /\ e < ExpMax => Fit(s, e, sig) = [s |-> Sign, e |-> e, sig |-> sig]
<1>. DEFINE m == e % ExpSpace
<1>1. ExpMax \in Nat /\ ExpMax > 0 /\ ExpSpace = 2 * (ExpMax + 1)
  BY Widths
<1>2. e < 0 => m = e + ExpSpace /\ m > ExpMax
  BY <1>1
<1>3. e >= 0 => m = e
  BY <1>1
<1>4. Sign % 2 = Sign
  OBVIOUS
<1>5. \A k, n : Pack(s, k, n) = Pack(Sign, k, n)
  BY <1>4 DEF Pack
<1>6. Inf(s) = Inf(Sign) /\ Zero(s) = Zero(Sign) /\ Zero(0).e = 0
  BY <1>5, Extremes DEF Inf, Zero
<1>. HIDE DEF m
<1>7. CASE e < 0
  BY <1>1, <1>2, <1>7 DEF Checked, m
<1>8. CASE e = 0
  BY <1>1, <1>3, <1>6, <1>8 DEF Checked, Fit, m
<1>9. CASE e > 0 /\ e < ExpMax
  <2>1. m = e /\ m # 0 /\ ~(m >= ExpMax) /\ ~(e >= ExpMax) /\ ~(e <= 0) /\ e \in Nat /\ e <= ExpMax
    BY <1>1, <1>3, <1>9
  <2>2. Checked(m, sig) = Pack(Sign, e, sig) /\ Fit(s, e, sig) = Pack(s, e, sig)
    BY <2>1 DEF Checked, Fit
  <2>. QED BY <1>1, <1>5, <1>9, <2>1, <2>2, Packed DEF m
<1>10. CASE e >= ExpMax
  <2>1. m = e /\ m # 0 /\ m >= ExpMax /\ ~(e <= 0)
    BY <1>1, <1>3, <1>10
  <2>. QED BY <1>1, <1>6, <1>10, <2>1 DEF Checked, Fit, m
<1>. QED BY <1>1, <1>7, <1>8, <1>9, <1>10

\* The operands as __fmul and __fdiv see them.
LEMMA CutOperands ==
  ASSUME call \in AnyCall, call.op \in {"fmul", "fdiv"}, IsNormal(call.a), IsNormal(call.b)
  PROVE  /\ Operands[1] = call.a /\ Operands[2] = call.b
         /\ Cut(call.a) = [s |-> call.a.s, e |-> call.a.e, sig |-> High(call.a.sig) * Space2]
         /\ Cut(call.b) = [s |-> call.b.s, e |-> call.b.e, sig |-> High(call.b.sig) * Space2]
         /\ Classes(Cut(call.a), Cut(call.b)) = <<"normal", "normal">>
         /\ call.a.s + call.b.s \in Int /\ (call.a.s + call.b.s) % 2 = Sign /\ Sign \in {0, 1}
<1>. DEFINE f == call.a
            g == call.b
<1>1. /\ f = [s |-> f.s, e |-> f.e, sig |-> f.sig] /\ g = [s |-> g.s, e |-> g.e, sig |-> g.sig]
      /\ f.s \in {0, 1} /\ g.s \in {0, 1}
      /\ f.e \in Nat /\ f.e >= 1 /\ f.e < ExpMax /\ g.e \in Nat /\ g.e >= 1 /\ g.e < ExpMax
      /\ Sign \in {0, 1}
  BY Operand, FloatFields, FirstWords
<1>2. Sign = (f.s + g.s) % 2
  BY DEF Sign
<1>3. Operands[1] = f /\ Operands[2] = g
  BY DEF Operands
<1>. HIDE DEF f, g
<1>4. /\ Cut(f) = [s |-> f.s, e |-> f.e, sig |-> High(f.sig) * Space2]
      /\ Cut(g) = [s |-> g.s, e |-> g.e, sig |-> High(g.sig) * Space2]
  BY <1>1 DEF Cut
<1>5. Classify(Cut(f)) = "normal" /\ Classify(Cut(g)) = "normal"
  BY <1>1, <1>4, Widths DEF Classify
<1>6. Classes(Cut(f), Cut(g)) = <<"normal", "normal">>
  BY <1>5 DEF Classes
<1>. QED BY <1>1, <1>2, <1>3, <1>4, <1>6 DEF f, g

\* A product of first words, as the reference places it.
LEMMA ProductWords ==
  ASSUME NEW x \in Nat, NEW y \in Nat, x * y < Space2
  PROVE  LET product == (x * Space2) * (y * Space2)
         IN  /\ (product >= SigSpace * Lead) = (x * y >= Half * Space)
             /\ product \div SigSpace = (x * y) * Space
             /\ product \div Lead = (2 * (x * y)) * Space
<1>. DEFINE h == Half
            w == Space
            d == Space2
            v == x * y
            product == (x * d) * (y * d)
<1>1. /\ h \in Nat /\ w \in Nat /\ d \in Nat /\ h > 0 /\ w > 0 /\ d > 0 /\ w = 2 * h /\ d = w * w
      /\ SigSpace = w * d /\ Lead = h * d /\ SigSpace \in Nat /\ SigSpace > 0
      /\ Lead \in Nat /\ Lead > 0
  BY Sizes
<1>2. v \in Nat
  OBVIOUS
<1>3. product = v * (d * d) /\ d * d \in Nat /\ d * d > 0
  <2>. HIDE DEF d
  <2>1. (x * d) * (y * d) = (x * y) * (d * d)
    BY <1>1
  <2>2. d * d \in Nat /\ d * d >= d
    BY <1>1, MulGrows
  <2>. QED BY <1>1, <2>1, <2>2
<1>. HIDE DEF h, w, d, v, product
<1>4. SigSpace * Lead = (h * w) * (d * d) /\ h * w \in Nat
  <2>1. (w * d) * (h * d) = (h * w) * (d * d)
    BY <1>1
  <2>. QED BY <1>1, <2>1
<1>5. d * d = w * (w * d)
  <2>1. (w * w) * d = w * (w * d)
    BY <1>1
  <2>. QED BY <1>1, <2>1
<1>6. d * d = (2 * w) * (h * d)
  <2>1. w * (w * d) = (2 * w) * (h * d)
    <3>1. w * ((2 * h) * d) = (2 * w) * (h * d)
      BY <1>1
    <3>. QED BY <1>1, <3>1
  <2>. QED BY <1>5, <2>1
<1>7. (product >= SigSpace * Lead) = (v >= h * w)
  <2>. DEFINE z == d * d
              t == h * w
  <2>1. z \in Nat /\ z > 0 /\ t \in Nat /\ product = v * z /\ SigSpace * Lead = t * z
    BY <1>3, <1>4
  <2>. HIDE DEF z, t
  <2>2. (t * z <= v * z) = (t <= v)
    BY <1>2, <2>1, MulStrict
  <2>3. v * z \in Nat /\ t * z \in Nat
    BY <1>2, <2>1
  <2>. QED BY <1>2, <2>1, <2>2, <2>3 DEF t
<1>8. product \div SigSpace = v * w
  <2>1. product = (v * w) * SigSpace + 0 /\ v * w \in Nat
    <3>1. v * (w * (w * d)) = (v * w) * (w * d) /\ v * w \in Nat /\ (v * w) * (w * d) \in Nat
      BY <1>1, <1>2
    <3>. QED BY <1>1, <1>3, <1>5, <3>1
  <2>. DEFINE q == v * w
              sp == SigSpace
  <2>2. product = q * sp + 0 /\ q \in Nat /\ sp \in Nat /\ sp > 0
    BY <1>1, <2>1
  <2>. HIDE DEF q, sp
  <2>3. q = product \div sp
    <3>1. product \in Int /\ 0 \in Nat /\ 0 < sp
      BY <2>2
    <3>. QED BY <2>2, <3>1, DivUnique
  <2>. QED BY <2>3 DEF q, sp
<1>9. product \div Lead = (2 * v) * w
  <2>1. product = ((2 * v) * w) * Lead + 0 /\ (2 * v) * w \in Nat
    <3>1. v * ((2 * w) * (h * d)) = ((2 * v) * w) * (h * d) /\ (2 * v) * w \in Nat
          /\ ((2 * v) * w) * (h * d) \in Nat
      BY <1>1, <1>2
    <3>. QED BY <1>1, <1>3, <1>6, <3>1
  <2>. DEFINE q == (2 * v) * w
              sp == Lead
  <2>2. product = q * sp + 0 /\ q \in Nat /\ sp \in Nat /\ sp > 0
    BY <1>1, <2>1
  <2>. HIDE DEF q, sp
  <2>3. q = product \div sp
    <3>1. product \in Int /\ 0 \in Nat /\ 0 < sp
      BY <2>2
    <3>. QED BY <2>2, <3>1, DivUnique
  <2>. QED BY <2>3 DEF q, sp
<1>. QED BY <1>7, <1>8, <1>9 DEF product, v, w, d, h

LEMMA MulAgrees ==
  ASSUME FloatInv, MulEnd
  PROVE  /\ FmulBits(Cut(call.a), Cut(call.b)) # NaN
         /\ \/ SameFloat(result', FmulBits(Cut(call.a), Cut(call.b)))
            \/ result' = Inf(Sign) /\ call.a.e + call.b.e < Bias
<1>. DEFINE f == call.a
            g == call.b
            x == High(f.sig)
            y == High(g.sig)
            s == f.s + g.s
            F == FmulBits(Cut(f), Cut(g))
            product == (x * Space2) * (y * Space2)
<1>1. /\ call \in AnyCall /\ call.op = "fmul" /\ IsNormal(f) /\ IsNormal(g)
      /\ acc \in Nat /\ acc = x * y /\ acc < Space2 /\ Half * Space <= 2 * acc
  BY Multiplied DEF MulEnd
<1>2. /\ x \in Nat /\ y \in Nat
      /\ f.e \in Nat /\ f.e >= 1 /\ f.e < ExpMax /\ g.e \in Nat /\ g.e >= 1 /\ g.e < ExpMax
  BY <1>1, FirstWords
<1>3. /\ Cut(f) = [s |-> f.s, e |-> f.e, sig |-> x * Space2]
      /\ Cut(g) = [s |-> g.s, e |-> g.e, sig |-> y * Space2]
      /\ Classes(Cut(f), Cut(g)) = <<"normal", "normal">>
      /\ s \in Int /\ s % 2 = Sign /\ Sign \in {0, 1}
  BY <1>1, CutOperands
<1>. DEFINE e == f.e + g.e - Bias
            up == e + 1
<1>4. /\ product >= SigSpace * Lead <=> acc >= Half * Space
      /\ product \div SigSpace = acc * Space
      /\ product \div Lead = (2 * acc) * Space
  BY <1>1, <1>2, ProductWords
<1>5. F = IF product >= SigSpace * Lead THEN Fit(s, up, product \div SigSpace)
                                        ELSE Fit(s, e, product \div Lead)
  <2>. HIDE DEF f, g, x, y
  <2>. QED BY <1>3 DEF FmulBits
<1>6. /\ e \in Int /\ up \in Int /\ 1 - ExpMax <= e /\ 1 - ExpMax <= up /\ e < ExpSpace /\ up < ExpSpace
      /\ (e < 0 => f.e + g.e < Bias) /\ (up < 0 => e < 0)
  BY <1>2, Widths
<1>7. \/ /\ acc >= Half * Space /\ result' = Checked(up % ExpSpace, acc * Space)
         /\ F = Fit(s, up, acc * Space)
      \/ /\ ~(acc >= Half * Space) /\ result' = Checked(e % ExpSpace, (2 * acc) * Space)
         /\ F = Fit(s, e, (2 * acc) * Space)
  <2>1. Space2 \div 2 = Half * Space
    BY Sizes
  <2>. HIDE DEF product, F
  <2>. QED BY <1>4, <1>5, <2>1 DEF MulEnd, Return
<1>. HIDE DEF f, g, x, y, s, F, product, e, up
<1>7a. F # NaN
  BY <1>5, <1>6, NumbersFit
<1>8. ASSUME NEW k \in Int, 1 - ExpMax <= k, k < ExpSpace, k < 0 => e < 0,
             NEW n \in Nat, n < SigSpace, result' = Checked(k % ExpSpace, n), F = Fit(s, k, n)
      PROVE  SameFloat(result', F) \/ (result' = Inf(Sign) /\ e < 0)
  <2>1. /\ k < 0 => result' = Inf(Sign)
        /\ k = 0 => result'.e = 0 /\ F.e = 0
        /\ k > 0 => result' = F
    BY <1>3, <1>8, CheckedFits, Extremes
  <2>. QED BY <1>8, <2>1 DEF SameFloat
<1>9. CASE /\ acc >= Half * Space /\ result' = Checked(up % ExpSpace, acc * Space)
           /\ F = Fit(s, up, acc * Space)
  <2>. DEFINE n == acc * Space
  <2>1. n \in Nat /\ n < SigSpace
    BY <1>1, <1>9, Normed
  <2>. HIDE DEF n
  <2>2. result' = Checked(up % ExpSpace, n) /\ F = Fit(s, up, n)
    BY <1>9 DEF n
  <2>3. SameFloat(result', F) \/ (result' = Inf(Sign) /\ e < 0)
    BY <1>6, <1>8, <2>1, <2>2
  <2>. QED BY <1>6, <1>7a, <2>3 DEF F, f, g
<1>10. CASE /\ ~(acc >= Half * Space) /\ result' = Checked(e % ExpSpace, (2 * acc) * Space)
            /\ F = Fit(s, e, (2 * acc) * Space)
  <2>. DEFINE m == 2 * acc
              n == m * Space
              t == Half * Space
  <2>0. t \in Nat /\ Space2 = 2 * t
    <3>1. Space2 \div 2 = t /\ Half \in Nat /\ Space \in Nat /\ Space = 2 * Half /\ Space2 = Space * Space
      BY Sizes
    <3>2. (2 * Half) * Space = 2 * (Half * Space) /\ Half * Space \in Nat
      BY <3>1
    <3>. QED BY <3>1, <3>2
  <2>1. m \in Nat /\ t <= m /\ m < Space2
    <3>. HIDE DEF t
    <3>. QED BY <1>1, <1>10, <2>0 DEF t
  <2>. HIDE DEF m
  <2>2. n \in Nat /\ n < SigSpace
    BY <2>1, Normed
  <2>. HIDE DEF n
  <2>3. result' = Checked(e % ExpSpace, n) /\ F = Fit(s, e, n)
    BY <1>10 DEF n, m
  <2>4. SameFloat(result', F) \/ (result' = Inf(Sign) /\ e < 0)
    BY <1>6, <1>8, <2>2, <2>3
  <2>. QED BY <1>6, <1>7a, <2>4 DEF F, f, g
<1>. QED BY <1>7, <1>9, <1>10

\* A quotient of first words, as the reference places it.
LEMMA QuotientWords ==
  ASSUME NEW x \in Nat, NEW y \in Nat, y > 0, x < 2 * y
  PROVE  LET q == ((x * Space2) * SigSpace) \div (y * Space2)
             m == (x * Half) \div y
         IN  /\ q \in Nat /\ q \div 2 \in Nat /\ q \div 2 < SigSpace /\ m \in Nat
             /\ (q >= SigSpace) = (m >= Half)
             /\ High(q \div 2) = m
             /\ High(q) \in {2 * m, 2 * m + 1}
<1>. DEFINE d == Space2
            S == SigSpace
            h == Half
            w == Space
            q == ((x * d) * S) \div (y * d)
            m == (x * h) \div y
            xs == x * S
            xh == x * h
            yd == y * d
            u == q \div d
<1>1. /\ d \in Nat /\ d > 0 /\ S \in Nat /\ S > 0 /\ h \in Nat /\ h > 0 /\ w \in Nat /\ w > 0
      /\ w = 2 * h /\ S = w * d
  BY Sizes
<1>. HIDE DEF d, S, h, w
<1>2. xs \in Nat /\ xh \in Nat /\ yd \in Nat /\ yd > 0
  BY <1>1, MulGrows
<1>3. q = xs \div y
  <2>1. (x * d) * S = xs * d
    BY <1>1
  <2>. HIDE DEF xs
  <2>. QED BY <1>1, <1>2, <2>1, Cancelled
<1>4. u = (2 * xh) \div y
  <2>1. (xs \div y) \div d = xs \div yd
    <3>. HIDE DEF xs
    <3>. QED BY <1>1, <1>2, DivTwice
  <2>2. xs = (2 * xh) * d
    <3>1. x * ((2 * h) * d) = (2 * (x * h)) * d
      BY <1>1
    <3>. QED BY <1>1, <3>1
  <2>. HIDE DEF xs, xh, q
  <2>3. ((2 * xh) * d) \div (y * d) = (2 * xh) \div y
    <3>1. 2 * xh \in Nat
      BY <1>2
    <3>. QED BY <1>1, <3>1, Cancelled
  <2>. QED BY <1>3, <2>1, <2>2, <2>3
<1>5. q \in Nat /\ m \in Nat /\ m = xh \div y
  <2>1. m = xh \div y
    OBVIOUS
  <2>. HIDE DEF xs, xh, q, m
  <2>. QED BY <1>2, <1>3, <2>1, Parts
<1>6. (q >= S) = (y <= x)
  <2>1. (S <= xs \div y) = (S * y <= xs)
    <3>. HIDE DEF xs
    <3>1. xs \div y \in Int /\ S * y \in Int
      BY <1>1, <1>2, Parts
    <3>2. (S * y <= xs => S <= xs \div y) /\ (S <= xs \div y => S * y <= xs)
      BY <1>1, <1>2, QuotientBounds
    <3>. QED BY <3>2
  <2>2. S * y = y * S
    BY <1>1
  <2>3. (y * S <= x * S) = (y <= x)
    BY <1>1, MulStrict
  <2>. HIDE DEF q
  <2>. QED BY <1>1, <1>3, <1>5, <2>1, <2>2, <2>3
<1>7. (m >= h) = (y <= x)
  <2>1. (h <= xh \div y) = (h * y <= xh)
    <3>. HIDE DEF xh
    <3>2. (h * y <= xh => h <= xh \div y) /\ (h <= xh \div y => h * y <= xh)
      BY <1>1, <1>2, QuotientBounds
    <3>. QED BY <3>2
  <2>2. h * y = y * h
    BY <1>1
  <2>3. (y * h <= x * h) = (y <= x)
    BY <1>1, MulStrict
  <2>. QED BY <1>1, <1>5, <2>1, <2>2, <2>3
<1>8. q < 2 * S
  <2>1. x * S < (2 * y) * S /\ (2 * y) * S = (2 * S) * y
    BY <1>1, MulStrict
  <2>2. xs < (2 * S) * y
    BY <2>1
  <2>. HIDE DEF xs, q
  <2>3. 2 * S \in Int
    BY <1>1
  <2>. QED BY <1>2, <1>3, <2>2, <2>3, QuotientBounds
<1>9. u \in {2 * m, 2 * m + 1}
  <2>. DEFINE t == xh % y
  <2>1. t \in Nat /\ t < y /\ xh = m * y + t
    <3>. HIDE DEF xh, m
    <3>. QED BY <1>2, <1>5, Quotient
  <2>. HIDE DEF t, m, xh
  <2>2. 2 * xh = (2 * m) * y + 2 * t /\ 2 * xh = (2 * m + 1) * y + (2 * t - y)
    <3>1. 2 * (m * y + t) = (2 * m) * y + 2 * t
      BY <1>5, <2>1
    <3>2. (2 * m + 1) * y = (2 * m) * y + y /\ (2 * m) * y \in Nat
      BY <1>5
    <3>. QED BY <2>1, <3>1, <3>2
  <2>. DEFINE z == 2 * xh
  <2>3. z \in Int /\ 2 * m \in Int /\ 2 * m + 1 \in Int
    BY <1>2, <1>5
  <2>4. CASE 2 * t < y
    <3>1. 2 * t \in Nat
      BY <2>1
    <3>. DEFINE k == 2 * m
                t2 == 2 * t
    <3>2. z = k * y + t2 /\ k \in Int /\ t2 \in Nat /\ t2 < y
      BY <2>2, <2>3, <2>4, <3>1
    <3>. HIDE DEF z, k, t2
    <3>3. k = z \div y
      BY <2>3, <3>2, DivUnique
    <3>. QED BY <1>4, <3>3 DEF z, k
  <2>5. CASE ~(2 * t < y)
    <3>. DEFINE k == 2 * m + 1
                t2 == 2 * t - y
    <3>2. z = k * y + t2 /\ k \in Int /\ t2 \in Nat /\ t2 < y
      BY <2>1, <2>2, <2>3, <2>5
    <3>. HIDE DEF z, k, t2
    <3>3. k = z \div y
      BY <2>3, <3>2, DivUnique
    <3>. QED BY <1>4, <3>3 DEF z, k
  <2>. QED BY <2>4, <2>5
<1>10. (q \div 2) \div d = m
  <2>. HIDE DEF q, m
  <2>1. (q \div 2) \div d = q \div (2 * d) /\ (q \div d) \div 2 = q \div (d * 2)
    BY <1>1, <1>5, DivTwice
  <2>2. 2 * d = d * 2
    BY <1>1
  <2>3. u \div 2 = m
    <3>. HIDE DEF u
    <3>. QED BY <1>5, <1>9
  <2>. QED BY <2>1, <2>2, <2>3
<1>11. q \div 2 \in Nat /\ q \div 2 < S
  <2>. HIDE DEF q
  <2>. QED BY <1>1, <1>5, <1>8
<1>12. High(q \div 2) = m /\ High(q) \in {2 * m, 2 * m + 1}
  BY <1>9, <1>10 DEF High, d
<1>13. (q >= S) = (m >= h)
  BY <1>6, <1>7
<1>. QED BY <1>5, <1>11, <1>12, <1>13 DEF q, m, S, h, d

LEMMA NormalQuotient ==
  ASSUME NEW f, NEW g, Classes(f, g) = <<"normal", "normal">>,
         NEW q, (f.sig * SigSpace) \div g.sig = q
  PROVE  FdivBits(f, g) = IF q >= SigSpace THEN Fit(f.s + g.s, f.e - g.e + Bias, q \div 2)
                          ELSE Fit(f.s + g.s, f.e - g.e + Bias - 1, q)
<1>. DEFINE c == Classes(f, g)
<1>1. c[1] = "normal" /\ c[2] = "normal"
  OBVIOUS
<1>2. ~(c[1] = "nan" \/ c[2] = "nan" \/ c \in {<<"zero", "zero">>, <<"inf", "inf">>})
  BY <1>1
<1>3. c \notin {<<"normal", "zero">>, <<"inf", "zero">>, <<"inf", "normal">>}
  BY <1>1
<1>4. c \notin {<<"zero", "normal">>, <<"zero", "inf">>, <<"normal", "inf">>}
  BY <1>1
<1>. HIDE DEF c
<1>. QED BY <1>2, <1>3, <1>4 DEF FdivBits, c

LEMMA DivAgrees ==
  ASSUME FloatInv, DivEnd
  PROVE  LET Q == FdivBits(Cut(call.a), Cut(call.b))
         IN  /\ Q # NaN
             /\ \/ SameFloat(result', Cut(Q))
                \/ result' = Inf(Sign) /\ call.a.e + Bias < call.b.e + 1
                \/ [result' EXCEPT !.sig = @ + Space2] = Cut(Q) /\ Q.sig < SigSpace
<1>. DEFINE f == call.a
            g == call.b
            x == High(f.sig)
            y == High(g.sig)
            s == f.s + g.s
            Q == FdivBits(Cut(f), Cut(g))
            q == ((x * Space2) * SigSpace) \div (y * Space2)
            half == q \div 2
            m == (x * Half) \div y
            e == f.e - g.e + Bias
            under == e - 1
            Agrees == \/ SameFloat(result', Cut(Q))
                      \/ result' = Inf(Sign) /\ under < 0
                      \/ [result' EXCEPT !.sig = @ + Space2] = Cut(Q) /\ Q.sig < SigSpace
<1>1. /\ call \in AnyCall /\ call.op = "fdiv" /\ IsNormal(f) /\ IsNormal(g)
      /\ acc \in Nat /\ acc < Space /\ Half <= 2 * acc /\ acc = m
  BY Divided DEF DivEnd
<1>2. /\ x \in Nat /\ y \in Nat /\ Half <= x /\ x < Space /\ Half <= y /\ y < Space
      /\ f.e \in Nat /\ f.e >= 1 /\ f.e < ExpMax /\ g.e \in Nat /\ g.e >= 1 /\ g.e < ExpMax
  BY <1>1, FirstWords
<1>3. /\ Cut(f) = [s |-> f.s, e |-> f.e, sig |-> x * Space2]
      /\ Cut(g) = [s |-> g.s, e |-> g.e, sig |-> y * Space2]
      /\ Classes(Cut(f), Cut(g)) = <<"normal", "normal">>
      /\ s \in Int /\ s % 2 = Sign /\ Sign \in {0, 1}
  BY <1>1, CutOperands
<1>4. /\ q \in Nat /\ half \in Nat /\ half < SigSpace
      /\ (q >= SigSpace) = (acc >= Half)
      /\ High(half) = acc
      /\ High(q) \in {2 * acc, 2 * acc + 1}
  <2>1. y > 0 /\ x < 2 * y
    BY <1>2, Sizes
  <2>. HIDE DEF x, y
  <2>. QED BY <1>1, <1>2, <2>1, QuotientWords DEF q, half, m
<1>5. Q = IF q >= SigSpace THEN Fit(s, e, half) ELSE Fit(s, under, q)
  <2>. HIDE DEF f, g, x, y
  <2>1. (Cut(f).sig * SigSpace) \div Cut(g).sig = q
    BY <1>3
  <2>2. Cut(f).s + Cut(g).s = s /\ Cut(f).e - Cut(g).e + Bias = e
        /\ Cut(f).e - Cut(g).e + Bias - 1 = under
    <3>1. Cut(f).s = f.s /\ Cut(g).s = g.s /\ Cut(f).e = f.e /\ Cut(g).e = g.e
      BY <1>3
    <3>2. f.e - g.e + Bias - 1 = under
      BY <1>2, Widths
    <3>. QED BY <3>1, <3>2
  <2>. DEFINE cf == Cut(f)
              cg == Cut(g)
  <2>3. /\ (cf.sig * SigSpace) \div cg.sig = q /\ cf.s + cg.s = s
        /\ cf.e - cg.e + Bias = e /\ cf.e - cg.e + Bias - 1 = under
        /\ Classes(cf, cg) = <<"normal", "normal">> /\ Q = FdivBits(cf, cg)
    BY <1>3, <2>1, <2>2
  <2>. HIDE DEF q, s, e, under, cf, cg, Q
  <2>4. FdivBits(cf, cg) = IF q >= SigSpace THEN Fit(cf.s + cg.s, cf.e - cg.e + Bias, q \div 2)
                           ELSE Fit(cf.s + cg.s, cf.e - cg.e + Bias - 1, q)
    BY <2>3, NormalQuotient
  <2>. QED BY <2>3, <2>4 DEF half
<1>6. /\ e \in Int /\ under \in Int /\ 1 - ExpMax <= e /\ 1 - ExpMax <= under
      /\ e < ExpSpace /\ under < ExpSpace
      /\ (under < 0 => f.e + Bias < g.e + 1) /\ (e < 0 => under < 0)
  BY <1>2, Widths
<1>7. \/ /\ acc >= Half /\ result' = Checked(e % ExpSpace, acc * Space2) /\ Q = Fit(s, e, half)
      \/ /\ acc < Half /\ result' = Checked(under % ExpSpace, (2 * acc) * Space2)
         /\ Q = Fit(s, under, q) /\ q < SigSpace
  <2>1. Space \div 2 = Half /\ SigSpace \in Nat
    BY Sizes
  <2>. HIDE DEF q, half, Q
  <2>2. acc >= Half \/ acc < Half
    BY <1>1, Sizes
  <2>. QED BY <1>1, <1>4, <1>5, <2>1, <2>2, Sizes DEF DivEnd, Return
<1>. HIDE DEF f, g, x, y, s, Q, q, half, m, e, under
<1>7a. Q # NaN
  BY <1>5, <1>6, NumbersFit
<1>8. ASSUME NEW k \in Int, 1 - ExpMax <= k, k < ExpSpace, k < 0 => under < 0,
             NEW n \in Nat, n * Space2 < SigSpace, NEW z \in Nat, z < SigSpace,
             High(z) \in {n, n + 1},
             result' = Checked(k % ExpSpace, n * Space2), Q = Fit(s, k, z)
      PROVE  Agrees
  <2>. DEFINE v == n * Space2
  <2>1. v \in Nat /\ v < SigSpace /\ Space2 \in Nat /\ Space2 > 0
    BY <1>8, Sizes
  <2>2. High(0) * Space2 = 0
    <3>1. 0 \div Space2 = 0
      BY <2>1
    <3>. QED BY <2>1, <3>1 DEF High
  <2>3. ExpMax \in Nat /\ ExpMax # 0
    BY Widths
  <2>4. CASE k < 0
    <3>1. result' = Inf(Sign)
      BY <1>3, <1>8, <2>1, <2>4, CheckedFits
    <3>. QED BY <1>8, <2>4, <3>1
  <2>5. CASE k = 0
    <3>1. result'.e = 0 /\ Q.e = 0
      BY <1>3, <1>8, <2>1, <2>5, CheckedFits, Extremes
    <3>2. Cut(Q).e = Q.e
      BY DEF Cut
    <3>. QED BY <3>1, <3>2 DEF SameFloat
  <2>6. CASE k >= ExpMax
    <3>1. result' = Inf(Sign) /\ Q = Inf(Sign)
      <4>1. k > 0
        BY <2>3, <2>6
      <4>2. result' = Fit(s, k, v) /\ Fit(s, k, v) = Inf(Sign)
        BY <1>3, <1>8, <2>1, <2>6, <4>1, CheckedFits
      <4>3. Fit(s, k, z) = Inf(Sign)
        BY <1>3, <1>8, <2>6, CheckedFits
      <4>. QED BY <1>8, <4>2, <4>3
    <3>2. Cut(Inf(Sign)) = Inf(Sign)
      BY <1>3, <2>2, Extremes DEF Cut
    <3>. QED BY <3>1, <3>2 DEF SameFloat
  <2>7. CASE k > 0 /\ k < ExpMax
    <3>1. result' = [s |-> Sign, e |-> k, sig |-> v] /\ Q = [s |-> Sign, e |-> k, sig |-> z]
      BY <1>3, <1>8, <2>1, <2>7, CheckedFits
    <3>2. Cut(Q) = [s |-> Sign, e |-> k, sig |-> High(z) * Space2]
      BY <3>1 DEF Cut
    <3>3. CASE High(z) = n
      BY <3>1, <3>2, <3>3 DEF SameFloat
    <3>4. CASE High(z) = n + 1
      <4>1. (n + 1) * Space2 = v + Space2
        BY <1>8, <2>1
      <4>2. [result' EXCEPT !.sig = @ + Space2] = [s |-> Sign, e |-> k, sig |-> v + Space2]
        BY <3>1
      <4>3. Q.sig < SigSpace
        BY <1>8, <3>1
      <4>. QED BY <3>2, <3>4, <4>1, <4>2, <4>3
    <3>. QED BY <1>8, <3>3, <3>4
  <2>. QED BY <1>8, <2>3, <2>4, <2>5, <2>6, <2>7
<1>9. CASE acc >= Half /\ result' = Checked(e % ExpSpace, acc * Space2) /\ Q = Fit(s, e, half)
  <2>1. acc * Space2 < SigSpace /\ High(half) \in {acc, acc + 1}
    BY <1>1, <1>4, <1>9, Normed
  <2>2. Agrees
    <3>. HIDE DEF Agrees
    <3>. QED BY <1>1, <1>4, <1>6, <1>8, <1>9, <2>1
  <2>. QED BY <1>6, <1>7a, <2>2 DEF Q, f, g
<1>10. CASE /\ acc < Half /\ result' = Checked(under % ExpSpace, (2 * acc) * Space2)
            /\ Q = Fit(s, under, q) /\ q < SigSpace
  <2>. DEFINE n == 2 * acc
  <2>1. n \in Nat /\ Half <= n /\ n < Space /\ High(q) \in {n, n + 1}
    BY <1>1, <1>4, <1>10, Sizes
  <2>2. result' = Checked(under % ExpSpace, n * Space2)
    BY <1>10
  <2>. HIDE DEF n
  <2>3. n * Space2 < SigSpace
    BY <2>1, Normed
  <2>4. Agrees
    <3>. HIDE DEF Agrees
    <3>. QED BY <1>4, <1>6, <1>8, <1>10, <2>1, <2>2, <2>3
  <2>. QED BY <1>6, <1>7a, <2>4 DEF Q, f, g
<1>. QED BY <1>7, <1>9, <1>10

\* What AgreesWithReference says of a float that is returned.
Agreeing(v) ==
  LET x == Operands[1]
      y == Operands[2]
      sum == FaddBits(x, y)
      product == FmulBits(Cut(x), Cut(y))
      quotient == FdivBits(Cut(x), Cut(y))
      wraps == BothNormal /\ v = Inf(Sign)
  IN  /\ call.op \in Sums =>
           IF sum = NaN THEN v = IF x.e = ExpMax THEN x ELSE y
           ELSE IF Vanishes THEN v = Zero(0) ELSE SameFloat(v, sum)
      /\ call.op = "fmul" =>
           IF product = NaN THEN v = IF 0 \in {x.e, y.e} THEN Zero(0) ELSE Inf(Sign)
           ELSE SameFloat(v, product) \/ (wraps /\ x.e + y.e < Bias)
      /\ call.op = "fdiv" =>
           IF quotient = NaN THEN v = IF y.e = 0 \/ x.e = ExpMax THEN Inf(Sign) ELSE Zero(0)
           ELSE \/ SameFloat(v, Cut(quotient))
                \/ wraps /\ x.e + Bias < y.e + 1
                \/ /\ BothNormal /\ quotient.sig < SigSpace
                   /\ [v EXCEPT !.sig = @ + Space2] = Cut(quotient)

LEMMA AgreesResult ==
  ASSUME call' = call, call.op \in Arithmetic => Agreeing(result')
  PROVE  AgreesWithReference'
<1>. SUFFICES ASSUME Returned(Arithmetic)' PROVE AgreesWithReference'
  BY DEF AgreesWithReference, Returned
<1>1. call.op \in Arithmetic /\ Agreeing(result')
  BY DEF Returned
<1>2. Operands' = Operands /\ Sign' = Sign
  BY SameCall
<1>3. BothNormal' = BothNormal
  BY <1>2 DEF BothNormal
<1>4. Vanishes' = Vanishes
  BY <1>2, <1>3 DEF Vanishes, Remainder, WordSum, High
<1>. DEFINE x == Operands[1]
            y == Operands[2]
            v == result'
            sum == FaddBits(x, y)
            product == FmulBits(Cut(x), Cut(y))
            quotient == FdivBits(Cut(x), Cut(y))
<1>5. CASE call.op \in Sums
  <2>1. IF sum = NaN THEN v = IF x.e = ExpMax THEN x ELSE y
        ELSE IF Vanishes THEN v = Zero(0) ELSE SameFloat(v, sum)
    BY <1>1, <1>5 DEF Agreeing
  <2>. QED BY <1>2, <1>3, <1>4, <1>5, <2>1 DEF AgreesWithReference, WithoutNaN
<1>6. CASE call.op = "fmul"
  <2>1. IF product = NaN THEN v = IF 0 \in {x.e, y.e} THEN Zero(0) ELSE Inf(Sign)
        ELSE SameFloat(v, product) \/ (BothNormal /\ v = Inf(Sign) /\ x.e + y.e < Bias)
    BY <1>1, <1>6 DEF Agreeing
  <2>. QED BY <1>2, <1>3, <1>6, <2>1 DEF AgreesWithReference, WithoutNaN
<1>7. CASE call.op = "fdiv"
  <2>1. IF quotient = NaN THEN v = IF y.e = 0 \/ x.e = ExpMax THEN Inf(Sign) ELSE Zero(0)
        ELSE \/ SameFloat(v, Cut(quotient))
             \/ BothNormal /\ v = Inf(Sign) /\ x.e + Bias < y.e + 1
             \/ /\ BothNormal /\ quotient.sig < SigSpace
                /\ [v EXCEPT !.sig = @ + Space2] = Cut(quotient)
    BY <1>1, <1>7 DEF Agreeing
  <2>. QED BY <1>2, <1>3, <1>7, <2>1 DEF AgreesWithReference, WithoutNaN
<1>. QED BY <1>1, <1>5, <1>6, <1>7

LEMMA OtherArithmetic ==
  FloatInv /\ Next /\ pc' = "done" =>
    \/ AddSpecial \/ AddMagnitudes \/ Subtract \/ Normalise
    \/ MulSpecial \/ MulEnd \/ DivSpecial \/ DivEnd
    \/ call.op \notin Arithmetic
BY DEF Next, AddEnter, Align, MulEnter, MulLoop, DivEnter, DivLoop, Compare, ItofZero, ItofEnter,
       ItofLoop, FtoiZero, FtoiEnter, FtoiLoop, FtoiEnd, Return, Continue, Enters, FloatInv,
       AlignInv, NormInv, MulInv, DivInv, ItofInv, FtoiInv

LEMMA AgreesKept == FloatInv /\ Next => AgreesWithReference'
<1>. SUFFICES ASSUME FloatInv, Next PROVE AgreesWithReference'
  OBVIOUS
<1>1. call' = call /\ call \in AnyCall
  BY NextSameCall DEF FloatInv
<1>. DEFINE x == Operands[1]
            y == Operands[2]
<1>2. CASE pc' # "done"
  BY <1>2 DEF AgreesWithReference, Returned
<1>3. CASE call.op \notin Arithmetic
  BY <1>1, <1>3, AgreesResult
<1>4. call.op \in Arithmetic => /\ x = call.a /\ y = (IF call.op \in Sums THEN Addend ELSE call.b)
                                /\ x \in Float /\ y \in Float
  BY <1>1, Operand, Summands DEF Operands
<1>5. CASE AddSpecial
  <2>1. call.op \in Sums /\ x = call.a /\ y = Addend /\ x \in Float /\ y \in Float
    BY <1>4, <1>5 DEF AddSpecial, Enters
  <2>. HIDE DEF x, y
  <2>2. /\ \/ x.e = ExpMax /\ result' = x
           \/ x.e # ExpMax /\ (y.e = ExpMax \/ x.e = 0) /\ result' = y
           \/ x.e \notin {0, ExpMax} /\ y.e = 0 /\ result' = x
        /\ ~BothNormal
    <3>1. /\ \/ x.e = ExpMax /\ result' = x
             \/ x.e # ExpMax /\ (y.e = ExpMax \/ x.e = 0) /\ result' = y
             \/ x.e \notin {0, ExpMax} /\ y.e = 0 /\ result' = x
      BY <1>5, <2>1 DEF AddSpecial, Return
    <3>2. Classify(x) # "normal" \/ Classify(y) # "normal"
      BY <2>1, <3>1, ClassFacts
    <3>. QED BY <3>1, <3>2 DEF BothNormal, Classes, x, y
  <2>3. ~Vanishes
    BY <2>2 DEF Vanishes
  <2>4. IF FaddBits(x, y) = NaN THEN result' = IF x.e = ExpMax THEN x ELSE y
        ELSE SameFloat(result', FaddBits(x, y))
    BY <2>1, <2>2, SpecialSums
  <2>5. Agreeing(result')
    BY <2>1, <2>3, <2>4 DEF Agreeing, x, y
  <2>. QED BY <1>1, <2>5, AgreesResult
<1>6. ASSUME call.op \in {"fmul", "fdiv"} PROVE (x.s + y.s) % 2 = Sign /\ Sign \in {0, 1}
  <2>1. x = call.a /\ y = call.b /\ call.a.s \in {0, 1} /\ call.b.s \in {0, 1}
    BY <1>4, <1>6, FloatFields
  <2>. QED BY <2>1 DEF Sign
<1>7. CASE MulSpecial
  <2>1. call.op = "fmul" /\ x = call.a /\ y = call.b /\ x \in Float /\ y \in Float
    BY <1>4, <1>7 DEF MulSpecial, Enters
  <2>2. (x.s + y.s) % 2 = Sign /\ Sign \in {0, 1}
    BY <1>6, <2>1
  <2>. HIDE DEF x, y
  <2>3. \/ (x.e = 0 \/ y.e = 0) /\ result' = Zero(0)
        \/ x.e # 0 /\ y.e # 0 /\ ExpMax \in {x.e, y.e} /\ result' = Inf(Sign)
    BY <1>7, <2>1 DEF MulSpecial, Return
  <2>4. IF FmulBits(Cut(x), Cut(y)) = NaN
        THEN result' = IF 0 \in {x.e, y.e} THEN Zero(0) ELSE Inf(Sign)
        ELSE SameFloat(result', FmulBits(Cut(x), Cut(y)))
    BY <2>1, <2>2, <2>3, SpecialProducts
  <2>5. Agreeing(result')
    BY <2>1, <2>4 DEF Agreeing, x, y
  <2>. QED BY <1>1, <2>5, AgreesResult
<1>8. CASE DivSpecial
  <2>1. call.op = "fdiv" /\ x = call.a /\ y = call.b /\ x \in Float /\ y \in Float
    BY <1>4, <1>8 DEF DivSpecial, Enters
  <2>2. (x.s + y.s) % 2 = Sign /\ Sign \in {0, 1}
    BY <1>6, <2>1
  <2>. HIDE DEF x, y
  <2>3. \/ y.e = 0 /\ result' = Inf(Sign)
        \/ y.e # 0 /\ x.e = 0 /\ result' = Zero(0)
        \/ y.e # 0 /\ x.e = ExpMax /\ result' = Inf(Sign)
        \/ y.e = ExpMax /\ x.e \notin {0, ExpMax} /\ result' = Zero(0)
    BY <1>8, <2>1 DEF DivSpecial, Return
  <2>4. IF FdivBits(Cut(x), Cut(y)) = NaN
        THEN result' = IF y.e = 0 \/ x.e = ExpMax THEN Inf(Sign) ELSE Zero(0)
        ELSE SameFloat(result', Cut(FdivBits(Cut(x), Cut(y))))
    BY <2>1, <2>2, <2>3, SpecialQuotients
  <2>5. Agreeing(result')
    BY <2>1, <2>4 DEF Agreeing, x, y
  <2>. QED BY <1>1, <2>5, AgreesResult
<1>9. CASE pc' = "done" /\ (AddMagnitudes \/ Subtract \/ Normalise)
  <2>1. call.op \in Sums /\ IsNormal(call.a) /\ IsNormal(Addend) /\ SumCase(result')
    BY <1>9, SumReturned
  <2>2. x = call.a /\ y = Addend
    BY <1>4, <2>1
  <2>3. IF Vanishes THEN result' = Zero(0) ELSE SameFloat(result', FaddBits(call.a, Addend))
    BY <1>1, <2>1, SumAgrees
  <2>4. FaddBits(call.a, Addend) # NaN
    BY <1>1, <2>1, SumIsNumber
  <2>5. Agreeing(result')
    BY <2>1, <2>2, <2>3, <2>4 DEF Agreeing
  <2>. QED BY <1>1, <2>5, AgreesResult
<1>10. ASSUME call.op \in {"fmul", "fdiv"}, IsNormal(call.a), IsNormal(call.b) PROVE BothNormal
  <2>1. x \in Float /\ y \in Float /\ IsNormal(x) /\ IsNormal(y)
    BY <1>4, <1>10
  <2>. HIDE DEF x, y
  <2>2. Classify(x) = "normal" /\ Classify(y) = "normal"
    BY <2>1, NormalClass
  <2>. QED BY <2>2 DEF BothNormal, Classes, x, y
<1>11. CASE MulEnd
  <2>1. call.op = "fmul" /\ x = call.a /\ y = call.b /\ BothNormal
    BY <1>4, <1>10, <1>11, Multiplied DEF MulEnd
  <2>2. /\ FmulBits(Cut(x), Cut(y)) # NaN
        /\ \/ SameFloat(result', FmulBits(Cut(x), Cut(y)))
           \/ result' = Inf(Sign) /\ x.e + y.e < Bias
    BY <1>11, <2>1, MulAgrees
  <2>3. Agreeing(result')
    BY <2>1, <2>2 DEF Agreeing
  <2>. QED BY <1>1, <2>3, AgreesResult
<1>12. CASE DivEnd
  <2>1. call.op = "fdiv" /\ x = call.a /\ y = call.b /\ BothNormal
    BY <1>4, <1>10, <1>12, Divided DEF DivEnd
  <2>2. LET Q == FdivBits(Cut(x), Cut(y))
        IN  /\ Q # NaN
            /\ \/ SameFloat(result', Cut(Q))
               \/ result' = Inf(Sign) /\ x.e + Bias < y.e + 1
               \/ [result' EXCEPT !.sig = @ + Space2] = Cut(Q) /\ Q.sig < SigSpace
    BY <1>12, <2>1, DivAgrees
  <2>3. Agreeing(result')
    BY <2>1, <2>2 DEF Agreeing
  <2>. QED BY <1>1, <2>3, AgreesResult
<1>. QED BY <1>2, <1>3, <1>5, <1>7, <1>8, <1>9, <1>11, <1>12, OtherArithmetic

LEMMA SamePromises ==
  UNCHANGED vars => /\ SumsAreClose => SumsAreClose'
                    /\ AgreesWithReference => AgreesWithReference'
<1>. SUFFICES ASSUME UNCHANGED vars
              PROVE  /\ SumsAreClose => SumsAreClose'
                     /\ AgreesWithReference => AgreesWithReference'
  OBVIOUS
<1>1. call' = call /\ pc' = pc /\ result' = result
  BY DEF vars
<1>2. Operands' = Operands /\ Sign' = Sign
  BY <1>1, SameCall
<1>3. FaddBits(Operands[1], Operands[2])' = FaddBits(Operands[1], Operands[2])
  BY <1>2
<1>4. BothNormal' = BothNormal /\ Reversed' = Reversed /\ Vanishes' = Vanishes
  BY <1>2 DEF BothNormal, Reversed, Vanishes, Remainder, WordSum, High
<1>5. SumsAreClose' = SumsAreClose
  BY <1>1, <1>2, <1>4 DEF SumsAreClose, Returned
<1>6. AgreesWithReference' = AgreesWithReference
  BY <1>1, <1>2, <1>3, <1>4 DEF AgreesWithReference, WithoutNaN, Returned
<1>. QED BY <1>5, <1>6

(***************************************************************************)
(* The theorems.                                                           *)
(***************************************************************************)
LEMMA InvariantKept ==
  FloatInv /\ TextInv /\ [TNext]_<<vars, tvars>> => FloatInv' /\ TextInv'
<1>. SUFFICES ASSUME FloatInv, TextInv, [TNext]_<<vars, tvars>> PROVE FloatInv' /\ TextInv'
  OBVIOUS
<1>1. CASE Library
  BY <1>1, NextKeeps, LibraryText DEF Library
<1>2. CASE Itoa \/ Ftoa \/ Atof
  <2>1. StaysOrCalls
    BY <1>2, TextKeeps
  <2>2. FloatInv'
    <3>1. CASE UNCHANGED vars
      BY <3>1, SameRegisters
    <3>2. CASE pc' = "enter" /\ call' \in AnyCall
      BY <3>2, EntryKeeps
    <3>. QED BY <2>1, <3>1, <3>2 DEF StaysOrCalls
  <2>. QED BY <2>1, <2>2 DEF StaysOrCalls
<1>3. CASE UNCHANGED <<vars, tvars>>
  <2>1. FloatInv'
    BY <1>3, SameRegisters
  <2>2. TextInv'
    BY <1>3 DEF tvars, vars, TextInv, Char
  <2>. QED BY <2>1, <2>2
<1>. QED BY <1>1, <1>2, <1>3 DEF TNext, Itoa, Ftoa, Atof

\* Whatever is called, the routines call each other with floats and words and
\* their registers stand for what the loops compute.
THEOREM FloatsWellFormed == TSpec => [](FloatInv /\ TextInv)
<1>1. TInit => FloatInv /\ TextInv
  BY TextStart
<1>2. FloatInv /\ TextInv /\ [TNext]_<<vars, tvars>> => (FloatInv /\ TextInv)'
  BY InvariantKept
<1>. QED BY <1>1, <1>2, PTL DEF TSpec

LEMMA PromisesStep ==
  FloatInv /\ TextInv /\ [TNext]_<<vars, tvars>> =>
    /\ KeepsValues => KeepsValues'
    /\ SumsAreClose => SumsAreClose'
    /\ AgreesWithReference => AgreesWithReference'
<1>. SUFFICES ASSUME FloatInv, TextInv, [TNext]_<<vars, tvars>>
              PROVE  /\ KeepsValues => KeepsValues'
                     /\ SumsAreClose => SumsAreClose'
                     /\ AgreesWithReference => AgreesWithReference'
  OBVIOUS
<1>1. CASE Library
  BY <1>1, ValuesKept, SumsKept, AgreesKept DEF Library
<1>2. CASE Itoa \/ Ftoa \/ Atof
  <2>1. UNCHANGED vars \/ pc' = "enter"
    BY <1>2, TextKeeps DEF StaysOrCalls
  <2>2. CASE pc' = "enter"
    BY <2>2 DEF KeepsValues, ComparesValues, IntegersConvert, SumsAreClose, AgreesWithReference,
                Returned
  <2>. QED BY <2>1, <2>2, SameRegisters, SamePromises
<1>3. CASE UNCHANGED <<vars, tvars>>
  BY <1>3, SameRegisters, SamePromises
<1>. QED BY <1>1, <1>2, <1>3 DEF TNext, Itoa, Ftoa, Atof

LEMMA PromisesStart == TInit => KeepsValues /\ SumsAreClose /\ AgreesWithReference
<1>. SUFFICES ASSUME TInit PROVE KeepsValues /\ SumsAreClose /\ AgreesWithReference
  OBVIOUS
<1>1. pc = "enter" \/ (call.op = "itof" /\ call.n = 0 /\ result = None)
  BY DEF TInit
<1>2. Signed(0) * Unit = 0
  BY SignedBack, Sizes, UnitIs
<1>3. Value(None) = 0 /\ Classify(None) = "zero"
  BY NoneFloat, NormalClass DEF Value, None
<1>. QED BY <1>1, <1>2, <1>3 DEF KeepsValues, ComparesValues, IntegersConvert, SumsAreClose,
                                 AgreesWithReference, Returned

\* __fcmp orders floats as their values are ordered, __itof is exact and __ftoi
\* cuts off the fraction, for every width of a word.
THEOREM NumbersKept == TSpec => []KeepsValues
BY PromisesStart, PromisesStep, FloatsWellFormed, PTL DEF TSpec

\* __fadd and __fsub return a float within one unit in the last place of the
\* exact sum, zero only below the normal numbers and infinity only above them.
THEOREM SumsClose == TSpec => []SumsAreClose
BY PromisesStart, PromisesStep, FloatsWellFormed, PTL DEF TSpec

\* The loops of __fadd, __fmul and __fdiv compute the operands' sum, product and
\* quotient as the reference does, but for the differences the property names.
THEOREM ReferenceAgrees == TSpec => []AgreesWithReference
BY PromisesStart, PromisesStep, FloatsWellFormed, PTL DEF TSpec
=============================================================================
