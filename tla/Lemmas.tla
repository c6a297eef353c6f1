------------------------------- MODULE Lemmas -------------------------------
(* Facts the proofs of several modules rest on: induction over the natural   *)
(* numbers, in terms of sets since the provers do not instantiate operators; *)
(* functions defined along an interval; quotients; lines of characters       *)
(* (RxLine); parts of sequences; stacks.                                    *)
EXTENDS Integers, Powers, Sequences, FiniteSets, FiniteSetTheorems, SequenceTheorems,
        WellFoundedInduction, TLAPS

LEMMA SetInduction ==
  ASSUME NEW S, 0 \in S, \A n \in Nat : n \in S => n + 1 \in S
  PROVE  \A n \in Nat : n \in S
<1>. DEFINE Out == Nat \ S
            Less == OpToRel(<, Nat)
<1>. SUFFICES ASSUME Out # {} PROVE FALSE
  OBVIOUS
<1>1. IsWellFoundedOn(Less, Nat)
  BY NatLessThanWellFounded
<1>. HIDE DEF Less
<1>2. PICK n \in Out : \A m \in Out : <<m, n>> \notin Less
  <2>1. Out \subseteq Nat
    OBVIOUS
  <2>. HIDE DEF Out
  <2>. QED BY <1>1, <2>1, WFMin
<1>3. n \in Nat /\ n # 0 /\ n - 1 \in Out
  BY <1>2
<1>4. <<n - 1, n>> \in Less
  BY <1>3 DEF Less, OpToRel
<1>. QED BY <1>2, <1>3, <1>4

\* A function whose value at i is given anew or by what it is at i - 1.
RunsAlong(f, L, Starts, base, step) ==
  \A i \in 1..L : f[i] = IF i \in Starts THEN base[i] ELSE f[i - 1] + step[i - 1]

LEMMA AlongInterval ==
  ASSUME NEW L \in Nat, NEW Starts, 1 \in Starts,
         NEW base \in [1..L -> Nat], NEW step \in [1..L -> Nat]
  PROVE  \E f \in [1..L -> Nat] : RunsAlong(f, L, Starts, base, step)
<1>. DEFINE Good(f, n) == \A i \in 1..n : f[i] = IF i \in Starts THEN base[i]
                                                ELSE f[i - 1] + step[i - 1]
            S == {n \in Nat : n <= L => \E f \in [1..L -> Nat] : Good(f, n)}
<1>1. 0 \in S
  <2>1. [i \in 1..L |-> 0] \in [1..L -> Nat] /\ Good([i \in 1..L |-> 0], 0)
    OBVIOUS
  <2>. QED BY <2>1
<1>2. ASSUME NEW n \in Nat, n \in S PROVE n + 1 \in S
  <2>. SUFFICES ASSUME n + 1 <= L PROVE \E f \in [1..L -> Nat] : Good(f, n + 1)
    OBVIOUS
  <2>1. PICK f \in [1..L -> Nat] : Good(f, n)
    <3>1. n <= L
      OBVIOUS
    <3>. HIDE DEF Good
    <3>. QED BY <1>2, <3>1
  <2>. DEFINE at == IF n + 1 \in Starts THEN base[n + 1] ELSE f[n] + step[n]
              g == [f EXCEPT ![n + 1] = at]
  <2>2. at \in Nat
    <3>1. n + 1 \in Starts \/ n \in 1..L
      OBVIOUS
    <3>. QED BY <3>1
  <2>3. g \in [1..L -> Nat] /\ g[n + 1] = at /\ \A i \in 1..n : g[i] = f[i]
    BY <2>2
  <2>. HIDE DEF g
  <2>4. ASSUME NEW i \in 1..n + 1
        PROVE  g[i] = IF i \in Starts THEN base[i] ELSE g[i - 1] + step[i - 1]
    <3>1. CASE i = n + 1
      <4>1. i \in Starts \/ (i - 1 = n /\ n \in 1..n)
        BY <3>1
      <4>. QED BY <2>3, <3>1, <4>1
    <3>2. CASE i # n + 1
      <4>1. i \in 1..n /\ (i \in Starts \/ i - 1 \in 1..n)
        BY <3>2
      <4>. QED BY <2>1, <2>3, <4>1
    <3>. QED BY <3>1, <3>2
  <2>. QED BY <2>3, <2>4
<1>3. L \in S
  <2>. HIDE DEF S
  <2>. QED BY <1>1, <1>2, SetInduction
<1>4. PICK f \in [1..L -> Nat] : Good(f, L)
  <2>. HIDE DEF Good
  <2>. QED BY <1>3
<1>. QED BY <1>4 DEF RunsAlong

\* There is only one, if it starts at 1.
LEMMA AlongUnique ==
  ASSUME NEW L \in Nat, NEW Starts, 1 \in Starts, NEW base, NEW step, NEW f, NEW g,
         RunsAlong(f, L, Starts, base, step), RunsAlong(g, L, Starts, base, step)
  PROVE  \A i \in 1..L : f[i] = g[i]
<1>. DEFINE S == {n \in Nat : n \in 1..L => f[n] = g[n]}
<1>1. 0 \in S
  OBVIOUS
<1>2. ASSUME NEW n \in Nat, n \in S PROVE n + 1 \in S
  <2>. SUFFICES ASSUME n + 1 \in 1..L PROVE f[n + 1] = g[n + 1]
    OBVIOUS
  <2>1. n + 1 \in Starts \/ f[n] = g[n]
    BY <1>2
  <2>. QED BY <2>1 DEF RunsAlong
<1>3. \A n \in Nat : n \in S
  <2>. HIDE DEF S
  <2>. QED BY <1>1, <1>2, SetInduction
<1>. QED BY <1>3
\* A product of a positive number is at least the other factor.
LEMMA MulGrows ==
  ASSUME NEW a \in Nat, NEW b \in Nat, a > 0
  PROVE  a * b >= b
<1>1. a * b = (a - 1) * b + b
  OBVIOUS
<1>2. (a - 1) * b \in Nat
  OBVIOUS
<1>. QED BY <1>1, <1>2

\* Quotient and remainder are what their defining equation says.
LEMMA DivUnique ==
  ASSUME NEW x \in Int, NEW y \in Nat, NEW q \in Int, NEW r \in Nat,
         y > 0, r < y, x = q * y + r
  PROVE  q = x \div y /\ r = x % y
<1>. DEFINE p == x \div y
            s == x % y
<1>1. p \in Int /\ s \in Nat /\ s < y /\ x = p * y + s
  OBVIOUS
<1>. HIDE DEF p, s
<1>2. ASSUME q < p PROVE FALSE
  <2>1. (p - q) * y >= y
    BY <1>1, <1>2, MulGrows
  <2>2. (p - q) * y = p * y - q * y
    BY <1>1
  <2>. QED BY <1>1, <2>1, <2>2
<1>3. ASSUME q > p PROVE FALSE
  <2>1. (q - p) * y >= y
    BY <1>1, <1>3, MulGrows
  <2>2. (q - p) * y = q * y - p * y
    BY <1>1
  <2>. QED BY <1>1, <2>1, <2>2
<1>4. q = p
  BY <1>1, <1>2, <1>3
<1>5. r = s
  BY <1>1, <1>4
<1>. QED BY <1>4, <1>5 DEF p, s
-----------------------------------------------------------------------------
LEMMA FrontFirst ==
  ASSUME NEW S, NEW s \in Seq(S), s # <<>>
  PROVE  /\ Head(s) \in S /\ Tail(s) \in Seq(S)
         /\ <<Head(s)>> \o Tail(s) = s
<1>1. /\ Head(s) \in S /\ Tail(s) \in Seq(S) /\ Len(Tail(s)) = Len(s) - 1
      /\ \A i \in 1..Len(Tail(s)) : Tail(s)[i] = s[i + 1]
  BY HeadTailProperties
<1>2. Len(s) \in Nat \ {0} /\ Head(s) = s[1]
  BY EmptySeq
<1>3. <<Head(s)>> \in Seq(S) /\ Len(<<Head(s)>>) = 1 /\ <<Head(s)>>[1] = Head(s)
  BY <1>1
<1>. DEFINE h == <<Head(s)>>
            t == Tail(s)
<1>. HIDE DEF h, t
<1>4. /\ h \o t \in Seq(S) /\ Len(h \o t) = Len(h) + Len(t)
      /\ \A i \in 1..Len(h) + Len(t) : (h \o t)[i] = IF i <= Len(h) THEN h[i] ELSE t[i - Len(h)]
  BY <1>1, <1>3, ConcatProperties DEF h, t
<1>5. Len(h \o t) = Len(s)
  BY <1>1, <1>2, <1>3, <1>4 DEF h, t
<1>6. ASSUME NEW i \in 1..Len(h \o t) PROVE (h \o t)[i] = s[i]
  <2>1. CASE i = 1
    BY <1>2, <1>3, <1>4, <1>5, <2>1 DEF h
  <2>2. CASE i # 1
    <3>1. i - 1 \in 1..Len(t) /\ ~(i <= 1) /\ i \in 1..Len(h) + Len(t)
      BY <1>1, <1>2, <1>4, <1>5, <2>2 DEF t
    <3>2. (h \o t)[i] = t[i - 1]
      BY <1>3, <1>4, <3>1 DEF h
    <3>3. t[i - 1] = s[i - 1 + 1]
      BY <1>1, <3>1 DEF t
    <3>. QED BY <1>5, <3>2, <3>3
  <2>. QED BY <2>1, <2>2
<1>7. h \o t = s
  BY <1>4, <1>5, <1>6, SeqEqual
<1>. QED BY <1>1, <1>7 DEF h, t

LEMMA FrontOfConcat ==
  ASSUME NEW S, NEW s \in Seq(S), NEW t \in Seq(S), s # <<>>
  PROVE  /\ s \o t # <<>>
         /\ Head(s \o t) = Head(s)
         /\ Tail(s \o t) = Tail(s) \o t
         /\ <<Head(s)>> \o (Tail(s) \o t) = s \o t
<1>1. /\ Head(s) \in S /\ Tail(s) \in Seq(S) /\ <<Head(s)>> \o Tail(s) = s
  BY FrontFirst
<1>2. <<Head(s)>> \in Seq(S)
  BY <1>1
<1>3. s \o t \in Seq(S) /\ s \o t # <<>>
  BY ConcatProperties, ConcatEqualIffEmpty
<1>4. Head(s \o t) = Head(s)
  <2>1. Len(s) \in Nat \ {0} /\ Len(t) \in Nat
    BY EmptySeq, LenProperties
  <2>2. (s \o t)[1] = s[1]
    BY <2>1, ConcatProperties
  <2>. QED BY <1>3, <2>2, EmptySeq
<1>5. <<Head(s)>> \o (Tail(s) \o t) = s \o t
  BY <1>1, <1>2, ConcatAssociative
<1>6. <<Head(s)>> \o Tail(s \o t) = s \o t /\ Tail(s \o t) \in Seq(S)
  BY <1>3, <1>4, FrontFirst
<1>7. Tail(s) \o t \in Seq(S)
  BY <1>1, ConcatProperties
<1>8. Tail(s \o t) = Tail(s) \o t
  BY <1>2, <1>5, <1>6, <1>7, ConcatSimplifications
<1>. QED BY <1>3, <1>4, <1>5, <1>8

LEMMA AppendBehind ==
  ASSUME NEW S, NEW s \in Seq(S), NEW t \in Seq(S), NEW x \in S
  PROVE  s \o Append(t, x) = Append(s \o t, x)
<1>1. <<x>> \in Seq(S) /\ s \o t \in Seq(S)
  BY ConcatProperties
<1>2. Append(t, x) = t \o <<x>> /\ Append(s \o t, x) = (s \o t) \o <<x>>
  BY <1>1, AppendIsConcat
<1>. QED BY <1>1, <1>2, ConcatAssociative

\* s without its n-th element.
LeftOut(s, n) == SubSeq(s, 1, n - 1) \o SubSeq(s, n + 1, Len(s))

\* Taking out the element behind p.
LEMMA WithoutMiddle ==
  ASSUME NEW S, NEW p \in Seq(S), NEW e \in Seq(S), Len(e) = 1, NEW q \in Seq(S)
  PROVE  /\ Len(p) + 1 \in 1..Len(p \o (e \o q))
         /\ (p \o (e \o q))[Len(p) + 1] = e[1]
         /\ LeftOut(p \o (e \o q), Len(p) + 1) = p \o q
<1>. DEFINE r == e \o q
            s == p \o r
            n == Len(p) + 1
            x == e[1]
<1>2. /\ r \in Seq(S) /\ Len(r) = 1 + Len(q)
      /\ \A i \in 1..1 + Len(q) : r[i] = IF i <= 1 THEN x ELSE q[i - 1]
  <2>2. /\ r \in Seq(S) /\ Len(r) = Len(e) + Len(q)
        /\ \A i \in 1..Len(e) + Len(q) : r[i] = IF i <= Len(e) THEN e[i] ELSE q[i - Len(e)]
    BY ConcatProperties
  <2>3. Len(q) \in Nat
    BY LenProperties
  <2>. HIDE DEF r
  <2>4. \A i \in 1..1 + Len(q) : r[i] = IF i <= 1 THEN x ELSE q[i - 1]
    BY <2>2, <2>3
  <2>. QED BY <2>2, <2>4
<1>. HIDE DEF r
<1>3. s = p \o r
  OBVIOUS
<1>. HIDE DEF s, x
<1>4. Len(p) \in Nat /\ Len(q) \in Nat
  BY LenProperties
<1>5. /\ s \in Seq(S) /\ Len(s) = Len(p) + Len(r)
      /\ \A i \in 1..Len(p) + Len(r) : s[i] = IF i <= Len(p) THEN p[i] ELSE r[i - Len(p)]
  BY <1>2, <1>3, ConcatProperties
<1>6. Len(p) + 1 \in 1..Len(s) /\ s[Len(p) + 1] = x
  BY <1>2, <1>4, <1>5
<1>7. SubSeq(s, 1, Len(p)) = p
  <2>1. \A i \in 1..Len(p) : s[i] \in S
    BY <1>2, <1>4, <1>5, ElementOfSeq
  <2>2. /\ SubSeq(s, 1, Len(p)) \in Seq(S) /\ Len(SubSeq(s, 1, Len(p))) = Len(p)
        /\ \A i \in 1..Len(p) : SubSeq(s, 1, Len(p))[i] = s[i]
    BY <1>4, <2>1, SubSeqProperties
  <2>3. \A i \in 1..Len(p) : s[i] = p[i]
    BY <1>2, <1>4, <1>5
  <2>. QED BY <2>2, <2>3, SeqEqual
<1>8. SubSeq(s, Len(p) + 2, Len(s)) = q
  <2>1. \A i \in Len(p) + 2..Len(s) : s[i] \in S
    BY <1>2, <1>4, <1>5, ElementOfSeq
  <2>2. Len(s) = Len(p) + 1 + Len(q)
    BY <1>2, <1>4, <1>5
  <2>3. /\ SubSeq(s, Len(p) + 2, Len(s)) \in Seq(S) /\ Len(SubSeq(s, Len(p) + 2, Len(s))) = Len(q)
        /\ \A i \in 1..Len(q) : SubSeq(s, Len(p) + 2, Len(s))[i] = s[Len(p) + 1 + i]
    BY <1>4, <2>1, <2>2, SubSeqProperties
  <2>4. ASSUME NEW i \in 1..Len(q) PROVE s[Len(p) + 1 + i] = q[i]
    <3>1. Len(p) + 1 + i \in 1..Len(p) + Len(r) /\ ~(Len(p) + 1 + i <= Len(p))
          /\ Len(p) + 1 + i - Len(p) = 1 + i /\ 1 + i \in 1..1 + Len(q) /\ ~(1 + i <= 1) /\ 1 + i - 1 = i
      BY <1>2, <1>4
    <3>2. s[Len(p) + 1 + i] = r[1 + i]
      BY <1>5, <3>1
    <3>. QED BY <1>2, <3>1, <3>2
  <2>. QED BY <2>3, <2>4, SeqEqual
<1>9. n - 1 = Len(p) /\ n + 1 = Len(p) + 2
  BY <1>4
<1>10. LeftOut(s, n) = p \o q
  BY <1>7, <1>8, <1>9 DEF LeftOut
<1>. QED BY <1>6, <1>10 DEF s, r, x

LEMMA PrefixOfAppend ==
  ASSUME NEW S, NEW s \in Seq(S), NEW x \in S, NEW n \in 0..Len(s)
  PROVE  SubSeq(Append(s, x), 1, n) = SubSeq(s, 1, n)
<1>. DEFINE a == Append(s, x)
<1>1. /\ a \in Seq(S) /\ Len(a) = Len(s) + 1 /\ Len(s) \in Nat
      /\ \A i \in 1..Len(s) : a[i] = s[i]
  OBVIOUS
<1>. HIDE DEF a
<1>2. \A i \in 1..n : s[i] \in S /\ a[i] \in S /\ a[i] = s[i]
  BY <1>1, ElementOfSeq
<1>3. /\ SubSeq(s, 1, n) \in Seq(S) /\ Len(SubSeq(s, 1, n)) = n
      /\ \A i \in 1..n : SubSeq(s, 1, n)[i] = s[i]
  BY <1>1, <1>2, SubSeqProperties
<1>4. /\ SubSeq(a, 1, n) \in Seq(S) /\ Len(SubSeq(a, 1, n)) = n
      /\ \A i \in 1..n : SubSeq(a, 1, n)[i] = a[i]
  BY <1>1, <1>2, SubSeqProperties
<1>5. SubSeq(a, 1, n) = SubSeq(s, 1, n)
  BY <1>2, <1>3, <1>4, SeqEqual
<1>. QED BY <1>5 DEF a
-----------------------------------------------------------------------------
(* Values worked out along n steps: G[<<k, q>>] is what step k makes of q. *)

FromTo(to, n, base, G) ==
  to = [k \in 0..n |-> IF k = 0 THEN base ELSE G[<<k, to[k - 1]>>]]

LEMMA AlongFrom ==
  ASSUME NEW n \in Nat, NEW S, NEW base \in S, NEW G,
         \A k \in 1..n, q \in S : G[<<k, q>>] \in S
  PROVE  \E to \in [0..n -> S] : FromTo(to, n, base, G)
<1>. DEFINE Good(to, m) == to[0] = base /\ \A k \in 1..m : to[k] = G[<<k, to[k - 1]>>]
            U == {m \in Nat : m <= n => \E to \in [0..n -> S] : Good(to, m)}
<1>1. 0 \in U
  <2>1. [k \in 0..n |-> base] \in [0..n -> S] /\ Good([k \in 0..n |-> base], 0)
    OBVIOUS
  <2>. QED BY <2>1
<1>2. ASSUME NEW m \in Nat, m \in U PROVE m + 1 \in U
  <2>. SUFFICES ASSUME m + 1 <= n PROVE \E to \in [0..n -> S] : Good(to, m + 1)
    OBVIOUS
  <2>1. PICK to \in [0..n -> S] : Good(to, m)
    <3>1. m <= n
      OBVIOUS
    <3>. HIDE DEF Good
    <3>. QED BY <1>2, <3>1
  <2>. DEFINE next == G[<<m + 1, to[m]>>]
              on == [to EXCEPT ![m + 1] = next]
  <2>2. next \in S
    <3>1. m + 1 \in 1..n /\ m \in 0..n
      OBVIOUS
    <3>. QED BY <3>1
  <2>3. on \in [0..n -> S] /\ on[m + 1] = next /\ \A k \in 0..m : on[k] = to[k]
    BY <2>2
  <2>. HIDE DEF on
  <2>4. ASSUME NEW k \in 1..m + 1 PROVE on[k] = G[<<k, on[k - 1]>>]
    <3>1. CASE k = m + 1
      BY <2>3, <3>1
    <3>2. CASE k # m + 1
      <4>1. k \in 1..m /\ k \in 0..m /\ k - 1 \in 0..m
        BY <3>2
      <4>. QED BY <2>1, <2>3, <4>1
    <3>. QED BY <3>1, <3>2
  <2>5. on[0] = base
    BY <2>1, <2>3
  <2>. QED BY <2>3, <2>4, <2>5
<1>3. n \in U
  <2>. HIDE DEF U
  <2>. QED BY <1>1, <1>2, SetInduction
<1>4. PICK to \in [0..n -> S] : Good(to, n)
  <2>. HIDE DEF Good
  <2>. QED BY <1>3
<1>5. \A k \in 0..n : to[k] = IF k = 0 THEN base ELSE G[<<k, to[k - 1]>>]
  <2>. TAKE k \in 0..n
  <2>1. CASE k = 0
    BY <1>4, <2>1
  <2>2. CASE k # 0
    <3>1. k \in 1..n
      BY <2>2
    <3>. QED BY <1>4, <2>2, <3>1
  <2>. QED BY <2>1, <2>2
<1>6. to = [k \in 0..n |-> IF k = 0 THEN base ELSE G[<<k, to[k - 1]>>]]
  BY <1>5
<1>. QED BY <1>4, <1>6 DEF FromTo



\* Whatever takes these steps as long as it stays in S.
FollowsFold(x, n, S, base, G) ==
  /\ x = [k \in 0..n |-> x[k]] /\ x[0] = base
  /\ \A k \in 1..n : x[k - 1] \in S => x[k] = G[<<k, x[k - 1]>>]

TheFold(to, n, S, base, G) ==
  /\ to[0] = base
  /\ \A k \in 1..n : to[k] = G[<<k, to[k - 1]>>] /\ to[k - 1] \in S
  /\ \A x : FollowsFold(x, n, S, base, G) => x = to

LEMMA FoldAlong ==
  ASSUME NEW n \in Nat, NEW S, NEW base \in S, NEW G,
         \A k \in 1..n, q \in S : G[<<k, q>>] \in S
  PROVE  \E to \in [0..n -> S] : TheFold(to, n, S, base, G)
<1>1. PICK to \in [0..n -> S] : FromTo(to, n, base, G)
  BY AlongFrom
<1>2. ASSUME NEW x, FollowsFold(x, n, S, base, G) PROVE x = to
  <2>. DEFINE U == {m \in Nat : m \in 0..n => x[m] = to[m]}
  <2>1. 0 \in U
    BY <1>1, <1>2 DEF FollowsFold, FromTo
  <2>2. ASSUME NEW m \in Nat, m \in U PROVE m + 1 \in U
    <3>. SUFFICES ASSUME m + 1 \in 0..n PROVE x[m + 1] = to[m + 1]
      OBVIOUS
    <3>1. m + 1 \in 1..n /\ m \in 0..n /\ (m + 1) - 1 = m /\ m + 1 # 0
      OBVIOUS
    <3>2. x[m] = to[m] /\ to[m] \in S
      BY <2>2, <3>1
    <3>3. x[m + 1] = G[<<m + 1, x[m]>>]
      BY <1>2, <3>1, <3>2 DEF FollowsFold
    <3>4. to[m + 1] = G[<<m + 1, to[m]>>]
      BY <1>1, <3>1 DEF FromTo
    <3>. QED BY <3>2, <3>3, <3>4
  <2>3. \A m \in Nat : m \in U
    <3>. HIDE DEF U
    <3>. QED BY <2>1, <2>2, SetInduction
  <2>4. \A m \in 0..n : x[m] = to[m]
    BY <2>3
  <2>5. x = [k \in 0..n |-> x[k]] /\ to = [k \in 0..n |-> to[k]]
    BY <1>2 DEF FollowsFold
  <2>. QED BY <2>4, <2>5
<1>3. to[0] = base
  BY <1>1 DEF FromTo
<1>4. ASSUME NEW k \in 1..n PROVE to[k] = G[<<k, to[k - 1]>>] /\ to[k - 1] \in S
  <2>1. k \in 0..n /\ k - 1 \in 0..n /\ k # 0
    OBVIOUS
  <2>. QED BY <1>1, <2>1 DEF FromTo
<1>. QED BY <1>1, <1>2, <1>3, <1>4 DEF TheFold

(* Functions defined by recursion: m measures how far an argument is from    *)
(* the ground.                                                               *)

LEMMA MeasureInduction ==
  ASSUME NEW X, NEW m \in [X -> Nat], NEW S,
         \A x \in X : (\A y \in X : m[y] < m[x] => y \in S) => x \in S
  PROVE  X \subseteq S
<1>. DEFINE U == {k \in Nat : \A x \in X : m[x] < k => x \in S}
<1>1. 0 \in U
  OBVIOUS
<1>2. ASSUME NEW k \in Nat, k \in U PROVE k + 1 \in U
  <2>. SUFFICES ASSUME NEW x \in X, m[x] < k + 1 PROVE x \in S
    OBVIOUS
  <2>1. \A y \in X : m[y] < m[x] => m[y] < k
    OBVIOUS
  <2>. QED BY <1>2, <2>1
<1>3. \A k \in Nat : k \in U
  <2>. HIDE DEF U
  <2>. QED BY <1>1, <1>2, SetInduction
<1>. SUFFICES ASSUME NEW x \in X PROVE x \in S
  OBVIOUS
<1>4. m[x] + 1 \in U
  <2>. HIDE DEF U
  <2>. QED BY <1>3
<1>. QED BY <1>4

Grounded(X, m, N) == m \in [X -> Nat] /\ N \in Nat /\ \A x \in X : m[x] < N
Descends(X, F, m, Step) ==
  /\ Step \in [F -> F]
  /\ \A f, g \in F, x \in X :
       (\A y \in X : m[y] < m[x] => f[y] = g[y]) => Step[f][x] = Step[g][x]
HasFixpoint(F, Step) == \E f \in F : f = Step[f]

LEMMA Fixpoint ==
  ASSUME NEW X, NEW V, NEW F \in SUBSET [X -> V], NEW base \in F, NEW m, NEW N, NEW Step,
         Grounded(X, m, N), Descends(X, F, m, Step)
  PROVE  HasFixpoint(F, Step)
<1>0. /\ m \in [X -> Nat] /\ N \in Nat /\ \A x \in X : m[x] < N
      /\ Step \in [F -> F]
      /\ \A f, g \in F, x \in X :
           (\A y \in X : m[y] < m[x] => f[y] = g[y]) => Step[f][x] = Step[g][x]
  BY DEF Grounded, Descends
<1>. USE <1>0
<1>. DEFINE S == F
            n == N + 1
            G == [z \in (1..n) \X S |-> Step[z[2]]]
<1>1. n \in Nat /\ base \in S /\ \A k \in 1..n, q \in S : G[<<k, q>>] = Step[q]
  OBVIOUS
<1>2. \A q \in S : Step[q] \in S
  OBVIOUS
<1>. HIDE DEF G, n
<1>3. PICK to \in [0..n -> S] : FromTo(to, n, base, G)
  <2>. HIDE DEF S
  <2>1. \A k \in 1..n, q \in S : G[<<k, q>>] \in S
    BY <1>1, <1>2
  <2>. QED BY <1>1, <2>1, AlongFrom
<1>4. \A k \in 1..n : to[k] = Step[to[k - 1]]
  <2>. HIDE DEF S
  <2>. TAKE k \in 1..n
  <2>1. k \in 0..n /\ k - 1 \in 0..n /\ k # 0
    BY <1>1
  <2>2. to[k] = G[<<k, to[k - 1]>>]
    BY <1>3, <2>1 DEF FromTo
  <2>3. to[k - 1] \in S
    BY <2>1
  <2>. QED BY <1>1, <2>2, <2>3
<1>. DEFINE U == {k \in Nat : k <= N => \A x \in X : m[x] < k => to[k][x] = to[k + 1][x]}
<1>5. 0 \in U
  OBVIOUS
<1>6. ASSUME NEW k \in Nat, k \in U PROVE k + 1 \in U
  <2>. SUFFICES ASSUME k + 1 <= N, NEW x \in X, m[x] < k + 1
                PROVE  to[k + 1][x] = to[(k + 1) + 1][x]
    OBVIOUS
  <2>1. k + 1 \in 1..n /\ (k + 1) + 1 \in 1..n /\ (k + 1) - 1 = k /\ ((k + 1) + 1) - 1 = k + 1 /\ k \in 0..n
        /\ k + 1 \in 0..n
    BY DEF n
  <2>2. to[k + 1] = Step[to[k]] /\ to[(k + 1) + 1] = Step[to[k + 1]]
    BY <1>4, <2>1
  <2>3. \A y \in X : m[y] < m[x] => to[k][y] = to[k + 1][y]
    BY <1>6
  <2>4. to[k] \in F /\ to[k + 1] \in F
    BY <2>1
  <2>. HIDE DEF S, U
  <2>5. Step[to[k]][x] = Step[to[k + 1]][x]
    BY <2>3, <2>4
  <2>. QED BY <2>2, <2>5
<1>7. N \in U
  <2>. HIDE DEF U
  <2>. QED BY <1>5, <1>6, SetInduction
<1>8. N \in 0..n /\ N + 1 \in 1..n /\ N + 1 \in 0..n /\ (N + 1) - 1 = N
  BY DEF n
<1>9. to[N] \in S /\ to[N + 1] \in S /\ to[N + 1] = Step[to[N]]
  BY <1>4, <1>8
<1>10. \A x \in X : to[N][x] = to[N + 1][x]
  BY <1>7
<1>11. to[N] = to[N + 1]
  BY <1>9, <1>10
<1>. QED BY <1>9, <1>11 DEF HasFixpoint

\* A set of natural numbers has a least member.
LEMMA LeastIn ==
  ASSUME NEW S, S \subseteq Nat, S # {}
  PROVE  \E x \in S : \A y \in S : x <= y
<1>. DEFINE U == {k \in Nat : k \notin S}
            T == {k \in Nat : \A j \in 0..k : j \notin S}
<1>. SUFFICES ASSUME \A x \in S : \E y \in S : y < x PROVE FALSE
  OBVIOUS
<1>1. 0 \in T
  <2>1. 0 \notin S
    OBVIOUS
  <2>2. \A j \in 0..0 : j = 0
    OBVIOUS
  <2>. QED BY <2>1, <2>2
<1>2. ASSUME NEW k \in Nat, k \in T PROVE k + 1 \in T
  <2>1. \A y \in S : y > k
    BY <1>2
  <2>2. k + 1 \notin S
    BY <2>1
  <2>3. \A j \in 0..(k + 1) : j \in 0..k \/ j = k + 1
    OBVIOUS
  <2>. QED BY <1>2, <2>2, <2>3
<1>3. \A k \in Nat : k \in T
  <2>. HIDE DEF T
  <2>. QED BY <1>1, <1>2, SetInduction
<1>4. PICK x \in S : TRUE
  OBVIOUS
<1>5. x \in Nat /\ x \in T
  <2>. HIDE DEF T
  <2>. QED BY <1>3
<1>. QED BY <1>4, <1>5

(* Powers of two.                                                            *)

LEMMA PowDefined == Pow = [n \in Nat |-> IF n = 0 THEN 1 ELSE 2 * Pow[n - 1]]
<1>. DEFINE Upto(g, n) == /\ g[0] = 1
                          /\ \A i \in Nat : i < n => g[i + 1] = 2 * g[i]
            S == {n \in Nat : \E g \in [Nat -> Nat] : Upto(g, n)}
<1>1. 0 \in S
  <2>. DEFINE one == [i \in Nat |-> 1]
  <2>1. one \in [Nat -> Nat] /\ Upto(one, 0)
    OBVIOUS
  <2>. HIDE DEF one
  <2>. QED BY <2>1
<1>2. ASSUME NEW n \in Nat, n \in S PROVE n + 1 \in S
  <2>1. PICK g \in [Nat -> Nat] : Upto(g, n)
    BY <1>2
  <2>. DEFINE h == [g EXCEPT ![n + 1] = 2 * g[n]]
  <2>2. h \in [Nat -> Nat] /\ h[n + 1] = 2 * g[n] /\ \A i \in Nat : i # n + 1 => h[i] = g[i]
    OBVIOUS
  <2>. HIDE DEF h
  <2>3. h[0] = 1
    BY <2>1, <2>2
  <2>4. ASSUME NEW i \in Nat, i < n + 1 PROVE h[i + 1] = 2 * h[i]
    <3>1. CASE i = n
      BY <2>2, <3>1
    <3>2. CASE i # n
      BY <2>1, <2>2, <2>4, <3>2
    <3>. QED BY <3>1, <3>2
  <2>. QED BY <2>2, <2>3, <2>4
<1>3. \A n \in Nat : \E g \in [Nat -> Nat] : Upto(g, n)
  <2>1. \A n \in Nat : n \in S
    <3>. HIDE DEF S
    <3>. QED BY <1>1, <1>2, SetInduction
  <2>. HIDE DEF Upto
  <2>. QED BY <2>1
<1>. DEFINE G(n) == CHOOSE g \in [Nat -> Nat] : Upto(g, n)
            f == [n \in Nat |-> G(n)[n]]
<1>4. ASSUME NEW n \in Nat PROVE G(n) \in [Nat -> Nat] /\ Upto(G(n), n)
  <2>. HIDE DEF Upto
  <2>. QED BY <1>3
<1>5. ASSUME NEW n \in Nat, NEW m \in Nat, n <= m PROVE G(n)[n] = G(m)[n]
  <2>. DEFINE T == {i \in Nat : i <= n => G(n)[i] = G(m)[i]}
  <2>0. Upto(G(n), n) /\ Upto(G(m), m)
    BY <1>4
  <2>. HIDE DEF G
  <2>1. 0 \in T
    BY <2>0
  <2>2. ASSUME NEW i \in Nat, i \in T PROVE i + 1 \in T
    BY <2>0, <2>2, <1>5
  <2>3. n \in T
    <3>. HIDE DEF T
    <3>. QED BY <2>1, <2>2, SetInduction
  <2>. QED BY <2>3
<1>6. f = [n \in Nat |-> IF n = 0 THEN 1 ELSE 2 * f[n - 1]]
  <2>1. ASSUME NEW n \in Nat PROVE f[n] = IF n = 0 THEN 1 ELSE 2 * f[n - 1]
    <3>1. CASE n = 0
      <4>1. Upto(G(n), n)
        BY <1>4
      <4>. HIDE DEF G
      <4>. QED BY <3>1, <4>1
    <3>2. CASE n # 0
      <4>1. n - 1 \in Nat /\ n - 1 < n /\ n - 1 <= n /\ (n - 1) + 1 = n
        BY <3>2
      <4>2. Upto(G(n), n) /\ G(n - 1)[n - 1] = G(n)[n - 1]
        BY <1>4, <1>5, <4>1
      <4>. HIDE DEF G
      <4>3. G(n)[n] = 2 * G(n)[n - 1]
        BY <4>1, <4>2
      <4>. QED BY <3>2, <4>1, <4>2, <4>3
    <3>. QED BY <3>1, <3>2
  <2>. HIDE DEF G
  <2>. QED BY <2>1
<1>. HIDE DEF f
<1>. QED BY <1>6 DEF Pow

LEMMA PowNext == Pow[0] = 1 /\ \A n \in Nat : Pow[n + 1] = 2 * Pow[n]
<1>1. \A n \in Nat : Pow[n] = IF n = 0 THEN 1 ELSE 2 * Pow[n - 1]
  BY PowDefined
<1>. QED BY <1>1

LEMMA PowNat == \A n \in Nat : Pow[n] \in Nat /\ Pow[n] > 0
<1>. DEFINE S == {n \in Nat : Pow[n] \in Nat /\ Pow[n] > 0}
<1>1. 0 \in S
  BY PowNext
<1>2. ASSUME NEW n \in Nat, n \in S PROVE n + 1 \in S
  BY <1>2, PowNext
<1>3. \A n \in Nat : n \in S
  <2>. HIDE DEF S
  <2>. QED BY <1>1, <1>2, SetInduction
<1>. QED BY <1>3
-----------------------------------------------------------------------------
(* Parts of sequences.                                                      *)

LEMMA LenIsNat == ASSUME NEW D, NEW s \in Seq(D)
                  PROVE  Len(s) \in Nat /\ \A k \in 1..Len(s) : s[k] \in D
OBVIOUS

LEMMA WiderSeq == ASSUME NEW S, NEW T, S \subseteq T, NEW s \in Seq(S) PROVE s \in Seq(T)
<1>1. Len(s) \in Nat /\ \A i \in 1..Len(s) : s[i] \in T
  OBVIOUS
<1>2. s = [i \in 1..Len(s) |-> s[i]]
  OBVIOUS
<1>. QED BY <1>1, <1>2

LEMMA BehindConcat ==
  ASSUME NEW S, NEW a \in Seq(S), NEW b \in Seq(S), NEW k \in 1..Len(b)
  PROVE  (a \o b)[Len(a) + k] = b[k]
<1>1. Len(a) \in Nat /\ Len(b) \in Nat /\ k \in Int /\ 1 <= k /\ k <= Len(b)
  OBVIOUS
<1>2. Len(a) + k \in 1..(Len(a) + Len(b)) /\ ~(Len(a) + k <= Len(a)) /\ (Len(a) + k) - Len(a) = k
  BY <1>1
<1>3. (a \o b)[Len(a) + k] = b[(Len(a) + k) - Len(a)]
  BY <1>1, <1>2
<1>. QED BY <1>2, <1>3

LEMMA SubSeqGrows ==
  ASSUME NEW S, NEW s \in Seq(S), NEW k \in Nat, k < Len(s)
  PROVE  SubSeq(s, 1, k + 1) = Append(SubSeq(s, 1, k), s[k + 1])
<1>1. Len(s) \in Nat /\ \A i \in 1..Len(s) : s[i] \in S
  OBVIOUS
<1>. DEFINE a == SubSeq(s, 1, k)
            b == SubSeq(s, 1, k + 1)
            c == Append(a, s[k + 1])
<1>2. a \in Seq(S) /\ Len(a) = k /\ \A i \in 1..k : a[i] = s[i]
  BY <1>1
<1>3. b \in Seq(S) /\ Len(b) = k + 1 /\ \A i \in 1..(k + 1) : b[i] = s[i]
  BY <1>1
<1>4. s[k + 1] \in S
  BY <1>1
<1>. HIDE DEF a, b
<1>5. c \in Seq(S) /\ Len(c) = k + 1 /\ c[k + 1] = s[k + 1] /\ \A i \in 1..k : c[i] = a[i]
  BY <1>2, <1>4
<1>6. \A i \in 1..(k + 1) : c[i] = b[i]
  BY <1>2, <1>3, <1>5
<1>. HIDE DEF c
<1>7. b = c
  BY <1>3, <1>5, <1>6, SeqEqual
<1>. QED BY <1>7 DEF a, b, c

LEMMA AppendFacts ==
  ASSUME NEW S, NEW s \in Seq(S), NEW x \in S
  PROVE  /\ Append(s, x) \in Seq(S) /\ Append(s, x) # <<>> /\ Len(Append(s, x)) = Len(s) + 1
         /\ Append(s, x)[Len(s) + 1] = x /\ \A i \in 1..Len(s) : Append(s, x)[i] = s[i]
         /\ s # <<>> => Append(s, x)[1] = s[1]
<1>1. Len(s) \in Nat /\ (s # <<>> <=> Len(s) # 0)
  OBVIOUS
<1>2. Append(s, x) \in Seq(S) /\ Len(Append(s, x)) = Len(s) + 1 /\ Append(s, x)[Len(s) + 1] = x
      /\ \A i \in 1..Len(s) : Append(s, x)[i] = s[i]
  OBVIOUS
<1>3. Append(s, x) # <<>>
  <2>1. Len(Append(s, x)) # 0 /\ Len(<<>>) = 0
    BY <1>1, <1>2
  <2>. QED BY <2>1
<1>4. s # <<>> => 1 \in 1..Len(s)
  BY <1>1
<1>. QED BY <1>2, <1>3, <1>4

LEMMA FirstIsHead ==
  ASSUME NEW S, NEW s \in Seq(S), s # <<>>
  PROVE  Head(s) = s[1] /\ 1 \in 1..Len(s) /\ Tail(s) = SubSeq(s, 2, Len(s))
<1>1. Len(s) \in Nat /\ Len(s) # 0
  OBVIOUS
<1>2. Tail(s) = SubSeq(s, 2, Len(s))
  OBVIOUS
<1>. QED BY <1>1, <1>2

CutText(D, doc, h, f, n) ==
  /\ doc # <<>> /\ doc[1] = h
  /\ Tail(doc) \in Seq(D) /\ Len(Tail(doc)) = n - 1
  /\ \A k \in 1..(n - 1) : Tail(doc)[k] = f[k]

\* The first n lines of a text that has the line h and then those of f.
LEMMA CutOff ==
  ASSUME NEW D, NEW f \in Seq(D), NEW h, NEW n \in 1..(Len(f) + 1)
  PROVE  CutText(D, SubSeq(<<h>> \o f, 1, n), h, f, n)
<1>. DEFINE all == <<h>> \o f
            doc == SubSeq(all, 1, n)
            E == D \cup {h}
            z == <<h>>
<1>1. z \in Seq(E) /\ Len(z) = 1 /\ z[1] = h /\ f \in Seq(E) /\ Len(f) \in Nat
  BY WiderSeq
<1>. HIDE DEF z
<1>2. all = z \o f
  BY DEF z
<1>. HIDE DEF E
<1>3. all \in Seq(E) /\ Len(all) = Len(f) + 1 /\ all[1] = h
  BY <1>1, <1>2
<1>4. \A k \in 1..Len(f) : all[k + 1] = f[k]
  <2>. TAKE k \in 1..Len(f)
  <2>1. (z \o f)[Len(z) + k] = f[k]
    BY <1>1, BehindConcat
  <2>2. Len(z) + k = k + 1
    BY <1>1
  <2>. QED BY <1>2, <2>1, <2>2
<1>. HIDE DEF all
<1>5. n \in Nat /\ n >= 1 /\ n <= Len(all)
  BY <1>1, <1>3
<1>6. doc \in Seq(E) /\ Len(doc) = n /\ \A k \in 1..n : doc[k] = all[k]
  BY <1>1, <1>3, <1>5
<1>. HIDE DEF doc
<1>7. doc # <<>> /\ doc[1] = h
  <2>1. 1 \in 1..n
    BY <1>5
  <2>2. doc[1] = all[1]
    BY <1>6, <2>1
  <2>3. Len(doc) # 0 /\ Len(<<>>) = 0
    BY <1>5, <1>6
  <2>. QED BY <1>3, <2>2, <2>3
<1>8. Tail(doc) \in Seq(E) /\ Len(Tail(doc)) = n - 1 /\ \A k \in 1..(n - 1) : Tail(doc)[k] = doc[k + 1]
  BY <1>5, <1>6, <1>7
<1>9. \A k \in 1..(n - 1) : Tail(doc)[k] = f[k] /\ f[k] \in D
  <2>. TAKE k \in 1..(n - 1)
  <2>1. k \in 1..Len(f) /\ k + 1 \in 1..n
    BY <1>1, <1>3, <1>5
  <2>2. f[k] \in D
    BY <2>1
  <2>. QED BY <1>4, <1>6, <1>8, <2>1, <2>2
<1>. DEFINE t == Tail(doc)
<1>10. t \in Seq(E) /\ Len(t) = n - 1 /\ n - 1 \in Nat /\ \A k \in 1..(n - 1) : t[k] \in D
  <2>1. n - 1 \in Nat
    BY <1>5
  <2>2. \A k \in 1..(n - 1) : t[k] \in D
    BY <1>9
  <2>. QED BY <1>8, <2>1, <2>2
<1>11. t \in Seq(D)
  <2>. DEFINE c == n - 1
  <2>1. t \in Seq(E) /\ Len(t) = c /\ c \in Nat /\ \A k \in 1..c : t[k] \in D
    BY <1>10
  <2>. HIDE DEF t, c
  <2>2. t = [k \in 1..c |-> t[k]]
    BY <2>1
  <2>3. [k \in 1..c |-> t[k]] \in Seq(D)
    BY <2>1
  <2>. QED BY <2>2, <2>3
<1>12. CutText(D, doc, h, f, n)
  BY <1>7, <1>8, <1>9, <1>11 DEF CutText
<1>. QED BY <1>12 DEF doc, all


\* Pieces of lengths q at p, none of which reaches into the next.
InOrder(p, q, n) == p \in [1..n -> Nat] /\ q \in [1..n -> Nat] /\ \A i \in 1..n : i < n => p[i] + q[i] <= p[i + 1]

LEMMA OrderedPieces ==
  ASSUME NEW n \in Nat, NEW p, NEW q, InOrder(p, q, n)
  PROVE  \A j \in 1..n : \A i \in 1..j : i < j => p[i] + q[i] <= p[j]
<1>. DEFINE U == {j \in Nat : j \in 1..n => \A i \in 1..j : i < j => p[i] + q[i] <= p[j]}
<1>1. 0 \in U
  OBVIOUS
<1>2. ASSUME NEW j \in Nat, j \in U PROVE j + 1 \in U
  <2>. SUFFICES ASSUME j + 1 \in 1..n, NEW i \in 1..(j + 1), i < j + 1 PROVE p[i] + q[i] <= p[j + 1]
    OBVIOUS
  <2>1. i \in 1..j /\ i \in 1..n /\ j \in 1..n /\ j < n /\ j + 1 \in 1..n
    OBVIOUS
  <2>2. p[j] + q[j] <= p[j + 1]
    BY <2>1 DEF InOrder
  <2>3. p[i] \in Nat /\ q[i] \in Nat /\ p[j] \in Nat /\ q[j] \in Nat /\ p[j + 1] \in Nat
    BY <2>1 DEF InOrder
  <2>4. CASE i = j
    BY <2>2, <2>4
  <2>5. CASE i # j
    <3>1. i < j
      BY <2>1, <2>5
    <3>2. p[i] + q[i] <= p[j]
      BY <1>2, <2>1, <3>1
    <3>. QED BY <2>2, <2>3, <3>2
  <2>. QED BY <2>4, <2>5
<1>. HIDE DEF U
<1>3. \A j \in Nat : j \in U
  BY <1>1, <1>2, SetInduction
<1>4. \A j \in 1..n : j \in Nat
  OBVIOUS
<1>. QED BY <1>3, <1>4 DEF U

-----------------------------------------------------------------------------
(* A stack along a list of lines: st[k] is the stack behind line k, O are the*)
(* lines that open, E those that close, H[k] is what line k pushes.         *)

StackRun(st, n, V, O, E, H) ==
  /\ st \in [0..n -> Seq(V)] /\ st[0] = <<>>
  /\ O \cap E = {}
  /\ \A k \in 1..n : k \in O => st[k] = Append(st[k - 1], H[k]) /\ H[k] \in V
  /\ \A k \in 1..n : k \in E => st[k - 1] # <<>> /\ st[k] = SubSeq(st[k - 1], 1, Len(st[k - 1]) - 1)
  /\ \A k \in 1..n : k \notin O /\ k \notin E => st[k] = st[k - 1]

\* The depths, and what a line does to the elements below.
Depths(st, n, O, E, H, D) ==
  /\ D \in [0..n -> Nat] /\ D[0] = 0
  /\ \A k \in 0..n : Len(st[k]) = D[k]
  /\ \A k \in 1..n : k \in O => /\ D[k] = D[k - 1] + 1 /\ st[k][D[k]] = H[k]
                                /\ \A p \in 1..D[k - 1] : st[k][p] = st[k - 1][p]
  /\ \A k \in 1..n : k \in E => /\ D[k - 1] = D[k] + 1
                                /\ \A p \in 1..D[k] : st[k][p] = st[k - 1][p]
  /\ \A k \in 1..n : k \notin O /\ k \notin E => D[k] = D[k - 1] /\ st[k] = st[k - 1]

LEMMA StackDepths ==
  ASSUME NEW n \in Nat, NEW V, NEW O, NEW E, NEW H, NEW st, StackRun(st, n, V, O, E, H)
  PROVE  Depths(st, n, O, E, H, [k \in 0..n |-> Len(st[k])])
<1>. DEFINE D == [k \in 0..n |-> Len(st[k])]
<1>1. st \in [0..n -> Seq(V)] /\ st[0] = <<>>
  BY DEF StackRun
<1>2. \A k \in 0..n : st[k] \in Seq(V) /\ D[k] = Len(st[k]) /\ D[k] \in Nat
  <2>. TAKE k \in 0..n
  <2>1. st[k] \in Seq(V)
    BY <1>1
  <2>. QED BY <2>1
<1>3. D \in [0..n -> Nat] /\ D[0] = 0
  BY <1>1, <1>2
<1>. HIDE DEF D
<1>4. ASSUME NEW k \in 1..n PROVE k - 1 \in 0..n /\ k \in 0..n
  OBVIOUS
<1>5. ASSUME NEW k \in 1..n, k \in O
      PROVE  /\ D[k] = D[k - 1] + 1 /\ st[k][D[k]] = H[k]
             /\ \A p \in 1..D[k - 1] : st[k][p] = st[k - 1][p]
  <2>. DEFINE a == st[k - 1]
              b == st[k]
              c == D[k - 1]
              h == H[k]
  <2>1. b = Append(a, h) /\ h \in V
    BY <1>5 DEF StackRun
  <2>2. a \in Seq(V) /\ c = Len(a) /\ D[k] = Len(b) /\ c \in Nat
    BY <1>2, <1>4
  <2>. HIDE DEF a, b, c, h
  <2>3. Len(b) = c + 1 /\ b[c + 1] = h /\ \A p \in 1..c : b[p] = a[p]
    BY <2>1, <2>2
  <2>4. D[k] = c + 1
    BY <2>2, <2>3
  <2>. QED BY <2>3, <2>4 DEF a, b, c, h
<1>6. ASSUME NEW k \in 1..n, k \in E
      PROVE  /\ D[k - 1] = D[k] + 1
             /\ \A p \in 1..D[k] : st[k][p] = st[k - 1][p]
  <2>. DEFINE a == st[k - 1]
              b == st[k]
              c == D[k - 1]
              e == D[k]
  <2>1. a # <<>> /\ b = SubSeq(a, 1, Len(a) - 1)
    BY <1>6 DEF StackRun
  <2>2. a \in Seq(V) /\ c = Len(a) /\ e = Len(b) /\ c \in Nat /\ e \in Nat
    BY <1>2, <1>4
  <2>. HIDE DEF a, b, c, e
  <2>3. c # 0 /\ c - 1 \in Nat
    BY <2>1, <2>2
  <2>4. Len(b) = c - 1 /\ \A p \in 1..(c - 1) : b[p] = a[p]
    BY <2>1, <2>2, <2>3
  <2>5. c = e + 1 /\ \A p \in 1..e : b[p] = a[p]
    BY <2>2, <2>3, <2>4
  <2>. QED BY <2>5 DEF a, b, c, e
<1>7. ASSUME NEW k \in 1..n, k \notin O, k \notin E PROVE D[k] = D[k - 1] /\ st[k] = st[k - 1]
  <2>1. st[k] = st[k - 1]
    BY <1>7 DEF StackRun
  <2>. QED BY <1>2, <1>4, <2>1
<1>8. Depths(st, n, O, E, H, D)
  BY <1>2, <1>3, <1>5, <1>6, <1>7 DEF Depths
<1>. QED BY <1>8 DEF D

\* Line j has opened what is still open behind line k.
Holding(D, O, j, k) == j \in O /\ \A q \in j..k : D[q] >= D[j]

\* The elements of the stack are those of the lines that are still open.
KnowsHolders(st, n, O, H, D) ==
  \A k \in 0..n :
    /\ \A j \in 1..k : Holding(D, O, j, k) => D[j] \in 1..D[k] /\ st[k][D[j]] = H[j]
    /\ \A p \in 1..D[k] : \E j \in 1..k : Holding(D, O, j, k) /\ D[j] = p

LEMMA StackHolds ==
  ASSUME NEW n \in Nat, NEW O, NEW E, O \cap E = {}, NEW H, NEW st, NEW D, Depths(st, n, O, E, H, D)
  PROVE  KnowsHolders(st, n, O, H, D)
<1>. DEFINE Known(k) == \A j \in 1..k : Holding(D, O, j, k) => D[j] \in 1..D[k] /\ st[k][D[j]] = H[j]
            Full(k) == \A p \in 1..D[k] : \E j \in 1..k : Holding(D, O, j, k) /\ D[j] = p
            U == {k \in Nat : k <= n => Known(k) /\ Full(k)}
<1>1. /\ D \in [0..n -> Nat] /\ D[0] = 0
      /\ \A k \in 1..n : k \in O => /\ D[k] = D[k - 1] + 1 /\ st[k][D[k]] = H[k]
                                    /\ \A p \in 1..D[k - 1] : st[k][p] = st[k - 1][p]
      /\ \A k \in 1..n : k \in E => /\ D[k - 1] = D[k] + 1
                                    /\ \A p \in 1..D[k] : st[k][p] = st[k - 1][p]
      /\ \A k \in 1..n : k \notin O /\ k \notin E => D[k] = D[k - 1] /\ st[k] = st[k - 1]
  BY DEF Depths
<1>2. 0 \in U
  <2>1. 1..0 = {} /\ 1..D[0] = {}
    BY <1>1
  <2>. QED BY <2>1
<1>3. ASSUME NEW k \in Nat, k \in U PROVE k + 1 \in U
  <2>. SUFFICES ASSUME k + 1 <= n PROVE Known(k + 1) /\ Full(k + 1)
    OBVIOUS
  <2>. DEFINE m == k + 1
  <2>1. Known(k) /\ Full(k) /\ k \in 0..n /\ m \in 1..n /\ m - 1 = k /\ m \in Nat /\ D[k] \in Nat /\ D[m] \in Nat
    <3>1. k \in 0..n /\ m \in 1..n /\ m \in 0..n /\ m - 1 = k /\ m \in Nat /\ k <= n
      OBVIOUS
    <3>2. k <= n => Known(k) /\ Full(k)
      BY <1>3
    <3>. HIDE DEF Known, Full, m
    <3>. QED BY <1>1, <3>1, <3>2
  <2>2. \A j \in 1..k : D[j] \in Nat /\ j \in Int /\ k \in j..k /\ j..m = (j..k) \cup {m}
    <3>. TAKE j \in 1..k
    <3>1. j \in 0..n /\ j \in Int /\ j <= k /\ k \in Int
      BY <2>1
    <3>2. k \in j..k /\ j..(k + 1) = (j..k) \cup {k + 1}
      BY ONLY <3>1
    <3>. QED BY <1>1, <3>1, <3>2
  <2>3. 1..m = (1..k) \cup {m} /\ m..m = {m}
    OBVIOUS
  <2>. HIDE DEF m
  <2>4. \A j \in 1..k : Holding(D, O, j, m) <=> Holding(D, O, j, k) /\ D[m] >= D[j]
    BY <2>2 DEF Holding
  <2>5. Holding(D, O, m, m) <=> m \in O
    BY <2>1, <2>3 DEF Holding
  <2>6. \A j \in 1..k : Holding(D, O, j, k) => D[j] \in 1..D[k] /\ st[k][D[j]] = H[j]
    BY <2>1
  <2>7. \A p \in 1..D[k] : \E j \in 1..k : Holding(D, O, j, k) /\ D[j] = p
    BY <2>1
  <2>. HIDE DEF Known, Full
  <2>8. CASE m \in O
    <3>1. D[m] = D[k] + 1 /\ st[m][D[m]] = H[m] /\ \A p \in 1..D[k] : st[m][p] = st[k][p]
      <4>1. D[m] = D[m - 1] + 1 /\ st[m][D[m]] = H[m] /\ \A p \in 1..D[m - 1] : st[m][p] = st[m - 1][p]
        BY <1>1, <2>1, <2>8
      <4>. QED BY <2>1, <4>1
    <3>2. ASSUME NEW j \in 1..m, Holding(D, O, j, m) PROVE D[j] \in 1..D[m] /\ st[m][D[j]] = H[j]
      <4>1. CASE j = m
        BY <2>1, <3>1, <4>1
      <4>2. CASE j \in 1..k
        <5>1. D[j] \in 1..D[k] /\ st[k][D[j]] = H[j]
          BY <2>4, <2>6, <3>2, <4>2
        <5>. QED BY <2>1, <3>1, <5>1
      <4>. QED BY <2>3, <4>1, <4>2
    <3>3. ASSUME NEW p \in 1..D[m] PROVE \E j \in 1..m : Holding(D, O, j, m) /\ D[j] = p
      <4>1. CASE p = D[m]
        BY <2>3, <2>5, <2>8, <4>1
      <4>2. CASE p # D[m]
        <5>1. p \in 1..D[k]
          BY <2>1, <3>1, <4>2
        <5>2. PICK j \in 1..k : Holding(D, O, j, k) /\ D[j] = p
          BY <2>7, <5>1
        <5>3. D[m] >= D[j]
          BY <2>1, <3>1, <5>1, <5>2
        <5>. QED BY <2>3, <2>4, <5>2, <5>3
      <4>. QED BY <4>1, <4>2
    <3>. QED BY <3>2, <3>3 DEF Known, Full, m
  <2>9. CASE m \notin O
    <3>1. D[m] <= D[k] /\ \A p \in 1..D[m] : st[m][p] = st[k][p]
      <4>1. CASE m \in E
        <5>1. D[m - 1] = D[m] + 1 /\ \A p \in 1..D[m] : st[m][p] = st[m - 1][p]
          BY <1>1, <2>1, <4>1
        <5>. QED BY <2>1, <5>1
      <4>2. CASE m \notin E
        <5>1. D[m] = D[m - 1] /\ st[m] = st[m - 1]
          BY <1>1, <2>1, <2>9, <4>2
        <5>. QED BY <2>1, <5>1
      <4>. QED BY <4>1, <4>2
    <3>2. ASSUME NEW j \in 1..m, Holding(D, O, j, m) PROVE D[j] \in 1..D[m] /\ st[m][D[j]] = H[j]
      <4>1. j \in 1..k
        BY <2>3, <2>5, <2>9, <3>2
      <4>2. D[j] \in 1..D[k] /\ st[k][D[j]] = H[j] /\ D[m] >= D[j]
        BY <2>4, <2>6, <3>2, <4>1
      <4>3. D[j] \in 1..D[m]
        BY <2>1, <4>2
      <4>. QED BY <3>1, <4>2, <4>3
    <3>3. ASSUME NEW p \in 1..D[m] PROVE \E j \in 1..m : Holding(D, O, j, m) /\ D[j] = p
      <4>1. p \in 1..D[k] /\ p <= D[m]
        BY <2>1, <3>1
      <4>2. PICK j \in 1..k : Holding(D, O, j, k) /\ D[j] = p
        BY <2>7, <4>1
      <4>3. D[m] >= D[j]
        BY <2>1, <4>1, <4>2
      <4>. QED BY <2>3, <2>4, <4>2, <4>3
    <3>. QED BY <3>2, <3>3 DEF Known, Full, m
  <2>. QED BY <2>8, <2>9
<1>. HIDE DEF U
<1>4. \A k \in Nat : k \in U
  BY <1>2, <1>3, SetInduction
<1>5. \A k \in 0..n : Known(k) /\ Full(k)
  BY <1>4 DEF U
<1>. QED BY <1>5 DEF KnowsHolders

\* The members of S from j to k.
Among(S, j, k) == {m \in j..k : m \in S}

LEMMA AmongGrows ==
  ASSUME NEW S, NEW j \in Int, NEW k \in Int, j <= k + 1
  PROVE  /\ Cardinality(Among(S, j, k)) \in Nat
         /\ k + 1 \in S => Cardinality(Among(S, j, k + 1)) = Cardinality(Among(S, j, k)) + 1
         /\ k + 1 \notin S => Cardinality(Among(S, j, k + 1)) = Cardinality(Among(S, j, k))
<1>. DEFINE A == Among(S, j, k)
            B == Among(S, j, k + 1)
<1>1. IsFiniteSet(A)
  <2>1. A \subseteq j..k
    BY DEF Among
  <2>2. IsFiniteSet(j..k)
    BY FS_Interval
  <2>. QED BY <2>1, <2>2, FS_Subset
<1>2. Cardinality(A) \in Nat
  BY <1>1, FS_CardinalityType
<1>3. j..(k + 1) = (j..k) \cup {k + 1} /\ k + 1 \notin j..k
  OBVIOUS
<1>4. k + 1 \in S => B = A \cup {k + 1} /\ k + 1 \notin A
  BY <1>3 DEF Among
<1>5. k + 1 \notin S => B = A
  BY <1>3 DEF Among
<1>. HIDE DEF A, B
<1>6. k + 1 \in S => Cardinality(B) = Cardinality(A) + 1
  BY <1>1, <1>4, FS_AddElement
<1>. QED BY <1>2, <1>5, <1>6 DEF A, B

\* The depth counts the lines that open and those that close.
Counted(D, O, E, j, k) ==
  /\ Cardinality(Among(O, j, k)) \in Nat /\ Cardinality(Among(E, j, k)) \in Nat
  /\ D[k] + Cardinality(Among(E, j, k)) = D[j - 1] + Cardinality(Among(O, j, k))

LEMMA DepthsCount ==
  ASSUME NEW n \in Nat, NEW O, NEW E, O \cap E = {}, NEW H, NEW st, NEW D, Depths(st, n, O, E, H, D),
         NEW j \in 1..n, NEW k \in 0..n, j - 1 <= k
  PROVE  Counted(D, O, E, j, k)
<1>. DEFINE o(i) == Cardinality(Among(O, j, i))
            e(i) == Cardinality(Among(E, j, i))
            P(i) == D[i] + e(i) = D[j - 1] + o(i)
            U == {i \in Nat : j - 1 + i <= n => P(j - 1 + i)}
<1>1. /\ D \in [0..n -> Nat]
      /\ \A i \in 1..n : i \in O => D[i] = D[i - 1] + 1
      /\ \A i \in 1..n : i \in E => D[i - 1] = D[i] + 1
      /\ \A i \in 1..n : i \notin O /\ i \notin E => D[i] = D[i - 1]
  BY DEF Depths
<1>2. j \in Int /\ 1 <= j /\ j <= n /\ j - 1 \in 0..n /\ k \in Int /\ j - 1 <= k /\ k <= n
  OBVIOUS
<1>3. \A i \in Int : j <= i + 1 =>
        /\ o(i) \in Nat /\ e(i) \in Nat
        /\ i + 1 \in O => o(i + 1) = o(i) + 1
        /\ i + 1 \notin O => o(i + 1) = o(i)
        /\ i + 1 \in E => e(i + 1) = e(i) + 1
        /\ i + 1 \notin E => e(i + 1) = e(i)
  BY <1>2, AmongGrows
<1>4. o(j - 1) = 0 /\ e(j - 1) = 0
  <2>1. Among(O, j, j - 1) = {} /\ Among(E, j, j - 1) = {}
    BY <1>2 DEF Among
  <2>. QED BY <2>1, FS_EmptySet
<1>. HIDE DEF o, e
<1>5. 0 \in U
  <2>1. j - 1 + 0 = j - 1 /\ D[j - 1] \in Nat
    BY <1>1, <1>2
  <2>. QED BY <1>4, <2>1
<1>6. ASSUME NEW i \in Nat, i \in U PROVE i + 1 \in U
  <2>. DEFINE q == j - 1 + i
  <2>. SUFFICES ASSUME j - 1 + (i + 1) <= n PROVE P(j - 1 + (i + 1))
    OBVIOUS
  <2>1. q \in Int /\ j <= q + 1 /\ q + 1 = j - 1 + (i + 1) /\ q + 1 \in 1..n /\ q \in 0..n /\ (q + 1) - 1 = q /\ q <= n
    BY <1>2
  <2>2. P(q)
    BY <1>6, <2>1
  <2>. HIDE DEF q
  <2>3. D[q] \in Nat /\ D[q + 1] \in Nat /\ D[j - 1] \in Nat
    BY <1>1, <1>2, <2>1
  <2>4. /\ o(q) \in Nat /\ e(q) \in Nat
        /\ q + 1 \in O => o(q + 1) = o(q) + 1
        /\ q + 1 \notin O => o(q + 1) = o(q)
        /\ q + 1 \in E => e(q + 1) = e(q) + 1
        /\ q + 1 \notin E => e(q + 1) = e(q)
    BY <1>3, <2>1
  <2>5. CASE q + 1 \in O
    <3>1. q + 1 \notin E /\ D[q + 1] = D[q] + 1
      BY <1>1, <2>1, <2>5
    <3>. QED BY <2>1, <2>2, <2>3, <2>4, <2>5, <3>1
  <2>6. CASE q + 1 \in E
    <3>1. q + 1 \notin O /\ D[q] = D[q + 1] + 1
      BY <1>1, <2>1, <2>6
    <3>. QED BY <2>1, <2>2, <2>3, <2>4, <2>6, <3>1
  <2>7. CASE q + 1 \notin O /\ q + 1 \notin E
    <3>1. D[q + 1] = D[q]
      BY <1>1, <2>1, <2>7
    <3>. QED BY <2>1, <2>2, <2>3, <2>4, <2>7, <3>1
  <2>. QED BY <2>5, <2>6, <2>7
<1>7. P(k)
  <2>1. \A i \in Nat : i \in U
    <3>. HIDE DEF U
    <3>. QED BY <1>5, <1>6, SetInduction
  <2>. DEFINE i == k - (j - 1)
  <2>2. i \in Nat /\ j - 1 + i = k /\ k <= n
    BY <1>2
  <2>. HIDE DEF i
  <2>3. P(j - 1 + i)
    BY <2>1, <2>2
  <2>. QED BY <2>2, <2>3
<1>8. o(k) \in Nat /\ e(k) \in Nat
  BY <1>2, <1>3
<1>. QED BY <1>7, <1>8 DEF o, e, Counted
=============================================================================
