--------------------------- MODULE TerminalProofs ---------------------------
(* Proofs about module Terminal, for every FIFO depth and set of bytes.      *)
EXTENDS Terminal, Lemmas

\* What the thread queues for a byte that has a character is a character, and
\* characters are numbers that print as bytes.
LEMMA CharFacts ==
  /\ \A tr \in Modes, b \in Bytes : ToGuest(tr, b) # NoChar => ToGuest(tr, b) \in Chars
  /\ Bytes \subseteq Chars
  /\ Chars \subseteq Int
  /\ \A tr \in Modes, w \in Int : ToHost(tr, w) \in Seq(0..255)
<1>1. \A b \in 0..255 : Encode(b) \in Int
  BY DEF Encode, NoChar, Newline, CarriageReturn
<1>2. \A tr \in Modes, b \in Bytes : ToGuest(tr, b) \in Int
  <2>. SUFFICES ASSUME NEW tr \in Modes, NEW b \in Bytes PROVE ToGuest(tr, b) \in Int
    OBVIOUS
  <2>1. b \in 0..255
    BY BytesAssumption
  <2>2. Encode(b) \in Int /\ b % 256 \in Int
    BY <1>1, <2>1
  <2>. QED BY <2>2 DEF ToGuest
<1>3. \A w \in Int : Decode(w) = NoChar \/ Decode(w) \in 0..127
  <2>. SUFFICES ASSUME NEW w \in Int PROVE Decode(w) = NoChar \/ Decode(w) \in 0..127
    OBVIOUS
  <2>1. w % 64 \in 0..63
    OBVIOUS
  <2>. QED BY <2>1 DEF Decode, Newline
<1>4. ASSUME NEW tr \in Modes, NEW w \in Int PROVE ToHost(tr, w) \in Seq(0..255)
  <2>1. \A c \in 0..255 : Utf8(c) \in Seq(0..255)
    <3>. SUFFICES ASSUME NEW c \in 0..255 PROVE Utf8(c) \in Seq(0..255)
      OBVIOUS
    <3>. DEFINE high == 192 + (c \div 64)
                low == 128 + (c % 64)
    <3>1. high \in 0..255 /\ low \in 0..255
      OBVIOUS
    <3>2. Utf8(c) = <<c>> \/ Utf8(c) = <<high, low>>
      BY DEF Utf8
    <3>. HIDE DEF high, low
    <3>3. <<c>> \in Seq(0..255) /\ <<high, low>> \in Seq(0..255)
      BY <3>1
    <3>. QED BY <3>2, <3>3
  <2>2. w % 256 \in 0..255
    OBVIOUS
  <2>3. CASE ~tr
    BY <2>1, <2>2, <2>3 DEF ToHost
  <2>4. CASE tr /\ Decode(w) = NoChar
    BY <2>4 DEF ToHost
  <2>5. CASE tr /\ Decode(w) # NoChar
    <3>1. Decode(w) \in 0..255
      BY <1>3, <2>5
    <3>. QED BY <2>1, <2>5, <3>1 DEF ToHost
  <2>. QED BY <2>3, <2>4, <2>5
<1>5. /\ \A tr \in Modes, b \in Bytes : ToGuest(tr, b) # NoChar => ToGuest(tr, b) \in Chars
      /\ Bytes \subseteq Chars
      /\ Chars \subseteq Int
  BY <1>2, BytesAssumption DEF Chars
<1>. QED BY ONLY <1>4, <1>5

\* Type correctness with the FIFO bound: the receive queue never holds more
\* than Depth characters, whatever the threads' interleaving.
THEOREM TypeCorrect == Spec => []TypeOK
<1>1. Init => TypeOK
  <2>. SUFFICES ASSUME Init PROVE TypeOK
    OBVIOUS
  <2>1. rx \in Seq(Bytes) /\ Len(rx) <= Depth /\ reader \in {"reading", "off"}
    <3>1. CASE rx = <<>> /\ reader = "reading"
      BY <3>1, DepthAssumption
    <3>2. CASE reader = "off" /\ \E p \in Preloads : rx = SubSeq(p, 1, Min2(Len(p), Depth))
      <4>1. PICK p \in Preloads : rx = SubSeq(p, 1, Min2(Len(p), Depth))
        BY <3>2
      <4>2. p \in Seq(Bytes)
        BY PreloadAssumption
      <4>3. Min2(Len(p), Depth) \in 0..Len(p) /\ Min2(Len(p), Depth) <= Depth
        BY <4>2, DepthAssumption DEF Min2
      <4>4. \A i \in 1..Min2(Len(p), Depth) : p[i] \in Bytes
        BY <4>2, <4>3, ElementOfSeq
      <4>5. Min2(Len(p), Depth) \in Nat
        BY <4>2, <4>3, LenProperties
      <4>6. /\ rx \in Seq(Bytes)
            /\ Len(rx) = IF 1 <= Min2(Len(p), Depth) THEN Min2(Len(p), Depth) ELSE 0
        BY <4>1, <4>4, <4>5, SubSeqProperties
      <4>. QED BY <3>2, <4>3, <4>5, <4>6, DepthAssumption
    <3>. QED BY <3>1, <3>2 DEF Init
  <2>2. rx \in Seq(Chars)
    BY <2>1, CharFacts, SeqMonotonic
  <2>3. typed \in Seq(Bytes)
    BY <2>1 DEF Init
  <2>4. /\ stdin \in Seq(Bytes) /\ hand \in {<<>>} \cup {<<v>> : v \in Chars}
        /\ got \in Seq(Chars \cup {0}) /\ screen \in Seq(0..255)
    BY EmptySeq DEF Init
  <2>5. hand # <<>> <=> reader = "queueing"
    BY <2>1 DEF Init
  <2>. QED BY <2>1, <2>2, <2>3, <2>4, <2>5 DEF Init, TypeOK
<1>2. TypeOK /\ [Next]_vars => TypeOK'
  <2>. SUFFICES ASSUME TypeOK, [Next]_vars PROVE TypeOK'
    OBVIOUS
  <2>. USE DEF TypeOK
  <2>1. ASSUME NEW b \in Bytes, Type(b) PROVE TypeOK'
    BY <2>1 DEF Type, guestVars
  <2>2. CASE Close
    BY <2>2 DEF Close, guestVars
  <2>3. CASE ReadByte
    <3>1. Head(stdin) \in Bytes /\ Tail(stdin) \in Seq(Bytes)
      BY <2>3 DEF ReadByte
    <3>2. CASE ToGuest(translate, Head(stdin)) = NoChar
      BY <2>3, <3>1, <3>2 DEF ReadByte, guestVars
    <3>3. CASE ToGuest(translate, Head(stdin)) # NoChar
      <4>1. hand' \in {<<>>} \cup {<<v>> : v \in Chars} /\ hand' # <<>>
        <5>1. PICK v \in Chars : v = ToGuest(translate, Head(stdin))
          BY <3>1, <3>3, CharFacts
        <5>2. hand' = <<v>>
          BY <2>3, <3>3, <5>1 DEF ReadByte
        <5>. QED BY <5>2
      <4>2. reader' = "queueing" /\ stdin' \in Seq(Bytes) /\ UNCHANGED <<translate, closed, typed, rx, guestVars>>
        BY <2>3, <3>1, <3>3 DEF ReadByte
      <4>3. UNCHANGED <<guest, r2, got, screen>>
        BY <4>2 DEF guestVars
      <4>4. hand' # <<>> <=> reader' = "queueing"
        BY <4>1, <4>2
      <4>. QED BY <4>1, <4>2, <4>3, <4>4
    <3>. QED BY <3>2, <3>3
  <2>4. CASE ReadEof
    BY <2>4 DEF ReadEof, guestVars, hostVars
  <2>5. CASE Queue
    <3>1. PICK v \in Chars : hand = <<v>>
      BY <2>5 DEF Queue
    <3>2. rx \o hand \in Seq(Chars) /\ Len(rx \o hand) = Len(rx) + 1
      BY <3>1
    <3>. QED BY <2>5, <3>2, DepthAssumption DEF Queue, guestVars, hostVars
  <2>6. CASE PollRx
    BY <2>6 DEF PollRx, hostVars
  <2>7. CASE ReadRx
    <3>1. r2' \in Chars \cup {0} /\ rx' \in Seq(Chars) /\ Len(rx') <= Depth
      <4>1. CASE rx = <<>>
        BY <2>7, <4>1 DEF ReadRx
      <4>2. CASE rx # <<>>
        <5>1. Head(rx) \in Chars /\ Tail(rx) \in Seq(Chars) /\ Len(Tail(rx)) = Len(rx) - 1
          BY <4>2, HeadTailProperties
        <5>. QED BY <2>7, <4>2, <5>1, DepthAssumption DEF ReadRx
      <4>. QED BY <4>1, <4>2
    <3>. QED BY <2>7, <3>1 DEF ReadRx, hostVars
  <2>8. CASE PollTx
    BY <2>8 DEF PollTx, hostVars
  <2>9. CASE WriteTx
    <3>1. r2 \in Int /\ ToHost(translate, r2) \in Seq(0..255)
      BY CharFacts
    <3>2. screen' \in Seq(0..255)
      BY <2>9, <3>1, ConcatProperties DEF WriteTx
    <3>. QED BY <2>9, <3>2 DEF WriteTx, hostVars
  <2>10. CASE UNCHANGED vars
    BY <2>10 DEF vars
  <2>. QED BY <2>1, <2>2, <2>3, <2>4, <2>5, <2>6, <2>7, <2>8, <2>9, <2>10
         DEF Next, Host, Reader, Guest
<1>. QED BY <1>1, <1>2, PTL DEF Spec

\* No phantom character: between a poll that saw RXRDY = 1 and the read of
\* RXBUF the thread may append to the FIFO, but only the guest takes from it.
THEOREM NoPhantom == Spec => []NoPhantomRead
<1>1. Init => NoPhantomRead
  BY DEF Init, NoPhantomRead
<1>2. TypeOK /\ NoPhantomRead /\ [Next]_vars => NoPhantomRead'
  <2>. SUFFICES ASSUME TypeOK, NoPhantomRead, [Next]_vars PROVE NoPhantomRead'
    OBVIOUS
  <2>. USE DEF NoPhantomRead
  <2>1. ASSUME NEW b \in Bytes, Type(b) PROVE NoPhantomRead'
    BY <2>1 DEF Type, guestVars
  <2>2. CASE Close
    BY <2>2 DEF Close, guestVars
  <2>3. CASE ReadByte
    BY <2>3 DEF ReadByte, guestVars
  <2>4. CASE ReadEof
    BY <2>4 DEF ReadEof, guestVars
  <2>5. CASE Queue
    <3>1. PICK v \in Chars : hand = <<v>>
      BY <2>5 DEF Queue, TypeOK
    <3>2. rx \o hand # <<>>
      BY <3>1 DEF TypeOK
    <3>. QED BY <2>5, <3>2 DEF Queue, guestVars
  <2>6. CASE PollRx
    BY <2>6 DEF PollRx
  <2>7. CASE ReadRx \/ PollTx \/ WriteTx
    BY <2>7 DEF ReadRx, PollTx, WriteTx
  <2>8. CASE UNCHANGED vars
    BY <2>8 DEF vars
  <2>. QED BY <2>1, <2>2, <2>3, <2>4, <2>5, <2>6, <2>7, <2>8
         DEF Next, Host, Reader, Guest
<1>. QED BY <1>1, <1>2, TypeCorrect, PTL DEF Spec
-----------------------------------------------------------------------------
\* The part of the line that the thread has not read.
Unread(tr, s) == [i \in 1..Len(s) |-> ToGuest(tr, s[i])]

\* What the line consists of.
Values == Chars \cup {NoChar}

LEMMA GuestValues ==
  ASSUME NEW tr \in Modes, NEW b \in Bytes
  PROVE  ToGuest(tr, b) \in Values
BY CharFacts DEF Values

LEMMA NoCharIsNone == NoChar \notin Chars
<1>1. \A b \in Bytes : b # NoChar
  BY BytesAssumption DEF NoChar
<1>. QED BY <1>1 DEF Chars, NoChar

LEMMA UnreadType ==
  ASSUME NEW tr \in Modes, NEW s \in Seq(Bytes)
  PROVE  /\ Unread(tr, s) \in Seq(Values)
         /\ Len(Unread(tr, s)) = Len(s)
         /\ \A i \in 1..Len(s) : Unread(tr, s)[i] = ToGuest(tr, s[i])
<1>1. \A i \in 1..Len(s) : ToGuest(tr, s[i]) \in Values
  BY ElementOfSeq, GuestValues
<1>2. Len(s) \in Nat
  BY LenProperties
<1>. QED BY <1>1, <1>2 DEF Unread

LEMMA UnreadAppend ==
  ASSUME NEW tr \in Modes, NEW s \in Seq(Bytes), NEW b \in Bytes
  PROVE  Unread(tr, Append(s, b)) = Append(Unread(tr, s), ToGuest(tr, b))
<1>. DEFINE a == Append(s, b)
            u == Unread(tr, s)
            g == ToGuest(tr, b)
            l == Append(u, g)
<1>1. a \in Seq(Bytes) /\ Len(a) = Len(s) + 1 /\ Len(s) \in Nat
      /\ \A i \in 1..Len(s) + 1 : a[i] = IF i = Len(s) + 1 THEN b ELSE s[i]
  OBVIOUS
<1>2. u \in Seq(Values) /\ Len(u) = Len(s) /\ \A i \in 1..Len(s) : u[i] = ToGuest(tr, s[i])
  BY UnreadType
<1>3. Unread(tr, a) \in Seq(Values) /\ Len(Unread(tr, a)) = Len(a)
      /\ \A i \in 1..Len(a) : Unread(tr, a)[i] = ToGuest(tr, a[i])
  BY <1>1, UnreadType
<1>4. g \in Values
  BY GuestValues
<1>. HIDE DEF u, a, g
<1>5. l \in Seq(Values) /\ Len(l) = Len(s) + 1
      /\ \A i \in 1..Len(s) + 1 : l[i] = IF i = Len(s) + 1 THEN g ELSE u[i]
  BY <1>1, <1>2, <1>4
<1>. HIDE DEF l
<1>6. ASSUME NEW i \in 1..Len(a) PROVE Unread(tr, a)[i] = l[i]
  <2>1. CASE i = Len(s) + 1
    BY <1>1, <1>3, <1>5, <2>1 DEF g
  <2>2. CASE i # Len(s) + 1
    <3>1. i \in 1..Len(s) /\ i \in 1..Len(s) + 1
      BY <1>1, <2>2
    <3>. QED BY <1>1, <1>2, <1>3, <1>5, <2>2, <3>1
  <2>. QED BY <2>1, <2>2
<1>7. Unread(tr, a) = l
  BY <1>1, <1>3, <1>5, <1>6, SeqEqual
<1>. QED BY <1>7 DEF l, u, a, g

LEMMA UnreadFront ==
  ASSUME NEW tr \in Modes, NEW s \in Seq(Bytes), s # <<>>
  PROVE  /\ Head(s) \in Bytes /\ Tail(s) \in Seq(Bytes)
         /\ Unread(tr, s) = <<ToGuest(tr, Head(s))>> \o Unread(tr, Tail(s))
<1>. DEFINE u == Unread(tr, s)
            t == Tail(s)
            v == Unread(tr, t)
<1>1. /\ Head(s) \in Bytes /\ t \in Seq(Bytes) /\ Len(t) = Len(s) - 1
      /\ \A i \in 1..Len(t) : t[i] = s[i + 1]
  BY HeadTailProperties
<1>2. Len(s) \in Nat \ {0} /\ Head(s) = s[1]
  BY EmptySeq
<1>3. u \in Seq(Values) /\ Len(u) = Len(s) /\ \A i \in 1..Len(s) : u[i] = ToGuest(tr, s[i])
  BY UnreadType
<1>4. v \in Seq(Values) /\ Len(v) = Len(t) /\ \A i \in 1..Len(t) : v[i] = ToGuest(tr, t[i])
  BY <1>1, UnreadType
<1>. HIDE DEF u, v, t
<1>5. u # <<>>
  BY <1>2, <1>3
<1>6. u = <<Head(u)>> \o Tail(u) /\ Tail(u) \in Seq(Values) /\ Len(Tail(u)) = Len(u) - 1
      /\ \A i \in 1..Len(Tail(u)) : Tail(u)[i] = u[i + 1]
  BY <1>3, <1>5, FrontFirst, HeadTailProperties
<1>7. Head(u) = ToGuest(tr, Head(s))
  <2>1. Head(u) = u[1] /\ 1 \in 1..Len(s)
    BY <1>2, <1>3, <1>5
  <2>. QED BY <1>2, <1>3, <2>1
<1>8. ASSUME NEW i \in 1..Len(t) PROVE Tail(u)[i] = v[i]
  <2>1. i + 1 \in 1..Len(s) /\ i \in 1..Len(Tail(u))
    BY <1>1, <1>2, <1>3, <1>6
  <2>2. Tail(u)[i] = ToGuest(tr, s[i + 1])
    BY <1>3, <1>6, <2>1
  <2>. QED BY <1>1, <1>4, <2>2
<1>9. Tail(u) = v
  BY <1>1, <1>3, <1>4, <1>6, <1>8, SeqEqual
<1>. QED BY <1>1, <1>6, <1>7, <1>9 DEF u, v, t

\* What the two ends of the line are made of, in a state and after a step.
LEMMA LineShape ==
  ASSUME TypeOK
  PROVE  /\ rx \in Seq(Values) /\ hand \in Seq(Values) /\ Unread(translate, stdin) \in Seq(Values)
         /\ Outstanding = (rx \o hand) \o Unread(translate, stdin)
<1>1. rx \in Seq(Values)
  BY SeqMonotonic DEF TypeOK, Values
<1>2. hand \in Seq(Values)
  <2>1. CASE hand = <<>>
    BY <2>1, EmptySeq
  <2>2. CASE hand # <<>>
    <3>1. PICK v \in Chars : hand = <<v>>
      BY <2>2 DEF TypeOK
    <3>2. v \in Values
      BY DEF Values
    <3>. QED BY <3>1, <3>2
  <2>. QED BY <2>1, <2>2
<1>3. Unread(translate, stdin) \in Seq(Values)
  BY UnreadType DEF TypeOK
<1>4. Outstanding = (rx \o hand) \o Unread(translate, stdin)
  BY DEF Outstanding, Unread
<1>. QED BY <1>1, <1>2, <1>3, <1>4

\* The line with the element behind p singled out, and without it.
LEMMA Regroup ==
  ASSUME NEW p \in Seq(Values), NEW x \in Values, NEW q \in Seq(Values)
  PROVE  (p \o <<x>>) \o q = p \o (<<x>> \o q)
<1>1. <<x>> \in Seq(Values)
  OBVIOUS
<1>. QED BY <1>1, ConcatAssociative

LEMMA TakenOut ==
  ASSUME NEW p \in Seq(Values), NEW x \in Values, NEW q \in Seq(Values),
         NEW s, s = p \o (<<x>> \o q)
  PROVE  /\ Len(p) + 1 \in 1..Len(s) /\ s[Len(p) + 1] = x
         /\ Line!Without(s, Len(p) + 1) = p \o q
<1>. DEFINE e == <<x>>
<1>1. Line!Without(s, Len(p) + 1) = LeftOut(s, Len(p) + 1)
  BY Zenon DEF Line!Without, LeftOut
<1>2. e \in Seq(Values) /\ Len(e) = 1 /\ e[1] = x /\ s = p \o (e \o q)
  OBVIOUS
<1>. HIDE DEF e
<1>3. LeftOut(p \o (e \o q), Len(p) + 1) = p \o q
  BY <1>2, WithoutMiddle
<1>4. Len(p) + 1 \in 1..Len(p \o (e \o q)) /\ (p \o (e \o q))[Len(p) + 1] = e[1]
  BY <1>2, WithoutMiddle
<1>. QED BY <1>1, <1>2, <1>3, <1>4, Zenon

\* Steps that leave the line alone.
LEMMA LineStutters ==
  ASSUME rx' \o hand' = rx \o hand, UNCHANGED <<translate, stdin, got>>
  PROVE  UNCHANGED Line!lineVars
<1>1. Outstanding' = Outstanding
  BY DEF Outstanding
<1>. QED BY <1>1 DEF Line!lineVars

\* Every step of the terminal, its thread and the guest is a step of the line
\* or leaves it alone.
LEMMA LineStep ==
  ASSUME TypeOK, NoPhantomRead, [Next]_vars
  PROVE  [Line!Next]_(Line!lineVars)
<1>. DEFINE U == Unread(translate, stdin)
            RH == rx \o hand
<1>1. /\ rx \in Seq(Values) /\ hand \in Seq(Values) /\ U \in Seq(Values) /\ RH \in Seq(Values)
      /\ Outstanding = RH \o U
      /\ Outstanding' = (rx' \o hand') \o Unread(translate', stdin')
  <2>1. Outstanding' = (rx' \o hand') \o Unread(translate', stdin')
    BY DEF Outstanding, Unread
  <2>. QED BY <2>1, LineShape, ConcatProperties
<1>2. ASSUME NEW b \in Bytes, Type(b) PROVE Line!Next
  <2>1. /\ stdin' = Append(stdin, b) /\ rx' = rx /\ hand' = hand
        /\ translate' = translate /\ got' = got
    BY <1>2 DEF Type, guestVars
  <2>2. translate \in Modes /\ stdin \in Seq(Bytes)
    BY DEF TypeOK
  <2>. DEFINE c == ToGuest(translate, b)
  <2>3. Unread(translate', stdin') = Append(U, c)
    BY <2>1, <2>2, UnreadAppend
  <2>4. c \in Values
    BY <2>2, GuestValues
  <2>. HIDE DEF U, RH, c
  <2>5. Outstanding' = Append(Outstanding, c)
    <3>1. rx' \o hand' = RH
      BY <2>1 DEF RH
    <3>. QED BY <1>1, <2>3, <2>4, <3>1, AppendBehind
  <2>6. Line!Send(c)
    BY <2>1, <2>5 DEF Line!Send
  <2>. QED BY <2>4, <2>6 DEF Line!Next, Values
<1>3. CASE ReadByte
  <2>. DEFINE g == ToGuest(translate, Head(stdin))
              V == Unread(translate, Tail(stdin))
  <2>1. /\ stdin # <<>> /\ stdin' = Tail(stdin) /\ rx' = rx /\ got' = got
        /\ translate' = translate /\ reader = "reading"
    BY <1>3 DEF ReadByte, guestVars
  <2>2. /\ translate \in Modes /\ stdin \in Seq(Bytes) /\ hand = <<>>
    BY <2>1 DEF TypeOK
  <2>3. /\ Head(stdin) \in Bytes /\ Tail(stdin) \in Seq(Bytes)
        /\ U = <<g>> \o V
    BY <2>1, <2>2, UnreadFront
  <2>4. g \in Values /\ V \in Seq(Values)
    BY <2>2, <2>3, GuestValues, UnreadType
  <2>5. Unread(translate', stdin') = V
    BY <2>1
  <2>6. CASE g = NoChar
    <3>1. hand' = hand
      BY <1>3, <2>6 DEF ReadByte
    <3>2. Outstanding' = RH \o V
      BY <1>1, <2>1, <2>5, <3>1
    <3>3. Outstanding = RH \o (<<g>> \o V)
      BY <1>1, <2>3
    <3>. HIDE DEF U, RH, V, g
    <3>4. /\ Len(RH) + 1 \in 1..Len(Outstanding) /\ Outstanding[Len(RH) + 1] = g
          /\ Line!Without(Outstanding, Len(RH) + 1) = RH \o V
      <4>1. RH \in Seq(Values) /\ g \in Values /\ V \in Seq(Values)
        BY <1>1, <2>4
      <4>. QED BY <3>3, <4>1, TakenOut
    <3>5. Line!Discard(Len(RH) + 1)
      BY <2>1, <2>6, <3>2, <3>4 DEF Line!Discard
    <3>. QED BY <3>4, <3>5 DEF Line!Next
  <2>7. CASE g # NoChar
    <3>1. hand' = <<g>>
      BY <1>3, <2>7 DEF ReadByte
    <3>2. RH = rx
      BY <1>1, <2>2, ConcatEmptySeq
    <3>3. Outstanding' = (rx \o <<g>>) \o V
      BY <1>1, <2>1, <2>5, <3>1
    <3>4. Outstanding = rx \o (<<g>> \o V)
      BY <1>1, <2>3, <3>2
    <3>. HIDE DEF U, RH, V, g
    <3>5. (rx \o <<g>>) \o V = rx \o (<<g>> \o V)
      BY <1>1, <2>4, Regroup
    <3>6. Outstanding' = Outstanding
      BY <3>3, <3>4, <3>5
    <3>. QED BY <2>1, <3>6 DEF Line!lineVars
  <2>. QED BY <2>6, <2>7
<1>4. CASE Queue
  <2>1. PICK v \in Chars : hand = <<v>>
    BY <1>4 DEF Queue, TypeOK
  <2>2. /\ hand' = <<>> /\ UNCHANGED <<translate, stdin, got>> /\ v \in Values
        /\ rx' = IF Len(rx) < Depth THEN rx \o hand ELSE rx
    BY <1>4 DEF Queue, hostVars, guestVars, Values
  <2>3. CASE Len(rx) < Depth
    <3>1. rx' \o hand' = RH
      BY <1>1, <2>2, <2>3, ConcatEmptySeq
    <3>. QED BY <2>2, <3>1, LineStutters
  <2>4. CASE ~(Len(rx) < Depth)
    <3>1. rx' \o hand' = rx
      BY <1>1, <2>2, <2>4, ConcatEmptySeq
    <3>2. Outstanding' = rx \o U
      BY <1>1, <2>2, <3>1
    <3>. HIDE DEF U
    <3>3. (rx \o <<v>>) \o U = rx \o (<<v>> \o U)
      BY <1>1, <2>2, Regroup
    <3>4. Outstanding = rx \o (<<v>> \o U)
      BY <1>1, <2>1, <3>3
    <3>5. /\ Len(rx) + 1 \in 1..Len(Outstanding)
          /\ Line!Without(Outstanding, Len(rx) + 1) = rx \o U
      BY <1>1, <2>2, <3>4, TakenOut
    <3>6. Len(rx) + 1 > Depth
      BY <1>1, <2>4, DepthAssumption
    <3>7. Line!Lose(Len(rx) + 1)
      BY <2>2, <3>2, <3>5, <3>6 DEF Line!Lose
    <3>. QED BY <3>5, <3>7 DEF Line!Next
  <2>. QED BY <2>3, <2>4
<1>5. CASE ReadRx
  <2>1. rx # <<>> /\ rx' = Tail(rx) /\ got' = Append(got, Head(rx)) /\ hand' = hand
        /\ translate' = translate /\ stdin' = stdin
    BY <1>5 DEF ReadRx, NoPhantomRead, hostVars
  <2>2. Head(rx) \in Chars /\ Tail(rx) \in Seq(Values)
    BY <1>1, <2>1, HeadTailProperties DEF TypeOK
  <2>3. RH # <<>> /\ Head(RH) = Head(rx) /\ Tail(RH) = Tail(rx) \o hand
    BY <1>1, <2>1, FrontOfConcat
  <2>4. Outstanding' = Tail(RH) \o U
    BY <1>1, <2>1, <2>3
  <2>. HIDE DEF U, RH
  <2>5. Outstanding # <<>> /\ Head(Outstanding) = Head(RH) /\ Tail(Outstanding) = Tail(RH) \o U
    BY <1>1, <2>3, FrontOfConcat
  <2>6. Head(Outstanding) # NoChar
    BY <2>2, <2>3, <2>5, NoCharIsNone
  <2>7. Line!Deliver
    BY <2>1, <2>3, <2>4, <2>5, <2>6 DEF Line!Deliver
  <2>. QED BY <2>7 DEF Line!Next
<1>6. CASE Close \/ ReadEof \/ PollRx \/ PollTx \/ WriteTx \/ UNCHANGED vars
  <2>1. UNCHANGED <<rx, hand, translate, stdin, got>>
    BY <1>6 DEF Close, ReadEof, PollRx, PollTx, WriteTx, vars, hostVars, guestVars
  <2>. QED BY <2>1, LineStutters
<1>. QED BY <1>2, <1>3, <1>4, <1>5, <1>6 DEF Next, Host, Reader, Guest

LEMMA LineStart ==
  ASSUME Init, TypeOK
  PROVE  Line!Init
<1>1. /\ hand = <<>> /\ stdin = <<>> /\ got = <<>>
      /\ rx \in Seq(Chars) /\ Len(rx) <= Depth
  BY DEF Init, TypeOK
<1>2. Unread(translate, stdin) = <<>>
  BY <1>1, UnreadType, EmptySeq DEF TypeOK
<1>3. Outstanding = rx
  BY <1>1, <1>2, LineShape, ConcatEmptySeq
<1>. QED BY <1>1, <1>3 DEF Line!Init

\* The terminal implements the line for every depth, alphabet and pipe: with
\* the reader thread and the guest interleaved in any way, the guest gets the
\* characters in the order they were typed, each at most once, and none is lost
\* that had fewer than Depth characters in front of it.
THEOREM ImplementsLine == Spec => LineSafe
<1>1. Init /\ TypeOK => Line!Init
  BY LineStart
<1>2. TypeOK /\ NoPhantomRead /\ [Next]_vars => [Line!Next]_(Line!lineVars)
  BY LineStep
<1>. QED BY <1>1, <1>2, TypeCorrect, NoPhantom, PTL DEF Spec, LineSafe, Line!SafeSpec
-----------------------------------------------------------------------------
\* Where the typed characters are while none can have been lost: those the
\* guest has, those in the FIFO, the one in the thread's hand, and then, in the
\* order of their positions at[1] < at[2] < ..., the ones in stdin.
IsChar(b) == ToGuest(translate, b) # NoChar
Held == Len(got) + Len(rx) + Len(hand)

HeldInOrder ==
  /\ Held <= Len(typed)
  /\ \A i \in 1..Len(typed) : IsChar(typed[i])
  /\ \A i \in 1..Len(got) : got[i] = ToGuest(translate, typed[i])
  /\ \A i \in 1..Len(rx) : rx[i] = ToGuest(translate, typed[Len(got) + i])
  /\ \A i \in 1..Len(hand) : hand[i] = ToGuest(translate, typed[Len(got) + Len(rx) + i])

Follows(at) ==
  /\ \A j \in DOMAIN at : typed[Held + j] = stdin[at[j]]
  /\ \A i, j \in DOMAIN at : i < j => at[i] < at[j]
  /\ \A p \in 1..Len(stdin) : IsChar(stdin[p]) => \E j \in DOMAIN at : at[j] = p
PendingInOrder == \E at \in [1..Len(typed) - Held -> 1..Len(stdin)] : Follows(at)

\* What the guest has received it has printed, but for the last character
\* between the read of RXBUF and the write of TXBUF.
ShownInOrder ==
  /\ Len(screen) = IF guest \in {"pollTx", "writeTx"} THEN Len(got) - 1 ELSE Len(got)
  /\ guest \in {"pollTx", "writeTx"} => Len(got) > 0 /\ r2 = got[Len(got)]
  /\ \A i \in 1..Len(screen) : screen[i] = Canonical(typed[i])

InDepth == reader # "off" /\ Len(typed) <= Depth /\ SevenBit
EchoInv == InDepth => HeldInOrder /\ PendingInOrder /\ ShownInOrder

LEMMA EndOfAppend ==
  ASSUME NEW S, NEW s \in Seq(S), NEW x \in S
  PROVE  /\ Append(s, x) \in Seq(S) /\ Len(Append(s, x)) = Len(s) + 1 /\ Len(s) \in Nat
         /\ \A i \in 1..Len(s) : Append(s, x)[i] = s[i]
         /\ Append(s, x)[Len(s) + 1] = x
OBVIOUS

\* The typist sees a character come back as SIXBIT folds it.
LEMMA BackAndForth ==
  ASSUME NEW b \in Bytes, translate \in BOOLEAN, IsChar(b), translate \/ b < 128
  PROVE  ToHost(translate, ToGuest(translate, b)) = <<Canonical(b)>>
<1>1. b \in Nat /\ b < 256
  BY BytesAssumption
<1>2. CASE ~translate
  <2>1. b % 256 = b
    BY <1>1
  <2>2. ToGuest(translate, b) = b /\ ToHost(translate, b) = <<b>>
    BY <1>2, <2>1 DEF ToHost, ToGuest, Utf8
  <2>3. Canonical(b) = b
    BY <1>2 DEF Canonical
  <2>. QED BY <2>2, <2>3
<1>3. CASE translate
  <2>. DEFINE v == Encode(b)
  <2>1. v # NoChar /\ ToGuest(translate, b) = v
    BY <1>3 DEF IsChar, ToGuest
  <2>a. ASSUME NEW c \in 0..127, Decode(v) = c PROVE ToHost(translate, ToGuest(translate, b)) = <<c>>
    <3>1. ToHost(translate, v) = Utf8(c) /\ Utf8(c) = <<c>>
      <4>. HIDE DEF v
      <4>1. c # NoChar
        BY DEF NoChar
      <4>. QED BY <1>3, <2>a, <4>1 DEF ToHost, Utf8
    <3>. QED BY <2>1, <3>1
  <2>2. CASE b \in 32..63
    <3>0. v = b
      BY <1>1, <2>2 DEF Encode, Newline, CarriageReturn
    <3>1. v = b /\ v % 64 = v
      <4>. HIDE DEF v
      <4>. QED BY <1>1, <2>2, <3>0
    <3>2. Decode(v) = b
      BY <2>2, <3>1 DEF Decode
    <3>3. Canonical(b) = b
      BY <1>3, <2>2 DEF Canonical, CarriageReturn
    <3>. QED BY <2>a, <2>2, <3>2, <3>3
  <2>3. CASE b \in 65..94
    <3>0. v = b - 64
      BY <1>1, <2>3 DEF Encode, Newline, CarriageReturn
    <3>1. v = b - 64 /\ v % 64 = v /\ v \in 1..30
      <4>. HIDE DEF v
      <4>. QED BY <1>1, <2>3, <3>0
    <3>2. Decode(v) = b
      BY <2>3, <3>1 DEF Decode
    <3>3. Canonical(b) = b
      BY <1>3, <2>3 DEF Canonical, CarriageReturn
    <3>. QED BY <2>a, <2>3, <3>2, <3>3
  <2>4. CASE b \in 97..122
    <3>0. v = b - 96
      BY <1>1, <2>4 DEF Encode, Newline, CarriageReturn
    <3>1. v = b - 96 /\ v % 64 = v /\ v \in 1..30
      <4>. HIDE DEF v
      <4>. QED BY <1>1, <2>4, <3>0
    <3>2. Decode(v) = b - 32
      BY <2>4, <3>1 DEF Decode
    <3>3. Canonical(b) = b - 32
      BY <1>3, <2>4 DEF Canonical, CarriageReturn
    <3>. QED BY <2>a, <2>4, <3>2, <3>3
  <2>5. CASE b \in {Newline, CarriageReturn}
    <3>1. v = 31 /\ v % 64 = 31
      BY <2>5 DEF Encode, Newline, CarriageReturn
    <3>2. Decode(v) = Newline
      BY <3>1 DEF Decode
    <3>3. Canonical(b) = Newline
      BY <1>3, <2>5 DEF Canonical, CarriageReturn, Newline
    <3>. QED BY <2>a, <3>2, <3>3 DEF Newline
  <2>6. CASE ~(b \in 32..63 \/ b \in 65..94 \/ b \in 97..122 \/ b \in {Newline, CarriageReturn})
    BY <2>1, <2>6 DEF Encode
  <2>. QED BY <2>2, <2>3, <2>4, <2>5, <2>6
<1>. QED BY <1>2, <1>3

\* Lengths, and what the sequences hold.
LEMMA EchoTypes ==
  ASSUME TypeOK
  PROVE  /\ Len(got) \in Nat /\ Len(rx) \in Nat /\ Len(stdin) \in Nat /\ Len(typed) \in Nat
         /\ Len(hand) \in {0, 1} /\ (Len(hand) = 1 <=> reader = "queueing")
         /\ Held \in Nat
<1>1. Len(got) \in Nat /\ Len(rx) \in Nat /\ Len(stdin) \in Nat /\ Len(typed) \in Nat
  BY LenProperties DEF TypeOK
<1>2. Len(hand) \in {0, 1} /\ (Len(hand) = 1 <=> hand # <<>>)
  <2>1. CASE hand = <<>>
    BY <2>1
  <2>2. CASE hand # <<>>
    <3>1. PICK v \in Chars : hand = <<v>>
      BY <2>2 DEF TypeOK
    <3>. QED BY <3>1
  <2>. QED BY <2>1, <2>2
<1>. QED BY <1>1, <1>2 DEF TypeOK, Held

LEMMA TypesByte ==
  ASSUME TypeOK, EchoInv, InDepth', NEW b \in Bytes, Type(b)
  PROVE  HeldInOrder' /\ PendingInOrder' /\ ShownInOrder'
<1>1. /\ stdin' = Append(stdin, b) /\ UNCHANGED <<translate, reader, hand, rx, guest, r2, got, screen>>
      /\ typed' = IF IsChar(b) THEN Append(typed, b) ELSE typed
  BY DEF Type, guestVars, IsChar
<1>2. /\ stdin \in Seq(Bytes) /\ typed \in Seq(Bytes)
      /\ Len(stdin') = Len(stdin) + 1 /\ stdin'[Len(stdin) + 1] = b
      /\ \A i \in 1..Len(stdin) : stdin'[i] = stdin[i]
  BY <1>1, EndOfAppend DEF TypeOK
<1>3. /\ Len(typed') = IF IsChar(b) THEN Len(typed) + 1 ELSE Len(typed)
      /\ \A i \in 1..Len(typed) : typed'[i] = typed[i]
      /\ IsChar(b) => typed'[Len(typed) + 1] = b
  BY <1>1, <1>2, EndOfAppend
<1>4. /\ Len(got) \in Nat /\ Len(rx) \in Nat /\ Len(stdin) \in Nat /\ Len(typed) \in Nat
      /\ Len(hand) \in {0, 1} /\ Held \in Nat
  BY EchoTypes
<1>5. HeldInOrder /\ PendingInOrder /\ ShownInOrder
  <2>1. Len(typed) <= Len(typed')
    BY <1>3, <1>4
  <2>2. Len(typed') <= Depth /\ reader # "off"
    BY <1>1 DEF InDepth
  <2>3. Len(typed) <= Depth
    BY <1>3, <1>4, <2>1, <2>2, DepthAssumption
  <2>4. SevenBit
    <3>1. SevenBit' /\ translate' = translate
      BY <1>1 DEF InDepth
    <3>2. ASSUME ~translate, NEW i \in 1..Len(typed) PROVE typed[i] < 128
      <4>1. i \in 1..Len(typed')
        BY <1>3, <1>4
      <4>. QED BY <1>3, <3>1, <3>2, <4>1 DEF SevenBit
    <3>. QED BY <3>2 DEF SevenBit
  <2>. QED BY <2>2, <2>3, <2>4 DEF EchoInv, InDepth
<1>6. Held' = Held
  BY <1>1 DEF Held
<1>c. \A c : IsChar(c)' = IsChar(c)
  BY <1>1 DEF IsChar
<1>7. HeldInOrder'
  <2>1. /\ Held <= Len(typed) /\ Held = Len(got) + Len(rx) + Len(hand)
        /\ \A i \in 1..Len(typed) : IsChar(typed[i])
        /\ \A i \in 1..Len(got) : got[i] = ToGuest(translate, typed[i])
        /\ \A i \in 1..Len(rx) : rx[i] = ToGuest(translate, typed[Len(got) + i])
        /\ \A i \in 1..Len(hand) : hand[i] = ToGuest(translate, typed[Len(got) + Len(rx) + i])
    BY <1>5 DEF HeldInOrder, Held
  <2>2. Held' <= Len(typed')
    BY <1>3, <1>4, <1>6, <2>1
  <2>3. ASSUME NEW i \in 1..Len(typed') PROVE IsChar(typed'[i])
    <3>1. CASE i \in 1..Len(typed)
      BY <1>3, <2>1, <3>1
    <3>2. CASE i = Len(typed) + 1 /\ IsChar(b)
      BY <1>3, <3>2
    <3>. QED BY <1>3, <1>4, <3>1, <3>2
  <2>4. ASSUME NEW i \in 1..Len(got) PROVE got[i] = ToGuest(translate, typed'[i])
    <3>1. i \in 1..Len(typed)
      BY <1>4, <2>1
    <3>. QED BY <1>3, <2>1, <3>1
  <2>5. ASSUME NEW i \in 1..Len(rx) PROVE rx[i] = ToGuest(translate, typed'[Len(got) + i])
    <3>1. Len(got) + i \in 1..Len(typed)
      BY <1>4, <2>1
    <3>. QED BY <1>3, <2>1, <3>1
  <2>6. ASSUME NEW i \in 1..Len(hand) PROVE hand[i] = ToGuest(translate, typed'[Len(got) + Len(rx) + i])
    <3>1. Len(got) + Len(rx) + i \in 1..Len(typed)
      BY <1>4, <2>1
    <3>. QED BY <1>3, <2>1, <3>1
  <2>. QED BY <1>1, <1>c, <2>2, <2>3, <2>4, <2>5, <2>6 DEF HeldInOrder
<1>8. PendingInOrder'
  <2>. DEFINE n == Len(typed) - Held
              L == Len(stdin)
  <2>0. n \in Nat /\ L \in Nat
    BY <1>4, <1>5 DEF HeldInOrder
  <2>1. PICK at \in [1..n -> 1..L] : Follows(at)
    BY <1>5 DEF PendingInOrder
  <2>2. /\ \A j \in 1..n : typed[Held + j] = stdin[at[j]]
        /\ \A i, j \in 1..n : i < j => at[i] < at[j]
        /\ \A p \in 1..L : IsChar(stdin[p]) => \E j \in 1..n : at[j] = p
    BY <2>1 DEF Follows
  <2>3. ASSUME NEW j \in 1..n PROVE typed'[Held + j] = stdin'[at[j]] /\ at[j] \in 1..L
    <3>1. Held + j \in 1..Len(typed)
      BY <1>4
    <3>. QED BY <1>2, <1>3, <2>1, <2>2, <3>1
  <2>4. CASE ~IsChar(b)
    <3>1. at \in [1..Len(typed') - Held' -> 1..Len(stdin')]
      BY <1>1, <1>2, <1>4, <1>6, <2>0, <2>1, <2>4
    <3>. HIDE DEF n, L
    <3>2. \A j \in 1..n : typed'[Held' + j] = stdin'[at[j]]
      BY <1>6, <2>3
    <3>3. ASSUME NEW p \in 1..Len(stdin'), IsChar(stdin'[p]) PROVE \E j \in 1..n : at[j] = p
      <4>1. p \in 1..L \/ p = L + 1
        BY <1>2, <2>0 DEF L
      <4>. QED BY <1>2, <2>2, <2>4, <3>3, <4>1 DEF L
    <3>4. Follows(at)'
      BY <1>c, <2>1, <2>2, <3>2, <3>3 DEF Follows
    <3>. QED BY <3>1, <3>4 DEF PendingInOrder
  <2>5. CASE IsChar(b)
    <3>a. PICK to : to = [j \in 1..(n + 1) |-> IF j = n + 1 THEN L + 1 ELSE at[j]]
      OBVIOUS
    <3>0. Len(typed') - Held' = n + 1 /\ Len(stdin') = L + 1 /\ Held + (n + 1) = Len(typed) + 1
      BY <1>2, <1>3, <1>4, <1>6, <2>5
    <3>. HIDE DEF n, L
    <3>1. to \in [1..(n + 1) -> 1..(L + 1)]
      BY <2>0, <2>1, <3>a
    <3>2. /\ to[n + 1] = L + 1 /\ \A j \in 1..n : to[j] = at[j] /\ to[j] \in 1..L
          /\ \A j \in 1..(n + 1) : j = n + 1 \/ j \in 1..n
          /\ n + 1 \in 1..(n + 1)
      BY <2>0, <2>1, <3>a
    <3>3. ASSUME NEW j \in 1..(n + 1) PROVE typed'[Held' + j] = stdin'[to[j]]
      <4>1. CASE j = n + 1
        BY <1>2, <1>3, <1>6, <2>5, <3>0, <3>2, <4>1 DEF L
      <4>2. CASE j \in 1..n
        BY <1>6, <2>3, <3>2, <4>2
      <4>. QED BY <3>2, <4>1, <4>2
    <3>4. ASSUME NEW i \in 1..(n + 1), NEW j \in 1..(n + 1), i < j PROVE to[i] < to[j]
      <4>1. i \in 1..n
        BY <2>0, <3>4
      <4>2. CASE j = n + 1
        BY <2>0, <3>2, <4>1, <4>2
      <4>3. CASE j \in 1..n
        BY <2>2, <3>2, <3>4, <4>1, <4>3
      <4>. QED BY <3>2, <4>2, <4>3
    <3>5. ASSUME NEW p \in 1..(L + 1), IsChar(stdin'[p]) PROVE \E j \in 1..(n + 1) : to[j] = p
      <4>1. CASE p = L + 1
        BY <3>2, <4>1
      <4>2. CASE p \in 1..L
        <5>1. PICK j \in 1..n : at[j] = p
          BY <1>2, <2>2, <3>5, <4>2 DEF L
        <5>2. j \in 1..(n + 1)
          BY <2>0
        <5>. QED BY <3>2, <5>1, <5>2
      <4>. QED BY <2>0, <4>1, <4>2
    <3>6. DOMAIN to = 1..(n + 1)
      BY <3>1
    <3>7. Follows(to)'
      BY <1>c, <3>0, <3>3, <3>4, <3>5, <3>6 DEF Follows
    <3>. QED BY <3>0, <3>1, <3>7 DEF PendingInOrder
  <2>. QED BY <2>4, <2>5
<1>9. ShownInOrder'
  <2>1. ASSUME NEW i \in 1..Len(screen) PROVE i \in 1..Len(typed)
    <3>1. Len(screen) <= Len(got) /\ Len(screen) \in Int
      BY <1>4, <1>5 DEF ShownInOrder
    <3>2. Held <= Len(typed) /\ Held = Len(got) + Len(rx) + Len(hand)
      BY <1>5 DEF HeldInOrder, Held
    <3>. QED BY <1>4, <3>1, <3>2
  <2>2. \A c : Canonical(c)' = Canonical(c)
    BY <1>1 DEF Canonical
  <2>. QED BY <1>1, <1>3, <1>5, <2>1, <2>2 DEF ShownInOrder
<1>. QED BY <1>7, <1>8, <1>9

LEMMA EchoNow ==
  ASSUME TypeOK, EchoInv, InDepth', UNCHANGED <<translate, typed>>, reader # "off"
  PROVE  /\ Len(typed) <= Depth /\ HeldInOrder /\ PendingInOrder /\ ShownInOrder
         /\ Held <= Len(typed) /\ Held = Len(got) + Len(rx) + Len(hand)
         /\ \A i \in 1..Len(typed) : IsChar(typed[i])
         /\ \A i \in 1..Len(got) : got[i] = ToGuest(translate, typed[i])
         /\ \A i \in 1..Len(rx) : rx[i] = ToGuest(translate, typed[Len(got) + i])
         /\ \A i \in 1..Len(hand) : hand[i] = ToGuest(translate, typed[Len(got) + Len(rx) + i])
<1>1. SevenBit /\ Len(typed) <= Depth
  BY DEF InDepth, SevenBit
<1>2. HeldInOrder /\ PendingInOrder /\ ShownInOrder
  BY <1>1 DEF EchoInv, InDepth
<1>. QED BY <1>1, <1>2 DEF HeldInOrder, Held

LEMMA PendingStays ==
  ASSUME PendingInOrder, Held' = Held, UNCHANGED <<translate, typed, stdin>>
  PROVE  PendingInOrder'
<1>1. PICK at \in [1..Len(typed) - Held -> 1..Len(stdin)] : Follows(at)
  BY DEF PendingInOrder
<1>2. \A c : IsChar(c)' = IsChar(c)
  BY DEF IsChar
<1>3. Follows(at)'
  BY <1>1, <1>2 DEF Follows
<1>. QED BY <1>1, <1>3 DEF PendingInOrder

\* Steps that move no character.
LEMMA EchoStutters ==
  ASSUME TypeOK, EchoInv, InDepth', reader # "off",
         UNCHANGED <<translate, stdin, hand, rx, typed, got>>
  PROVE  HeldInOrder' /\ PendingInOrder'
<1>1. HeldInOrder /\ PendingInOrder
  BY EchoNow
<1>2. Held' = Held /\ \A c : IsChar(c)' = IsChar(c)
  BY DEF Held, IsChar
<1>3. HeldInOrder'
  BY <1>1, <1>2 DEF HeldInOrder
<1>4. PendingInOrder'
  BY <1>1, <1>2, PendingStays
<1>. QED BY <1>3, <1>4

\* The thread takes the front of stdin: a byte without a character is none of
\* the pending ones, any other is the first of them.
LEMMA ReadsByte ==
  ASSUME TypeOK, EchoInv, InDepth', ReadByte
  PROVE  HeldInOrder' /\ PendingInOrder' /\ ShownInOrder'
<1>1. /\ reader = "reading" /\ stdin # <<>> /\ stdin' = Tail(stdin)
      /\ UNCHANGED <<translate, typed, rx, guest, r2, got, screen>>
  BY DEF ReadByte, guestVars
<1>2. /\ HeldInOrder /\ PendingInOrder /\ ShownInOrder
      /\ Held <= Len(typed) /\ Held = Len(got) + Len(rx) + Len(hand)
      /\ \A i \in 1..Len(typed) : IsChar(typed[i])
      /\ \A i \in 1..Len(got) : got[i] = ToGuest(translate, typed[i])
      /\ \A i \in 1..Len(rx) : rx[i] = ToGuest(translate, typed[Len(got) + i])
  BY <1>1, EchoNow
<1>3. /\ Len(got) \in Nat /\ Len(rx) \in Nat /\ Len(stdin) \in Nat /\ Len(typed) \in Nat
      /\ Len(hand) = 0 /\ Held \in Nat
  BY <1>1, EchoTypes
<1>4. /\ stdin \in Seq(Bytes) /\ Head(stdin) = stdin[1] /\ Len(stdin) \in Nat \ {0}
      /\ Len(stdin') = Len(stdin) - 1 /\ \A i \in 1..(Len(stdin) - 1) : stdin'[i] = stdin[i + 1]
  <2>1. stdin \in Seq(Bytes)
    BY DEF TypeOK
  <2>2. Head(stdin) = stdin[1] /\ Len(stdin) \in Nat \ {0}
    BY <1>1, <2>1, EmptySeq
  <2>3. Len(Tail(stdin)) = Len(stdin) - 1 /\ \A i \in 1..Len(Tail(stdin)) : Tail(stdin)[i] = stdin[i + 1]
    BY <1>1, <2>1, HeadTailProperties
  <2>. QED BY <1>1, <2>1, <2>2, <2>3
<1>c. \A c : IsChar(c)' = IsChar(c) /\ Canonical(c)' = Canonical(c)
  BY <1>1 DEF IsChar, Canonical
<1>5. ShownInOrder'
  BY <1>1, <1>2, <1>c DEF ShownInOrder
<1>. DEFINE n == Len(typed) - Held
            L == Len(stdin)
<1>6. n \in Nat /\ L \in Nat \ {0} /\ Len(stdin') = L - 1
  BY <1>2, <1>3, <1>4
<1>7. PICK at \in [1..n -> 1..L] : Follows(at)
  BY <1>2 DEF PendingInOrder
<1>8. /\ \A j \in 1..n : typed[Held + j] = stdin[at[j]]
      /\ \A i, j \in 1..n : i < j => at[i] < at[j]
      /\ \A p \in 1..L : IsChar(stdin[p]) => \E j \in 1..n : at[j] = p
  BY <1>7 DEF Follows
<1>9. \A j \in 1..n : IsChar(stdin[at[j]]) /\ at[j] \in 1..L
  <2>1. ASSUME NEW j \in 1..n PROVE Held + j \in 1..Len(typed)
    BY <1>3
  <2>. QED BY <1>2, <1>7, <1>8, <2>1
<1>10. CASE ~IsChar(stdin[1])
  <2>1. hand' = hand /\ Held' = Held
    <3>1. hand' = hand
      BY <1>4, <1>10 DEF ReadByte, IsChar
    <3>. QED BY <1>1, <3>1 DEF Held
  <2>2. HeldInOrder'
    BY <1>1, <1>2, <1>c, <2>1 DEF HeldInOrder
  <2>3. PICK to : to = [j \in 1..n |-> at[j] - 1]
    OBVIOUS
  <2>4. \A j \in 1..n : at[j] \in 1..L /\ at[j] # 1
    BY <1>9, <1>10
  <2>0. Len(typed') - Held' = n
    BY <1>1, <2>1
  <2>. HIDE DEF n, L
  <2>5. to \in [1..n -> 1..(L - 1)] /\ \A j \in 1..n : to[j] = at[j] - 1
    BY <1>6, <2>3, <2>4
  <2>6. ASSUME NEW j \in 1..n PROVE typed'[Held' + j] = stdin'[to[j]]
    <3>1. to[j] \in 1..(L - 1) /\ to[j] + 1 = at[j]
      BY <1>6, <2>4, <2>5
    <3>. QED BY <1>1, <1>4, <1>8, <2>1, <3>1 DEF L
  <2>7. ASSUME NEW i \in 1..n, NEW j \in 1..n, i < j PROVE to[i] < to[j]
    <3>1. at[i] < at[j] /\ at[i] \in Int /\ at[j] \in Int
      BY <1>8, <2>4, <2>7
    <3>. QED BY <2>5, <3>1
  <2>8. ASSUME NEW p \in 1..(L - 1), IsChar(stdin'[p]) PROVE \E j \in 1..n : to[j] = p
    <3>1. p + 1 \in 1..L /\ stdin'[p] = stdin[p + 1] /\ p + 1 - 1 = p
      BY <1>4, <1>6 DEF L
    <3>2. PICK j \in 1..n : at[j] = p + 1
      BY <1>8, <2>8, <3>1
    <3>. QED BY <2>5, <3>1, <3>2
  <2>9. DOMAIN to = 1..n
    BY <2>5
  <2>10. Follows(to)'
    BY <1>6, <1>c, <2>6, <2>7, <2>8, <2>9 DEF Follows
  <2>11. PendingInOrder'
    BY <1>6, <2>0, <2>5, <2>10 DEF PendingInOrder
  <2>. QED BY <1>5, <2>2, <2>11
<1>11. CASE IsChar(stdin[1])
  <2>1. hand' = <<ToGuest(translate, stdin[1])>>
    BY <1>4, <1>11 DEF ReadByte, IsChar
  <2>2. Len(hand') = 1 /\ hand'[1] = ToGuest(translate, stdin[1])
    BY <2>1
  <2>3. Held' = Held + 1
    BY <1>1, <1>2, <1>3, <2>2 DEF Held
  <2>4. n >= 1 /\ at[1] = 1
    <3>1. PICK j \in 1..n : at[j] = 1
      BY <1>6, <1>8, <1>11
    <3>2. CASE j = 1
      BY <1>6, <3>1, <3>2
    <3>3. CASE j # 1
      <4>1. 1 \in 1..n /\ 1 < j
        BY <1>6, <3>1, <3>3
      <4>2. at[1] < at[j] /\ at[1] \in 1..L
        BY <1>8, <1>9, <4>1
      <4>. QED BY <3>1, <4>2
    <3>. QED BY <3>2, <3>3
  <2>5. stdin[1] = typed[Held + 1]
    <3>1. 1 \in 1..n
      BY <1>6, <2>4
    <3>. QED BY <1>8, <2>4, <3>1
  <2>6. HeldInOrder'
    <3>1. Held' <= Len(typed)
      BY <1>3, <2>3, <2>4
    <3>2. \A i \in 1..Len(hand') : hand'[i] = ToGuest(translate, typed[Len(got) + Len(rx) + i])
      <4>1. Held + 1 = Len(got) + Len(rx) + 1
        BY <1>2, <1>3
      <4>2. \A i \in 1..Len(hand') : i = 1
        BY <2>2
      <4>. QED BY <2>2, <2>5, <4>1, <4>2
    <3>. QED BY <1>1, <1>2, <1>c, <3>1, <3>2 DEF HeldInOrder
  <2>7. PICK to : to = [j \in 1..(n - 1) |-> at[j + 1] - 1]
    OBVIOUS
  <2>8. \A j \in 1..(n - 1) : j + 1 \in 1..n /\ at[j + 1] \in 1..L /\ at[j + 1] # 1
    <3>. SUFFICES ASSUME NEW j \in 1..(n - 1)
                  PROVE  j + 1 \in 1..n /\ at[j + 1] \in 1..L /\ at[j + 1] # 1
      OBVIOUS
    <3>1. 1 \in 1..n /\ j + 1 \in 1..n /\ 1 < j + 1
      BY <1>6
    <3>2. at[1] < at[j + 1] /\ at[j + 1] \in 1..L
      BY <1>8, <1>9, <3>1
    <3>. QED BY <2>4, <3>1, <3>2
  <2>0. Len(typed') - Held' = n - 1
    BY <1>1, <1>3, <2>3
  <2>. HIDE DEF n, L
  <2>9. to \in [1..(n - 1) -> 1..(L - 1)] /\ \A j \in 1..(n - 1) : to[j] = at[j + 1] - 1
    BY <1>6, <2>7, <2>8
  <2>10. ASSUME NEW j \in 1..(n - 1) PROVE typed'[Held' + j] = stdin'[to[j]]
    <3>1. to[j] \in 1..(L - 1) /\ to[j] + 1 = at[j + 1] /\ j + 1 \in 1..n
      BY <1>6, <2>8, <2>9
    <3>2. Held' + j = Held + (j + 1)
      BY <1>3, <1>6, <2>3
    <3>. QED BY <1>1, <1>4, <1>8, <3>1, <3>2 DEF L
  <2>11. ASSUME NEW i \in 1..(n - 1), NEW j \in 1..(n - 1), i < j PROVE to[i] < to[j]
    <3>1. i + 1 \in 1..n /\ j + 1 \in 1..n /\ i + 1 < j + 1
      BY <1>6, <2>11
    <3>2. at[i + 1] < at[j + 1] /\ at[i + 1] \in Int /\ at[j + 1] \in Int
      BY <1>8, <2>8, <3>1
    <3>. QED BY <2>9, <3>2
  <2>12. ASSUME NEW p \in 1..(L - 1), IsChar(stdin'[p]) PROVE \E j \in 1..(n - 1) : to[j] = p
    <3>1. p + 1 \in 1..L /\ stdin'[p] = stdin[p + 1] /\ p + 1 - 1 = p /\ p + 1 # 1
      BY <1>4, <1>6 DEF L
    <3>2. PICK j \in 1..n : at[j] = p + 1
      BY <1>8, <2>12, <3>1
    <3>3. j # 1
      BY <2>4, <3>1, <3>2
    <3>4. j - 1 \in 1..(n - 1) /\ (j - 1) + 1 = j
      BY <1>6, <3>3
    <3>5. to[j - 1] = at[j] - 1
      BY <2>9, <3>4
    <3>. QED BY <3>1, <3>2, <3>4, <3>5
  <2>13. DOMAIN to = 1..(n - 1)
    BY <2>9
  <2>14. Follows(to)'
    BY <1>6, <1>c, <2>10, <2>11, <2>12, <2>13 DEF Follows
  <2>15. PendingInOrder'
    BY <1>6, <2>0, <2>9, <2>14 DEF PendingInOrder
  <2>. QED BY <1>5, <2>6, <2>15
<1>. QED BY <1>10, <1>11

\* With no more than Depth characters typed the FIFO has room for each.
LEMMA QueuesByte ==
  ASSUME TypeOK, EchoInv, InDepth', Queue
  PROVE  HeldInOrder' /\ PendingInOrder' /\ ShownInOrder'
<1>1. /\ reader = "queueing" /\ hand' = <<>>
      /\ rx' = IF Len(rx) < Depth THEN rx \o hand ELSE rx
      /\ UNCHANGED <<translate, stdin, typed, guest, r2, got, screen>>
  BY DEF Queue, hostVars, guestVars
<1>2. /\ HeldInOrder /\ PendingInOrder /\ ShownInOrder /\ Len(typed) <= Depth
      /\ Held <= Len(typed) /\ Held = Len(got) + Len(rx) + Len(hand)
      /\ \A i \in 1..Len(typed) : IsChar(typed[i])
      /\ \A i \in 1..Len(got) : got[i] = ToGuest(translate, typed[i])
      /\ \A i \in 1..Len(rx) : rx[i] = ToGuest(translate, typed[Len(got) + i])
      /\ \A i \in 1..Len(hand) : hand[i] = ToGuest(translate, typed[Len(got) + Len(rx) + i])
  BY <1>1, EchoNow
<1>3. /\ Len(got) \in Nat /\ Len(rx) \in Nat /\ Len(typed) \in Nat
      /\ Len(hand) = 1 /\ Held \in Nat
  BY <1>1, EchoTypes
<1>4. Len(rx) < Depth
  BY <1>2, <1>3, DepthAssumption
<1>5. PICK v \in Chars : hand = <<v>>
  BY <1>1 DEF TypeOK
<1>6. /\ Len(rx') = Len(rx) + 1 /\ rx'[Len(rx) + 1] = hand[1] /\ \A i \in 1..Len(rx) : rx'[i] = rx[i]
  <2>1. rx' = rx \o <<v>> /\ rx \in Seq(Chars) /\ hand[1] = v
    BY <1>1, <1>4, <1>5 DEF TypeOK
  <2>. QED BY <2>1
<1>7. Held' = Held
  <2>1. Len(hand') = 0
    BY <1>1
  <2>2. Held' = Len(got) + Len(rx') + Len(hand')
    BY <1>1 DEF Held
  <2>. QED BY <1>2, <1>3, <1>6, <2>1, <2>2
<1>c. \A c : IsChar(c)' = IsChar(c) /\ Canonical(c)' = Canonical(c)
  BY <1>1 DEF IsChar, Canonical
<1>8. HeldInOrder'
  <2>1. ASSUME NEW i \in 1..Len(rx') PROVE rx'[i] = ToGuest(translate, typed[Len(got) + i])
    <3>1. CASE i \in 1..Len(rx)
      BY <1>2, <1>6, <3>1
    <3>2. CASE i = Len(rx) + 1
      <4>1. Len(got) + i = Len(got) + Len(rx) + 1 /\ 1 \in 1..Len(hand)
        BY <1>3, <3>2
      <4>. QED BY <1>2, <1>6, <3>2, <4>1
    <3>. QED BY <1>3, <1>6, <3>1, <3>2
  <2>2. \A i \in 1..Len(hand') : FALSE
    BY <1>1
  <2>. QED BY <1>1, <1>2, <1>7, <1>c, <2>1, <2>2 DEF HeldInOrder
<1>9. PendingInOrder'
  BY <1>1, <1>2, <1>7, PendingStays
<1>10. ShownInOrder'
  BY <1>1, <1>2, <1>c DEF ShownInOrder
<1>. QED BY <1>8, <1>9, <1>10

LEMMA ReceivesChar ==
  ASSUME TypeOK, NoPhantomRead, EchoInv, InDepth', ReadRx
  PROVE  HeldInOrder' /\ PendingInOrder' /\ ShownInOrder'
<1>1. /\ guest = "readRx" /\ guest' = "pollTx" /\ rx # <<>>
      /\ rx' = Tail(rx) /\ r2' = Head(rx) /\ got' = Append(got, Head(rx))
      /\ UNCHANGED <<translate, stdin, reader, typed, hand, screen>>
  BY DEF ReadRx, NoPhantomRead, hostVars
<1>r. reader # "off"
  BY <1>1 DEF InDepth
<1>2. /\ HeldInOrder /\ PendingInOrder /\ ShownInOrder
      /\ Held <= Len(typed) /\ Held = Len(got) + Len(rx) + Len(hand)
      /\ \A i \in 1..Len(typed) : IsChar(typed[i])
      /\ \A i \in 1..Len(got) : got[i] = ToGuest(translate, typed[i])
      /\ \A i \in 1..Len(rx) : rx[i] = ToGuest(translate, typed[Len(got) + i])
      /\ \A i \in 1..Len(hand) : hand[i] = ToGuest(translate, typed[Len(got) + Len(rx) + i])
  BY <1>1, <1>r, EchoNow
<1>3. /\ Len(got) \in Nat /\ Len(rx) \in Nat /\ Len(typed) \in Nat
      /\ Len(hand) \in {0, 1} /\ Held \in Nat
  BY EchoTypes
<1>4. /\ Head(rx) = rx[1] /\ Len(rx) >= 1 /\ Len(rx') = Len(rx) - 1
      /\ \A i \in 1..(Len(rx) - 1) : rx'[i] = rx[i + 1]
  <2>1. rx \in Seq(Chars)
    BY DEF TypeOK
  <2>2. Head(rx) = rx[1] /\ Len(rx) >= 1
    BY <1>1, <2>1, EmptySeq
  <2>3. Len(Tail(rx)) = Len(rx) - 1 /\ \A i \in 1..Len(Tail(rx)) : Tail(rx)[i] = rx[i + 1]
    BY <1>1, <2>1, HeadTailProperties
  <2>. QED BY <1>1, <2>2, <2>3
<1>5. /\ Len(got') = Len(got) + 1 /\ got'[Len(got) + 1] = Head(rx)
      /\ \A i \in 1..Len(got) : got'[i] = got[i]
  <2>1. got \in Seq(Chars \cup {0}) /\ Head(rx) \in Chars \cup {0}
    <3>1. rx \in Seq(Chars) /\ got \in Seq(Chars \cup {0})
      BY DEF TypeOK
    <3>2. Head(rx) \in Chars
      BY <1>1, <3>1, HeadTailProperties
    <3>. QED BY <3>1, <3>2
  <2>. QED BY <1>1, <2>1, EndOfAppend
<1>6. Held' = Held
  BY <1>1, <1>2, <1>3, <1>4, <1>5 DEF Held
<1>c. \A c : IsChar(c)' = IsChar(c) /\ Canonical(c)' = Canonical(c)
  BY <1>1 DEF IsChar, Canonical
<1>7. HeldInOrder'
  <2>1. ASSUME NEW i \in 1..Len(got') PROVE got'[i] = ToGuest(translate, typed[i])
    <3>1. CASE i \in 1..Len(got)
      BY <1>2, <1>5, <3>1
    <3>2. CASE i = Len(got) + 1
      <4>1. 1 \in 1..Len(rx)
        BY <1>3, <1>4
      <4>. QED BY <1>2, <1>4, <1>5, <3>2, <4>1
    <3>. QED BY <1>3, <1>5, <3>1, <3>2
  <2>2. ASSUME NEW i \in 1..Len(rx') PROVE rx'[i] = ToGuest(translate, typed[Len(got') + i])
    <3>1. i + 1 \in 1..Len(rx) /\ Len(got') + i = Len(got) + (i + 1) /\ i \in 1..(Len(rx) - 1)
      BY <1>3, <1>4, <1>5
    <3>. QED BY <1>2, <1>4, <3>1
  <2>3. ASSUME NEW i \in 1..Len(hand) PROVE hand[i] = ToGuest(translate, typed[Len(got') + Len(rx') + i])
    <3>1. Len(got') + Len(rx') = Len(got) + Len(rx)
      BY <1>3, <1>4, <1>5
    <3>. QED BY <1>2, <3>1
  <2>. QED BY <1>1, <1>2, <1>6, <1>c, <2>1, <2>2, <2>3 DEF HeldInOrder
<1>8. PendingInOrder'
  BY <1>1, <1>2, <1>6, PendingStays
<1>9. ShownInOrder'
  <2>1. Len(screen) = Len(got) /\ \A i \in 1..Len(screen) : screen[i] = Canonical(typed[i])
    BY <1>1, <1>2 DEF ShownInOrder
  <2>2. Len(screen) = Len(got') - 1 /\ Len(got') > 0 /\ r2' = got'[Len(got')]
    BY <1>1, <1>3, <1>5, <2>1
  <2>. QED BY <1>1, <1>c, <2>1, <2>2 DEF ShownInOrder
<1>. QED BY <1>7, <1>8, <1>9

LEMMA PrintsChar ==
  ASSUME TypeOK, EchoInv, InDepth', WriteTx
  PROVE  HeldInOrder' /\ PendingInOrder' /\ ShownInOrder'
<1>1. /\ guest = "writeTx" /\ guest' = "pollRx"
      /\ screen' = screen \o ToHost(translate, r2)
      /\ UNCHANGED <<translate, stdin, reader, typed, hand, rx, got, r2>>
  BY DEF WriteTx, hostVars
<1>r. reader # "off"
  BY <1>1 DEF InDepth
<1>2. /\ HeldInOrder /\ PendingInOrder /\ ShownInOrder
      /\ Held <= Len(typed) /\ Held = Len(got) + Len(rx) + Len(hand)
      /\ \A i \in 1..Len(typed) : IsChar(typed[i])
      /\ \A i \in 1..Len(got) : got[i] = ToGuest(translate, typed[i])
  BY <1>1, <1>r, EchoNow
<1>3. /\ Len(got) \in Nat /\ Len(rx) \in Nat /\ Len(typed) \in Nat
      /\ Len(hand) \in {0, 1} /\ Held \in Nat
  BY EchoTypes
<1>4. /\ Len(screen) = Len(got) - 1 /\ Len(got) > 0 /\ r2 = got[Len(got)]
      /\ \A i \in 1..Len(screen) : screen[i] = Canonical(typed[i])
  BY <1>1, <1>2 DEF ShownInOrder
<1>. DEFINE b == typed[Len(got)]
<1>5. b \in Bytes /\ IsChar(b) /\ r2 = ToGuest(translate, b)
  <2>1. Len(got) \in 1..Len(typed) /\ Len(got) \in 1..Len(got)
    BY <1>2, <1>3, <1>4
  <2>2. typed \in Seq(Bytes)
    BY DEF TypeOK
  <2>. QED BY <1>2, <1>4, <2>1, <2>2, ElementOfSeq
<1>6. ToHost(translate, r2) = <<Canonical(b)>>
  <2>1. translate \in BOOLEAN
    BY ModesAssumption DEF TypeOK
  <2>2. translate \/ b < 128
    <3>1. SevenBit /\ Len(got) \in 1..Len(typed)
      BY <1>1, <1>2, <1>3, <1>4 DEF InDepth, SevenBit
    <3>. QED BY <3>1 DEF SevenBit
  <2>3. ToHost(translate, ToGuest(translate, b)) = <<Canonical(b)>>
    BY <1>5, <2>1, <2>2, BackAndForth
  <2>. QED BY <1>5, <2>3
<1>7. screen' = screen \o <<Canonical(b)>> /\ screen \in Seq(0..255)
  BY <1>1, <1>6 DEF TypeOK
<1>. HIDE DEF b
<1>8. /\ Len(screen') = Len(screen) + 1 /\ screen'[Len(screen) + 1] = Canonical(b)
      /\ \A i \in 1..Len(screen) : screen'[i] = screen[i]
  <2>. DEFINE c == Canonical(b)
  <2>1. screen' = screen \o <<c>>
    BY <1>7
  <2>. HIDE DEF c
  <2>2. Len(screen') = Len(screen) + 1 /\ screen'[Len(screen) + 1] = c
        /\ \A i \in 1..Len(screen) : screen'[i] = screen[i]
    BY <1>7, <2>1
  <2>. QED BY <2>2 DEF c
<1>c. \A c : Canonical(c)' = Canonical(c)
  BY <1>1 DEF Canonical
<1>9. ShownInOrder'
  <2>1. Len(screen') = Len(got)
    BY <1>3, <1>4, <1>8
  <2>2. ASSUME NEW i \in 1..Len(screen') PROVE screen'[i] = Canonical(typed[i])
    <3>1. CASE i \in 1..Len(screen)
      BY <1>4, <1>8, <3>1
    <3>2. CASE i = Len(got)
      <4>1. Len(screen) + 1 = Len(got)
        BY <1>3, <1>4
      <4>. QED BY <1>8, <3>2, <4>1 DEF b
    <3>3. i \in 1..Len(screen) \/ i = Len(got)
      BY <1>3, <1>4, <2>1
    <3>. QED BY <3>1, <3>2, <3>3
  <2>. QED BY <1>1, <1>c, <2>1, <2>2 DEF ShownInOrder
<1>10. HeldInOrder' /\ PendingInOrder'
  BY <1>1, <1>r, EchoStutters
<1>. QED BY <1>9, <1>10

LEMMA EchoStep ==
  ASSUME TypeOK, NoPhantomRead, EchoInv, [Next]_vars
  PROVE  EchoInv'
<1>. SUFFICES ASSUME InDepth' PROVE HeldInOrder' /\ PendingInOrder' /\ ShownInOrder'
  BY DEF EchoInv
<1>1. ASSUME NEW b \in Bytes, Type(b) PROVE HeldInOrder' /\ PendingInOrder' /\ ShownInOrder'
  BY <1>1, TypesByte
<1>2. CASE ReadByte
  BY <1>2, ReadsByte
<1>3. CASE Queue
  BY <1>3, QueuesByte
<1>4. CASE ReadRx
  BY <1>4, ReceivesChar
<1>5. CASE WriteTx
  BY <1>5, PrintsChar
<1>6. CASE Close \/ ReadEof \/ PollRx \/ PollTx \/ UNCHANGED vars
  <2>1. /\ UNCHANGED <<translate, stdin, hand, rx, typed, got, screen, r2>> /\ reader # "off"
        /\ guest' \in {"pollTx", "writeTx"} <=> guest \in {"pollTx", "writeTx"}
    BY <1>6 DEF Close, ReadEof, PollRx, PollTx, vars, hostVars, guestVars, InDepth, TypeOK
  <2>2. ShownInOrder /\ \A c : Canonical(c)' = Canonical(c)
    BY <2>1, EchoNow DEF Canonical
  <2>3. ShownInOrder'
    BY <2>1, <2>2 DEF ShownInOrder
  <2>. QED BY <2>1, <2>3, EchoStutters
<1>. QED BY <1>1, <1>2, <1>3, <1>4, <1>5, <1>6 DEF Next, Host, Reader, Guest

LEMMA EchoStart ==
  ASSUME Init
  PROVE  EchoInv
<1>. SUFFICES ASSUME reader # "off" PROVE HeldInOrder /\ PendingInOrder /\ ShownInOrder
  BY DEF EchoInv, InDepth
<1>1. /\ rx = <<>> /\ typed = <<>> /\ stdin = <<>> /\ hand = <<>> /\ got = <<>> /\ screen = <<>>
      /\ guest = "pollRx"
  BY DEF Init
<1>2. /\ Len(rx) = 0 /\ Len(typed) = 0 /\ Len(stdin) = 0 /\ Len(hand) = 0 /\ Len(got) = 0
      /\ Len(screen) = 0
  BY <1>1
<1>3. Held = 0
  BY <1>2 DEF Held
<1>4. HeldInOrder
  BY <1>2, <1>3 DEF HeldInOrder
<1>5. PendingInOrder
  <2>1. PICK at : at = [j \in 1..0 |-> 0]
    OBVIOUS
  <2>2. at \in [1..0 -> 1..0] /\ DOMAIN at = 1..0 /\ \A j \in 1..0 : FALSE
    BY <2>1
  <2>3. Follows(at)
    BY <1>2, <2>2 DEF Follows
  <2>4. Len(typed) - Held = 0 /\ Len(stdin) = 0
    BY <1>2, <1>3
  <2>. QED BY <2>2, <2>3, <2>4 DEF PendingInOrder
<1>6. ShownInOrder
  BY <1>1, <1>2 DEF ShownInOrder
<1>. QED BY <1>4, <1>5, <1>6

\* Whatever the interleaving of the typist, the thread and the guest, as long
\* as no more than Depth characters were typed, each of them below 128 in raw
\* mode, the screen shows them in order, each once, folded as SIXBIT folds them:
\* none is lost on the way.
THEOREM EchoFaithful == Spec => []EchoedAsTyped
<1>1. Init => EchoInv
  BY EchoStart
<1>2. TypeOK /\ NoPhantomRead /\ EchoInv /\ [Next]_vars => EchoInv'
  BY EchoStep
<1>3. TypeOK /\ EchoInv => EchoedAsTyped
  <2>. SUFFICES ASSUME TypeOK, EchoInv, InDepth
                PROVE  /\ Len(screen) <= Len(typed)
                       /\ \A i \in 1..Len(screen) : screen[i] = Canonical(typed[i])
    BY DEF EchoedAsTyped, InDepth
  <2>1. /\ Len(screen) <= Len(got) /\ Len(screen) \in Int
        /\ \A i \in 1..Len(screen) : screen[i] = Canonical(typed[i])
    BY EchoTypes DEF EchoInv, ShownInOrder
  <2>2. Len(got) + Len(rx) + Len(hand) <= Len(typed)
    BY DEF EchoInv, HeldInOrder, Held
  <2>. QED BY <2>1, <2>2, EchoTypes
<1>. QED BY <1>1, <1>2, <1>3, TypeCorrect, NoPhantom, PTL DEF Spec
=============================================================================
