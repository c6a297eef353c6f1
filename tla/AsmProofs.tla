------------------------------ MODULE AsmProofs ------------------------------
(***************************************************************************)
(* Proofs about module Assembler, for every set of sources.                *)
(*                                                                         *)
(* A stage is a function of lists, most of them folds.  For each fold a    *)
(* lemma gives the sequence of its intermediate results (..Steps, from     *)
(* FoldAlong), and what holds of all of them is proved along that          *)
(* sequence.  The two recursions without a list to follow, into files and  *)
(* into macros, go down a measure: the names not on the chain yet.  The    *)
(* recursive readings of an expression go down the tokens ahead and the    *)
(* levels of precedence.  IInv joins what the stages hand on; it and the   *)
(* types and steps it speaks of are defined in AsmStages.                  *)
(***************************************************************************)
EXTENDS AsmStages, FiniteSetTheorems, Lemmas

(* Sequences made along sequences.                                           *)

LEMMA TakenSteps ==
  ASSUME NEW ls, NEW n \in Nat, Len(ls) = n, NEW D, \A i \in 1..n : ls[i] \in D, NEW S
  PROVE  TakenRun(ls, n, D, S)
<1>. DEFINE seq == [i \in 1..n |-> i]
            T == Seq(D)
            base == <<>>
            op(q, i) == IF i \in S THEN Append(q, ls[i]) ELSE q
            G == [z \in (1..n) \X T |-> op(z[2], seq[z[1]])]
            Eq(to) == to = [k \in 0..Len(seq) |-> IF k = 0 THEN base
                             ELSE CHOOSE r \in {op(q, seq[k]) : q \in {to[k - 1]}} : TRUE]
            at == CHOOSE to : Eq(to)
<1>1. \A k \in 1..n, q \in T : G[<<k, q>>] = op(q, k) /\ op(q, k) \in T
  OBVIOUS
<1>2. base \in T /\ base = <<>> /\ Len(seq) = n /\ \A k \in 1..n : seq[k] = k
  OBVIOUS
<1>3. Taken(ls, S) = at[Len(seq)]
  BY DEF Taken, Along
<1>. HIDE DEF G, T, base, seq, op
<1>4. PICK to \in [0..n -> T] : TheFold(to, n, T, base, G)
  <2>1. \A k \in 1..n, q \in T : G[<<k, q>>] \in T
    BY <1>1
  <2>. QED BY <1>2, <2>1, FoldAlong
<1>5. \A k \in 1..n : to[k] = op(to[k - 1], k) /\ to[k - 1] \in T
  BY <1>1, <1>4 DEF TheFold
<1>6. to[0] = base
  BY <1>4 DEF TheFold
<1>7. Eq(to)
  BY <1>2, <1>5, <1>6
<1>. HIDE DEF Eq
<1>8. Eq(at)
  BY <1>7
<1>. HIDE DEF at
<1>9. FollowsFold(at, n, T, base, G)
  BY <1>1, <1>2, <1>8 DEF FollowsFold, Eq
<1>. QED BY <1>2, <1>3, <1>4, <1>5, <1>6, <1>9 DEF TheFold, T, op, TakenRun

LEMMA TakenIn == ASSUME NEW D, NEW ls \in Seq(D), NEW S PROVE Taken(ls, S) \in Seq(D)
BY TakenSteps DEF TakenRun

LEMMA FlattenSteps ==
  ASSUME NEW D, NEW ss \in Seq(Seq(D)), NEW n \in Nat, n = Len(ss)
  PROVE  FlattenRun(D, ss, n)
<1>. DEFINE T == Seq(D)
            base == <<>>
            G == [z \in (1..n) \X T |-> z[2] \o ss[z[1]]]
            Eq(f) == f = [i \in 1..Len(ss) |-> IF i = 1 THEN ss[i] ELSE f[i - 1] \o ss[i]]
            at == CHOOSE f : Eq(f)
<1>1. ASSUME NEW k \in 1..n, NEW q \in T PROVE G[<<k, q>>] = q \o ss[k] /\ q \o ss[k] \in T
  <2>1. ss[k] \in Seq(D)
    OBVIOUS
  <2>2. q \o ss[k] \in Seq(D)
    BY <2>1
  <2>. QED BY <2>2
<1>2. base \in T /\ base = <<>> /\ \A k \in 1..n : ss[k] \in T /\ base \o ss[k] = ss[k]
  OBVIOUS
<1>3. FlattenSeq(ss) = IF n = 0 THEN <<>> ELSE at[n]
  BY EmptySeq DEF FlattenSeq
<1>. HIDE DEF G, T, base
<1>4. PICK to \in [0..n -> T] : TheFold(to, n, T, base, G)
  <2>1. \A k \in 1..n, q \in T : G[<<k, q>>] \in T
    BY <1>1
  <2>. QED BY <1>2, <2>1, FoldAlong
<1>5. \A k \in 1..n : to[k] = to[k - 1] \o ss[k] /\ to[k - 1] \in T
  BY <1>1, <1>4 DEF TheFold
<1>6. to[0] = base
  BY <1>4 DEF TheFold
<1>7. Eq([i \in 1..n |-> to[i]])
  <2>1. \A i \in 1..n : to[i] = IF i = 1 THEN ss[i] ELSE [j \in 1..n |-> to[j]][i - 1] \o ss[i]
    <3>. TAKE i \in 1..n
    <3>1. CASE i = 1
      BY <1>2, <1>5, <1>6, <3>1
    <3>2. CASE i # 1
      <4>1. i - 1 \in 1..n
        BY <3>2
      <4>. QED BY <1>5, <3>2, <4>1
    <3>. QED BY <3>1, <3>2
  <2>. QED BY <2>1
<1>8. Eq(at)
  <2>. HIDE DEF Eq
  <2>. QED BY <1>7
<1>9. \A k \in 1..n : at[k] = to[k]
  <2>. HIDE DEF at
  <2>. DEFINE U == {k \in Nat : k \in 1..n => at[k] = to[k]}
  <2>1. 0 \in U
    OBVIOUS
  <2>2. ASSUME NEW k \in Nat, k \in U PROVE k + 1 \in U
    <3>. SUFFICES ASSUME k + 1 \in 1..n PROVE at[k + 1] = to[k + 1]
      OBVIOUS
    <3>1. at[k + 1] = IF k + 1 = 1 THEN ss[k + 1] ELSE at[(k + 1) - 1] \o ss[k + 1]
      BY <1>8
    <3>2. CASE k = 0
      <4>1. at[k + 1] = ss[k + 1]
        BY <3>1, <3>2
      <4>2. to[k + 1] = to[0] \o ss[k + 1] 
        BY <1>5, <3>2, (k + 1) - 1 = 0
      <4>. QED BY <1>2, <1>6, <4>1, <4>2, k + 1 \in 1..n
    <3>3. CASE k # 0
      <4>1. k \in 1..n /\ (k + 1) - 1 = k /\ k + 1 # 1
        BY <3>3
      <4>2. at[k + 1] = at[k] \o ss[k + 1]
        BY <3>1, <4>1
      <4>3. to[k + 1] = to[k] \o ss[k + 1]
        BY <1>5, <4>1
      <4>. QED BY <2>2, <4>1, <4>2, <4>3
    <3>. QED BY <3>2, <3>3
  <2>3. \A k \in Nat : k \in U
    <3>. HIDE DEF U
    <3>. QED BY <2>1, <2>2, SetInduction
  <2>. QED BY <2>3
<1>10. FlattenSeq(ss) = to[n]
  <2>1. n = 0 \/ n \in 1..n
    OBVIOUS
  <2>. QED BY <1>2, <1>3, <1>6, <1>9, <2>1
<1>. QED BY <1>2, <1>4, <1>5, <1>6, <1>10 DEF T, FlattenRun

LEMMA FlattenIn == ASSUME NEW D, NEW ss \in Seq(Seq(D)) PROVE FlattenSeq(ss) \in Seq(D)
<1>. DEFINE n == Len(ss)
<1>1. n \in Nat /\ n \in 0..n /\ n = Len(ss)
  OBVIOUS
<1>. HIDE DEF n
<1>2. PICK to \in [0..n -> Seq(D)] :
           /\ to[0] = <<>>
           /\ \A k \in 1..n : to[k] = to[k - 1] \o ss[k]
           /\ FlattenSeq(ss) = to[n]
  <2>1. FlattenRun(D, ss, n)
    BY <1>1, FlattenSteps
  <2>. QED BY <2>1 DEF FlattenRun
<1>. QED BY <1>1, <1>2
-----------------------------------------------------------------------------
(* Stages 1 and 3: what a recursive stage comes to exists, and has its type. *)

LEMMA MinIn == ASSUME NEW S, S \subseteq Nat, S # {} PROVE Min(S) \in S
BY LeastIn DEF Min

LEMMA SimpleResults ==
  /\ \A ls \in Seq(SourceLine) : Lines(ls) \in Results /\ Lines(ls).err = "none" /\ Lines(ls).lines = ls
  /\ \A l \in SourceLine : Lines(<<l>>) \in Results /\ Lines(<<l>>).err = "none"
  /\ \A why \in Errors : Wrong(why) \in Results /\ Wrong(why).err = why
<1>1. ASSUME NEW ls \in Seq(SourceLine)
      PROVE  Lines(ls) \in Results /\ Lines(ls).err = "none" /\ Lines(ls).lines = ls
  BY DEF Errors, Lines, Results
<1>2. ASSUME NEW why \in Errors PROVE Wrong(why) \in Results /\ Wrong(why).err = why
  BY DEF Wrong, Results
<1>3. \A l \in SourceLine : <<l>> \in Seq(SourceLine)
  OBVIOUS
<1>. QED BY <1>1, <1>2, <1>3

LEMMA AllOfFacts ==
  ASSUME NEW rs \in Seq(Results)
  PROVE  /\ AllOf(rs) \in Results
         /\ AllOf(rs).err = "none" <=> \A i \in 1..Len(rs) : rs[i].err = "none"
         /\ AllOf(rs).err = "none" => AllOf(rs).lines = FlattenSeq([i \in 1..Len(rs) |-> rs[i].lines])
         /\ AllOf(rs).err # "none" => \E i \in 1..Len(rs) : AllOf(rs).err = rs[i].err
<1>. DEFINE bad == {i \in 1..Len(rs) : rs[i].err # "none"}
            ss == [i \in 1..Len(rs) |-> rs[i].lines]
<1>1. Len(rs) \in Nat /\ \A i \in 1..Len(rs) : rs[i] \in Results
  OBVIOUS
<1>2. \A i \in 1..Len(rs) : rs[i].lines \in Seq(SourceLine) /\ rs[i].err \in Errors
  BY <1>1 DEF Results
<1>3. ss \in Seq(Seq(SourceLine))
  BY <1>1, <1>2
<1>4. FlattenSeq(ss) \in Seq(SourceLine)
  BY <1>3, FlattenIn
<1>5. CASE bad = {}
  <2>1. AllOf(rs) = Lines(FlattenSeq(ss))
    BY <1>5 DEF AllOf
  <2>2. AllOf(rs) \in Results /\ AllOf(rs).err = "none" /\ AllOf(rs).lines = FlattenSeq(ss)
    <3>. HIDE DEF ss
    <3>. QED BY <1>4, <2>1, SimpleResults
  <2>3. \A i \in 1..Len(rs) : rs[i].err = "none"
    BY <1>5
  <2>. QED BY <2>2, <2>3
<1>6. CASE bad # {}
  <2>1. bad \subseteq Nat
    OBVIOUS
  <2>2. Min(bad) \in bad
    <3>. HIDE DEF bad
    <3>. QED BY <1>6, <2>1, MinIn
  <2>3. AllOf(rs) = Wrong(rs[Min(bad)].err)
    BY <1>6 DEF AllOf
  <2>4. PICK i \in 1..Len(rs) : i = Min(bad) /\ rs[i].err # "none"
    BY <2>2
  <2>. HIDE DEF bad
  <2>5. AllOf(rs) \in Results /\ AllOf(rs).err = rs[i].err
    BY <1>2, <2>3, <2>4, SimpleResults
  <2>. QED BY <2>4, <2>5
<1>. QED BY <1>5, <1>6

(* A set of files: its names are finite, its lines are lines.                *)

LEMMA IncludeLineCases ==
  ASSUME NEW files, NEW l \in SourceLine, NEW seen, NEW g
  PROVE  /\ ~Is(l, "%include") => IncludeLine(files, l, seen, g) = Lines(<<l>>)
         /\ Is(l, "%include") /\ NameIn(l, 1) \in seen
              => IncludeLine(files, l, seen, g) = Wrong("circular %include")
         /\ Is(l, "%include") /\ NameIn(l, 1) \notin seen /\ NameIn(l, 1) \notin DOMAIN files
              => IncludeLine(files, l, seen, g) = Wrong("cannot open")
         /\ Leads1(files, l, seen) => IncludeLine(files, l, seen, g) = AllOf(<<Lines(<<l>>), g[At1(l, seen)]>>)
BY DEF IncludeLine, Leads1, At1

LEMMA IncludeLineLeads ==
  ASSUME NEW files, NEW l, NEW seen, NEW g, Leads1(files, l, seen)
  PROVE  IncludeLine(files, l, seen, g) = AllOf(<<Lines(<<l>>), g[At1(l, seen)]>>)
BY DEF IncludeLine, Leads1, At1

LEMMA PairOf ==
  ASSUME NEW a \in Results, NEW b \in Results
  PROVE  /\ <<a, b>> \in Seq(Results) /\ Len(<<a, b>>) = 2
         /\ AllOf(<<a, b>>) \in Results
         /\ AllOf(<<a, b>>).err = "none" <=> a.err = "none" /\ b.err = "none"
         /\ a.err = "none" => AllOf(<<a, b>>).err = b.err
<1>1. <<a, b>> \in Seq(Results) /\ Len(<<a, b>>) = 2 /\ <<a, b>>[1] = a /\ <<a, b>>[2] = b
  OBVIOUS
<1>2. \A i \in 1..2 : i = 1 \/ i = 2
  OBVIOUS
<1>. DEFINE p == <<a, b>>
<1>. HIDE DEF p
<1>3. p \in Seq(Results) /\ Len(p) = 2 /\ p[1] = a /\ p[2] = b
  BY <1>1 DEF p
<1>4. /\ AllOf(p) \in Results
      /\ AllOf(p).err = "none" <=> \A i \in 1..2 : p[i].err = "none"
      /\ AllOf(p).err # "none" => \E i \in 1..2 : AllOf(p).err = p[i].err
  BY <1>3, AllOfFacts
<1>5. AllOf(p).err = "none" <=> a.err = "none" /\ b.err = "none"
  BY <1>2, <1>3, <1>4
<1>6. a.err = "none" => AllOf(p).err = b.err
  BY <1>2, <1>3, <1>4, <1>5
<1>. QED BY <1>3, <1>4, <1>5, <1>6 DEF p

LEMMA IncludeLineIn ==
  ASSUME NEW files, NEW l \in SourceLine, NEW seen, NEW g,
         Leads1(files, l, seen) => g[At1(l, seen)] \in Results
  PROVE  /\ IncludeLine(files, l, seen, g) \in Results
         /\ Leads1(files, l, seen) => IncludeLine(files, l, seen, g).err = g[At1(l, seen)].err
<1>1. CASE Leads1(files, l, seen)
  <2>1. Lines(<<l>>) \in Results /\ Lines(<<l>>).err = "none"
    BY SimpleResults
  <2>2. IncludeLine(files, l, seen, g) = AllOf(<<Lines(<<l>>), g[At1(l, seen)]>>)
    BY <1>1, IncludeLineCases
  <2>3. g[At1(l, seen)] \in Results
    BY <1>1
  <2>. HIDE DEF Leads1, At1
  <2>. QED BY <2>1, <2>2, <2>3, PairOf
<1>2. CASE ~Leads1(files, l, seen)
  <2>1. \/ IncludeLine(files, l, seen, g) = Lines(<<l>>)
        \/ IncludeLine(files, l, seen, g) = Wrong("circular %include")
        \/ IncludeLine(files, l, seen, g) = Wrong("cannot open")
    <3>1. ~Is(l, "%include") \/ NameIn(l, 1) \in seen \/ NameIn(l, 1) \notin DOMAIN files
      BY <1>2 DEF Leads1
    <3>. QED BY <3>1, IncludeLineCases
  <2>2. "circular %include" \in Errors /\ "cannot open" \in Errors
    BY DEF Errors, IncludeErrors
  <2>. QED BY <1>2, <2>1, <2>2, SimpleResults
<1>. QED BY <1>1, <1>2

LEMMA LedLine ==
  ASSUME NEW files, NEW l \in SourceLine, NEW seen, NEW g, Leads1(files, l, seen), g[At1(l, seen)] \in Results
  PROVE  IncludeLine(files, l, seen, g).err = g[At1(l, seen)].err
<1>1. Leads1(files, l, seen) => g[At1(l, seen)] \in Results
  OBVIOUS
<1>. HIDE DEF Leads1, At1
<1>. QED BY <1>1, IncludeLineIn

LEMMA LeftIsNat ==
  ASSUME NEW files, AreFiles(files)
  PROVE  /\ Left(files) \in [Asked(files) -> Nat]
         /\ Cardinality(DOMAIN files) \in Nat
         /\ \A x \in Asked(files) : Left(files)[x] < Cardinality(DOMAIN files) + 1
<1>1. ASSUME NEW x \in Asked(files)
      PROVE  /\ Cardinality(DOMAIN files \ x[2]) \in Nat
             /\ Cardinality(DOMAIN files \ x[2]) <= Cardinality(DOMAIN files)
  BY FS_Subset, FS_CardinalityType DEF AreFiles
<1>2. Cardinality(DOMAIN files) \in Nat
  BY FS_CardinalityType DEF AreFiles
<1>. QED BY <1>1, <1>2 DEF Left

LEMMA FewerLeft ==
  ASSUME NEW files, AreFiles(files), NEW x \in Asked(files), NEW n \in DOMAIN files, n \notin x[2]
  PROVE  /\ <<n, x[2] \cup {n}>> \in Asked(files)
         /\ Left(files)[<<n, x[2] \cup {n}>>] < Left(files)[x]
<1>. DEFINE D == DOMAIN files
            y == <<n, x[2] \cup {n}>>
<1>1. y \in Asked(files) /\ y[2] = x[2] \cup {n}
  BY DEF Asked
<1>2. D \ y[2] = (D \ x[2]) \ {n} /\ n \in D \ x[2]
  BY <1>1
<1>3. IsFiniteSet(D \ x[2]) /\ Cardinality(D \ x[2]) \in Nat
  BY FS_Subset, FS_CardinalityType DEF AreFiles
<1>4. Cardinality(D \ y[2]) = Cardinality(D \ x[2]) - 1
  <2>. DEFINE R == D \ x[2]
  <2>. HIDE DEF y
  <2>1. D \ y[2] = R \ {n} /\ n \in R /\ IsFiniteSet(R)
    BY <1>2, <1>3
  <2>. HIDE DEF R
  <2>2. Cardinality(R \ {n}) = Cardinality(R) - 1
    BY <2>1, FS_RemoveElement
  <2>. QED BY <2>1, <2>2 DEF R
<1>. HIDE DEF y
<1>5. Left(files)[y] < Left(files)[x]
  BY <1>1, <1>3, <1>4 DEF Left
<1>. QED BY <1>1, <1>5 DEF y

\* The lines of one file, each with what it comes to.
LEMMA FileLines ==
  ASSUME NEW files, AreFiles(files), NEW x \in Asked(files), NEW g,
         \A y \in Asked(files) : Left(files)[y] < Left(files)[x] => g[y] \in Results
  PROVE  /\ files[x[1]] \in Seq(SourceLine) /\ Len(files[x[1]]) \in Nat
         /\ \A i \in 1..Len(files[x[1]]) :
              /\ files[x[1]][i] \in SourceLine
              /\ IncludeLine(files, files[x[1]][i], x[2], g) \in Results
              /\ Leads1(files, files[x[1]][i], x[2]) =>
                   /\ At1(files[x[1]][i], x[2]) \in Asked(files)
                   /\ Left(files)[At1(files[x[1]][i], x[2])] < Left(files)[x]
                   /\ IncludeLine(files, files[x[1]][i], x[2], g).err = g[At1(files[x[1]][i], x[2])].err
<1>1. files[x[1]] \in Seq(SourceLine)
  BY DEF AreFiles, Asked
<1>2. Len(files[x[1]]) \in Nat /\ \A i \in 1..Len(files[x[1]]) : files[x[1]][i] \in SourceLine
  BY <1>1, LenIsNat
<1>3. ASSUME NEW i \in 1..Len(files[x[1]])
      PROVE  /\ IncludeLine(files, files[x[1]][i], x[2], g) \in Results
             /\ Leads1(files, files[x[1]][i], x[2]) =>
                  /\ At1(files[x[1]][i], x[2]) \in Asked(files)
                  /\ Left(files)[At1(files[x[1]][i], x[2])] < Left(files)[x]
                  /\ IncludeLine(files, files[x[1]][i], x[2], g).err = g[At1(files[x[1]][i], x[2])].err
  <2>1. PICK l \in SourceLine : l = files[x[1]][i]
    BY <1>2
  <2>2. ASSUME Leads1(files, l, x[2])
        PROVE  At1(l, x[2]) \in Asked(files) /\ Left(files)[At1(l, x[2])] < Left(files)[x]
    BY <2>2, FewerLeft DEF Leads1, At1
  <2>3. Leads1(files, l, x[2]) => g[At1(l, x[2])] \in Results
    BY <2>2
  <2>4. /\ IncludeLine(files, l, x[2], g) \in Results
        /\ Leads1(files, l, x[2]) => IncludeLine(files, l, x[2], g).err = g[At1(l, x[2])].err
    BY <2>3, IncludeLineIn
  <2>. QED BY <2>1, <2>2, <2>4
<1>. QED BY <1>1, <1>2, <1>3

LEMMA FileResultIn ==
  ASSUME NEW files, AreFiles(files), NEW x \in Asked(files), NEW g,
         \A y \in Asked(files) : Left(files)[y] < Left(files)[x] => g[y] \in Results
  PROVE  /\ FileResult(files, x, g) \in Results
         /\ FileResult(files, x, g).err = "none" <=>
              \A i \in 1..Len(files[x[1]]) : IncludeLine(files, files[x[1]][i], x[2], g).err = "none"
         /\ FileResult(files, x, g).err # "none" =>
              \E i \in 1..Len(files[x[1]]) :
                FileResult(files, x, g).err = IncludeLine(files, files[x[1]][i], x[2], g).err
<1>. DEFINE n == Len(files[x[1]])
            rs == [i \in 1..n |-> IncludeLine(files, files[x[1]][i], x[2], g)]
<1>1. n \in Nat /\ \A i \in 1..n : IncludeLine(files, files[x[1]][i], x[2], g) \in Results
  BY FileLines
<1>2. rs \in Seq(Results) /\ Len(rs) = n
  BY <1>1
<1>3. \A i \in 1..n : rs[i] = IncludeLine(files, files[x[1]][i], x[2], g)
  OBVIOUS
<1>4. FileResult(files, x, g) = AllOf(rs)
  BY DEF FileResult
<1>. DEFINE all == AllOf(rs)
<1>. HIDE DEF rs
<1>5. /\ all \in Results
      /\ all.err = "none" <=> \A i \in 1..n : rs[i].err = "none"
      /\ all.err # "none" => \E i \in 1..n : all.err = rs[i].err
  BY <1>2, AllOfFacts
<1>6. FileResult(files, x, g) = all
  BY <1>4
<1>. HIDE DEF all
<1>. QED BY <1>3, <1>5, <1>6

LEMMA FileResultSame ==
  ASSUME NEW files, AreFiles(files), NEW x \in Asked(files), NEW f, NEW g,
         \A y \in Asked(files) : Left(files)[y] < Left(files)[x] => f[y] = g[y]
  PROVE  FileResult(files, x, f) = FileResult(files, x, g)
<1>1. files[x[1]] \in Seq(SourceLine)
  BY DEF AreFiles, Asked
<1>2. Len(files[x[1]]) \in Nat /\ \A i \in 1..Len(files[x[1]]) : files[x[1]][i] \in SourceLine
  BY <1>1, LenIsNat
<1>3. ASSUME NEW i \in 1..Len(files[x[1]])
      PROVE  IncludeLine(files, files[x[1]][i], x[2], f) = IncludeLine(files, files[x[1]][i], x[2], g)
  <2>1. PICK l \in SourceLine : l = files[x[1]][i]
    BY <1>2
  <2>2. CASE Leads1(files, l, x[2])
    <3>1. At1(l, x[2]) \in Asked(files) /\ Left(files)[At1(l, x[2])] < Left(files)[x]
      BY <2>2, FewerLeft DEF Leads1, At1
    <3>2. f[At1(l, x[2])] = g[At1(l, x[2])]
      BY <3>1
    <3>3. IncludeLine(files, l, x[2], f) = AllOf(<<Lines(<<l>>), f[At1(l, x[2])]>>)
      BY ONLY <2>2, IncludeLineLeads
    <3>4. IncludeLine(files, l, x[2], g) = AllOf(<<Lines(<<l>>), g[At1(l, x[2])]>>)
      BY ONLY <2>2, IncludeLineLeads
    <3>. QED BY <2>1, <3>2, <3>3, <3>4
  <2>3. CASE ~Leads1(files, l, x[2])
    BY <2>1, <2>3 DEF IncludeLine, Leads1
  <2>. QED BY <2>2, <2>3
<1>. QED BY <1>3 DEF FileResult

LEMMA IncludedIs ==
  ASSUME NEW files, AreFiles(files)
  PROVE  /\ Included(files) \in [Asked(files) -> Results]
         /\ \A x \in Asked(files) : Included(files)[x] = FileResult(files, x, Included(files))
<1>. DEFINE X == Asked(files)
            m == Left(files)
            bound == Cardinality(DOMAIN files) + 1
            turn == [f \in [X -> Results] |-> [x \in X |-> FileResult(files, x, f)]]
            Eq(f) == f = [x \in X |-> FileResult(files, x, f)]
            it == CHOOSE f : Eq(f)
<1>1. m \in [X -> Nat] /\ bound \in Nat /\ \A x \in X : m[x] < bound
  BY LeftIsNat
<1>2. turn \in [[X -> Results] -> [X -> Results]]
  BY FileResultIn
<1>3. \A f, g \in [X -> Results], x \in X :
        (\A y \in X : m[y] < m[x] => f[y] = g[y]) => turn[f][x] = turn[g][x]
  BY FileResultSame
<1>4. Included(files) = it
  BY DEF Included, Each, Asked, FileResult
<1>5. \E f \in [X -> Results] : f = turn[f]
  <2>. DEFINE F == [X -> Results]
              V == Results
              base == [x \in X |-> Wrong("cannot open")]
  <2>1. Wrong("cannot open") \in Results
    BY SimpleResults DEF Errors, IncludeErrors
  <2>2. base \in F /\ F \in SUBSET [X -> V]
    BY <2>1
  <2>3. turn \in [F -> F]
    BY <1>2
  <2>4. \A f, g \in F, x \in X :
           (\A y \in X : m[y] < m[x] => f[y] = g[y]) => turn[f][x] = turn[g][x]
    BY <1>3
  <2>. HIDE DEF X, m, bound, turn, base, V, F
  <2>5. Grounded(X, m, bound) /\ Descends(X, F, m, turn)
    BY <1>1, <2>3, <2>4 DEF Grounded, Descends
  <2>6. HasFixpoint(F, turn)
    BY <2>2, <2>5, Fixpoint
  <2>. QED BY <2>6 DEF HasFixpoint, F
<1>6. \E f : Eq(f)
  <2>1. PICK f \in [X -> Results] : f = turn[f]
    BY <1>5
  <2>. QED BY <2>1
<1>7. Eq(it)
  <2>. HIDE DEF Eq
  <2>. QED BY <1>6
<1>. HIDE DEF it
<1>8. \A x \in X : it[x] = FileResult(files, x, it)
  BY <1>7
<1>9. X \subseteq {x \in X : it[x] \in Results}
  <2>. DEFINE S == {x \in X : it[x] \in Results}
  <2>1. \A x \in X : (\A y \in X : m[y] < m[x] => y \in S) => x \in S
    <3>. TAKE x \in X
    <3>. HAVE \A y \in X : m[y] < m[x] => y \in S
    <3>1. \A y \in Asked(files) : Left(files)[y] < Left(files)[x] => it[y] \in Results
      OBVIOUS
    <3>. QED BY <1>8, <3>1, FileResultIn
  <2>. HIDE DEF S, X, m
  <2>2. X \subseteq S
    BY <1>1, <2>1, MeasureInduction
  <2>. QED BY <2>2 DEF S
<1>10. it \in [X -> Results]
  BY <1>7, <1>9
<1>. QED BY <1>4, <1>8, <1>10
-----------------------------------------------------------------------------
(* What a graph of names leads to.                                           *)

LEMMA ReachedClosed ==
  ASSUME NEW d, NEW m \in DOMAIN d
  PROVE  /\ d[m] \subseteq Reached(m, d)
         /\ \A n \in Reached(m, d) \cap DOMAIN d : d[n] \subseteq Reached(m, d)
<1>1. \A n \in DOMAIN d : d[n] \subseteq Leading(d)
  BY DEF Leading
<1>2. ASSUME NEW n \in Reached(m, d) \cap DOMAIN d, NEW k \in d[n] PROVE k \in Reached(m, d)
  <2>1. ASSUME NEW S \in SUBSET Leading(d), d[m] \subseteq S, Closed(S, d) PROVE k \in S
    BY <1>2, <2>1 DEF Reached, Closed
  <2>. QED BY <1>1, <1>2, <2>1 DEF Reached
<1>. QED BY <1>1, <1>2 DEF Reached

LEMMA ReachedLeast ==
  ASSUME NEW d, NEW m \in DOMAIN d, NEW S, d[m] \subseteq S, Closed(S, d)
  PROVE  Reached(m, d) \subseteq S
<1>. DEFINE T == S \cap Leading(d)
<1>1. d[m] \subseteq T /\ Closed(T, d) /\ T \in SUBSET Leading(d)
  BY DEF Leading, Closed
<1>. HIDE DEF T
<1>2. Reached(m, d) \subseteq T
  BY <1>1 DEF Reached
<1>. QED BY <1>2 DEF T

LEMMA ReachedOn ==
  ASSUME NEW d, NEW m \in DOMAIN d, NEW n \in Reached(m, d) \cap DOMAIN d
  PROVE  Reached(n, d) \subseteq Reached(m, d)
BY ReachedClosed, ReachedLeast DEF Closed

LEMMA ReachedFrom ==
  ASSUME NEW d, NEW m \in DOMAIN d, NEW k \in Reached(m, d)
  PROVE  k \in d[m] \/ \E n \in d[m] \cap DOMAIN d : k \in Reached(n, d)
<1>. DEFINE S == d[m] \cup UNION {Reached(n, d) : n \in d[m] \cap DOMAIN d}
<1>1. ASSUME NEW n \in S \cap DOMAIN d PROVE d[n] \subseteq S
  <2>1. CASE n \in d[m]
    BY <2>1, ReachedClosed
  <2>2. CASE n \notin d[m]
    <3>1. PICK q \in d[m] \cap DOMAIN d : n \in Reached(q, d)
      BY <2>2
    <3>2. d[n] \subseteq Reached(q, d)
      BY <3>1, ReachedClosed
    <3>. QED BY <3>1, <3>2
  <2>. QED BY <2>1, <2>2
<1>2. d[m] \subseteq S /\ Closed(S, d)
  BY <1>1 DEF Closed
<1>3. Reached(m, d) \subseteq S
  <2>. HIDE DEF S
  <2>. QED BY <1>2, ReachedLeast
<1>. QED BY <1>3
-----------------------------------------------------------------------------
(* Includes.                                                                 *)

LEMMA IncludedLine ==
  ASSUME NEW files, NEW x \in Asked(files), NEW i \in 1..Len(files[x[1]]),
         Is(files[x[1]][i], "%include")
  PROVE  NameIn(files[x[1]][i], 1) \in GraphOf(files)[x[1]]
BY DEF GraphOf, IncludesOf, Asked

\* A file refused for a circle leads into one.
LEMMA RefusedIsCyclic ==
  ASSUME NEW files, AreFiles(files), NEW x \in Asked(files), ChainOf(files, x),
         Included(files)[x].err = "circular %include"
  PROVE  Cyclic(x[1], GraphOf(files))
<1>. DEFINE X == Asked(files)
            m == Left(files)
            inc == Included(files)
            d == GraphOf(files)
            S == {y \in X : ChainOf(files, y) /\ inc[y].err = "circular %include" => Cyclic(y[1], d)}
<1>1. m \in [X -> Nat] /\ DOMAIN d = DOMAIN files /\ \A y \in X : inc[y] \in Results
  BY LeftIsNat, IncludedIs DEF GraphOf
<1>2. \A y \in X : (\A z \in X : m[z] < m[y] => z \in S) => y \in S
  <2>. SUFFICES ASSUME NEW y \in X, \A z \in X : m[z] < m[y] => z \in S,
                       ChainOf(files, y), inc[y].err = "circular %include"
                PROVE  Cyclic(y[1], d)
    OBVIOUS
  <2>1. y[1] \in DOMAIN d /\ y[2] \subseteq DOMAIN d /\ y[1] \in y[2]
    BY <1>1 DEF Asked, ChainOf
  <2>2. inc[y] = FileResult(files, y, inc)
    BY IncludedIs
  <2>3. /\ FileResult(files, y, inc).err # "none" =>
               \E i \in 1..Len(files[y[1]]) :
                 FileResult(files, y, inc).err = IncludeLine(files, files[y[1]][i], y[2], inc).err
        /\ Len(files[y[1]]) \in Nat /\ \A i \in 1..Len(files[y[1]]) : files[y[1]][i] \in SourceLine
    BY <1>1, FileResultIn, FileLines
  <2>4. PICK i \in 1..Len(files[y[1]]) :
          IncludeLine(files, files[y[1]][i], y[2], inc).err = "circular %include"
    BY <2>2, <2>3
  <2>5. PICK l \in SourceLine : l = files[y[1]][i]
    BY <2>3
  <2>6. IncludeLine(files, l, y[2], inc).err = "circular %include"
    BY <2>4, <2>5
  <2>7. Is(l, "%include") /\ (NameIn(l, 1) \in y[2] \/ Leads1(files, l, y[2]))
    <3>1. /\ ~Is(l, "%include") => IncludeLine(files, l, y[2], inc) = Lines(<<l>>)
          /\ Is(l, "%include") /\ NameIn(l, 1) \notin y[2] /\ NameIn(l, 1) \notin DOMAIN files
               => IncludeLine(files, l, y[2], inc) = Wrong("cannot open")
      BY IncludeLineCases
    <3>2. Lines(<<l>>).err = "none" /\ Wrong("cannot open").err = "cannot open"
      BY DEF Lines, Wrong
    <3>. QED BY <2>6, <3>1, <3>2 DEF Leads1
  <2>8. NameIn(l, 1) \in d[y[1]]
    BY <2>5, <2>7, IncludedLine
  <2>9. CASE NameIn(l, 1) \in y[2]
    <3>. DEFINE n == NameIn(l, 1)
    <3>. HIDE DEF n
    <3>1. n \in d[y[1]] /\ n \in y[2] /\ (n = y[1] \/ y[1] \in Reached(n, d))
      BY <2>8, <2>9 DEF n, ChainOf
    <3>2. n \in Reached(y[1], d) /\ n \in DOMAIN d
      BY <2>1, <3>1, ReachedClosed
    <3>3. n \in Reached(n, d)
      <4>1. CASE n = y[1]
        BY <3>2, <4>1
      <4>2. CASE y[1] \in Reached(n, d)
        BY <2>1, <3>1, <3>2, <4>2, ReachedClosed
      <4>. QED BY <3>1, <4>1, <4>2
    <3>. QED BY <3>2, <3>3 DEF Cyclic
  <2>10. CASE NameIn(l, 1) \notin y[2]
    <3>. DEFINE n == NameIn(l, 1)
                z == At1(l, y[2])
    <3>1. Leads1(files, l, y[2])
      BY <2>7, <2>10
    <3>2. z \in X /\ m[z] < m[y] /\ z[1] = n /\ z[2] = y[2] \cup {n} /\ n \in DOMAIN d /\ n \in d[y[1]]
      BY <2>8, <3>1, FewerLeft DEF Leads1, At1, GraphOf
    <3>3. inc[z].err = "circular %include"
      <4>1. inc[At1(l, y[2])] \in Results
        BY <1>1, <3>2
      <4>2. IncludeLine(files, l, y[2], inc).err = inc[At1(l, y[2])].err
        <5>. DEFINE seen == y[2]
                    g == Included(files)
        <5>1. g[At1(l, seen)] \in Results /\ Leads1(files, l, seen)
          BY <3>1, <4>1
        <5>. HIDE DEF seen, g
        <5>2. IncludeLine(files, l, seen, g).err = g[At1(l, seen)].err
          BY <5>1, LedLine
        <5>. QED BY <5>2 DEF seen, g
      <4>. QED BY <2>6, <4>2
    <3>. HIDE DEF n, z
    <3>4. n \in Reached(y[1], d)
      BY <2>1, <3>2, ReachedClosed
    <3>5. ASSUME NEW s \in z[2] PROVE s = n \/ n \in Reached(s, d)
      <4>1. s \in DOMAIN d /\ (s = n \/ s \in y[2])
        BY <2>1, <3>2, <3>5
      <4>2. CASE s \in y[2]
        <5>1. s = y[1] \/ y[1] \in Reached(s, d)
          BY <4>2 DEF ChainOf
        <5>2. CASE y[1] \in Reached(s, d)
          BY <2>1, <3>2, <4>1, <5>2, ReachedClosed
        <5>. QED BY <3>4, <5>1, <5>2
      <4>. QED BY <4>1, <4>2
    <3>6. ChainOf(files, z)
      BY <3>2, <3>5 DEF ChainOf
    <3>7. Cyclic(n, d)
      BY <3>2, <3>3, <3>6
    <3>8. Reached(n, d) \subseteq Reached(y[1], d)
      BY <2>1, <3>2, <3>4, ReachedOn
    <3>. QED BY <3>2, <3>4, <3>7, <3>8 DEF Cyclic
  <2>. QED BY <2>9, <2>10
<1>3. X \subseteq S
  <2>. HIDE DEF S, X, m
  <2>. QED BY <1>1, <1>2, MeasureInduction
<1>. QED BY <1>3

\* A file that is not refused leads to no circle, and not back.
LEMMA AcceptedIsAcyclic ==
  ASSUME NEW files, AreFiles(files), NEW x \in Asked(files),
         Included(files)[x].err = "none"
  PROVE  LET d == GraphOf(files)
         IN  /\ Reached(x[1], d) \cap x[2] = {}
             /\ \A c \in Reached(x[1], d) : c \notin Reached(c, d)
<1>. DEFINE X == Asked(files)
            m == Left(files)
            inc == Included(files)
            d == GraphOf(files)
            fine(y) == /\ Reached(y[1], d) \cap y[2] = {}
                       /\ \A c \in Reached(y[1], d) : c \notin Reached(c, d)
            S == {y \in X : inc[y].err = "none" => fine(y)}
<1>1. m \in [X -> Nat] /\ DOMAIN d = DOMAIN files /\ \A y \in X : inc[y] \in Results
  BY LeftIsNat, IncludedIs DEF GraphOf
<1>2. \A y \in X : (\A z \in X : m[z] < m[y] => z \in S) => y \in S
  <2>. SUFFICES ASSUME NEW y \in X, \A z \in X : m[z] < m[y] => z \in S, inc[y].err = "none"
                PROVE  fine(y)
    OBVIOUS
  <2>1. y[1] \in DOMAIN d
    BY <1>1 DEF Asked
  <2>2. inc[y] = FileResult(files, y, inc)
    BY IncludedIs
  <2>3. /\ FileResult(files, y, inc).err = "none" <=>
               \A i \in 1..Len(files[y[1]]) : IncludeLine(files, files[y[1]][i], y[2], inc).err = "none"
        /\ Len(files[y[1]]) \in Nat /\ \A i \in 1..Len(files[y[1]]) : files[y[1]][i] \in SourceLine
    BY <1>1, FileResultIn, FileLines
  <2>4. ASSUME NEW n \in d[y[1]]
        PROVE  /\ n \notin y[2] /\ n \in DOMAIN d
               /\ Reached(n, d) \cap (y[2] \cup {n}) = {}
               /\ \A c \in Reached(n, d) : c \notin Reached(c, d)
    <3>1. PICK i \in 1..Len(files[y[1]]) : Is(files[y[1]][i], "%include") /\ n = NameIn(files[y[1]][i], 1)
      BY <2>1, <2>4 DEF GraphOf, IncludesOf
    <3>2. PICK l \in SourceLine : l = files[y[1]][i]
      BY <2>3
    <3>3. IncludeLine(files, l, y[2], inc).err = "none" /\ Is(l, "%include") /\ n = NameIn(l, 1)
      BY <2>2, <2>3, <3>1, <3>2
    <3>4. Leads1(files, l, y[2])
      <4>1. /\ Is(l, "%include") /\ NameIn(l, 1) \in y[2]
                 => IncludeLine(files, l, y[2], inc) = Wrong("circular %include")
            /\ Is(l, "%include") /\ NameIn(l, 1) \notin y[2] /\ NameIn(l, 1) \notin DOMAIN files
                 => IncludeLine(files, l, y[2], inc) = Wrong("cannot open")
        BY IncludeLineCases
      <4>2. Wrong("cannot open").err = "cannot open" /\ Wrong("circular %include").err = "circular %include"
        BY DEF Wrong
      <4>. QED BY <3>3, <4>1, <4>2 DEF Leads1
    <3>. DEFINE z == At1(l, y[2])
    <3>5. z \in X /\ m[z] < m[y] /\ z[1] = n /\ z[2] = y[2] \cup {n} /\ n \in DOMAIN d /\ n \notin y[2]
      BY <3>3, <3>4, FewerLeft DEF Leads1, At1, GraphOf
    <3>6. inc[z].err = "none"
      BY <1>1, <3>3, <3>4, <3>5, LedLine
    <3>. HIDE DEF z
    <3>7. fine(z)
      BY <3>5, <3>6
    <3>. QED BY <3>5, <3>7
  <2>5. ASSUME NEW k \in Reached(y[1], d) PROVE k \notin y[2] /\ k \notin Reached(k, d)
    BY <2>1, <2>4, <2>5, ReachedFrom
  <2>. QED BY <2>5
<1>3. X \subseteq S
  <2>. HIDE DEF S, X, m
  <2>. QED BY <1>1, <1>2, MeasureInduction
<1>. QED BY <1>3

\* What the first stage says of a circle is so.
LEMMA IncludesDecided ==
  ASSUME NEW files, AreFiles(files), NEW main \in DOMAIN files
  PROVE  LET r == ExpandIncludes(files, main)
         IN  /\ r \in Results
             /\ r.err = "circular %include" => Cyclic(main, GraphOf(files))
             /\ r.err = "none" => ~Cyclic(main, GraphOf(files))
<1>. DEFINE x == <<main, {main}>>
            d == GraphOf(files)
<1>1. x \in Asked(files) /\ x[1] = main /\ x[2] = {main}
  BY DEF Asked
<1>2. ChainOf(files, x)
  BY DEF ChainOf
<1>3. ExpandIncludes(files, main) = Included(files)[x]
  BY DEF ExpandIncludes
<1>. HIDE DEF x
<1>4. Included(files)[x] \in Results
  BY <1>1, IncludedIs
<1>5. Included(files)[x].err = "circular %include" => Cyclic(main, d)
  BY <1>1, <1>2, RefusedIsCyclic
<1>6. ASSUME Included(files)[x].err = "none" PROVE ~Cyclic(main, d)
  BY <1>1, <1>6, AcceptedIsAcyclic DEF Cyclic
<1>. QED BY <1>3, <1>4, <1>5, <1>6
-----------------------------------------------------------------------------
(* Stage 2: the table of macros is made of the lines.                        *)

LEMMA BodyIn ==
  ASSUME NEW ls \in Seq(SourceLine), NEW a \in 1..Len(ls), NEW b \in 1..Len(ls)
  PROVE  SubSeq(ls, a + 1, b - 1) \in Bodies(ls)
<1>. DEFINE s == SubSeq(ls, a + 1, b - 1)
<1>1. s \in Seq(SourceLine) /\ \A k \in 1..Len(s) : s[k] = ls[a + k] /\ a + k \in 1..Len(ls)
  <2>1. \A i \in 1..Len(ls) : ls[i] \in SourceLine
    OBVIOUS
  <2>2. Len(ls) \in Nat
    OBVIOUS
  <2>3. CASE a + 1 <= b - 1
    <3>1. s \in Seq(SourceLine) /\ Len(s) = b - 1 - a
      BY <2>2, <2>3
    <3>2. \A k \in 1..Len(s) : s[k] = ls[a + k] /\ a + k \in 1..Len(ls)
      <4>. TAKE k \in 1..Len(s)
      <4>1. k \in 1..(b - 1 - a) /\ a + 1 + k - 1 = a + k
        BY <3>1
      <4>2. s[k] = ls[a + 1 + k - 1]
        BY <2>2, <2>3, <4>1
      <4>. QED BY <2>2, <4>1, <4>2
    <3>. QED BY <3>1, <3>2
  <2>4. CASE ~(a + 1 <= b - 1)
    BY <2>2, <2>4
  <2>. QED BY <2>3, <2>4
<1>. HIDE DEF s
<1>2. s \in Bodies(ls)
  BY <1>1 DEF Bodies
<1>. QED BY <1>2 DEF s

LEMMA CollectLineIn ==
  ASSUME NEW ls \in Seq(SourceLine), NEW i \in 1..Len(ls), NEW c \in Collections(ls)
  PROVE  CollectLine(c, ls, i) \in Collections(ls)
<1>. DEFINE e == [name |-> NameIn(ls[c.open], 1),
                  def |-> [params |-> Params(ls[c.open]), body |-> SubSeq(ls, c.open + 1, i - 1)]]
<1>1. c.open \in 0..Len(ls) /\ c.table \in Tables(ls) /\ c.err \in {"none"} \cup CollectErrors /\ i \in 0..Len(ls)
  BY DEF Collections
<1>2. \A why \in CollectErrors : [c EXCEPT !.err = why] \in Collections(ls)
  BY DEF Collections
<1>3. /\ "nested %macro" \in CollectErrors /\ "invalid parameter name" \in CollectErrors
      /\ "redefinition" \in CollectErrors /\ "unexpected %endm" \in CollectErrors
  BY DEF CollectErrors
<1>4. [c EXCEPT !.open = i] \in Collections(ls)
  BY <1>1 DEF Collections
<1>5. ASSUME c.open # 0 PROVE [c EXCEPT !.open = 0, !.table = @ \cup {e}] \in Collections(ls)
  <2>1. c.open \in 1..Len(ls)
    BY <1>1, <1>5
  <2>2. SubSeq(ls, c.open + 1, i - 1) \in Bodies(ls)
    BY <2>1, BodyIn
  <2>3. e \in Entries(ls)
    BY <2>1, <2>2 DEF Entries
  <2>. HIDE DEF e
  <2>4. IsFiniteSet(c.table \cup {e}) /\ c.table \cup {e} \in SUBSET Entries(ls)
    BY <1>1, <2>3, FS_AddElement DEF Tables
  <2>5. c.table \cup {e} \in Tables(ls)
    BY <2>4 DEF Tables
  <2>6. 0 \in 0..Len(ls)
    OBVIOUS
  <2>. QED BY <1>1, <2>5, <2>6 DEF Collections
<1>6. \/ CollectLine(c, ls, i) = c
      \/ \E why \in CollectErrors : CollectLine(c, ls, i) = [c EXCEPT !.err = why]
      \/ CollectLine(c, ls, i) = [c EXCEPT !.open = i]
      \/ c.open # 0 /\ CollectLine(c, ls, i) = [c EXCEPT !.open = 0, !.table = @ \cup {e}]
  <2>1. CASE c.err # "none"
    BY <2>1 DEF CollectLine
  <2>2. CASE c.err = "none" /\ Is(ls[i], "%macro")
    <3>. DEFINE bad(why) == [c EXCEPT !.err = why]
    <3>. HIDE DEF e
    <3>0. ~Is(ls[i], "%endm")
      BY <2>2 DEF Is
    <3>1. CollectLine(c, ls, i) =
            IF c.open # 0 THEN bad("nested %macro")
            ELSE IF Misnamed(ls[i]) THEN bad("invalid parameter name")
            ELSE IF NameIn(ls[i], 1) \in {d.name : d \in c.table} THEN bad("redefinition")
            ELSE [c EXCEPT !.open = i]
      BY <2>2, <3>0 DEF CollectLine
    <3>. QED BY <1>3, <3>1
  <2>3. CASE c.err = "none" /\ Is(ls[i], "%endm")
    <3>1. ~Is(ls[i], "%macro")
      BY <2>3 DEF Is
    <3>2. CASE c.open = 0
      BY <1>3, <2>3, <3>1, <3>2 DEF CollectLine
    <3>3. CASE c.open # 0
      BY <2>3, <3>1, <3>3 DEF CollectLine
    <3>. QED BY <3>2, <3>3
  <2>4. CASE c.err = "none" /\ ~Is(ls[i], "%macro") /\ ~Is(ls[i], "%endm")
    BY <2>4 DEF CollectLine
  <2>. QED BY <2>1, <2>2, <2>3, <2>4
<1>. HIDE DEF e
<1>. QED BY <1>2, <1>4, <1>5, <1>6

LEMMA CollectSteps ==
  ASSUME NEW ls \in Seq(SourceLine), NEW n \in Nat, n = Len(ls)
  PROVE  \E to \in [0..n -> Collections(ls)] :
           /\ to[0] = [open |-> 0, table |-> {}, err |-> "none"]
           /\ \A k \in 1..n : to[k] = CollectLine(to[k - 1], ls, k)
           /\ Collected(ls) = to[n]
<1>. DEFINE seq == [i \in 1..n |-> i]
            T == Collections(ls)
            base == [open |-> 0, table |-> {}, err |-> "none"]
            op(q, i) == CollectLine(q, ls, i)
            G == [z \in (1..n) \X T |-> op(z[2], seq[z[1]])]
            Eq(to) == to = [k \in 0..Len(seq) |-> IF k = 0 THEN base
                             ELSE CHOOSE r \in {op(q, seq[k]) : q \in {to[k - 1]}} : TRUE]
            at == CHOOSE to : Eq(to)
<1>1. \A k \in 1..n, q \in T : CollectLine(q, ls, k) \in T
  BY CollectLineIn
<1>2. base \in T
  BY FS_EmptySet DEF Tables, Collections
<1>3. Len(seq) = n /\ \A k \in 1..n : seq[k] = k
  OBVIOUS
<1>4. Collected(ls) = at[Len(seq)]
  BY DEF Collected, Along
<1>5. \A k \in 1..n, q \in T : G[<<k, q>>] = op(q, seq[k]) /\ op(q, seq[k]) = CollectLine(q, ls, k) /\ G[<<k, q>>] \in T
  BY <1>1, <1>3
<1>. HIDE DEF G, T, base, seq, op
<1>6. PICK to \in [0..n -> T] : TheFold(to, n, T, base, G)
  BY <1>2, <1>5, FoldAlong
<1>7. \A k \in 1..n : to[k] = op(to[k - 1], seq[k]) /\ to[k - 1] \in T
  BY <1>5, <1>6 DEF TheFold
<1>8. to[0] = base
  BY <1>6 DEF TheFold
<1>9. Eq(to)
  BY <1>3, <1>7, <1>8
<1>. HIDE DEF Eq
<1>10. Eq(at)
  BY <1>9
<1>. HIDE DEF at
<1>11. FollowsFold(at, n, T, base, G)
  BY <1>3, <1>5, <1>10 DEF FollowsFold, Eq
<1>12. at = to
  BY <1>6, <1>11 DEF TheFold
<1>13. \A k \in 1..n : to[k] = CollectLine(to[k - 1], ls, k)
  BY <1>5, <1>7
<1>. QED BY <1>3, <1>4, <1>8, <1>12, <1>13 DEF T, base

LEMMA CollectIn ==
  ASSUME NEW ls \in Seq(SourceLine)
  PROVE  CollectMacroDefs(ls).table \in Tables(ls) /\ CollectMacroDefs(ls).err \in {"none"} \cup CollectErrors
<1>. DEFINE n == Len(ls)
            c == Collected(ls)
<1>1. n \in Nat /\ n \in 0..n /\ n = Len(ls)
  OBVIOUS
<1>. HIDE DEF n
<1>2. PICK to \in [0..n -> Collections(ls)] : c = to[n]
  BY <1>1, CollectSteps
<1>3. c \in Collections(ls)
  BY <1>1, <1>2
<1>4. CollectMacroDefs(ls) = IF c.err = "none" /\ c.open # 0 THEN [c EXCEPT !.err = "unterminated %macro"] ELSE c
  BY DEF CollectMacroDefs, Collected
<1>. HIDE DEF c
<1>5. c.table \in Tables(ls) /\ c.err \in {"none"} \cup CollectErrors /\ "unterminated %macro" \in CollectErrors
  BY <1>3 DEF Collections, CollectErrors
<1>6. [c EXCEPT !.err = "unterminated %macro"].table = c.table
      /\ [c EXCEPT !.err = "unterminated %macro"].err = "unterminated %macro"
  BY <1>3 DEF Collections
<1>. QED BY <1>4, <1>5, <1>6
-----------------------------------------------------------------------------
(* Names replaced by text.                                                   *)

LEMMA LineIn ==
  /\ \A labels \in Seq(STRING), op \in STRING, args \in Seq(Seq(Token)) :
       /\ Line(labels, op, args) \in SourceLine /\ Line(labels, op, args).op = op
       /\ Line(labels, op, args).labels = labels /\ Line(labels, op, args).args = args
  /\ \A l \in SourceLine : l.labels \in Seq(STRING) /\ l.op \in STRING /\ l.args \in Seq(Seq(Token))
BY DEF Line, SourceLine

LEMMA ReplaceTyped ==
  ASSUME NEW ts \in Seq(Token), NEW name, NEW by \in Seq(Token)
  PROVE  Replace(ts, name, by) \in Seq(Token)
<1>. DEFINE ss == [i \in 1..Len(ts) |-> IF ts[i].sym = name THEN by ELSE <<ts[i]>>]
<1>1. Len(ts) \in Nat /\ \A i \in 1..Len(ts) : ts[i] \in Token
  OBVIOUS
<1>2. \A i \in 1..Len(ts) : <<ts[i]>> \in Seq(Token)
  BY <1>1
<1>3. ss \in Seq(Seq(Token))
  BY <1>1, <1>2
<1>4. Replace(ts, name, by) = FlattenSeq(ss)
  BY DEF Replace
<1>. HIDE DEF ss
<1>. QED BY <1>3, <1>4, FlattenIn

LEMMA ReplaceInTyped ==
  ASSUME NEW l \in SourceLine, NEW name, NEW by \in Seq(Token)
  PROVE  /\ ReplaceIn(l, name, by) \in SourceLine
         /\ l.op # name => ReplaceIn(l, name, by).op = l.op
         /\ Len(ReplaceIn(l, name, by).args) = Len(l.args)
         /\ Len(ReplaceIn(l, name, by).labels) = Len(l.labels)
<1>. DEFINE word(w) == IF w = name /\ by # <<>> THEN by[1].sym ELSE w
            labels == [k \in 1..Len(l.labels) |-> word(l.labels[k])]
            args == [k \in 1..Len(l.args) |-> Replace(l.args[k], name, by)]
<1>1. l.labels \in Seq(STRING) /\ l.op \in STRING /\ l.args \in Seq(Seq(Token))
  BY LineIn
<1>2. \A w \in STRING : word(w) \in STRING
  <2>1. by # <<>> => by[1] \in Token
    OBVIOUS
  <2>2. by # <<>> => by[1].sym \in STRING
    BY <2>1 DEF Token
  <2>. QED BY <2>2
<1>3. labels \in Seq(STRING) /\ Len(labels) = Len(l.labels)
  <2>1. Len(l.labels) \in Nat /\ \A k \in 1..Len(l.labels) : l.labels[k] \in STRING
    BY <1>1
  <2>2. \A k \in 1..Len(l.labels) : word(l.labels[k]) \in STRING
    BY <1>2, <2>1
  <2>. HIDE DEF word
  <2>. QED BY <2>1, <2>2
<1>4. args \in Seq(Seq(Token)) /\ Len(args) = Len(l.args)
  BY <1>1, ReplaceTyped
<1>5. ReplaceIn(l, name, by) = Line(labels, word(l.op), args)
  BY DEF ReplaceIn
<1>6. word(l.op) \in STRING /\ (l.op # name => word(l.op) = l.op)
  BY <1>1, <1>2
<1>. HIDE DEF labels, args, word
<1>7. PICK w \in STRING : w = word(l.op)
  BY <1>6
<1>8. /\ Line(labels, w, args) \in SourceLine /\ Line(labels, w, args).op = w
      /\ Line(labels, w, args).labels = labels /\ Line(labels, w, args).args = args
  BY <1>3, <1>4, LineIn
<1>. QED BY <1>3, <1>4, <1>5, <1>6, <1>7, <1>8

LEMMA ReplaceSteps ==
  ASSUME NEW l \in SourceLine, NEW names, NEW bys, AreNames(names, bys), NEW n \in Nat, n = Len(names)
  PROVE  \E to \in [0..n -> SourceLine] :
           /\ to[0] = l
           /\ \A k \in 1..n : to[k] = ReplaceIn(to[k - 1], names[k], bys[k])
           /\ ReplaceEach(l, names, bys) = to[n]
<1>. DEFINE seq == [i \in 1..n |-> i]
            T == SourceLine
            base == l
            op(q, i) == ReplaceIn(q, names[i], bys[i])
            G == [z \in (1..n) \X T |-> op(z[2], seq[z[1]])]
            Eq(to) == to = [k \in 0..Len(seq) |-> IF k = 0 THEN base
                             ELSE CHOOSE r \in {op(q, seq[k]) : q \in {to[k - 1]}} : TRUE]
            at == CHOOSE to : Eq(to)
<1>1. \A k \in 1..n, q \in T : ReplaceIn(q, names[k], bys[k]) \in T
  BY ReplaceInTyped DEF AreNames
<1>2. base \in T
  OBVIOUS
<1>3. Len(seq) = n /\ \A k \in 1..n : seq[k] = k
  OBVIOUS
<1>4. ReplaceEach(l, names, bys) = at[Len(seq)]
  BY DEF ReplaceEach, Along
<1>5. \A k \in 1..n, q \in T : G[<<k, q>>] = op(q, seq[k]) /\ op(q, seq[k]) = ReplaceIn(q, names[k], bys[k]) /\ G[<<k, q>>] \in T
  BY <1>1, <1>3
<1>. HIDE DEF G, T, base, seq, op
<1>6. PICK to \in [0..n -> T] : TheFold(to, n, T, base, G)
  BY <1>2, <1>5, FoldAlong
<1>7. \A k \in 1..n : to[k] = op(to[k - 1], seq[k]) /\ to[k - 1] \in T
  BY <1>5, <1>6 DEF TheFold
<1>8. to[0] = base
  BY <1>6 DEF TheFold
<1>9. Eq(to)
  BY <1>3, <1>7, <1>8
<1>. HIDE DEF Eq
<1>10. Eq(at)
  BY <1>9
<1>. HIDE DEF at
<1>14. Len(seq) = n
  BY <1>3
<1>15. at = [k \in 0..n |-> IF k = 0 THEN base ELSE CHOOSE r \in {op(q, seq[k]) : q \in {at[k - 1]}} : TRUE]
  BY ONLY <1>10, <1>14 DEF Eq
<1>16. \A k \in 1..n : k \in 0..n /\ k # 0
  OBVIOUS
<1>17. at = [k \in 0..n |-> at[k]] /\ at[0] = base
  BY <1>15
<1>18. ASSUME NEW k \in 1..n, at[k - 1] \in T
      PROVE  at[k] = G[<<k, at[k - 1]>>]
  BY <1>5, <1>15, <1>16, <1>18
<1>11. FollowsFold(at, n, T, base, G)
  BY ONLY <1>17, <1>18 DEF FollowsFold
<1>12. at = to
  BY <1>6, <1>11 DEF TheFold
<1>13. \A k \in 1..n : to[k] = ReplaceIn(to[k - 1], names[k], bys[k])
  BY <1>5, <1>7
<1>. QED BY <1>3, <1>4, <1>8, <1>12, <1>13 DEF T, base

LEMMA ReplaceEachTyped ==
  ASSUME NEW l \in SourceLine, NEW names, NEW bys, AreNames(names, bys)
  PROVE  /\ ReplaceEach(l, names, bys) \in SourceLine
         /\ (\A k \in 1..Len(names) : l.op # names[k]) => ReplaceEach(l, names, bys).op = l.op
         /\ Len(ReplaceEach(l, names, bys).args) = Len(l.args)
         /\ Len(ReplaceEach(l, names, bys).labels) = Len(l.labels)
<1>. DEFINE n == Len(names)
<1>1. n \in Nat /\ n \in 0..n /\ n = Len(names)
  BY DEF AreNames
<1>. HIDE DEF n
<1>2. PICK to \in [0..n -> SourceLine] :
           /\ to[0] = l
           /\ \A k \in 1..n : to[k] = ReplaceIn(to[k - 1], names[k], bys[k])
           /\ ReplaceEach(l, names, bys) = to[n]
  BY <1>1, ReplaceSteps
<1>. DEFINE U == {k \in Nat : k \in 0..n => /\ (\A j \in 1..n : l.op # names[j]) => to[k].op = l.op
                                            /\ Len(to[k].args) = Len(l.args)
                                            /\ Len(to[k].labels) = Len(l.labels)}
<1>3. 0 \in U
  BY <1>2
<1>4. ASSUME NEW k \in Nat, k \in U PROVE k + 1 \in U
  <2>. SUFFICES ASSUME k + 1 \in 0..n PROVE /\ (\A j \in 1..n : l.op # names[j]) => to[k + 1].op = l.op
                                            /\ Len(to[k + 1].args) = Len(l.args)
                                            /\ Len(to[k + 1].labels) = Len(l.labels)
    OBVIOUS
  <2>1. k \in 0..n /\ k + 1 \in 1..n /\ (k + 1) - 1 = k
    BY <1>1
  <2>2. to[k + 1] = ReplaceIn(to[k], names[k + 1], bys[k + 1]) /\ bys[k + 1] \in Seq(Token) /\ to[k] \in SourceLine
    BY <1>1, <1>2, <2>1 DEF AreNames
  <2>3. /\ to[k].op # names[k + 1] => to[k + 1].op = to[k].op
        /\ Len(to[k + 1].args) = Len(to[k].args) /\ Len(to[k + 1].labels) = Len(to[k].labels)
    BY <2>2, ReplaceInTyped
  <2>. QED BY <1>4, <2>1, <2>3
<1>5. \A k \in Nat : k \in U
  <2>. HIDE DEF U
  <2>. QED BY <1>3, <1>4, SetInduction
<1>6. n \in U
  <2>. HIDE DEF U
  <2>. QED BY <1>1, <1>5
<1>. QED BY <1>1, <1>2, <1>6

(* Stage 3.                                                                  *)

LEMMA MacroIn ==
  ASSUME NEW tab, NEW name \in Macros(tab)
  PROVE  \E d \in tab : d.name = name /\ Macro(tab, name) = d.def
<1>1. \E d \in tab : d.name = name
  BY DEF Macros
<1>. DEFINE it == CHOOSE d \in tab : d.name = name
<1>2. it \in tab /\ it.name = name
  BY <1>1
<1>3. Macro(tab, name) = it.def
  BY DEF Macro
<1>. QED BY <1>2, <1>3

\* The lines of a call: as many as the body has, and as long as no parameter
\* is one, with the mnemonics of the body.
LEMMA BodyTyped ==
  ASSUME NEW l \in SourceLine, NEW def, def.body \in Seq(SourceLine), Len(l.args) = Len(def.params)
  PROVE  /\ Body(l, def) \in Seq(SourceLine) /\ Len(Body(l, def)) = Len(def.body)
         /\ \A i \in 1..Len(def.body) :
              (\A k \in 1..Len(def.params) : def.body[i].op # def.params[k]) => Body(l, def)[i].op = def.body[i].op
<1>1. l.labels \in Seq(STRING) /\ l.args \in Seq(Seq(Token))
  BY LineIn
<1>2. Len(def.body) \in Nat /\ \A i \in 1..Len(def.body) : def.body[i] \in SourceLine
  OBVIOUS
<1>3. AreNames(def.params, l.args)
  BY <1>1 DEF AreNames
<1>. DEFINE m(i) == IF Blank(def.body[i]) THEN def.body[i] ELSE ReplaceEach(def.body[i], def.params, l.args)
            at(i) == IF i \in FirstFull(def.body) THEN [m(i) EXCEPT !.labels = l.labels \o @] ELSE m(i)
<1>4. ASSUME NEW i \in 1..Len(def.body)
      PROVE  /\ m(i) \in SourceLine
             /\ (\A k \in 1..Len(def.params) : def.body[i].op # def.params[k]) => m(i).op = def.body[i].op
  BY <1>2, <1>3, ReplaceEachTyped
<1>. HIDE DEF m
<1>5. ASSUME NEW i \in 1..Len(def.body)
      PROVE  at(i) \in SourceLine /\ at(i).op = m(i).op
  <2>1. m(i) \in SourceLine
    BY <1>4
  <2>2. l.labels \o m(i).labels \in Seq(STRING)
    BY <1>1, <2>1, LineIn
  <2>. QED BY <2>1, <2>2 DEF SourceLine
<1>6. Body(l, def) = [i \in 1..Len(def.body) |-> at(i)]
  BY DEF Body, m
<1>. HIDE DEF at
<1>. QED BY <1>2, <1>4, <1>5, <1>6
-----------------------------------------------------------------------------
LEMMA MacrosFinite ==
  ASSUME NEW tab, AreMacros(tab)
  PROVE  IsFiniteSet(Macros(tab))
<1>. DEFINE f == [d \in tab |-> d.name]
            T == Macros(tab)
<1>1. f \in Surjection(tab, T) /\ IsFiniteSet(tab)
  BY DEF Macros, AreMacros, Surjection
<1>. HIDE DEF f, T
<1>2. IsFiniteSet(T)
  BY <1>1, FS_Surjection
<1>. QED BY <1>2 DEF T

LEMMA OthersIsNat ==
  ASSUME NEW tab, AreMacros(tab)
  PROVE  /\ Others(tab) \in [Lookups(tab) -> Nat]
         /\ Cardinality(Macros(tab)) \in Nat
         /\ \A x \in Lookups(tab) : Others(tab)[x] < Cardinality(Macros(tab)) + 1
<1>0. IsFiniteSet(Macros(tab))
  BY MacrosFinite
<1>1. ASSUME NEW x \in Lookups(tab)
      PROVE  /\ Cardinality(Macros(tab) \ x[2]) \in Nat
             /\ Cardinality(Macros(tab) \ x[2]) <= Cardinality(Macros(tab))
  BY <1>0, FS_Subset, FS_CardinalityType
<1>2. Cardinality(Macros(tab)) \in Nat
  BY <1>0, FS_CardinalityType
<1>. QED BY <1>1, <1>2 DEF Others

LEMMA CalledLines ==
  ASSUME NEW tab, AreMacros(tab), NEW x \in Lookups(tab), Called(tab, x)
  PROVE  /\ CallBody(tab, x) \in Seq(SourceLine)
         /\ Len(CallBody(tab, x)) \in Nat
         /\ Len(CallBody(tab, x)) = Len(Macro(tab, x[1].op).body)
         /\ \A i \in 1..Len(CallBody(tab, x)) : /\ Inside(tab, x, i) \in Lookups(tab)
                                                /\ Others(tab)[Inside(tab, x, i)] < Others(tab)[x]
<1>. DEFINE M == Macros(tab)
            R == M \ x[2]
            n == x[1].op
            B == CallBody(tab, x)
            E == x[2] \cup {n}
<1>1. x[1] \in SourceLine /\ x[2] \in SUBSET M /\ n \in R /\ E \in SUBSET M
  BY DEF Lookups, Called
<1>2. PICK d \in tab : d.name = n /\ Macro(tab, n) = d.def
  BY <1>1, MacroIn
<1>3. B \in Seq(SourceLine) /\ Len(B) = Len(Macro(tab, n).body)
  <2>. DEFINE def == Macro(tab, n)
  <2>1. def.body \in Seq(SourceLine) /\ Len(x[1].args) = Len(def.params)
    BY <1>2 DEF AreMacros, Called
  <2>. HIDE DEF def
  <2>2. Body(x[1], def) \in Seq(SourceLine) /\ Len(Body(x[1], def)) = Len(def.body)
    BY <1>1, <2>1, BodyTyped
  <2>. QED BY <2>2 DEF def, CallBody
<1>4. IsFiniteSet(M)
  BY MacrosFinite
<1>5. Cardinality(M \ E) < Cardinality(R)
  <2>1. M \ E = R \ {n} /\ IsFiniteSet(R) /\ n \in R
    BY <1>1, <1>4, FS_Subset
  <2>. HIDE DEF M, R, n, E
  <2>2. PICK c \in Nat : c = Cardinality(R)
    BY <2>1, FS_CardinalityType
  <2>3. Cardinality(R \ {n}) = c - 1
    BY <2>1, <2>2, FS_RemoveElement
  <2>4. Cardinality(M \ E) = c - 1
    BY <2>1, <2>3
  <2>. QED BY <2>2, <2>4
<1>6. ASSUME NEW i \in 1..Len(B)
      PROVE  Inside(tab, x, i) \in Lookups(tab) /\ Others(tab)[Inside(tab, x, i)] < Others(tab)[x]
  <2>1. PICK l \in SourceLine : l = B[i]
    BY <1>3
  <2>2. Inside(tab, x, i) = <<l, E>>
    BY <2>1 DEF Inside
  <2>. HIDE DEF E
  <2>3. <<l, E>> \in Lookups(tab) /\ <<l, E>>[2] = E
    BY <1>1 DEF Lookups
  <2>4. Others(tab)[<<l, E>>] = Cardinality(M \ E) /\ Others(tab)[x] = Cardinality(R)
    BY <2>3 DEF Others
  <2>. QED BY <1>5, <2>2, <2>3, <2>4
<1>. QED BY <1>3, <1>6, LenIsNat

LEMMA ExpandLineCases ==
  ASSUME NEW tab, NEW x, NEW g
  PROVE  /\ x[1].op \notin Macros(tab) => ExpandLine(x[1], tab, x[2], g) = Lines(<<x[1]>>)
         /\ x[1].op \in Macros(tab) /\ x[1].op \in x[2]
              => ExpandLine(x[1], tab, x[2], g) = Wrong("recursive macro")
         /\ x[1].op \in Macros(tab) /\ x[1].op \notin x[2] /\ ~Called(tab, x)
              => ExpandLine(x[1], tab, x[2], g) = Wrong("macro arguments")
         /\ Called(tab, x)
              => ExpandLine(x[1], tab, x[2], g)
                   = AllOf([i \in 1..Len(CallBody(tab, x)) |-> g[Inside(tab, x, i)]])
BY DEF ExpandLine, Called, CallBody, Inside, Each

LEMMA ExpandLineIn ==
  ASSUME NEW tab, AreMacros(tab), NEW x \in Lookups(tab), NEW g,
         \A y \in Lookups(tab) : Others(tab)[y] < Others(tab)[x] => g[y] \in Results
  PROVE  /\ ExpandLine(x[1], tab, x[2], g) \in Results
         /\ Called(tab, x) =>
              /\ ExpandLine(x[1], tab, x[2], g).err = "none" <=>
                   \A i \in 1..Len(CallBody(tab, x)) : g[Inside(tab, x, i)].err = "none"
              /\ ExpandLine(x[1], tab, x[2], g).err # "none" =>
                   \E i \in 1..Len(CallBody(tab, x)) :
                     ExpandLine(x[1], tab, x[2], g).err = g[Inside(tab, x, i)].err
<1>1. CASE Called(tab, x)
  <2>. DEFINE n == Len(CallBody(tab, x))
              rs == [i \in 1..n |-> g[Inside(tab, x, i)]]
  <2>1. n \in Nat /\ \A i \in 1..n : g[Inside(tab, x, i)] \in Results
    BY <1>1, CalledLines
  <2>2. rs \in Seq(Results) /\ Len(rs) = n /\ \A i \in 1..n : rs[i] = g[Inside(tab, x, i)]
    BY <2>1
  <2>3. ExpandLine(x[1], tab, x[2], g) = AllOf(rs)
    BY <1>1, ExpandLineCases
  <2>. HIDE DEF rs
  <2>4. /\ AllOf(rs) \in Results
        /\ AllOf(rs).err = "none" <=> \A i \in 1..Len(rs) : rs[i].err = "none"
        /\ AllOf(rs).err # "none" => \E i \in 1..Len(rs) : AllOf(rs).err = rs[i].err
    BY <2>2, AllOfFacts
  <2>. HIDE DEF n
  <2>5. /\ AllOf(rs).err = "none" <=> \A i \in 1..n : g[Inside(tab, x, i)].err = "none"
        /\ AllOf(rs).err # "none" => \E i \in 1..n : AllOf(rs).err = g[Inside(tab, x, i)].err
    BY <2>2, <2>4
  <2>. QED BY <2>3, <2>4, <2>5 DEF n
<1>2. CASE ~Called(tab, x)
  <2>1. \/ ExpandLine(x[1], tab, x[2], g) = Lines(<<x[1]>>)
        \/ ExpandLine(x[1], tab, x[2], g) = Wrong("recursive macro")
        \/ ExpandLine(x[1], tab, x[2], g) = Wrong("macro arguments")
    BY <1>2, ExpandLineCases
  <2>2. "recursive macro" \in Errors /\ "macro arguments" \in Errors /\ x[1] \in SourceLine
    BY DEF Errors, ExpandErrors, Lookups
  <2>. QED BY <1>2, <2>1, <2>2, SimpleResults
<1>. QED BY <1>1, <1>2

LEMMA ExpandLineSame ==
  ASSUME NEW tab, AreMacros(tab), NEW x \in Lookups(tab), NEW f, NEW g,
         \A y \in Lookups(tab) : Others(tab)[y] < Others(tab)[x] => f[y] = g[y]
  PROVE  ExpandLine(x[1], tab, x[2], f) = ExpandLine(x[1], tab, x[2], g)
<1>1. CASE Called(tab, x)
  <2>1. \A i \in 1..Len(CallBody(tab, x)) : f[Inside(tab, x, i)] = g[Inside(tab, x, i)]
    BY <1>1, CalledLines
  <2>2. ExpandLine(x[1], tab, x[2], f) = AllOf([i \in 1..Len(CallBody(tab, x)) |-> f[Inside(tab, x, i)]])
    BY <1>1, ExpandLineCases
  <2>3. ExpandLine(x[1], tab, x[2], g) = AllOf([i \in 1..Len(CallBody(tab, x)) |-> g[Inside(tab, x, i)]])
    BY <1>1, ExpandLineCases
  <2>. QED BY <2>1, <2>2, <2>3
<1>2. CASE ~Called(tab, x)
  BY <1>2 DEF ExpandLine, Called
<1>. QED BY <1>1, <1>2

LEMMA ExpandedIs ==
  ASSUME NEW tab, AreMacros(tab)
  PROVE  /\ Expanded(tab) \in [Lookups(tab) -> Results]
         /\ \A x \in Lookups(tab) : Expanded(tab)[x] = ExpandLine(x[1], tab, x[2], Expanded(tab))
<1>. DEFINE X == Lookups(tab)
            m == Others(tab)
            bound == Cardinality(Macros(tab)) + 1
            turn == [f \in [X -> Results] |-> [x \in X |-> ExpandLine(x[1], tab, x[2], f)]]
            Eq(f) == f = [x \in X |-> ExpandLine(x[1], tab, x[2], f)]
            it == CHOOSE f : Eq(f)
<1>1. m \in [X -> Nat] /\ bound \in Nat /\ \A x \in X : m[x] < bound
  BY OthersIsNat
<1>2. turn \in [[X -> Results] -> [X -> Results]]
  BY ExpandLineIn
<1>3. \A f, g \in [X -> Results], x \in X :
        (\A y \in X : m[y] < m[x] => f[y] = g[y]) => turn[f][x] = turn[g][x]
  BY ExpandLineSame
<1>4. Expanded(tab) = it
  BY DEF Expanded, Lookups
<1>5. \E f \in [X -> Results] : f = turn[f]
  <2>. DEFINE F == [X -> Results]
              V == Results
              base == [x \in X |-> Wrong("recursive macro")]
  <2>1. Wrong("recursive macro") \in Results
    BY SimpleResults DEF Errors, ExpandErrors
  <2>2. base \in F /\ F \in SUBSET [X -> V]
    BY <2>1
  <2>3. turn \in [F -> F]
    BY <1>2
  <2>4. \A f, g \in F, x \in X :
           (\A y \in X : m[y] < m[x] => f[y] = g[y]) => turn[f][x] = turn[g][x]
    BY <1>3
  <2>. HIDE DEF X, m, bound, turn, base, V, F
  <2>5. Grounded(X, m, bound) /\ Descends(X, F, m, turn)
    BY <1>1, <2>3, <2>4 DEF Grounded, Descends
  <2>6. HasFixpoint(F, turn)
    BY <2>2, <2>5, Fixpoint
  <2>. QED BY <2>6 DEF HasFixpoint, F
<1>6. \E f : Eq(f)
  <2>1. PICK f \in [X -> Results] : f = turn[f]
    BY <1>5
  <2>. QED BY <2>1
<1>7. Eq(it)
  <2>. HIDE DEF Eq
  <2>. QED BY <1>6
<1>. HIDE DEF it
<1>8. \A x \in X : it[x] = ExpandLine(x[1], tab, x[2], it)
  BY <1>7
<1>9. X \subseteq {x \in X : it[x] \in Results}
  <2>. DEFINE S == {x \in X : it[x] \in Results}
  <2>1. \A x \in X : (\A y \in X : m[y] < m[x] => y \in S) => x \in S
    <3>. TAKE x \in X
    <3>. HAVE \A y \in X : m[y] < m[x] => y \in S
    <3>1. \A y \in Lookups(tab) : Others(tab)[y] < Others(tab)[x] => it[y] \in Results
      OBVIOUS
    <3>. QED BY <1>8, <3>1, ExpandLineIn
  <2>. HIDE DEF S, X, m
  <2>2. X \subseteq S
    BY <1>1, <2>1, MeasureInduction
  <2>. QED BY <2>2 DEF S
<1>10. it \in [X -> Results]
  BY <1>7, <1>9
<1>. QED BY <1>4, <1>8, <1>10

\* The lines of a call call what is written in the body.
LEMMA InsideCalls ==
  ASSUME NEW tab, AreMacros(tab), Written(tab), NEW x \in Lookups(tab), Called(tab, x)
  PROVE  \A i \in 1..Len(CallBody(tab, x)) :
           /\ Inside(tab, x, i)[1].op = Macro(tab, x[1].op).body[i].op
           /\ Inside(tab, x, i)[2] = x[2] \cup {x[1].op}
<1>. DEFINE n == x[1].op
            def == Macro(tab, n)
<1>1. PICK d \in tab : d.name = n /\ def = d.def
  BY MacroIn DEF Called
<1>2. x[1] \in SourceLine /\ def.body \in Seq(SourceLine) /\ Len(x[1].args) = Len(def.params)
  BY <1>1 DEF AreMacros, Called, Lookups
<1>3. \A i \in 1..Len(def.body), k \in 1..Len(def.params) : def.body[i].op # def.params[k]
  BY <1>1 DEF Written
<1>4. CallBody(tab, x) = Body(x[1], def)
  BY DEF CallBody
<1>. HIDE DEF def
<1>5. /\ Len(Body(x[1], def)) = Len(def.body)
      /\ \A i \in 1..Len(def.body) :
           (\A k \in 1..Len(def.params) : def.body[i].op # def.params[k]) => Body(x[1], def)[i].op = def.body[i].op
  BY <1>2, BodyTyped
<1>6. \A i \in 1..Len(CallBody(tab, x)) : CallBody(tab, x)[i].op = def.body[i].op
  BY <1>3, <1>4, <1>5
<1>7. \A i \in 1..Len(CallBody(tab, x)) : /\ Inside(tab, x, i)[1] = CallBody(tab, x)[i]
                                          /\ Inside(tab, x, i)[2] = x[2] \cup {x[1].op}
  BY DEF Inside
<1>. QED BY <1>6, <1>7 DEF def

\* A macro refused for calling itself does.
LEMMA RecursionIsCyclic ==
  ASSUME NEW tab, AreMacros(tab), Written(tab), NEW x \in Lookups(tab),
         \A s \in x[2] : x[1].op \in Macros(tab) => x[1].op \in Reached(s, CallsOf(tab)),
         Expanded(tab)[x].err = "recursive macro"
  PROVE  \E c \in Macros(tab) : c \in Reached(c, CallsOf(tab))
<1>. DEFINE X == Lookups(tab)
            M == Macros(tab)
            m == Others(tab)
            exp == Expanded(tab)
            d == CallsOf(tab)
            chain(y) == \A s \in y[2] : y[1].op \in M => y[1].op \in Reached(s, d)
            S == {y \in X : chain(y) /\ exp[y].err = "recursive macro" => \E c \in M : c \in Reached(c, d)}
<1>0. \A y \in Lookups(tab) : Called(tab, y) =>
        \A j \in 1..Len(CallBody(tab, y)) :
          /\ Inside(tab, y, j)[1].op = Macro(tab, y[1].op).body[j].op
          /\ Inside(tab, y, j)[2] = y[2] \cup {y[1].op}
  <2>. HIDE DEF X, M, m, exp, d, S
  <2>. QED BY InsideCalls
<1>1. m \in [X -> Nat] /\ DOMAIN d = M /\ \A y \in X : exp[y] \in Results
  BY OthersIsNat, ExpandedIs DEF CallsOf
<1>2. \A y \in X : (\A z \in X : m[z] < m[y] => z \in S) => y \in S
  <2>. SUFFICES ASSUME NEW y \in X, \A z \in X : m[z] < m[y] => z \in S,
                       chain(y), exp[y].err = "recursive macro"
                PROVE  \E c \in M : c \in Reached(c, d)
    OBVIOUS
  <2>1. y[1] \in SourceLine /\ y[2] \in SUBSET M
    BY DEF Lookups
  <2>2. exp[y] = ExpandLine(y[1], tab, y[2], exp)
    BY ExpandedIs
  <2>. DEFINE n == y[1].op
  <2>3. n \in M /\ (n \in y[2] \/ Called(tab, y))
    <3>1. Lines(<<y[1]>>).err = "none" /\ Wrong("macro arguments").err = "macro arguments"
      BY DEF Lines, Wrong
    <3>2. /\ y[1].op \notin Macros(tab) => ExpandLine(y[1], tab, y[2], exp) = Lines(<<y[1]>>)
          /\ y[1].op \in Macros(tab) /\ y[1].op \notin y[2] /\ ~Called(tab, y)
               => ExpandLine(y[1], tab, y[2], exp) = Wrong("macro arguments")
      BY ExpandLineCases
    <3>. QED BY <2>2, <3>1, <3>2
  <2>4. CASE n \in y[2]
    BY <2>3, <2>4
  <2>5. CASE n \notin y[2]
    <3>1. Called(tab, y)
      BY <2>3, <2>5
    <3>2. \A z \in X : m[z] < m[y] => exp[z] \in Results
      BY <1>1
    <3>3. PICK i \in 1..Len(CallBody(tab, y)) : exp[Inside(tab, y, i)].err = "recursive macro"
      <4>1. ExpandLine(y[1], tab, y[2], exp).err # "none" =>
                   \E i \in 1..Len(CallBody(tab, y)) :
                     ExpandLine(y[1], tab, y[2], exp).err = exp[Inside(tab, y, i)].err
        BY <3>1, <3>2, ExpandLineIn
      <4>. QED BY <2>2, <4>1
    <3>. DEFINE z == Inside(tab, y, i)
                k == z[1].op
    <3>4. z \in X /\ m[z] < m[y]
      BY <3>1, CalledLines
    <3>5. k = Macro(tab, n).body[i].op /\ z[2] = y[2] \cup {n} /\ i \in 1..Len(Macro(tab, n).body)
      BY <1>0, <3>1, CalledLines
    <3>6. exp[z].err = "recursive macro"
      BY <3>3
    <3>. HIDE DEF z, k
    <3>7. k \in M => k \in d[n]
      BY <2>3, <3>5 DEF CallsOf
    <3>. HIDE DEF n
    <3>8. ASSUME NEW s \in z[2], k \in M PROVE k \in Reached(s, d)
      <4>1. k \in d[n] /\ n \in M /\ s \in M
        BY <2>1, <2>3, <3>5, <3>7, <3>8 DEF n
      <4>2. CASE s = n
        BY <1>1, <4>1, <4>2, ReachedClosed
      <4>3. CASE s \in y[2]
        BY <1>1, <4>1, <4>3, ReachedClosed DEF n
      <4>. QED BY <3>5, <3>8, <4>2, <4>3
    <3>9. chain(z)
      BY <3>8 DEF k
    <3>. QED BY <3>4, <3>6, <3>9
  <2>. QED BY <2>4, <2>5
<1>3. X \subseteq S
  <2>. HIDE DEF S, X, m
  <2>. QED BY <1>1, <1>2, MeasureInduction
<1>. QED BY <1>3

\* A call that is not refused leads to no circle, and not back.
LEMMA ExpandedIsAcyclic ==
  ASSUME NEW tab, AreMacros(tab), Written(tab), NEW x \in Lookups(tab),
         Expanded(tab)[x].err = "none", x[1].op \in Macros(tab)
  PROVE  LET d == CallsOf(tab)
         IN  /\ x[1].op \notin x[2] /\ Reached(x[1].op, d) \cap (x[2] \cup {x[1].op}) = {}
             /\ \A c \in Reached(x[1].op, d) : c \notin Reached(c, d)
<1>. DEFINE X == Lookups(tab)
            M == Macros(tab)
            m == Others(tab)
            exp == Expanded(tab)
            d == CallsOf(tab)
            fine(y) == /\ y[1].op \notin y[2] /\ Reached(y[1].op, d) \cap (y[2] \cup {y[1].op}) = {}
                       /\ \A c \in Reached(y[1].op, d) : c \notin Reached(c, d)
            S == {y \in X : exp[y].err = "none" /\ y[1].op \in M => fine(y)}
<1>1. m \in [X -> Nat] /\ DOMAIN d = M /\ \A y \in X : exp[y] \in Results
  BY OthersIsNat, ExpandedIs DEF CallsOf
<1>2. \A y \in X : (\A z \in X : m[z] < m[y] => z \in S) => y \in S
  <2>. SUFFICES ASSUME NEW y \in X, \A z \in X : m[z] < m[y] => z \in S,
                       exp[y].err = "none", y[1].op \in M
                PROVE  fine(y)
    OBVIOUS
  <2>. DEFINE n == y[1].op
  <2>1. y[1] \in SourceLine /\ y[2] \in SUBSET M /\ n \in M
    BY DEF Lookups
  <2>2. exp[y] = ExpandLine(y[1], tab, y[2], exp)
    BY ExpandedIs
  <2>3. Called(tab, y)
    <3>1. Wrong("recursive macro").err = "recursive macro" /\ Wrong("macro arguments").err = "macro arguments"
      BY DEF Wrong
    <3>2. /\ y[1].op \in Macros(tab) /\ y[1].op \in y[2]
               => ExpandLine(y[1], tab, y[2], exp) = Wrong("recursive macro")
          /\ y[1].op \in Macros(tab) /\ y[1].op \notin y[2] /\ ~Called(tab, y)
               => ExpandLine(y[1], tab, y[2], exp) = Wrong("macro arguments")
      BY ExpandLineCases
    <3>. QED BY <2>1, <2>2, <3>1, <3>2
  <2>4. \A i \in 1..Len(CallBody(tab, y)) : exp[Inside(tab, y, i)].err = "none"
    BY <1>1, <2>2, <2>3, ExpandLineIn
  <2>5. ASSUME NEW k \in d[n]
        PROVE  /\ k \in M /\ k \notin y[2] \cup {n}
               /\ Reached(k, d) \cap (y[2] \cup {n}) = {} /\ k \notin Reached(k, d)
               /\ \A c \in Reached(k, d) : c \notin Reached(c, d)
    <3>1. k \in M
      BY <2>1, <2>5 DEF CallsOf
    <3>2. PICK i \in 1..Len(Macro(tab, n).body) : k = Macro(tab, n).body[i].op
      BY <2>1, <2>5 DEF CallsOf
    <3>3. i \in 1..Len(CallBody(tab, y))
      BY <2>3, CalledLines
    <3>. DEFINE z == Inside(tab, y, i)
    <3>4. z \in X /\ m[z] < m[y] /\ exp[z].err = "none"
      BY <2>3, <2>4, <3>3, CalledLines
    <3>5. z[1].op = k /\ z[2] = y[2] \cup {n}
      BY <2>3, <3>2, <3>3, InsideCalls
    <3>. HIDE DEF z, n
    <3>6. fine(z)
      BY <3>1, <3>4, <3>5
    <3>. QED BY <3>1, <3>5, <3>6
  <2>6. n \notin y[2]
    BY <2>3 DEF Called
  <2>7. ASSUME NEW k \in Reached(n, d) PROVE k \notin y[2] \cup {n} /\ k \notin Reached(k, d)
    BY <1>1, <2>1, <2>5, <2>7, ReachedFrom
  <2>. QED BY <2>6, <2>7
<1>3. X \subseteq S
  <2>. HIDE DEF S, X, m
  <2>. QED BY <1>1, <1>2, MeasureInduction
<1>. QED BY <1>3

\* What the third stage says of recursion is so, if the bodies are lines too.
LEMMA MacrosDecided ==
  ASSUME NEW tab, AreMacros(tab), NEW ls \in Seq(SourceLine),
         \A d \in tab : \A i \in 1..Len(d.def.body) : \E k \in 1..Len(ls) : d.def.body[i] = ls[k]
  PROVE  LET r == ExpandMacros(ls, tab)
         IN  /\ r \in Results
             /\ r.err = "recursive macro" /\ Written(tab) =>
                  \E c \in Macros(tab) : c \in Reached(c, CallsOf(tab))
             /\ r.err = "none" /\ Written(tab) =>
                  \A c \in Macros(tab) : c \notin Reached(c, CallsOf(tab))
<1>. DEFINE n == Len(ls)
            exp == Expanded(tab)
            d == CallsOf(tab)
            rs == [i \in 1..n |-> exp[<<ls[i], {}>>]]
            r == ExpandMacros(ls, tab)
<1>1. n \in Nat /\ \A i \in 1..n : ls[i] \in SourceLine
  BY LenIsNat
<1>2. \A i \in 1..n : /\ <<ls[i], {}>> \in Lookups(tab) /\ <<ls[i], {}>>[1] = ls[i] /\ <<ls[i], {}>>[2] = {}
                      /\ exp[<<ls[i], {}>>] \in Results
  BY <1>1, ExpandedIs DEF Lookups
<1>3. rs \in Seq(Results) /\ Len(rs) = n /\ \A i \in 1..n : rs[i] = exp[<<ls[i], {}>>]
  BY <1>1, <1>2
<1>4. r = AllOf(rs)
  BY DEF ExpandMacros, Each
<1>. HIDE DEF rs, r, exp, n, d
<1>5. /\ r \in Results
      /\ r.err = "none" <=> \A i \in 1..n : exp[<<ls[i], {}>>].err = "none"
      /\ r.err # "none" => \E i \in 1..n : r.err = exp[<<ls[i], {}>>].err
  BY <1>3, <1>4, AllOfFacts
<1>6. ASSUME r.err = "recursive macro", Written(tab) PROVE \E c \in Macros(tab) : c \in Reached(c, d)
  <2>1. PICK i \in 1..n : exp[<<ls[i], {}>>].err = "recursive macro"
    BY <1>5, <1>6
  <2>. DEFINE x == <<ls[i], {}>>
  <2>2. x \in Lookups(tab) /\ x[2] = {} /\ exp[x].err = "recursive macro"
    BY <1>2, <2>1
  <2>. HIDE DEF x
  <2>3. \A s \in x[2] : x[1].op \in Macros(tab) => x[1].op \in Reached(s, CallsOf(tab))
    BY <2>2
  <2>. QED BY <1>6, <2>2, <2>3, RecursionIsCyclic DEF exp, d
<1>7. ASSUME r.err = "none", Written(tab), NEW c \in Macros(tab) PROVE c \notin Reached(c, d)
  <2>1. ASSUME NEW k \in d[c] PROVE /\ k \notin Reached(k, d) /\ k \in Macros(tab)
                                    /\ \A q \in Reached(k, d) : q \notin Reached(q, d)
    <3>1. k \in Macros(tab)
      BY <2>1 DEF CallsOf, d
    <3>2. PICK i \in 1..Len(Macro(tab, c).body) : k = Macro(tab, c).body[i].op
      BY <2>1 DEF CallsOf, d
    <3>3. PICK e \in tab : Macro(tab, c) = e.def
      BY MacroIn
    <3>4. PICK j \in 1..Len(ls) : Macro(tab, c).body[i] = ls[j]
      BY <3>2, <3>3
    <3>. DEFINE x == <<ls[j], {}>>
    <3>5. x \in Lookups(tab) /\ exp[x].err = "none" /\ x[1].op = k
      BY <1>2, <1>5, <1>7, <3>2, <3>4 DEF n
    <3>. HIDE DEF x
    <3>6. LET g == CallsOf(tab)
          IN  /\ x[1].op \notin x[2] /\ Reached(x[1].op, g) \cap (x[2] \cup {x[1].op}) = {}
              /\ \A q \in Reached(x[1].op, g) : q \notin Reached(q, g)
      BY <1>7, <3>1, <3>5, ExpandedIsAcyclic DEF exp
    <3>. QED BY <3>1, <3>5, <3>6 DEF d
  <2>2. c \in DOMAIN d
    BY DEF d, CallsOf
  <2>3. SUFFICES ASSUME c \in Reached(c, d) PROVE FALSE
    OBVIOUS
  <2>4. c \in d[c] \/ \E q \in d[c] \cap DOMAIN d : c \in Reached(q, d)
    BY <2>2, <2>3, ReachedFrom
  <2>. QED BY <2>1, <2>3, <2>4
<1>. QED BY <1>5, <1>6, <1>7 DEF r, d
-----------------------------------------------------------------------------
(* Operands: the evaluator comes to an end, with a number or an error.       *)

LEMMA OpsAtLevel == \A l \in 1..6 : OpsAt(l) \subseteq AllOps
BY DEF OpsAt, AllOps

LEMMA BitwiseIn == ASSUME NEW op, NEW a \in Int, NEW b \in Int PROVE Bitwise(op, a, b) \in Int
<1>. DEFINE n == 16
            c(k) == IF OneBit(op, (a \div Pow[k]) % 2, (b \div Pow[k]) % 2) THEN Pow[k] ELSE 0
            Eq(f) == f = [k \in 0..n |-> c(k) + (IF k = 0 THEN 0 ELSE f[k - 1])]
            sum == CHOOSE f : Eq(f)
            G == [z \in (1..n) \X Int |-> c(z[1]) + z[2]]
            base == c(0)
<1>1. Bitwise(op, a, b) = Wrapped(sum[n])
  BY DEF Bitwise
<1>2. n \in Nat /\ \A k \in 0..n : c(k) \in Int
  BY PowNat
<1>. HIDE DEF c, n
<1>3. base \in Int /\ \A k \in 1..n, q \in Int : G[<<k, q>>] \in Int /\ G[<<k, q>>] = c(k) + q
  BY <1>2
<1>. HIDE DEF G, base
<1>4. PICK to \in [0..n -> Int] : FromTo(to, n, base, G)
  BY <1>2, <1>3, AlongFrom
<1>5. Eq(to)
  <2>1. ASSUME NEW k \in 0..n PROVE to[k] = c(k) + (IF k = 0 THEN 0 ELSE to[k - 1])
    <3>1. to[k] = IF k = 0 THEN base ELSE G[<<k, to[k - 1]>>]
      BY <1>4 DEF FromTo
    <3>2. CASE k = 0
      BY <1>2, <3>1, <3>2 DEF base
    <3>3. CASE k # 0
      BY <1>2, <1>3, <3>1, <3>3
    <3>. QED BY <3>2, <3>3
  <2>2. to = [k \in 0..n |-> to[k]]
    OBVIOUS
  <2>. QED BY <2>1, <2>2
<1>6. Eq(sum)
  <2>. HIDE DEF Eq
  <2>. QED BY <1>5
<1>. HIDE DEF sum
<1>. DEFINE U == {k \in Nat : k \in 0..n => sum[k] \in Int}
<1>7. 0 \in U
  BY <1>2, <1>6
<1>8. ASSUME NEW k \in Nat, k \in U PROVE k + 1 \in U
  <2>. SUFFICES ASSUME k + 1 \in 0..n PROVE sum[k + 1] \in Int
    OBVIOUS
  <2>1. k \in 0..n /\ (k + 1) - 1 = k /\ k + 1 # 0
    BY <1>2
  <2>2. sum[k + 1] = c(k + 1) + sum[k]
    BY <1>6, <2>1
  <2>. QED BY <1>2, <1>8, <2>1, <2>2
<1>9. n \in U
  <2>. HIDE DEF U
  <2>. QED BY <1>2, <1>7, <1>8, SetInduction
<1>10. sum[n] \in Int
  BY <1>2, <1>9
<1>. QED BY <1>1, <1>10 DEF Wrapped, Bound

LEMMA ApplyIn ==
  ASSUME NEW op \in AllOps, NEW a \in Int, NEW b \in Int, ~Refused(op, b)
  PROVE  Apply(op, a, b) \in Int
<1>1. CASE op \in {"|", "^", "&"}
  BY <1>1, BitwiseIn DEF Apply
<1>2. CASE op = "<<"
  BY <1>2, PowNat DEF Apply, Refused
<1>3. CASE op = ">>"
  BY <1>3, PowNat DEF Apply, Refused
<1>4. CASE op \in {"+", "-", "*"}
  BY <1>4 DEF Apply
<1>5. b # 0 => Div(a, b) \in Int
  BY DEF Div
<1>6. CASE op \in {"/", "//"}
  BY <1>5, <1>6 DEF Apply, Refused
<1>7. CASE op = "%"
  BY <1>5, <1>7 DEF Apply, Refused
<1>. QED BY <1>1, <1>2, <1>3, <1>4, <1>6, <1>7 DEF AllOps

LEMMA Readings_ ==
  /\ \A why \in EvalErrors : \A p, n : Bad(why) \in From(p, n) /\ Bad(why) \in Found
  /\ \A n \in Nat : \A p \in 1..(n + 1) : \A v \in Int, q \in (p + 1)..(n + 1) : Got(v, q) \in From(p, n)
  /\ \A n \in Nat : \A p \in 1..(n + 1) : \A r \in From(p, n) :
       r \in Found /\ r.val \in Int /\ (~Failed(r) => r.pos \in (p + 1)..(n + 1))
  /\ \A n \in Nat : \A p \in 1..(n + 1) : \A q \in p..(n + 1) : From(q, n) \subseteq From(p, n)
<1>1. ASSUME NEW why \in EvalErrors PROVE Bad(why) \in Found /\ Bad(why).err # "none"
  <2>1. why # "none" /\ why \in {"none"} \cup EvalErrors
    BY DEF EvalErrors
  <2>. HIDE DEF EvalErrors
  <2>. QED BY <2>1 DEF Bad, Found
<1>2. \A n \in Nat : \A p \in 1..(n + 1) : \A v \in Int, q \in (p + 1)..(n + 1) : Got(v, q) \in From(p, n)
  BY DEF Got, From, Found
<1>3. \A n \in Nat : \A p \in 1..(n + 1) : \A r \in From(p, n) :
       r \in Found /\ r.val \in Int /\ (~Failed(r) => r.pos \in (p + 1)..(n + 1))
  BY DEF From, Found, Failed
<1>4. \A n \in Nat : \A p \in 1..(n + 1) : \A q \in p..(n + 1) : From(q, n) \subseteq From(p, n)
  BY DEF From
<1>. QED BY <1>1, <1>2, <1>3, <1>4 DEF From

LEMMA Tokens ==
  ASSUME NEW ts \in Seq(AnyToken), NEW n \in Nat, n = Len(ts), NEW p \in Int, 1 <= p
  PROVE  /\ p <= n => ts[p] \in AnyToken /\ ts[p].num \in Int /\ ts[p].sym = Sym(ts, p)
         /\ p > n => Sym(ts, p) = "end of text"
<1>1. p <= n => ts[p] \in AnyToken
  OBVIOUS
<1>2. \A t \in AnyToken : t.num \in Int
  BY DEF AnyToken
<1>3. Sym(ts, p) = IF p <= n THEN ts[p].sym ELSE "end of text"
  BY DEF Sym
<1>4. CASE p <= n
  <2>1. ts[p] \in AnyToken
    BY <1>1, <1>4
  <2>2. ts[p].num \in Int
    BY <1>2, <2>1
  <2>3. ts[p].sym = Sym(ts, p)
    BY <1>3, <1>4
  <2>4. n \in Int
    OBVIOUS
  <2>5. ~(p > n)
    BY ONLY p \in Int, <1>4, <2>4
  <2>. QED BY ONLY <2>1, <2>2, <2>3, <2>5
<1>5. CASE ~(p <= n)
  BY <1>3, <1>5
<1>. QED BY <1>4, <1>5

LEMMA AheadIsNat ==
  ASSUME NEW n \in Nat
  PROVE  /\ Ahead(n) \in [Places(n) -> Nat]
         /\ \A x \in Places(n) : Ahead(n)[x] < 8 * (n + 1) + 7
         /\ \A x \in Places(n) : Ahead(n)[x] = 8 * (n + 1 - x[2]) + 7 - x[1]
<1>1. ASSUME NEW x \in Places(n)
      PROVE  8 * (n + 1 - x[2]) + 7 - x[1] \in Nat /\ 8 * (n + 1 - x[2]) + 7 - x[1] < 8 * (n + 1) + 7
  BY DEF Places, Unary
<1>. QED BY <1>1 DEF Ahead

\* The places a level looks at.
LEMMA Looks ==
  ASSUME NEW n \in Nat, NEW l \in 1..Unary, NEW p \in 1..(n + 1)
  PROVE  /\ l < Unary => <<l + 1, p>> \in Places(n) /\ Ahead(n)[<<l + 1, p>>] < Ahead(n)[<<l, p>>]
         /\ \A k \in 1..Unary, q \in (p + 1)..(n + 1) :
              <<k, q>> \in Places(n) /\ Ahead(n)[<<k, q>>] < Ahead(n)[<<l, p>>]
<1>1. ASSUME NEW k \in 1..Unary, NEW q \in 1..(n + 1)
      PROVE  <<k, q>> \in Places(n) /\ Ahead(n)[<<k, q>>] = 8 * (n + 1 - q) + 7 - k
  <2>. DEFINE x == <<k, q>>
  <2>1. x \in Places(n) /\ x[1] = k /\ x[2] = q
    BY DEF Places
  <2>. HIDE DEF x
  <2>2. Ahead(n)[x] = 8 * (n + 1 - x[2]) + 7 - x[1]
    BY <2>1, AheadIsNat
  <2>. QED BY <2>1, <2>2 DEF x
<1>2. ASSUME NEW k \in 1..Unary, NEW q \in (p + 1)..(n + 1)
      PROVE  <<k, q>> \in Places(n) /\ Ahead(n)[<<k, q>>] < Ahead(n)[<<l, p>>]
  BY <1>1 DEF Unary
<1>3. ASSUME l < Unary
      PROVE  <<l + 1, p>> \in Places(n) /\ Ahead(n)[<<l + 1, p>>] < Ahead(n)[<<l, p>>]
  BY <1>1, <1>3 DEF Unary
<1>. QED BY <1>2, <1>3

\* One turn of a level.
LEMMA TurnIn ==
  ASSUME NEW ts \in Seq(AnyToken), NEW n \in Nat, n = Len(ts), NEW l \in 1..Unary, l < Unary,
         NEW p \in 1..(n + 1), NEW a \in From(p, n), NEW f \in Reads(n)
  PROVE  /\ Turn(l, ts, a, f) \in From(p, n)
         /\ \A g :
              (\A y \in Places(n) : Ahead(n)[y] < Ahead(n)[<<l, p>>] => f[y] = g[y])
                => Turn(l, ts, a, f) = Turn(l, ts, a, g)
<1>1. CASE Failed(a) \/ Sym(ts, a.pos) \notin OpsAt(l)
  BY <1>1 DEF Turn
<1>2. CASE ~Failed(a) /\ Sym(ts, a.pos) \in OpsAt(l)
  <2>1. a.pos \in (p + 1)..(n + 1) /\ a.val \in Int
    BY <1>2, Readings_
  <2>2. Sym(ts, a.pos) \in AllOps /\ Sym(ts, a.pos) # "end of text"
    <3>1. l \in 1..6
      BY DEF Unary
    <3>2. Sym(ts, a.pos) \in AllOps
      BY <1>2, <3>1, OpsAtLevel
    <3>. QED BY <3>2 DEF AllOps
  <2>3. a.pos <= n /\ ts[a.pos].sym = Sym(ts, a.pos) /\ a.pos + 1 \in (p + 1)..(n + 1) /\ a.pos + 1 \in 1..(n + 1)
    <3>1. a.pos \in Int /\ 1 <= a.pos
      BY <2>1
    <3>2. /\ a.pos <= n => ts[a.pos].sym = Sym(ts, a.pos)
          /\ a.pos > n => Sym(ts, a.pos) = "end of text"
      BY <3>1, Tokens
    <3>3. a.pos <= n
      <4>. DEFINE q == a.pos
      <4>1. q \in Int /\ ~(q > n)
        BY <2>2, <3>1, <3>2
      <4>. HIDE DEF q
      <4>2. q <= n
        BY <4>1
      <4>. QED BY <4>2 DEF q
    <3>4. ts[a.pos].sym = Sym(ts, a.pos)
      BY <3>2, <3>3
    <3>. QED BY <2>1, <3>1, <3>3, <3>4
  <2>4. l + 1 \in 1..Unary
    BY DEF Unary
  <2>. DEFINE z == <<l + 1, a.pos + 1>>
              b == f[z]
              op == ts[a.pos].sym
  <2>5. z \in Places(n) /\ Ahead(n)[z] < Ahead(n)[<<l, p>>]
    BY <2>3, <2>4, Looks
  <2>6. b \in From(a.pos + 1, n)
    BY <2>5 DEF Reads
  <2>7. \A g : Turn(l, ts, a, g) = IF Failed(g[z]) THEN g[z]
                                   ELSE IF Refused(op, g[z].val) THEN Bad("refused")
                                   ELSE Got(Apply(op, a.val, g[z].val), g[z].pos)
    BY <1>2 DEF Turn
  <2>. HIDE DEF z, b, op
  <2>8. b \in From(p, n) /\ b.val \in Int /\ (~Failed(b) => b.pos \in (a.pos + 1 + 1)..(n + 1))
    BY <2>1, <2>3, <2>6, Readings_
  <2>9. Bad("refused") \in From(p, n)
    BY Readings_ DEF EvalErrors
  <2>10. ASSUME ~Failed(b), ~Refused(op, b.val) PROVE Got(Apply(op, a.val, b.val), b.pos) \in From(p, n)
    <3>1. Apply(op, a.val, b.val) \in Int
      BY <2>1, <2>2, <2>3, <2>8, <2>10, ApplyIn DEF op
    <3>2. b.pos \in (p + 1)..(n + 1)
      BY <2>1, <2>8, <2>10
    <3>. QED BY <3>1, <3>2, Readings_
  <2>11. Turn(l, ts, a, f) \in From(p, n)
    BY <2>7, <2>8, <2>9, <2>10 DEF b
  <2>12. ASSUME NEW g, \A y \in Places(n) : Ahead(n)[y] < Ahead(n)[<<l, p>>] => f[y] = g[y]
         PROVE  Turn(l, ts, a, f) = Turn(l, ts, a, g)
    BY <2>5, <2>7, <2>12
  <2>. QED BY <2>11, <2>12
<1>. QED BY <1>1, <1>2

LEMMA LevelSteps ==
  ASSUME NEW ts, NEW n \in Nat, n = Len(ts),
         NEW l, l # Unary, NEW p, NEW labels, NEW f, f[<<l + 1, p>>] \in From(p, n),
         \A a \in From(p, n) : Turn(l, ts, a, f) \in From(p, n)
  PROVE  Turns(l, ts, p, labels, f, n)
<1>. DEFINE seq == ts
            T == From(p, n)
            base == f[<<l + 1, p>>]
            op(q, i) == Turn(l, ts, q, f)
            G == [z \in (1..n) \X T |-> op(z[2], seq[z[1]])]
            Eq(to) == to = [k \in 0..Len(seq) |-> IF k = 0 THEN base
                             ELSE CHOOSE r \in {op(q, seq[k]) : q \in {to[k - 1]}} : TRUE]
            at == CHOOSE to : Eq(to)
<1>1. \A k \in 1..n, q \in T : Turn(l, ts, q, f) \in T
  OBVIOUS
<1>2. base \in T
  OBVIOUS
<1>3. Len(seq) = n /\ seq = ts
  OBVIOUS
<1>4. Level(l, ts, p, labels, f) = at[Len(seq)]
  BY DEF Level, Along
<1>5. \A k \in 1..n, q \in T : G[<<k, q>>] = op(q, seq[k]) /\ op(q, seq[k]) = Turn(l, ts, q, f) /\ G[<<k, q>>] \in T
  BY <1>1, <1>3
<1>. HIDE DEF G, T, base, seq, op
<1>6. PICK to \in [0..n -> T] : TheFold(to, n, T, base, G)
  BY <1>2, <1>5, FoldAlong
<1>7. \A k \in 1..n : to[k] = op(to[k - 1], seq[k]) /\ to[k - 1] \in T
  BY <1>5, <1>6 DEF TheFold
<1>8. to[0] = base
  BY <1>6 DEF TheFold
<1>9. Eq(to)
  BY <1>3, <1>7, <1>8
<1>. HIDE DEF Eq
<1>10. Eq(at)
  BY <1>9
<1>. HIDE DEF at
<1>11. FollowsFold(at, n, T, base, G)
  BY <1>3, <1>5, <1>10 DEF FollowsFold, Eq
<1>12. at = to
  BY <1>6, <1>11 DEF TheFold
<1>13. ASSUME NEW k \in 1..n PROVE to[k] = Turn(l, ts, to[k - 1], f)
  BY <1>7 DEF op
<1>. QED BY <1>3, <1>4, <1>8, <1>12, <1>13 DEF T, base, Turns

LEMMA LevelBelow ==
  ASSUME NEW ts \in Seq(AnyToken), NEW n \in Nat, n = Len(ts), NEW l \in 1..Unary, l < Unary,
         NEW p \in 1..(n + 1), NEW labels, NEW f \in Reads(n)
  PROVE  /\ Level(l, ts, p, labels, f) \in From(p, n)
         /\ \A g :
              (\A y \in Places(n) : Ahead(n)[y] < Ahead(n)[<<l, p>>] => f[y] = g[y])
                => Level(l, ts, p, labels, f) = Level(l, ts, p, labels, g)
<1>0. /\ <<l + 1, p>> \in Places(n) /\ Ahead(n)[<<l + 1, p>>] < Ahead(n)[<<l, p>>]
      /\ f[<<l + 1, p>>] \in From(p, n) /\ l # Unary
      /\ \A a \in From(p, n) : Turn(l, ts, a, f) \in From(p, n)
  <2>1. <<l + 1, p>> \in Places(n) /\ Ahead(n)[<<l + 1, p>>] < Ahead(n)[<<l, p>>]
    BY Looks
  <2>2. f[<<l + 1, p>>] \in From(p, n) /\ l # Unary
    BY <2>1 DEF Reads
  <2>3. \A a \in From(p, n) : Turn(l, ts, a, f) \in From(p, n)
    BY TurnIn
  <2>. QED BY <2>1, <2>2, <2>3
<1>a. l # Unary /\ f[<<l + 1, p>>] \in From(p, n)
  BY <1>0
<1>b. \A a \in From(p, n) : Turn(l, ts, a, f) \in From(p, n)
  BY <1>0
<1>c. Turns(l, ts, p, labels, f, n)
  BY <1>a, <1>b, LevelSteps
<1>1. PICK to \in [0..n -> From(p, n)] :
           /\ to[0] = f[<<l + 1, p>>]
           /\ \A k \in 1..n : to[k] = Turn(l, ts, to[k - 1], f)
           /\ Level(l, ts, p, labels, f) = to[n]
  BY <1>c DEF Turns
<1>2. ASSUME NEW g, \A y \in Places(n) : Ahead(n)[y] < Ahead(n)[<<l, p>>] => f[y] = g[y]
      PROVE  Level(l, ts, p, labels, f) = Level(l, ts, p, labels, g)
  <2>2. \A a \in From(p, n) : Turn(l, ts, a, f) = Turn(l, ts, a, g)
    BY <1>2, TurnIn
  <2>0. f[<<l + 1, p>>] = g[<<l + 1, p>>]
    BY <1>0, <1>2
  <2>1. PICK at \in [0..n -> From(p, n)] :
             /\ at[0] = g[<<l + 1, p>>]
             /\ \A k \in 1..n : at[k] = Turn(l, ts, at[k - 1], g)
             /\ Level(l, ts, p, labels, g) = at[n]
    <3>1. l # Unary /\ g[<<l + 1, p>>] \in From(p, n)
      BY <1>0, <2>0
    <3>2. ASSUME NEW a \in From(p, n) PROVE Turn(l, ts, a, g) \in From(p, n)
      BY <1>b, <2>2
    <3>3. Turns(l, ts, p, labels, g, n)
      BY <3>1, <3>2, LevelSteps
    <3>. QED BY <3>3 DEF Turns
  <2>. DEFINE U == {k \in Nat : k \in 0..n => to[k] = at[k]}
  <2>3. 0 \in U
    BY <1>1, <2>0, <2>1
  <2>4. ASSUME NEW k \in Nat, k \in U PROVE k + 1 \in U
    <3>. SUFFICES ASSUME k + 1 \in 0..n PROVE to[k + 1] = at[k + 1]
      OBVIOUS
    <3>1. k \in 0..n /\ k + 1 \in 1..n /\ (k + 1) - 1 = k
      OBVIOUS
    <3>2. to[k + 1] = Turn(l, ts, to[k], f) /\ at[k + 1] = Turn(l, ts, at[k], g)
      BY <1>1, <2>1, <3>1
    <3>. QED BY <2>2, <2>4, <3>1, <3>2
  <2>5. n \in U
    <3>. HIDE DEF U
    <3>. QED BY <2>3, <2>4, SetInduction
  <2>. QED BY <1>1, <2>1, <2>5
<1>3. n \in 0..n
  OBVIOUS
<1>4. Level(l, ts, p, labels, f) \in From(p, n)
  BY <1>1, <1>3
<1>. QED BY <1>2, <1>4

\* The last level.
LEMMA SignedIn ==
  ASSUME NEW ts \in Seq(AnyToken), NEW n \in Nat, n = Len(ts), NEW p \in 1..(n + 1),
         NEW labels, AreLabels(labels), NEW f \in Reads(n)
  PROVE  /\ Signed(ts, p, labels, f) \in From(p, n)
         /\ \A g :
              (\A y \in Places(n) : Ahead(n)[y] < Ahead(n)[<<Unary, p>>] => f[y] = g[y])
                => Signed(ts, p, labels, f) = Signed(ts, p, labels, g)
<1>. DEFINE same(g) == \A y \in Places(n) : Ahead(n)[y] < Ahead(n)[<<Unary, p>>] => f[y] = g[y]
<1>0. Unary \in 1..Unary /\ 1 \in 1..Unary
  BY DEF Unary
<1>1. CASE Sym(ts, p) = "end of text"
  BY <1>1, Readings_ DEF Signed, Atom, EvalErrors
<1>2. CASE Sym(ts, p) # "end of text"
  <2>1. p <= n /\ ts[p] \in AnyToken /\ ts[p].num \in Int /\ p + 1 \in 1..(n + 1) /\ p + 1 \in (p + 1)..(n + 1)
        /\ ts[p].sym = Sym(ts, p)
    <3>0. p \in Int /\ 1 <= p
      OBVIOUS
    <3>1. p <= n
      <4>1. p > n => Sym(ts, p) = "end of text"
        BY <3>0, Tokens
      <4>2. n \in Int
        OBVIOUS
      <4>3. ~(p > n)
        BY <1>2, <4>1
      <4>. QED BY ONLY <3>0, <4>2, <4>3
    <3>2. ts[p] \in AnyToken /\ ts[p].num \in Int /\ ts[p].sym = Sym(ts, p)
      BY <3>0, <3>1, Tokens
    <3>. QED BY <3>1, <3>2
  <2>2. ASSUME NEW k \in 1..Unary
        PROVE  /\ <<k, p + 1>> \in Places(n) /\ Ahead(n)[<<k, p + 1>>] < Ahead(n)[<<Unary, p>>]
               /\ f[<<k, p + 1>>] \in From(p + 1, n) /\ f[<<k, p + 1>>] \in From(p, n)
    <3>1. <<k, p + 1>> \in Places(n) /\ Ahead(n)[<<k, p + 1>>] < Ahead(n)[<<Unary, p>>]
      BY <1>0, <2>1, Looks
    <3>2. f[<<k, p + 1>>] \in From(p + 1, n)
      BY <3>1 DEF Reads
    <3>3. From(p + 1, n) \subseteq From(p, n)
      BY <2>1, Readings_
    <3>. QED BY <3>1, <3>2, <3>3
  <2>3. CASE Sym(ts, p) \in {"-", "+", "~"}
    <3>. DEFINE z == <<Unary, p + 1>>
                r == f[z]
    <3>1. z \in Places(n) /\ Ahead(n)[z] < Ahead(n)[<<Unary, p>>] /\ r \in From(p, n)
      BY <1>0, <2>2
    <3>2. \A g : Signed(ts, p, labels, g) =
             CASE Sym(ts, p) = "+" \/ Failed(g[z])  -> g[z]
               [] Sym(ts, p) = "-" /\ ~Failed(g[z]) -> [g[z] EXCEPT !.val = -@]
               [] Sym(ts, p) = "~" /\ ~Failed(g[z]) -> [g[z] EXCEPT !.val = -@ - 1]
      BY <2>3 DEF Signed
    <3>. HIDE DEF z, r
    <3>3. Signed(ts, p, labels, f) = r \/ Signed(ts, p, labels, f) = [r EXCEPT !.val = -@]
          \/ Signed(ts, p, labels, f) = [r EXCEPT !.val = -@ - 1]
      BY <2>3, <3>2 DEF r
    <3>4. ASSUME NEW w \in Int PROVE [r EXCEPT !.val = w] \in From(p, n)
      <4>. DEFINE moved == [r EXCEPT !.val = w]
      <4>1. r \in Found /\ (r.err = "none" => r.pos \in (p + 1)..(n + 1))
        BY <3>1 DEF From
      <4>2. moved \in Found /\ moved.err = r.err /\ moved.pos = r.pos
        BY <4>1 DEF Found
      <4>. HIDE DEF moved
      <4>3. moved \in From(p, n)
        BY ONLY <4>1, <4>2 DEF From
      <4>. QED BY <4>3 DEF moved
    <3>6. r.val \in Int /\ -r.val \in Int /\ -r.val - 1 \in Int
      BY <3>1 DEF From, Found
    <3>5. ASSUME NEW g, same(g) PROVE Signed(ts, p, labels, f) = Signed(ts, p, labels, g)
      BY <3>1, <3>2, <3>5
    <3>7. [r EXCEPT !.val = -@] \in From(p, n) /\ [r EXCEPT !.val = -@ - 1] \in From(p, n)
      BY <3>4, <3>6
    <3>. QED BY <3>1, <3>3, <3>5, <3>7
  <2>4. CASE Sym(ts, p) \notin {"-", "+", "~"}
    <3>1. \A g : Signed(ts, p, labels, g) = Atom(ts, p, labels, g)
      BY <2>4 DEF Signed
    <3>2. CASE Sym(ts, p) = "("
      <4>. DEFINE z == <<1, p + 1>>
                  r == f[z]
      <4>1. /\ z \in Places(n) /\ Ahead(n)[z] < Ahead(n)[<<Unary, p>>] /\ r \in From(p, n)
            /\ r \in From(p + 1, n)
        BY <1>0, <2>2
      <4>2. \A g : Atom(ts, p, labels, g) =
               IF Failed(g[z]) THEN g[z]
               ELSE IF Sym(ts, g[z].pos) = ")" THEN Got(g[z].val, g[z].pos + 1) ELSE Bad("expected )")
        BY <3>2 DEF Atom
      <4>. HIDE DEF z, r
      <4>3. ASSUME ~Failed(r), Sym(ts, r.pos) = ")" PROVE Got(r.val, r.pos + 1) \in From(p, n)
        <5>1. r.val \in Int /\ r.pos \in (p + 1 + 1)..(n + 1)
          BY <2>1, <4>1, <4>3, Readings_
        <5>2. r.pos <= n
          <6>1. r.pos \in Int /\ 1 <= r.pos
            BY <5>1
          <6>2. r.pos > n => Sym(ts, r.pos) = "end of text"
            BY <6>1, Tokens
          <6>. QED BY <4>3, <6>1, <6>2
        <5>3. r.pos + 1 \in (p + 1)..(n + 1)
          BY <5>1, <5>2
        <5>. QED BY <5>1, <5>3, Readings_
      <4>4. Atom(ts, p, labels, f) \in From(p, n)
        <5>1. Bad("expected )") \in From(p, n)
          BY Readings_ DEF EvalErrors
        <5>. QED BY <4>1, <4>2, <4>3, <5>1 DEF r
      <4>5. ASSUME NEW g, same(g) PROVE Atom(ts, p, labels, f) = Atom(ts, p, labels, g)
        BY <4>1, <4>2, <4>5
      <4>. QED BY <3>1, <4>4, <4>5
    <3>3. CASE Sym(ts, p) # "("
      <4>1. \A g : Atom(ts, p, labels, g) =
               IF Sym(ts, p) = "" THEN Got(ts[p].num, p + 1)
               ELSE IF ~IsName(ts[p]) THEN Bad("unexpected")
               ELSE IF ts[p].sym \in DOMAIN labels THEN Got(labels[ts[p].sym], p + 1)
               ELSE Bad("undefined label")
        BY <1>2, <3>3 DEF Atom
      <4>2. Bad("unexpected") \in From(p, n) /\ Bad("undefined label") \in From(p, n)
        BY Readings_ DEF EvalErrors
      <4>3. Got(ts[p].num, p + 1) \in From(p, n)
        BY <2>1, Readings_
      <4>4. ts[p].sym \in DOMAIN labels => Got(labels[ts[p].sym], p + 1) \in From(p, n)
        BY <2>1, Readings_ DEF AreLabels
      <4>5. Atom(ts, p, labels, f) \in From(p, n)
        BY <4>1, <4>2, <4>3, <4>4
      <4>6. \A g : Atom(ts, p, labels, f) = Atom(ts, p, labels, g)
        BY <4>1
      <4>. QED BY <3>1, <4>5, <4>6
    <3>. QED BY <3>2, <3>3
  <2>. QED BY <2>3, <2>4
<1>. QED BY <1>1, <1>2

LEMMA LevelIn ==
  ASSUME NEW ts \in Seq(AnyToken), NEW n \in Nat, n = Len(ts), NEW x \in Places(n),
         NEW labels, AreLabels(labels), NEW f \in Reads(n)
  PROVE  /\ Level(x[1], ts, x[2], labels, f) \in From(x[2], n)
         /\ \A g :
              (\A y \in Places(n) : Ahead(n)[y] < Ahead(n)[x] => f[y] = g[y])
                => Level(x[1], ts, x[2], labels, f) = Level(x[1], ts, x[2], labels, g)
<1>1. PICK l \in 1..Unary, p \in 1..(n + 1) : x = <<l, p>>
  BY DEF Places
<1>2. CASE l < Unary
  BY <1>1, <1>2, LevelBelow
<1>3. CASE l = Unary
  BY <1>1, <1>3, SignedIn DEF Level
<1>4. l < Unary \/ l = Unary
  BY DEF Unary
<1>. QED BY <1>2, <1>3, <1>4

LEMMA ReadingsAre ==
  ASSUME NEW ts \in Seq(AnyToken), NEW n \in Nat, n = Len(ts), NEW labels, AreLabels(labels)
  PROVE  /\ Readings(ts, labels) \in Reads(n)
         /\ \A x \in Places(n) : Readings(ts, labels)[x] = Level(x[1], ts, x[2], labels, Readings(ts, labels))
<1>. DEFINE X == Places(n)
            m == Ahead(n)
            bound == 8 * (n + 1) + 7
            F == Reads(n)
            V == Found
            step(f) == [x \in X |-> Level(x[1], ts, x[2], labels, f)]
            turn == [f \in F |-> step(f)]
            base == [x \in X |-> Bad("unexpected")]
            Eq(f) == f = [x \in X |-> Level(x[1], ts, x[2], labels, f)]
            it == CHOOSE f : Eq(f)
<1>1. m \in [X -> Nat] /\ bound \in Nat /\ \A x \in X : m[x] < bound
  BY AheadIsNat
<1>2. \A f \in F : step(f) \in F
  <2>1. \A f \in F, x \in X : /\ Level(x[1], ts, x[2], labels, f) \in From(x[2], n)
                              /\ Level(x[1], ts, x[2], labels, f) \in Found
    BY LevelIn DEF From
  <2>. QED BY <2>1 DEF Reads
<1>3. \A f, g \in F, x \in X :
        (\A y \in X : m[y] < m[x] => f[y] = g[y]) => turn[f][x] = turn[g][x]
  BY LevelIn
<1>4. Readings(ts, labels) = it
  BY DEF Readings, Places
<1>5. base \in F /\ F \in SUBSET [X -> V]
  BY Readings_ DEF EvalErrors, Reads
<1>6. \E f \in F : Eq(f)
  <2>1. turn \in [F -> F]
    <3>. HIDE DEF step, F
    <3>. QED BY <1>2
  <2>. HIDE DEF X, m, bound, turn, base, V, F
  <2>2. Grounded(X, m, bound) /\ Descends(X, F, m, turn)
    BY <1>1, <1>3, <2>1 DEF Grounded, Descends
  <2>3. HasFixpoint(F, turn)
    BY <1>5, <2>2, Fixpoint
  <2>4. PICK f \in F : f = turn[f]
    BY <2>3 DEF HasFixpoint
  <2>. QED BY <2>4 DEF turn, X
<1>7. Eq(it)
  <2>. HIDE DEF Eq
  <2>. QED BY <1>6
<1>. HIDE DEF it
<1>8. PICK f \in F : Eq(f)
  <2>. HIDE DEF Eq
  <2>. QED BY <1>6
<1>9. X \subseteq {x \in X : f[x] = it[x]}
  <2>. DEFINE S == {x \in X : f[x] = it[x]}
  <2>1. \A x \in X : (\A y \in X : m[y] < m[x] => y \in S) => x \in S
    <3>. SUFFICES ASSUME NEW x \in X, \A y \in X : m[y] < m[x] => y \in S PROVE f[x] = it[x]
      OBVIOUS
    <3>1. Level(x[1], ts, x[2], labels, f) = Level(x[1], ts, x[2], labels, it)
      <4>1. \A y \in Places(n) : Ahead(n)[y] < Ahead(n)[x] => f[y] = it[y]
        OBVIOUS
      <4>. HIDE DEF S, m
      <4>. QED BY <4>1, LevelIn
    <3>. QED BY <1>7, <1>8, <3>1
  <2>. HIDE DEF S, X, m
  <2>2. X \subseteq S
    BY <1>1, <2>1, MeasureInduction
  <2>. QED BY <2>2 DEF S
<1>10. it = f
  <2>1. it = [x \in X |-> it[x]]
    BY <1>7
  <2>2. f = [x \in X |-> f[x]]
    BY <1>8
  <2>. HIDE DEF X
  <2>. QED BY <1>9, <2>1, <2>2
<1>11. \A x \in X : it[x] = Level(x[1], ts, x[2], labels, it)
  BY <1>7
<1>. QED BY <1>4, <1>8, <1>10, <1>11

\* An operand has a value or it has an error.
LEMMA EvalIn ==
  ASSUME NEW ts \in Seq(AnyToken), NEW labels, AreLabels(labels)
  PROVE  Eval(ts, labels) \in Found /\ Eval(ts, labels).val \in Int
<1>. DEFINE n == Len(ts)
<1>1. n \in Nat /\ n = Len(ts) /\ <<1, 1>> \in Places(n)
  BY DEF Places, Unary
<1>2. Bad("empty expression") \in Found /\ Bad("unexpected") \in Found
  BY Readings_ DEF EvalErrors
<1>. DEFINE r == Readings(ts, labels)[<<1, 1>>]
<1>3. r \in Found
  <2>. HIDE DEF n
  <2>. QED BY <1>1, ReadingsAre DEF Reads
<1>4. Eval(ts, labels) = IF ts = <<>> THEN Bad("empty expression")
                         ELSE IF ~Failed(r) /\ r.pos <= Len(ts) THEN Bad("unexpected") ELSE r
  BY DEF Eval
<1>. HIDE DEF r
<1>5. Eval(ts, labels) \in Found
  BY <1>2, <1>3, <1>4
<1>. QED BY <1>5 DEF Found
-----------------------------------------------------------------------------
(* Stages 4 to 6: defines and conditionals.                                  *)

LEMMA NameInTexts ==
  ASSUME NEW l \in SourceLine, NEW k \in 1..Len(l.args)
  PROVE  NameIn(l, k) \in Texts
<1>1. l.args[k] \in Seq(Token)
  BY LineIn
<1>2. \A ts \in Seq(Token) : ts # <<>> => ts[1] \in Token
  OBVIOUS
<1>3. \A t \in Token : t.sym \in STRING
  BY DEF Token
<1>. QED BY <1>1, <1>2, <1>3 DEF NameIn, Texts

LEMMA SetInTyped ==
  ASSUME NEW known \in Definitions, NEW name \in Texts, NEW val \in Seq(Token)
  PROVE  SetIn(known, name, val) \in Definitions
<1>1. Len(known) \in Nat /\ \A k \in 1..Len(known) : known[k] \in Definition
  BY DEF Definitions
<1>2. \A d \in Definition : [d EXCEPT !.val = val] \in Definition
  BY DEF Definition
<1>3. [name |-> name, val |-> val] \in Definition
  BY DEF Definition
<1>. DEFINE e == [name |-> name, val |-> val]
            new(k) == IF known[k].name = name THEN [known[k] EXCEPT !.val = val] ELSE known[k]
            all == [k \in 1..Len(known) |-> new(k)]
<1>4. \A k \in 1..Len(known) : new(k) \in Definition
  BY <1>1, <1>2
<1>. HIDE DEF new
<1>5. all \in Definitions
  BY <1>1, <1>4 DEF Definitions
<1>6. SetIn(known, name, val) = all \/ SetIn(known, name, val) = Append(known, e)
  BY DEF SetIn, new
<1>. HIDE DEF all, e
<1>7. Append(known, e) \in Definitions
  BY <1>3 DEF e, Definitions
<1>. QED BY <1>5, <1>6, <1>7

LEMMA DefinedTyped ==
  ASSUME NEW known \in Definitions, NEW l \in SourceLine
  PROVE  (IF Defines(l) THEN SetIn(known, NameIn(l, 1), l.args[2]) ELSE known) \in Definitions
<1>1. CASE Defines(l)
  <2>1. 1 \in 1..Len(l.args) /\ 2 \in 1..Len(l.args)
    BY <1>1 DEF Defines
  <2>2. NameIn(l, 1) \in Texts
    BY <2>1, NameInTexts
  <2>3. l.args[2] \in Seq(Token)
    BY <2>1, LineIn
  <2>. QED BY <1>1, <2>2, <2>3, SetInTyped
<1>2. CASE ~Defines(l)
  BY <1>2
<1>. QED BY <1>1, <1>2

LEMMA DefineSteps ==
  ASSUME NEW ls \in Seq(SourceLine), NEW n \in Nat, n = Len(ls)
  PROVE  \E to \in [0..n -> Definitions] :
           /\ to[0] = <<>>
           /\ \A k \in 1..n : to[k] = (IF Defines(ls[k]) THEN SetIn(to[k - 1], NameIn(ls[k], 1), ls[k].args[2]) ELSE to[k - 1])
           /\ DefineTable(ls) = to[n]
<1>. DEFINE seq == ls
            T == Definitions
            base == <<>>
            op(q, i) == (IF Defines(i) THEN SetIn(q, NameIn(i, 1), i.args[2]) ELSE q)
            G == [z \in (1..n) \X T |-> op(z[2], seq[z[1]])]
            Eq(to) == to = [k \in 0..Len(seq) |-> IF k = 0 THEN base
                             ELSE CHOOSE r \in {op(q, seq[k]) : q \in {to[k - 1]}} : TRUE]
            at == CHOOSE to : Eq(to)
<1>1. \A k \in 1..n, q \in T : (IF Defines(ls[k]) THEN SetIn(q, NameIn(ls[k], 1), ls[k].args[2]) ELSE q) \in T
  BY DefinedTyped
<1>2. base \in T
  BY DEF Definitions
<1>3. Len(seq) = n /\ seq = ls
  OBVIOUS
<1>4. DefineTable(ls) = at[Len(seq)]
  BY DEF DefineTable, Along
<1>5. \A k \in 1..n, q \in T : G[<<k, q>>] = op(q, seq[k]) /\ op(q, seq[k]) = (IF Defines(ls[k]) THEN SetIn(q, NameIn(ls[k], 1), ls[k].args[2]) ELSE q) /\ G[<<k, q>>] \in T
  BY <1>1, <1>3
<1>. HIDE DEF G, T, base, seq, op
<1>6. PICK to \in [0..n -> T] : TheFold(to, n, T, base, G)
  BY <1>2, <1>5, FoldAlong
<1>7. \A k \in 1..n : to[k] = op(to[k - 1], seq[k]) /\ to[k - 1] \in T
  BY <1>5, <1>6 DEF TheFold
<1>8. to[0] = base
  BY <1>6 DEF TheFold
<1>9. Eq(to)
  BY <1>3, <1>7, <1>8
<1>. HIDE DEF Eq
<1>10. Eq(at)
  BY <1>9
<1>. HIDE DEF at
<1>11. FollowsFold(at, n, T, base, G)
  BY <1>3, <1>5, <1>10 DEF FollowsFold, Eq
<1>12. at = to
  BY <1>6, <1>11 DEF TheFold
<1>13. \A k \in 1..n : to[k] = (IF Defines(ls[k]) THEN SetIn(to[k - 1], NameIn(ls[k], 1), ls[k].args[2]) ELSE to[k - 1])
  BY <1>5, <1>7
<1>. QED BY <1>3, <1>4, <1>8, <1>12, <1>13 DEF T, base

LEMMA AllDefinesSteps ==
  ASSUME NEW ds \in Definitions, NEW more \in Definitions, NEW n \in Nat, n = Len(more)
  PROVE  \E to \in [0..n -> Definitions] :
           /\ to[0] = ds
           /\ \A k \in 1..n : to[k] = SetIn(to[k - 1], more[k].name, more[k].val)
           /\ AllDefines(ds, more) = to[n]
<1>. DEFINE seq == more
            T == Definitions
            base == ds
            op(q, i) == SetIn(q, i.name, i.val)
            G == [z \in (1..n) \X T |-> op(z[2], seq[z[1]])]
            Eq(to) == to = [k \in 0..Len(seq) |-> IF k = 0 THEN base
                             ELSE CHOOSE r \in {op(q, seq[k]) : q \in {to[k - 1]}} : TRUE]
            at == CHOOSE to : Eq(to)
<1>1. \A k \in 1..n, q \in T : SetIn(q, more[k].name, more[k].val) \in T
  <2>1. \A k \in 1..n : more[k] \in Definition
    BY DEF Definitions
  <2>2. \A k \in 1..n : more[k].name \in Texts /\ more[k].val \in Seq(Token)
    BY <2>1 DEF Definition
  <2>. QED BY <2>2, SetInTyped
<1>2. base \in T
  OBVIOUS
<1>3. Len(seq) = n /\ seq = more
  OBVIOUS
<1>4. AllDefines(ds, more) = at[Len(seq)]
  BY DEF AllDefines, Along
<1>5. \A k \in 1..n, q \in T : G[<<k, q>>] = op(q, seq[k]) /\ op(q, seq[k]) = SetIn(q, more[k].name, more[k].val) /\ G[<<k, q>>] \in T
  BY <1>1, <1>3
<1>. HIDE DEF G, T, base, seq, op
<1>6. PICK to \in [0..n -> T] : TheFold(to, n, T, base, G)
  BY <1>2, <1>5, FoldAlong
<1>7. \A k \in 1..n : to[k] = op(to[k - 1], seq[k]) /\ to[k - 1] \in T
  BY <1>5, <1>6 DEF TheFold
<1>8. to[0] = base
  BY <1>6 DEF TheFold
<1>9. Eq(to)
  BY <1>3, <1>7, <1>8
<1>. HIDE DEF Eq
<1>10. Eq(at)
  BY <1>9
<1>. HIDE DEF at
<1>11. FollowsFold(at, n, T, base, G)
  BY <1>3, <1>5, <1>10 DEF FollowsFold, Eq
<1>12. at = to
  BY <1>6, <1>11 DEF TheFold
<1>13. \A k \in 1..n : to[k] = SetIn(to[k - 1], more[k].name, more[k].val)
  BY <1>5, <1>7
<1>. QED BY <1>3, <1>4, <1>8, <1>12, <1>13 DEF T, base

LEMMA DefinesIn ==
  /\ \A ls \in Seq(SourceLine) : DefineTable(ls) \in Definitions
  /\ \A ds, more \in Definitions : AllDefines(ds, more) \in Definitions
<1>1. ASSUME NEW ls \in Seq(SourceLine) PROVE DefineTable(ls) \in Definitions
  <2>. DEFINE n == Len(ls)
  <2>1. n \in Nat /\ n \in 0..n /\ n = Len(ls)
    OBVIOUS
  <2>. HIDE DEF n
  <2>2. PICK to \in [0..n -> Definitions] : DefineTable(ls) = to[n]
    BY <2>1, DefineSteps
  <2>. QED BY <2>1, <2>2
<1>2. ASSUME NEW ds \in Definitions, NEW more \in Definitions PROVE AllDefines(ds, more) \in Definitions
  <2>. DEFINE n == Len(more)
  <2>1. n \in Nat /\ n \in 0..n /\ n = Len(more)
    BY DEF Definitions
  <2>. HIDE DEF n
  <2>2. PICK to \in [0..n -> Definitions] : AllDefines(ds, more) = to[n]
    BY <2>1, AllDefinesSteps
  <2>. QED BY <2>1, <2>2
<1>. QED BY <1>1, <1>2

LEMMA SubstituteIn ==
  ASSUME NEW ls \in Seq(SourceLine), NEW known \in Definitions
  PROVE  Substitute(ls, known) \in Seq(SourceLine)
<1>1. Len(ls) \in Nat /\ \A i \in 1..Len(ls) : ls[i] \in SourceLine
  OBVIOUS
<1>2. AreNames(Names(known), Values(known))
  <2>1. Len(known) \in Nat /\ \A k \in 1..Len(known) : known[k] \in Definition
    BY DEF Definitions
  <2>2. \A k \in 1..Len(known) : known[k].val \in Seq(Token)
    BY <2>1 DEF Definition
  <2>. QED BY <2>1, <2>2 DEF AreNames, Names, Values
<1>3. \A i \in 1..Len(ls) : ReplaceEach(ls[i], Names(known), Values(known)) \in SourceLine
  BY <1>1, <1>2, ReplaceEachTyped
<1>. QED BY <1>1, <1>3 DEF Substitute
-----------------------------------------------------------------------------
LEMMA FilterCases ==
  ASSUME NEW f \in FilterStates, NEW l, NEW ds
  PROVE  FilterFact(f, l, ds)
<1>1. f = [stack |-> f.stack, out |-> f.out, err |-> f.err]
  BY DEF FilterStates
<1>2. ~(Opens(l) /\ Is(l, "%endif"))
  BY DEF Opens, Is
<1>. DEFINE s == f.stack
            o == f.out
            e == f.err
<1>. HIDE DEF s, o, e
<1>3. f = [stack |-> s, out |-> o, err |-> e]
  BY <1>1 DEF s, o, e
<1>4. CASE e # "none"
  BY <1>3, <1>4 DEF FilterLine, s, o, e, FilterFact
<1>5. CASE e = "none" /\ Opens(l)
  <2>1. FilterLine(f, l, ds) = IF Malformed(l) THEN [f EXCEPT !.err = "malformed conditional"]
              ELSE IF Unevaluable(l, ds) THEN [f EXCEPT !.err = "conditional operand"]
              ELSE [f EXCEPT !.stack = Append(@, Holds(l, ds))]
    BY <1>2, <1>5 DEF FilterLine, e
  <2>. DEFINE h == Holds(l, ds)
  <2>. HIDE DEF h
  <2>2. FilterLine(f, l, ds) = IF Malformed(l) THEN [stack |-> s, out |-> o, err |-> "malformed conditional"]
              ELSE IF Unevaluable(l, ds) THEN [stack |-> s, out |-> o, err |-> "conditional operand"]
              ELSE [stack |-> Append(s, h), out |-> o, err |-> "none"]
    BY <1>3, <1>5, <2>1 DEF h
  <2>. QED BY <1>2, <1>5, <2>2 DEF s, o, e, h, FilterFact
<1>6. CASE e = "none" /\ Is(l, "%endif")
  <2>1. FilterLine(f, l, ds) = IF f.stack = <<>> THEN [f EXCEPT !.err = "%endif without %if"]
                                 ELSE [f EXCEPT !.stack = Front(@)]
    BY <1>2, <1>6 DEF FilterLine, e
  <2>2. FilterLine(f, l, ds) = IF s = <<>> THEN [stack |-> s, out |-> o, err |-> "%endif without %if"]
                                 ELSE [stack |-> Front(s), out |-> o, err |-> "none"]
    BY <1>3, <1>6, <2>1
  <2>. QED BY <1>2, <1>6, <2>2 DEF s, o, e, FilterFact
<1>7. CASE e = "none" /\ ~Opens(l) /\ ~Is(l, "%endif")
  <2>1. FilterLine(f, l, ds) = IF Active(f.stack) THEN [f EXCEPT !.out = Append(@, l)] ELSE f
    BY <1>7 DEF FilterLine, e
  <2>2. FilterLine(f, l, ds) = [stack |-> s, out |-> IF Active(s) THEN Append(o, l) ELSE o, err |-> "none"]
    BY <1>3, <1>7, <2>1
  <2>. QED BY <1>7, <2>2 DEF s, o, e, FilterFact
<1>. QED BY <1>4, <1>5, <1>6, <1>7

LEMMA HoldsIn == ASSUME NEW l, NEW ds, Opens(l) PROVE Holds(l, ds) \in BOOLEAN
BY DEF Holds, Opens, Is

LEMMA FilterLineIn ==
  ASSUME NEW f \in FilterStates, NEW l \in SourceLine, NEW ds
  PROVE  FilterLine(f, l, ds) \in FilterStates
<1>. DEFINE s == f.stack
            o == f.out
            h == Holds(l, ds)
            r == FilterLine(f, l, ds)
            made(x, y, e) == [stack |-> x, out |-> y, err |-> e]
<1>1. s \in Seq(BOOLEAN) /\ o \in Seq(SourceLine) /\ f.err \in {"none"} \cup FilterErrors
  BY DEF FilterStates
<1>2. \A x \in Seq(BOOLEAN), y \in Seq(SourceLine), e \in {"none"} \cup FilterErrors :
        made(x, y, e) \in FilterStates
  BY DEF FilterStates
<1>3. {"none", "malformed conditional", "conditional operand", "%endif without %if"} \subseteq {"none"} \cup FilterErrors
  BY DEF FilterErrors
<1>4. s # <<>> => Front(s) \in Seq(BOOLEAN)
  <2>. HIDE DEF s
  <2>1. ASSUME s # <<>> PROVE SubSeq(s, 1, Len(s) - 1) \in Seq(BOOLEAN)
    BY <1>1
  <2>. QED BY <2>1 DEF Front
<1>5. Append(o, l) \in Seq(SourceLine)
  BY <1>1
<1>6. Opens(l) => Append(s, h) \in Seq(BOOLEAN)
  <2>1. ASSUME NEW b \in BOOLEAN PROVE Append(s, b) \in Seq(BOOLEAN)
    BY <1>1
  <2>2. Opens(l) => h \in BOOLEAN
    BY HoldsIn
  <2>. HIDE DEF h, s
  <2>. QED BY <2>1, <2>2
<1>0. FilterFact(f, l, ds)
  BY FilterCases
<1>7. CASE f.err # "none"
  BY <1>0, <1>7 DEF FilterFact
<1>8. CASE f.err = "none" /\ Opens(l)
  <2>1. r = made(s, o, "malformed conditional") \/ r = made(s, o, "conditional operand")
        \/ r = made(Append(s, h), o, "none")
    BY <1>0, <1>8 DEF FilterFact
  <2>. HIDE DEF s, o, h, r, made
  <2>. QED BY <1>1, <1>2, <1>3, <1>6, <1>8, <2>1 DEF r
<1>9. CASE f.err = "none" /\ Is(l, "%endif")
  <2>1. r = made(s, o, "%endif without %if") \/ (s # <<>> /\ r = made(Front(s), o, "none"))
    BY <1>0, <1>9 DEF FilterFact
  <2>. HIDE DEF s, o, h, r, made
  <2>. QED BY <1>1, <1>2, <1>3, <1>4, <2>1 DEF r
<1>10. CASE f.err = "none" /\ ~Opens(l) /\ ~Is(l, "%endif")
  <2>1. r = made(s, Append(o, l), "none") \/ r = made(s, o, "none")
    BY <1>0, <1>10 DEF FilterFact
  <2>. HIDE DEF s, o, h, r, made
  <2>. QED BY <1>1, <1>2, <1>3, <1>5, <2>1 DEF r
<1>. QED BY <1>7, <1>8, <1>9, <1>10

LEMMA FilterSteps ==
  ASSUME NEW ls \in Seq(SourceLine), NEW ds, NEW n \in Nat, n = Len(ls)
  PROVE  FilterRun(ls, ds, n)
<1>. DEFINE seq == ls
            T == FilterStates
            base == [stack |-> <<>>, out |-> <<>>, err |-> "none"]
            op(q, i) == FilterLine(q, i, ds)
            G == [z \in (1..n) \X T |-> op(z[2], seq[z[1]])]
            Eq(to) == to = [k \in 0..Len(seq) |-> IF k = 0 THEN base
                             ELSE CHOOSE r \in {op(q, seq[k]) : q \in {to[k - 1]}} : TRUE]
            at == CHOOSE to : Eq(to)
<1>1. \A k \in 1..n, q \in T : FilterLine(q, ls[k], ds) \in T
  BY FilterLineIn
<1>2. base \in T
  BY DEF FilterStates
<1>3. Len(seq) = n /\ seq = ls
  OBVIOUS
<1>4. Filtered(ls, ds) = at[Len(seq)]
  BY DEF Filtered, Along
<1>5. \A k \in 1..n, q \in T : G[<<k, q>>] = op(q, seq[k]) /\ op(q, seq[k]) = FilterLine(q, ls[k], ds) /\ G[<<k, q>>] \in T
  BY <1>1, <1>3
<1>. HIDE DEF G, T, base, seq, op
<1>6. PICK to \in [0..n -> T] : TheFold(to, n, T, base, G)
  BY <1>2, <1>5, FoldAlong
<1>7. \A k \in 1..n : to[k] = op(to[k - 1], seq[k]) /\ to[k - 1] \in T
  BY <1>5, <1>6 DEF TheFold
<1>8. to[0] = base
  BY <1>6 DEF TheFold
<1>9. Eq(to)
  BY <1>3, <1>7, <1>8
<1>. HIDE DEF Eq
<1>10. Eq(at)
  BY <1>9
<1>. HIDE DEF at
<1>11. FollowsFold(at, n, T, base, G)
  BY <1>3, <1>5, <1>10 DEF FollowsFold, Eq
<1>12. at = to
  BY <1>6, <1>11 DEF TheFold
<1>13. \A k \in 1..n : to[k] = FilterLine(to[k - 1], ls[k], ds)
  BY <1>5, <1>7
<1>. QED BY <1>3, <1>4, <1>8, <1>12, <1>13 DEF T, base, FilterRun

LEMMA FilterIn ==
  ASSUME NEW ls \in Seq(SourceLine), NEW ds
  PROVE  LET r == FilterConditionals(ls, ds)
             f == Filtered(ls, ds)
         IN  /\ r.lines \in Seq(SourceLine)
             /\ r.err \in {"none"} \cup FilterErrors
             /\ r.err = "none" => f.err = "none" /\ f.stack = <<>> /\ r.lines = f.out
<1>. DEFINE n == Len(ls)
            f == Filtered(ls, ds)
            r == FilterConditionals(ls, ds)
<1>1. n \in Nat /\ n \in 0..n /\ n = Len(ls)
  OBVIOUS
<1>. HIDE DEF n
<1>. HIDE DEF r
<1>2. PICK to \in [0..n -> FilterStates] : f = to[n]
  <2>1. FilterRun(ls, ds, n)
    BY <1>1, FilterSteps
  <2>. QED BY <2>1 DEF FilterRun
<1>3. f \in FilterStates
  BY <1>1, <1>2
<1>4. r = CASE f.err # "none"                    -> Wrong(f.err)
            [] f.err = "none" /\ f.stack # <<>>  -> Wrong("unterminated conditional")
            [] OTHER                             -> Lines(f.out)
  BY DEF FilterConditionals, Filtered, r
<1>. HIDE DEF f, r
<1>5. f.stack \in Seq(BOOLEAN) /\ f.out \in Seq(SourceLine) /\ f.err \in {"none"} \cup FilterErrors
  BY <1>3 DEF FilterStates
<1>6. \A why : Wrong(why).lines = <<>> /\ Wrong(why).err = why
  BY DEF Wrong
<1>7. \A l : Lines(l).lines = l /\ Lines(l).err = "none"
  BY DEF Lines
<1>8. <<>> \in Seq(SourceLine) /\ "unterminated conditional" \in FilterErrors /\ "none" \notin FilterErrors
  BY DEF FilterErrors
<1>9. /\ r.lines \in Seq(SourceLine)
      /\ r.err \in {"none"} \cup FilterErrors
      /\ r.err = "none" => f.err = "none" /\ f.stack = <<>> /\ r.lines = f.out
  <2>1. CASE f.err # "none"
    BY <1>4, <1>5, <1>6, <1>8, <2>1
  <2>2. CASE f.err = "none" /\ f.stack # <<>>
    BY <1>4, <1>6, <1>8, <2>2
  <2>3. CASE f.err = "none" /\ f.stack = <<>>
    BY <1>4, <1>5, <1>7, <1>8, <2>3
  <2>. QED BY <2>1, <2>2, <2>3
<1>. QED BY <1>9 DEF f, r
-----------------------------------------------------------------------------
(* Layout: what statements, labels and chunks are made of.                   *)

LEMMA LinesAreWords ==
  ASSUME NEW l \in SourceLine
  PROVE  l.labels \in Seq(AnyName) /\ l.op \in AnyName /\ l.args \in Seq(Seq(AnyToken))
<1>1. STRING \subseteq AnyName
  BY DEF AnyName, Texts
<1>2. Token \subseteq AnyToken
  BY <1>1 DEF Token, AnyToken
<1>3. Seq(Token) \subseteq Seq(AnyToken)
  BY <1>2, WiderSeq
<1>4. l.labels \in Seq(STRING) /\ l.op \in STRING /\ l.args \in Seq(Seq(Token))
  BY LineIn
<1>5. l.labels \in Seq(AnyName)
  BY <1>1, <1>4, WiderSeq
<1>6. l.args \in Seq(Seq(AnyToken))
  BY <1>3, <1>4, WiderSeq
<1>. QED BY <1>1, <1>4, <1>5, <1>6

LEMMA StmtTyped ==
  ASSUME NEW l \in SourceLine, NEW A, NEW addr \in A, NEW sec \in AnyName, NEW i \in Nat
  PROVE  Stmt(l, addr, sec, i) \in Stmts(A)
BY LinesAreWords DEF Stmt, Stmts

LEMMA StmtsWider ==
  /\ Stmts(Nat) \subseteq Stmts(Int)
  /\ \A sts \in Seq(Stmts(Nat)) : sts \in Seq(Stmts(Int))
<1>1. Stmts(Nat) \subseteq Stmts(Int)
  BY DEF Stmts
<1>. QED BY <1>1, WiderSeq

LEMMA StmtFields ==
  ASSUME NEW A, NEW st \in Stmts(A)
  PROVE  /\ st.labels \in Seq(AnyName) /\ st.op \in AnyName /\ st.args \in Seq(Seq(AnyToken))
         /\ st.addr \in A /\ st.sec \in AnyName /\ st.from \in Nat
BY DEF Stmts

LEMMA SizesAreNat ==
  ASSUME NEW A, NEW st \in Stmts(A)
  PROVE  FixedSize(st) \in Nat /\ StmtSize(st) \in Nat
<1>1. st.args \in Seq(Seq(AnyToken)) /\ Len(st.args) \in Nat
  BY StmtFields
<1>2. Chars(st) \in Seq(AnyToken) /\ Len(Chars(st)) \in Nat
  BY <1>1 DEF Chars
<1>3. Max2(1, Len(st.args)) \in Nat
  BY <1>1 DEF Max2
<1>. DEFINE n == Len(Chars(st))
            m == Max2(1, Len(st.args))
<1>. HIDE DEF n, m
<1>4. FixedSize(st) \in {0, 1, 2, 3, 4, m, 4 * m, n, 1 + n}
  BY DEF FixedSize, LinkageOps, n, m
<1>5. FixedSize(st) \in Nat
  BY <1>2, <1>3, <1>4 DEF n, m
<1>6. st.args # <<>> => Eval(st.args[1], << >>).val \in Int
  BY <1>1, EvalIn DEF AreLabels
<1>7. ASSUME st.op = ".fill" PROVE StmtSize(st) \in Nat
  BY <1>6, <1>7 DEF StmtSize, Bad, Max2
<1>8. ASSUME st.op # ".fill" PROVE StmtSize(st) \in Nat
  BY <1>5, <1>8 DEF StmtSize
<1>. QED BY <1>5, <1>7, <1>8

LEMMA TablesAreLabels ==
  /\ << >> \in LabelTables
  /\ \A m \in LabelTables : AreLabels(m) /\ m = [n \in DOMAIN m |-> m[n]] /\ DOMAIN m \subseteq AnyName
<1>1. << >> \in LabelTables
  BY DEF LabelTables
<1>. QED BY <1>1 DEF LabelTables, AreLabels

LEMMA WithLabelsIn ==
  ASSUME NEW m \in LabelTables, NEW A, NEW st \in Stmts(A), NEW a \in Int
  PROVE  /\ WithLabels(m, st, a) \in LabelTables
         /\ DOMAIN WithLabels(m, st, a) = DOMAIN m \cup Range(st.labels)
         /\ \A n \in DOMAIN m \cup Range(st.labels) :
              WithLabels(m, st, a)[n] = IF n \in Range(st.labels) THEN a ELSE m[n]
<1>1. Range(st.labels) \subseteq AnyName
  BY StmtFields DEF Range
<1>2. DOMAIN m \subseteq AnyName /\ \A n \in DOMAIN m : m[n] \in Int
  BY TablesAreLabels DEF AreLabels
<1>. DEFINE D == DOMAIN m \cup Range(st.labels)
            R == Range(st.labels)
            w == [n \in D |-> IF n \in R THEN a ELSE m[n]]
<1>3. WithLabels(m, st, a) = w
  BY DEF WithLabels
<1>. HIDE DEF R
<1>4. w \in [D -> Int] /\ D \in SUBSET AnyName
  BY <1>1, <1>2 DEF R
<1>5. w \in LabelTables
  BY <1>4 DEF LabelTables
<1>. QED BY <1>3, <1>5 DEF R
-----------------------------------------------------------------------------
(* The first pass. *)

LEMMA AlignUpIn == ASSUME NEW a \in Nat, NEW n \in Int, n >= 1 PROVE AlignUp(a, n) \in Nat /\ AlignUp(a, n) >= a
<1>. DEFINE x == a + n - 1
            q == x \div n
            r == x % n
<1>1. x \in Nat /\ q \in Nat /\ r \in 0..(n - 1) /\ x = n * q + r
  OBVIOUS
<1>2. AlignUp(a, n) = q * n
  BY DEF AlignUp
<1>3. x = a + n - 1
  OBVIOUS
<1>. HIDE DEF x, q, r
<1>4. q * n = x - r
  BY <1>1
<1>5. q * n >= a
  BY <1>1, <1>3, <1>4
<1>. QED BY <1>1, <1>2, <1>3, <1>4, <1>5

LEMMA AssignedIn ==
  ASSUME NEW g \in Assignments
  PROVE  /\ \A sec \in AnyName, addr \in Nat, labels \in LabelTables, sts \in Seq(Stmts(Nat)) :
              \A why \in {"none"} \cup AssignErrors : Assigned(g, sec, addr, labels, sts, why) \in Assignments
         /\ g.addr \in Nat /\ g.sec \in AnyName /\ g.labels \in LabelTables /\ g.stmts \in Seq(Stmts(Nat))
         /\ g.err \in {"none"} \cup AssignErrors
         /\ g = Assigned(g, g.sec, g.addr, g.labels, g.stmts, g.err)
BY DEF Assignments, Assigned

LEMMA PlaceCases ==
  ASSUME NEW g \in Assignments, NEW l, NEW st, NEW labels, NEW value \in Found, NEW object
  PROVE  PlaceFact(g, l, st, labels, value, object)
<1>. DEFINE bad(why) == [g EXCEPT !.err = why]
            at(addr) == [g EXCEPT !.labels = labels, !.stmts = Append(@, st), !.addr = addr]
            org == [g EXCEPT !.labels = labels, !.addr = value.val]
            r == Place(g, l, st, labels, value, object)
            Bad_(why) == Assigned(g, g.sec, g.addr, g.labels, g.stmts, why)
            At_(addr) == Assigned(g, g.sec, addr, labels, Append(g.stmts, st), g.err)
            Org_ == Assigned(g, g.sec, value.val, labels, g.stmts, g.err)
            v == value.val
<1>1. /\ \A why : bad(why) = Bad_(why)
      /\ \A addr : at(addr) = At_(addr)
      /\ org = Org_
  <2>1. g = Assigned(g, g.sec, g.addr, g.labels, g.stmts, g.err)
    BY AssignedIn
  <2>. DEFINE a == g.addr
              s == g.sec
              m == g.labels
              ss == g.stmts
              e == g.err
  <2>2. g = [addr |-> a, sec |-> s, labels |-> m, stmts |-> ss, err |-> e]
    BY <2>1 DEF Assigned
  <2>. HIDE DEF a, s, m, ss, e, v
  <2>3. \A why : bad(why) = [addr |-> a, sec |-> s, labels |-> m, stmts |-> ss, err |-> why]
    BY <2>2
  <2>. DEFINE g1 == [g EXCEPT !.labels = labels]
              g2 == [g1 EXCEPT !.stmts = Append(@, st)]
  <2>6. g1 = [addr |-> a, sec |-> s, labels |-> labels, stmts |-> ss, err |-> e]
    BY <2>2
  <2>7. org = [g1 EXCEPT !.addr = v]
    BY DEF v
  <2>. HIDE DEF g1
  <2>5. org = [addr |-> v, sec |-> s, labels |-> labels, stmts |-> ss, err |-> e]
    <3>. HIDE DEF org
    <3>. QED BY <2>6, <2>7
  <2>8. g2 = [addr |-> a, sec |-> s, labels |-> labels, stmts |-> Append(ss, st), err |-> e]
    <3>. DEFINE more == Append(ss, st)
    <3>1. g2 = [g1 EXCEPT !.stmts = more]
      BY <2>6
    <3>. HIDE DEF g2, more
    <3>2. g2 = [addr |-> a, sec |-> s, labels |-> labels, stmts |-> more, err |-> e]
      BY <2>6, <3>1
    <3>. QED BY <3>2 DEF more
  <2>9. \A addr : at(addr) = [g2 EXCEPT !.addr = addr]
    BY DEF g1
  <2>. HIDE DEF g2, at
  <2>4. \A addr : at(addr) = [addr |-> addr, sec |-> s, labels |-> labels, stmts |-> Append(ss, st), err |-> e]
    BY <2>8, <2>9
  <2>. QED BY <2>3, <2>4, <2>5 DEF Assigned, a, s, m, ss, e, v
<1>2. v \in Int
  BY DEF Found
<1>3. r = CASE l.op = ".org"   -> IF Failed(value) \/ v \notin Word THEN bad(".org") ELSE org
            [] l.op = ".align" -> IF Failed(value) \/ v < 1 THEN bad(".align") ELSE at(AlignUp(g.addr, v))
            [] l.op = ".fill"  -> IF Failed(value) \/ v < 0 THEN bad(".fill") ELSE at(g.addr + v)
            [] l.op = ".base" /\ object -> bad(".base")
            [] l.op \in Strings /\ l.args = <<>> -> bad("no string")
            [] OTHER -> at(g.addr + FixedSize(st))
  BY DEF Place
<1>4. {".org", ".align", ".fill", ".base", "no string"} \subseteq AssignErrors
  BY DEF AssignErrors
<1>5. PlaceFact(g, l, st, labels, value, object)
        <=> \/ \E why \in AssignErrors : r = Bad_(why)
            \/ l.op = ".org" /\ v \in Word /\ r = Org_
            \/ l.op = ".align" /\ ~Failed(value) /\ v >= 1 /\ r = At_(AlignUp(g.addr, v))
            \/ l.op = ".fill" /\ ~Failed(value) /\ v >= 0 /\ r = At_(g.addr + v)
            \/ l.op \notin {".org", ".align", ".fill"} /\ r = At_(g.addr + FixedSize(st))
  BY DEF PlaceFact
<1>. HIDE DEF bad, at, org, r, Bad_, At_, Org_, v
<1>6. CASE l.op = ".org"
  <2>1. r = bad(".org") \/ (v \in Word /\ r = org)
    BY <1>3, <1>6 DEF Strings
  <2>. QED BY <1>1, <1>4, <1>5, <1>6, <2>1
<1>7. CASE l.op = ".align"
  <2>1. r = bad(".align") \/ (~Failed(value) /\ ~(v < 1) /\ r = at(AlignUp(g.addr, v)))
    BY <1>3, <1>7 DEF Strings
  <2>2. ~(v < 1) => v >= 1
    BY <1>2
  <2>. QED BY <1>1, <1>4, <1>5, <1>7, <2>1, <2>2
<1>8. CASE l.op = ".fill"
  <2>1. r = bad(".fill") \/ (~Failed(value) /\ ~(v < 0) /\ r = at(g.addr + v))
    BY <1>3, <1>8 DEF Strings
  <2>2. ~(v < 0) => v >= 0
    BY <1>2
  <2>. QED BY <1>1, <1>4, <1>5, <1>8, <2>1, <2>2
<1>9. CASE l.op \notin {".org", ".align", ".fill"}
  <2>1. r = bad(".base") \/ r = bad("no string") \/ r = at(g.addr + FixedSize(st))
    BY <1>3, <1>9 DEF Strings
  <2>. QED BY <1>1, <1>4, <1>5, <1>9, <2>1
<1>. QED BY <1>6, <1>7, <1>8, <1>9

LEMMA PlaceIn ==
  ASSUME NEW g \in Assignments, NEW l, NEW st \in Stmts(Nat), NEW labels \in LabelTables,
         NEW value \in Found, NEW object
  PROVE  Place(g, l, st, labels, value, object) \in Assignments
<1>. DEFINE r == Place(g, l, st, labels, value, object)
            sts == Append(g.stmts, st)
            v == value.val
<1>1. PlaceFact(g, l, st, labels, value, object)
  BY PlaceCases
<1>2. /\ g.addr \in Nat /\ g.sec \in AnyName /\ g.labels \in LabelTables /\ g.stmts \in Seq(Stmts(Nat))
      /\ g.err \in {"none"} \cup AssignErrors
  BY AssignedIn
<1>3. sts \in Seq(Stmts(Nat)) /\ v \in Int
  BY <1>2 DEF Found
<1>4. \A addr \in Nat, lbs \in LabelTables, ss \in Seq(Stmts(Nat)) :
        \A why \in {"none"} \cup AssignErrors : Assigned(g, g.sec, addr, lbs, ss, why) \in Assignments
  BY <1>2, AssignedIn
<1>5. /\ v \in Word => v \in Nat
      /\ v >= 1 => AlignUp(g.addr, v) \in Nat
      /\ v >= 0 => g.addr + v \in Nat
      /\ g.addr + FixedSize(st) \in Nat
  <2>1. v \in Word => v \in Nat
    <3>1. \A w \in Word : w \in Nat
      BY DEF Word
    <3>. HIDE DEF v
    <3>. QED BY <3>1
  <2>2. v >= 1 => AlignUp(g.addr, v) \in Nat
    BY <1>2, <1>3, AlignUpIn
  <2>3. FixedSize(st) \in Nat
    BY SizesAreNat
  <2>. HIDE DEF v
  <2>. QED BY <1>2, <1>3, <2>1, <2>2, <2>3
<1>6. \/ \E why \in AssignErrors : r = Assigned(g, g.sec, g.addr, g.labels, g.stmts, why)
      \/ \E addr \in Nat : r = Assigned(g, g.sec, addr, labels, g.stmts, g.err)
      \/ \E addr \in Nat : r = Assigned(g, g.sec, addr, labels, sts, g.err)
  <2>. HIDE DEF r, sts, v
  <2>. QED BY <1>1, <1>5 DEF PlaceFact, r, sts, v
<1>. HIDE DEF r, sts
<1>7. r \in Assignments
  BY <1>2, <1>3, <1>4, <1>6
<1>. QED BY <1>7 DEF r

LEMMA ValueFound == ASSUME NEW l \in SourceLine, NEW labels \in LabelTables PROVE ValueOf(l, labels) \in Found
<1>1. Bad("no operand") \in Found
  BY Readings_ DEF EvalErrors
<1>2. AreLabels(labels)
  BY TablesAreLabels
<1>3. l.args # <<>> => l.args[1] \in Seq(AnyToken)
  BY LinesAreWords
<1>4. l.args # <<>> => Eval(l.args[1], labels) \in Found
  BY <1>2, <1>3, EvalIn
<1>. QED BY <1>1, <1>4 DEF ValueOf

LEMMA AssignCases ==
  ASSUME NEW g \in Assignments, NEW l, NEW i, NEW object
  PROVE  AssignFact(g, l, i, object)
<1>. DEFINE r == Assign(g, l, i, object)
            bad(why) == [g EXCEPT !.err = why]
            name == NameIn(l, 1)
            placed == PlacedLine(g, l, i, object)
            new == SectionLine(g, l, i)
            sec == [g EXCEPT !.sec = name, !.stmts = Append(@, new)]
            dup == Range(l.labels) \cap DOMAIN g.labels # {} \/ Cardinality(Range(l.labels)) # Len(l.labels)
            Bad_(why) == Assigned(g, g.sec, g.addr, g.labels, g.stmts, why)
            Sec_ == Assigned(g, name, g.addr, g.labels, Append(g.stmts, new), g.err)
<1>1. (\A why : bad(why) = Bad_(why)) /\ sec = Sec_
  <2>1. g = Assigned(g, g.sec, g.addr, g.labels, g.stmts, g.err)
    BY AssignedIn
  <2>. DEFINE a == g.addr
              s == g.sec
              m == g.labels
              ss == g.stmts
              e == g.err
              g1 == [g EXCEPT !.sec = name]
  <2>2. g = [addr |-> a, sec |-> s, labels |-> m, stmts |-> ss, err |-> e]
    BY <2>1 DEF Assigned
  <2>. HIDE DEF a, s, m, ss, e, name, new
  <2>3. \A why : bad(why) = [addr |-> a, sec |-> s, labels |-> m, stmts |-> ss, err |-> why]
    BY <2>2
  <2>4. g1 = [addr |-> a, sec |-> name, labels |-> m, stmts |-> ss, err |-> e]
    BY <2>2
  <2>5. sec = [g1 EXCEPT !.stmts = Append(@, new)]
    OBVIOUS
  <2>. HIDE DEF g1, sec
  <2>6. sec = [addr |-> a, sec |-> name, labels |-> m, stmts |-> Append(ss, new), err |-> e]
    BY <2>4, <2>5
  <2>. QED BY <2>3, <2>6 DEF Assigned, a, s, m, ss, e
<1>2. r = CASE g.err # "none" -> g
            [] g.err = "none" /\ l.op = ".section" ->
                 IF l.args = <<>> \/ name = "" THEN bad(".section") ELSE sec
            [] g.err = "none" /\ l.op # ".section" /\ dup -> bad("duplicate label")
            [] OTHER -> placed
  BY DEF Assign, PlacedLine, SectionLine
<1>3. {".section", "duplicate label"} \subseteq AssignErrors
  BY DEF AssignErrors
<1>4. AssignFact(g, l, i, object)
        <=> \/ g.err # "none" /\ r = g
            \/ \E why \in AssignErrors : r = Bad_(why)
            \/ /\ g.err = "none" /\ l.op = ".section" /\ l.args # <<>>
               /\ r = Sec_
            \/ /\ g.err = "none" /\ l.op # ".section" /\ Range(l.labels) \cap DOMAIN g.labels = {}
               /\ r = placed
  BY DEF AssignFact
<1>5. ~dup => Range(l.labels) \cap DOMAIN g.labels = {}
  OBVIOUS
<1>. HIDE DEF r, bad, name, placed, new, sec, dup, Bad_, Sec_
<1>6. CASE g.err # "none"
  BY <1>2, <1>4, <1>6
<1>7. CASE g.err = "none" /\ l.op = ".section"
  BY <1>1, <1>2, <1>3, <1>4, <1>7
<1>8. CASE g.err = "none" /\ l.op # ".section"
  <2>1. r = bad("duplicate label") \/ (~dup /\ r = placed)
    BY <1>2, <1>8
  <2>. QED BY <1>1, <1>3, <1>4, <1>5, <1>8, <2>1
<1>. QED BY <1>6, <1>7, <1>8

LEMMA SectionLineIn ==
  ASSUME NEW g \in Assignments, NEW l \in SourceLine, l.args # <<>>, NEW i \in Nat
  PROVE  NameIn(l, 1) \in AnyName /\ SectionLine(g, l, i) \in Stmts(Nat)
<1>1. NameIn(l, 1) \in AnyName
  BY LineIn, NameInTexts DEF AnyName
<1>2. g.addr \in Nat /\ g.sec \in AnyName
  BY AssignedIn
<1>. DEFINE st == Stmt(l, g.addr, g.sec, i)
<1>3. st \in Stmts(Nat)
  BY <1>2, StmtTyped
<1>. HIDE DEF st
<1>4. [st EXCEPT !.sec = NameIn(l, 1)] \in Stmts(Nat)
  BY <1>1, <1>3 DEF Stmts
<1>. QED BY <1>1, <1>4 DEF SectionLine, st

LEMMA AssignIn ==
  ASSUME NEW g \in Assignments, NEW l \in SourceLine, NEW i \in Nat, NEW object
  PROVE  Assign(g, l, i, object) \in Assignments
<1>. DEFINE r == Assign(g, l, i, object)
            st == Stmt(l, g.addr, g.sec, i)
            labels == WithLabels(g.labels, st, g.addr)
<1>1. AssignFact(g, l, i, object)
  BY AssignCases
<1>2. /\ g.addr \in Nat /\ g.sec \in AnyName /\ g.labels \in LabelTables /\ g.stmts \in Seq(Stmts(Nat))
      /\ g.err \in {"none"} \cup AssignErrors
  BY AssignedIn
<1>3. \A sec \in AnyName, ss \in Seq(Stmts(Nat)) :
        \A why \in {"none"} \cup AssignErrors : Assigned(g, sec, g.addr, g.labels, ss, why) \in Assignments
  BY <1>2, AssignedIn
<1>4. PlacedLine(g, l, i, object) \in Assignments
  <2>1. st \in Stmts(Nat)
    BY <1>2, StmtTyped
  <2>. HIDE DEF st
  <2>2. labels \in LabelTables
    <3>1. g.addr \in Int /\ g.labels \in LabelTables
      BY <1>2
    <3>2. WithLabels(g.labels, st, g.addr) \in LabelTables
      BY <2>1, <3>1, WithLabelsIn
    <3>. QED BY <3>2
  <2>. HIDE DEF labels
  <2>3. ValueOf(l, labels) \in Found
    BY <2>2, ValueFound
  <2>4. Place(g, l, st, labels, ValueOf(l, labels), object) \in Assignments
    BY <2>1, <2>2, <2>3, PlaceIn
  <2>. QED BY <2>4 DEF PlacedLine, labels, st
<1>5. l.args # <<>> =>
        /\ NameIn(l, 1) \in AnyName
        /\ Append(g.stmts, SectionLine(g, l, i)) \in Seq(Stmts(Nat))
  BY <1>2, SectionLineIn
<1>6. CASE \E why \in AssignErrors : r = Assigned(g, g.sec, g.addr, g.labels, g.stmts, why)
  <2>. HIDE DEF r
  <2>1. r \in Assignments
    BY <1>2, <1>3, <1>6
  <2>. QED BY <2>1 DEF r
<1>7. CASE /\ g.err = "none" /\ l.op = ".section" /\ l.args # <<>>
           /\ r = Assigned(g, NameIn(l, 1), g.addr, g.labels, Append(g.stmts, SectionLine(g, l, i)), g.err)
  <2>. HIDE DEF r
  <2>1. r \in Assignments
    BY <1>2, <1>3, <1>5, <1>7
  <2>. QED BY <2>1 DEF r
<1>. QED BY <1>1, <1>4, <1>6, <1>7 DEF AssignFact

LEMMA AssignSteps ==
  ASSUME NEW ls \in Seq(SourceLine), NEW object, NEW n \in Nat, n = Len(ls)
  PROVE  AssignRun(ls, object, n)
<1>. DEFINE seq == [i \in 1..n |-> i]
            T == Assignments
            base == Assigning
            op(q, i) == Assign(q, ls[i], i, object)
            G == [z \in (1..n) \X T |-> op(z[2], seq[z[1]])]
            Eq(to) == to = [k \in 0..Len(seq) |-> IF k = 0 THEN base
                             ELSE CHOOSE r \in {op(q, seq[k]) : q \in {to[k - 1]}} : TRUE]
            at == CHOOSE to : Eq(to)
<1>1. \A k \in 1..n, q \in T : Assign(q, ls[k], k, object) \in T
  BY AssignIn
<1>2. base \in T
  BY TablesAreLabels DEF AnyName, Assigning, Assignments
<1>3. Len(seq) = n /\ \A k \in 1..n : seq[k] = k
  OBVIOUS
<1>4. AssignAddresses(ls, object) = at[Len(seq)]
  BY DEF AssignAddresses, Along
<1>5. \A k \in 1..n, q \in T : G[<<k, q>>] = op(q, seq[k]) /\ op(q, seq[k]) = Assign(q, ls[k], k, object) /\ G[<<k, q>>] \in T
  BY <1>1, <1>3
<1>. HIDE DEF G, T, base, seq, op
<1>6. PICK to \in [0..n -> T] : TheFold(to, n, T, base, G)
  BY <1>2, <1>5, FoldAlong
<1>7. \A k \in 1..n : to[k] = op(to[k - 1], seq[k]) /\ to[k - 1] \in T
  BY <1>5, <1>6 DEF TheFold
<1>8. to[0] = base
  BY <1>6 DEF TheFold
<1>9. Eq(to)
  BY <1>3, <1>7, <1>8
<1>. HIDE DEF Eq
<1>10. Eq(at)
  BY <1>9
<1>. HIDE DEF at
<1>11. FollowsFold(at, n, T, base, G)
  <2>1. Len(seq) = n
    BY <1>3
  <2>2. at = [k \in 0..n |-> IF k = 0 THEN base
                           ELSE CHOOSE r \in {op(q, seq[k]) : q \in {at[k - 1]}} : TRUE]
    BY ONLY <2>1, <1>10 DEF Eq
  <2>3. at[0] = base /\ at = [k \in 0..n |-> at[k]]
    BY ONLY <2>2, n \in Nat
  <2>4. \A k \in 1..n : at[k] = op(at[k - 1], seq[k])
    BY ONLY <2>2, n \in Nat
  <2>. QED BY ONLY <2>3, <2>4, <1>5 DEF FollowsFold
<1>12. at = to
  BY <1>6, <1>11 DEF TheFold
<1>13. \A k \in 1..n : to[k] = Assign(to[k - 1], ls[k], k, object)
  BY <1>5, <1>7
<1>. QED BY <1>3, <1>4, <1>8, <1>12, <1>13 DEF T, base, AssignRun

LEMMA AssignAddressesIn ==
  ASSUME NEW ls \in Seq(SourceLine), NEW object
  PROVE  AssignAddresses(ls, object) \in Assignments
<1>. DEFINE n == Len(ls)
<1>1. n \in Nat /\ n \in 0..n /\ n = Len(ls)
  OBVIOUS
<1>. HIDE DEF n
<1>2. AssignRun(ls, object, n)
  BY <1>1, AssignSteps
<1>3. PICK to \in [0..n -> Assignments] : AssignAddresses(ls, object) = to[n]
  BY <1>2 DEF AssignRun
<1>. QED BY <1>1, <1>3
-----------------------------------------------------------------------------
(* Chunks and labels. *)

LEMMA LastFront ==
  ASSUME NEW S, NEW s \in Seq(S), s # <<>>
  PROVE  /\ Last(s) \in S /\ Front(s) \in Seq(S) /\ Len(Front(s)) = Len(s) - 1
         /\ \A k \in 1..(Len(s) - 1) : Front(s)[k] = s[k]
<1>1. Len(s) \in Nat /\ Len(s) >= 1 /\ \A k \in 1..(Len(s) - 1) : s[k] \in S
  OBVIOUS
<1>2. Last(s) \in S
  BY <1>1 DEF Last
<1>3. Front(s) = [k \in 1..(Len(s) - 1) |-> s[k]]
  BY <1>1 DEF Front
<1>. QED BY <1>1, <1>2, <1>3

LEMMA ChunkStepIn ==
  ASSUME NEW S, NEW cs \in Seq(Seq(S)), NEW st \in S
  PROVE  ChunkStep(cs, st) \in Seq(Seq(S))
<1>1. <<st>> \in Seq(S)
  OBVIOUS
<1>2. CASE cs # <<>> /\ Last(Last(cs)).sec = st.sec
  BY <1>2, LastFront DEF ChunkStep
<1>3. CASE ~(cs # <<>> /\ Last(Last(cs)).sec = st.sec)
  BY <1>1, <1>3 DEF ChunkStep
<1>. QED BY <1>2, <1>3

LEMMA ChunkSteps ==
  ASSUME NEW S, NEW sts \in Seq(S), NEW n \in Nat, n = Len(sts)
  PROVE  ChunkRun(sts, S, n)
<1>. DEFINE seq == sts
            T == Seq(Seq(S))
            base == <<>>
            op(q, i) == (IF q # <<>> /\ Last(Last(q)).sec = i.sec THEN Append(Front(q), Append(Last(q), i)) ELSE Append(q, <<i>>))
            G == [z \in (1..n) \X T |-> op(z[2], seq[z[1]])]
            Eq(to) == to = [k \in 0..Len(seq) |-> IF k = 0 THEN base
                             ELSE CHOOSE r \in {op(q, seq[k]) : q \in {to[k - 1]}} : TRUE]
            at == CHOOSE to : Eq(to)
<1>1. \A k \in 1..n, q \in T : (IF q # <<>> /\ Last(Last(q)).sec = sts[k].sec THEN Append(Front(q), Append(Last(q), sts[k])) ELSE Append(q, <<sts[k]>>)) \in T
  <2>1. \A k \in 1..n : sts[k] \in S
    OBVIOUS
  <2>. QED BY <2>1, ChunkStepIn DEF ChunkStep
<1>2. base \in T
  OBVIOUS
<1>3. Len(seq) = n /\ seq = sts
  OBVIOUS
<1>4. Chunks(sts) = at[Len(seq)]
  BY DEF Chunks, Along
<1>5. \A k \in 1..n, q \in T : G[<<k, q>>] = op(q, seq[k]) /\ op(q, seq[k]) = (IF q # <<>> /\ Last(Last(q)).sec = sts[k].sec THEN Append(Front(q), Append(Last(q), sts[k])) ELSE Append(q, <<sts[k]>>)) /\ G[<<k, q>>] \in T
  BY <1>1, <1>3
<1>. HIDE DEF G, T, base, seq, op
<1>6. PICK to \in [0..n -> T] : TheFold(to, n, T, base, G)
  BY <1>2, <1>5, FoldAlong
<1>7. \A k \in 1..n : to[k] = op(to[k - 1], seq[k]) /\ to[k - 1] \in T
  BY <1>5, <1>6 DEF TheFold
<1>8. to[0] = base
  BY <1>6 DEF TheFold
<1>9. Eq(to)
  BY <1>3, <1>7, <1>8
<1>. HIDE DEF Eq
<1>10. Eq(at)
  BY <1>9
<1>. HIDE DEF at
<1>11. FollowsFold(at, n, T, base, G)
  <2>1. Len(seq) = n
    BY <1>3
  <2>2. at = [k \in 0..n |-> IF k = 0 THEN base
                           ELSE CHOOSE r \in {op(q, seq[k]) : q \in {at[k - 1]}} : TRUE]
    BY ONLY <2>1, <1>10 DEF Eq
  <2>3. at[0] = base /\ at = [k \in 0..n |-> at[k]]
    BY ONLY <2>2, n \in Nat
  <2>4. \A k \in 1..n : at[k] = op(at[k - 1], seq[k])
    BY ONLY <2>2, n \in Nat
  <2>. QED BY ONLY <2>3, <2>4, <1>5 DEF FollowsFold
<1>12. at = to
  BY <1>6, <1>11 DEF TheFold
<1>13. \A k \in 1..n : to[k] = (IF to[k - 1] # <<>> /\ Last(Last(to[k - 1])).sec = sts[k].sec THEN Append(Front(to[k - 1]), Append(Last(to[k - 1]), sts[k])) ELSE Append(to[k - 1], <<sts[k]>>))
  BY <1>5, <1>7
<1>. QED BY <1>3, <1>4, <1>8, <1>12, <1>13 DEF T, base, ChunkRun

LEMMA ChunksIn ==
  ASSUME NEW S, NEW sts \in Seq(S)
  PROVE  Chunks(sts) \in Seq(Seq(S))
<1>. DEFINE n == Len(sts)
<1>1. n \in Nat /\ n \in 0..n /\ n = Len(sts)
  OBVIOUS
<1>. HIDE DEF n
<1>2. ChunkRun(sts, S, n)
  BY <1>1, ChunkSteps
<1>3. PICK to \in [0..n -> Seq(Seq(S))] : Chunks(sts) = to[n]
  BY <1>2 DEF ChunkRun
<1>. QED BY <1>1, <1>3

LEMMA LabelSteps ==
  ASSUME NEW sts \in Seq(Stmts(Int)), NEW n \in Nat, n = Len(sts)
  PROVE  LabelRun(sts, n)
<1>. DEFINE seq == sts
            T == LabelTables
            base == << >>
            op(q, i) == WithLabels(q, i, i.addr)
            G == [z \in (1..n) \X T |-> op(z[2], seq[z[1]])]
            Eq(to) == to = [k \in 0..Len(seq) |-> IF k = 0 THEN base
                             ELSE CHOOSE r \in {op(q, seq[k]) : q \in {to[k - 1]}} : TRUE]
            at == CHOOSE to : Eq(to)
<1>1. \A k \in 1..n, q \in T : WithLabels(q, sts[k], sts[k].addr) \in T
  <2>1. \A k \in 1..n : sts[k] \in Stmts(Int)
    OBVIOUS
  <2>2. \A k \in 1..n : sts[k].addr \in Int
    BY <2>1, StmtFields
  <2>. QED BY <2>1, <2>2, WithLabelsIn
<1>2. base \in T
  BY TablesAreLabels
<1>3. Len(seq) = n /\ seq = sts
  OBVIOUS
<1>4. LabelsFrom(sts) = at[Len(seq)]
  BY DEF LabelsFrom, Along
<1>5. \A k \in 1..n, q \in T : G[<<k, q>>] = op(q, seq[k]) /\ op(q, seq[k]) = WithLabels(q, sts[k], sts[k].addr) /\ G[<<k, q>>] \in T
  BY <1>1, <1>3
<1>. HIDE DEF G, T, base, seq, op
<1>6. PICK to \in [0..n -> T] : TheFold(to, n, T, base, G)
  BY <1>2, <1>5, FoldAlong
<1>7. \A k \in 1..n : to[k] = op(to[k - 1], seq[k]) /\ to[k - 1] \in T
  BY <1>5, <1>6 DEF TheFold
<1>8. to[0] = base
  BY <1>6 DEF TheFold
<1>9. Eq(to)
  BY <1>3, <1>7, <1>8
<1>. HIDE DEF Eq
<1>10. Eq(at)
  BY <1>9
<1>. HIDE DEF at
<1>11. FollowsFold(at, n, T, base, G)
  <2>1. Len(seq) = n
    BY <1>3
  <2>2. at = [k \in 0..n |-> IF k = 0 THEN base
                           ELSE CHOOSE r \in {op(q, seq[k]) : q \in {at[k - 1]}} : TRUE]
    BY ONLY <2>1, <1>10 DEF Eq
  <2>3. at[0] = base /\ at = [k \in 0..n |-> at[k]]
    BY ONLY <2>2, n \in Nat
  <2>4. \A k \in 1..n : at[k] = op(at[k - 1], seq[k])
    BY ONLY <2>2, n \in Nat
  <2>. QED BY ONLY <2>3, <2>4, <1>5 DEF FollowsFold
<1>12. at = to
  BY <1>6, <1>11 DEF TheFold
<1>13. \A k \in 1..n : to[k] = WithLabels(to[k - 1], sts[k], sts[k].addr)
  BY <1>5, <1>7
<1>. QED BY <1>3, <1>4, <1>8, <1>12, <1>13 DEF T, base, LabelRun

LEMMA LabelsFromIn ==
  ASSUME NEW sts \in Seq(Stmts(Int))
  PROVE  LabelsFrom(sts) \in LabelTables
<1>. DEFINE n == Len(sts)
<1>1. n \in Nat /\ n \in 0..n /\ n = Len(sts)
  OBVIOUS
<1>. HIDE DEF n
<1>2. LabelRun(sts, n)
  BY <1>1, LabelSteps
<1>3. PICK to \in [0..n -> LabelTables] : LabelsFrom(sts) = to[n]
  BY <1>2 DEF LabelRun
<1>. QED BY <1>1, <1>3
-----------------------------------------------------------------------------
(* Relaxation. *)

LEMMA GrownIn ==
  ASSUME NEW st \in Stmts(Nat), Branch(st), NEW skip \in AnyName
  PROVE  Grown(st, skip) \in Seq(Stmts(Int)) /\ Len(Grown(st, skip)) = 4
<1>. DEFINE of(labels, op, args) == Stmt(Line(labels, op, args), Moved, st.sec, st.from)
<1>1. \A labels \in Seq(AnyName), op \in AnyName, args \in Seq(Seq(AnyToken)) : of(labels, op, args) \in Stmts(Int)
  BY StmtFields DEF Stmt, Line, Stmts, Moved
<1>2. \A name \in AnyName : Id(name) \in AnyToken
  BY DEF Id, AnyToken
<1>3. {"", "bt", "bf", "li", "jalr", "r0", "r4"} \subseteq AnyName
  BY DEF AnyName, Texts
<1>4. st.args[1] \in Seq(AnyToken)
  BY StmtFields DEF Branch
<1>5. st.labels \in Seq(AnyName)
  BY StmtFields
<1>. DEFINE a1 == <<<<Id(skip)>>>>
            a2 == <<<<Id("r4")>>, st.args[1]>>
            a3 == <<<<Id("r0")>>, <<Id("r4")>>>>
            opposite == IF st.op = "bt" THEN "bf" ELSE "bt"
<1>6. a1 \in Seq(Seq(AnyToken)) /\ a2 \in Seq(Seq(AnyToken)) /\ a3 \in Seq(Seq(AnyToken)) /\ opposite \in AnyName
  <2>. DEFINE x == Id(skip)
              y == Id("r4")
              z == Id("r0")
              t == st.args[1]
  <2>1. x \in AnyToken /\ y \in AnyToken /\ z \in AnyToken
    BY <1>2, <1>3
  <2>2. t \in Seq(AnyToken)
    BY <1>4
  <2>. HIDE DEF x, y, z, t
  <2>3. <<x>> \in Seq(AnyToken) /\ <<y>> \in Seq(AnyToken) /\ <<z>> \in Seq(AnyToken)
    BY <2>1
  <2>4. <<<<x>>>> \in Seq(Seq(AnyToken)) /\ <<<<y>>, t>> \in Seq(Seq(AnyToken)) /\ <<<<z>>, <<y>>>> \in Seq(Seq(AnyToken))
    BY <2>2, <2>3
  <2>5. opposite \in AnyName
    BY <1>3
  <2>. QED BY <2>4, <2>5 DEF x, y, z, t
<1>7. <<>> \in Seq(AnyName) /\ <<skip>> \in Seq(AnyName) /\ <<>> \in Seq(Seq(AnyToken))
  OBVIOUS
<1>8. Grown(st, skip) = <<of(st.labels, opposite, a1), of(<<>>, "li", a2), of(<<>>, "jalr", a3), of(<<skip>>, "", <<>>)>>
  BY DEF Grown
<1>. HIDE DEF of, a1, a2, a3, opposite
<1>9. /\ of(st.labels, opposite, a1) \in Stmts(Int) /\ of(<<>>, "li", a2) \in Stmts(Int)
      /\ of(<<>>, "jalr", a3) \in Stmts(Int) /\ of(<<skip>>, "", <<>>) \in Stmts(Int)
  BY <1>1, <1>3, <1>5, <1>6, <1>7
<1>. DEFINE s1 == of(st.labels, opposite, a1)
            s2 == of(<<>>, "li", a2)
            s3 == of(<<>>, "jalr", a3)
            s4 == of(<<skip>>, "", <<>>)
<1>10. s1 \in Stmts(Int) /\ s2 \in Stmts(Int) /\ s3 \in Stmts(Int) /\ s4 \in Stmts(Int)
       /\ Grown(st, skip) = <<s1, s2, s3, s4>>
  BY <1>8, <1>9
<1>. HIDE DEF s1, s2, s3, s4
<1>. QED BY <1>10

LEMMA GrowIn ==
  ASSUME NEW sts \in Seq(Stmts(Nat)), NEW bad \in SUBSET (1..Len(sts)), \A i \in bad : Branch(sts[i]), NEW n \in Nat
  PROVE  Grow(sts, bad, n) \in Seq(Stmts(Int)) /\ Cardinality(bad) \in Nat
<1>1. Len(sts) \in Nat /\ \A i \in 1..Len(sts) : sts[i] \in Stmts(Nat) /\ sts[i] \in Stmts(Int)
  BY StmtsWider
<1>2. \A S \in SUBSET bad : Cardinality(S) \in Nat
  <2>1. IsFiniteSet(1..Len(sts))
    BY <1>1, FS_Interval
  <2>. QED BY <2>1, FS_Subset, FS_CardinalityType
<1>. DEFINE after(i) == {j \in bad : j > i}
            at(i) == IF i \in bad THEN Grown(sts[i], SkipLabel(n + Cardinality({j \in bad : j > i}))) ELSE <<sts[i]>>
            ss == [i \in 1..Len(sts) |-> at(i)]
<1>3. ASSUME NEW i \in 1..Len(sts) PROVE at(i) \in Seq(Stmts(Int))
  <2>1. Cardinality(after(i)) \in Nat
    BY <1>2
  <2>. DEFINE c == Cardinality(after(i))
  <2>2. n + c \in Nat
    <3>. HIDE DEF c
    <3>1. c \in Nat
      BY <2>1 DEF c
    <3>. QED BY <3>1
  <2>3. SkipLabel(n + c) \in AnyName
    <3>. HIDE DEF c
    <3>. QED BY <2>2 DEF AnyName
  <2>4. at(i) = IF i \in bad THEN Grown(sts[i], SkipLabel(n + c)) ELSE <<sts[i]>>
    OBVIOUS
  <2>. HIDE DEF c, at
  <2>5. CASE i \in bad
    BY <1>1, <2>3, <2>4, <2>5, GrownIn
  <2>6. CASE i \notin bad
    BY <1>1, <2>4, <2>6
  <2>. QED BY <2>5, <2>6
<1>4. Grow(sts, bad, n) = FlattenSeq(ss)
  BY DEF Grow
<1>. HIDE DEF at
<1>5. ss \in Seq(Seq(Stmts(Int)))
  BY <1>1, <1>3
<1>. HIDE DEF ss
<1>. QED BY <1>2, <1>4, <1>5, FlattenIn

LEMMA RecomputeStepIn ==
  ASSUME NEW r \in Recomputed, NEW st \in Stmts(Int)
  PROVE  RecomputeStep(r, st) \in Recomputed
<1>. DEFINE a == Max2(r.addr, st.addr)
<1>1. r.addr \in Nat /\ r.out \in Seq(Stmts(Nat))
  BY DEF Recomputed
<1>2. a \in Nat
  BY <1>1, StmtFields DEF Max2
<1>3. [st EXCEPT !.addr = a] \in Stmts(Nat)
  <2>. HIDE DEF a
  <2>. QED BY <1>2 DEF Stmts
<1>4. a + StmtSize(st) \in Nat
  BY <1>2, SizesAreNat
<1>5. Append(r.out, [st EXCEPT !.addr = a]) \in Seq(Stmts(Nat))
  <2>. HIDE DEF a
  <2>. QED BY <1>1, <1>3
<1>6. RecomputeStep(r, st) = [addr |-> a + StmtSize(st), out |-> Append(r.out, [st EXCEPT !.addr = a])]
  BY DEF RecomputeStep
<1>. HIDE DEF a
<1>. QED BY <1>4, <1>5, <1>6 DEF Recomputed

LEMMA RecomputeSteps ==
  ASSUME NEW sts \in Seq(Stmts(Int)), NEW n \in Nat, n = Len(sts)
  PROVE  RecomputeRun(sts, n)
<1>. DEFINE seq == sts
            T == Recomputed
            base == [addr |-> 0, out |-> <<>>]
            op(q, i) == RecomputeStep(q, i)
            G == [z \in (1..n) \X T |-> op(z[2], seq[z[1]])]
            Eq(to) == to = [k \in 0..Len(seq) |-> IF k = 0 THEN base
                             ELSE CHOOSE r \in {op(q, seq[k]) : q \in {to[k - 1]}} : TRUE]
            at == CHOOSE to : Eq(to)
<1>1. \A k \in 1..n, q \in T : RecomputeStep(q, sts[k]) \in T
  BY RecomputeStepIn
<1>2. base \in T
  BY DEF Recomputed
<1>3. Len(seq) = n /\ seq = sts
  OBVIOUS
<1>4. Recomputing(sts) = at[Len(seq)]
  BY DEF Recomputing, RecomputeStep, Along
<1>5. \A k \in 1..n, q \in T : G[<<k, q>>] = op(q, seq[k]) /\ op(q, seq[k]) = RecomputeStep(q, sts[k]) /\ G[<<k, q>>] \in T
  BY <1>1, <1>3
<1>. HIDE DEF G, T, base, seq, op
<1>6. PICK to \in [0..n -> T] : TheFold(to, n, T, base, G)
  BY <1>2, <1>5, FoldAlong
<1>7. \A k \in 1..n : to[k] = op(to[k - 1], seq[k]) /\ to[k - 1] \in T
  BY <1>5, <1>6 DEF TheFold
<1>8. to[0] = base
  BY <1>6 DEF TheFold
<1>9. Eq(to)
  BY <1>3, <1>7, <1>8
<1>. HIDE DEF Eq
<1>10. Eq(at)
  BY <1>9
<1>. HIDE DEF at
<1>11. FollowsFold(at, n, T, base, G)
  <2>1. Len(seq) = n
    BY <1>3
  <2>2. at = [k \in 0..n |-> IF k = 0 THEN base
                           ELSE CHOOSE r \in {op(q, seq[k]) : q \in {at[k - 1]}} : TRUE]
    BY ONLY <2>1, <1>10 DEF Eq
  <2>3. at[0] = base /\ at = [k \in 0..n |-> at[k]]
    BY ONLY <2>2, n \in Nat
  <2>4. \A k \in 1..n : at[k] = op(at[k - 1], seq[k])
    BY ONLY <2>2, n \in Nat
  <2>. QED BY ONLY <2>3, <2>4, <1>5 DEF FollowsFold
<1>12. at = to
  BY <1>6, <1>11 DEF TheFold
<1>13. \A k \in 1..n : to[k] = RecomputeStep(to[k - 1], sts[k])
  BY <1>5, <1>7
<1>. QED BY <1>3, <1>4, <1>8, <1>12, <1>13 DEF T, base, RecomputeRun

LEMMA RecomputeIn ==
  ASSUME NEW sts \in Seq(Stmts(Int))
  PROVE  Recompute(sts) \in Seq(Stmts(Nat))
<1>. DEFINE n == Len(sts)
<1>1. n \in Nat /\ n \in 0..n /\ n = Len(sts)
  OBVIOUS
<1>. HIDE DEF n
<1>2. RecomputeRun(sts, n)
  BY <1>1, RecomputeSteps
<1>3. PICK to \in [0..n -> Recomputed] : Recomputing(sts) = to[n]
  BY <1>2 DEF RecomputeRun
<1>4. Recomputing(sts) \in Recomputed
  BY <1>1, <1>3
<1>5. Recompute(sts) = Recomputing(sts).out
  BY DEF Recompute, Recomputing
<1>. QED BY <1>4, <1>5 DEF Recomputed

LEMMA ViolationsAre ==
  ASSUME NEW sts
  PROVE  Violations(sts) \in SUBSET (1..Len(sts)) /\ \A i \in Violations(sts) : Branch(sts[i])
BY DEF Violations
-----------------------------------------------------------------------------
(* Encoding: an error is one of these, and words are numbers. *)

LEMMA CodesIn ==
  /\ \A ws \in Seq(Int) : Code(ws) \in Coded
  /\ \A why \in EncodeErrors : NoCode(why) \in Coded
  /\ \A w \in Int : <<w>> \in Seq(Int) /\ Code(<<w>>) \in Coded
  /\ \A v, w \in Int : Code(<<v, w>>) \in Coded
  /\ Code(<<>>) \in Coded
<1>1. \A ws \in Seq(Int) : Code(ws) \in Coded
  BY DEF Code, Coded
<1>2. ASSUME NEW why \in EncodeErrors PROVE NoCode(why) \in Coded
  BY DEF NoCode, Coded
<1>3. /\ \A w \in Int : <<w>> \in Seq(Int)
      /\ \A v, w \in Int : <<v, w>> \in Seq(Int)
      /\ <<>> \in Seq(Int)
  OBVIOUS
<1>. QED BY <1>1, <1>2, <1>3

LEMMA WordsAreInt ==
  /\ \A op, rd, ra, rb \in Int : R3(op, rd, ra, rb) \in Int
  /\ \A op, rd, imm \in Int : RI(op, rd, imm) \in Int
  /\ \A v \in Int : v % Space \in Int /\ v % Space \in Word /\ (v % Space) \div 64 \in Int /\ (v % Space) % 64 \in Int
BY DEF R3, RI, Space, Word

LEMMA OpsAre ==
  /\ DOMAIN OpR3 = {"and", "add", "addc", "sub"}
  /\ DOMAIN OpSpec = {"jalr", "ror", "rol", "lwr", "swr"}
  /\ DOMAIN OpRI = {"lui", "addi", "subi"}
  /\ DOMAIN Arity = {"nop", "clrt", "halt", "ret", "set", "test", "clr", "mov", "neg", "not", "or", "xor", "and",
                     "add", "addc", "sub", "jalr", "ror", "rol", "lwr", "swr", "lui", "addi", "subi", "li", "bt", "bf"}
  /\ \A o \in DOMAIN OpR3 : OpR3[o] \in Int
  /\ \A o \in DOMAIN OpSpec : OpSpec[o] \in Int
  /\ \A o \in DOMAIN OpRI : OpRI[o] \in Int
  /\ \A o \in DOMAIN Registers : Registers[o] \in Int
BY DEF OpR3, OpSpec, OpRI, Arity, AND, ADD, ADDC, SUB, JALR, ROR, ROL, LWR, SWR, LUI, ADDI, SUBI, Registers

\* An instruction of registers only is one word, or three or four.
LEMMA OneWordOp ==
  ASSUME NEW op \in DOMAIN Arity \ {"or", "xor", "li", "bt", "bf"}, op \notin DOMAIN OpRI, NEW r,
         \A k \in 1..Arity[op] : r[k] \in Int
  PROVE  \E w \in Int : RegWords(op, r) = <<w>>
<1>1. \A o, d, a, b \in Int : R3(o, d, a, b) \in Int
  BY WordsAreInt
<1>2. 0 \in Int /\ 5 \in Int /\ 7 \in Int /\ ADDC \in Int /\ SPEC \in Int /\ SUB \in Int /\ AND \in Int /\ JALR \in Int /\ Halt \in Int
  BY DEF ADDC, SPEC, SUB, AND, JALR, Halt
<1>3. op \notin {"or", "xor"}
  OBVIOUS
<1>4. op \in {"nop", "clrt", "halt", "ret", "set", "test", "clr", "mov", "neg", "not"} \cup DOMAIN OpR3 \cup DOMAIN OpSpec
  BY OpsAre
<1>5. CASE op \in {"nop", "clrt", "halt", "ret", "set"}
  <2>1. \/ RegWords(op, r) = <<0>> \/ RegWords(op, r) = <<R3(ADDC, 0, 0, 0)>> \/ RegWords(op, r) = <<Halt>>
        \/ RegWords(op, r) = <<R3(SPEC, 0, 5, JALR)>> \/ RegWords(op, r) = <<R3(SUB, 0, 0, 7)>>
    BY <1>5, OpsAre DEF RegWords
  <2>2. R3(ADDC, 0, 0, 0) \in Int /\ R3(SPEC, 0, 5, JALR) \in Int /\ R3(SUB, 0, 0, 7) \in Int
    BY ONLY <1>1, <1>2
  <2>. QED BY <1>2, <2>1, <2>2
<1>6. CASE op \in {"test", "clr"}
  <2>1. r[1] \in Int
    BY <1>6 DEF Arity
  <2>2. RegWords(op, r) = <<R3(SUB, 0, 0, r[1])>> \/ RegWords(op, r) = <<R3(AND, r[1], 0, 0)>>
    BY <1>6, OpsAre DEF RegWords
  <2>3. R3(SUB, 0, 0, r[1]) \in Int /\ R3(AND, r[1], 0, 0) \in Int
    BY ONLY <1>1, <1>2, <2>1
  <2>. QED BY <2>2, <2>3
<1>7. CASE op \in {"mov", "neg", "not"}
  <2>1. r[1] \in Int /\ r[2] \in Int
    BY <1>7 DEF Arity
  <2>2. \/ RegWords(op, r) = <<R3(AND, r[1], r[2], 7)>> \/ RegWords(op, r) = <<R3(SUB, r[1], 0, r[2])>>
        \/ RegWords(op, r) = <<R3(SUB, r[1], 7, r[2])>>
    BY <1>7, OpsAre DEF RegWords
  <2>3. R3(AND, r[1], r[2], 7) \in Int /\ R3(SUB, r[1], 0, r[2]) \in Int /\ R3(SUB, r[1], 7, r[2]) \in Int
    BY ONLY <1>1, <1>2, <2>1
  <2>. QED BY <2>2, <2>3
<1>8. CASE op \in DOMAIN OpSpec
  <2>1. r[1] \in Int /\ r[2] \in Int
    BY <1>8, OpsAre DEF Arity
  <2>2. RegWords(op, r) = <<R3(SPEC, r[1], r[2], OpSpec[op])>>
    BY <1>8, OpsAre DEF RegWords
  <2>3. R3(SPEC, r[1], r[2], OpSpec[op]) \in Int
    BY <1>1, <1>2, <1>8, <2>1, OpsAre
  <2>. QED BY <2>2, <2>3
<1>9. CASE op \in DOMAIN OpR3
  <2>1. r[1] \in Int /\ r[2] \in Int /\ r[3] \in Int
    BY <1>9, OpsAre DEF Arity
  <2>2. RegWords(op, r) = <<R3(OpR3[op], r[1], r[2], r[3])>>
    BY <1>9, OpsAre DEF RegWords
  <2>3. R3(OpR3[op], r[1], r[2], r[3]) \in Int
    BY <1>1, <1>2, <1>9, <2>1, OpsAre
  <2>. QED BY <2>2, <2>3
<1>. QED BY <1>4, <1>5, <1>6, <1>7, <1>8, <1>9

LEMMA RegWordsIn ==
  ASSUME NEW op \in DOMAIN Arity \ {"li", "bt", "bf"}, op \notin DOMAIN OpRI, NEW r,
         \A k \in 1..Arity[op] : r[k] \in Int
  PROVE  RegWords(op, r) \in Seq(Int)
<1>1. CASE op \notin {"or", "xor"}
  <2>1. PICK w \in Int : RegWords(op, r) = <<w>>
    BY <1>1, OneWordOp
  <2>. QED BY <2>1
<1>2. CASE op \in {"or", "xor"}
  <2>1. r[1] \in Int /\ r[2] \in Int /\ r[3] \in Int
    BY <1>2 DEF Arity
  <2>. DEFINE a == R3(AND, 4, r[2], r[3])
              b == R3(ADD, r[1], r[2], r[3])
              c == R3(SUB, r[1], r[1], 4)
  <2>2. a \in Int /\ b \in Int /\ c \in Int
    <3>1. 4 \in Int /\ AND \in Int /\ ADD \in Int /\ SUB \in Int
      BY DEF AND, ADD, SUB
    <3>. QED BY ONLY <2>1, <3>1, WordsAreInt
  <2>3. RegWords(op, r) = <<a, b, c>> \o (IF op = "xor" THEN <<c>> ELSE <<>>)
    BY <1>2, OpsAre DEF RegWords
  <2>. HIDE DEF a, b, c
  <2>4. <<a, b, c>> \in Seq(Int) /\ <<c>> \in Seq(Int) /\ <<>> \in Seq(Int)
    BY <2>2
  <2>. QED BY <2>3, <2>4
<1>. QED BY <1>1, <1>2

LEMMA BranchWordIn == ASSUME NEW op, NEW off \in Int PROVE BranchWord(op, off) \in Coded
<1>. DEFINE o == IF op = "bf" THEN LUI ELSE ADDI
            d == IF off < 0 THEN 7 ELSE 0
            i == off % 64
<1>1. o \in Int /\ d \in Int /\ i \in Int
  BY DEF LUI, ADDI
<1>2. BranchWord(op, off) = IF ~InReach(off) THEN NoCode("branch range") ELSE Code(<<RI(o, d, i)>>)
  BY DEF BranchWord
<1>. HIDE DEF o, d, i
<1>3. RI(o, d, i) \in Int
  BY <1>1, WordsAreInt
<1>4. "branch range" \in EncodeErrors
  BY DEF EncodeErrors
<1>. QED BY <1>2, <1>3, <1>4, CodesIn

LEMMA ImmediatesIn ==
  ASSUME NEW v \in Found, NEW rd \in Int
  PROVE  /\ \A op \in DOMAIN OpRI : RI_Word(op, rd, v) \in Coded
         /\ LoadWords(rd, v) \in Coded
<1>1. v.val \in Int /\ v.val % Space \in Int /\ (v.val % Space) \div 64 \in Int /\ (v.val % Space) % 64 \in Int
  BY WordsAreInt DEF Found
<1>2. "immediate" \in EncodeErrors /\ "li" \in EncodeErrors /\ LUI \in Int /\ ADDI \in Int
  BY DEF EncodeErrors, LUI, ADDI
<1>3. ASSUME NEW op \in DOMAIN OpRI PROVE RI_Word(op, rd, v) \in Coded
  <2>1. RI(OpRI[op], rd, v.val) \in Int
    BY <1>1, OpsAre, WordsAreInt
  <2>2. RI_Word(op, rd, v) = NoCode("immediate") \/ RI_Word(op, rd, v) = Code(<<RI(OpRI[op], rd, v.val)>>)
    BY DEF RI_Word
  <2>. QED BY <1>2, <2>1, <2>2, CodesIn
<1>. DEFINE a == RI(LUI, rd, (v.val % Space) \div 64)
            b == RI(ADDI, rd, (v.val % Space) % 64)
            off == rd = 0 \/ v.val \notin -2048..4095
<1>4. a \in Int /\ b \in Int
  BY <1>1, <1>2, WordsAreInt
<1>6. LoadWords(rd, v) = IF off THEN NoCode("li") ELSE Code(<<a, b>>)
  BY Zenon DEF LoadWords
<1>. HIDE DEF a, b, off
<1>5. LoadWords(rd, v) = NoCode("li") \/ LoadWords(rd, v) = Code(<<a, b>>)
  BY ONLY <1>6
<1>. QED BY <1>2, <1>3, <1>4, <1>5, CodesIn

LEMMA OperandsIn ==
  ASSUME NEW A, NEW st \in Stmts(A), NEW labels, AreLabels(labels)
  PROVE  /\ Len(st.args) \in Nat
         /\ \A k \in 1..Len(st.args) : st.args[k] \in Seq(AnyToken)
         /\ \A k \in 1..Len(st.args) : Eval(st.args[k], labels) \in Found
BY StmtFields, EvalIn

LEMMA InstructionIn ==
  ASSUME NEW A, NEW st \in Stmts(A), A \subseteq Int, NEW labels, AreLabels(labels), st.op \in DOMAIN Arity
  PROVE  Instruction(st, labels) \in Coded
<1>. DEFINE n == RegOperands(st.op)
            r == [k \in 1..n |-> Registers[st.args[k][1].sym]]
            v == Eval(st.args[n + 1], labels)
            i == Instruction(st, labels)
            odd == \E k \in 1..n : ~IsReg(st.args[k])
<1>1. Arity[st.op] \in Nat /\ n \in Nat
  BY DEF Arity, RegOperands, OpRI
<1>2. i = IF Len(st.args) # Arity[st.op] THEN NoCode("operands")
          ELSE IF odd THEN NoCode("register")
          ELSE IF n = Len(st.args)
               THEN IF st.op \in {"or", "xor"} /\ r[1] = 4 THEN NoCode("scratch register")
                    ELSE Code(RegWords(st.op, r))
          ELSE IF Failed(v) THEN NoCode("operand")
          ELSE CASE st.op \in DOMAIN OpRI    -> RI_Word(st.op, r[1], v)
                 [] st.op = "li"             -> LoadWords(r[1], v)
                 [] st.op \in {"bt", "bf"}   -> BranchWord(st.op, BranchOperand(st, v))
  BY DEF Instruction
<1>3. {"operands", "register", "scratch register", "operand"} \subseteq EncodeErrors
  BY DEF EncodeErrors
<1>4. ~odd => \A k \in 1..n : r[k] \in Int
  BY OpsAre DEF IsReg
<1>5. n = Arity[st.op] => st.op \in DOMAIN Arity \ {"li", "bt", "bf"} /\ st.op \notin DOMAIN OpRI
  BY OpsAre DEF RegOperands, Arity
<1>6. /\ st.op \in DOMAIN OpRI \cup {"li"} => n = 1 /\ Arity[st.op] = 2
      /\ st.op \in {"bt", "bf"} => n = 0 /\ Arity[st.op] = 1
      /\ st.op \notin DOMAIN OpRI \cup {"li", "bt", "bf"} => n = Arity[st.op]
  BY OpsAre DEF RegOperands, Arity
<1>7. st.addr \in Int
  BY StmtFields
<1>. HIDE DEF i, r, odd, n
<1>8. CASE Len(st.args) # Arity[st.op] \/ odd
  BY <1>2, <1>3, <1>8, CodesIn DEF i
<1>9. CASE Len(st.args) = Arity[st.op] /\ ~odd /\ n = Len(st.args)
  <2>1. RegWords(st.op, r) \in Seq(Int)
    <3>. DEFINE op == st.op
    <3>1. op \in DOMAIN Arity \ {"li", "bt", "bf"} /\ op \notin DOMAIN OpRI /\ \A k \in 1..Arity[op] : r[k] \in Int
      BY <1>4, <1>5, <1>9
    <3>. HIDE DEF op
    <3>2. RegWords(op, r) \in Seq(Int)
      BY <3>1, RegWordsIn
    <3>. QED BY <3>2 DEF op
  <2>. QED BY <1>2, <1>3, <1>9, <2>1, CodesIn DEF i
<1>10. CASE Len(st.args) = Arity[st.op] /\ ~odd /\ n # Len(st.args)
  <2>1. v \in Found
    <3>1. n + 1 \in 1..Len(st.args)
      BY <1>6, <1>10
    <3>. DEFINE m == n + 1
    <3>. HIDE DEF m
    <3>2. Eval(st.args[m], labels) \in Found
      BY <3>1, OperandsIn DEF m
    <3>. QED BY <3>2 DEF m
  <2>. HIDE DEF v
  <2>2. CASE Failed(v)
    BY <1>2, <1>3, <1>10, <2>2, CodesIn DEF i
  <2>3. CASE ~Failed(v) /\ st.op \in DOMAIN OpRI
    <3>1. r[1] \in Int
      BY <1>4, <1>6, <1>10, <2>3
    <3>2. i = RI_Word(st.op, r[1], v)
      BY <1>2, <1>10, <2>3, OpsAre
    <3>. QED BY <2>1, <2>3, <3>1, <3>2, ImmediatesIn DEF i
  <2>4. CASE ~Failed(v) /\ st.op = "li"
    <3>1. r[1] \in Int
      BY <1>4, <1>6, <1>10, <2>4
    <3>2. i = LoadWords(r[1], v)
      BY <1>2, <1>10, <2>4, OpsAre
    <3>. QED BY <2>1, <3>1, <3>2, ImmediatesIn DEF i
  <2>5. CASE ~Failed(v) /\ st.op \in {"bt", "bf"}
    <3>. DEFINE off == BranchOperand(st, v)
    <3>1. off \in Int
      BY <1>7, <2>1 DEF Found, BranchOperand
    <3>2. i = BranchWord(st.op, off)
      BY <1>2, <1>10, <2>5, OpsAre
    <3>. HIDE DEF off
    <3>. QED BY <3>1, <3>2, BranchWordIn DEF i
  <2>. QED BY <1>6, <1>10, <2>2, <2>3, <2>4, <2>5
<1>. QED BY <1>8, <1>9, <1>10

LEMMA SixbitIn == ASSUME NEW ch \in Int PROVE CX!Encode(ch) \in Int
BY DEF CX!Encode, CX!NoChar

LEMMA DirectiveIn ==
  ASSUME NEW A, NEW st \in Stmts(A), A \subseteq Int, NEW labels, AreLabels(labels)
  PROVE  Directive(st, labels) \in Coded
<1>. DEFINE bound == Len(st.args)
            vs == [k \in 1..bound |-> Eval(st.args[k], labels)]
            chars == [k \in 1..Len(Chars(st)) |-> Chars(st)[k].num]
            fails(n) == \E k \in 1..n : Failed(vs[k])
            sixbits == [k \in DOMAIN chars |-> CX!Encode(chars[k])]
            words == [k \in DOMAIN vs |-> vs[k].val % Space]
            fours == [k \in DOMAIN vs |-> [j \in 1..4 |-> st.args[k][j].num]]
            filling == [k \in 1..vs[1].val |-> IF Len(vs) = 2 THEN vs[2].val % Space ELSE 0]
            padding == [k \in 1..((-st.addr) % vs[1].val) |-> 0]
            d == Directive(st, labels)
            bad == \E why \in EncodeErrors : d = NoCode(why)
<1>1. bound \in Nat /\ vs \in Seq(Found) /\ Len(vs) = bound /\ DOMAIN vs = 1..bound
  BY OperandsIn
<1>2. \A k \in 1..bound : vs[k].val \in Int
  BY <1>1 DEF Found
<1>3. chars \in Seq(Int) /\ chars \o <<0>> \in Seq(Int)
  <2>1. Chars(st) \in Seq(AnyToken)
    BY <1>1, OperandsIn DEF Chars
  <2>2. \A t \in AnyToken : t.num \in Int
    BY DEF AnyToken
  <2>. DEFINE cs == Chars(st)
  <2>. HIDE DEF cs
  <2>3. cs \in Seq(AnyToken)
    BY <2>1 DEF cs
  <2>4. [k \in 1..Len(cs) |-> cs[k].num] \in Seq(Int)
    BY <2>2, <2>3
  <2>5. chars \in Seq(Int)
    BY <2>4 DEF cs
  <2>. HIDE DEF chars
  <2>. QED BY <2>5
<1>4. sixbits \in Seq(Int)
  <2>. HIDE DEF chars
  <2>1. \A k \in DOMAIN chars : chars[k] \in Int
    BY <1>3
  <2>2. \A k \in DOMAIN chars : CX!Encode(chars[k]) \in Int
    BY <2>1, SixbitIn
  <2>. QED BY <1>3, <2>2
<1>5. words \in Seq(Int)
  <2>. HIDE DEF vs
  <2>1. \A k \in 1..bound : vs[k].val % Space \in Int
    BY <1>2, WordsAreInt
  <2>. QED BY <1>1, <2>1
<1>6. (\A k \in DOMAIN vs : Len(st.args[k]) = 4) => FlattenSeq(fours) \in Seq(Int)
  <2>. SUFFICES ASSUME \A k \in DOMAIN vs : Len(st.args[k]) = 4 PROVE FlattenSeq(fours) \in Seq(Int)
    OBVIOUS
  <2>1. ASSUME NEW k \in 1..bound PROVE [j \in 1..4 |-> st.args[k][j].num] \in Seq(Int)
    <3>1. st.args[k] \in Seq(AnyToken) /\ Len(st.args[k]) = 4
      BY <1>1, OperandsIn
    <3>2. \A t \in AnyToken : t.num \in Int
      BY DEF AnyToken
    <3>3. \A j \in 1..4 : st.args[k][j] \in AnyToken
      BY <3>1
    <3>. QED BY <3>2, <3>3
  <2>2. fours \in Seq(Seq(Int))
    BY <1>1, <2>1
  <2>. HIDE DEF fours
  <2>. QED BY <2>2, FlattenIn
<1>7. bound \in 1..2 /\ vs[1].val >= 0 => filling \in Seq(Int)
  <2>. SUFFICES ASSUME bound \in 1..2, vs[1].val >= 0 PROVE filling \in Seq(Int)
    OBVIOUS
  <2>. DEFINE m == vs[1].val
              w == IF Len(vs) = 2 THEN vs[2].val % Space ELSE 0
  <2>1. m \in Nat
    <3>0. 1 \in 1..bound
      <4>. HIDE DEF bound, vs, filling, m, w
      <4>. QED OBVIOUS
    <3>1. vs[1].val \in Int
      BY ONLY <1>2, <3>0
    <3>. HIDE DEF vs
    <3>. QED BY <3>1
  <2>2. w \in Int
    <3>0. bound = 2 => 2 \in 1..bound
      <4>. HIDE DEF bound, vs, filling, m, w
      <4>. QED OBVIOUS
    <3>1. bound = 2 => vs[2].val \in Int
      BY ONLY <1>2, <3>0
    <3>. DEFINE x == vs[2].val
    <3>2. bound = 2 => x \in Int
      BY <3>1
    <3>3. Len(vs) = 2 => bound = 2
      BY <1>1
    <3>. HIDE DEF vs, x, bound
    <3>4. Len(vs) = 2 => x % Space \in Int
      BY <3>2, <3>3, WordsAreInt
    <3>. QED BY <3>4 DEF x
  <2>3. filling = [k \in 1..m |-> w]
    OBVIOUS
  <2>. HIDE DEF m, w, filling
  <2>. QED BY <2>1, <2>2, <2>3
<1>8. bound # 0 /\ vs[1].val >= 1 => padding \in Seq(Int)
  <2>. SUFFICES ASSUME bound # 0, vs[1].val >= 1 PROVE padding \in Seq(Int)
    OBVIOUS
  <2>. DEFINE m == vs[1].val
              a == -st.addr
              p == a % m
  <2>1. m \in Int /\ m >= 1 /\ a \in Int
    <3>0. 1 \in 1..bound
      BY <1>1
    <3>1. vs[1].val \in Int
      BY ONLY <1>2, <3>0
    <3>2. st.addr \in Int
      BY StmtFields
    <3>. HIDE DEF vs
    <3>. QED BY <3>1, <3>2
  <2>. HIDE DEF m, a
  <2>2. p \in Nat
    BY <2>1
  <2>3. padding = [k \in 1..p |-> 0]
    BY DEF m, a
  <2>. HIDE DEF p, padding
  <2>. QED BY <2>2, <2>3
<1>9. /\ d = Directive(st, labels)
      /\ LET g(why) == NoCode(why)
         IN d = CASE st.op \in {"", ".section"} \cup LinkageOps -> Code(<<>>)
        [] st.op = ".str"    -> Code(chars)
        [] st.op = ".strz"   -> Code(chars \o <<0>>)
        [] st.op = ".sixbit" -> IF \E k \in DOMAIN chars : CX!Encode(chars[k]) = CX!NoChar
                                THEN g("sixbit") ELSE Code(sixbits)
        [] st.op = ".base"   -> IF \/ Len(vs) # 2 \/ vs[2] \notin {Got(w, vs[2].pos) : w \in Word}
                                   \/ ~IsReg(st.args[1]) \/ st.args[1][1].sym \in {"r0", "r7"}
                                THEN g(".base") ELSE Code(<<>>)
        [] st.op = ".word"   -> IF vs = <<>> \/ fails(Len(vs)) THEN g(".word") ELSE Code(words)
        [] st.op = ".float"  -> IF vs = <<>> \/ \E k \in DOMAIN vs : Len(st.args[k]) # 4 THEN g(".float")
                                ELSE Code(FlattenSeq(fours))
        [] st.op = ".fill"   -> IF Len(vs) \notin 1..2 \/ fails(Len(vs)) THEN g(".fill")
                                ELSE IF vs[1].val < 0 THEN g(".fill") ELSE Code(filling)
        [] st.op = ".align"  -> IF vs = <<>> \/ fails(1) THEN g(".align")
                                ELSE IF vs[1].val < 1 THEN g(".align") ELSE Code(padding)
        [] OTHER             -> g("unknown mnemonic")
  BY DEF Directive
<1>10. {"sixbit", ".base", ".word", ".float", ".fill", ".align", "unknown mnemonic"} \subseteq EncodeErrors
  BY DEF EncodeErrors
<1>11. vs = <<>> <=> bound = 0
  BY <1>1
<1>. HIDE DEF d, vs, chars, sixbits, words, fours, filling, padding, fails
<1>12. CASE st.op \in {"", ".section"} \cup LinkageOps
  BY <1>9, <1>12, CodesIn DEF LinkageOps, d
<1>13. CASE st.op \in {".str", ".strz"}
  <2>1. d = Code(chars) \/ d = Code(chars \o <<0>>)
    BY <1>9, <1>13 DEF LinkageOps
  <2>. QED BY <1>3, <2>1, CodesIn DEF d
<1>14. CASE st.op = ".sixbit"
  <2>1. d = NoCode("sixbit") \/ d = Code(sixbits)
    BY <1>9, <1>14 DEF LinkageOps
  <2>. QED BY <1>4, <1>10, <2>1, CodesIn DEF d
<1>15. CASE st.op = ".base"
  <2>1. d = NoCode(".base") \/ d = Code(<<>>)
    BY <1>9, <1>15 DEF LinkageOps
  <2>. QED BY <1>10, <2>1, CodesIn DEF d
<1>16. CASE st.op = ".word"
  <2>1. d = NoCode(".word") \/ d = Code(words)
    BY <1>9, <1>16 DEF LinkageOps
  <2>. QED BY <1>5, <1>10, <2>1, CodesIn DEF d
<1>17. CASE st.op = ".float"
  <2>1. d = NoCode(".float") \/ (d = Code(FlattenSeq(fours)) /\ \A k \in DOMAIN vs : Len(st.args[k]) = 4)
    BY <1>9, <1>17 DEF LinkageOps
  <2>. QED BY <1>6, <1>10, <2>1, CodesIn DEF d
<1>18. CASE st.op = ".fill"
  <2>1. d = NoCode(".fill") \/ (d = Code(filling) /\ Len(vs) \in 1..2 /\ ~(vs[1].val < 0))
    BY <1>9, <1>18 DEF LinkageOps
  <2>2. Len(vs) \in 1..2 => vs[1].val \in Int /\ bound \in 1..2
    <3>1. Len(vs) \in 1..2 => 1 \in 1..bound /\ bound \in 1..2
      BY <1>1
    <3>. QED BY ONLY <1>2, <3>1
  <2>. DEFINE x == vs[1].val
  <2>3. d = NoCode(".fill") \/ (d = Code(filling) /\ bound \in 1..2 /\ x >= 0)
    BY <2>1, <2>2
  <2>. HIDE DEF bound
  <2>. QED BY <1>7, <1>10, <2>3, CodesIn DEF d
<1>19. CASE st.op = ".align"
  <2>1. d = NoCode(".align") \/ (d = Code(padding) /\ vs # <<>> /\ ~(vs[1].val < 1))
    BY <1>9, <1>19 DEF LinkageOps
  <2>2. vs # <<>> => vs[1].val \in Int
    <3>1. vs # <<>> => 1 \in 1..bound
      BY <1>1, <1>11
    <3>. QED BY ONLY <1>2, <3>1
  <2>. DEFINE x == vs[1].val
  <2>3. d = NoCode(".align") \/ (d = Code(padding) /\ bound # 0 /\ x >= 1)
    BY <1>11, <2>1, <2>2
  <2>. HIDE DEF bound
  <2>. QED BY <1>8, <1>10, <2>3, CodesIn DEF d
<1>20. CASE st.op \notin {"", ".section", ".str", ".strz", ".sixbit", ".base", ".word", ".float", ".fill", ".align"}
                         \cup LinkageOps
  BY <1>9, <1>10, <1>20, CodesIn DEF d
<1>. QED BY <1>12, <1>13, <1>14, <1>15, <1>16, <1>17, <1>18, <1>19, <1>20

LEMMA EncodeIn ==
  ASSUME NEW A, NEW st \in Stmts(A), A \subseteq Int, NEW labels, AreLabels(labels)
  PROVE  Encode(st, labels) \in Coded
BY InstructionIn, DirectiveIn DEF Encode
-----------------------------------------------------------------------------
LEMMA CodeSteps ==
  ASSUME NEW sts \in Seq(Stmts(Nat)), NEW labels \in LabelTables, NEW n \in Nat, n = Len(sts)
  PROVE  CodesRun(sts, labels, n)
<1>. DEFINE seq == sts
            T == Seq(Coded)
            base == <<>>
            op(q, i) == Append(q, Encode(i, labels))
            G == [z \in (1..n) \X T |-> op(z[2], seq[z[1]])]
            Eq(to) == to = [k \in 0..Len(seq) |-> IF k = 0 THEN base
                             ELSE CHOOSE r \in {op(q, seq[k]) : q \in {to[k - 1]}} : TRUE]
            at == CHOOSE to : Eq(to)
<1>1. \A k \in 1..n, q \in T : Append(q, Encode(sts[k], labels)) \in T
  BY TablesAreLabels, EncodeIn
<1>2. base \in T
  OBVIOUS
<1>3. Len(seq) = n /\ seq = sts
  OBVIOUS
<1>4. CodesOf(sts, labels) = at[Len(seq)]
  BY DEF CodesOf, Along
<1>5. \A k \in 1..n, q \in T : G[<<k, q>>] = op(q, seq[k]) /\ op(q, seq[k]) = Append(q, Encode(sts[k], labels)) /\ G[<<k, q>>] \in T
  BY <1>1, <1>3
<1>. HIDE DEF G, T, base, seq, op
<1>6. PICK to \in [0..n -> T] : TheFold(to, n, T, base, G)
  BY <1>2, <1>5, FoldAlong
<1>7. \A k \in 1..n : to[k] = op(to[k - 1], seq[k]) /\ to[k - 1] \in T
  BY <1>5, <1>6 DEF TheFold
<1>8. to[0] = base
  BY <1>6 DEF TheFold
<1>9. Eq(to)
  BY <1>3, <1>7, <1>8
<1>. HIDE DEF Eq
<1>10. Eq(at)
  BY <1>9
<1>. HIDE DEF at
<1>11. FollowsFold(at, n, T, base, G)
  <2>1. Len(seq) = n
    BY <1>3
  <2>2. at = [k \in 0..n |-> IF k = 0 THEN base
                           ELSE CHOOSE r \in {op(q, seq[k]) : q \in {at[k - 1]}} : TRUE]
    BY ONLY <2>1, <1>10 DEF Eq
  <2>3. at[0] = base /\ at = [k \in 0..n |-> at[k]]
    BY ONLY <2>2, n \in Nat
  <2>4. \A k \in 1..n : at[k] = op(at[k - 1], seq[k])
    BY ONLY <2>2, n \in Nat
  <2>. QED BY ONLY <2>3, <2>4, <1>5 DEF FollowsFold
<1>12. at = to
  BY <1>6, <1>11 DEF TheFold
<1>13. \A k \in 1..n : to[k] = Append(to[k - 1], Encode(sts[k], labels))
  BY <1>5, <1>7
<1>. QED BY <1>3, <1>4, <1>8, <1>12, <1>13 DEF T, base, CodesRun

LEMMA CodesAre ==
  ASSUME NEW sts \in Seq(Stmts(Nat)), NEW labels \in LabelTables
  PROVE  /\ CodesOf(sts, labels) \in Seq(Coded) /\ Len(CodesOf(sts, labels)) = Len(sts)
         /\ \A i \in 1..Len(sts) : CodesOf(sts, labels)[i] = Encode(sts[i], labels)
<1>. DEFINE n == Len(sts)
            E(i) == Encode(sts[i], labels)
<1>1. n \in Nat /\ n \in 0..n /\ n = Len(sts)
  OBVIOUS
<1>. HIDE DEF n
<1>2. CodesRun(sts, labels, n)
  BY <1>1, CodeSteps
<1>3. PICK to \in [0..n -> Seq(Coded)] :
        /\ to[0] = <<>> /\ CodesOf(sts, labels) = to[n]
        /\ \A k \in 1..n : to[k] = Append(to[k - 1], E(k))
  BY <1>2 DEF CodesRun
<1>. HIDE DEF E
<1>. DEFINE U == {k \in Nat : k <= n => Len(to[k]) = k /\ \A i \in 1..k : to[k][i] = E(i)}
<1>4. 0 \in U
  BY <1>3
<1>5. ASSUME NEW k \in Nat, k \in U PROVE k + 1 \in U
  <2>. SUFFICES ASSUME k + 1 <= n PROVE Len(to[k + 1]) = k + 1 /\ \A i \in 1..(k + 1) : to[k + 1][i] = E(i)
    OBVIOUS
  <2>1. k <= n /\ k \in 0..n /\ k + 1 \in 1..n /\ (k + 1) - 1 = k
    BY <1>1
  <2>2. Len(to[k]) = k /\ \A i \in 1..k : to[k][i] = E(i)
    BY <1>5, <2>1
  <2>3. to[k + 1] = Append(to[k], E(k + 1)) /\ to[k] \in Seq(Coded)
    BY <1>3, <2>1
  <2>4. Len(to[k + 1]) = k + 1 /\ to[k + 1][k + 1] = E(k + 1) /\ \A i \in 1..k : to[k + 1][i] = to[k][i]
    BY <2>2, <2>3
  <2>. QED BY <2>2, <2>4
<1>6. n \in U
  <2>1. \A k \in Nat : k \in U
    <3>. HIDE DEF U
    <3>. QED BY <1>4, <1>5, SetInduction
  <2>. QED BY <1>1, <2>1
<1>. QED BY <1>1, <1>3, <1>6 DEF E

LEMMA FirstErrorIn ==
  ASSUME NEW cs \in Seq(Coded), NEW bad, bad = {i \in 1..Len(cs) : cs[i].err # "none"}, bad # {}
  PROVE  cs[Min(bad)].err \in EncodeErrors
<1>1. Len(cs) \in Nat /\ \A i \in 1..Len(cs) : cs[i] \in Coded
  OBVIOUS
<1>2. bad \subseteq Nat
  BY <1>1
<1>3. Min(bad) \in bad
  BY <1>2, MinIn
<1>. QED BY <1>1, <1>3 DEF Coded
-----------------------------------------------------------------------------
(* Objects: the records that are emitted. *)

LEMMA RecsAre ==
  /\ \A w \in Word : Word_(w) \in Recs
  /\ \A n \in Nat : Zero(n) \in Recs
  /\ \A name \in AnyName : \A form \in {"local", "global"} : SymRec(name, form) \in Recs
  /\ \A name \in AnyName : \A form \in {"imm12", "li-imm12"} : Reloc(form, name, 0) \in Recs
  /\ \A name \in AnyName : \A form \in {"bt", "bf"} : Brel(form, name) \in Recs
BY DEF Recs

LEMMA WordRecsIn ==
  ASSUME NEW ws \in Seq(Int)
  PROVE  WordRecs(ws) \in Seq(Recs) /\ Len(ws) \in Nat
<1>1. Len(ws) \in Nat /\ \A k \in 1..Len(ws) : ws[k] \in Int
  OBVIOUS
<1>2. ASSUME NEW k \in 1..Len(ws) PROVE Word_(ws[k] % Space) \in Recs
  <2>. DEFINE w == ws[k]
  <2>1. w \in Int
    BY <1>1
  <2>. HIDE DEF w
  <2>2. w % Space \in Word
    BY <2>1, WordsAreInt
  <2>. QED BY <2>2, RecsAre DEF w
<1>. QED BY <1>1, <1>2 DEF WordRecs

LEMMA EmittedIn ==
  /\ \A rs \in Seq(Recs) : \A n \in Nat : \A why \in {"none"} \cup EncodeErrors : Emitted(rs, n, why) \in Emissions
  /\ \A r \in Recs : <<r>> \in Seq(Recs)
  /\ \A c \in Coded : EmitCode(c) \in Emissions
<1>1. \A rs \in Seq(Recs) : \A n \in Nat : \A why \in {"none"} \cup EncodeErrors : Emitted(rs, n, why) \in Emissions
  BY DEF Emitted, Emissions
<1>2. ASSUME NEW c \in Coded PROVE EmitCode(c) \in Emissions
  BY <1>1, WordRecsIn DEF Coded, EmitCode
<1>. QED BY <1>1, <1>2

LEMMA SimpleIn ==
  ASSUME NEW ts \in Seq(AnyToken), SimpleLabel(ts)
  PROVE  ts[1].sym \in AnyName
<1>1. ts[1] \in AnyToken
  BY DEF SimpleLabel
<1>. QED BY <1>1 DEF AnyToken

LEMMA EmitOperandIn ==
  ASSUME NEW ts \in Seq(AnyToken), NEW c \in Coded
  PROVE  EmitOperand(ts, c) \in Emissions
<1>1. CASE SimpleLabel(ts)
  <2>. DEFINE a == Word_(0)
              b == Reloc("imm12", ts[1].sym, 0)
  <2>1. a \in Recs /\ b \in Recs
    <3>1. 0 \in Word
      BY DEF Word
    <3>. QED BY <1>1, <3>1, SimpleIn, RecsAre
  <2>2. EmitOperand(ts, c) = Emitted(<<a, b>>, 1, "none")
    BY <1>1 DEF EmitOperand
  <2>. HIDE DEF a, b
  <2>3. <<a, b>> \in Seq(Recs)
    BY <2>1
  <2>. QED BY <2>2, <2>3, EmittedIn
<1>2. CASE ~SimpleLabel(ts)
  BY <1>2, WordRecsIn, EmittedIn DEF Coded, EmitOperand
<1>. QED BY <1>1, <1>2

LEMMA EmitWordsIn ==
  ASSUME NEW A, NEW st \in Stmts(A), A \subseteq Int, NEW labels, AreLabels(labels)
  PROVE  EmitWords(st, labels) \in Emissions
<1>. DEFINE n == Len(st.args)
            one(k) == [st EXCEPT !.args = <<st.args[k]>>]
            e(k) == EmitOperand(st.args[k], Encode(one(k), labels))
            es == [k \in 1..n |-> e(k)]
            rs == [k \in 1..n |-> es[k].recs]
<1>1. n \in Nat /\ \A k \in 1..n : st.args[k] \in Seq(AnyToken)
  BY OperandsIn
<1>2. ASSUME NEW k \in 1..n PROVE e(k) \in Emissions
  <2>. DEFINE ts == st.args[k]
  <2>1. ts \in Seq(AnyToken)
    BY <1>1
  <2>2. one(k) \in Stmts(A)
    <3>. HIDE DEF ts
    <3>1. <<ts>> \in Seq(Seq(AnyToken))
      BY <2>1
    <3>2. [st EXCEPT !.args = <<ts>>] \in Stmts(A)
      BY <3>1 DEF Stmts
    <3>. QED BY <3>2 DEF ts
  <2>. HIDE DEF one
  <2>3. Encode(one(k), labels) \in Coded
    BY <2>2, EncodeIn
  <2>. QED BY <2>1, <2>3, EmitOperandIn
<1>3. EmitWords(st, labels) = EmitAll(es)
  BY DEF EmitWords
<1>. HIDE DEF e, n
<1>4. es \in Seq(Emissions) /\ Len(es) = n /\ \A k \in 1..n : es[k] \in Emissions
  BY <1>1, <1>2
<1>. HIDE DEF es
<1>5. rs \in Seq(Seq(Recs))
  <2>1. ASSUME NEW k \in 1..n PROVE es[k].recs \in Seq(Recs)
    BY <1>4 DEF Emissions
  <2>. QED BY <1>1, <2>1
<1>6. FlattenSeq(rs) \in Seq(Recs)
  <2>. HIDE DEF rs
  <2>. QED BY <1>5, FlattenIn
<1>7. EmitAll(es) = Emitted(<<>>, 0, ".word") \/ EmitAll(es) = Emitted(FlattenSeq(rs), n, "none")
  BY <1>4 DEF EmitAll
<1>8. ".word" \in EncodeErrors /\ <<>> \in Seq(Recs)
  BY DEF EncodeErrors
<1>. HIDE DEF rs
<1>. QED BY <1>1, <1>3, <1>6, <1>7, <1>8, EmittedIn

LEMMA EmitStmtIn ==
  ASSUME NEW A, NEW st \in Stmts(A), A \subseteq Int, NEW labels, AreLabels(labels)
  PROVE  EmitStmt(st, labels) \in Emissions
<1>. DEFINE e == EmitStmt(st, labels)
<1>1. CASE st.op \in LinkageOps \cup {".section"}
  <2>1. e = Emitted(<<>>, 0, "none")
    BY <1>1 DEF EmitStmt, LinkageOps, Branch, LoadsLabel
  <2>2. <<>> \in Seq(Recs)
    OBVIOUS
  <2>. QED BY <2>1, <2>2, EmittedIn
<1>2. CASE Branch(st)
  <2>1. e = Emitted(<<Brel(st.op, Target(st))>>, 1, "none")
    BY <1>2 DEF EmitStmt, LinkageOps, Branch, LoadsLabel
  <2>2. Target(st) \in AnyName /\ st.op \in {"bt", "bf"}
    BY <1>2, OperandsIn, SimpleIn DEF Branch, Target
  <2>3. Brel(st.op, Target(st)) \in Recs
    BY <2>2, RecsAre
  <2>. QED BY <2>1, <2>3, EmittedIn
<1>3. CASE LoadsLabel(st)
  <2>. DEFINE rd == Registers[st.args[1][1].sym]
              name == st.args[2][1].sym
              a == Word_(RI(LUI, rd, 0))
              b == Word_(RI(ADDI, rd, 0))
              c == Reloc("li-imm12", name, 0)
  <2>1. e = Emitted(<<a, b, c>>, 2, "none")
    BY <1>3 DEF EmitStmt, LinkageOps, Branch, LoadsLabel
  <2>2. rd \in 0..7
    BY <1>3 DEF LoadsLabel, IsReg, Registers
  <2>3. RI(LUI, rd, 0) \in Word /\ RI(ADDI, rd, 0) \in Word
    <3>. HIDE DEF rd
    <3>. QED BY <2>2 DEF RI, LUI, ADDI, Word
  <2>4. name \in AnyName
    BY <1>3, OperandsIn, SimpleIn DEF LoadsLabel
  <2>5. a \in Recs /\ b \in Recs /\ c \in Recs
    BY <2>3, <2>4, RecsAre
  <2>. HIDE DEF a, b, c, e
  <2>6. <<a, b, c>> \in Seq(Recs)
    BY <2>5
  <2>7. e \in Emissions
    BY <2>1, <2>6, EmittedIn
  <2>. QED BY <2>7 DEF e
<1>4. CASE st.op = ".word"
  <2>1. e = EmitWords(st, labels)
    BY <1>4 DEF EmitStmt, LinkageOps, Branch, LoadsLabel
  <2>. QED BY <2>1, EmitWordsIn
<1>5. CASE st.op \notin LinkageOps \cup {".section", ".word"} /\ ~Branch(st) /\ ~LoadsLabel(st)
  BY <1>5, EncodeIn, EmittedIn DEF EmitStmt
<1>. QED BY <1>1, <1>2, <1>3, <1>4, <1>5
-----------------------------------------------------------------------------
LEMMA AddStmtIn ==
  ASSUME NEW b \in Building, NEW st \in Stmts(Int), NEW e \in Emissions, NEW all
  PROVE  AddStmt(b, st, e, all) \in Building
<1>1. b.recs \in Seq(Recs) /\ b.cursor \in Int /\ b.err \in {"none"} \cup EncodeErrors
  BY DEF Building
<1>2. e.recs \in Seq(Recs) /\ e.n \in Nat /\ e.err \in {"none"} \cup EncodeErrors
  BY DEF Emissions
<1>3. st.addr \in Int /\ st.labels \in Seq(AnyName)
  BY StmtFields
<1>. DEFINE d == st.addr - b.cursor
            gap == Gap(d)
            syms == [k \in 1..Len(st.labels) |-> SymRec(st.labels[k], LinkageOf(all, st.labels[k]))]
            recs == b.recs \o gap \o syms \o e.recs
            cursor == st.addr + e.n
            why == IF b.err = "none" THEN e.err ELSE b.err
<1>4. gap \in Seq(Recs)
  <2>1. d \in Int
    BY <1>1, <1>3
  <2>. HIDE DEF d
  <2>2. <<>> \in Seq(Recs)
    OBVIOUS
  <2>3. d > 0 => Zero(d) \in Recs
    BY <2>1, RecsAre
  <2>. QED BY <2>2, <2>3, EmittedIn DEF Gap
<1>5. syms \in Seq(Recs)
  BY <1>3, RecsAre DEF LinkageOf
<1>6. recs \in Seq(Recs)
  <2>. HIDE DEF gap, syms
  <2>. QED BY <1>1, <1>2, <1>4, <1>5
<1>7. cursor \in Int
  BY <1>2, <1>3
<1>8. AddStmt(b, st, e, all) = [recs |-> recs, cursor |-> cursor, err |-> why]
  BY DEF AddStmt
<1>. HIDE DEF recs, cursor
<1>. QED BY <1>1, <1>2, <1>6, <1>7, <1>8 DEF Building

LEMMA BuildSteps ==
  ASSUME NEW sts \in Seq(Stmts(Int)), NEW labels \in LabelTables, NEW all, NEW n \in Nat, n = Len(sts)
  PROVE  BuildRun(sts, labels, all, n)
<1>. DEFINE seq == sts
            T == Building
            base == [recs |-> <<>>, cursor |-> 0, err |-> "none"]
            op(q, i) == AddStmt(q, i, EmitStmt(i, labels), all)
            G == [z \in (1..n) \X T |-> op(z[2], seq[z[1]])]
            Eq(to) == to = [k \in 0..Len(seq) |-> IF k = 0 THEN base
                             ELSE CHOOSE r \in {op(q, seq[k]) : q \in {to[k - 1]}} : TRUE]
            at == CHOOSE to : Eq(to)
<1>1. \A k \in 1..n, q \in T : AddStmt(q, sts[k], EmitStmt(sts[k], labels), all) \in T
  BY TablesAreLabels, EmitStmtIn, AddStmtIn
<1>2. base \in T
  BY DEF Building
<1>3. Len(seq) = n /\ seq = sts
  OBVIOUS
<1>4. Build(sts, labels, all) = at[Len(seq)]
  BY DEF Build, Along
<1>5. \A k \in 1..n, q \in T : G[<<k, q>>] = op(q, seq[k]) /\ op(q, seq[k]) = AddStmt(q, sts[k], EmitStmt(sts[k], labels), all) /\ G[<<k, q>>] \in T
  BY <1>1, <1>3
<1>. HIDE DEF G, T, base, seq, op
<1>6. PICK to \in [0..n -> T] : TheFold(to, n, T, base, G)
  BY <1>2, <1>5, FoldAlong
<1>7. \A k \in 1..n : to[k] = op(to[k - 1], seq[k]) /\ to[k - 1] \in T
  BY <1>5, <1>6 DEF TheFold
<1>8. to[0] = base
  BY <1>6 DEF TheFold
<1>9. Eq(to)
  BY <1>3, <1>7, <1>8
<1>. HIDE DEF Eq
<1>10. Eq(at)
  BY <1>9
<1>. HIDE DEF at
<1>11. FollowsFold(at, n, T, base, G)
  <2>1. Len(seq) = n
    BY <1>3
  <2>2. at = [k \in 0..n |-> IF k = 0 THEN base
                           ELSE CHOOSE r \in {op(q, seq[k]) : q \in {at[k - 1]}} : TRUE]
    BY ONLY <2>1, <1>10 DEF Eq
  <2>3. at[0] = base /\ at = [k \in 0..n |-> at[k]]
    BY ONLY <2>2, n \in Nat
  <2>4. \A k \in 1..n : at[k] = op(at[k - 1], seq[k])
    BY ONLY <2>2, n \in Nat
  <2>. QED BY ONLY <2>3, <2>4, <1>5 DEF FollowsFold
<1>12. at = to
  BY <1>6, <1>11 DEF TheFold
<1>13. \A k \in 1..n : to[k] = AddStmt(to[k - 1], sts[k], EmitStmt(sts[k], labels), all)
  BY <1>5, <1>7
<1>. QED BY <1>3, <1>4, <1>8, <1>12, <1>13 DEF T, base, BuildRun

LEMMA BuildIn ==
  ASSUME NEW sts \in Seq(Stmts(Int)), NEW labels \in LabelTables, NEW all
  PROVE  Build(sts, labels, all) \in Building
<1>. DEFINE n == Len(sts)
<1>1. n \in Nat /\ n \in 0..n /\ n = Len(sts)
  OBVIOUS
<1>. HIDE DEF n
<1>2. BuildRun(sts, labels, all, n)
  BY <1>1, BuildSteps
<1>3. PICK to \in [0..n -> Building] : Build(sts, labels, all) = to[n]
  BY <1>2 DEF BuildRun
<1>. QED BY <1>1, <1>3

LEMMA NormalizedIn ==
  ASSUME NEW sts \in Seq(Stmts(Nat))
  PROVE  Normalized(sts) \in Seq(Stmts(Int))
<1>1. Len(sts) \in Nat /\ \A i \in 1..Len(sts) : sts[i] \in Stmts(Nat)
  OBVIOUS
<1>. DEFINE S == {sts[i].addr : i \in 1..Len(sts)}
            b == BaseOf(sts)
<1>2. ASSUME NEW i \in 1..Len(sts) PROVE [sts[i] EXCEPT !.addr = @ - b] \in Stmts(Int)
  <2>1. S \subseteq Nat /\ S # {}
    BY <1>1, StmtFields
  <2>2. Min(S) \in S
    <3>. HIDE DEF S
    <3>. QED BY <2>1, MinIn
  <2>3. b \in Nat
    <3>1. b = Min(S)
      BY DEF BaseOf
    <3>. HIDE DEF S, b
    <3>. QED BY <2>1, <2>2, <3>1
  <2>. DEFINE st == sts[i]
  <2>4. st \in Stmts(Nat)
    BY <1>1
  <2>. HIDE DEF b, st, S
  <2>5. st.addr - b \in Int
    BY <2>3, <2>4, StmtFields
  <2>6. [st EXCEPT !.addr = @ - b] \in Stmts(Int)
    BY <2>4, <2>5 DEF Stmts
  <2>. QED BY <2>6 DEF st
<1>. HIDE DEF b
<1>3. Normalized(sts) = [i \in 1..Len(sts) |-> [sts[i] EXCEPT !.addr = @ - b]]
  BY DEF Normalized, b
<1>. QED BY <1>1, <1>2, <1>3

LEMMA OrderSteps ==
  ASSUME NEW sts \in Seq(Stmts(Nat)), NEW n \in Nat, n = Len(sts)
  PROVE  OrderRun(sts, n)
<1>. DEFINE seq == sts
            T == Seq(AnyName)
            base == <<>>
            op(q, i) == (IF i.sec \in Range(q) THEN q ELSE Append(q, i.sec))
            G == [z \in (1..n) \X T |-> op(z[2], seq[z[1]])]
            Eq(to) == to = [k \in 0..Len(seq) |-> IF k = 0 THEN base
                             ELSE CHOOSE r \in {op(q, seq[k]) : q \in {to[k - 1]}} : TRUE]
            at == CHOOSE to : Eq(to)
<1>1. \A k \in 1..n, q \in T : (IF sts[k].sec \in Range(q) THEN q ELSE Append(q, sts[k].sec)) \in T
  BY StmtFields
<1>2. base \in T
  OBVIOUS
<1>3. Len(seq) = n /\ seq = sts
  OBVIOUS
<1>4. SectionOrder(sts) = at[Len(seq)]
  BY DEF SectionOrder, Along
<1>5. \A k \in 1..n, q \in T : G[<<k, q>>] = op(q, seq[k]) /\ op(q, seq[k]) = (IF sts[k].sec \in Range(q) THEN q ELSE Append(q, sts[k].sec)) /\ G[<<k, q>>] \in T
  BY <1>1, <1>3
<1>. HIDE DEF G, T, base, seq, op
<1>6. PICK to \in [0..n -> T] : TheFold(to, n, T, base, G)
  BY <1>2, <1>5, FoldAlong
<1>7. \A k \in 1..n : to[k] = op(to[k - 1], seq[k]) /\ to[k - 1] \in T
  BY <1>5, <1>6 DEF TheFold
<1>8. to[0] = base
  BY <1>6 DEF TheFold
<1>9. Eq(to)
  BY <1>3, <1>7, <1>8
<1>. HIDE DEF Eq
<1>10. Eq(at)
  BY <1>9
<1>. HIDE DEF at
<1>11. FollowsFold(at, n, T, base, G)
  <2>1. Len(seq) = n
    BY <1>3
  <2>2. at = [k \in 0..n |-> IF k = 0 THEN base
                           ELSE CHOOSE r \in {op(q, seq[k]) : q \in {at[k - 1]}} : TRUE]
    BY ONLY <2>1, <1>10 DEF Eq
  <2>3. at[0] = base /\ at = [k \in 0..n |-> at[k]]
    BY ONLY <2>2, n \in Nat
  <2>4. \A k \in 1..n : at[k] = op(at[k - 1], seq[k])
    BY ONLY <2>2, n \in Nat
  <2>. QED BY ONLY <2>3, <2>4, <1>5 DEF FollowsFold
<1>12. at = to
  BY <1>6, <1>11 DEF TheFold
<1>13. \A k \in 1..n : to[k] = (IF sts[k].sec \in Range(to[k - 1]) THEN to[k - 1] ELSE Append(to[k - 1], sts[k].sec))
  BY <1>5, <1>7
<1>. QED BY <1>3, <1>4, <1>8, <1>12, <1>13 DEF T, base, OrderRun

LEMMA OrderIn ==
  ASSUME NEW sts \in Seq(Stmts(Nat))
  PROVE  SectionOrder(sts) \in Seq(AnyName)
<1>. DEFINE n == Len(sts)
<1>1. n \in Nat /\ n \in 0..n /\ n = Len(sts)
  OBVIOUS
<1>. HIDE DEF n
<1>2. OrderRun(sts, n)
  BY <1>1, OrderSteps
<1>3. PICK to \in [0..n -> Seq(AnyName)] : SectionOrder(sts) = to[n]
  BY <1>2 DEF OrderRun
<1>. QED BY <1>1, <1>3

LEMMA ObjectIn ==
  ASSUME NEW sts \in Seq(Stmts(Nat))
  PROVE  EncodeToObject(sts).sections \in Seq(Sections) /\ EncodeToObject(sts).err \in {"none"} \cup EncodeErrors
<1>. DEFINE order == SectionOrder(sts)
            n == Len(order)
            built == [k \in 1..n |-> BuildSection(sts, order[k])]
            bad == {k \in 1..n : built[k].err # "none"}
            secs == [k \in 1..n |-> [name |-> order[k], recs |-> built[k].recs]]
            o == EncodeToObject(sts)
<1>1. n \in Nat /\ \A k \in 1..n : order[k] \in AnyName
  <2>1. order \in Seq(AnyName)
    BY OrderIn
  <2>. HIDE DEF order
  <2>. QED BY <2>1
<1>2. \A name : BuildSection(sts, name) \in Building
  <2>. TAKE name
  <2>. DEFINE norm == Normalized(InSection(sts, name))
  <2>1. InSection(sts, name) \in Seq(Stmts(Nat))
    BY TakenIn DEF InSection
  <2>2. norm \in Seq(Stmts(Int))
    BY <2>1, NormalizedIn
  <2>. HIDE DEF norm
  <2>3. LabelsFrom(norm) \in LabelTables
    BY <2>2, LabelsFromIn
  <2>4. Build(norm, LabelsFrom(norm), sts) \in Building
    BY <2>2, <2>3, BuildIn
  <2>. QED BY <2>4 DEF BuildSection, norm
<1>3. o.sections = secs /\ o.err = IF bad = {} THEN "none" ELSE built[Min(bad)].err
  BY DEF EncodeToObject, ObjectOf
<1>. HIDE DEF order, n, o
<1>4. \A k \in 1..n : built[k] \in Building
  BY <1>2
<1>. HIDE DEF built
<1>5. \A k \in 1..n : built[k].recs \in Seq(Recs) /\ built[k].err \in {"none"} \cup EncodeErrors
  BY <1>4 DEF Building
<1>6. \A k \in 1..n : [name |-> order[k], recs |-> built[k].recs] \in Sections
  BY <1>1, <1>5 DEF Sections
<1>7. secs \in Seq(Sections)
  BY <1>1, <1>6
<1>8. bad # {} => Min(bad) \in 1..n
  <2>1. bad \subseteq Nat
    BY <1>1
  <2>2. bad \subseteq 1..n
    OBVIOUS
  <2>. HIDE DEF bad
  <2>. QED BY <2>1, <2>2, MinIn
<1>9. o.err \in {"none"} \cup EncodeErrors
  <2>. HIDE DEF bad
  <2>. QED BY <1>3, <1>5, <1>8
<1>. QED BY <1>3, <1>7, <1>9 DEF o
-----------------------------------------------------------------------------
(* The text of an object: what is written is read back. *)

LEMMA FlattenAt ==
  ASSUME NEW D, NEW ss \in Seq(Seq(D)), NEW n \in Nat, n = Len(ss)
  PROVE  \E L : StandsAt(ss, L, n)
<1>1. PICK to \in [0..n -> Seq(D)] :
           /\ to[0] = <<>>
           /\ \A k \in 1..n : to[k] = to[k - 1] \o ss[k]
           /\ FlattenSeq(ss) = to[n]
  <2>1. FlattenRun(D, ss, n)
    BY FlattenSteps
  <2>. QED BY <2>1 DEF FlattenRun
<1>. DEFINE L == [k \in 0..n |-> Len(to[k])]
<1>2. \A k \in 0..n : to[k] \in Seq(D) /\ L[k] = Len(to[k]) /\ L[k] \in Nat
  BY <1>1
<1>3. \A k \in 1..n : k - 1 \in 0..n /\ k \in 0..n /\ ss[k] \in Seq(D) /\ Len(ss[k]) \in Nat
  OBVIOUS
<1>4. \A k \in 1..n : L[k] = L[k - 1] + Len(ss[k])
  <2>. TAKE k \in 1..n
  <2>. DEFINE a == to[k - 1]
              b == ss[k]
  <2>1. a \in Seq(D) /\ b \in Seq(D) /\ to[k] = a \o b /\ L[k] = Len(to[k]) /\ L[k - 1] = Len(a)
    BY <1>1, <1>2, <1>3
  <2>. HIDE DEF a, b, L
  <2>2. L[k] = L[k - 1] + Len(b)
    BY <2>1
  <2>. QED BY <2>2 DEF b
<1>5. L \in [0..n -> Nat] /\ L[0] = 0 /\ Len(FlattenSeq(ss)) = L[n]
  BY <1>1, <1>2
<1>. HIDE DEF L
<1>. DEFINE P(j) == \A k \in 1..j : \A t \in 1..Len(ss[k]) : L[k - 1] + t \in 1..L[j] /\ to[j][L[k - 1] + t] = ss[k][t]
            U == {j \in Nat : j <= n => P(j)}
<1>6. 0 \in U
  OBVIOUS
<1>7. ASSUME NEW j \in Nat, j \in U PROVE j + 1 \in U
  <2>. SUFFICES ASSUME j + 1 <= n PROVE P(j + 1)
    OBVIOUS
  <2>1. P(j) /\ j + 1 \in 1..n /\ (j + 1) - 1 = j /\ j \in 0..n
    BY <1>7
  <2>. DEFINE a == to[j]
              b == ss[j + 1]
              c == to[j + 1]
  <2>2. a \in Seq(D) /\ b \in Seq(D) /\ c = a \o b /\ Len(a) = L[j] /\ L[j] \in Nat /\ L[j + 1] = L[j] + Len(b)
    BY <1>1, <1>2, <1>3, <1>4, <2>1
  <2>. HIDE DEF a, b, c
  <2>3. /\ \A i \in 1..L[j] : i \in 1..L[j + 1] /\ c[i] = a[i]
        /\ \A t \in 1..Len(b) : L[j] + t \in 1..L[j + 1] /\ c[L[j] + t] = b[t]
    <3>. DEFINE x == L[j]
                y == L[j + 1]
    <3>1. a \in Seq(D) /\ b \in Seq(D) /\ c = a \o b /\ Len(a) = x /\ x \in Nat /\ y = x + Len(b)
      BY <2>2
    <3>. HIDE DEF x, y
    <3>2. Len(b) \in Nat
      BY <3>1
    <3>3. \A i \in 1..x : c[i] = a[i]
      BY <3>1
    <3>4. ASSUME NEW t \in 1..Len(b) PROVE c[x + t] = b[t]
      <4>. DEFINE u == x + t
      <4>1. u \in 1..(Len(a) + Len(b)) /\ u > Len(a) /\ u - Len(a) = t /\ u = x + t
        BY <3>1, <3>2
      <4>3. a \in Seq(D) /\ b \in Seq(D)
        BY <3>1
      <4>. HIDE DEF u
      <4>2. (a \o b)[u] = b[u - Len(a)]
        BY ONLY <4>1, <4>3
      <4>. QED BY <3>1, <4>1, <4>2
    <3>5. \A i \in 1..x : i \in 1..y
      BY <3>1, <3>2
    <3>6. \A t \in 1..Len(b) : x + t \in 1..y
      BY <3>1, <3>2
    <3>. QED BY <3>3, <3>4, <3>5, <3>6 DEF x, y
  <2>4. ASSUME NEW k \in 1..(j + 1), NEW t \in 1..Len(ss[k])
        PROVE  L[k - 1] + t \in 1..L[j + 1] /\ c[L[k - 1] + t] = ss[k][t]
    <3>1. CASE k \in 1..j
      BY <2>1, <2>3, <3>1 DEF a
    <3>2. CASE k = j + 1
      BY <2>1, <2>3, <3>2 DEF b
    <3>. QED BY <3>1, <3>2
  <2>. QED BY <2>4 DEF c
<1>8. P(n)
  <2>1. \A j \in Nat : j \in U
    <3>. HIDE DEF U
    <3>. QED BY <1>6, <1>7, SetInduction
  <2>2. n \in U
    BY <2>1
  <2>. QED BY <2>2
<1>9. StandsAt(ss, L, n)
  BY <1>1, <1>4, <1>5, <1>8 DEF StandsAt
<1>. QED BY <1>9

LEMMA SomeWords ==
  /\ \A s : W(s).word = s
  /\ \A n : N(n).word = "" /\ N(n).val = n /\ IsNum(N(n))
BY DEF W, N, IsNum

\* A record is read as it was written.
LEMMA RecordTrips ==
  ASSUME NEW r \in Recs
  PROVE  LET ln == RenderRec(r)
         IN  ln[1].word # "section" /\ ln # <<W("endsec")>> /\ ParseRecord(ln) = Read(r)
<1>. DEFINE ln == RenderRec(r)
<1>1. ASSUME NEW w \in Word, r = Word_(w)
      PROVE  ln[1].word # "section" /\ ln # <<W("endsec")>> /\ ParseRecord(ln) = Read(r)
  <2>1. w % Space = w
    BY DEF Word, Space
  <2>2. ln = <<W("word"), N(w)>>
    BY <1>1, <2>1 DEF RenderRec, Word_, Rec
  <2>. HIDE DEF ln
  <2>3. Len(ln) = 2 /\ ln[1].word = "word" /\ ln[2] = N(w)
    BY <2>2, SomeWords
  <2>4. ParseRecord(ln) = Read(Word_(w % Space))
    BY <2>3, SomeWords DEF ParseRecord
  <2>5. Len(<<W("endsec")>>) = 1
    OBVIOUS
  <2>. QED BY <1>1, <2>1, <2>3, <2>4, <2>5
<1>2. ASSUME NEW n \in Nat, r = Zero(n)
      PROVE  ln[1].word # "section" /\ ln # <<W("endsec")>> /\ ParseRecord(ln) = Read(r)
  <2>1. ln = <<W("zero"), N(n)>>
    BY <1>2 DEF RenderRec, Zero, Rec
  <2>. HIDE DEF ln
  <2>2. Len(ln) = 2 /\ ln[1].word = "zero" /\ ln[2] = N(n)
    BY <2>1, SomeWords
  <2>5. IsNum(ln[2]) /\ ln[2].val = n /\ ~(n < 0)
    <3>1. ~(n < 0)
      OBVIOUS
    <3>2. IsNum(N(n)) /\ N(n).val = n
      BY SomeWords
    <3>. QED BY ONLY <2>2, <3>1, <3>2
  <2>3. ParseRecord(ln) = Read(Zero(n))
    BY <2>2, <2>5 DEF ParseRecord
  <2>4. Len(<<W("endsec")>>) = 1
    OBVIOUS
  <2>. QED BY <1>2, <2>2, <2>3, <2>4
<1>3. ASSUME NEW name \in AnyName, NEW form \in {"local", "global"}, r = SymRec(name, form)
      PROVE  ln[1].word # "section" /\ ln # <<W("endsec")>> /\ ParseRecord(ln) = Read(r)
  <2>1. ln = <<W("sym"), W(name), W(form)>>
    BY <1>3 DEF RenderRec, SymRec, Rec
  <2>. HIDE DEF ln
  <2>2. Len(ln) = 3 /\ ln[1].word = "sym" /\ ln[2].word = name /\ ln[3].word = form
    BY <2>1, SomeWords
  <2>3. ParseRecord(ln) = Read(SymRec(name, form))
    BY <2>2 DEF Linkages, ParseRecord
  <2>4. Len(<<W("endsec")>>) = 1
    OBVIOUS
  <2>. QED BY <1>3, <2>2, <2>3, <2>4
<1>4. ASSUME NEW name \in AnyName, NEW form \in {"imm12", "li-imm12"}, r = Reloc(form, name, 0)
      PROVE  ln[1].word # "section" /\ ln # <<W("endsec")>> /\ ParseRecord(ln) = Read(r)
  <2>1. ln = <<W("reloc"), W(form), W(name)>>
    BY <1>4 DEF RenderRec, Reloc, Rec, Addend
  <2>. HIDE DEF ln
  <2>2. Len(ln) = 3 /\ ln[1].word = "reloc" /\ ln[2].word = form /\ ln[3].word = name
    BY <2>1, SomeWords
  <2>3. ParseRecord(ln) = AddendRec("reloc", Forms, ln)
    BY <2>2 DEF ParseRecord
  <2>4. form \in Forms
    BY DEF Forms
  <2>5. AddendRec("reloc", Forms, ln) = Read(Rec("reloc", 0, name, form))
    BY <2>2, <2>4 DEF AddendRec
  <2>6. Len(<<W("endsec")>>) = 1
    OBVIOUS
  <2>. QED BY <1>4, <2>2, <2>3, <2>5, <2>6 DEF Reloc
<1>5. ASSUME NEW name \in AnyName, NEW form \in {"bt", "bf"}, r = Brel(form, name)
      PROVE  ln[1].word # "section" /\ ln # <<W("endsec")>> /\ ParseRecord(ln) = Read(r)
  <2>1. ln = <<W("brel"), W(form), W(name)>>
    BY <1>5 DEF RenderRec, Brel, Rec, Addend
  <2>. HIDE DEF ln
  <2>2. Len(ln) = 3 /\ ln[1].word = "brel" /\ ln[2].word = form /\ ln[3].word = name
    BY <2>1, SomeWords
  <2>3. ParseRecord(ln) = AddendRec("brel", {"bt", "bf"}, ln)
    BY <2>2 DEF ParseRecord
  <2>4. AddendRec("brel", {"bt", "bf"}, ln) = Read(Rec("brel", 0, name, form))
    BY <2>2 DEF AddendRec
  <2>5. Len(<<W("endsec")>>) = 1
    OBVIOUS
  <2>. QED BY <1>5, <2>2, <2>3, <2>4, <2>5 DEF Brel
<1>. QED BY <1>1, <1>2, <1>3, <1>4, <1>5 DEF Recs

LEMMA ParseFields ==
  ASSUME NEW p \in Parses
  PROVE  /\ p.open \in BOOLEAN /\ p.name \in AnyName /\ p.recs \in Seq(Recs) /\ p.sections \in Seq(Sections)
         /\ p.err \in {"none"} \cup ParseErrors
         /\ p = Parse(p.open, p.name, p.recs, p.sections, p.err)
BY DEF Parses, Parse

LEMMA ParsesIn ==
  ASSUME NEW open \in BOOLEAN, NEW name \in AnyName, NEW recs \in Seq(Recs), NEW sections \in Seq(Sections),
         NEW why \in {"none"} \cup ParseErrors
  PROVE  Parse(open, name, recs, sections, why) \in Parses
BY DEF Parses, Parse

LEMMA ParseChanges ==
  ASSUME NEW p \in Parses
  PROVE  /\ \A why : [p EXCEPT !.err = why] = Parse(p.open, p.name, p.recs, p.sections, why)
         /\ \A name : [p EXCEPT !.open = TRUE, !.name = name, !.recs = <<>>]
                        = Parse(TRUE, name, <<>>, p.sections, p.err)
         /\ \A s : [p EXCEPT !.open = FALSE, !.sections = Append(@, s)]
                     = Parse(FALSE, p.name, p.recs, Append(p.sections, s), p.err)
         /\ \A r : [p EXCEPT !.recs = Append(@, r)] = Parse(p.open, p.name, Append(p.recs, r), p.sections, p.err)
<1>. DEFINE o == p.open
            m == p.name
            rs == p.recs
            ss == p.sections
            e == p.err
            yes == TRUE
            no == FALSE
<1>1. p = [open |-> o, name |-> m, recs |-> rs, sections |-> ss, err |-> e]
  BY ParseFields DEF Parse
<1>. HIDE DEF o, m, rs, ss, e, yes, no
<1>2. \A why : [p EXCEPT !.err = why] = Parse(o, m, rs, ss, why)
  BY <1>1 DEF Parse
<1>3. ASSUME NEW name
      PROVE  [p EXCEPT !.open = yes, !.name = name, !.recs = <<>>] = Parse(yes, name, <<>>, ss, e)
  <2>. DEFINE p1 == [p EXCEPT !.open = yes]
              p2 == [p1 EXCEPT !.name = name]
              p3 == [p2 EXCEPT !.recs = <<>>]
              q == [p EXCEPT !.open = yes, !.name = name, !.recs = <<>>]
  <2>1. p1 = [open |-> yes, name |-> m, recs |-> rs, sections |-> ss, err |-> e]
    BY <1>1
  <2>2. q = p3
    OBVIOUS
  <2>. HIDE DEF p1, q
  <2>3. p2 = [open |-> yes, name |-> name, recs |-> rs, sections |-> ss, err |-> e]
    BY <2>1
  <2>. HIDE DEF p2
  <2>4. p3 = [open |-> yes, name |-> name, recs |-> <<>>, sections |-> ss, err |-> e]
    BY <2>3
  <2>5. q = Parse(yes, name, <<>>, ss, e)
    BY <2>2, <2>4 DEF Parse
  <2>. QED BY <2>5 DEF q
<1>4. ASSUME NEW s
      PROVE  [p EXCEPT !.open = no, !.sections = Append(@, s)] = Parse(no, m, rs, Append(ss, s), e)
  <2>. DEFINE p1 == [p EXCEPT !.open = no]
              p2 == [p1 EXCEPT !.sections = Append(@, s)]
              q == [p EXCEPT !.open = no, !.sections = Append(@, s)]
  <2>1. p1 = [open |-> no, name |-> m, recs |-> rs, sections |-> ss, err |-> e]
    BY <1>1
  <2>2. q = p2
    OBVIOUS
  <2>. DEFINE t == Append(ss, s)
  <2>. HIDE DEF p1, q
  <2>3. p2 = [open |-> no, name |-> m, recs |-> rs, sections |-> t, err |-> e]
    <3>1. p2 = [p1 EXCEPT !.sections = t]
      BY <2>1
    <3>. HIDE DEF t, p2
    <3>. QED BY ONLY <2>1, <3>1
  <2>. HIDE DEF t, p2
  <2>4. q = Parse(no, m, rs, Append(ss, s), e)
    BY <2>2, <2>3 DEF Parse, t
  <2>. QED BY <2>4 DEF q
<1>5. ASSUME NEW r PROVE [p EXCEPT !.recs = Append(@, r)] = Parse(o, m, Append(rs, r), ss, e)
  <2>. DEFINE t == Append(rs, r)
              q == [p EXCEPT !.recs = t]
  <2>1. [p EXCEPT !.recs = Append(@, r)] = q
    BY <1>1
  <2>. HIDE DEF t
  <2>2. q = [open |-> o, name |-> m, recs |-> t, sections |-> ss, err |-> e]
    BY ONLY <1>1
  <2>. HIDE DEF q
  <2>3. q = Parse(o, m, t, ss, e)
    BY <2>2 DEF Parse
  <2>. QED BY <2>1, <2>3 DEF t
<1>. QED BY <1>2, <1>3, <1>4, <1>5 DEF o, m, rs, ss, e, yes, no

LEMMA ParseCases ==
  ASSUME NEW p \in Parses
  PROVE  /\ \A name \in AnyName : ReadHeader(p, name)
         /\ ReadEnd(p)
         /\ \A r \in Recs : ReadRec(p, r)
<1>. DEFINE bad(why) == [p EXCEPT !.err = why]
            opened(name) == [p EXCEPT !.open = TRUE, !.name = name, !.recs = <<>>]
            closed(s) == [p EXCEPT !.open = FALSE, !.sections = Append(@, s)]
            more(r) == [p EXCEPT !.recs = Append(@, r)]
<1>1. \A ln : ParseLine(p, ln) =
        CASE p.err # "none" -> p
          [] p.err = "none" /\ ln[1].word = "section" ->
               IF p.open THEN bad("nested section") ELSE opened(IF Len(ln) > 1 THEN ln[2].word ELSE "")
          [] p.err = "none" /\ ln = <<W("endsec")>> ->
               IF ~p.open THEN bad("endsec without section") ELSE closed([name |-> p.name, recs |-> p.recs])
          [] OTHER ->
               IF ~p.open THEN bad("outside section")
               ELSE IF ParseRecord(ln).err # "none" THEN bad(ParseRecord(ln).err) ELSE more(ParseRecord(ln).rec)
  BY DEF ParseLine
<1>2. /\ \A why : bad(why) = Parse(p.open, p.name, p.recs, p.sections, why)
      /\ \A name : opened(name) = Parse(TRUE, name, <<>>, p.sections, p.err)
      /\ \A s : closed(s) = Parse(FALSE, p.name, p.recs, Append(p.sections, s), p.err)
      /\ \A r : more(r) = Parse(p.open, p.name, Append(p.recs, r), p.sections, p.err)
  BY ParseChanges
<1>. HIDE DEF bad, opened, closed, more
<1>3. ASSUME NEW name \in AnyName PROVE ReadHeader(p, name)
  <2>. DEFINE ln == Header(name)
  <2>1. ln[1].word = "section" /\ Len(ln) = 2 /\ ln[2].word = name /\ ln # <<W("endsec")>>
    BY SomeWords DEF Header
  <2>. HIDE DEF ln
  <2>2. ParseLine(p, ln) = IF p.err # "none" THEN p ELSE IF p.open THEN bad("nested section") ELSE opened(name)
    <3>1. (IF Len(ln) > 1 THEN ln[2].word ELSE "") = name
      BY <2>1
    <3>2. ParseLine(p, ln) = IF p.err # "none" THEN p ELSE IF p.open THEN bad("nested section")
                             ELSE opened(IF Len(ln) > 1 THEN ln[2].word ELSE "")
      BY <1>1, <2>1
    <3>. QED BY <3>1, <3>2
  <2>. QED BY <1>2, <2>2 DEF ReadHeader, ln
<1>4. ReadEnd(p)
  <2>. DEFINE ln == Endsec
  <2>1. ln[1].word = "endsec" /\ ln = <<W("endsec")>>
    BY SomeWords DEF Endsec
  <2>. HIDE DEF ln
  <2>2. ParseLine(p, ln) = IF p.err # "none" THEN p ELSE IF ~p.open THEN bad("endsec without section")
                           ELSE closed([name |-> p.name, recs |-> p.recs])
    BY <1>1, <2>1
  <2>. QED BY <1>2, <2>2 DEF ReadEnd, ln
<1>5. ASSUME NEW r \in Recs PROVE ReadRec(p, r)
  <2>. DEFINE ln == RenderRec(r)
  <2>1. ln[1].word # "section" /\ ln # <<W("endsec")>> /\ ParseRecord(ln) = Read(r)
    BY RecordTrips
  <2>. HIDE DEF ln
  <2>2. ParseRecord(ln).err = "none" /\ ParseRecord(ln).rec = r
    BY <2>1 DEF Read
  <2>3. ParseLine(p, ln) = IF p.err # "none" THEN p ELSE IF ~p.open THEN bad("outside section") ELSE more(r)
    BY <1>1, <2>1, <2>2
  <2>. QED BY <1>2, <2>3 DEF ReadRec, ln
<1>. QED BY <1>3, <1>4, <1>5

LEMMA ParseLineIn ==
  ASSUME NEW p \in Parses, NEW ln \in ObjLines
  PROVE  ParseLine(p, ln) \in Parses
<1>1. /\ p.open \in BOOLEAN /\ p.name \in AnyName /\ p.recs \in Seq(Recs) /\ p.sections \in Seq(Sections)
      /\ p.err \in {"none"} \cup ParseErrors
  BY ParseFields
<1>2. {"nested section", "endsec without section", "outside section"} \subseteq {"none"} \cup ParseErrors
  BY DEF ParseErrors
<1>3. TRUE \in BOOLEAN /\ FALSE \in BOOLEAN /\ <<>> \in Seq(Recs)
  OBVIOUS
<1>4. ASSUME NEW name \in AnyName PROVE ParseLine(p, Header(name)) \in Parses
  <2>1. ReadHeader(p, name)
    BY ParseCases
  <2>2. Parse(p.open, p.name, p.recs, p.sections, "nested section") \in Parses
    BY <1>1, <1>2, ParsesIn
  <2>3. Parse(TRUE, name, <<>>, p.sections, p.err) \in Parses
    BY <1>1, <1>3, ParsesIn
  <2>. QED BY <2>1, <2>2, <2>3 DEF ReadHeader
<1>5. ParseLine(p, Endsec) \in Parses
  <2>. DEFINE s == [name |-> p.name, recs |-> p.recs]
  <2>1. s \in Sections
    BY <1>1 DEF Sections
  <2>. HIDE DEF s
  <2>2. Append(p.sections, s) \in Seq(Sections)
    BY <1>1, <2>1
  <2>3. ReadEnd(p)
    BY ParseCases
  <2>. QED BY <1>1, <1>2, <1>3, <2>2, <2>3, ParsesIn DEF ReadEnd, s
<1>6. ASSUME NEW r \in Recs PROVE ParseLine(p, RenderRec(r)) \in Parses
  <2>1. Append(p.recs, r) \in Seq(Recs)
    BY <1>1
  <2>2. ReadRec(p, r)
    BY ParseCases
  <2>. QED BY <1>1, <1>2, <2>1, <2>2, ParsesIn DEF ReadRec
<1>. QED BY <1>4, <1>5, <1>6 DEF ObjLines

LEMMA ParseSteps ==
  ASSUME NEW ls \in Seq(ObjLines), NEW n \in Nat, n = Len(ls)
  PROVE  ParseRun(ls, n)
<1>. DEFINE seq == ls
            T == Parses
            base == Parsing
            op(q, i) == ParseLine(q, i)
            G == [z \in (1..n) \X T |-> op(z[2], seq[z[1]])]
            Eq(to) == to = [k \in 0..Len(seq) |-> IF k = 0 THEN base
                             ELSE CHOOSE r \in {op(q, seq[k]) : q \in {to[k - 1]}} : TRUE]
            at == CHOOSE to : Eq(to)
<1>1. \A k \in 1..n, q \in T : ParseLine(q, ls[k]) \in T
  BY ParseLineIn
<1>2. base \in T
  BY DEF Parsing, Parses, AnyName, Texts
<1>3. Len(seq) = n /\ seq = ls
  OBVIOUS
<1>4. ParsedLines(ls) = at[Len(seq)]
  BY DEF ParsedLines, Along
<1>5. \A k \in 1..n, q \in T : G[<<k, q>>] = op(q, seq[k]) /\ op(q, seq[k]) = ParseLine(q, ls[k]) /\ G[<<k, q>>] \in T
  BY <1>1, <1>3
<1>. HIDE DEF G, T, base, seq, op
<1>6. PICK to \in [0..n -> T] : TheFold(to, n, T, base, G)
  BY <1>2, <1>5, FoldAlong
<1>7. \A k \in 1..n : to[k] = op(to[k - 1], seq[k]) /\ to[k - 1] \in T
  BY <1>5, <1>6 DEF TheFold
<1>8. to[0] = base
  BY <1>6 DEF TheFold
<1>9. Eq(to)
  BY <1>3, <1>7, <1>8
<1>. HIDE DEF Eq
<1>10. Eq(at)
  BY <1>9
<1>. HIDE DEF at
<1>11. FollowsFold(at, n, T, base, G)
  <2>1. Len(seq) = n
    BY <1>3
  <2>2. at = [k \in 0..n |-> IF k = 0 THEN base
                           ELSE CHOOSE r \in {op(q, seq[k]) : q \in {at[k - 1]}} : TRUE]
    BY ONLY <2>1, <1>10 DEF Eq
  <2>3. at[0] = base /\ at = [k \in 0..n |-> at[k]]
    BY ONLY <2>2, n \in Nat
  <2>4. \A k \in 1..n : at[k] = op(at[k - 1], seq[k])
    BY ONLY <2>2, n \in Nat
  <2>. QED BY ONLY <2>3, <2>4, <1>5 DEF FollowsFold
<1>12. at = to
  BY <1>6, <1>11 DEF TheFold
<1>13. \A k \in 1..n : to[k] = ParseLine(to[k - 1], ls[k])
  BY <1>5, <1>7
<1>. QED BY <1>3, <1>4, <1>8, <1>12, <1>13 DEF T, base, ParseRun
-----------------------------------------------------------------------------
LEMMA SectionLinesAre ==
  ASSUME NEW s \in Sections, NEW m \in Nat, m = Len(s.recs)
  PROVE  /\ RenderSection(s) = SectionLines(s)
         /\ SectionLines(s) \in Seq(ObjLines) /\ Len(SectionLines(s)) = m + 2
         /\ SectionLines(s)[1] = Header(s.name) /\ SectionLines(s)[m + 2] = Endsec
         /\ \A k \in 1..m : SectionLines(s)[k + 1] = RenderRec(s.recs[k])
         /\ s.name \in AnyName /\ \A k \in 1..m : s.recs[k] \in Recs
<1>. DEFINE h == Header(s.name)
            R(k) == RenderRec(s.recs[k])
            b == [k \in 1..m |-> R(k)]
            e == Endsec
<1>1. s.name \in AnyName /\ s.recs \in Seq(Recs)
  BY DEF Sections
<1>2. \A k \in 1..m : s.recs[k] \in Recs
  BY <1>1
<1>3. h \in ObjLines /\ e \in ObjLines /\ \A k \in 1..m : R(k) \in ObjLines
  BY <1>1, <1>2 DEF ObjLines
<1>4. SectionLines(s) = <<h>> \o b \o <<e>> /\ RenderSection(s) = SectionLines(s)
  BY DEF SectionLines, RenderSection, Header, Endsec
<1>. HIDE DEF h, R, e
<1>5. b \in Seq(ObjLines) /\ Len(b) = m /\ \A k \in 1..m : b[k] = R(k)
  BY <1>3
<1>. HIDE DEF b
<1>6. <<h>> \in Seq(ObjLines) /\ <<e>> \in Seq(ObjLines)
  BY <1>3
<1>. DEFINE x == <<h>> \o b
            y == x \o <<e>>
<1>7. x \in Seq(ObjLines) /\ Len(x) = m + 1 /\ x[1] = h /\ \A k \in 1..m : x[k + 1] = R(k)
  <2>1. x \in Seq(ObjLines) /\ Len(x) = m + 1
    BY <1>5, <1>6
  <2>2. x[1] = h
    BY <1>5
  <2>3. ASSUME NEW k \in 1..m PROVE x[k + 1] = R(k)
    BY <1>5
  <2>. QED BY <2>1, <2>2, <2>3
<1>. HIDE DEF x
<1>8. y \in Seq(ObjLines) /\ Len(y) = m + 2 /\ y[m + 2] = e /\ \A k \in 1..(m + 1) : y[k] = x[k]
  <2>0. <<e>> \in Seq(ObjLines) /\ Len(<<e>>) = 1 /\ <<e>>[1] = e
    BY <1>6
  <2>. DEFINE z == <<e>>
  <2>. HIDE DEF z
  <2>1. y \in Seq(ObjLines) /\ Len(y) = (m + 1) + 1
    BY <1>7, <2>0 DEF z
  <2>2. \A k \in 1..(m + 1) : (x \o z)[k] = x[k]
    BY <1>7, <2>0 DEF z
  <2>3. m + 2 \in 1..(Len(x) + Len(z)) /\ ~(m + 2 <= Len(x)) /\ (m + 2) - Len(x) = 1
    BY <1>7, <2>0 DEF z
  <2>4. (x \o z)[m + 2] = z[(m + 2) - Len(x)]
    BY <1>7, <2>0, <2>3 DEF z
  <2>5. (x \o z)[m + 2] = e
    BY <2>0, <2>3, <2>4 DEF z
  <2>6. (m + 1) + 1 = m + 2
    OBVIOUS
  <2>. QED BY <2>1, <2>2, <2>5, <2>6 DEF z
<1>9. y[1] = h /\ \A k \in 1..m : y[k + 1] = R(k)
  <2>1. 1 \in 1..(m + 1) /\ \A k \in 1..m : k + 1 \in 1..(m + 1)
    OBVIOUS
  <2>. HIDE DEF y
  <2>. QED BY <1>7, <1>8, <2>1
<1>10. SectionLines(s) = y
  BY <1>4 DEF x
<1>. HIDE DEF y
<1>. QED BY <1>1, <1>2, <1>4, <1>8, <1>9, <1>10 DEF h, R, e

\* One more line of a whole object.
LEMMA ReadOn ==
  ASSUME NEW o \in Seq(Sections), NEW p \in Parses, NEW m \in 0..Len(o), NEW t \in Nat, Reading(o, p, m, t), m < Len(o),
         NEW q, q = ParseLine(p, SectionLines(o[m + 1])[t + 1])
  PROVE  \/ t + 1 < Len(SectionLines(o[m + 1])) /\ Reading(o, q, m, t + 1)
         \/ t + 1 = Len(SectionLines(o[m + 1])) /\ Reading(o, q, m + 1, 0)
<1>. DEFINE s == o[m + 1]
            n == Len(s.recs)
            ln == SectionLines(s)[t + 1]
<1>1. s \in Sections /\ n \in Nat /\ m \in Nat /\ m + 1 \in 1..Len(o) /\ Len(o) \in Nat
  <2>1. Len(o) \in Nat /\ m \in Nat
    OBVIOUS
  <2>2. m + 1 \in 1..Len(o)
    BY <2>1
  <2>3. s \in Sections
    BY <2>2
  <2>. HIDE DEF s
  <2>4. s.recs \in Seq(Recs)
    BY <2>3 DEF Sections
  <2>5. n \in Nat
    BY <2>4
  <2>. QED BY <2>1, <2>2, <2>3, <2>5
<1>2. /\ Len(SectionLines(s)) = n + 2
      /\ SectionLines(s)[1] = Header(s.name) /\ SectionLines(s)[n + 2] = Endsec
      /\ \A k \in 1..n : SectionLines(s)[k + 1] = RenderRec(s.recs[k])
      /\ s.name \in AnyName /\ \A k \in 1..n : s.recs[k] \in Recs
  BY <1>1, SectionLinesAre
<1>3. p.err = "none" /\ p.sections = SubSeq(o, 1, m)
      /\ \/ t = 0 /\ p.open = FALSE
         \/ t \in 1..(n + 1) /\ p.open = TRUE /\ p.name = s.name /\ p.recs = SubSeq(s.recs, 1, t - 1)
  BY DEF Reading
<1>5. CASE t = 0
  <2>1. q = Parse(TRUE, s.name, <<>>, p.sections, p.err)
    <3>1. q = ParseLine(p, Header(s.name))
      BY <1>2, <1>5
    <3>2. ReadHeader(p, s.name)
      BY <1>2, ParseCases
    <3>3. p.open = FALSE /\ p.err = "none"
      BY <1>3, <1>5
    <3>. QED BY <3>1, <3>2, <3>3 DEF ReadHeader
  <2>2. SubSeq(s.recs, 1, 0) = <<>>
    BY <1>1 DEF Sections
  <2>3. t + 1 \in 1..(n + 1) /\ (t + 1) - 1 = 0 /\ t + 1 < n + 2
    BY <1>1, <1>5
  <2>. HIDE DEF s, n
  <2>4. q.open = TRUE /\ q.name = s.name /\ q.recs = <<>> /\ q.sections = p.sections /\ q.err = p.err
    BY <2>1 DEF Parse
  <2>5. q.err = "none" /\ q.sections = SubSeq(o, 1, m) /\ q.recs = SubSeq(s.recs, 1, (t + 1) - 1)
    BY <1>3, <2>2, <2>3, <2>4
  <2>. QED BY <1>2, <2>3, <2>4, <2>5 DEF Reading, s, n
<1>6. CASE t \in 1..n
  <2>0. /\ t + 1 \in 1..(n + 1) /\ (t + 1) - 1 = t /\ (t - 1) + 1 = t /\ t - 1 \in Nat /\ t - 1 < n /\ t + 1 < n + 2
        /\ p.open = TRUE /\ p.name = s.name /\ p.recs = SubSeq(s.recs, 1, t - 1)
    BY <1>1, <1>3, <1>6
  <2>1. q = Parse(p.open, p.name, Append(p.recs, s.recs[t]), p.sections, p.err)
    <3>1. q = ParseLine(p, RenderRec(s.recs[t]))
      BY <1>2, <1>6
    <3>2. ReadRec(p, s.recs[t])
      BY <1>2, <1>6, ParseCases
    <3>. QED BY <1>3, <2>0, <3>1, <3>2 DEF ReadRec
  <2>2. Append(p.recs, s.recs[t]) = SubSeq(s.recs, 1, t)
    <3>. DEFINE k == t - 1
                rs == s.recs
    <3>1. rs \in Seq(Recs) /\ k \in Nat /\ k < Len(rs) /\ k + 1 = t
      BY <1>1, <2>0 DEF Sections
    <3>. HIDE DEF k, rs
    <3>2. SubSeq(rs, 1, k + 1) = Append(SubSeq(rs, 1, k), rs[k + 1])
      BY <3>1, SubSeqGrows
    <3>. QED BY <2>0, <3>1, <3>2 DEF k, rs
  <2>. HIDE DEF s, n
  <2>3. q.open = p.open /\ q.name = p.name /\ q.recs = Append(p.recs, s.recs[t]) /\ q.sections = p.sections /\ q.err = p.err
    BY <2>1 DEF Parse
  <2>4. q.err = "none" /\ q.sections = SubSeq(o, 1, m) /\ q.open = TRUE /\ q.name = s.name /\ q.recs = SubSeq(s.recs, 1, (t + 1) - 1)
    BY <1>3, <2>0, <2>2, <2>3
  <2>. QED BY <1>2, <2>0, <2>4 DEF Reading, s, n
<1>7. CASE t = n + 1
  <2>0. /\ t + 1 = n + 2 /\ t # 0 /\ t - 1 = n
        /\ p.open = TRUE /\ p.name = s.name /\ p.recs = SubSeq(s.recs, 1, n)
    BY <1>1, <1>3, <1>7
  <2>1. q = Parse(FALSE, p.name, p.recs, Append(p.sections, [name |-> p.name, recs |-> p.recs]), p.err)
    BY <1>2, <1>3, <2>0, ParseCases DEF ReadEnd
  <2>2. p.recs = s.recs /\ s = [name |-> s.name, recs |-> s.recs]
    <3>1. s.recs \in Seq(Recs) /\ s = [name |-> s.name, recs |-> s.recs]
      BY <1>1 DEF Sections
    <3>2. SubSeq(s.recs, 1, n) = s.recs
      <4>. DEFINE rs == s.recs
      <4>1. rs \in Seq(Recs) /\ n = Len(rs)
        BY <3>1
      <4>. HIDE DEF rs
      <4>. DEFINE ss == SubSeq(rs, 1, Len(rs))
      <4>2. Len(rs) \in Nat /\ ss \in Seq(Recs) /\ Len(ss) = Len(rs) /\ \A i \in 1..Len(rs) : ss[i] = rs[i]
        BY <4>1
      <4>. HIDE DEF ss
      <4>3. ss = rs
        BY <4>1, <4>2, SeqEqual
      <4>. QED BY <4>1, <4>3 DEF ss, rs
    <3>. QED BY <2>0, <3>1, <3>2
  <2>3. Append(p.sections, [name |-> p.name, recs |-> p.recs]) = SubSeq(o, 1, m + 1)
    <3>1. SubSeq(o, 1, m + 1) = Append(SubSeq(o, 1, m), o[m + 1])
      BY <1>1, SubSeqGrows
    <3>. HIDE DEF n
    <3>. QED BY <1>3, <2>0, <2>2, <3>1
  <2>. HIDE DEF s, n
  <2>4. q.open = FALSE /\ q.sections = Append(p.sections, [name |-> p.name, recs |-> p.recs]) /\ q.err = p.err
    BY <2>1 DEF Parse
  <2>5. q.err = "none" /\ q.sections = SubSeq(o, 1, m + 1)
    BY <1>3, <2>3, <2>4
  <2>. QED BY <1>2, <2>0, <2>4, <2>5 DEF Reading, s, n
<1>8. t = 0 \/ t \in 1..n \/ t = n + 1
  <2>. HIDE DEF s, n
  <2>. QED BY <1>1, <1>3
<1>. QED BY <1>5, <1>6, <1>7, <1>8
-----------------------------------------------------------------------------
LEMMA RenderedIs ==
  ASSUME NEW o \in Seq(Sections), NEW n \in Nat, n = Len(o)
  PROVE  /\ RenderObject(o) = <<FirstLine>> \o FlattenSeq(SectionsLines(o))
         /\ SectionsLines(o) \in Seq(Seq(ObjLines)) /\ Len(SectionsLines(o)) = n
         /\ \A k \in 1..n : SectionsLines(o)[k] = SectionLines(o[k])
         /\ FlattenSeq(SectionsLines(o)) \in Seq(ObjLines)
<1>. DEFINE ss == SectionsLines(o)
<1>1. \A k \in 1..n : o[k] \in Sections
  OBVIOUS
<1>2. \A k \in 1..n : RenderSection(o[k]) = SectionLines(o[k]) /\ SectionLines(o[k]) \in Seq(ObjLines)
  <2>. TAKE k \in 1..n
  <2>. DEFINE s == o[k]
              m == Len(s.recs)
  <2>1. s \in Sections
    BY <1>1
  <2>. HIDE DEF s
  <2>2. s.recs \in Seq(Recs)
    BY <2>1 DEF Sections
  <2>3. m \in Nat
    BY <2>2
  <2>. HIDE DEF m
  <2>4. m = Len(s.recs)
    BY DEF m
  <2>5. RenderSection(s) = SectionLines(s) /\ SectionLines(s) \in Seq(ObjLines)
    BY <2>1, <2>3, <2>4, SectionLinesAre
  <2>. QED BY <2>5 DEF s
<1>3. ss = [k \in 1..n |-> SectionLines(o[k])] /\ ss = [k \in 1..Len(o) |-> RenderSection(o[k])]
  BY <1>2 DEF SectionsLines
<1>4. ss \in Seq(Seq(ObjLines)) /\ Len(ss) = n /\ \A k \in 1..n : ss[k] = SectionLines(o[k])
  BY <1>2, <1>3
<1>5. RenderObject(o) = <<FirstLine>> \o FlattenSeq(ss)
  <2>. HIDE DEF ss
  <2>. QED BY <1>3 DEF RenderObject, FirstLine
<1>. HIDE DEF ss
<1>6. FlattenSeq(ss) \in Seq(ObjLines)
  BY <1>4, FlattenIn
<1>. QED BY <1>4, <1>5, <1>6 DEF ss

LEMMA ParsedFileHas ==
  ASSUME NEW sections, NEW why
  PROVE  ParsedFile(sections, why).sections = sections /\ ParsedFile(sections, why).err = why
BY DEF ParsedFile

LEMMA ReadAlong ==
  ASSUME NEW o \in Seq(Sections), NEW n \in Nat, n = Len(o), NEW L, StandsAt(SectionsLines(o), L, n),
         NEW c \in Nat, c <= L[n], NEW ls, NEW to \in [0..c -> Parses], to[0] = Parsing,
         \A k \in 1..c : to[k] = ParseLine(to[k - 1], ls[k]),
         \A k \in 1..c : ls[k] = FlattenSeq(SectionsLines(o))[k]
  PROVE  Stands(o, L, to[c], c)
<1>. DEFINE ss == SectionsLines(o)
            U == {j \in Nat : j <= c => Stands(o, L, to[j], j)}
<1>1. /\ L \in [0..n -> Nat] /\ L[0] = 0
      /\ \A k \in 1..n : L[k] = L[k - 1] + Len(ss[k])
      /\ \A k \in 1..n : \A t \in 1..Len(ss[k]) : FlattenSeq(ss)[L[k - 1] + t] = ss[k][t]
  BY DEF StandsAt
<1>2. \A k \in 1..n : ss[k] = SectionLines(o[k])
  BY RenderedIs
<1>. HIDE DEF ss
<1>3. 0 \in U
  <2>0. SubSeq(o, 1, 0) = <<>>
    OBVIOUS
  <2>1. Parsing.err = "none" /\ Parsing.open = FALSE /\ Parsing.sections = SubSeq(o, 1, 0)
    BY <2>0 DEF Parsing
  <2>2. Reading(o, to[0], 0, 0)
    BY <2>1 DEF Reading
  <2>3. 0 = L[0] + 0 /\ 0 \in 0..Len(o) /\ 0 \in Nat
    BY <1>1
  <2>4. Stands(o, L, to[0], 0)
    BY <2>2, <2>3 DEF Stands
  <2>. QED BY <2>4
<1>4. ASSUME NEW j \in Nat, j \in U PROVE j + 1 \in U
  <2>. SUFFICES ASSUME j + 1 <= c PROVE Stands(o, L, to[j + 1], j + 1)
    OBVIOUS
  <2>1. Stands(o, L, to[j], j) /\ j \in 0..c /\ j + 1 \in 1..c /\ (j + 1) - 1 = j
    BY <1>4
  <2>2. PICK m \in 0..n, t \in Nat : j = L[m] + t /\ Reading(o, to[j], m, t)
    BY <2>1 DEF Stands
  <2>3. m \in Nat /\ L[m] \in Nat /\ m <= n
    BY <1>1
  <2>4. m < n
    <3>. SUFFICES ASSUME m = n PROVE FALSE
      BY <2>3
    <3>1. t = 0
      BY <2>2, <2>3 DEF Reading
    <3>. QED BY <2>2, <2>3, <3>1
  <2>. DEFINE x == m + 1
              b == SectionLines(o[x])
  <2>5. x \in 1..n /\ x - 1 = m /\ ss[x] = b /\ L[x] = L[m] + Len(b)
    <3>1. x \in 1..n /\ x - 1 = m
      BY <2>3, <2>4
    <3>. HIDE DEF x
    <3>2. ss[x] = b
      BY <1>2, <3>1
    <3>3. L[x] = L[x - 1] + Len(ss[x])
      BY <1>1, <3>1
    <3>. QED BY <3>1, <3>2, <3>3
  <2>6. Len(b) \in Nat /\ t + 1 \in 1..Len(b)
    <3>. DEFINE s == o[x]
                r == Len(s.recs)
    <3>1. s \in Sections
      BY <2>5
    <3>2. s.recs \in Seq(Recs)
      BY <3>1 DEF Sections
    <3>3. r \in Nat
      BY <3>2
    <3>4. Len(b) = r + 2
      <4>. HIDE DEF s
      <4>1. r = Len(s.recs)
        OBVIOUS
      <4>. HIDE DEF r
      <4>2. Len(SectionLines(s)) = r + 2
        BY <3>1, <3>3, <4>1, SectionLinesAre
      <4>. QED BY <4>2 DEF s
    <3>5. t = 0 \/ t \in 1..(r + 1)
      BY <2>2 DEF Reading
    <3>. HIDE DEF s, r, b
    <3>. QED BY <3>3, <3>4, <3>5
  <2>7. to[j + 1] = ParseLine(to[j], b[t + 1])
    <3>1. to[j + 1] = ParseLine(to[j], ls[j + 1]) /\ ls[j + 1] = FlattenSeq(ss)[j + 1]
      BY <2>1 DEF ss
    <3>2. FlattenSeq(ss)[L[x - 1] + (t + 1)] = ss[x][t + 1]
      BY <1>1, <2>5, <2>6
    <3>3. L[x - 1] + (t + 1) = j + 1
      <4>1. L[x - 1] = L[m]
        BY <2>5
      <4>. DEFINE v == L[m]
      <4>2. j = v + t /\ v \in Nat /\ L[x - 1] = v
        BY <2>2, <2>3, <4>1
      <4>. HIDE DEF v, x
      <4>. QED BY <4>2
    <3>. QED BY <2>5, <3>1, <3>2, <3>3
  <2>. DEFINE p == to[j]
              q == to[j + 1]
  <2>8. p \in Parses /\ m \in 0..Len(o) /\ m < Len(o) /\ Reading(o, p, m, t) /\ q = ParseLine(p, SectionLines(o[m + 1])[t + 1])
    BY <2>1, <2>2, <2>4, <2>7
  <2>. HIDE DEF p, q
  <2>9. \/ t + 1 < Len(SectionLines(o[m + 1])) /\ Reading(o, q, m, t + 1)
        \/ t + 1 = Len(SectionLines(o[m + 1])) /\ Reading(o, q, m + 1, 0)
    BY <2>8, ReadOn
  <2>10. CASE Reading(o, q, m, t + 1)
    <3>1. j + 1 = L[m] + (t + 1) /\ t + 1 \in Nat
      BY <2>2, <2>3
    <3>. QED BY <2>8, <2>10, <3>1 DEF Stands, q
  <2>11. CASE t + 1 = Len(b) /\ Reading(o, q, x, 0)
    <3>1. j + 1 = L[x] + 0 /\ 0 \in Nat /\ x \in 0..Len(o)
      <4>. DEFINE v == L[m]
                  u == Len(b)
      <4>1. j = v + t /\ v \in Nat /\ L[x] = v + u /\ u \in Nat /\ t + 1 = u
        BY <2>2, <2>3, <2>5, <2>6, <2>11
      <4>2. x \in 1..n /\ n = Len(o)
        BY <2>5
      <4>. HIDE DEF v, u, x, b
      <4>. QED BY <4>1, <4>2
    <3>. HIDE DEF x
    <3>. QED BY <2>11, <3>1 DEF Stands, q
  <2>. QED BY <2>9, <2>10, <2>11
<1>. HIDE DEF U
<1>5. \A j \in Nat : j \in U
  BY <1>3, <1>4, SetInduction
<1>. QED BY <1>5 DEF U

\* The first n lines of an object: refused, or some of its sections.
LEMMA ObjectTrips ==
  ASSUME NEW o \in Seq(Sections), NEW n \in 0..Len(RenderObject(o)), NEW doc, doc = SubSeq(RenderObject(o), 1, n)
  PROVE  /\ ParseObject(doc).err \in {"none"} \cup CutErrors
         /\ ParseObject(doc).err = "none" =>
              \E m \in 0..Len(o) : ParseObject(doc).sections = Reverse(SubSeq(o, 1, m))
<1>. DEFINE k == Len(o)
            ss == SectionsLines(o)
            f == FlattenSeq(ss)
            all == RenderObject(o)
            ls == Tail(doc)
            p == ParsedLines(ls)
<1>1. k \in Nat
  OBVIOUS
<1>2. all = <<FirstLine>> \o f /\ ss \in Seq(Seq(ObjLines)) /\ Len(ss) = k /\ f \in Seq(ObjLines)
  <2>. HIDE DEF k
  <2>1. k = Len(o)
    BY DEF k
  <2>. QED BY <1>1, <2>1, RenderedIs
<1>3. CASE n = 0
  <2>1. doc = <<>>
    BY <1>3
  <2>2. ParseObject(doc) = ParsedFile(<<>>, "empty object file")
    BY <2>1 DEF ParseObject, ParsedFile
  <2>3. ParseObject(doc).err = "empty object file"
    BY <2>2, ParsedFileHas
  <2>. QED BY <2>3 DEF CutErrors
<1>4. CASE n # 0
  <2>1. Len(all) = Len(f) + 1 /\ Len(f) \in Nat
    <3>. HIDE DEF f, all
    <3>. DEFINE h == <<FirstLine>>
    <3>1. h \in Seq({FirstLine}) /\ Len(h) = 1
      OBVIOUS
    <3>. HIDE DEF h
    <3>2. all = h \o f
      BY <1>2 DEF h
    <3>. QED BY <1>2, <3>1, <3>2
  <2>2. n \in 1..(Len(f) + 1)
    BY <1>4, <2>1
  <2>3. /\ doc # <<>> /\ doc[1] = FirstLine
        /\ ls \in Seq(ObjLines) /\ Len(ls) = n - 1
        /\ \A i \in 1..(n - 1) : ls[i] = f[i]
    <3>1. f \in Seq(ObjLines) /\ all = <<FirstLine>> \o f /\ doc = SubSeq(all, 1, n)
      BY <1>2
    <3>. HIDE DEF f, all
    <3>. DEFINE h == FirstLine
    <3>. HIDE DEF h
    <3>2. CutText(ObjLines, SubSeq(<<h>> \o f, 1, n), h, f, n)
      BY <2>2, <3>1, CutOff
    <3>3. CutText(ObjLines, doc, FirstLine, f, n)
      BY <3>1, <3>2 DEF h
    <3>. QED BY <3>3 DEF CutText
  <2>. DEFINE c == n - 1
  <2>4. c \in Nat /\ c = Len(ls) /\ c <= Len(f)
    BY <2>1, <2>2, <2>3
  <2>. HIDE DEF k, f, ls, c
  <2>5. ParseRun(ls, c)
    BY <2>3, <2>4, ParseSteps
  <2>6. PICK to \in [0..c -> Parses] :
          /\ to[0] = Parsing
          /\ \A i \in 1..c : to[i] = ParseLine(to[i - 1], ls[i])
          /\ ParsedLines(ls) = to[c]
    BY <2>5 DEF ParseRun
  <2>. HIDE DEF ss
  <2>7. PICK L : StandsAt(ss, L, k)
    BY <1>1, <1>2, FlattenAt
  <2>8. Len(f) = L[k]
    BY <2>7 DEF StandsAt, f
  <2>9. Stands(o, L, to[c], c)
    <3>1. StandsAt(SectionsLines(o), L, k)
      BY <2>7 DEF ss
    <3>2. c <= L[k] /\ k = Len(o)
      BY <2>4, <2>8 DEF k
    <3>3. \A i \in 1..c : ls[i] = FlattenSeq(SectionsLines(o))[i]
      BY <2>3 DEF c, f, ss
    <3>. QED BY <1>1, <2>4, <2>6, <3>1, <3>2, <3>3, ReadAlong
  <2>10. PICK m \in 0..Len(o) : p.err = "none" /\ p.sections = SubSeq(o, 1, m) /\ p.open \in BOOLEAN
    <3>1. p = to[c] /\ to[c] \in Parses
      BY <2>4, <2>6
    <3>2. p.open \in BOOLEAN
      BY <3>1, ParseFields
    <3>. HIDE DEF p
    <3>. QED BY <2>9, <3>1, <3>2 DEF Stands, Reading
  <2>11. p = Along(ParseLine, Parsing, Tail(doc))
    BY DEF ParsedLines, ls
  <2>. HIDE DEF p
  <2>12. ParseObject(doc) = IF p.open THEN ParsedFile(<<>>, "unterminated section")
                             ELSE ParsedFile(Reverse(p.sections), "none")
    BY <2>3, <2>10, <2>11 DEF ParseObject, FirstLine, ParsedFile
  <2>13. CASE p.open
    <3>1. ParseObject(doc) = ParsedFile(<<>>, "unterminated section")
      BY <2>12, <2>13
    <3>2. ParseObject(doc).err = "unterminated section"
      BY <3>1, ParsedFileHas
    <3>. QED BY <3>2 DEF CutErrors
  <2>14. CASE ~p.open
    BY <2>10, <2>12, <2>14, ParsedFileHas
  <2>. QED BY <2>10, <2>13, <2>14
<1>. QED BY <1>3, <1>4
-----------------------------------------------------------------------------
\* Each of the two stages fails in its own ways only.
LEMMA NotLed ==
  ASSUME NEW files, NEW l \in SourceLine, NEW seen, NEW g, ~Leads1(files, l, seen)
  PROVE  \/ IncludeLine(files, l, seen, g) = Lines(<<l>>)
         \/ IncludeLine(files, l, seen, g) = Wrong("circular %include")
         \/ IncludeLine(files, l, seen, g) = Wrong("cannot open")
<1>1. ~Is(l, "%include") \/ NameIn(l, 1) \in seen \/ NameIn(l, 1) \notin DOMAIN files
  BY DEF Leads1
<1>. QED BY <1>1, IncludeLineCases

LEMMA IncludedFails ==
  ASSUME NEW files, AreFiles(files), NEW x \in Asked(files)
  PROVE  Included(files)[x].err \in {"none"} \cup IncludeErrors
<1>. DEFINE X == Asked(files)
            m == Left(files)
            inc == Included(files)
            S == {y \in X : inc[y].err \in {"none"} \cup IncludeErrors}
<1>1. m \in [X -> Nat] /\ \A y \in X : inc[y] \in Results
  BY LeftIsNat, IncludedIs
<1>2. \A y \in X : (\A z \in X : m[z] < m[y] => z \in S) => y \in S
  <2>. SUFFICES ASSUME NEW y \in X, \A z \in X : m[z] < m[y] => z \in S, inc[y].err # "none"
                PROVE  inc[y].err \in IncludeErrors
    OBVIOUS
  <2>2. inc[y] = FileResult(files, y, inc)
    BY IncludedIs
  <2>3. /\ FileResult(files, y, inc).err # "none" =>
               \E i \in 1..Len(files[y[1]]) :
                 FileResult(files, y, inc).err = IncludeLine(files, files[y[1]][i], y[2], inc).err
        /\ Len(files[y[1]]) \in Nat /\ \A i \in 1..Len(files[y[1]]) : files[y[1]][i] \in SourceLine
    BY <1>1, FileResultIn, FileLines
  <2>4. PICK i \in 1..Len(files[y[1]]) : IncludeLine(files, files[y[1]][i], y[2], inc).err = inc[y].err
    BY <2>2, <2>3
  <2>5. PICK l \in SourceLine : l = files[y[1]][i]
    BY <2>3
  <2>6. IncludeLine(files, l, y[2], inc).err = inc[y].err
    BY <2>4, <2>5
  <2>7. CASE Leads1(files, l, y[2])
    <3>. DEFINE z == At1(l, y[2])
    <3>1. z \in X /\ m[z] < m[y]
      BY <2>7, FewerLeft DEF Leads1, At1
    <3>2. inc[At1(l, y[2])] \in Results
      BY <1>1, <3>1
    <3>3. IncludeLine(files, l, y[2], inc).err = inc[At1(l, y[2])].err
      <4>. DEFINE seen == y[2]
                  g == Included(files)
      <4>1. g[At1(l, seen)] \in Results /\ Leads1(files, l, seen)
        BY <2>7, <3>2
      <4>. HIDE DEF seen, g
      <4>2. IncludeLine(files, l, seen, g).err = g[At1(l, seen)].err
        BY <4>1, LedLine
      <4>. QED BY <4>2 DEF seen, g
    <3>. HIDE DEF z, X, m, inc
    <3>. QED BY <2>6, <3>1, <3>3 DEF z
  <2>8. CASE ~Leads1(files, l, y[2])
    <3>1. \/ IncludeLine(files, l, y[2], inc) = Lines(<<l>>)
          \/ IncludeLine(files, l, y[2], inc) = Wrong("circular %include")
          \/ IncludeLine(files, l, y[2], inc) = Wrong("cannot open")
      <4>. DEFINE seen == y[2]
                  g == Included(files)
      <4>1. ~Leads1(files, l, seen)
        BY <2>8
      <4>. HIDE DEF seen, g
      <4>. QED BY <4>1, NotLed DEF seen, g
    <3>2. \A why : Wrong(why).err = why
      BY DEF Wrong
    <3>3. Lines(<<l>>).err = "none"
      BY DEF Lines
    <3>. HIDE DEF inc
    <3>. QED BY <2>6, <3>1, <3>2, <3>3 DEF IncludeErrors
  <2>. QED BY <2>7, <2>8
<1>3. X \subseteq S
  <2>. HIDE DEF S, X, m
  <2>. QED BY <1>1, <1>2, MeasureInduction
<1>. QED BY <1>3

LEMMA ExpandedFails ==
  ASSUME NEW tab, AreMacros(tab), NEW x \in Lookups(tab)
  PROVE  Expanded(tab)[x].err \in {"none"} \cup ExpandErrors
<1>. DEFINE X == Lookups(tab)
            m == Others(tab)
            exp == Expanded(tab)
            S == {y \in X : exp[y].err \in {"none"} \cup ExpandErrors}
<1>1. m \in [X -> Nat] /\ \A y \in X : exp[y] \in Results
  BY OthersIsNat, ExpandedIs
<1>2. \A y \in X : (\A z \in X : m[z] < m[y] => z \in S) => y \in S
  <2>. SUFFICES ASSUME NEW y \in X, \A z \in X : m[z] < m[y] => z \in S, exp[y].err # "none"
                PROVE  exp[y].err \in ExpandErrors
    OBVIOUS
  <2>2. exp[y] = ExpandLine(y[1], tab, y[2], exp)
    BY ExpandedIs
  <2>3. CASE Called(tab, y)
    <3>2. \A z \in X : m[z] < m[y] => exp[z] \in Results
      BY <1>1
    <3>3. PICK i \in 1..Len(CallBody(tab, y)) : exp[Inside(tab, y, i)].err = exp[y].err
      BY <2>2, <2>3, <3>2, ExpandLineIn
    <3>4. Inside(tab, y, i) \in X /\ m[Inside(tab, y, i)] < m[y]
      BY <2>3, CalledLines
    <3>. HIDE DEF X, m, exp
    <3>. QED BY <3>3, <3>4
  <2>4. CASE ~Called(tab, y)
    <3>1. \/ ExpandLine(y[1], tab, y[2], exp) = Lines(<<y[1]>>)
          \/ ExpandLine(y[1], tab, y[2], exp) = Wrong("recursive macro")
          \/ ExpandLine(y[1], tab, y[2], exp) = Wrong("macro arguments")
      BY <2>4, ExpandLineCases
    <3>2. \A why : Wrong(why).err = why
      BY DEF Wrong
    <3>3. Lines(<<y[1]>>).err = "none"
      BY DEF Lines
    <3>. HIDE DEF exp
    <3>. QED BY <2>2, <3>1, <3>2, <3>3 DEF ExpandErrors
  <2>. QED BY <2>3, <2>4
<1>3. X \subseteq S
  <2>. HIDE DEF S, X, m
  <2>. QED BY <1>1, <1>2, MeasureInduction
<1>. QED BY <1>3

\* What the two stages hand on.
LEMMA IncludeStage ==
  ASSUME NEW files, AreFiles(files), NEW main \in DOMAIN files, NEW r, r = ExpandIncludes(files, main)
  PROVE  /\ r.lines \in Seq(SourceLine) /\ r.err \in {"none"} \cup IncludeErrors
         /\ r.err = "circular %include" => Cyclic(main, GraphOf(files))
         /\ r.err = "none" => ~Cyclic(main, GraphOf(files))
<1>1. r \in Results /\ (r.err = "circular %include" => Cyclic(main, GraphOf(files)))
      /\ (r.err = "none" => ~Cyclic(main, GraphOf(files)))
  BY IncludesDecided
<1>2. r.lines \in Seq(SourceLine)
  BY <1>1 DEF Results
<1>3. r.err \in {"none"} \cup IncludeErrors
  <2>. DEFINE x == <<main, {main}>>
  <2>1. x \in Asked(files)
    BY DEF Asked
  <2>2. ExpandIncludes(files, main) = Included(files)[x]
    BY DEF ExpandIncludes
  <2>. HIDE DEF x
  <2>. QED BY <2>1, <2>2, IncludedFails
<1>. QED BY <1>1, <1>2, <1>3

LEMMA ExpandStage ==
  ASSUME NEW tab, AreMacros(tab), NEW ls \in Seq(SourceLine),
         \A d \in tab : \A i \in 1..Len(d.def.body) : \E k \in 1..Len(ls) : d.def.body[i] = ls[k],
         NEW r, r = ExpandMacros(ls, tab)
  PROVE  /\ r.lines \in Seq(SourceLine) /\ r.err \in {"none"} \cup ExpandErrors
         /\ r.err = "recursive macro" /\ Written(tab) => \E c \in Macros(tab) : Cyclic(c, CallsOf(tab))
         /\ r.err = "none" /\ Written(tab) => \A c \in Macros(tab) : ~Cyclic(c, CallsOf(tab))
<1>1. /\ r \in Results
      /\ r.err = "recursive macro" /\ Written(tab) => \E c \in Macros(tab) : c \in Reached(c, CallsOf(tab))
      /\ r.err = "none" /\ Written(tab) => \A c \in Macros(tab) : c \notin Reached(c, CallsOf(tab))
  BY MacrosDecided
<1>2. r.lines \in Seq(SourceLine)
  BY <1>1 DEF Results
<1>3. r.err \in {"none"} \cup ExpandErrors
  <2>. DEFINE n == Len(ls)
              E(i) == Expanded(tab)[<<ls[i], {}>>]
              rs == [i \in 1..n |-> E(i)]
  <2>1. n \in Nat /\ \A i \in 1..n : ls[i] \in SourceLine
    BY LenIsNat
  <2>2. \A i \in 1..n : E(i) \in Results /\ E(i).err \in {"none"} \cup ExpandErrors
    <3>. TAKE i \in 1..n
    <3>. DEFINE x == <<ls[i], {}>>
    <3>1. x \in Lookups(tab)
      BY <2>1 DEF Lookups
    <3>. HIDE DEF x
    <3>2. Expanded(tab)[x] \in Results /\ Expanded(tab)[x].err \in {"none"} \cup ExpandErrors
      BY <3>1, ExpandedIs, ExpandedFails
    <3>. QED BY <3>2 DEF x
  <2>3. r = AllOf(rs)
    BY DEF ExpandMacros, Each
  <2>. HIDE DEF n, E
  <2>4. rs \in Seq(Results) /\ Len(rs) = n /\ \A i \in 1..n : rs[i] = E(i)
    BY <2>1, <2>2
  <2>. HIDE DEF rs
  <2>5. AllOf(rs).err # "none" => \E i \in 1..Len(rs) : AllOf(rs).err = rs[i].err
    BY <2>4, AllOfFacts
  <2>. QED BY <2>2, <2>3, <2>4, <2>5
<1>4. \A c \in Macros(tab) : c \in Reached(c, CallsOf(tab)) => Cyclic(c, CallsOf(tab))
  BY DEF Cyclic
<1>5. (\A c \in Macros(tab) : c \notin Reached(c, CallsOf(tab))) => \A c \in Macros(tab) : ~Cyclic(c, CallsOf(tab))
  BY DEF CallsOf, Cyclic
<1>. QED BY <1>1, <1>2, <1>3, <1>4, <1>5

\* The table is made of the lines it is collected from.
LEMMA CollectStage ==
  ASSUME NEW ls \in Seq(SourceLine), NEW r, r = CollectMacroDefs(ls)
  PROVE  /\ AreMacros(r.table) /\ r.err \in {"none"} \cup CollectErrors
         /\ \A d \in r.table : \A i \in 1..Len(d.def.body) : \E k \in 1..Len(ls) : d.def.body[i] = ls[k]
BY CollectIn DEF Tables, Entries, AreMacros, Bodies
-----------------------------------------------------------------------------
(* The invariant: what each stage hands on.                                  *)

LEMMA LateNames ==
  ASSUME NEW e \in {"none"} \cup LateErrors
  PROVE  e # "circular %include" /\ e # "recursive macro"
<1>1. e \in {"none", "crash"} \cup CutErrors \cup FilterErrors => e # "circular %include" /\ e # "recursive macro"
  BY DEF CutErrors, FilterErrors
<1>2. e \in CollectErrors \cup AssignErrors => e # "circular %include" /\ e # "recursive macro"
  BY DEF CollectErrors, AssignErrors
<1>3. e \in EncodeErrors => e # "circular %include" /\ e # "recursive macro"
  BY DEF EncodeErrors
<1>. QED BY <1>1, <1>2, <1>3 DEF LateErrors

\* A stage behind the third changes neither the files nor the macros.
LEMMA JudgedLater ==
  ASSUME JudgedIncludes, JudgedCalls, source' = source, table' = table,
         stage \notin {"include", "collect", "expand", "failed"}, err' \in {"none"} \cup LateErrors
  PROVE  JudgedIncludes' /\ JudgedCalls'
<1>1. err' # "circular %include" /\ err' # "recursive macro"
  BY LateNames
<1>2. ~Cyclic(source.main, GraphOf(source.files))
  BY DEF JudgedIncludes
<1>3. Written(table) => \A m \in Macros(table) : ~Cyclic(m, CallsOf(table))
  BY DEF JudgedCalls
<1>4. JudgedIncludes'
  BY <1>1, <1>2 DEF JudgedIncludes
<1>5. JudgedCalls'
  BY <1>1, <1>3 DEF JudgedCalls
<1>. QED BY <1>4, <1>5

LEMMA Sourced ==
  ASSUME NEW s \in Sources
  PROVE  AreFiles(s.files) /\ s.main \in DOMAIN s.files /\ s.object \in BOOLEAN /\ s.cli \in Definitions
<1>1. s.cli \in Seq([name : STRING, val : Seq(Token)])
  BY SourcesAssumption
<1>2. [name : STRING, val : Seq(Token)] \subseteq Definition
  BY DEF Definition, Texts
<1>3. s.cli \in Definitions
  BY <1>1, <1>2, WiderSeq DEF Definitions
<1>. QED BY <1>3, SourcesAssumption DEF AreFiles

LEMMA IncludeKeeps == ASSUME IInv, Include PROVE IInv'
<1>. DEFINE r == ExpandIncludes(source.files, source.main)
<1>1. stage = "include" /\ source \in Sources /\ AreMacros(table)
  BY DEF Include, IInv, Typed
<1>2. lines' = r.lines /\ Goto("collect", r.err)
      /\ UNCHANGED <<source, table, defs, stmts, relaxing, output>>
  BY DEF Include
<1>3. source' = source /\ table' = table /\ defs' = defs /\ stmts' = stmts /\ chunk' = chunk /\ rest' = rest
      /\ rounds' = rounds /\ skips' = skips /\ obj' = obj
  BY <1>2 DEF relaxing, output
<1>. HIDE DEF r
<1>4. /\ r.lines \in Seq(SourceLine) /\ r.err \in {"none"} \cup IncludeErrors
      /\ r.err = "circular %include" => Cyclic(source.main, GraphOf(source.files))
      /\ r.err = "none" => ~Cyclic(source.main, GraphOf(source.files))
  <2>. DEFINE f == source.files
              m == source.main
  <2>1. AreFiles(f) /\ m \in DOMAIN f /\ r = ExpandIncludes(f, m)
    BY <1>1, Sourced DEF r
  <2>. HIDE DEF f, m
  <2>2. /\ r.lines \in Seq(SourceLine) /\ r.err \in {"none"} \cup IncludeErrors
        /\ r.err = "circular %include" => Cyclic(m, GraphOf(f))
        /\ r.err = "none" => ~Cyclic(m, GraphOf(f))
    BY <2>1, IncludeStage
  <2>. QED BY <2>2 DEF f, m
<1>5. err' = r.err /\ stage' \in {"collect", "failed"} /\ (stage' = "failed" <=> err' # "none")
  BY <1>2 DEF Goto
<1>6. Typed'
  BY <1>3, <1>4, <1>2, <1>5 DEF IInv, Typed, Stages
<1>7. Routed'
  BY <1>5 DEF Routed
<1>8. MadeOfLines' /\ CutFile'
  BY <1>5 DEF MadeOfLines, CutFile
<1>9. JudgedIncludes'
  BY <1>3, <1>4, <1>5 DEF JudgedIncludes
<1>10. JudgedCalls'
  BY <1>4, <1>5 DEF JudgedCalls, IncludeErrors
<1>. QED BY <1>6, <1>7, <1>8, <1>9, <1>10 DEF IInv

LEMMA CollectKeeps == ASSUME IInv, Collect PROVE IInv'
<1>. DEFINE r == CollectMacroDefs(lines)
<1>1. stage = "collect" /\ lines \in Seq(SourceLine) /\ JudgedIncludes
  BY DEF Collect, IInv, Typed
<1>2. table' = r.table /\ Goto("expand", r.err)
      /\ UNCHANGED <<source, lines, defs, stmts, relaxing, output>>
  BY DEF Collect
<1>3. source' = source /\ lines' = lines /\ defs' = defs /\ stmts' = stmts /\ chunk' = chunk /\ rest' = rest
      /\ rounds' = rounds /\ skips' = skips /\ obj' = obj
  BY <1>2 DEF relaxing, output
<1>. HIDE DEF r
<1>4. /\ AreMacros(r.table) /\ r.err \in {"none"} \cup CollectErrors
      /\ \A d \in r.table : \A i \in 1..Len(d.def.body) : \E k \in 1..Len(lines) : d.def.body[i] = lines[k]
  BY <1>1, CollectStage DEF r
<1>5. err' = r.err /\ stage' \in {"expand", "failed"} /\ (stage' = "failed" <=> err' # "none")
  BY <1>2 DEF Goto
<1>6. Typed'
  <2>1. AreMacros(table')
    BY <1>2, <1>4
  <2>. QED BY <1>3, <1>5, <2>1 DEF IInv, Typed, Stages
<1>7. Routed'
  BY <1>5 DEF Routed
<1>8. CutFile'
  BY <1>5 DEF CutFile
<1>9. MadeOfLines'
  BY <1>2, <1>3, <1>4 DEF MadeOfLines
<1>10. err' # "circular %include" /\ err' # "recursive macro"
  BY <1>4, <1>5, LateNames DEF LateErrors
<1>11. JudgedIncludes'
  BY <1>1, <1>3, <1>10 DEF JudgedIncludes
<1>12. JudgedCalls'
  BY <1>5, <1>10 DEF JudgedCalls
<1>. QED BY <1>6, <1>7, <1>8, <1>9, <1>11, <1>12 DEF IInv

LEMMA ExpandKeeps == ASSUME IInv, Expand PROVE IInv'
<1>. DEFINE r == ExpandMacros(lines, table)
<1>1. stage = "expand" /\ lines \in Seq(SourceLine) /\ AreMacros(table) /\ JudgedIncludes
      /\ \A d \in table : \A i \in 1..Len(d.def.body) : \E k \in 1..Len(lines) : d.def.body[i] = lines[k]
  BY DEF Expand, IInv, Typed, MadeOfLines
<1>2. lines' = r.lines /\ Goto("strip", r.err)
      /\ UNCHANGED <<source, table, defs, stmts, relaxing, output>>
  BY DEF Expand
<1>3. source' = source /\ table' = table /\ defs' = defs /\ stmts' = stmts /\ chunk' = chunk /\ rest' = rest
      /\ rounds' = rounds /\ skips' = skips /\ obj' = obj
  BY <1>2 DEF relaxing, output
<1>. HIDE DEF r
<1>4. /\ r.lines \in Seq(SourceLine) /\ r.err \in {"none"} \cup ExpandErrors
      /\ r.err = "recursive macro" /\ Written(table) => \E c \in Macros(table) : Cyclic(c, CallsOf(table))
      /\ r.err = "none" /\ Written(table) => \A c \in Macros(table) : ~Cyclic(c, CallsOf(table))
  BY <1>1, ExpandStage DEF r
<1>5. err' = r.err /\ stage' \in {"strip", "failed"} /\ (stage' = "failed" <=> err' # "none")
  BY <1>2 DEF Goto
<1>6. Typed'
  <2>1. AreMacros(table') /\ lines' \in Seq(SourceLine)
    BY <1>1, <1>2, <1>3, <1>4
  <2>. QED BY <1>3, <1>5, <2>1 DEF IInv, Typed, Stages
<1>7. Routed'
  BY <1>5 DEF Routed
<1>8. CutFile' /\ MadeOfLines'
  BY <1>5 DEF CutFile, MadeOfLines
<1>9. JudgedIncludes'
  <2>1. ~Cyclic(source.main, GraphOf(source.files))
    BY <1>1 DEF JudgedIncludes
  <2>2. ~Cyclic(source'.main, GraphOf(source'.files))
    BY <1>3, <2>1
  <2>3. err' # "circular %include"
    BY <1>4, <1>5 DEF ExpandErrors
  <2>. QED BY <2>2, <2>3 DEF JudgedIncludes
<1>10. JudgedCalls'
  BY <1>3, <1>4, <1>5 DEF JudgedCalls
<1>. QED BY <1>6, <1>7, <1>8, <1>9, <1>10 DEF IInv

(* The stages behind the third.                                              *)

LEMMA LaterKeeps == ASSUME IInv, Later, Typed', CutFile' PROVE IInv'
BY JudgedLater DEF IInv, Later, Routed, MadeOfLines

LEMMA StripKeeps == ASSUME IInv, Strip PROVE IInv'
<1>1. stage = "strip" /\ lines' = StripLines(lines) /\ Goto("define", "none")
      /\ UNCHANGED <<source, table, defs, stmts, relaxing, output>>
  BY DEF Strip
<1>2. stage' = "define" /\ err' = "none"
  BY <1>1 DEF Goto
<1>3. Later
  BY <1>1, <1>2 DEF Later
<1>4. lines' \in Seq(SourceLine)
  BY <1>1, TakenIn DEF IInv, Typed, StripLines
<1>5. Typed'
  BY <1>1, <1>2, <1>4 DEF IInv, Typed, Stages, relaxing, output
<1>6. CutFile'
  BY <1>2 DEF CutFile
<1>. QED BY <1>3, <1>5, <1>6, LaterKeeps

LEMMA DefineKeeps == ASSUME IInv, Define PROVE IInv'
<1>. DEFINE more == IF source.object THEN source.cli ELSE <<>>
<1>1. stage = "define" /\ lines' = WithoutDefines(lines) /\ Goto("filter", "none")
      /\ UNCHANGED <<source, table, stmts, relaxing, output>>
  BY DEF Define
<1>2. defs' = AllDefines(DefineTable(lines), more)
  BY DEF Define, AllDefines
<1>3. stage' = "filter" /\ err' = "none"
  BY <1>1 DEF Goto
<1>4. Later
  BY <1>1, <1>3 DEF Later
<1>5. lines \in Seq(SourceLine) /\ source \in Sources
  BY DEF IInv, Typed
<1>6. lines' \in Seq(SourceLine)
  BY <1>1, <1>5, TakenIn DEF WithoutDefines
<1>7. defs' \in Definitions
  <2>1. more \in Definitions
    BY <1>5, Sourced DEF Definitions
  <2>. HIDE DEF more
  <2>. QED BY <1>2, <1>5, <2>1, DefinesIn
<1>8. Typed'
  BY <1>1, <1>3, <1>6, <1>7 DEF IInv, Typed, Stages, relaxing, output
<1>9. CutFile'
  BY <1>3 DEF CutFile
<1>. QED BY <1>4, <1>8, <1>9, LaterKeeps

LEMMA FilterKeeps == ASSUME IInv, Filter PROVE IInv'
<1>. DEFINE r == FilterConditionals(lines, defs)
<1>1. stage = "filter" /\ lines' = r.lines /\ Goto("substitute", r.err)
      /\ UNCHANGED <<source, table, defs, stmts, relaxing, output>>
  BY DEF Filter
<1>. HIDE DEF r
<1>2. err' = r.err /\ stage' \in {"substitute", "failed"} /\ (stage' = "failed" <=> err' # "none")
  BY <1>1 DEF Goto
<1>3. lines \in Seq(SourceLine)
  BY DEF IInv, Typed
<1>4. r.lines \in Seq(SourceLine) /\ r.err \in {"none"} \cup FilterErrors
  BY <1>3, FilterIn DEF r
<1>5. Later
  BY <1>1, <1>2, <1>4 DEF Later, LateErrors
<1>6. Typed'
  BY <1>1, <1>2, <1>4 DEF IInv, Typed, Stages, relaxing, output
<1>7. CutFile'
  BY <1>2 DEF CutFile
<1>. QED BY <1>5, <1>6, <1>7, LaterKeeps

LEMMA SubstKeeps == ASSUME IInv, Subst PROVE IInv'
<1>1. stage = "substitute" /\ lines' = Substitute(lines, defs) /\ Goto("layout", "none")
      /\ UNCHANGED <<source, table, defs, stmts, relaxing, output>>
  BY DEF Subst
<1>2. stage' = "layout" /\ err' = "none"
  BY <1>1 DEF Goto
<1>3. Later
  BY <1>1, <1>2 DEF Later
<1>4. lines' \in Seq(SourceLine)
  BY <1>1, SubstituteIn DEF IInv, Typed
<1>5. Typed'
  BY <1>1, <1>2, <1>4 DEF IInv, Typed, Stages, relaxing, output
<1>6. CutFile'
  BY <1>2 DEF CutFile
<1>. QED BY <1>3, <1>5, <1>6, LaterKeeps

LEMMA LayoutKeeps == ASSUME IInv, Layout PROVE IInv'
<1>. DEFINE g == AssignAddresses(lines, source.object)
            c == Chunks(g.stmts)
<1>1. stage = "layout" /\ lines \in Seq(SourceLine) /\ source \in Sources
  BY DEF Layout, IInv, Typed
<1>2. g.stmts \in Seq(Stmts(Nat)) /\ g.err \in {"none"} \cup AssignErrors
  <2>1. g \in Assignments
    BY <1>1, AssignAddressesIn
  <2>. HIDE DEF g
  <2>. QED BY <2>1 DEF Assignments
<1>3. /\ IF source.object
         THEN /\ Goto("emit", g.err)
              /\ stmts' = g.stmts
              /\ UNCHANGED relaxing
         ELSE /\ Goto(IF c = <<>> THEN "encode" ELSE "relax", g.err)
              /\ chunk' = IF c = <<>> THEN <<>> ELSE Head(c)
              /\ rest' = IF c = <<>> THEN <<>> ELSE Tail(c)
              /\ UNCHANGED <<stmts, rounds, skips>>
      /\ UNCHANGED <<front, output>>
  BY DEF Layout
<1>4. c \in Seq(Seq(Stmts(Nat)))
  <2>. DEFINE q == g.stmts
  <2>1. q \in Seq(Stmts(Nat))
    BY <1>2
  <2>. HIDE DEF q, g
  <2>2. Chunks(q) \in Seq(Seq(Stmts(Nat)))
    BY <2>1, ChunksIn
  <2>. QED BY <2>2 DEF q
<1>5. source.object \in BOOLEAN
  BY <1>1, Sourced
<1>. HIDE DEF g, c
<1>6. source' = source /\ table' = table /\ lines' = lines /\ defs' = defs /\ obj' = obj
  BY <1>3 DEF front, output
<1>7. CASE source.object
  <2>1. Goto("emit", g.err) /\ stmts' = g.stmts /\ UNCHANGED relaxing
    BY <1>3, <1>7
  <2>2. err' = g.err /\ stage' \in {"emit", "failed"} /\ (stage' = "failed" <=> err' # "none")
    BY <2>1 DEF Goto
  <2>3. Later
    BY <1>1, <1>2, <1>6, <1>7, <2>2 DEF Later, LateErrors
  <2>4. Typed'
    BY <1>2, <1>6, <2>1, <2>2 DEF IInv, Typed, Stages, relaxing
  <2>5. CutFile'
    BY <2>2 DEF CutFile
  <2>. QED BY <2>3, <2>4, <2>5, LaterKeeps
<1>8. CASE ~source.object
  <2>1. /\ Goto(IF c = <<>> THEN "encode" ELSE "relax", g.err)
        /\ chunk' = IF c = <<>> THEN <<>> ELSE Head(c)
        /\ rest' = IF c = <<>> THEN <<>> ELSE Tail(c)
        /\ UNCHANGED <<stmts, rounds, skips>>
    BY <1>3, <1>8
  <2>2. err' = g.err /\ stage' \in {"encode", "relax", "failed"} /\ (stage' = "failed" <=> err' # "none")
    BY <2>1 DEF Goto
  <2>3. Later
    BY <1>1, <1>2, <1>6, <1>8, <2>2 DEF Later, LateErrors
  <2>4. chunk' \in Seq(Stmts(Nat)) /\ rest' \in Seq(Seq(Stmts(Nat)))
    <3>1. CASE c = <<>>
      BY <2>1, <3>1
    <3>2. CASE c # <<>>
      BY <1>4, <2>1, <3>2, FrontFirst
    <3>. QED BY <3>1, <3>2
  <2>5. Typed'
    BY <1>6, <2>1, <2>2, <2>4 DEF IInv, Typed, Stages
  <2>6. CutFile'
    BY <1>6, <1>8, <2>2 DEF CutFile
  <2>. QED BY <2>3, <2>5, <2>6, LaterKeeps
<1>. QED BY <1>7, <1>8

LEMMA RelaxKeeps == ASSUME IInv, Relax PROVE IInv'
<1>. DEFINE bad == Violations(chunk)
<1>1. stage = "relax" /\ rounds < MaxRounds /\ rounds' = rounds + 1
      /\ chunk' = Recompute(Grow(chunk, bad, skips)) /\ skips' = skips + Cardinality(bad)
      /\ UNCHANGED <<front, stage, err, stmts, rest, output>>
  BY DEF Relax
<1>2. chunk \in Seq(Stmts(Nat)) /\ skips \in Nat /\ rounds \in 0..MaxRounds /\ Routed
  BY DEF IInv, Typed
<1>3. bad \in SUBSET (1..Len(chunk)) /\ \A i \in bad : Branch(chunk[i])
  BY ViolationsAre
<1>. HIDE DEF bad
<1>4. Grow(chunk, bad, skips) \in Seq(Stmts(Int)) /\ Cardinality(bad) \in Nat
  BY <1>2, <1>3, GrowIn
<1>5. chunk' \in Seq(Stmts(Nat)) /\ skips' \in Nat
  BY <1>1, <1>2, <1>4, RecomputeIn
<1>6. rounds' \in 0..MaxRounds
  BY <1>1, <1>2, RoundsAssumption
<1>7. stage' = "relax" /\ err' = "none" /\ ~source.object
  BY <1>1, <1>2 DEF Routed
<1>8. Later
  BY <1>1, <1>7 DEF Later, front
<1>9. Typed'
  BY <1>1, <1>5, <1>6, <1>7 DEF IInv, Typed, Stages, front, output
<1>10. CutFile'
  BY <1>7 DEF CutFile
<1>. QED BY <1>8, <1>9, <1>10, LaterKeeps

LEMMA SettleKeeps == ASSUME IInv, Settle PROVE IInv'
<1>1. /\ stage = "relax" /\ stmts' = stmts \o chunk /\ rounds' = 0 /\ skips' = 0
      /\ IF rest = <<>> THEN Goto("encode", "none") /\ chunk' = <<>> /\ UNCHANGED rest
         ELSE chunk' = Head(rest) /\ rest' = Tail(rest) /\ UNCHANGED <<stage, err>>
      /\ UNCHANGED <<front, output>>
  BY DEF Settle
<1>2. chunk \in Seq(Stmts(Nat)) /\ stmts \in Seq(Stmts(Nat)) /\ rest \in Seq(Seq(Stmts(Nat))) /\ Routed
  BY DEF IInv, Typed
<1>3. source' = source /\ table' = table /\ lines' = lines /\ defs' = defs /\ obj' = obj
      /\ ~source.object /\ err = "none"
  BY <1>1, <1>2 DEF Routed, front, output
<1>4. stmts' \in Seq(Stmts(Nat)) /\ rounds' \in 0..MaxRounds /\ skips' \in Nat
  BY <1>1, <1>2, RoundsAssumption
<1>5. CASE rest = <<>>
  <2>1. stage' = "encode" /\ err' = "none" /\ chunk' = <<>> /\ rest' = rest
    BY <1>1, <1>5 DEF Goto
  <2>2. chunk' \in Seq(Stmts(Nat)) /\ rest' \in Seq(Seq(Stmts(Nat)))
    BY <1>2, <2>1
  <2>3. Later
    BY <1>1, <1>3, <2>1 DEF Later
  <2>4. Typed'
    BY <1>3, <1>4, <2>1, <2>2 DEF IInv, Typed, Stages
  <2>5. CutFile'
    BY <2>1 DEF CutFile
  <2>. QED BY <2>3, <2>4, <2>5, LaterKeeps
<1>6. CASE rest # <<>>
  <2>1. stage' = "relax" /\ err' = "none" /\ chunk' = Head(rest) /\ rest' = Tail(rest)
    BY <1>1, <1>2, <1>6 DEF Routed
  <2>2. chunk' \in Seq(Stmts(Nat)) /\ rest' \in Seq(Seq(Stmts(Nat)))
    BY <1>2, <1>6, <2>1, FrontFirst
  <2>3. Later
    BY <1>1, <1>3, <2>1 DEF Later
  <2>4. Typed'
    BY <1>3, <1>4, <2>1, <2>2 DEF IInv, Typed, Stages
  <2>5. CutFile'
    BY <2>1 DEF CutFile
  <2>. QED BY <2>3, <2>4, <2>5, LaterKeeps
<1>. QED BY <1>5, <1>6

LEMMA EncodeKeeps == ASSUME IInv, EncodeAll PROVE IInv'
<1>. DEFINE codes == Codes
            bad == {i \in 1..Len(stmts) : codes[i].err # "none"}
<1>1. stage = "encode" /\ UNCHANGED <<front, stmts, relaxing, obj, text, back>>
      /\ \/ bad # {} /\ Goto("done", codes[Min(bad)].err)
         \/ Goto("done", "crash") \/ Goto("done", "none")
  BY DEF EncodeAll
<1>2. stmts \in Seq(Stmts(Nat)) /\ Routed
  BY DEF IInv, Typed
<1>3. codes \in Seq(Coded) /\ Len(codes) = Len(stmts)
  <2>. DEFINE labels == LabelsFrom(stmts)
  <2>1. labels \in LabelTables
    BY <1>2, StmtsWider, LabelsFromIn
  <2>. HIDE DEF labels
  <2>2. CodesOf(stmts, labels) \in Seq(Coded) /\ Len(CodesOf(stmts, labels)) = Len(stmts)
    BY <1>2, <2>1, CodesAre
  <2>. QED BY <2>2 DEF Codes, CodesOf, labels
<1>. HIDE DEF codes
<1>4. bad # {} => codes[Min(bad)].err \in EncodeErrors
  <2>1. bad = {i \in 1..Len(codes) : codes[i].err # "none"}
    BY <1>3
  <2>. HIDE DEF bad
  <2>. QED BY <1>3, <2>1, FirstErrorIn
<1>. HIDE DEF bad
<1>5. PICK why \in {"none"} \cup LateErrors : Goto("done", why)
  BY <1>1, <1>4 DEF LateErrors
<1>6. err' \in {"none"} \cup LateErrors /\ stage' \in {"done", "failed"} /\ (stage' = "failed" <=> err' # "none")
  BY <1>5 DEF Goto
<1>7. ~source.object
  BY <1>1, <1>2 DEF Routed
<1>8. Later
  BY <1>1, <1>6 DEF Later, front
<1>9. Typed'
  BY <1>1, <1>6 DEF IInv, Typed, Stages, front, relaxing
<1>10. CutFile'
  BY <1>1, <1>6, <1>7 DEF CutFile, front
<1>. QED BY <1>8, <1>9, <1>10, LaterKeeps

LEMMA EmitKeeps == ASSUME IInv, Emit PROVE IInv'
<1>. DEFINE o == EncodeToObject(stmts)
<1>1. stage = "emit" /\ Goto("write", o.err) /\ obj' = o.sections
      /\ UNCHANGED <<front, stmts, relaxing, image, text, back>>
  BY DEF Emit
<1>2. stmts \in Seq(Stmts(Nat)) /\ Routed
  BY DEF IInv, Typed
<1>3. o.sections \in Seq(Sections) /\ o.err \in {"none"} \cup EncodeErrors
  BY <1>2, ObjectIn
<1>. HIDE DEF o
<1>4. err' = o.err /\ stage' \in {"write", "failed"} /\ (stage' = "failed" <=> err' # "none") /\ source.object
  BY <1>1, <1>2 DEF Goto, Routed
<1>5. Later
  BY <1>1, <1>3, <1>4 DEF Later, LateErrors, front
<1>6. Typed'
  BY <1>1, <1>3, <1>4 DEF IInv, Typed, Stages, front, relaxing
<1>7. CutFile'
  BY <1>4 DEF CutFile
<1>. QED BY <1>5, <1>6, <1>7, LaterKeeps

LEMMA WriteKeeps == ASSUME IInv, Write PROVE IInv'
<1>. DEFINE all == RenderObject(obj)
<1>1. stage = "write" /\ Goto("read", "none") /\ UNCHANGED <<front, stmts, relaxing, image, obj, back>>
  BY DEF Write
<1>2. PICK n \in 0..Len(all) : text' = SubSeq(all, 1, n)
  BY DEF Write
<1>3. stage' = "read" /\ err' = "none" /\ source.object
  BY <1>1 DEF Goto, IInv, Routed
<1>4. Later
  BY <1>1, <1>3 DEF Later, front
<1>5. Typed'
  BY <1>1, <1>3 DEF IInv, Typed, Stages, front, relaxing
<1>6. CutFile'
  BY <1>1, <1>2, <1>3 DEF CutFile
<1>. QED BY <1>4, <1>5, <1>6, LaterKeeps

LEMMA ReadKeeps == ASSUME IInv, ReadBack PROVE IInv'
<1>. DEFINE r == ParseObject(text)
<1>1. stage = "read" /\ Goto("done", r.err) /\ back' = r.sections
      /\ UNCHANGED <<front, stmts, relaxing, image, obj, text>>
  BY DEF ReadBack
<1>2. obj \in Seq(Sections) /\ CutFile
  BY DEF IInv, Typed
<1>3. PICK n \in 0..Len(RenderObject(obj)) : text = SubSeq(RenderObject(obj), 1, n)
  BY <1>1, <1>2 DEF CutFile
<1>4. /\ r.err \in {"none"} \cup CutErrors
      /\ r.err = "none" => \E m \in 0..Len(obj) : r.sections = Reverse(SubSeq(obj, 1, m))
  BY <1>2, <1>3, ObjectTrips
<1>. HIDE DEF r
<1>5. err' = r.err /\ stage' \in {"done", "failed"} /\ (stage' = "failed" <=> err' # "none")
  BY <1>1 DEF Goto
<1>6. Later
  BY <1>1, <1>4, <1>5 DEF Later, LateErrors, front
<1>7. Typed'
  BY <1>1, <1>5 DEF IInv, Typed, Stages, front, relaxing
<1>8. CutFile'
  BY <1>1, <1>4, <1>5 DEF CutFile
<1>. QED BY <1>6, <1>7, <1>8, LaterKeeps

LEMMA StutterKeeps == ASSUME IInv, UNCHANGED vars PROVE IInv'
<1>1. source' = source /\ stage' = stage /\ err' = err /\ lines' = lines /\ table' = table /\ defs' = defs
      /\ stmts' = stmts /\ chunk' = chunk /\ rest' = rest /\ rounds' = rounds /\ skips' = skips
      /\ obj' = obj /\ text' = text /\ back' = back
  BY DEF vars
<1>2. Typed' /\ Routed'
  BY <1>1 DEF IInv, Typed, Routed
<1>3. MadeOfLines'
  BY <1>1 DEF IInv, MadeOfLines
<1>4. JudgedIncludes' /\ JudgedCalls'
  BY <1>1 DEF IInv, JudgedIncludes, JudgedCalls
<1>5. CutFile'
  BY <1>1 DEF IInv, CutFile
<1>. QED BY <1>2, <1>3, <1>4, <1>5 DEF IInv

LEMMA InitHolds == Init => IInv
<1>. SUFFICES ASSUME Init PROVE IInv
  OBVIOUS
<1>1. Typed
  <2>1. AreMacros(table)
    BY FS_EmptySet DEF Init, AreMacros
  <2>2. <<>> \in Seq(SourceLine) /\ <<>> \in Definitions /\ <<>> \in Seq(Stmts(Nat))
        /\ <<>> \in Seq(Seq(Stmts(Nat))) /\ <<>> \in Seq(Sections)
    BY DEF Definitions
  <2>. QED BY <2>1, <2>2, RoundsAssumption DEF Init, Typed, Stages
<1>2. Routed /\ MadeOfLines /\ JudgedIncludes /\ JudgedCalls /\ CutFile
  BY DEF Init, Routed, MadeOfLines, JudgedIncludes, JudgedCalls, CutFile
<1>. QED BY <1>1, <1>2 DEF IInv

\* What every stage hands on is what the next one counts on.
THEOREM StagesHold == Spec => []IInv
<1>1. Init => IInv
  BY InitHolds
<1>2. IInv /\ [Next]_vars => IInv'
  <2>. SUFFICES ASSUME IInv, [Next]_vars PROVE IInv'
    OBVIOUS
  <2>1. CASE Include
    BY <2>1, IncludeKeeps
  <2>2. CASE Collect
    BY <2>2, CollectKeeps
  <2>3. CASE Expand
    BY <2>3, ExpandKeeps
  <2>4. CASE Strip
    BY <2>4, StripKeeps
  <2>5. CASE Define
    BY <2>5, DefineKeeps
  <2>6. CASE Filter
    BY <2>6, FilterKeeps
  <2>7. CASE Subst
    BY <2>7, SubstKeeps
  <2>8. CASE Layout
    BY <2>8, LayoutKeeps
  <2>9. CASE Relax
    BY <2>9, RelaxKeeps
  <2>10. CASE Settle
    BY <2>10, SettleKeeps
  <2>11. CASE EncodeAll
    BY <2>11, EncodeKeeps
  <2>12. CASE Emit
    BY <2>12, EmitKeeps
  <2>13. CASE Write
    BY <2>13, WriteKeeps
  <2>14. CASE ReadBack
    BY <2>14, ReadKeeps
  <2>15. CASE UNCHANGED vars
    BY <2>15, StutterKeeps
  <2>. QED BY <2>1, <2>2, <2>3, <2>4, <2>5, <2>6, <2>7, <2>8, <2>9, <2>10, <2>11, <2>12, <2>13, <2>14, <2>15
       DEF Next, Finished
<1>. QED BY <1>1, <1>2, PTL DEF Spec

\* Files that include one another and macros that call one another are refused,
\* and nothing else is refused for that (_expand_includes, _expand_macros).
THEOREM CirclesAreRefused == Spec => []CyclesAreRefused
<1>1. IInv => CyclesAreRefused
  <2>. SUFFICES ASSUME IInv PROVE CyclesAreRefused
    OBVIOUS
  <2>1. IncludeGraph = GraphOf(source.files)
    BY DEF IncludeGraph, GraphOf
  <2>2. CallGraph = CallsOf(table) /\ (CallsAreWritten <=> Written(table))
    BY DEF CallGraph, CallsOf, CallsAreWritten, Written
  <2>3. DOMAIN CallsOf(table) = Macros(table)
    BY DEF CallsOf
  <2>. QED BY <2>1, <2>2, <2>3 DEF IInv, JudgedIncludes, JudgedCalls, CyclesAreRefused
<1>. QED BY <1>1, StagesHold, PTL

\* An object file cut off by a crash is refused or cut between two sections
\* (write_object_file, parse_object).
THEOREM CutObjectsAreWhole == Spec => []SectionsComeWhole
<1>1. IInv => SectionsComeWhole
  BY DEF IInv, CutFile, SectionsComeWhole
<1>. QED BY <1>1, StagesHold, PTL
-----------------------------------------------------------------------------
(* Conditionals: the stack, in general.  st[k] is the stack behind line k,   *)
(* O the lines that open, E those that close, H[k] what line k pushes.       *)
-----------------------------------------------------------------------------
(* The filter.                                                               *)

LEMMA FilterPathIs ==
  ASSUME NEW ls \in Seq(SourceLine), NEW ds, NEW n \in Nat, n = Len(ls), Filtered(ls, ds).err = "none"
  PROVE  \E to : FilterPath(ls, ds, n, to) /\ Filtered(ls, ds) = to[n]
<1>1. PICK to \in [0..n -> FilterStates] :
           /\ to[0] = [stack |-> <<>>, out |-> <<>>, err |-> "none"]
           /\ \A k \in 1..n : to[k] = FilterLine(to[k - 1], ls[k], ds)
           /\ Filtered(ls, ds) = to[n]
  BY FilterSteps DEF FilterRun
<1>2. \A k \in 1..n : k - 1 \in 0..n /\ to[k - 1] \in FilterStates /\ FilterFact(to[k - 1], ls[k], ds)
  BY <1>1, FilterCases
<1>3. \A k \in 0..n : to[k].err = "none"
  <2>. DEFINE U == {i \in Nat : i <= n => to[n - i].err = "none"}
  <2>1. 0 \in U
    BY <1>1
  <2>2. ASSUME NEW i \in Nat, i \in U PROVE i + 1 \in U
    <3>. SUFFICES ASSUME i + 1 <= n PROVE to[n - (i + 1)].err = "none"
      OBVIOUS
    <3>. DEFINE k == n - i
    <3>1. k \in 1..n /\ k - 1 = n - (i + 1) /\ to[k].err = "none"
      BY <2>2
    <3>. HIDE DEF k
    <3>2. to[k] = FilterLine(to[k - 1], ls[k], ds) /\ (to[k - 1].err # "none" => FilterLine(to[k - 1], ls[k], ds) = to[k - 1])
      BY <1>1, <1>2, <3>1 DEF FilterFact
    <3>. QED BY <3>1, <3>2
  <2>. HIDE DEF U
  <2>3. \A i \in Nat : i \in U
    BY <2>1, <2>2, SetInduction
  <2>. TAKE k \in 0..n
  <2>4. n - k \in Nat /\ n - k <= n /\ n - (n - k) = k
    OBVIOUS
  <2>5. n - k \in U
    BY <2>3, <2>4
  <2>6. to[n - (n - k)].err = "none"
    BY <2>4, <2>5 DEF U
  <2>. QED BY <2>4, <2>6
<1>4. to[0].stack = <<>> /\ to[0].out = <<>>
  BY <1>1
<1>5. ASSUME NEW k \in 1..n
      PROVE  /\ k \in Openers(ls) =>
                  to[k].stack = Append(to[k - 1].stack, Holds(ls[k], ds)) /\ to[k].out = to[k - 1].out
             /\ k \in Closers(ls) =>
                  to[k - 1].stack # <<>> /\ to[k].stack = Front(to[k - 1].stack) /\ to[k].out = to[k - 1].out
             /\ k \notin Openers(ls) /\ k \notin Closers(ls) =>
                  /\ to[k].stack = to[k - 1].stack
                  /\ to[k].out = IF Active(to[k - 1].stack) THEN Append(to[k - 1].out, ls[k]) ELSE to[k - 1].out
  <2>. DEFINE f == to[k - 1]
              g == to[k]
              l == ls[k]
  <2>1. g = FilterLine(f, l, ds) /\ FilterFact(f, l, ds) /\ f.err = "none" /\ g.err = "none"
    BY <1>1, <1>2, <1>3
  <2>2. (k \in Openers(ls) <=> Opens(l)) /\ (k \in Closers(ls) <=> Is(l, "%endif"))
    BY DEF Openers, Closers
  <2>. HIDE DEF f, g, l
  <2>. DEFINE S(s, o, e) == [stack |-> s, out |-> o, err |-> e]
  <2>3. \A s, o, e : S(s, o, e).stack = s /\ S(s, o, e).out = o /\ S(s, o, e).err = e
    OBVIOUS
  <2>4. /\ Opens(l) /\ Malformed(l) => g = S(f.stack, f.out, "malformed conditional")
        /\ Opens(l) /\ ~Malformed(l) /\ Unevaluable(l, ds) => g = S(f.stack, f.out, "conditional operand")
        /\ Opens(l) /\ ~Malformed(l) /\ ~Unevaluable(l, ds) => g = S(Append(f.stack, Holds(l, ds)), f.out, "none")
        /\ Is(l, "%endif") /\ f.stack = <<>> => g = S(f.stack, f.out, "%endif without %if")
        /\ Is(l, "%endif") /\ f.stack # <<>> => g = S(Front(f.stack), f.out, "none")
        /\ ~Opens(l) /\ ~Is(l, "%endif") =>
             g = S(f.stack, IF Active(f.stack) THEN Append(f.out, l) ELSE f.out, "none")
    BY <2>1 DEF FilterFact
  <2>. HIDE DEF S
  <2>5. Opens(l) => g.stack = Append(f.stack, Holds(l, ds)) /\ g.out = f.out
    <3>. SUFFICES ASSUME Opens(l) PROVE g.stack = Append(f.stack, Holds(l, ds)) /\ g.out = f.out
      OBVIOUS
    <3>1. ~Malformed(l) /\ ~Unevaluable(l, ds)
      <4>1. ASSUME Malformed(l) PROVE FALSE
        <5>1. g = S(f.stack, f.out, "malformed conditional")
          BY <2>4, <4>1
        <5>2. S(f.stack, f.out, "malformed conditional").err = "malformed conditional"
          BY DEF S
        <5>. QED BY <2>1, <5>1, <5>2
      <4>2. ASSUME ~Malformed(l), Unevaluable(l, ds) PROVE FALSE
        <5>1. g = S(f.stack, f.out, "conditional operand")
          BY <2>4, <4>2
        <5>2. S(f.stack, f.out, "conditional operand").err = "conditional operand"
          BY DEF S
        <5>. QED BY <2>1, <5>1, <5>2
      <4>. QED BY <4>1, <4>2
    <3>. DEFINE a == Append(f.stack, Holds(l, ds))
                o == f.out
                e == "none"
    <3>2. g = S(a, o, e)
      BY <2>4, <3>1
    <3>. HIDE DEF a, o, e
    <3>3. g.stack = a /\ g.out = o
      BY ONLY <2>3, <3>2
    <3>. QED BY <3>3 DEF a, o
  <2>6. Is(l, "%endif") => f.stack # <<>> /\ g.stack = Front(f.stack) /\ g.out = f.out
    <3>. SUFFICES ASSUME Is(l, "%endif") PROVE f.stack # <<>> /\ g.stack = Front(f.stack) /\ g.out = f.out
      OBVIOUS
    <3>1. ASSUME f.stack = <<>> PROVE FALSE
      <4>1. g = S(f.stack, f.out, "%endif without %if")
        BY <2>4, <3>1
      <4>2. S(f.stack, f.out, "%endif without %if").err = "%endif without %if"
        BY DEF S
      <4>. QED BY <2>1, <4>1, <4>2
    <3>2. g = S(Front(f.stack), f.out, "none")
      BY <2>4, <3>1
    <3>. QED BY <2>3, <3>1, <3>2
  <2>7. ~Opens(l) /\ ~Is(l, "%endif") =>
          g.stack = f.stack /\ g.out = IF Active(f.stack) THEN Append(f.out, l) ELSE f.out
    <3>. DEFINE o == IF Active(f.stack) THEN Append(f.out, l) ELSE f.out
    <3>1. ~Opens(l) /\ ~Is(l, "%endif") => g = S(f.stack, o, "none")
      BY <2>4
    <3>. HIDE DEF o
    <3>2. ~Opens(l) /\ ~Is(l, "%endif") => g.stack = f.stack /\ g.out = o
      BY <2>3, <3>1
    <3>. QED BY <3>2 DEF o
  <2>. QED BY <2>2, <2>5, <2>6, <2>7 DEF f, g, l
<1>6. FilterPath(ls, ds, n, to)
  BY <1>1, <1>4, <1>5 DEF FilterPath
<1>. QED BY <1>1, <1>6

LEMMA FilterStacks ==
  ASSUME NEW ls \in Seq(SourceLine), NEW ds, NEW n \in Nat, n = Len(ls), NEW to, FilterPath(ls, ds, n, to)
  PROVE  StackRun([k \in 0..n |-> to[k].stack], n, BOOLEAN, Openers(ls), Closers(ls), Holdings(ls, ds))
<1>. DEFINE st == [k \in 0..n |-> to[k].stack]
            H == Holdings(ls, ds)
<1>1. st \in [0..n -> Seq(BOOLEAN)] /\ \A k \in 0..n : st[k] = to[k].stack
  BY DEF FilterPath, FilterStates
<1>2. \A k \in 1..n : k \in 0..n /\ k - 1 \in 0..n
  OBVIOUS
<1>3. \A k \in 1..n : k \in Openers(ls) => H[k] = Holds(ls[k], ds) /\ H[k] \in BOOLEAN
  BY HoldsIn DEF Openers, Holdings
<1>4. Openers(ls) \cap Closers(ls) = {}
  BY DEF Openers, Closers, Opens, Is
<1>. HIDE DEF st, H
<1>5. st[0] = <<>>
  BY <1>1 DEF FilterPath
<1>6. \A k \in 1..n : k \in Openers(ls) => st[k] = Append(st[k - 1], H[k])
  BY <1>1, <1>2, <1>3 DEF FilterPath
<1>10. \A k \in 1..n : k \in Closers(ls) => to[k - 1].stack # <<>> /\ to[k].stack = Front(to[k - 1].stack)
  BY DEF FilterPath
<1>7. ASSUME NEW k \in 1..n, k \in Closers(ls) PROVE st[k - 1] # <<>> /\ st[k] = Front(st[k - 1])
  <2>1. st[k - 1] = to[k - 1].stack /\ st[k] = to[k].stack
    BY <1>1, <1>2
  <2>2. to[k - 1].stack # <<>> /\ to[k].stack = Front(to[k - 1].stack)
    BY <1>7, <1>10
  <2>. QED BY ONLY <2>1, <2>2
<1>8. \A k \in 1..n : k \notin Openers(ls) /\ k \notin Closers(ls) => st[k] = st[k - 1]
  BY <1>1, <1>2 DEF FilterPath
<1>9. StackRun(st, n, BOOLEAN, Openers(ls), Closers(ls), H)
  BY <1>1, <1>3, <1>4, <1>5, <1>6, <1>7, <1>8 DEF StackRun, Front
<1>. QED BY <1>9 DEF st, H

\* A conditional encloses a line if its element is still on the stack there.
LEMMA EnclosesIsHolding ==
  ASSUME NEW ls \in Seq(SourceLine), NEW n \in Nat, n = Len(ls), NEW H, NEW st, NEW D,
         Depths(st, n, Openers(ls), Closers(ls), H, D), NEW i \in 1..n, NEW j \in 1..i, i \notin Openers(ls)
  PROVE  Encloses(ls, j, i) <=> Holding(D, Openers(ls), j, i)
<1>. DEFINE O == Openers(ls)
            E == Closers(ls)
<1>1. /\ D \in [0..n -> Nat]
      /\ \A k \in 1..n : k \in O => D[k] = D[k - 1] + 1
  BY DEF Depths
<1>2. j \in 1..n /\ j \in Int /\ j <= i /\ i <= n /\ j - 1 \in 0..n /\ i \in Int
  OBVIOUS
<1>3. ASSUME NEW k \in j..i
      PROVE  Cardinality({m \in j..k : Opens(ls[m])}) > Cardinality({m \in j..k : Is(ls[m], "%endif")})
               <=> D[k] > D[j - 1]
  <2>1. k \in (j - 1)..n /\ k \in 0..n /\ j..k \subseteq 1..n
    BY <1>2
  <2>2. Among(O, j, k) = {m \in j..k : Opens(ls[m])}
    BY <2>1 DEF Among, Openers
  <2>3. Among(E, j, k) = {m \in j..k : Is(ls[m], "%endif")}
    BY <2>1 DEF Among, Closers
  <2>4. O \cap E = {}
    BY DEF Openers, Closers, Opens, Is
  <2>. HIDE DEF O, E
  <2>. DEFINE o == Cardinality(Among(O, j, k))
              e == Cardinality(Among(E, j, k))
  <2>5. o \in Nat /\ e \in Nat /\ D[k] + e = D[j - 1] + o
    <3>1. Depths(st, n, O, E, H, D)
      BY DEF O, E
    <3>2. j \in 1..n /\ k \in 0..n /\ j - 1 <= k
      BY <1>2, <2>1
    <3>. HIDE DEF o, e
    <3>3. Counted(D, O, E, j, k)
      BY <2>4, <3>1, <3>2, DepthsCount
    <3>. QED BY <3>3 DEF Counted, o, e
  <2>. HIDE DEF o, e
  <2>6. D[k] \in Nat /\ D[j - 1] \in Nat
    BY <1>1, <1>2, <2>1
  <2>7. o > e <=> D[k] > D[j - 1]
    BY <2>5, <2>6
  <2>. QED BY <2>2, <2>3, <2>7 DEF o, e
<1>4. j \in O <=> Opens(ls[j])
  BY <1>2 DEF Openers
<1>5. ASSUME j \in O PROVE \A k \in j..i : D[k] > D[j - 1] <=> D[k] >= D[j]
  <2>1. D[j] = D[j - 1] + 1
    BY <1>1, <1>2, <1>5
  <2>. TAKE k \in j..i
  <2>2. k \in 0..n
    BY <1>2
  <2>. DEFINE u == D[j - 1]
              v == D[j]
              w == D[k]
  <2>5. j - 1 \in 0..n /\ j \in 0..n
    BY <1>2
  <2>6. D \in [0..n -> Nat]
    BY <1>1
  <2>3. u \in Nat /\ v \in Nat /\ w \in Nat /\ v = u + 1
    BY ONLY <2>1, <2>2, <2>5, <2>6
  <2>. HIDE DEF u, v, w
  <2>4. w > u <=> w >= v
    BY ONLY <2>3
  <2>. QED BY <2>4 DEF u, v, w
<1>6. j = i => j \notin O
  OBVIOUS
<1>. HIDE DEF O, E
<1>7. Encloses(ls, j, i) <=> j < i /\ j \in O /\ \A k \in j..i : D[k] > D[j - 1]
  BY <1>3, <1>4 DEF Encloses
<1>8. Holding(D, O, j, i) <=> j \in O /\ \A k \in j..i : D[k] >= D[j]
  BY DEF Holding
<1>9. j \in O => j < i
  BY <1>2, <1>6
<1>. QED BY <1>5, <1>7, <1>8, <1>9 DEF O

\* What is kept is what all conditionals around it ask for.
LEMMA FilterKeepsSurvivors ==
  ASSUME NEW ls \in Seq(SourceLine), NEW n \in Nat, n = Len(ls), NEW r, r = FilterConditionals(ls, defs), r.err = "none"
  PROVE  /\ r.lines = Taken(ls, {i \in 1..Len(ls) : Survives(ls, i)})
         /\ Cardinality(Openers(ls)) = Cardinality(Closers(ls))
<1>. DEFINE f == Filtered(ls, defs)
            O == Openers(ls)
            E == Closers(ls)
            H == Holdings(ls, defs)
            S == {i \in 1..Len(ls) : Survives(ls, i)}
<1>1. f.err = "none" /\ f.stack = <<>> /\ r.lines = f.out
  BY FilterIn
<1>2. PICK to : FilterPath(ls, defs, n, to) /\ f = to[n]
  <2>1. Filtered(ls, defs).err = "none"
    BY <1>1
  <2>. HIDE DEF f
  <2>2. \E to : FilterPath(ls, defs, n, to) /\ Filtered(ls, defs) = to[n]
    BY <2>1, FilterPathIs
  <2>. QED BY <2>2 DEF f
<1>. DEFINE st == [k \in 0..n |-> to[k].stack]
            D == [k \in 0..n |-> Len(st[k])]
<1>3. StackRun(st, n, BOOLEAN, O, E, H)
  BY <1>2, FilterStacks
<1>4. O \cap E = {}
  BY <1>3 DEF StackRun
<1>5. \A k \in 0..n : st[k] = to[k].stack
  OBVIOUS
<1>. HIDE DEF O, E, H, st
<1>6. Depths(st, n, O, E, H, D)
  BY <1>3, StackDepths
<1>7. \A k \in 0..n : D[k] = Len(st[k])
  OBVIOUS
<1>. HIDE DEF D, f
<1>8. \A k \in 0..n :
        /\ \A j \in 1..k : Holding(D, O, j, k) => D[j] \in 1..D[k] /\ st[k][D[j]] = H[j]
        /\ \A p \in 1..D[k] : \E j \in 1..k : Holding(D, O, j, k) /\ D[j] = p
  <2>1. KnowsHolders(st, n, O, H, D)
    BY <1>4, <1>6, StackHolds
  <2>. QED BY <2>1 DEF KnowsHolders
<1>9. ASSUME NEW k \in 1..n, k \notin O, k \notin E
      PROVE  Active(st[k]) <=> Survives(ls, k)
  <2>1. k \in 0..n /\ 1..k \subseteq 1..n
    OBVIOUS
  <2>2. \A j \in 1..k : Encloses(ls, j, k) <=> Holding(D, O, j, k)
    <3>. TAKE j \in 1..k
    <3>1. Depths(st, n, Openers(ls), Closers(ls), H, D) /\ k \notin Openers(ls)
      BY <1>6, <1>9 DEF O, E
    <3>2. Encloses(ls, j, k) <=> Holding(D, Openers(ls), j, k)
      BY <3>1, EnclosesIsHolding
    <3>. QED BY <3>2 DEF O
  <2>3. \A j \in 1..k : j \in O => H[j] = Holds(ls[j], defs)
    BY <2>1 DEF H, Holdings
  <2>4. \A j \in 1..k : Holding(D, O, j, k) => j \in O
    BY DEF Holding
  <2>5. Active(st[k]) <=> \A p \in 1..D[k] : st[k][p]
    BY <1>7, <2>1 DEF Active
  <2>6. (\A p \in 1..D[k] : st[k][p]) <=> \A j \in 1..k : Holding(D, O, j, k) => Holds(ls[j], defs)
    <3>1. ASSUME \A p \in 1..D[k] : st[k][p], NEW j \in 1..k, Holding(D, O, j, k) PROVE Holds(ls[j], defs)
      BY <1>8, <2>1, <2>3, <2>4, <3>1
    <3>2. ASSUME \A j \in 1..k : Holding(D, O, j, k) => Holds(ls[j], defs), NEW p \in 1..D[k] PROVE st[k][p]
      <4>1. PICK j \in 1..k : Holding(D, O, j, k) /\ D[j] = p
        BY <1>8, <2>1
      <4>2. st[k][D[j]] = H[j]
        BY <1>8, <2>1, <4>1
      <4>3. H[j] = Holds(ls[j], defs)
        BY <2>3, <2>4, <4>1
      <4>4. Holds(ls[j], defs)
        BY <3>2, <4>1
      <4>. QED BY <4>1, <4>2, <4>3, <4>4
    <3>. QED BY <3>1, <3>2
  <2>7. ~Opens(ls[k]) /\ ~Is(ls[k], "%endif")
    BY <1>9 DEF O, E, Openers, Closers
  <2>. QED BY <2>2, <2>5, <2>6, <2>7 DEF Survives
<1>10. ASSUME NEW k \in 1..n, k \in O \/ k \in E PROVE ~Survives(ls, k)
  BY <1>10 DEF O, E, Openers, Closers, Survives
<1>11. \A i \in 1..n : i \in S <=> Survives(ls, i)
  OBVIOUS
<1>. HIDE DEF S
<1>12. PICK tk \in [0..n -> Seq(SourceLine)] :
           /\ tk[0] = <<>>
           /\ \A k \in 1..n : tk[k] = IF k \in S THEN Append(tk[k - 1], ls[k]) ELSE tk[k - 1]
           /\ Taken(ls, S) = tk[n]
  <2>. DEFINE Kind == SourceLine
  <2>1. (\A i \in 1..n : ls[i] \in Kind) /\ Len(ls) = n
    OBVIOUS
  <2>. HIDE DEF Kind
  <2>2. TakenRun(ls, n, Kind, S)
    BY <2>1, TakenSteps
  <2>. QED BY <2>2 DEF Kind, TakenRun
<1>13. \A k \in Nat : k <= n => tk[k] = to[k].out
  <2>. DEFINE U == {k \in Nat : k <= n => tk[k] = to[k].out}
  <2>1. 0 \in U
    BY <1>2, <1>12 DEF FilterPath
  <2>2. ASSUME NEW k \in Nat, k \in U PROVE k + 1 \in U
    <3>. SUFFICES ASSUME k + 1 <= n PROVE tk[k + 1] = to[k + 1].out
      OBVIOUS
    <3>. DEFINE m == k + 1
    <3>1. m \in 1..n /\ m - 1 = k /\ m \in 0..n /\ k \in 0..n /\ k <= n
      OBVIOUS
    <3>2. tk[k] = to[k].out
      BY <2>2, <3>1
    <3>. HIDE DEF m
    <3>3. tk[m] = IF m \in S THEN Append(tk[k], ls[m]) ELSE tk[k]
      BY <1>12, <3>1
    <3>4. CASE m \in O \/ m \in E
      <4>1. to[m].out = to[k].out
        BY <1>2, <3>1, <3>4 DEF FilterPath, O, E
      <4>2. m \notin S
        BY <1>10, <1>11, <3>1, <3>4
      <4>. QED BY <3>2, <3>3, <4>1, <4>2 DEF m
    <3>5. CASE m \notin O /\ m \notin E
      <4>1. to[m].stack = to[k].stack
            /\ to[m].out = IF Active(to[k].stack) THEN Append(to[k].out, ls[m]) ELSE to[k].out
        BY <1>2, <3>1, <3>5 DEF FilterPath, O, E
      <4>2. Active(to[k].stack) <=> m \in S
        BY <1>5, <1>9, <1>11, <3>1, <3>5, <4>1
      <4>. QED BY <3>2, <3>3, <4>1, <4>2 DEF m
    <3>. QED BY <3>4, <3>5
  <2>. HIDE DEF U
  <2>3. \A k \in Nat : k \in U
    BY <2>1, <2>2, SetInduction
  <2>. QED BY <2>3 DEF U
<1>14. r.lines = Taken(ls, S)
  BY <1>1, <1>2, <1>12, <1>13
<1>15. Cardinality(O) = Cardinality(E)
  <2>1. CASE n = 0
    BY <2>1 DEF Openers, Closers, O, E
  <2>2. CASE n # 0
    <3>1. 1 \in 1..n /\ 1 - 1 <= n /\ n \in 0..n /\ 0 \in 0..n /\ 1 - 1 = 0
      BY <2>2
    <3>2. D[n] = 0 /\ D[0] = 0
      <4>1. st[n] = <<>> /\ st[0] = <<>>
        BY <1>1, <1>2, <1>3, <1>5, <3>1 DEF StackRun
      <4>2. Len(<<>>) = 0
        OBVIOUS
      <4>. QED BY <1>7, <3>1, <4>1, <4>2
    <3>3. /\ Cardinality(Among(O, 1, n)) \in Nat /\ Cardinality(Among(E, 1, n)) \in Nat
          /\ D[n] + Cardinality(Among(E, 1, n)) = D[1 - 1] + Cardinality(Among(O, 1, n))
      <4>1. Counted(D, O, E, 1, n)
        BY <1>4, <1>6, <3>1, DepthsCount
      <4>. QED BY <4>1 DEF Counted
    <3>4. Among(O, 1, n) = O /\ Among(E, 1, n) = E
      BY DEF Among, O, E, Openers, Closers
    <3>. HIDE DEF O, E
    <3>. DEFINE o == Cardinality(O)
                e == Cardinality(E)
    <3>5. o \in Nat /\ e \in Nat /\ 0 + e = 0 + o
      BY <3>1, <3>2, <3>3, <3>4
    <3>. HIDE DEF o, e
    <3>6. o = e
      BY <3>5
    <3>. QED BY <3>6 DEF o, e
  <2>. QED BY <2>1, <2>2
<1>. QED BY <1>14, <1>15 DEF S, O, E

\* A line is assembled if and only if every conditional around it holds, and
\* what is accepted is balanced (_filter_conditionals).
THEOREM ConditionalsAreNested == Spec => ConditionalsNest
<1>. DEFINE Nest == Filter /\ err' = "none" =>
                      /\ lines' = Taken(lines, {i \in 1..Len(lines) : Survives(lines, i)})
                      /\ Cardinality({i \in 1..Len(lines) : Opens(lines[i])})
                           = Cardinality({i \in 1..Len(lines) : Is(lines[i], "%endif")})
<1>1. IInv /\ [Next]_vars => [Nest]_vars
  <2>. SUFFICES ASSUME IInv, Filter, err' = "none"
                PROVE  /\ lines' = Taken(lines, {i \in 1..Len(lines) : Survives(lines, i)})
                       /\ Cardinality({i \in 1..Len(lines) : Opens(lines[i])})
                            = Cardinality({i \in 1..Len(lines) : Is(lines[i], "%endif")})
    OBVIOUS
  <2>. DEFINE r == FilterConditionals(lines, defs)
              n == Len(lines)
  <2>1. lines \in Seq(SourceLine)
    BY DEF IInv, Typed
  <2>2. n \in Nat
    BY <2>1
  <2>3. lines' = r.lines /\ Goto("substitute", r.err)
    BY DEF Filter
  <2>. HIDE DEF r, n
  <2>4. r.err = "none"
    BY <2>3 DEF Goto
  <2>5. n = Len(lines) /\ r = FilterConditionals(lines, defs)
    BY DEF n, r
  <2>6. /\ r.lines = Taken(lines, {i \in 1..Len(lines) : Survives(lines, i)})
        /\ Cardinality(Openers(lines)) = Cardinality(Closers(lines))
    BY <2>1, <2>2, <2>4, <2>5, FilterKeepsSurvivors
  <2>. QED BY <2>3, <2>6 DEF Openers, Closers
<1>. QED BY <1>1, StagesHold, PTL DEF Spec, ConditionalsNest
-----------------------------------------------------------------------------
(* Growing branches moves labels up.                                         *)

LEMMA WithLabelsAre ==
  ASSUME NEW labels, NEW st, NEW addr
  PROVE  /\ DOMAIN WithLabels(labels, st, addr) = DOMAIN labels \cup Range(st.labels)
         /\ \A name \in Range(st.labels) : WithLabels(labels, st, addr)[name] = addr
         /\ \A name \in DOMAIN labels : name \notin Range(st.labels) => WithLabels(labels, st, addr)[name] = labels[name]
<1>. DEFINE R == Range(st.labels)
<1>. HIDE DEF R
<1>1. WithLabels(labels, st, addr) = [name \in DOMAIN labels \cup R |-> IF name \in R THEN addr ELSE labels[name]]
  BY DEF WithLabels, R
<1>2. /\ DOMAIN WithLabels(labels, st, addr) = DOMAIN labels \cup R
      /\ \A name \in R : WithLabels(labels, st, addr)[name] = addr
      /\ \A name \in DOMAIN labels : name \notin R => WithLabels(labels, st, addr)[name] = labels[name]
  BY ONLY <1>1
<1>. QED BY <1>2 DEF R

LEMMA LabelsComeFrom ==
  ASSUME NEW sts \in Seq(Stmts(Int)), NEW n \in Nat, n = Len(sts)
  PROVE  LabelsCome(sts, n, LabelsFrom(sts))
<1>1. PICK to \in [0..n -> LabelTables] :
           /\ to[0] = << >>
           /\ \A k \in 1..n : to[k] = WithLabels(to[k - 1], sts[k], sts[k].addr)
           /\ LabelsFrom(sts) = to[n]
  BY LabelSteps DEF LabelRun
<1>. DEFINE U == {k \in Nat : k <= n => LabelsCome(sts, k, to[k])}
<1>2. 0 \in U
  BY <1>1 DEF LabelsCome
<1>3. ASSUME NEW k \in Nat, k \in U PROVE k + 1 \in U
  <2>. SUFFICES ASSUME k + 1 <= n PROVE LabelsCome(sts, k + 1, to[k + 1])
    OBVIOUS
  <2>. DEFINE m == k + 1
  <2>1. m \in 1..n /\ m - 1 = k /\ 1..m = (1..k) \cup {m} /\ k <= n
    OBVIOUS
  <2>2. LabelsCome(sts, k, to[k])
    BY <1>3, <2>1
  <2>3. to[m] = WithLabels(to[m - 1], sts[m], sts[m].addr)
    BY <1>1, <2>1
  <2>. HIDE DEF m
  <2>4. /\ DOMAIN to[m] = DOMAIN to[k] \cup Range(sts[m].labels)
        /\ \A name \in Range(sts[m].labels) : to[m][name] = sts[m].addr
        /\ \A name \in DOMAIN to[k] : name \notin Range(sts[m].labels) => to[m][name] = to[k][name]
    BY <2>1, <2>3, WithLabelsAre
  <2>5. ASSUME NEW name \in DOMAIN to[m]
        PROVE  \E i \in 1..m : name \in Range(sts[i].labels) /\ to[m][name] = sts[i].addr
    <3>1. CASE name \in Range(sts[m].labels)
      BY <2>1, <2>4, <3>1
    <3>2. CASE name \notin Range(sts[m].labels)
      <4>1. name \in DOMAIN to[k] /\ to[m][name] = to[k][name]
        BY <2>4, <2>5, <3>2
      <4>2. PICK i \in 1..k : name \in Range(sts[i].labels) /\ to[k][name] = sts[i].addr
        BY <2>2, <4>1 DEF LabelsCome
      <4>. QED BY <2>1, <4>1, <4>2
    <3>. QED BY <3>1, <3>2
  <2>6. LabelsCome(sts, m, to[m])
    BY <2>5 DEF LabelsCome
  <2>. QED BY <2>6 DEF m
<1>. HIDE DEF U
<1>4. \A k \in Nat : k \in U
  BY <1>2, <1>3, SetInduction
<1>5. LabelsCome(sts, n, to[n])
  BY <1>4 DEF U
<1>. QED BY <1>1, <1>5

LEMMA LabelsStandBehind ==
  ASSUME NEW sts \in Seq(Stmts(Int)), NEW n \in Nat, n = Len(sts),
         \A j \in 1..n : \A i \in 1..j : sts[i].addr <= sts[j].addr
  PROVE  LabelsStand(sts, n, LabelsFrom(sts))
<1>1. PICK to \in [0..n -> LabelTables] :
           /\ to[0] = << >>
           /\ \A k \in 1..n : to[k] = WithLabels(to[k - 1], sts[k], sts[k].addr)
           /\ LabelsFrom(sts) = to[n]
  BY LabelSteps DEF LabelRun
<1>. DEFINE U == {k \in Nat : k <= n => LabelsStand(sts, k, to[k])}
<1>2. 0 \in U
  BY DEF LabelsStand
<1>3. ASSUME NEW k \in Nat, k \in U PROVE k + 1 \in U
  <2>. SUFFICES ASSUME k + 1 <= n PROVE LabelsStand(sts, k + 1, to[k + 1])
    OBVIOUS
  <2>. DEFINE m == k + 1
  <2>1. m \in 1..n /\ m - 1 = k /\ 1..m = (1..k) \cup {m} /\ k <= n
    OBVIOUS
  <2>2. LabelsStand(sts, k, to[k])
    BY <1>3, <2>1
  <2>3. to[m] = WithLabels(to[m - 1], sts[m], sts[m].addr)
    BY <1>1, <2>1
  <2>4. \A i \in 1..m : sts[i].addr \in Int /\ sts[i].addr <= sts[m].addr
    <3>. TAKE i \in 1..m
    <3>1. i \in 1..n
      BY <2>1
    <3>2. sts[i] \in Stmts(Int)
      BY <3>1
    <3>3. sts[i].addr <= sts[m].addr
      BY <2>1
    <3>. QED BY <3>2, <3>3, StmtFields
  <2>. HIDE DEF m
  <2>5. /\ DOMAIN to[m] = DOMAIN to[k] \cup Range(sts[m].labels)
        /\ \A name \in Range(sts[m].labels) : to[m][name] = sts[m].addr
        /\ \A name \in DOMAIN to[k] : name \notin Range(sts[m].labels) => to[m][name] = to[k][name]
    BY <2>1, <2>3, WithLabelsAre
  <2>6. m \in 1..m /\ sts[m].addr \in Int
    BY <2>1, <2>4
  <2>7. ASSUME NEW i \in 1..m, NEW name \in Range(sts[i].labels)
        PROVE  name \in DOMAIN to[m] /\ to[m][name] >= sts[i].addr
    <3>1. CASE name \in Range(sts[m].labels)
      <4>1. to[m][name] = sts[m].addr
        BY <2>5, <3>1
      <4>2. sts[i].addr \in Int /\ sts[i].addr <= sts[m].addr
        BY <2>4
      <4>3. to[m][name] >= sts[i].addr
        BY ONLY <2>6, <4>1, <4>2
      <4>. QED BY <2>5, <3>1, <4>3
    <3>2. CASE name \notin Range(sts[m].labels)
      <4>1. i \in 1..k
        BY <2>1, <2>7, <3>2
      <4>2. name \in DOMAIN to[k] /\ to[k][name] >= sts[i].addr
        BY <2>2, <2>7, <4>1 DEF LabelsStand
      <4>. QED BY <2>5, <3>2, <4>2
    <3>. QED BY <3>1, <3>2
  <2>8. LabelsStand(sts, m, to[m])
    BY <2>7 DEF LabelsStand
  <2>. QED BY <2>8 DEF m
<1>. HIDE DEF U
<1>4. \A k \in Nat : k \in U
  BY <1>2, <1>3, SetInduction
<1>5. LabelsStand(sts, n, to[n])
  BY <1>4 DEF U
<1>. QED BY <1>1, <1>5

LEMMA RecomputeCounts ==
  ASSUME NEW sts \in Seq(Stmts(Int)), NEW n \in Nat, n = Len(sts)
  PROVE  \E at : Recounted(sts, Recompute(sts), n, at)
<1>1. PICK to \in [0..n -> Recomputed] :
           /\ to[0] = [addr |-> 0, out |-> <<>>]
           /\ \A k \in 1..n : to[k] = RecomputeStep(to[k - 1], sts[k])
           /\ Recomputing(sts) = to[n]
  BY RecomputeSteps DEF RecomputeRun
<1>. DEFINE at == [k \in 0..n |-> to[k].addr]
            new(m) == Max2(at[m - 1], sts[m].addr)
            out(m) == [sts[m] EXCEPT !.addr = new(m)]
            Made(k) == Len(to[k].out) = k /\ \A m \in 1..k : to[k].out[m] = out(m)
            U == {k \in Nat : k <= n => Made(k)}
<1>2. \A k \in 0..n : to[k].out \in Seq(Stmts(Nat)) /\ to[k].addr \in Nat /\ at[k] = to[k].addr
  BY DEF Recomputed
<1>3. at \in [0..n -> Nat] /\ at[0] = 0
  BY <1>1, <1>2
<1>4. \A m \in 1..n : /\ to[m].out = Append(to[m - 1].out, out(m))
                      /\ at[m] = new(m) + StmtSize(sts[m])
  <2>. TAKE m \in 1..n
  <2>1. m - 1 \in 0..n /\ m \in 0..n
    OBVIOUS
  <2>2. to[m - 1].addr = at[m - 1] /\ to[m].addr = at[m]
    BY <1>2, <2>1
  <2>. DEFINE a == new(m)
  <2>3. to[m] = [addr |-> a + StmtSize(sts[m]), out |-> Append(to[m - 1].out, [sts[m] EXCEPT !.addr = a])]
    BY <1>1, <2>2 DEF RecomputeStep
  <2>. HIDE DEF a, at
  <2>. DEFINE x == a + StmtSize(sts[m])
              y == Append(to[m - 1].out, [sts[m] EXCEPT !.addr = a])
  <2>4. to[m] = [addr |-> x, out |-> y]
    BY <2>3
  <2>. HIDE DEF x, y
  <2>5. to[m].addr = x /\ to[m].out = y
    BY <2>4
  <2>. QED BY <2>2, <2>5 DEF x, y, a
<1>. HIDE DEF at
<1>5. 0 \in U
  BY <1>1
<1>6. ASSUME NEW k \in Nat, k \in U PROVE k + 1 \in U
  <2>. SUFFICES ASSUME k + 1 <= n PROVE Made(k + 1)
    OBVIOUS
  <2>. DEFINE m == k + 1
  <2>1. m \in 1..n /\ m - 1 = k /\ 1..m = (1..k) \cup {m} /\ k <= n /\ k \in 0..n
    OBVIOUS
  <2>. HIDE DEF out
  <2>2. Made(k)
    BY <1>6, <2>1
  <2>3. to[m].out = Append(to[m - 1].out, out(m))
    BY <1>4, <2>1
  <2>. HIDE DEF m
  <2>. DEFINE p == to[k].out
              q == to[m].out
              x == out(m)
  <2>4. q = Append(p, x) /\ p \in Seq(Stmts(Nat)) /\ Len(p) = k /\ \A i \in 1..k : p[i] = out(i)
    BY <1>2, <2>1, <2>2, <2>3
  <2>. HIDE DEF p, q, x
  <2>5. Len(q) = k + 1 /\ q[k + 1] = x /\ \A i \in 1..k : q[i] = p[i]
    BY <2>4
  <2>6. Len(q) = m /\ \A i \in 1..m : q[i] = out(i)
    BY <2>1, <2>4, <2>5 DEF m, x
  <2>. QED BY <2>6 DEF m, q
<1>. HIDE DEF U
<1>7. \A k \in Nat : k \in U
  BY <1>5, <1>6, SetInduction
<1>8. Made(n)
  BY <1>7 DEF U
<1>9. Recompute(sts) = to[n].out
  BY <1>1 DEF Recompute, Recomputing
<1>10. \A m \in 1..n : /\ out(m).labels = sts[m].labels /\ out(m).addr = new(m)
                      /\ out(m).op = sts[m].op /\ out(m).args = sts[m].args /\ out(m).sec = sts[m].sec
  <2>. TAKE m \in 1..n
  <2>. DEFINE a == new(m)
  <2>. HIDE DEF a
  <2>1. sts[m] \in Stmts(Int)
    OBVIOUS
  <2>. DEFINE moved == [sts[m] EXCEPT !.addr = a]
  <2>2. /\ moved.labels = sts[m].labels /\ moved.addr = a
        /\ moved.op = sts[m].op /\ moved.args = sts[m].args /\ moved.sec = sts[m].sec
    BY <2>1 DEF Stmts
  <2>. QED BY <2>2 DEF a
<1>. DEFINE made == Recompute(sts)
<1>11. Len(made) = n /\ \A m \in 1..n : made[m] = out(m)
  BY <1>8, <1>9
<1>12. \A m \in 1..n : at[m] = new(m) + StmtSize(sts[m])
  BY <1>4
<1>13. \A m \in 1..n : new(m) = Max2(at[m - 1], sts[m].addr)
  BY DEF new
<1>. HIDE DEF made, at, new, out
<1>14. ASSUME NEW m \in 1..n
       PROVE  /\ made[m].labels = sts[m].labels /\ made[m].addr = Max2(at[m - 1], sts[m].addr)
              /\ at[m] = made[m].addr + StmtSize(sts[m])
              /\ made[m].op = sts[m].op /\ made[m].args = sts[m].args /\ made[m].sec = sts[m].sec
  <2>1. made[m] = out(m)
    BY <1>11
  <2>2. /\ made[m].labels = sts[m].labels /\ made[m].addr = new(m)
        /\ made[m].op = sts[m].op /\ made[m].args = sts[m].args /\ made[m].sec = sts[m].sec
    BY <1>10, <2>1
  <2>3. at[m] = new(m) + StmtSize(sts[m])
    BY <1>12
  <2>4. new(m) = Max2(at[m - 1], sts[m].addr)
    BY <1>13
  <2>. QED BY ONLY <2>2, <2>3, <2>4
<1>15. Recounted(sts, made, n, at)
  BY ONLY <1>3, <1>11, <1>14 DEF Recounted
<1>. QED BY <1>15 DEF made

\* What is reached never falls, and neither do the addresses.
LEMMA CountsRise ==
  ASSUME NEW sts \in Seq(Stmts(Int)), NEW out, NEW n \in Nat, n = Len(sts), NEW at, Recounted(sts, out, n, at)
  PROVE  /\ \A m \in 1..n : out[m].addr \in Nat /\ at[m - 1] <= out[m].addr /\ out[m].addr <= at[m]
         /\ \A k \in 0..n : \A m \in k..n : at[k] <= at[m]
         /\ \A j \in 1..n : \A i \in 1..j : out[i].addr <= out[j].addr
<1>1. \A m \in 1..n : out[m].addr \in Nat /\ at[m - 1] <= out[m].addr /\ out[m].addr <= at[m]
  <2>. TAKE m \in 1..n
  <2>1. m - 1 \in 0..n
    OBVIOUS
  <2>2. sts[m] \in Stmts(Int)
    OBVIOUS
  <2>3. at[m - 1] \in Nat /\ sts[m].addr \in Int /\ StmtSize(sts[m]) \in Nat
    BY <2>1, <2>2, StmtFields, SizesAreNat DEF Recounted
  <2>4. out[m].addr = Max2(at[m - 1], sts[m].addr) /\ at[m] = out[m].addr + StmtSize(sts[m])
    BY DEF Recounted
  <2>. DEFINE a == at[m - 1]
              b == sts[m].addr
              c == StmtSize(sts[m])
              x == out[m].addr
  <2>. HIDE DEF a, b, c, x
  <2>5. x = Max2(a, b) /\ at[m] = x + c /\ a \in Nat /\ b \in Int /\ c \in Nat
    BY <2>3, <2>4 DEF a, b, c, x
  <2>6. x \in Nat /\ a <= x
    BY <2>5 DEF Max2
  <2>7. x <= at[m]
    BY <2>5, <2>6
  <2>. QED BY <2>6, <2>7 DEF a, x
<1>2. at \in [0..n -> Nat]
  BY DEF Recounted
<1>3. ASSUME NEW k \in 0..n PROVE \A m \in k..n : at[k] <= at[m]
  <2>. DEFINE U == {i \in Nat : k + i <= n => at[k] <= at[k + i]}
  <2>1. 0 \in U
    BY <1>2
  <2>2. ASSUME NEW i \in Nat, i \in U PROVE i + 1 \in U
    <3>. SUFFICES ASSUME k + (i + 1) <= n PROVE at[k] <= at[k + (i + 1)]
      OBVIOUS
    <3>. DEFINE q == k + i
    <3>1. q \in 0..n /\ q + 1 \in 1..n /\ q + 1 \in 0..n /\ (q + 1) - 1 = q /\ k + (i + 1) = q + 1 /\ q <= n
      OBVIOUS
    <3>2. at[k] <= at[q]
      BY <2>2, <3>1
    <3>. HIDE DEF q
    <3>3. at[q] <= out[q + 1].addr /\ out[q + 1].addr <= at[q + 1] /\ out[q + 1].addr \in Nat
      BY <1>1, <3>1
    <3>4. at[k] \in Nat /\ at[q] \in Nat /\ at[q + 1] \in Nat
      BY <1>2, <3>1
    <3>. QED BY <3>1, <3>2, <3>3, <3>4
  <2>. HIDE DEF U
  <2>3. \A i \in Nat : i \in U
    BY <2>1, <2>2, SetInduction
  <2>. TAKE m \in k..n
  <2>4. m - k \in Nat /\ k + (m - k) = m /\ m <= n
    OBVIOUS
  <2>5. m - k \in U
    BY <2>3, <2>4
  <2>. QED BY <2>4, <2>5 DEF U
<1>4. ASSUME NEW j \in 1..n, NEW i \in 1..j PROVE out[i].addr <= out[j].addr
  <2>1. i \in 1..n
    OBVIOUS
  <2>2. CASE i = j
    BY <1>1, <2>2
  <2>3. CASE i # j
    <3>1. i \in 0..n /\ j - 1 \in i..n /\ j - 1 \in 0..n
      BY <2>3
    <3>2. at[i] <= at[j - 1]
      BY <1>3, <3>1
    <3>3. out[i].addr <= at[i] /\ at[j - 1] <= out[j].addr /\ out[i].addr \in Nat /\ out[j].addr \in Nat
      BY <1>1, <2>1
    <3>4. at[i] \in Nat /\ at[j - 1] \in Nat
      BY <1>2, <3>1
    <3>. QED BY <3>2, <3>3, <3>4
  <2>. QED BY <2>2, <2>3
<1>. QED BY <1>1, <1>3, <1>4
-----------------------------------------------------------------------------
LEMMA BranchesAreOneWord ==
  ASSUME NEW st, st.op \in {"bt", "bf"}
  PROVE  StmtSize(st) = 1
BY DEF StmtSize, FixedSize, LinkageOps

LEMMA PiecesAre ==
  ASSUME NEW sts \in Seq(Stmts(Nat)), NEW bad \in SUBSET (1..Len(sts)), \A i \in bad : Branch(sts[i]), NEW n \in Nat
  PROVE  /\ Pieces(sts, bad, n) \in Seq(Seq(Stmts(Int))) /\ Len(Pieces(sts, bad, n)) = Len(sts)
         /\ \A i \in 1..Len(sts) : PieceOf(Pieces(sts, bad, n)[i], sts[i], i \in bad)
<1>1. Len(sts) \in Nat /\ \A i \in 1..Len(sts) : sts[i] \in Stmts(Nat) /\ sts[i] \in Stmts(Int)
  BY StmtsWider
<1>2. \A S \in SUBSET bad : Cardinality(S) \in Nat
  <2>1. IsFiniteSet(1..Len(sts))
    BY <1>1, FS_Interval
  <2>. QED BY <2>1, FS_Subset, FS_CardinalityType
<1>. DEFINE after(i) == {j \in bad : j > i}
            at(i) == IF i \in bad THEN Grown(sts[i], SkipLabel(n + Cardinality({j \in bad : j > i}))) ELSE <<sts[i]>>
<1>3. ASSUME NEW i \in 1..Len(sts) PROVE at(i) \in Seq(Stmts(Int)) /\ PieceOf(at(i), sts[i], i \in bad)
  <2>1. Cardinality(after(i)) \in Nat
    BY <1>2
  <2>. DEFINE c == Cardinality(after(i))
              st == sts[i]
              skip == SkipLabel(n + c)
  <2>2. n + c \in Nat
    <3>. HIDE DEF c
    <3>1. c \in Nat
      BY <2>1 DEF c
    <3>. QED BY <3>1
  <2>3. skip \in AnyName
    <3>. HIDE DEF c
    <3>. QED BY <2>2 DEF AnyName
  <2>4. at(i) = IF i \in bad THEN Grown(st, skip) ELSE <<st>>
    OBVIOUS
  <2>5. st \in Stmts(Int) /\ st \in Stmts(Nat)
    BY <1>1
  <2>6. i \in bad => Branch(st)
    OBVIOUS
  <2>. HIDE DEF c, at, st, skip
  <2>7. CASE i \in bad
    <3>1. at(i) \in Seq(Stmts(Int)) /\ Len(at(i)) = 4 /\ at(i) = Grown(st, skip)
      BY <2>3, <2>4, <2>5, <2>6, <2>7, GrownIn
    <3>2. at(i)[1] = Stmt(Line(st.labels, IF st.op = "bt" THEN "bf" ELSE "bt", <<<<Id(skip)>>>>), Moved, st.sec, st.from)
      <4>. DEFINE of(labels, op, args) == Stmt(Line(labels, op, args), Moved, st.sec, st.from)
                  s1 == of(st.labels, IF st.op = "bt" THEN "bf" ELSE "bt", <<<<Id(skip)>>>>)
                  s2 == of(<<>>, "li", <<<<Id("r4")>>, st.args[1]>>)
                  s3 == of(<<>>, "jalr", <<<<Id("r0")>>, <<Id("r4")>>>>)
                  s4 == of(<<skip>>, "", <<>>)
      <4>1. at(i) = <<s1, s2, s3, s4>>
        BY <3>1 DEF Grown
      <4>. HIDE DEF s1, s2, s3, s4
      <4>2. at(i)[1] = s1
        BY <4>1
      <4>. QED BY <4>2 DEF s1
    <3>3. at(i)[1].labels = st.labels /\ at(i)[1].op \in {"bt", "bf"}
      BY <3>2 DEF Stmt, Line
    <3>4. st.op \in {"bt", "bf"}
      BY <2>6, <2>7 DEF Branch
    <3>5. StmtSize(at(i)[1]) = StmtSize(st)
      BY <3>3, <3>4, BranchesAreOneWord
    <3>. QED BY <2>7, <3>1, <3>3, <3>5 DEF PieceOf, st
  <2>8. CASE i \notin bad
    BY <2>4, <2>5, <2>8 DEF PieceOf, st
  <2>. QED BY <2>7, <2>8
<1>. DEFINE ss == Pieces(sts, bad, n)
<1>4. ss = [i \in 1..Len(sts) |-> at(i)]
  BY DEF Pieces
<1>. HIDE DEF at, ss
<1>5. ss \in Seq(Seq(Stmts(Int))) /\ Len(ss) = Len(sts) /\ \A i \in 1..Len(sts) : ss[i] = at(i)
  BY <1>1, <1>3, <1>4
<1>. QED BY <1>3, <1>5 DEF ss

LEMMA MaxIs == ASSUME NEW a \in Int, NEW b \in Int PROVE Max2(a, b) >= b /\ Max2(a, b) >= a /\ Max2(a, b) \in Int
BY DEF Max2

LEMMA GrowingRaises ==
  ASSUME NEW sts \in Seq(Stmts(Nat)), NEW bad \in SUBSET (1..Len(sts)), \A i \in bad : Branch(sts[i]), NEW n \in Nat,
         \A i \in bad : ~(sts[i].addr > IF i = 1 THEN 0 ELSE sts[i - 1].addr + StmtSize(sts[i - 1]))
  PROVE  RisesTo(sts, Recompute(Grow(sts, bad, n)))
<1>. DEFINE ss == Pieces(sts, bad, n)
            F == Grow(sts, bad, n)
            c == Len(sts)
            top == Len(F)
            out == Recompute(F)
<1>1. ss \in Seq(Seq(Stmts(Int))) /\ Len(ss) = c /\ \A i \in 1..c : PieceOf(ss[i], sts[i], i \in bad)
  BY PiecesAre
<1>2. F \in Seq(Stmts(Int)) /\ F = FlattenSeq(ss)
  BY GrowIn DEF Grow, Pieces
<1>3. c \in Nat /\ top \in Nat /\ top = Len(F)
  BY <1>2
<1>4. c = Len(sts) /\ \A i \in 1..c : sts[i] \in Stmts(Nat)
  OBVIOUS
<1>5. \A i \in bad : ~(sts[i].addr > IF i = 1 THEN 0 ELSE sts[i - 1].addr + StmtSize(sts[i - 1]))
  OBVIOUS
<1>6. out = Recompute(F) /\ bad \subseteq 1..c
  OBVIOUS
<1>. HIDE DEF ss, F, c, top, out
<1>7. PICK L : StandsAt(ss, L, c)
  BY <1>1, <1>3, FlattenAt
<1>8. PICK at : Recounted(F, out, top, at)
  BY <1>2, <1>3, <1>6, RecomputeCounts
<1>9. /\ \A m \in 1..top : out[m].addr \in Nat /\ at[m - 1] <= out[m].addr /\ out[m].addr <= at[m]
      /\ \A k \in 0..top : \A m \in k..top : at[k] <= at[m]
      /\ \A j \in 1..top : \A i \in 1..j : out[i].addr <= out[j].addr
  BY <1>2, <1>3, <1>8, CountsRise
<1>10. /\ at \in [0..top -> Nat] /\ at[0] = 0 /\ Len(out) = top
       /\ \A m \in 1..top : /\ out[m].labels = F[m].labels /\ out[m].addr = Max2(at[m - 1], F[m].addr)
                          /\ at[m] = out[m].addr + StmtSize(F[m])
  BY <1>8 DEF Recounted
<1>11. L \in [0..c -> Nat] /\ L[0] = 0 /\ L[c] = top
  BY <1>2, <1>3, <1>7 DEF StandsAt
<1>12. ASSUME NEW i \in 1..c
       PROVE  /\ L[i - 1] \in Nat /\ L[i - 1] + 1 \in 1..top /\ (L[i - 1] + 1) - 1 = L[i - 1]
              /\ L[i] \in (L[i - 1] + 1)..top
              /\ F[L[i - 1] + 1] = ss[i][1]
  <2>1. i - 1 \in 0..c /\ i \in 0..c
    BY <1>3
  <2>2. Len(ss[i]) \in {1, 4}
    BY <1>1 DEF PieceOf
  <2>3. L[i] = L[i - 1] + Len(ss[i]) /\ \A t \in 1..Len(ss[i]) : L[i - 1] + t \in 1..L[c] /\ F[L[i - 1] + t] = ss[i][t]
    BY <1>2, <1>7 DEF StandsAt
  <2>. DEFINE a == L[i - 1]
              w == Len(ss[i])
  <2>4. a \in Nat /\ L[i] \in Nat
    BY <1>11, <2>1
  <2>. HIDE DEF a, w
  <2>5. w \in {1, 4} /\ L[i] = a + w /\ \A t \in 1..w : a + t \in 1..L[c] /\ F[a + t] = ss[i][t]
    BY <2>2, <2>3 DEF a, w
  <2>6. 1 \in 1..w /\ w \in 1..w
    BY <2>5
  <2>7. a + 1 \in 1..top /\ F[a + 1] = ss[i][1] /\ a + w \in 1..top
    BY <1>11, <2>5, <2>6
  <2>8. L[i] \in (a + 1)..top /\ (a + 1) - 1 = a
    BY <1>3, <2>4, <2>5, <2>7
  <2>. QED BY <2>4, <2>7, <2>8 DEF a
<1>13. ASSUME NEW i \in 1..c
       PROVE  /\ out[L[i - 1] + 1].labels = sts[i].labels
              /\ at[L[i]] >= out[L[i - 1] + 1].addr + StmtSize(sts[i])
              /\ i \notin bad => out[L[i - 1] + 1].addr >= sts[i].addr
              /\ out[L[i - 1] + 1].addr >= at[L[i - 1]]
              /\ StmtSize(sts[i]) \in Nat /\ sts[i].addr \in Nat /\ out[L[i - 1] + 1].addr \in Nat
              /\ at[L[i]] \in Nat /\ at[L[i - 1]] \in Nat
  <2>. DEFINE p == L[i - 1] + 1
              q == L[i]
              a == L[i - 1]
  <2>1. p \in 1..top /\ p - 1 = a /\ a \in Nat /\ q \in p..top /\ F[p] = ss[i][1]
    BY <1>12
  <2>2. PieceOf(ss[i], sts[i], i \in bad)
    BY <1>1
  <2>3. StmtSize(sts[i]) \in Nat /\ sts[i].addr \in Nat
    BY <1>4, StmtFields, SizesAreNat
  <2>. HIDE DEF p, q, a
  <2>4. p \in 0..top /\ q \in 0..top /\ a \in 0..top
    BY <1>3, <2>1
  <2>5. at[p] \in Nat /\ at[q] \in Nat /\ at[a] \in Nat /\ out[p].addr \in Nat
    BY <1>9, <1>10, <2>1, <2>4
  <2>6. /\ out[p].labels = F[p].labels /\ out[p].addr = Max2(at[a], F[p].addr)
        /\ at[p] = out[p].addr + StmtSize(F[p]) /\ at[p] <= at[q]
    BY <1>9, <1>10, <2>1, <2>4
  <2>7. F[p].labels = sts[i].labels /\ StmtSize(F[p]) = StmtSize(sts[i]) /\ (i \notin bad => F[p].addr = sts[i].addr)
    BY <2>1, <2>2 DEF PieceOf
  <2>8. at[q] >= out[p].addr + StmtSize(sts[i])
    BY <2>3, <2>5, <2>6, <2>7
  <2>9. i \notin bad => out[p].addr >= sts[i].addr
    <3>. DEFINE u == at[a]
                v == sts[i].addr
    <3>1. u \in Int /\ v \in Int /\ (i \notin bad => out[p].addr = Max2(u, v))
      BY <2>3, <2>5, <2>6, <2>7
    <3>. HIDE DEF u, v
    <3>2. Max2(u, v) >= v
      BY <3>1, MaxIs
    <3>3. i \notin bad => out[p].addr >= v
      BY <3>1, <3>2
    <3>. QED BY <3>3 DEF v
  <2>10. out[p].addr >= at[a]
    BY <1>9, <2>1, <2>5
  <2>. QED BY <2>3, <2>5, <2>6, <2>7, <2>8, <2>9, <2>10 DEF p, q, a
<1>14. \A i \in 1..c : out[L[i - 1] + 1].addr >= sts[i].addr
  <2>. DEFINE high(i) == out[L[i - 1] + 1].addr
              U == {i \in Nat : i \in 1..c => high(i) >= sts[i].addr}
  <2>1. 0 \in U
    OBVIOUS
  <2>2. ASSUME NEW k \in Nat, k \in U PROVE k + 1 \in U
    <3>. SUFFICES ASSUME k + 1 \in 1..c PROVE high(k + 1) >= sts[k + 1].addr
      OBVIOUS
    <3>. DEFINE i == k + 1
    <3>1. i \in 1..c /\ i - 1 = k /\ (i = 1 <=> k = 0) /\ (k # 0 => k \in 1..c)
      BY <1>3
    <3>2. k # 0 => high(k) >= sts[k].addr
      BY <2>2, <3>1
    <3>. HIDE DEF i
    <3>3. /\ i \notin bad => high(i) >= sts[i].addr
          /\ high(i) >= at[L[k]] /\ sts[i].addr \in Nat /\ high(i) \in Nat /\ at[L[k]] \in Nat
      BY <1>13, <3>1
    <3>. HIDE DEF high
    <3>4. CASE i \notin bad
      BY <3>3, <3>4 DEF i
    <3>5. CASE i \in bad /\ k = 0
      BY <1>5, <3>1, <3>3, <3>5 DEF i
    <3>6. CASE i \in bad /\ k # 0
      <4>1. ~(sts[i].addr > sts[k].addr + StmtSize(sts[k]))
        BY <1>5, <3>1, <3>6
      <4>2. at[L[k]] >= high(k) + StmtSize(sts[k]) /\ StmtSize(sts[k]) \in Nat /\ sts[k].addr \in Nat /\ high(k) \in Nat
        BY <1>13, <3>1, <3>6 DEF high
      <4>. DEFINE x == sts[k].addr
                  y == StmtSize(sts[k])
                  z == high(k)
                  v == at[L[k]]
                  a == sts[i].addr
                  h == high(i)
      <4>3. x \in Nat /\ y \in Nat /\ z \in Nat /\ v \in Nat /\ a \in Nat /\ h \in Nat
            /\ z >= x /\ v >= z + y /\ ~(a > x + y) /\ h >= v
        BY <3>2, <3>3, <3>6, <4>1, <4>2
      <4>. HIDE DEF x, y, z, v, a, h
      <4>4. h >= a
        BY <4>3
      <4>. QED BY <4>4 DEF h, a, i
    <3>. QED BY <3>4, <3>5, <3>6
  <2>. HIDE DEF U
  <2>3. \A i \in Nat : i \in U
    BY <2>1, <2>2, SetInduction
  <2>. QED BY <2>3 DEF U
<1>15. \A i \in 1..c : \E p \in 1..top : out[p].labels = sts[i].labels /\ out[p].addr >= sts[i].addr
  BY <1>12, <1>13, <1>14
<1>16. \A j \in 1..Len(out) : \A i \in 1..j : out[i].addr <= out[j].addr
  BY <1>9, <1>10
<1>17. RisesTo(sts, out)
  BY <1>4, <1>10, <1>15, <1>16 DEF RisesTo
<1>. QED BY <1>17 DEF out, F

\* Growing branches moves code up, and no label falls back, but where a branch
\* that grows itself stands behind a gap (_recompute_stmt_addrs).
THEOREM LabelsRise == Spec => LabelsOnlyRise
<1>1. IInv /\ [Next]_vars => [Relax /\ ~Forgets => ~Falls]_vars
  <2>. SUFFICES ASSUME IInv, Relax, ~Forgets PROVE ~Falls
    OBVIOUS
  <2>. DEFINE bad == Violations(chunk)
              n == Len(chunk)
              after == chunk'
  <2>1. chunk \in Seq(Stmts(Nat)) /\ skips \in Nat
    BY DEF IInv, Typed
  <2>2. chunk' = Recompute(Grow(chunk, bad, skips))
    BY DEF Relax
  <2>3. bad \in SUBSET (1..Len(chunk)) /\ \A i \in bad : Branch(chunk[i])
    BY ViolationsAre
  <2>4. \A i \in bad : ~(chunk[i].addr > IF i = 1 THEN 0 ELSE chunk[i - 1].addr + StmtSize(chunk[i - 1]))
    BY DEF Forgets, AfterGap
  <2>. HIDE DEF bad
  <2>5. Grow(chunk, bad, skips) \in Seq(Stmts(Int))
    BY <2>1, <2>3, GrowIn
  <2>6. after \in Seq(Stmts(Nat)) /\ after = Recompute(Grow(chunk, bad, skips))
    BY <2>2, <2>5, RecomputeIn
  <2>7. RisesTo(chunk, Recompute(Grow(chunk, bad, skips)))
    BY <2>1, <2>3, <2>4, GrowingRaises
  <2>. HIDE DEF after
  <2>8. RisesTo(chunk, after)
    BY <2>6, <2>7
  <2>9. chunk \in Seq(Stmts(Int)) /\ after \in Seq(Stmts(Int)) /\ Len(after) \in Nat /\ n \in Nat
    BY <2>1, <2>6, StmtsWider
  <2>10. LabelsCome(chunk, Len(chunk), LabelsFrom(chunk))
    BY <2>9, LabelsComeFrom
  <2>11. LabelsStand(after, Len(after), LabelsFrom(after))
    BY <2>8, <2>9, LabelsStandBehind DEF RisesTo
  <2>12. LabelsFrom(after) \in LabelTables
    BY <2>9, LabelsFromIn
  <2>13. ASSUME NEW name \in DOMAIN LabelsFrom(chunk)
         PROVE  ~(LabelsFrom(after)[name] < LabelsFrom(chunk)[name])
    <3>1. PICK m \in 1..n : name \in Range(chunk[m].labels) /\ LabelsFrom(chunk)[name] = chunk[m].addr
      BY <2>10 DEF LabelsCome
    <3>2. PICK p \in 1..Len(after) : after[p].labels = chunk[m].labels /\ after[p].addr >= chunk[m].addr
      BY <2>8, <3>1 DEF RisesTo
    <3>3. name \in DOMAIN LabelsFrom(after) /\ LabelsFrom(after)[name] >= after[p].addr
      BY <2>11, <3>1, <3>2 DEF LabelsStand
    <3>4. chunk[m].addr \in Nat /\ after[p].addr \in Nat
      BY <2>1, <2>6, StmtFields
    <3>5. LabelsFrom(after)[name] \in Int
      BY <2>12, <3>3 DEF LabelTables
    <3>. DEFINE x == LabelsFrom(after)[name]
                y == LabelsFrom(chunk)[name]
                z == after[p].addr
    <3>6. x \in Int /\ z \in Nat /\ y \in Nat /\ x >= z /\ z >= y
      BY <3>1, <3>2, <3>3, <3>4, <3>5
    <3>. HIDE DEF x, y, z
    <3>7. ~(x < y)
      BY <3>6
    <3>. QED BY <3>7 DEF x, y
  <2>. QED BY <2>13 DEF Falls, after
<1>. QED BY <1>1, StagesHold, PTL DEF Spec, LabelsOnlyRise
-----------------------------------------------------------------------------
(* An operand that has a value under two tables of labels has the same under *)
(* both, if they do not contradict each other.                               *)

LEMMA TurnsAlike ==
  ASSUME NEW ts \in Seq(AnyToken), NEW n \in Nat, n = Len(ts), NEW l \in 1..Unary, l < Unary,
         NEW p \in 1..(n + 1), NEW a \in From(p, n), NEW b, Alike(a, b),
         NEW f, NEW g, AlikeBelow(f, g, n, <<l, p>>)
  PROVE  Alike(Turn(l, ts, a, f), Turn(l, ts, b, g))
<1>. SUFFICES ASSUME ~Failed(Turn(l, ts, a, f)), ~Failed(Turn(l, ts, b, g))
     PROVE  Turn(l, ts, a, f) = Turn(l, ts, b, g)
  BY DEF Alike
<1>1. ~Failed(a) /\ ~Failed(b)
  BY DEF Turn
<1>2. a = b
  BY <1>1 DEF Alike
<1>3. CASE Sym(ts, a.pos) \notin OpsAt(l)
  BY <1>2, <1>3 DEF Turn
<1>4. CASE Sym(ts, a.pos) \in OpsAt(l)
  <2>1. a.pos \in (p + 1)..(n + 1)
    BY <1>1, Readings_
  <2>2. Sym(ts, a.pos) # "end of text"
    <3>1. l \in 1..6
      BY DEF Unary
    <3>2. Sym(ts, a.pos) \in AllOps
      BY <1>4, <3>1, OpsAtLevel
    <3>. QED BY <3>2 DEF AllOps
  <2>3. a.pos + 1 \in (p + 1)..(n + 1)
    <3>. DEFINE q == a.pos
    <3>1. q \in Int /\ 1 <= q
      BY <2>1
    <3>2. q > n => Sym(ts, q) = "end of text"
      BY <3>1, Tokens
    <3>3. ~(q > n)
      BY <2>2, <3>2
    <3>4. q \in (p + 1)..(n + 1)
      BY <2>1
    <3>. HIDE DEF q
    <3>5. q + 1 \in (p + 1)..(n + 1)
      BY <3>3, <3>4
    <3>. QED BY <3>5 DEF q
  <2>. DEFINE z == <<l + 1, a.pos + 1>>
              op == ts[a.pos].sym
  <2>4. z \in Places(n) /\ Ahead(n)[z] < Ahead(n)[<<l, p>>]
    <3>1. l + 1 \in 1..Unary
      BY DEF Unary
    <3>. QED BY <2>3, <3>1, Looks
  <2>5. \A h : Turn(l, ts, a, h) = IF Failed(h[z]) THEN h[z]
                                   ELSE IF Refused(op, h[z].val) THEN Bad("refused")
                                   ELSE Got(Apply(op, a.val, h[z].val), h[z].pos)
    BY <1>1, <1>4 DEF Turn
  <2>. HIDE DEF z, op
  <2>6. Alike(f[z], g[z])
    BY <2>4 DEF AlikeBelow
  <2>7. ~Failed(f[z]) /\ ~Failed(g[z])
    BY <1>2, <2>5
  <2>8. f[z] = g[z]
    BY <2>6, <2>7 DEF Alike
  <2>. QED BY <1>2, <2>5, <2>8
<1>. QED BY <1>3, <1>4

LEMMA LevelsAlike ==
  ASSUME NEW ts \in Seq(AnyToken), NEW n \in Nat, n = Len(ts), NEW l \in 1..Unary, l < Unary,
         NEW p \in 1..(n + 1), NEW m, NEW w, NEW f \in Reads(n), NEW g \in Reads(n),
         AlikeBelow(f, g, n, <<l, p>>)
  PROVE  Alike(Level(l, ts, p, m, f), Level(l, ts, p, w, g))
<1>1. /\ <<l + 1, p>> \in Places(n) /\ Ahead(n)[<<l + 1, p>>] < Ahead(n)[<<l, p>>]
  BY Looks
<1>2. ASSUME NEW h \in Reads(n), NEW k PROVE Turns(l, ts, p, k, h, n)
  <2>1. h[<<l + 1, p>>] \in From(p, n) /\ l # Unary
    BY <1>1 DEF Reads
  <2>2. \A a \in From(p, n) : Turn(l, ts, a, h) \in From(p, n)
    BY TurnIn
  <2>. QED BY <2>1, <2>2, LevelSteps
<1>3. PICK to \in [0..n -> From(p, n)] :
        /\ to[0] = f[<<l + 1, p>>]
        /\ \A k \in 1..n : to[k] = Turn(l, ts, to[k - 1], f)
        /\ Level(l, ts, p, m, f) = to[n]
  <2>1. Turns(l, ts, p, m, f, n)
    BY <1>2
  <2>. QED BY <2>1 DEF Turns
<1>4. PICK at \in [0..n -> From(p, n)] :
        /\ at[0] = g[<<l + 1, p>>]
        /\ \A k \in 1..n : at[k] = Turn(l, ts, at[k - 1], g)
        /\ Level(l, ts, p, w, g) = at[n]
  <2>1. Turns(l, ts, p, w, g, n)
    BY <1>2
  <2>. QED BY <2>1 DEF Turns
<1>. DEFINE U == {k \in Nat : k \in 0..n => Alike(to[k], at[k])}
<1>5. 0 \in U
  BY <1>1, <1>3, <1>4 DEF AlikeBelow
<1>6. ASSUME NEW k \in Nat, k \in U PROVE k + 1 \in U
  <2>. SUFFICES ASSUME k + 1 \in 0..n PROVE Alike(to[k + 1], at[k + 1])
    OBVIOUS
  <2>1. k \in 0..n /\ k + 1 \in 1..n /\ (k + 1) - 1 = k
    OBVIOUS
  <2>2. to[k + 1] = Turn(l, ts, to[k], f) /\ at[k + 1] = Turn(l, ts, at[k], g)
    BY <1>3, <1>4, <2>1
  <2>3. Alike(to[k], at[k]) /\ to[k] \in From(p, n)
    BY <1>6, <2>1
  <2>. HIDE DEF U
  <2>4. Alike(Turn(l, ts, to[k], f), Turn(l, ts, at[k], g))
    BY <2>3, TurnsAlike
  <2>. QED BY <2>2, <2>4
<1>. HIDE DEF U
<1>7. n \in U
  BY <1>5, <1>6, SetInduction
<1>8. Alike(to[n], at[n])
  BY <1>7 DEF U
<1>. QED BY <1>3, <1>4, <1>8

LEMMA SignsAlike ==
  ASSUME NEW ts \in Seq(AnyToken), NEW n \in Nat, n = Len(ts), NEW p \in 1..(n + 1),
         NEW m, NEW w, Agree(m, w), NEW f, NEW g, AlikeBelow(f, g, n, <<Unary, p>>)
  PROVE  Alike(Signed(ts, p, m, f), Signed(ts, p, w, g))
<1>. SUFFICES ASSUME ~Failed(Signed(ts, p, m, f)), ~Failed(Signed(ts, p, w, g))
     PROVE  Signed(ts, p, m, f) = Signed(ts, p, w, g)
  BY DEF Alike
<1>0. \A why : Failed(Bad(why)) <=> why # "none"
  BY DEF Failed, Bad
<1>1. Sym(ts, p) # "end of text"
  BY <1>0 DEF Signed, Atom
<1>2. p + 1 \in (p + 1)..(n + 1)
  <2>1. p \in Int /\ 1 <= p
    OBVIOUS
  <2>2. ~(p > n)
    BY <1>1, <2>1, Tokens
  <2>. QED BY <2>1, <2>2
<1>3. ASSUME NEW k \in 1..Unary
      PROVE  <<k, p + 1>> \in Places(n) /\ Ahead(n)[<<k, p + 1>>] < Ahead(n)[<<Unary, p>>]
             /\ Alike(f[<<k, p + 1>>], g[<<k, p + 1>>])
  <2>1. Unary \in 1..Unary
    BY DEF Unary
  <2>2. <<k, p + 1>> \in Places(n) /\ Ahead(n)[<<k, p + 1>>] < Ahead(n)[<<Unary, p>>]
    BY <1>2, <2>1, Looks
  <2>. QED BY <2>2 DEF AlikeBelow
<1>4. CASE Sym(ts, p) \in {"-", "+", "~"}
  <2>. DEFINE z == <<Unary, p + 1>>
  <2>1. Alike(f[z], g[z])
    BY <1>3 DEF Unary
  <2>2. \A h, k : Signed(ts, p, k, h) =
           CASE Sym(ts, p) = "+" \/ Failed(h[z])  -> h[z]
             [] Sym(ts, p) = "-" /\ ~Failed(h[z]) -> [h[z] EXCEPT !.val = -@]
             [] Sym(ts, p) = "~" /\ ~Failed(h[z]) -> [h[z] EXCEPT !.val = -@ - 1]
    BY <1>4 DEF Signed
  <2>. HIDE DEF z
  <2>3. \A h, k : Failed(h[z]) => Signed(ts, p, k, h) = h[z]
    BY <2>2
  <2>4. f[z] = g[z]
    BY <2>1, <2>3 DEF Alike
  <2>. QED BY <2>2, <2>4
<1>5. CASE Sym(ts, p) \notin {"-", "+", "~"}
  <2>1. \A h, k : Signed(ts, p, k, h) = Atom(ts, p, k, h)
    BY <1>5 DEF Signed
  <2>2. CASE Sym(ts, p) = "("
    <3>. DEFINE z == <<1, p + 1>>
    <3>1. Alike(f[z], g[z])
      BY <1>3 DEF Unary
    <3>2. \A h, k : Atom(ts, p, k, h) =
             IF Failed(h[z]) THEN h[z]
             ELSE IF Sym(ts, h[z].pos) = ")" THEN Got(h[z].val, h[z].pos + 1) ELSE Bad("expected )")
      BY <2>2 DEF Atom
    <3>. HIDE DEF z
    <3>3. f[z] = g[z]
      BY <2>1, <3>1, <3>2 DEF Alike
    <3>. QED BY <2>1, <3>2, <3>3
  <2>3. CASE Sym(ts, p) # "("
    <3>1. \A h, k : Atom(ts, p, k, h) =
             IF Sym(ts, p) = "" THEN Got(ts[p].num, p + 1)
             ELSE IF ~IsName(ts[p]) THEN Bad("unexpected")
             ELSE IF ts[p].sym \in DOMAIN k THEN Got(k[ts[p].sym], p + 1)
             ELSE Bad("undefined label")
      BY <1>1, <2>3 DEF Atom
    <3>. DEFINE sm == Signed(ts, p, m, f)
                sw == Signed(ts, p, w, g)
                blank == Sym(ts, p) = ""
                word == IsName(ts[p])
                name == ts[p].sym
    <3>4. /\ sm = IF blank THEN Got(ts[p].num, p + 1) ELSE IF ~word THEN Bad("unexpected")
                  ELSE IF name \in DOMAIN m THEN Got(m[name], p + 1) ELSE Bad("undefined label")
          /\ sw = IF blank THEN Got(ts[p].num, p + 1) ELSE IF ~word THEN Bad("unexpected")
                  ELSE IF name \in DOMAIN w THEN Got(w[name], p + 1) ELSE Bad("undefined label")
      BY <2>1, <3>1
    <3>5. ~Failed(sm) /\ ~Failed(sw) /\ Failed(Bad("undefined label"))
      BY <1>0
    <3>. HIDE DEF sm, sw, blank, word, name
    <3>2. CASE blank \/ ~word
      <4>1. sm = sw
        BY ONLY <3>4, <3>2
      <4>. QED BY <4>1 DEF sm, sw
    <3>3. CASE ~blank /\ word
      <4>1. name \in DOMAIN m /\ name \in DOMAIN w
        BY ONLY <3>3, <3>4, <3>5
      <4>2. m[name] = w[name]
        BY <4>1 DEF Agree
      <4>3. sm = sw
        BY ONLY <3>3, <3>4, <4>1, <4>2
      <4>. QED BY <4>3 DEF sm, sw
    <3>. QED BY <3>2, <3>3
  <2>. QED BY <2>2, <2>3
<1>. QED BY <1>4, <1>5

LEMMA ReadingsAlike ==
  ASSUME NEW ts \in Seq(AnyToken), NEW n \in Nat, n = Len(ts),
         NEW m, NEW w, AreLabels(m), AreLabels(w), Agree(m, w), NEW x \in Places(n)
  PROVE  Alike(Readings(ts, m)[x], Readings(ts, w)[x])
<1>. DEFINE f == Readings(ts, m)
            g == Readings(ts, w)
            X == Places(n)
            r == Ahead(n)
            S == {y \in X : Alike(f[y], g[y])}
<1>1. /\ f \in Reads(n) /\ g \in Reads(n)
      /\ \A y \in X : f[y] = Level(y[1], ts, y[2], m, f) /\ g[y] = Level(y[1], ts, y[2], w, g)
  BY ReadingsAre
<1>2. r \in [X -> Nat]
  BY AheadIsNat
<1>. HIDE DEF f, g
<1>3. ASSUME NEW y \in X, \A u \in X : r[u] < r[y] => u \in S
      PROVE  y \in S
  <2>1. PICK l \in 1..Unary, p \in 1..(n + 1) : y = <<l, p>>
    BY DEF Places
  <2>2. AlikeBelow(f, g, n, <<l, p>>)
    BY <1>3, <2>1 DEF AlikeBelow
  <2>3. f[y] = Level(l, ts, p, m, f) /\ g[y] = Level(l, ts, p, w, g)
    BY <1>1, <2>1
  <2>. HIDE DEF S, X, r
  <2>4. CASE l < Unary
    <3>1. Alike(Level(l, ts, p, m, f), Level(l, ts, p, w, g))
      BY <1>1, <2>2, <2>4, LevelsAlike
    <3>. QED BY <1>3, <2>3, <3>1 DEF S, X
  <2>5. CASE l = Unary
    <3>1. Alike(Signed(ts, p, m, f), Signed(ts, p, w, g))
      BY <2>2, <2>5, SignsAlike
    <3>2. f[y] = Signed(ts, p, m, f) /\ g[y] = Signed(ts, p, w, g)
      BY <2>3, <2>5 DEF Level
    <3>. QED BY <1>3, <3>1, <3>2 DEF S, X
  <2>6. l < Unary \/ l = Unary
    BY DEF Unary
  <2>. QED BY <2>4, <2>5, <2>6
<1>4. X \subseteq S
  <2>. HIDE DEF X, r, S
  <2>. QED BY <1>2, <1>3, MeasureInduction
<1>. QED BY <1>4 DEF f, g

\* The value of an operand, if it has one, depends on the labels it names only.
LEMMA EvalAgrees ==
  ASSUME NEW ts \in Seq(AnyToken), NEW m, NEW w, AreLabels(m), AreLabels(w), Agree(m, w),
         ~Failed(Eval(ts, m)), ~Failed(Eval(ts, w))
  PROVE  Eval(ts, m) = Eval(ts, w)
<1>. DEFINE n == Len(ts)
            r(k) == Readings(ts, k)[<<1, 1>>]
<1>1. n \in Nat /\ n = Len(ts) /\ <<1, 1>> \in Places(n)
  BY DEF Places, Unary
<1>2. Alike(r(m), r(w))
  <2>. HIDE DEF n
  <2>. QED BY <1>1, ReadingsAlike
<1>3. ASSUME NEW k, ~Failed(Eval(ts, k)) PROVE ~Failed(r(k)) /\ Eval(ts, k) = r(k)
  <2>1. Eval(ts, k) = IF ts = <<>> THEN Bad("empty expression")
                      ELSE IF ~Failed(r(k)) /\ r(k).pos <= Len(ts) THEN Bad("unexpected") ELSE r(k)
    BY DEF Eval
  <2>2. Failed(Bad("empty expression")) /\ Failed(Bad("unexpected"))
    BY DEF Failed, Bad
  <2>. HIDE DEF r
  <2>. QED BY <1>3, <2>1, <2>2
<1>. HIDE DEF r
<1>. QED BY <1>2, <1>3 DEF Alike
-----------------------------------------------------------------------------
(* What is encoded is as long as the layout takes it for.                    *)

LEMMA CodedErrors == /\ \A why \in EncodeErrors : NoCode(why).err # "none"
                     /\ \A ws : Code(ws).words = ws
BY DEF EncodeErrors, NoCode, Code

LEMMA InstructionSize ==
  ASSUME NEW A, NEW st \in Stmts(A), A \subseteq Int, NEW labels, AreLabels(labels), st.op \in DOMAIN Arity,
         Instruction(st, labels).err = "none"
  PROVE  Len(Instruction(st, labels).words) = FixedSize(st)
<1>. DEFINE n == RegOperands(st.op)
            r == [k \in 1..n |-> Registers[st.args[k][1].sym]]
            v == Eval(st.args[n + 1], labels)
            i == Instruction(st, labels)
            odd == \E k \in 1..n : ~IsReg(st.args[k])
<1>1. i = IF Len(st.args) # Arity[st.op] THEN NoCode("operands")
          ELSE IF odd THEN NoCode("register")
          ELSE IF n = Len(st.args)
               THEN IF st.op \in {"or", "xor"} /\ r[1] = 4 THEN NoCode("scratch register")
                    ELSE Code(RegWords(st.op, r))
          ELSE IF Failed(v) THEN NoCode("operand")
          ELSE CASE st.op \in DOMAIN OpRI    -> RI_Word(st.op, r[1], v)
                 [] st.op = "li"             -> LoadWords(r[1], v)
                 [] st.op \in {"bt", "bf"}   -> BranchWord(st.op, BranchOperand(st, v))
  BY DEF Instruction
<1>2. {"operands", "register", "scratch register", "operand", "immediate", "li", "branch range"} \subseteq EncodeErrors
  BY DEF EncodeErrors
<1>3. ~odd => \A k \in 1..n : r[k] \in Int
  BY OpsAre DEF IsReg
<1>4. /\ st.op \in DOMAIN OpRI \cup {"li"} => n = 1 /\ Arity[st.op] = 2
      /\ st.op \in {"bt", "bf"} => n = 0 /\ Arity[st.op] = 1
      /\ st.op \notin DOMAIN OpRI \cup {"li", "bt", "bf"} => n = Arity[st.op]
  BY OpsAre DEF RegOperands, Arity
<1>5. FixedSize(st) = IF st.op = "li" THEN 2 ELSE IF st.op = "or" THEN 3 ELSE IF st.op = "xor" THEN 4 ELSE 1
  BY OpsAre DEF FixedSize, LinkageOps
<1>6. i.err = "none"
  OBVIOUS
<1>. HIDE DEF i, r, odd, n, v
<1>7. Len(st.args) = Arity[st.op] /\ ~odd
  BY <1>1, <1>2, <1>6, CodedErrors
<1>8. CASE n = Len(st.args)
  <2>1. i = Code(RegWords(st.op, r)) /\ i.words = RegWords(st.op, r)
    <3>1. i = Code(RegWords(st.op, r))
      BY <1>1, <1>2, <1>6, <1>7, <1>8, CodedErrors
    <3>. QED BY <3>1, CodedErrors
  <2>2. st.op \notin DOMAIN OpRI \cup {"li", "bt", "bf"} /\ n = Arity[st.op]
    BY <1>4, <1>7, <1>8
  <2>3. \A k \in 1..Arity[st.op] : r[k] \in Int
    BY <1>3, <1>7, <2>2
  <2>4. CASE st.op \notin {"or", "xor"}
    <3>. DEFINE op == st.op
    <3>1. op \in DOMAIN Arity \ {"or", "xor", "li", "bt", "bf"} /\ op \notin DOMAIN OpRI /\ \A k \in 1..Arity[op] : r[k] \in Int
      BY <2>2, <2>3, <2>4
    <3>. HIDE DEF op
    <3>2. PICK w \in Int : RegWords(op, r) = <<w>>
      BY <3>1, OneWordOp
    <3>3. Len(RegWords(op, r)) = 1
      BY <3>2
    <3>. QED BY <1>5, <2>1, <2>2, <2>4, <3>3 DEF op, i
  <2>5. CASE st.op \in {"or", "xor"}
    <3>. DEFINE a == R3(AND, 4, r[2], r[3])
                b == R3(ADD, r[1], r[2], r[3])
                c == R3(SUB, r[1], r[1], 4)
                op == st.op
    <3>1. RegWords(op, r) = <<a, b, c>> \o (IF op = "xor" THEN <<c>> ELSE <<>>)
      BY <2>5, OpsAre DEF RegWords
    <3>. HIDE DEF a, b, c, op
    <3>2. Len(RegWords(op, r)) = IF op = "xor" THEN 4 ELSE 3
      BY <3>1
    <3>. QED BY <1>5, <2>1, <2>5, <3>2 DEF op, i
  <2>. QED BY <2>4, <2>5
<1>9. CASE n # Len(st.args)
  <2>1. st.op \in DOMAIN OpRI \cup {"li", "bt", "bf"} /\ ~Failed(v)
    BY <1>1, <1>2, <1>4, <1>6, <1>7, <1>9, CodedErrors
  <2>2. CASE st.op \in DOMAIN OpRI
    <3>1. i = RI_Word(st.op, r[1], v)
      BY <1>1, <1>7, <1>9, <2>1, <2>2, OpsAre
    <3>2. i = NoCode("immediate") \/ i = Code(<<RI(OpRI[st.op], r[1], v.val)>>)
      BY <3>1 DEF RI_Word
    <3>3. i.words = <<RI(OpRI[st.op], r[1], v.val)>>
      BY <1>2, <1>6, <3>2, CodedErrors
    <3>4. st.op \notin {"li", "or", "xor"}
      BY <2>2, OpsAre
    <3>. QED BY <1>5, <3>3, <3>4 DEF i
  <2>3. CASE st.op = "li"
    <3>. DEFINE a == RI(LUI, r[1], (v.val % Space) \div 64)
                b == RI(ADDI, r[1], (v.val % Space) % 64)
                off == r[1] = 0 \/ v.val \notin -2048..4095
    <3>1. i = LoadWords(r[1], v)
      BY <1>1, <1>7, <1>9, <2>1, <2>3, OpsAre
    <3>5. LoadWords(r[1], v) = IF off THEN NoCode("li") ELSE Code(<<a, b>>)
      BY Zenon DEF LoadWords
    <3>. HIDE DEF a, b, off
    <3>4. LoadWords(r[1], v) = NoCode("li") \/ LoadWords(r[1], v) = Code(<<a, b>>)
      BY ONLY <3>5
    <3>2. i = NoCode("li") \/ i = Code(<<a, b>>)
      BY <3>1, <3>4
    <3>3. i.words = <<a, b>>
      BY <1>2, <1>6, <3>2, CodedErrors
    <3>. QED BY <1>5, <2>3, <3>3 DEF i
  <2>4. CASE st.op \in {"bt", "bf"}
    <3>. DEFINE off == BranchOperand(st, v)
                w == RI(IF st.op = "bf" THEN LUI ELSE ADDI, IF off < 0 THEN 7 ELSE 0, off % 64)
    <3>1. i = BranchWord(st.op, off)
      BY <1>1, <1>7, <1>9, <2>1, <2>4, OpsAre
    <3>2. i = NoCode("branch range") \/ i = Code(<<w>>)
      BY <3>1 DEF BranchWord
    <3>. HIDE DEF w
    <3>3. i.words = <<w>>
      BY <1>2, <1>6, <3>2, CodedErrors
    <3>. QED BY <1>5, <2>4, <3>3 DEF i
  <2>. QED BY <2>1, <2>2, <2>3, <2>4
<1>. QED BY <1>8, <1>9

LEMMA FlattenedFours ==
  ASSUME NEW D, NEW ss \in Seq(Seq(D)), NEW n \in Nat, n = Len(ss), \A k \in 1..n : Len(ss[k]) = 4
  PROVE  Len(FlattenSeq(ss)) = 4 * n
<1>1. PICK L : StandsAt(ss, L, n)
  BY FlattenAt
<1>2. L \in [0..n -> Nat] /\ L[0] = 0 /\ Len(FlattenSeq(ss)) = L[n] /\ \A k \in 1..n : L[k] = L[k - 1] + 4
  BY <1>1 DEF StandsAt
<1>. DEFINE U == {k \in Nat : k <= n => L[k] = 4 * k}
<1>3. 0 \in U
  BY <1>2
<1>4. ASSUME NEW k \in Nat, k \in U PROVE k + 1 \in U
  <2>. SUFFICES ASSUME k + 1 <= n PROVE L[k + 1] = 4 * (k + 1)
    OBVIOUS
  <2>1. k + 1 \in 1..n /\ (k + 1) - 1 = k /\ k <= n
    OBVIOUS
  <2>2. L[k] = 4 * k /\ L[k + 1] = L[k] + 4
    BY <1>2, <1>4, <2>1
  <2>. QED BY <2>2
<1>. HIDE DEF U
<1>5. n \in U
  BY <1>3, <1>4, SetInduction
<1>. QED BY <1>2, <1>5 DEF U

LEMMA DirectiveSize ==
  ASSUME NEW A, NEW st \in Stmts(A), A \subseteq Int, NEW labels, AreLabels(labels), st.op \notin DOMAIN Arity,
         Directive(st, labels).err = "none"
  PROVE  DirectiveWords(st, labels, Directive(st, labels).words)
<1>. DEFINE bound == Len(st.args)
            vs == [k \in 1..bound |-> Eval(st.args[k], labels)]
            chars == [k \in 1..Len(Chars(st)) |-> Chars(st)[k].num]
            fails(n) == \E k \in 1..n : Failed(vs[k])
            sixbits == [k \in DOMAIN chars |-> CX!Encode(chars[k])]
            words == [k \in DOMAIN vs |-> vs[k].val % Space]
            fours == [k \in DOMAIN vs |-> [j \in 1..4 |-> st.args[k][j].num]]
            filling == [k \in 1..vs[1].val |-> IF Len(vs) = 2 THEN vs[2].val % Space ELSE 0]
            padding == [k \in 1..((-st.addr) % vs[1].val) |-> 0]
            d == Directive(st, labels)
<1>1. bound \in Nat /\ vs \in Seq(Found) /\ Len(vs) = bound /\ DOMAIN vs = 1..bound
  BY OperandsIn
<1>2. \A k \in 1..bound : vs[k].val \in Int
  BY <1>1 DEF Found
<1>9. d = CASE st.op \in {"", ".section"} \cup LinkageOps -> Code(<<>>)
        [] st.op = ".str"    -> Code(chars)
        [] st.op = ".strz"   -> Code(chars \o <<0>>)
        [] st.op = ".sixbit" -> IF \E k \in DOMAIN chars : CX!Encode(chars[k]) = CX!NoChar
                                THEN NoCode("sixbit") ELSE Code(sixbits)
        [] st.op = ".base"   -> IF \/ Len(vs) # 2 \/ vs[2] \notin {Got(w, vs[2].pos) : w \in Word}
                                   \/ ~IsReg(st.args[1]) \/ st.args[1][1].sym \in {"r0", "r7"}
                                THEN NoCode(".base") ELSE Code(<<>>)
        [] st.op = ".word"   -> IF vs = <<>> \/ fails(Len(vs)) THEN NoCode(".word") ELSE Code(words)
        [] st.op = ".float"  -> IF vs = <<>> \/ \E k \in DOMAIN vs : Len(st.args[k]) # 4 THEN NoCode(".float")
                                ELSE Code(FlattenSeq(fours))
        [] st.op = ".fill"   -> IF Len(vs) \notin 1..2 \/ fails(Len(vs)) THEN NoCode(".fill")
                                ELSE IF vs[1].val < 0 THEN NoCode(".fill") ELSE Code(filling)
        [] st.op = ".align"  -> IF vs = <<>> \/ fails(1) THEN NoCode(".align")
                                ELSE IF vs[1].val < 1 THEN NoCode(".align") ELSE Code(padding)
        [] OTHER             -> NoCode("unknown mnemonic")
  BY DEF Directive
<1>10. {"sixbit", ".base", ".word", ".float", ".fill", ".align", "unknown mnemonic"} \subseteq EncodeErrors
  BY DEF EncodeErrors
<1>11. vs = <<>> <=> bound = 0
  BY <1>1
<1>3. Len(Chars(st)) \in Nat /\ Len(chars) = Len(Chars(st))
  <2>1. Chars(st) \in Seq(AnyToken)
    BY <1>1, OperandsIn DEF Chars
  <2>. DEFINE c == Len(Chars(st))
  <2>2. c \in Nat
    BY <2>1
  <2>3. chars = [k \in 1..c |-> Chars(st)[k].num]
    OBVIOUS
  <2>. HIDE DEF chars, c
  <2>4. Len(chars) = c
    BY <2>2, <2>3
  <2>. QED BY <2>2, <2>4 DEF c
<1>4. Len(chars \o <<0>>) = 1 + Len(Chars(st)) /\ Len(sixbits) = Len(Chars(st))
  <2>. DEFINE c == Len(Chars(st))
  <2>1. chars = [k \in 1..c |-> chars[k]] /\ sixbits = [k \in 1..c |-> CX!Encode(chars[k])] /\ c \in Nat
    BY <1>3
  <2>. HIDE DEF c, chars, sixbits
  <2>2. Len(chars \o <<0>>) = c + 1
    <3>. DEFINE S == {chars[k] : k \in 1..c}
    <3>1. chars \in Seq(S) /\ Len(chars) = c
      BY <2>1
    <3>2. <<0>> \in Seq(Int) /\ Len(<<0>>) = 1
      OBVIOUS
    <3>. HIDE DEF S
    <3>3. chars \in Seq(S \cup Int) /\ <<0>> \in Seq(S \cup Int)
      BY <3>1, <3>2, WiderSeq
    <3>. QED BY <3>1, <3>2, <3>3
  <2>3. Len(sixbits) = c
    BY <2>1
  <2>. QED BY <2>1, <2>2, <2>3 DEF c
<1>5. d.err = "none"
  OBVIOUS
<1>6. Max2(1, bound) = IF bound = 0 THEN 1 ELSE bound
  <2>. HIDE DEF bound
  <2>. QED BY <1>1 DEF Max2
<1>7. bound # 0 /\ (\A k \in DOMAIN vs : Len(st.args[k]) = 4) => Len(FlattenSeq(fours)) = 4 * bound
  <2>. SUFFICES ASSUME \A k \in DOMAIN vs : Len(st.args[k]) = 4 PROVE Len(FlattenSeq(fours)) = 4 * bound
    OBVIOUS
  <2>1. ASSUME NEW k \in 1..bound
        PROVE  [j \in 1..4 |-> st.args[k][j].num] \in Seq(Int) /\ Len([j \in 1..4 |-> st.args[k][j].num]) = 4
    <3>1. st.args[k] \in Seq(AnyToken) /\ Len(st.args[k]) = 4
      BY <1>1, OperandsIn
    <3>2. \A t \in AnyToken : t.num \in Int
      BY DEF AnyToken
    <3>3. \A j \in 1..4 : st.args[k][j] \in AnyToken
      BY <3>1
    <3>. QED BY <3>2, <3>3
  <2>2. fours \in Seq(Seq(Int)) /\ Len(fours) = bound /\ \A k \in 1..bound : Len(fours[k]) = 4
    BY <1>1, <2>1
  <2>. HIDE DEF fours, bound
  <2>. QED BY <1>1, <2>2, FlattenedFours
<1>. DEFINE f == FixedSize(st)
<1>8. f = CASE st.op \in {"", ".base", ".section"} \cup LinkageOps -> 0
            [] st.op = "li"                -> 2
            [] st.op = ".word"             -> Max2(1, bound)
            [] st.op = ".float"            -> 4 * Max2(1, bound)
            [] st.op \in {".sixbit", ".str"} -> Len(Chars(st))
            [] st.op = ".strz"             -> 1 + Len(Chars(st))
            [] st.op = "or"                -> 3
            [] st.op = "xor"               -> 4
            [] OTHER                       -> 1
  BY DEF FixedSize
<1>. DEFINE c == Len(Chars(st))
            goal == DirectiveWords(st, labels, d.words)
<1>21. /\ st.op \notin {".fill", ".align"} /\ Len(d.words) = f => goal
  BY DEF DirectiveWords
<1>. HIDE DEF d, chars, sixbits, words, fours, filling, padding, fails, f, c, bound, vs
<1>12. CASE st.op \in {"", ".section"} \cup LinkageOps
  <2>1. d = Code(<<>>) /\ f = 0
    BY <1>8, <1>9, <1>12 DEF LinkageOps
  <2>2. d.words = <<>>
    BY <2>1, CodedErrors
  <2>3. Len(d.words) = f
    BY <2>1, <2>2
  <2>4. st.op \notin {".fill", ".align"}
    BY <1>12 DEF LinkageOps
  <2>. QED BY <1>21, <2>3, <2>4 DEF d
<1>13. CASE st.op = ".str"
  <2>1. d = Code(chars) /\ f = c
    BY <1>8, <1>9, <1>13 DEF LinkageOps, c
  <2>. QED BY <1>3, <1>13, <1>21, <2>1, CodedErrors DEF c, d
<1>14. CASE st.op = ".strz"
  <2>1. d = Code(chars \o <<0>>) /\ f = 1 + c
    BY <1>8, <1>9, <1>14 DEF LinkageOps, c
  <2>. QED BY <1>4, <1>14, <1>21, <2>1, CodedErrors DEF c, d
<1>15. CASE st.op = ".sixbit"
  <2>1. (d = NoCode("sixbit") \/ d = Code(sixbits)) /\ f = c
    BY <1>8, <1>9, <1>15 DEF LinkageOps, c
  <2>. QED BY <1>4, <1>5, <1>10, <1>15, <1>21, <2>1, CodedErrors DEF c, d
<1>16. CASE st.op = ".base"
  <2>1. (d = NoCode(".base") \/ d = Code(<<>>)) /\ f = 0
    BY <1>8, <1>9, <1>16 DEF LinkageOps
  <2>2. d.words = <<>>
    BY <1>5, <1>10, <2>1, CodedErrors
  <2>3. Len(d.words) = f
    BY <2>1, <2>2
  <2>. QED BY <1>16, <1>21, <2>3 DEF d
<1>17. CASE st.op = ".word"
  <2>1. (d = NoCode(".word") \/ (vs # <<>> /\ d = Code(words))) /\ f = Max2(1, bound)
    BY <1>8, <1>9, <1>17 DEF LinkageOps
  <2>2. d.words = words /\ bound # 0
    BY <1>5, <1>10, <1>11, <2>1, CodedErrors
  <2>3. Len(words) = bound
    BY <1>1 DEF words
  <2>. QED BY <1>6, <1>17, <1>21, <2>1, <2>2, <2>3 DEF d
<1>18. CASE st.op = ".float"
  <2>1. (d = NoCode(".float") \/ (vs # <<>> /\ (\A k \in DOMAIN vs : Len(st.args[k]) = 4)  /\ d = Code(FlattenSeq(fours))))
        /\ f = 4 * Max2(1, bound)
    BY <1>8, <1>9, <1>18 DEF LinkageOps
  <2>2. d.words = FlattenSeq(fours) /\ bound # 0 /\ \A k \in DOMAIN vs : Len(st.args[k]) = 4
    BY <1>5, <1>10, <1>11, <2>1, CodedErrors
  <2>. QED BY <1>6, <1>7, <1>18, <1>21, <2>1, <2>2 DEF d
<1>19. CASE st.op = ".fill"
  <2>1. d = NoCode(".fill") \/ (d = Code(filling) /\ Len(vs) \in 1..2 /\ ~(vs[1].val < 0) /\ ~fails(Len(vs)))
    BY <1>9, <1>19 DEF LinkageOps
  <2>2. d.words = filling /\ Len(vs) \in 1..2 /\ ~(vs[1].val < 0) /\ ~fails(Len(vs))
    BY <1>5, <1>10, <2>1, CodedErrors
  <2>3. 1 \in 1..bound
    BY <1>1, <2>2
  <2>. DEFINE x == vs[1].val
  <2>4. x \in Int /\ ~(x < 0) /\ ~Failed(vs[1]) /\ vs[1] = Eval(st.args[1], labels) /\ st.args # <<>>
    <3>1. vs[1] = Eval(st.args[1], labels)
      BY <2>3 DEF vs
    <3>2. st.args # <<>>
      BY <1>1, <2>3 DEF bound
    <3>3. ~Failed(vs[1])
      BY <1>1, <2>2, <2>3 DEF fails
    <3>. QED BY <1>2, <2>2, <2>3, <3>1, <3>2, <3>3
  <2>5. Len(filling) = x
    <3>1. filling = [k \in 1..x |-> IF Len(vs) = 2 THEN vs[2].val % Space ELSE 0]
      BY DEF filling
    <3>. HIDE DEF x
    <3>2. x \in Nat
      BY <2>4
    <3>. QED BY <3>1, <3>2
  <2>6. x = Eval(st.args[1], labels).val /\ Failed(vs[1]) = Failed(Eval(st.args[1], labels))
    BY <2>4
  <2>. HIDE DEF x
  <2>7. x >= 0
    BY <2>4
  <2>. QED BY <1>19, <2>2, <2>4, <2>5, <2>6, <2>7 DEF DirectiveWords, d
<1>20. CASE st.op = ".align"
  <2>1. d = NoCode(".align") \/ (d = Code(padding) /\ vs # <<>> /\ ~(vs[1].val < 1) /\ ~fails(1))
    BY <1>9, <1>20 DEF LinkageOps
  <2>2. d.words = padding /\ vs # <<>> /\ ~(vs[1].val < 1) /\ ~fails(1)
    BY <1>5, <1>10, <2>1, CodedErrors
  <2>3. 1 \in 1..bound
    BY <1>1, <1>11, <2>2
  <2>. DEFINE x == vs[1].val
  <2>4. x \in Int /\ ~(x < 1) /\ ~Failed(vs[1]) /\ vs[1] = Eval(st.args[1], labels) /\ st.args # <<>>
    <3>1. vs[1] = Eval(st.args[1], labels)
      BY <2>3 DEF vs
    <3>2. st.args # <<>>
      BY <1>1, <2>3 DEF bound
    <3>3. ~Failed(vs[1])
      BY <2>2 DEF fails
    <3>. QED BY <1>2, <2>2, <2>3, <3>1, <3>2, <3>3
  <2>5. Len(padding) = (-st.addr) % x
    <3>1. padding = [k \in 1..((-st.addr) % x) |-> 0]
      BY DEF padding
    <3>2. st.addr \in Int
      BY StmtFields
    <3>. DEFINE a == -st.addr
                q == a % x
    <3>3. a \in Int
      BY <3>2
    <3>. HIDE DEF x, a
    <3>4. q \in Nat
      BY <2>4, <3>3
    <3>5. padding = [k \in 1..q |-> 0]
      BY <3>1 DEF a
    <3>. HIDE DEF q
    <3>6. Len(padding) = q
      BY <3>4, <3>5
    <3>. QED BY <3>6 DEF q, a
  <2>6. x = Eval(st.args[1], labels).val /\ Failed(vs[1]) = Failed(Eval(st.args[1], labels))
    BY <2>4
  <2>. HIDE DEF x
  <2>7. x >= 1
    BY <2>4
  <2>. QED BY <1>20, <2>2, <2>4, <2>5, <2>6, <2>7 DEF DirectiveWords, d
<1>22. CASE st.op \notin {"", ".section", ".str", ".strz", ".sixbit", ".base", ".word", ".float", ".fill", ".align"}
                         \cup LinkageOps
  BY <1>5, <1>9, <1>10, <1>22, CodedErrors
<1>. QED BY <1>12, <1>13, <1>14, <1>15, <1>16, <1>17, <1>18, <1>19, <1>20, <1>22

LEMMA EncodedSize ==
  ASSUME NEW A, NEW st \in Stmts(A), A \subseteq Int, NEW labels, AreLabels(labels), Encode(st, labels).err = "none"
  PROVE  DirectiveWords(st, labels, Encode(st, labels).words)
<1>1. CASE st.op \in DOMAIN Arity
  BY <1>1, InstructionSize, OpsAre DEF Encode, DirectiveWords
<1>2. CASE st.op \notin DOMAIN Arity
  BY <1>2, DirectiveSize DEF Encode
<1>. QED BY <1>1, <1>2
-----------------------------------------------------------------------------
(* The first pass leaves room for what is encoded.                           *)

LEMMA AssignErrorsAre == "none" \notin AssignErrors
BY DEF AssignErrors

LEMMA LineIsTaken ==
  ASSUME NEW g \in Assignments, NEW l \in SourceLine, NEW k \in Nat, NEW r, r = Assign(g, l, k, FALSE), r.err = "none"
  PROVE  g.err = "none" /\ LineTaken(g, r, l, k)
<1>. DEFINE st == Stmt(l, g.addr, g.sec, k)
            labels == WithLabels(g.labels, st, g.addr)
            value == ValueOf(l, labels)
            new == SectionLine(g, l, k)
            placed == Place(g, l, st, labels, value, FALSE)
            v == value.val
            shown == Eval(l.args[1], r.labels)
            f == FixedSize(st)
            more == Append(g.stmts, st)
<1>1. AssignFact(g, l, k, FALSE)
  BY AssignCases
<1>2. \/ g.err # "none" /\ r = g
      \/ \E why \in AssignErrors : r = Assigned(g, g.sec, g.addr, g.labels, g.stmts, why)
      \/ /\ g.err = "none" /\ l.op = ".section" /\ l.args # <<>>
         /\ r = Assigned(g, NameIn(l, 1), g.addr, g.labels, Append(g.stmts, new), g.err)
      \/ /\ g.err = "none" /\ l.op # ".section" /\ Range(l.labels) \cap DOMAIN g.labels = {}
         /\ r = placed
  BY <1>1 DEF AssignFact, PlacedLine
<1>3. ~\E why \in AssignErrors : r = Assigned(g, g.sec, g.addr, g.labels, g.stmts, why)
  <2>1. \A why : Assigned(g, g.sec, g.addr, g.labels, g.stmts, why).err = why
    BY DEF Assigned
  <2>2. r.err = "none"
    OBVIOUS
  <2>. QED BY <2>1, <2>2, AssignErrorsAre
<1>4. st \in Stmts(Nat) /\ labels \in LabelTables /\ value \in Found
  <2>1. g.labels \in LabelTables /\ g.sec \in AnyName /\ g.addr \in Nat
    BY AssignedIn
  <2>2. st \in Stmts(Nat)
    BY <2>1, StmtTyped
  <2>3. g.addr \in Int
    BY <2>1
  <2>. HIDE DEF st
  <2>4. labels \in LabelTables
    BY <2>1, <2>2, <2>3, WithLabelsIn
  <2>. HIDE DEF labels
  <2>. QED BY <2>2, <2>4, ValueFound
<1>5. PlaceFact(g, l, st, labels, value, FALSE)
  <2>. HIDE DEF st, labels, value
  <2>. QED BY <1>4, PlaceCases
<1>6. \/ \E why \in AssignErrors : placed = Assigned(g, g.sec, g.addr, g.labels, g.stmts, why)
      \/ l.op = ".org" /\ v \in Word /\ placed = Assigned(g, g.sec, v, labels, g.stmts, g.err)
      \/ l.op = ".align" /\ ~Failed(value) /\ v >= 1 /\ placed = Assigned(g, g.sec, AlignUp(g.addr, v), labels, more, g.err)
      \/ l.op = ".fill" /\ ~Failed(value) /\ v >= 0 /\ placed = Assigned(g, g.sec, g.addr + v, labels, more, g.err)
      \/ l.op \notin {".org", ".align", ".fill"} /\ placed = Assigned(g, g.sec, g.addr + f, labels, more, g.err)
  BY <1>5 DEF PlaceFact
<1>7. ~Failed(value) => l.args # <<>> /\ value = Eval(l.args[1], labels)
  BY DEF ValueOf, Failed, Bad
<1>8. LineTaken(g, r, l, k)
      <=> \/ /\ l.op = ".section" /\ r.addr = g.addr /\ r.labels = g.labels
             /\ r.stmts = Append(g.stmts, new) /\ l.args # <<>>
          \/ /\ l.op # ".section" /\ Range(l.labels) \cap DOMAIN g.labels = {}
             /\ r.labels = labels
             /\ \/ l.op = ".org" /\ r.stmts = g.stmts
                \/ /\ l.op # ".org" /\ r.stmts = more
                   /\ l.op = ".align" => l.args # <<>> /\ ~Failed(shown) /\ shown.val >= 1 /\ r.addr = AlignUp(g.addr, shown.val)
                   /\ l.op = ".fill" => l.args # <<>> /\ ~Failed(shown) /\ shown.val >= 0 /\ r.addr = g.addr + shown.val
                   /\ l.op \notin {".align", ".fill"} => r.addr = g.addr + f
  BY DEF LineTaken
<1>9. r.labels = labels /\ ~Failed(value) => l.args # <<>> /\ shown = value /\ shown.val = v /\ ~Failed(shown)
  BY <1>7
<1>10. r.err = "none"
  OBVIOUS
<1>. HIDE DEF st, labels, value, new, placed, v, shown, f, more
<1>11. CASE l.op = ".section"
  <2>1. g.err = "none" /\ r = Assigned(g, NameIn(l, 1), g.addr, g.labels, Append(g.stmts, new), g.err) /\ l.args # <<>>
    BY <1>2, <1>3, <1>10, <1>11
  <2>2. r.addr = g.addr /\ r.labels = g.labels /\ r.stmts = Append(g.stmts, new)
    BY ONLY <2>1 DEF Assigned
  <2>. QED BY <1>8, <1>11, <2>1, <2>2
<1>12. CASE l.op # ".section"
  <2>1. g.err = "none" /\ r = placed /\ Range(l.labels) \cap DOMAIN g.labels = {}
    BY <1>2, <1>3, <1>10, <1>12
  <2>2. CASE l.op = ".org"
    <3>1. r = Assigned(g, g.sec, v, labels, g.stmts, g.err)
      BY <1>3, <1>6, <2>1, <2>2
    <3>2. r.labels = labels /\ r.stmts = g.stmts
      BY ONLY <3>1 DEF Assigned
    <3>. QED BY <1>8, <2>1, <2>2, <3>2
  <2>3. CASE l.op = ".align"
    <3>1. r = Assigned(g, g.sec, AlignUp(g.addr, v), labels, more, g.err) /\ ~Failed(value) /\ v >= 1
      BY <1>3, <1>6, <2>1, <2>3
    <3>2. r.labels = labels /\ r.stmts = more /\ r.addr = AlignUp(g.addr, v)
      BY ONLY <3>1 DEF Assigned
    <3>. QED BY <1>8, <1>9, <2>1, <2>3, <3>1, <3>2
  <2>4. CASE l.op = ".fill"
    <3>1. r = Assigned(g, g.sec, g.addr + v, labels, more, g.err) /\ ~Failed(value) /\ v >= 0
      BY <1>3, <1>6, <2>1, <2>4
    <3>2. r.labels = labels /\ r.stmts = more /\ r.addr = g.addr + v
      BY ONLY <3>1 DEF Assigned
    <3>. QED BY <1>8, <1>9, <2>1, <2>4, <3>1, <3>2
  <2>5. CASE l.op \notin {".org", ".align", ".fill"}
    <3>1. r = Assigned(g, g.sec, g.addr + f, labels, more, g.err)
      BY <1>3, <1>6, <2>1, <2>5
    <3>2. r.labels = labels /\ r.stmts = more /\ r.addr = g.addr + f
      BY ONLY <3>1 DEF Assigned
    <3>. QED BY <1>8, <1>12, <2>1, <2>5, <3>2
  <2>. QED BY <2>2, <2>3, <2>4, <2>5
<1>. QED BY <1>11, <1>12

LEMMA FirstPassIs ==
  ASSUME NEW ls \in Seq(SourceLine), NEW n \in Nat, n = Len(ls), AssignAddresses(ls, FALSE).err = "none"
  PROVE  \E to : FirstPass(ls, n, to) /\ AssignAddresses(ls, FALSE) = to[n]
<1>1. AssignRun(ls, FALSE, n)
  BY AssignSteps
<1>2. PICK to \in [0..n -> Assignments] :
        /\ to[0] = Assigning
        /\ \A k \in 1..n : to[k] = Assign(to[k - 1], ls[k], k, FALSE)
        /\ AssignAddresses(ls, FALSE) = to[n]
  BY <1>1 DEF AssignRun
<1>. DEFINE U == {i \in Nat : i <= n => to[n - i].err = "none"}
<1>3. 0 \in U
  BY <1>2
<1>4. ASSUME NEW k \in 1..n, to[k].err = "none"
      PROVE  to[k - 1].err = "none" /\ LineTaken(to[k - 1], to[k], ls[k], k)
  BY <1>2, <1>4, LineIsTaken
<1>5. ASSUME NEW i \in Nat, i \in U PROVE i + 1 \in U
  <2>. SUFFICES ASSUME i + 1 <= n PROVE to[n - (i + 1)].err = "none"
    OBVIOUS
  <2>1. n - i \in 1..n /\ n - (i + 1) = (n - i) - 1 /\ i <= n
    OBVIOUS
  <2>2. to[n - i].err = "none"
    BY <1>5, <2>1
  <2>. DEFINE k == n - i
  <2>. HIDE DEF k
  <2>3. k \in 1..n /\ to[k].err = "none"
    BY <2>1, <2>2 DEF k
  <2>4. to[k - 1].err = "none"
    BY <1>4, <2>3
  <2>. QED BY <2>1, <2>4 DEF k
<1>. HIDE DEF U
<1>6. \A i \in Nat : i \in U
  BY <1>3, <1>5, SetInduction
<1>7. ASSUME NEW k \in 1..n PROVE to[k].err = "none"
  BY <1>6 DEF U
<1>8. FirstPass(ls, n, to)
  BY <1>2, <1>4, <1>7 DEF FirstPass
<1>. QED BY <1>2, <1>8

LEMMA ReachedIs ==
  ASSUME NEW ls \in Seq(SourceLine), NEW n \in Nat, n = Len(ls), NEW to, FirstPass(ls, n, to), NEW i \in 0..n
  PROVE  AssignAddresses(SubSeq(ls, 1, i), FALSE) = to[i]
<1>. DEFINE part == SubSeq(ls, 1, i)
<1>1. part \in Seq(SourceLine) /\ Len(part) = i /\ (\A k \in 1..i : part[k] = ls[k]) /\ i \in Nat /\ i <= n
  OBVIOUS
<1>. HIDE DEF part
<1>2. AssignRun(part, FALSE, i)
  BY <1>1, AssignSteps
<1>3. PICK at \in [0..i -> Assignments] :
        /\ at[0] = Assigning
        /\ \A k \in 1..i : at[k] = Assign(at[k - 1], part[k], k, FALSE)
        /\ AssignAddresses(part, FALSE) = at[i]
  BY <1>2 DEF AssignRun
<1>. DEFINE U == {k \in Nat : k <= i => at[k] = to[k]}
<1>4. 0 \in U
  BY <1>3 DEF FirstPass
<1>5. ASSUME NEW k \in Nat, k \in U PROVE k + 1 \in U
  <2>. SUFFICES ASSUME k + 1 <= i PROVE at[k + 1] = to[k + 1]
    OBVIOUS
  <2>1. k + 1 \in 1..i /\ k + 1 \in 1..n /\ (k + 1) - 1 = k /\ k <= i
    BY <1>1
  <2>2. at[k] = to[k]
    BY <1>5, <2>1
  <2>3. at[k + 1] = Assign(at[k], ls[k + 1], k + 1, FALSE)
    BY <1>1, <1>3, <2>1
  <2>4. to[k + 1] = Assign(to[k], ls[k + 1], k + 1, FALSE)
    BY <2>1 DEF FirstPass
  <2>. QED BY <2>2, <2>3, <2>4
<1>. HIDE DEF U
<1>6. i \in U
  BY <1>1, <1>4, <1>5, SetInduction
<1>7. at[i] = to[i]
  BY <1>1, <1>6 DEF U
<1>. QED BY <1>3, <1>7 DEF part
-----------------------------------------------------------------------------
\* An .align leaves as many words as are missing to the next multiple.
LEMMA AlignUpIs ==
  ASSUME NEW a \in Nat, NEW x \in Nat, x >= 1
  PROVE  AlignUp(a, x) = a + ((-a) % x) /\ (-a) % x \in Nat
<1>. DEFINE b == (a + x) - 1
            q == b \div x
            r == b % x
            m == -a
<1>1. b \in Int /\ q \in Int /\ r \in 0..(x - 1) /\ b = q * x + r /\ m \in Int
  OBVIOUS
<1>2. AlignUp(a, x) = q * x
  BY DEF AlignUp
<1>. HIDE DEF q, r
<1>. DEFINE s == (x - 1) - r
            p == q * x
            t == -q
<1>3. s \in Nat /\ s < x /\ t \in Int /\ x > 0
  BY <1>1
<1>4. p \in Int /\ b = p + r
  BY <1>1
<1>5. t * x = -p
  BY <1>1
<1>6. m = (-p) + s
  BY <1>1, <1>4
<1>7. m = t * x + s
  BY <1>5, <1>6
<1>. HIDE DEF s, p, t, m, b
<1>8. s = m % x
  BY <1>1, <1>3, <1>7, DivUnique
<1>9. p = a + s
  BY <1>1, <1>3, <1>4, <1>6 DEF m
<1>. QED BY <1>2, <1>3, <1>8, <1>9 DEF m, p

LEMMA PassFields ==
  ASSUME NEW ls, NEW n \in Nat, NEW to, FirstPass(ls, n, to), NEW k \in 0..n
  PROVE  to[k].addr \in Nat /\ to[k].labels \in LabelTables /\ to[k].stmts \in Seq(Stmts(Nat)) /\ Len(to[k].stmts) \in Nat
<1>1. to[k] \in Assignments
  BY DEF FirstPass
<1>2. to[k].addr \in Nat /\ to[k].labels \in LabelTables /\ to[k].stmts \in Seq(Stmts(Nat))
  BY <1>1, AssignedIn
<1>. HIDE DEF FirstPass
<1>. QED BY <1>2, LenIsNat

LEMMA SizesOfLines ==
  ASSUME NEW ls \in Seq(SourceLine), NEW n \in Nat, n = Len(ls), NEW to, FirstPass(ls, n, to), NEW k \in 1..n
  PROVE  /\ k - 1 \in 0..n /\ k \in 0..n /\ LineTaken(to[k - 1], to[k], ls[k], k)
         /\ ls[k] \in SourceLine /\ Stmt(ls[k], to[k - 1].addr, to[k - 1].sec, k) \in Stmts(Nat)
<1>1. k - 1 \in 0..n /\ k \in 0..n /\ ls[k] \in SourceLine /\ k \in Nat
  OBVIOUS
<1>2. to[k - 1].addr \in Nat /\ to[k - 1].sec \in AnyName
  BY <1>1, AssignedIn DEF FirstPass
<1>. QED BY <1>1, <1>2, StmtTyped DEF FirstPass

\* Where no .org leads back, no line does.
LEMMA PassRises ==
  ASSUME NEW ls \in Seq(SourceLine), NEW n \in Nat, n = Len(ls), NEW to, FirstPass(ls, n, to),
         \A k \in 1..n : ls[k].op = ".org" => to[k - 1].addr <= to[k].addr
  PROVE  \A j \in 0..n : \A k \in j..n : to[j].addr <= to[k].addr
<1>1. ASSUME NEW k \in 1..n PROVE to[k - 1].addr <= to[k].addr
  <2>. DEFINE g == to[k - 1]
              r == to[k]
              l == ls[k]
              st == Stmt(l, g.addr, g.sec, k)
              f == FixedSize(st)
              value == Eval(l.args[1], r.labels)
              v == value.val
              a == g.addr
              b == r.addr
  <2>1. LineTaken(g, r, l, k) /\ st \in Stmts(Nat) /\ k - 1 \in 0..n /\ k \in 0..n /\ l \in SourceLine
    BY SizesOfLines
  <2>2. a \in Nat /\ b \in Nat /\ r.labels \in LabelTables
    BY <2>1, PassFields
  <2>3. \/ l.op = ".section" /\ b = a
        \/ l.op = ".org"
        \/ l.op = ".align" /\ l.args # <<>> /\ v >= 1 /\ b = AlignUp(a, v)
        \/ l.op = ".fill" /\ l.args # <<>> /\ v >= 0 /\ b = a + v
        \/ b = a + f
    BY <2>1 DEF LineTaken
  <2>4. l.op = ".org" => a <= b
    OBVIOUS
  <2>5. f \in Nat
    <3>. HIDE DEF st
    <3>. QED BY <2>1, SizesAreNat
  <2>6. l.args # <<>> => v \in Int
    <3>. SUFFICES ASSUME l.args # <<>> PROVE v \in Int
      OBVIOUS
    <3>1. ValueOf(l, r.labels) = value
      BY DEF ValueOf
    <3>2. ValueOf(l, r.labels) \in Found
      BY <2>1, <2>2, ValueFound
    <3>. QED BY <3>1, <3>2 DEF Found
  <2>. HIDE DEF a, b, f, v, l
  <2>7. CASE l.op = ".align" /\ l.args # <<>> /\ v >= 1 /\ b = AlignUp(a, v)
    <3>1. b >= a
      BY <2>2, <2>6, <2>7, AlignUpIn
    <3>2. a <= b
      BY <2>2, <3>1
    <3>. QED BY <3>2 DEF a, b
  <2>8. CASE l.op = ".fill" /\ l.args # <<>> /\ v >= 0 /\ b = a + v
    BY <2>2, <2>6, <2>8 DEF a, b
  <2>9. a <= b
    BY <2>2, <2>3, <2>4, <2>5, <2>7, <2>8 DEF a, b
  <2>. QED BY <2>9 DEF a, b
<1>2. \A k \in 0..n : to[k].addr \in Nat
  BY PassFields
<1>3. ASSUME NEW j \in 0..n PROVE \A k \in j..n : to[j].addr <= to[k].addr
  <2>. DEFINE U == {i \in Nat : j + i <= n => to[j].addr <= to[j + i].addr}
  <2>1. 0 \in U
    BY <1>2
  <2>2. ASSUME NEW i \in Nat, i \in U PROVE i + 1 \in U
    <3>. SUFFICES ASSUME j + (i + 1) <= n PROVE to[j].addr <= to[j + (i + 1)].addr
      OBVIOUS
    <3>. DEFINE q == j + i
    <3>1. q \in 0..n /\ q + 1 \in 1..n /\ q + 1 \in 0..n /\ (q + 1) - 1 = q /\ j + (i + 1) = q + 1 /\ q <= n
      OBVIOUS
    <3>2. to[j].addr <= to[q].addr
      BY <2>2, <3>1
    <3>. HIDE DEF q
    <3>3. to[q].addr <= to[q + 1].addr
      BY <1>1, <3>1
    <3>4. to[j].addr \in Nat /\ to[q].addr \in Nat /\ to[q + 1].addr \in Nat
      BY <1>2, <3>1
    <3>5. to[j].addr <= to[q + 1].addr
      BY <3>2, <3>3, <3>4
    <3>. QED BY <3>1, <3>5
  <2>. HIDE DEF U
  <2>3. \A i \in Nat : i \in U
    BY <2>1, <2>2, SetInduction
  <2>. TAKE m \in j..n
  <2>4. m - j \in Nat /\ j + (m - j) = m /\ m <= n
    OBVIOUS
  <2>5. m - j \in U
    BY <2>3, <2>4
  <2>. QED BY <2>4, <2>5 DEF U
<1>. QED BY <1>3

LEMMA PassLabels ==
  ASSUME NEW ls \in Seq(SourceLine), NEW n \in Nat, n = Len(ls), NEW to, FirstPass(ls, n, to)
  PROVE  \A k \in 0..n : Tabled(ls, to, k)
<1>. DEFINE U == {k \in Nat : k <= n => Tabled(ls, to, k)}
<1>1. 0 \in U
  BY DEF FirstPass, Assigning, Tabled
<1>2. ASSUME NEW j \in Nat, j \in U PROVE j + 1 \in U
  <2>. SUFFICES ASSUME j + 1 <= n PROVE Tabled(ls, to, j + 1)
    OBVIOUS
  <2>. DEFINE k == j + 1
              g == to[j]
              r == to[k]
              l == ls[k]
              st == Stmt(l, g.addr, g.sec, k)
  <2>1. k \in 1..n /\ k - 1 = j /\ 1..k = (1..j) \cup {k} /\ j <= n /\ k \in 1..k
    OBVIOUS
  <2>2. Tabled(ls, to, j)
    BY <1>2, <2>1
  <2>3. LineTaken(g, r, l, k)
    BY <2>1, SizesOfLines
  <2>4. \/ l.op = ".section" /\ r.labels = g.labels
        \/ l.op # ".section" /\ r.labels = WithLabels(g.labels, st, g.addr)
    BY <2>3 DEF LineTaken
  <2>5. st.labels = l.labels
    BY DEF Stmt
  <2>. HIDE DEF k, st
  <2>6. CASE l.op = ".section" /\ r.labels = g.labels
    BY <2>1, <2>2, <2>6 DEF Tabled, k
  <2>7. CASE l.op # ".section" /\ r.labels = WithLabels(g.labels, st, g.addr)
    <3>1. /\ DOMAIN r.labels = DOMAIN g.labels \cup Range(l.labels)
          /\ \A name \in Range(l.labels) : r.labels[name] = g.addr
          /\ \A name \in DOMAIN g.labels : name \notin Range(l.labels) => r.labels[name] = g.labels[name]
      <4>. DEFINE before == g.labels
                  base == g.addr
                  after == r.labels
      <4>1. after = WithLabels(before, st, base)
        BY <2>7
      <4>. HIDE DEF after, before, base
      <4>. DEFINE own == Range(l.labels)
      <4>2. Range(st.labels) = own
        BY <2>5
      <4>. HIDE DEF own
      <4>3. after = [name \in DOMAIN before \cup own |-> IF name \in own THEN base ELSE before[name]]
        BY <4>1, <4>2 DEF WithLabels
      <4>4. /\ DOMAIN after = DOMAIN before \cup own
            /\ \A name \in own : after[name] = base
            /\ \A name \in DOMAIN before : name \notin own => after[name] = before[name]
        BY ONLY <4>3
      <4>. QED BY <4>4 DEF before, base, after, own
    <3>2. ASSUME NEW name \in DOMAIN r.labels
          PROVE  \E p \in 1..k : /\ ls[p].op # ".section" /\ name \in Range(ls[p].labels)
                                 /\ r.labels[name] = to[p - 1].addr
      <4>1. CASE name \in Range(l.labels)
        BY <2>1, <2>7, <3>1, <4>1
      <4>2. CASE name \notin Range(l.labels)
        <5>1. name \in DOMAIN g.labels /\ r.labels[name] = g.labels[name]
          BY <3>1, <3>2, <4>2
        <5>2. PICK p \in 1..j : /\ ls[p].op # ".section" /\ name \in Range(ls[p].labels)
                                /\ g.labels[name] = to[p - 1].addr
          BY <2>2, <5>1 DEF Tabled
        <5>. QED BY <2>1, <5>1, <5>2
      <4>. QED BY <4>1, <4>2
    <3>3. ASSUME NEW p \in 1..k, ls[p].op # ".section" PROVE Range(ls[p].labels) \subseteq DOMAIN r.labels
      <4>1. CASE p = k
        BY <3>1, <4>1
      <4>2. CASE p \in 1..j
        BY <2>2, <3>1, <3>3, <4>2 DEF Tabled
      <4>. QED BY <2>1, <4>1, <4>2
    <3>. QED BY <3>2, <3>3 DEF Tabled, k
  <2>. QED BY <2>4, <2>6, <2>7
<1>. HIDE DEF U
<1>3. \A k \in Nat : k \in U
  BY <1>1, <1>2, SetInduction
<1>4. \A k \in 0..n : k \in Nat /\ k <= n
  OBVIOUS
<1>. QED BY <1>3, <1>4 DEF U

LEMMA PassStmts ==
  ASSUME NEW ls \in Seq(SourceLine), NEW n \in Nat, n = Len(ls), NEW to, FirstPass(ls, n, to)
  PROVE  \A k \in 0..n : Stood(ls, to, k)
<1>. DEFINE U == {k \in Nat : k <= n => Stood(ls, to, k)}
<1>1. 0 \in U
  BY DEF FirstPass, Assigning, Stood
<1>2. ASSUME NEW m \in Nat, m \in U PROVE m + 1 \in U
  <2>. SUFFICES ASSUME m + 1 <= n PROVE Stood(ls, to, m + 1)
    OBVIOUS
  <2>. DEFINE k == m + 1
              g == to[m]
              r == to[k]
              l == ls[k]
              st == Stmt(l, g.addr, g.sec, k)
              new == SectionLine(g, l, k)
              p == g.stmts
              q == r.stmts
              c == Len(p)
  <2>1. k \in 1..n /\ k - 1 = m /\ m <= n /\ m \in 0..n /\ k \in 0..n /\ k \in 1..k /\ (1..m) \subseteq (1..k) /\ m < k
        /\ \A i \in 1..m : i < k
    OBVIOUS
  <2>2. Stood(ls, to, m)
    BY <1>2, <2>1
  <2>3. LineTaken(g, r, l, k) /\ st \in Stmts(Nat)
    BY <2>1, SizesOfLines
  <2>4. \/ l.op = ".org" /\ q = p
        \/ l.op = ".section" /\ q = Append(p, new)
        \/ l.op \notin {".section", ".org"} /\ q = Append(p, st)
    BY <2>3 DEF LineTaken
  <2>5. p \in Seq(Stmts(Nat)) /\ c \in Nat
    BY <2>1, PassFields
  <2>6. \A x \in {st, new} : /\ x.from = k /\ x.labels = l.labels /\ x.op = l.op /\ x.args = l.args /\ x.addr = g.addr
    <3>1. st.from = k /\ st.labels = l.labels /\ st.op = l.op /\ st.args = l.args /\ st.addr = g.addr
      BY DEF Stmt
    <3>2. new = [st EXCEPT !.sec = NameIn(l, 1)]
      BY DEF SectionLine
    <3>. HIDE DEF st
    <3>. DEFINE name == NameIn(l, 1)
    <3>. HIDE DEF name
    <3>3. new = [st EXCEPT !.sec = name]
      BY <3>2 DEF name
    <3>. HIDE DEF new
    <3>4. /\ new.from = st.from /\ new.labels = st.labels /\ new.op = st.op /\ new.args = st.args
          /\ new.addr = st.addr
      BY <2>3, <3>3 DEF Stmts
    <3>. QED BY <3>1, <3>4
  <2>. HIDE DEF k, st, new, c, p, q
  <2>7. ASSUME NEW i \in 1..c
        PROVE  /\ Standing(ls, to, k, p[i]) /\ p[i].from \in 1..m
               /\ \A j \in 1..i : j < i => p[j].from < p[i].from
    <3>1. Standing(ls, to, m, p[i]) /\ \A j \in 1..i : j < i => p[j].from < p[i].from
      BY <2>2, <2>7 DEF Stood, p, c
    <3>. QED BY <2>1, <3>1 DEF Standing
  <2>8. CASE q = p /\ l.op = ".org"
    <3>1. \A i \in 1..Len(q) : /\ Standing(ls, to, k, q[i]) /\ \A j \in 1..i : j < i => q[j].from < q[i].from
      BY <2>7, <2>8 DEF c
    <3>. QED BY <3>1 DEF Stood, k, q
  <2>9. ASSUME NEW x \in {st, new}, q = Append(p, x), l.op # ".org" PROVE Stood(ls, to, k)
    <3>0. x \in {st, new}
      BY <2>9
    <3>1. Standing(ls, to, k, x) /\ x.from = k
      BY <2>1, <2>6, <2>9, <3>0 DEF Standing
    <3>. HIDE DEF Standing
    <3>2. Len(q) = c + 1 /\ q[c + 1] = x /\ \A i \in 1..c : q[i] = p[i]
      BY <2>5, <2>9 DEF c
    <3>3. ASSUME NEW i \in 1..Len(q)
          PROVE  /\ Standing(ls, to, k, q[i]) /\ \A j \in 1..i : j < i => q[j].from < q[i].from
      <4>1. CASE i \in 1..c
        BY <2>5, <2>7, <3>2, <4>1
      <4>2. CASE i = c + 1
        <5>1. \A j \in 1..i : j < i => j \in 1..c
          BY <2>5, <4>2
        <5>2. \A j \in 1..c : q[j].from \in 1..m
          BY <2>7, <3>2
        <5>3. q[i].from = k
          BY <3>1, <3>2, <4>2
        <5>. QED BY <2>1, <3>1, <3>2, <4>2, <5>1, <5>2, <5>3
      <4>. QED BY <2>5, <3>2, <3>3, <4>1, <4>2
    <3>. QED BY <3>3 DEF Stood, q
  <2>. QED BY <2>4, <2>8, <2>9 DEF k
<1>. HIDE DEF U
<1>3. \A k \in Nat : k \in U
  BY <1>1, <1>2, SetInduction
<1>4. \A k \in 0..n : k \in Nat /\ k <= n
  OBVIOUS
<1>. QED BY <1>3, <1>4 DEF U
-----------------------------------------------------------------------------
LEMMA TablesAgree ==
  ASSUME NEW ls \in Seq(SourceLine), NEW n \in Nat, n = Len(ls), NEW to, FirstPass(ls, n, to),
         \A i, k \in 1..n : i # k /\ ls[i].op = ".section" => Range(ls[i].labels) \cap Range(ls[k].labels) = {},
         NEW f \in 1..n
  PROVE  Agree(to[f].labels, LabelsFrom(to[n].stmts))
<1>. DEFINE sts == to[n].stmts
            labels == LabelsFrom(sts)
            c == Len(sts)
<1>1. n \in 0..n /\ f \in 0..n
  OBVIOUS
<1>2. sts \in Seq(Stmts(Int)) /\ c \in Nat
  BY <1>1, PassFields, StmtsWider
<1>3. LabelsCome(sts, c, labels)
  <2>. HIDE DEF sts, c
  <2>1. c = Len(sts)
    BY DEF c
  <2>. QED BY <1>2, <2>1, LabelsComeFrom
<1>4. \A k \in 0..n : Tabled(ls, to, k)
  BY PassLabels
<1>5. Stood(ls, to, n)
  BY <1>1, PassStmts
<1>6. ASSUME NEW p \in 1..n, NEW q \in 1..n, p < q, ls[p].op # ".section", ls[q].op # ".section"
      PROVE  Range(ls[p].labels) \cap Range(ls[q].labels) = {}
  <2>1. q - 1 \in 0..n /\ p \in 1..(q - 1)
    BY <1>6
  <2>2. Range(ls[p].labels) \subseteq DOMAIN to[q - 1].labels
    BY <1>4, <1>6, <2>1 DEF Tabled
  <2>3. LineTaken(to[q - 1], to[q], ls[q], q)
    BY SizesOfLines
  <2>4. Range(ls[q].labels) \cap DOMAIN to[q - 1].labels = {}
    BY <1>6, <2>3 DEF LineTaken
  <2>. QED BY <2>2, <2>4
<1>7. ASSUME NEW name \in DOMAIN to[f].labels, name \in DOMAIN labels
      PROVE  to[f].labels[name] = labels[name]
  <2>1. PICK p \in 1..f : ls[p].op # ".section" /\ name \in Range(ls[p].labels) /\ to[f].labels[name] = to[p - 1].addr
    BY <1>1, <1>4 DEF Tabled
  <2>2. PICK m \in 1..c : name \in Range(sts[m].labels) /\ labels[name] = sts[m].addr
    BY <1>3, <1>7 DEF LabelsCome
  <2>. DEFINE q == sts[m].from
  <2>3. q \in 1..n /\ sts[m].labels = ls[q].labels /\ sts[m].addr = to[q - 1].addr
    BY <1>5, <2>2 DEF Stood, Standing
  <2>. HIDE DEF q, sts, labels
  <2>4. p \in 1..n
    OBVIOUS
  <2>5. name \in Range(ls[p].labels) \cap Range(ls[q].labels)
    BY <2>1, <2>2, <2>3
  <2>6. p = q
    <3>. SUFFICES ASSUME p # q PROVE FALSE
      OBVIOUS
    <3>1. ls[q].op # ".section"
      BY <2>3, <2>4, <2>5
    <3>2. p < q \/ q < p
      BY <2>3, <2>4
    <3>. QED BY <1>6, <2>1, <2>3, <2>4, <2>5, <3>1, <3>2
  <2>. QED BY <2>1, <2>2, <2>3, <2>6
<1>. QED BY <1>7 DEF Agree

LEMMA SameSize ==
  ASSUME NEW st, NEW other, st.op = other.op, st.args = other.args
  PROVE  FixedSize(st) = FixedSize(other) /\ StmtSize(st) = StmtSize(other)
BY DEF Chars, FixedSize, StmtSize

LEMMA SectionSize == ASSUME NEW st, st.op = ".section" PROVE FixedSize(st) = 0
BY DEF FixedSize, LinkageOps

LEMMA SameValue ==
  ASSUME NEW A, NEW st \in Stmts(A), st.args # <<>>, NEW m \in LabelTables, NEW w \in LabelTables, Agree(m, w),
         ~Failed(Eval(st.args[1], m)), ~Failed(Eval(st.args[1], w))
  PROVE  Eval(st.args[1], m) = Eval(st.args[1], w) /\ Eval(st.args[1], m).val \in Int
<1>1. st.args \in Seq(Seq(AnyToken))
  BY StmtFields
<1>2. st.args[1] \in Seq(AnyToken)
  BY <1>1
<1>3. AreLabels(m) /\ AreLabels(w)
  BY TablesAreLabels
<1>. DEFINE ts == st.args[1]
<1>4. ts \in Seq(AnyToken)
  BY <1>2
<1>5. ~Failed(Eval(ts, m)) /\ ~Failed(Eval(ts, w))
  OBVIOUS
<1>. HIDE DEF ts
<1>6. Eval(ts, m) = Eval(ts, w)
  BY <1>3, <1>4, <1>5, EvalAgrees
<1>7. Eval(ts, m) \in Found
  BY <1>3, <1>4, EvalIn
<1>8. Eval(ts, m).val \in Int
  BY <1>7 DEF Found
<1>. QED BY <1>6, <1>8 DEF ts

\* What line f leaves room for: as many words as its statement is encoded in.
LEMMA RoomForWords ==
  ASSUME NEW ls \in Seq(SourceLine), NEW n \in Nat, n = Len(ls), NEW to, FirstPass(ls, n, to),
         NEW labels \in LabelTables, NEW st \in Stmts(Nat), Standing(ls, to, n, st),
         Agree(to[st.from].labels, labels), Encode(st, labels).err = "none"
  PROVE  st.addr + Len(Encode(st, labels).words) = to[st.from].addr
<1>. DEFINE f == st.from
            g == to[f - 1]
            r == to[f]
            l == ls[f]
            s == Stmt(l, g.addr, g.sec, f)
            ws == Encode(st, labels).words
            w == Len(ws)
            shown == Eval(l.args[1], r.labels)
            value == Eval(st.args[1], labels)
            a == g.addr
            b == r.addr
<1>1. f \in 1..n /\ l.op # ".org" /\ st.op = l.op /\ st.args = l.args /\ st.addr = a
  BY DEF Standing
<1>2. LineTaken(g, r, l, f) /\ f \in 0..n /\ f - 1 \in 0..n
  BY <1>1, SizesOfLines
<1>3. a \in Nat /\ b \in Nat /\ r.labels \in LabelTables
  BY <1>2, PassFields
<1>4. \/ l.op = ".section" /\ b = a
      \/ l.op = ".align" /\ l.args # <<>> /\ ~Failed(shown) /\ shown.val >= 1 /\ b = AlignUp(a, shown.val)
      \/ l.op = ".fill" /\ l.args # <<>> /\ ~Failed(shown) /\ shown.val >= 0 /\ b = a + shown.val
      \/ l.op \notin {".align", ".fill"} /\ b = a + FixedSize(s)
  BY <1>1, <1>2 DEF LineTaken
<1>5. DirectiveWords(st, labels, ws)
  BY TablesAreLabels, EncodedSize
<1>6. /\ st.op \notin {".fill", ".align"} => w = FixedSize(st)
      /\ st.op \in {".fill", ".align"} => st.args # <<>> /\ ~Failed(value)
      /\ st.op = ".fill"  => value.val >= 0 /\ w = value.val
      /\ st.op = ".align" => value.val >= 1 /\ w = (-st.addr) % value.val
  BY <1>5 DEF DirectiveWords
<1>7. s.op = l.op /\ s.args = l.args
  BY DEF Stmt
<1>8. FixedSize(s) = FixedSize(st) /\ FixedSize(st) \in Nat
  <2>1. s.op = st.op /\ s.args = st.args
    BY <1>1, <1>7
  <2>. HIDE DEF s
  <2>. QED BY <2>1, SameSize, SizesAreNat
<1>9. l.op \in {".align", ".fill"} => shown = value /\ value.val \in Int
  <2>. SUFFICES ASSUME l.op \in {".align", ".fill"} PROVE shown = value /\ value.val \in Int
    OBVIOUS
  <2>1. st.args # <<>> /\ ~Failed(value) /\ ~Failed(shown)
    BY <1>1, <1>4, <1>6
  <2>2. shown = Eval(st.args[1], r.labels) /\ Agree(r.labels, labels)
    BY <1>1
  <2>. DEFINE m == r.labels
  <2>3. m \in LabelTables /\ Agree(m, labels) /\ ~Failed(Eval(st.args[1], m)) /\ ~Failed(Eval(st.args[1], labels))
        /\ shown = Eval(st.args[1], m) /\ value = Eval(st.args[1], labels)
    BY <1>3, <2>1, <2>2
  <2>. HIDE DEF m, shown, value
  <2>4. Eval(st.args[1], m) = Eval(st.args[1], labels) /\ Eval(st.args[1], m).val \in Int
    BY <2>1, <2>3, SameValue
  <2>. QED BY <2>3, <2>4
<1>10. l.op = ".section" => FixedSize(st) = 0
  BY <1>1, SectionSize
<1>11. st.addr + w = b
  <2>. DEFINE v == value.val
              z == FixedSize(st)
  <2>. HIDE DEF w, value, shown, l, a, b, s
  <2>1. CASE l.op = ".section" /\ b = a
    BY <1>1, <1>3, <1>6, <1>10, <2>1
  <2>2. CASE l.op = ".align" /\ l.args # <<>> /\ ~Failed(shown) /\ shown.val >= 1 /\ b = AlignUp(a, shown.val)
    <3>1. v \in Int /\ v >= 1 /\ w = (-a) % v /\ b = AlignUp(a, v)
      BY <1>1, <1>6, <1>9, <2>2
    <3>. HIDE DEF v
    <3>2. v \in Nat
      BY <3>1
    <3>3. b = a + ((-a) % v)
      BY <1>3, <3>1, <3>2, AlignUpIs
    <3>. QED BY <1>1, <3>1, <3>3
  <2>3. CASE l.op = ".fill" /\ l.args # <<>> /\ ~Failed(shown) /\ shown.val >= 0 /\ b = a + shown.val
    BY <1>1, <1>6, <1>9, <2>3
  <2>4. CASE l.op \notin {".align", ".fill"} /\ b = a + FixedSize(s)
    BY <1>1, <1>6, <1>8, <2>4
  <2>. QED BY <1>4, <2>1, <2>2, <2>3, <2>4
<1>. QED BY <1>11
-----------------------------------------------------------------------------
LEMMA FirstPassFollows ==
  ASSUME NEW ls \in Seq(SourceLine), AssignAddresses(ls, FALSE).err = "none",
         NEW sts, sts = AssignAddresses(ls, FALSE).stmts, NoErrors(sts), NoneBack(ls), LabelledApart(ls)
  PROVE  Follow(sts)
<1>. DEFINE n == Len(ls)
            labels == LabelsFrom(sts)
            c == Len(sts)
<1>1. n \in Nat /\ n \in 0..n /\ n = Len(ls)
  OBVIOUS
<1>. HIDE DEF n
<1>2. PICK to : FirstPass(ls, n, to) /\ AssignAddresses(ls, FALSE) = to[n]
  BY <1>1, FirstPassIs
<1>3. sts = to[n].stmts /\ sts \in Seq(Stmts(Nat)) /\ c \in Nat
  BY <1>1, <1>2, PassFields
<1>4. \A k \in 1..n : ls[k].op = ".org" => to[k - 1].addr <= to[k].addr
  <2>. TAKE k \in 1..n
  <2>1. k - 1 \in 0..n /\ k \in 0..n
    BY <1>1
  <2>2. AssignAddresses(SubSeq(ls, 1, k - 1), FALSE) = to[k - 1]
    BY <1>1, <1>2, <2>1, ReachedIs
  <2>3. AssignAddresses(SubSeq(ls, 1, k), FALSE) = to[k]
    BY <1>1, <1>2, <2>1, ReachedIs
  <2>. QED BY <1>1, <2>2, <2>3 DEF NoneBack
<1>5. \A j \in 0..n : \A k \in j..n : to[j].addr <= to[k].addr
  BY <1>1, <1>2, <1>4, PassRises
<1>6. \A i, k \in 1..n : i # k /\ ls[i].op = ".section" => Range(ls[i].labels) \cap Range(ls[k].labels) = {}
  BY <1>1 DEF LabelledApart
<1>7. \A f \in 1..n : Agree(to[f].labels, labels)
  <2>. TAKE f \in 1..n
  <2>1. Agree(to[f].labels, LabelsFrom(to[n].stmts))
    BY <1>1, <1>2, <1>6, TablesAgree
  <2>. QED BY <1>3, <2>1
<1>8. Stood(ls, to, n)
  BY <1>1, <1>2, PassStmts
<1>9. labels \in LabelTables
  BY <1>3, StmtsWider, LabelsFromIn
<1>10. \A i \in 1..c : Encode(sts[i], labels).err = "none"
  BY DEF NoErrors
<1>12. \A j \in 1..c : Standing(ls, to, n, sts[j]) /\ \A m \in 1..j : m < j => sts[m].from < sts[j].from
  BY <1>3, <1>8 DEF Stood
<1>13. c = Len(sts)
  OBVIOUS
<1>. HIDE DEF labels, c
<1>11. ASSUME NEW i \in 1..c, i < c
       PROVE  sts[i].addr + Len(Encode(sts[i], labels).words) <= sts[i + 1].addr
  <2>. DEFINE st == sts[i]
              f == st.from
              h == sts[i + 1].from
  <2>1. i + 1 \in 1..c /\ i \in 1..(i + 1) /\ i < i + 1
    BY <1>3, <1>11
  <2>2. st \in Stmts(Nat) /\ Standing(ls, to, n, st)
    <3>1. sts[i] \in Stmts(Nat)
      BY ONLY <1>3, <1>13, i \in 1..c
    <3>2. Standing(ls, to, n, sts[i])
      BY <1>12
    <3>. QED BY <3>1, <3>2
  <2>3. f \in 1..n /\ h \in 1..n /\ f < h /\ sts[i + 1].addr = to[h - 1].addr
    BY <1>12, <2>1 DEF Standing
  <2>4. Agree(to[st.from].labels, labels) /\ Encode(st, labels).err = "none"
    BY <1>7, <1>10, <2>3
  <2>. HIDE DEF st
  <2>5. st.addr + Len(Encode(st, labels).words) = to[st.from].addr
    BY <1>1, <1>2, <1>9, <2>2, <2>4, RoomForWords
  <2>. HIDE DEF f, h
  <2>6. f \in 0..n /\ h - 1 \in f..n
    BY <1>1, <2>3
  <2>7. to[f].addr <= to[h - 1].addr
    BY <1>5, <2>6
  <2>. QED BY <2>3, <2>5, <2>7 DEF st, f
<1>. QED BY <1>11, <1>13 DEF Follow, labels

\* The same where a layout made anew went by StmtSize, and no statement is
\* longer or shorter than that.
LEMMA SizedFollows ==
  ASSUME NEW sts \in Seq(Stmts(Nat)), NoErrors(sts), \A i \in 1..Len(sts) : ~Measured(sts[i]),
         \A i \in 1..Len(sts) : i < Len(sts) => sts[i].addr + StmtSize(sts[i]) <= sts[i + 1].addr
  PROVE  Follow(sts)
<1>. DEFINE labels == LabelsFrom(sts)
<1>1. labels \in LabelTables /\ << >> \in LabelTables
  BY StmtsWider, LabelsFromIn, TablesAreLabels
<1>2. \A i \in 1..Len(sts) : Encode(sts[i], labels).err = "none"
  BY DEF NoErrors
<1>. HIDE DEF labels
<1>3. ASSUME NEW i \in 1..Len(sts) PROVE Len(Encode(sts[i], labels).words) = StmtSize(sts[i])
  <2>. DEFINE st == sts[i]
              ws == Encode(st, labels).words
              value == Eval(st.args[1], labels)
              bare == Eval(st.args[1], << >>)
  <2>1. st \in Stmts(Nat) /\ Encode(st, labels).err = "none" /\ ~Measured(st)
    BY <1>2
  <2>. HIDE DEF st
  <2>2. DirectiveWords(st, labels, ws)
    BY <1>1, <2>1, TablesAreLabels, EncodedSize
  <2>3. CASE st.op \notin {".fill", ".align"}
    BY <2>2, <2>3 DEF DirectiveWords, StmtSize, st
  <2>4. CASE st.op = ".fill"
    <3>1. st.args # <<>> /\ ~Failed(value) /\ value.val >= 0 /\ Len(ws) = value.val
      BY <2>2, <2>4 DEF DirectiveWords
    <3>2. ~Failed(bare)
      BY <2>1, <2>4 DEF Measured
    <3>. DEFINE none == << >>
    <3>3. none \in LabelTables /\ Agree(none, labels) /\ bare = Eval(st.args[1], none)
      BY <1>1 DEF Agree
    <3>. HIDE DEF none
    <3>4. Eval(st.args[1], none) = Eval(st.args[1], labels) /\ Eval(st.args[1], none).val \in Int
      BY <1>1, <2>1, <3>1, <3>2, <3>3, SameValue
    <3>5. bare = value /\ bare.val \in Int
      BY <3>3, <3>4
    <3>6. StmtSize(st) = Max2(0, bare.val)
      BY <2>4, <3>1, <3>2 DEF StmtSize
    <3>. HIDE DEF bare, value, ws
    <3>. DEFINE v == value.val
    <3>7. v \in Int /\ v >= 0 /\ Len(ws) = v /\ StmtSize(st) = Max2(0, v)
      BY <3>1, <3>5, <3>6
    <3>. HIDE DEF v
    <3>8. Max2(0, v) = v
      BY <3>7 DEF Max2
    <3>. QED BY <3>7, <3>8 DEF st, ws
  <2>5. CASE st.op = ".align"
    BY <2>1, <2>5 DEF Measured
  <2>. QED BY <2>3, <2>4, <2>5
<1>. QED BY <1>3 DEF Follow, labels
-----------------------------------------------------------------------------
(* The image of statements that do not overlap.                              *)

LEMMA MostIn ==
  ASSUME NEW S, S \subseteq Nat, NEW x \in S, \A y \in S : x >= y
  PROVE  Max(S) = x
<1>1. Max(S) \in S /\ \A y \in S : Max(S) >= y
  BY DEF Max
<1>2. Max(S) >= x /\ x >= Max(S) /\ Max(S) \in Nat /\ x \in Nat
  BY <1>1
<1>. QED BY <1>2

LEMMA BoundedMax ==
  ASSUME NEW S, S \subseteq Nat, S # {}, NEW b \in Nat, \A y \in S : y <= b
  PROVE  Max(S) \in S /\ \A y \in S : Max(S) >= y
<1>. DEFINE T == {b - y : y \in S}
<1>1. T \subseteq Nat /\ T # {}
  <2>1. ASSUME NEW y \in S PROVE b - y \in Nat
    OBVIOUS
  <2>. QED BY <2>1
<1>2. PICK t \in T : \A u \in T : t <= u
  BY <1>1, LeastIn
<1>3. PICK x \in S : t = b - x
  BY <1>2
<1>4. \A y \in S : x >= y
  <2>. TAKE y \in S
  <2>1. b - y \in T
    OBVIOUS
  <2>2. t <= b - y
    BY <1>2, <2>1
  <2>3. x \in Nat /\ y \in Nat
    OBVIOUS
  <2>. QED BY <1>3, <2>2, <2>3
<1>. QED BY <1>4 DEF Max

LEMMA PictureHolds ==
  ASSUME NEW sts \in Seq(Stmts(Nat)), NEW codes \in Seq(Coded), Len(codes) = Len(sts),
         \A i \in 1..Len(sts) : i < Len(sts) => sts[i].addr + Len(codes[i].words) <= sts[i + 1].addr,
         NEW i \in 1..Len(sts), NEW k \in 1..Len(codes[i].words)
  PROVE  Picture(sts, codes)[sts[i].addr + k - 1] = codes[i].words[k]
<1>. DEFINE n == Len(sts)
            p == [j \in 1..n |-> sts[j].addr]
            q == [j \in 1..n |-> Len(codes[j].words)]
            a == sts[i].addr + k - 1
<1>1. n \in Nat
  OBVIOUS
<1>2. ASSUME NEW j \in 1..n
      PROVE  p[j] = sts[j].addr /\ q[j] = Len(codes[j].words) /\ p[j] \in Nat /\ q[j] \in Nat
             /\ (codes[j].words # <<>> <=> q[j] # 0)
  <2>1. sts[j] \in Stmts(Nat) /\ codes[j] \in Coded
    OBVIOUS
  <2>2. sts[j].addr \in Nat
    BY <2>1, StmtFields
  <2>3. codes[j].words \in Seq(Int)
    BY <2>1 DEF Coded
  <2>4. Len(codes[j].words) \in Nat /\ (codes[j].words # <<>> <=> Len(codes[j].words) # 0)
    <3>. DEFINE ws == codes[j].words
    <3>1. ws \in Seq(Int)
      BY <2>3
    <3>. HIDE DEF ws
    <3>2. Len(ws) \in Nat /\ (ws # <<>> <=> Len(ws) # 0)
      BY <3>1
    <3>. QED BY <3>2 DEF ws
  <2>. QED BY <2>2, <2>4
<1>3. \A j \in 1..n : j < n => p[j] + q[j] <= p[j + 1]
  <2>. TAKE j \in 1..n
  <2>. HAVE j < n
  <2>1. j + 1 \in 1..n
    BY <1>1
  <2>2. p[j + 1] = sts[j + 1].addr
    BY <1>2, <2>1
  <2>3. sts[j].addr + Len(codes[j].words) <= sts[j + 1].addr
    OBVIOUS
  <2>. QED BY <1>2, <2>2, <2>3
<1>4. p = [j \in 1..n |-> p[j]] /\ q = [j \in 1..n |-> q[j]]
  OBVIOUS
<1>. HIDE DEF p, q
<1>5. InOrder(p, q, n)
  BY <1>2, <1>3, <1>4 DEF InOrder
<1>6. \A j \in 1..n : \A m \in 1..j : m < j => p[m] + q[m] <= p[j]
  BY <1>1, <1>5, OrderedPieces
<1>7. a = p[i] + (k - 1) /\ k \in 1..q[i] /\ p[i] \in Nat /\ q[i] \in Nat /\ i \in 1..n
  BY <1>2
<1>8. ClaimsOf(sts, codes, a) = {j \in 1..n : a - p[j] \in 0..(q[j] - 1)}
  BY <1>2 DEF ClaimsOf
<1>9. EndsOf(sts, codes) = {p[j] + q[j] : j \in {m \in 1..n : q[m] # 0}}
  BY <1>2 DEF EndsOf
<1>. HIDE DEF n
<1>10. a \in Nat /\ a - p[i] = k - 1 /\ k - 1 \in 0..(q[i] - 1) /\ a < p[i] + q[i] /\ a >= p[i]
  BY <1>7
<1>. HIDE DEF a
<1>. DEFINE by == ClaimsOf(sts, codes, a)
            ends == EndsOf(sts, codes)
<1>. HIDE DEF by, ends
<1>11. i \in by /\ by \subseteq 1..n
  BY <1>7, <1>8, <1>10 DEF by
<1>12. \A j \in by : i >= j
  <2>. SUFFICES ASSUME NEW j \in by, ~(i >= j) PROVE FALSE
    OBVIOUS
  <2>1. j \in 1..n /\ i \in 1..j /\ i < j /\ i \in 1..n
    BY <1>7, <1>11
  <2>2. p[i] + q[i] <= p[j]
    BY <1>6, <2>1
  <2>3. p[j] \in Nat /\ q[j] \in Nat /\ a - p[j] \in 0..(q[j] - 1)
    BY <1>2, <1>8, <2>1 DEF by
  <2>. DEFINE u == p[i]
              v == q[i]
              w == p[j]
  <2>4. a \in Nat /\ u \in Nat /\ v \in Nat /\ w \in Nat /\ a < u + v /\ u + v <= w /\ a - w >= 0
    BY <1>7, <1>10, <2>2, <2>3
  <2>. HIDE DEF u, v, w
  <2>. QED BY ONLY <2>4
<1>13. Max(by) = i
  <2>1. by \subseteq Nat
    BY <1>11
  <2>. QED BY <1>11, <1>12, <2>1, MostIn
<1>14. a \in 0..(TopOf(sts, codes) - 1)
  <2>. DEFINE end == p[i] + q[i]
              most == p[n] + q[n]
  <2>1. n \in 1..n
    BY <1>1, <1>7
  <2>2. end \in ends
    BY <1>7, <1>9 DEF ends
  <2>3. ends \subseteq Nat
    BY <1>2, <1>9 DEF ends
  <2>4. \A y \in ends : y <= most
    <3>. TAKE y \in ends
    <3>1. PICK j \in 1..n : y = p[j] + q[j]
      BY <1>9 DEF ends
    <3>2. p[j] \in Nat /\ q[j] \in Nat /\ p[n] \in Nat /\ q[n] \in Nat
      BY <1>2, <2>1
    <3>3. j # n => p[j] + q[j] <= p[n]
      <4>. SUFFICES ASSUME j # n PROVE p[j] + q[j] <= p[n]
        OBVIOUS
      <4>1. j \in 1..n /\ j < n
        BY <1>1
      <4>. QED BY <1>6, <2>1, <4>1
    <3>4. CASE j = n
      BY <3>1, <3>2, <3>4
    <3>5. CASE j # n
      BY <3>1, <3>2, <3>3, <3>5
    <3>. QED BY <3>4, <3>5
  <2>5. most \in Nat
    BY <1>2, <2>1
  <2>. HIDE DEF most, end
  <2>6. Max(ends) \in ends /\ \A y \in ends : Max(ends) >= y
    BY <2>2, <2>3, <2>4, <2>5, BoundedMax
  <2>. DEFINE t == Max(ends)
  <2>7. t \in Nat /\ t >= end /\ end \in Nat
    BY <2>2, <2>3, <2>6
  <2>8. TopOf(sts, codes) = t
    BY <2>2 DEF TopOf, ends
  <2>. HIDE DEF t
  <2>9. a \in 0..(t - 1)
    BY <1>10, <2>7 DEF end
  <2>. QED BY <2>8, <2>9
<1>15. Picture(sts, codes)[a] = IF by = {} THEN 0 ELSE codes[Max(by)].words[a - sts[Max(by)].addr + 1]
  BY <1>14 DEF Picture, by
<1>16. Picture(sts, codes)[a] = codes[i].words[a - sts[i].addr + 1]
  BY <1>11, <1>13, <1>15
<1>17. a - sts[i].addr + 1 = k
  BY <1>2, <1>7, <1>10
<1>. QED BY <1>16, <1>17 DEF a
-----------------------------------------------------------------------------
(* group_contig_by_section: the chunks are the statements again, and no two  *)
(* neighbours are of one section.                                            *)

LEMMA CutGrows ==
  ASSUME NEW cs, NEW sts \in Seq(Stmts(Nat)), NEW P, CutAlong(cs, sts, P), NEW st \in Stmts(Nat)
  PROVE  \E Q : CutAlong(ChunkStep(cs, st), Append(sts, st), Q)
<1>. DEFINE S == Stmts(Nat)
            m == Len(cs)
            more == Append(sts, st)
            next == ChunkStep(cs, st)
<1>1. cs \in Seq(Seq(S)) /\ m \in Nat /\ P \in [0..m -> Seq(S)] /\ P[0] = <<>> /\ P[m] = sts
  BY DEF CutAlong
<1>2. \A k \in 1..m : /\ cs[k] # <<>> /\ P[k] = P[k - 1] \o cs[k] /\ cs[k][Len(cs[k])].sec = cs[k][1].sec
                      /\ cs[k] \in Seq(S) /\ P[k - 1] \in Seq(S)
  <2>. TAKE k \in 1..m
  <2>1. k - 1 \in 0..m
    BY <1>1
  <2>2. cs[k] # <<>> /\ P[k] = P[k - 1] \o cs[k] /\ cs[k][Len(cs[k])].sec = cs[k][1].sec
    BY DEF CutAlong
  <2>3. P[k - 1] \in Seq(S)
    BY <1>1, <2>1
  <2>4. cs[k] \in Seq(S)
    BY <1>1
  <2>. QED BY <2>2, <2>3, <2>4
<1>3. \A k \in 1..m : k < m => cs[k][1].sec # cs[k + 1][1].sec
  BY DEF CutAlong
<1>4. more \in Seq(S) /\ sts \in Seq(S) /\ st \in S
  OBVIOUS
<1>5. next = IF cs # <<>> /\ Last(Last(cs)).sec = st.sec
             THEN Append(Front(cs), Append(Last(cs), st)) ELSE Append(cs, <<st>>)
  BY DEF ChunkStep
<1>6. cs # <<>> => m \in 1..m /\ Last(cs) = cs[m] /\ Last(Last(cs)) = cs[m][Len(cs[m])]
  BY <1>1 DEF Last
<1>7. cs = <<>> => m = 0
  OBVIOUS
<1>. HIDE DEF next, m
<1>8. m = Len(cs)
  BY DEF m
<1>. HIDE DEF S, more
<1>9. CASE cs # <<>> /\ Last(Last(cs)).sec = st.sec
  <2>. DEFINE last == cs[m]
              longer == Append(last, st)
              head == Front(cs)
              out == Append(head, longer)
              Q == [k \in 0..m |-> IF k = m THEN more ELSE P[k]]
  <2>1. m \in 1..m /\ m # 0 /\ last \in Seq(S) /\ last # <<>> /\ last[1].sec = st.sec
    <3>1. m \in 1..m /\ last[Len(last)].sec = st.sec
      BY <1>6, <1>9
    <3>2. last \in Seq(S) /\ last # <<>> /\ last[Len(last)].sec = last[1].sec
      BY <1>2, <3>1
    <3>. QED BY <3>1, <3>2
  <2>2. longer \in Seq(S) /\ longer # <<>> /\ longer[1] = last[1] /\ longer[Len(longer)] = st
    <3>. HIDE DEF last, longer
    <3>1. longer = Append(last, st)
      BY DEF longer
    <3>. QED BY <1>4, <2>1, <3>1, AppendFacts
  <2>3. head \in Seq(Seq(S)) /\ Len(head) = m - 1 /\ \A k \in 1..(m - 1) : head[k] = cs[k]
    BY <1>1, <1>8, <1>9, LastFront
  <2>4. next = out
    BY <1>5, <1>6, <1>9
  <2>. HIDE DEF longer, head, last
  <2>5. out \in Seq(Seq(S)) /\ Len(out) = m /\ out[m] = longer /\ \A k \in 1..(m - 1) : out[k] = cs[k]
    <3>1. longer \in Seq(S)
      BY <2>2
    <3>2. Len(out) = Len(head) + 1 /\ out[Len(head) + 1] = longer /\ out \in Seq(Seq(S))
          /\ \A k \in 1..Len(head) : out[k] = head[k]
      BY <2>3, <3>1, AppendFacts
    <3>3. (m - 1) + 1 = m
      BY <1>1
    <3>. QED BY <2>3, <3>2, <3>3
  <2>. HIDE DEF out
  <2>6. more = P[m - 1] \o longer
    <3>. DEFINE a == P[m - 1]
    <3>1. a \in Seq(S) /\ sts = a \o last
      BY <1>1, <1>2, <2>1 DEF last
    <3>. HIDE DEF a
    <3>2. Append(a \o last, st) = a \o Append(last, st)
      <4>1. a \in Seq(S) /\ last \in Seq(S) /\ st \in S
        BY <1>4, <2>1, <3>1
      <4>2. <<st>> \in Seq(S) /\ a \o last \in Seq(S)
        BY <4>1
      <4>3. Append(last, st) = last \o <<st>> /\ Append(a \o last, st) = (a \o last) \o <<st>>
        BY <4>1, <4>2, AppendIsConcat
      <4>. QED BY <4>1, <4>2, <4>3, ConcatAssociative
    <3>. QED BY <3>1, <3>2 DEF more, longer, a
  <2>7. Q \in [0..m -> Seq(S)] /\ Q[0] = <<>> /\ Q[m] = more
    BY <1>1, <1>4, <2>1
  <2>8. ASSUME NEW k \in 1..m
        PROVE  /\ out[k] # <<>> /\ Q[k] = Q[k - 1] \o out[k]
               /\ out[k][Len(out[k])].sec = out[k][1].sec
               /\ out[k][1] = cs[k][1]
    <3>1. k - 1 \in 0..m /\ k - 1 # m /\ k \in 0..m
      BY <1>1
    <3>2. Q[k - 1] = P[k - 1]
      BY <3>1
    <3>3. CASE k = m
      <4>1. Q[k] = P[m - 1] \o longer /\ Q[k - 1] = P[m - 1]
        BY <2>6, <2>7, <3>2, <3>3
      <4>2. out[k] = longer /\ cs[k] = last
        BY <2>5, <3>3 DEF last
      <4>3. longer[Len(longer)].sec = longer[1].sec /\ longer[1] = last[1] /\ longer # <<>>
        BY <2>1, <2>2
      <4>. QED BY <4>1, <4>2, <4>3
    <3>4. CASE k # m
      <4>1. k \in 1..(m - 1) /\ Q[k] = P[k]
        BY <1>1, <3>1, <3>4
      <4>. QED BY <1>2, <2>5, <3>2, <4>1
    <3>. QED BY <3>3, <3>4
  <2>9. ASSUME NEW k \in 1..m, k < m PROVE out[k][1].sec # out[k + 1][1].sec
    <3>1. k + 1 \in 1..m
      BY <1>1, <2>9
    <3>. QED BY <1>3, <2>8, <2>9, <3>1
  <2>. HIDE DEF Q
  <2>10. CutAlong(out, more, Q)
    BY <2>5, <2>7, <2>8, <2>9 DEF CutAlong, S
  <2>. QED BY <2>4, <2>10 DEF next, more
<1>10. CASE ~(cs # <<>> /\ Last(Last(cs)).sec = st.sec)
  <2>. DEFINE new == <<st>>
              out == Append(cs, new)
              Q == [k \in 0..(m + 1) |-> IF k = m + 1 THEN more ELSE P[k]]
  <2>1. new \in Seq(S) /\ new # <<>> /\ Len(new) = 1 /\ new[1] = st
    BY <1>4
  <2>2. next = out
    BY <1>5, <1>10
  <2>3. m # 0 => m \in 1..m /\ cs[m][1].sec # st.sec
    <3>. SUFFICES ASSUME m # 0 PROVE m \in 1..m /\ cs[m][1].sec # st.sec
      OBVIOUS
    <3>1. cs # <<>>
      BY <1>7
    <3>2. m \in 1..m /\ cs[m][Len(cs[m])].sec # st.sec
      BY <1>6, <1>10, <3>1
    <3>3. cs[m][Len(cs[m])].sec = cs[m][1].sec
      BY <1>2, <3>2
    <3>. QED BY <3>2, <3>3
  <2>4. more = sts \o new
    BY <1>4 DEF more
  <2>. HIDE DEF new
  <2>5. out \in Seq(Seq(S)) /\ Len(out) = m + 1 /\ out[m + 1] = new /\ \A k \in 1..m : out[k] = cs[k]
    BY <1>1, <1>8, <2>1, AppendFacts
  <2>. HIDE DEF out
  <2>6. Q \in [0..(m + 1) -> Seq(S)] /\ Q[0] = <<>> /\ Q[m + 1] = more
    BY <1>1, <1>4 DEF more
  <2>7. ASSUME NEW k \in 1..(m + 1)
        PROVE  /\ out[k] # <<>> /\ Q[k] = Q[k - 1] \o out[k]
               /\ out[k][Len(out[k])].sec = out[k][1].sec
    <3>1. k - 1 \in 0..(m + 1) /\ k - 1 # m + 1 /\ k \in 0..(m + 1)
      BY <1>1
    <3>2. Q[k - 1] = P[k - 1]
      BY <3>1
    <3>3. CASE k = m + 1
      <4>1. k - 1 = m
        BY <1>1, <3>3
      <4>2. Q[k] = sts \o new /\ Q[k - 1] = sts
        BY <1>1, <2>4, <2>6, <3>2, <3>3, <4>1
      <4>. QED BY <2>1, <2>5, <3>3, <4>2
    <3>4. CASE k # m + 1
      <4>1. k \in 1..m /\ Q[k] = P[k]
        BY <1>1, <3>1, <3>4
      <4>. QED BY <1>2, <2>5, <3>2, <4>1
    <3>. QED BY <3>3, <3>4
  <2>8. ASSUME NEW k \in 1..(m + 1), k < m + 1 PROVE out[k][1].sec # out[k + 1][1].sec
    <3>1. k + 1 \in 1..(m + 1) /\ k \in 1..m
      BY <1>1, <2>8
    <3>2. CASE k = m
      BY <2>1, <2>3, <2>5, <3>1, <3>2
    <3>3. CASE k # m
      <4>1. k < m /\ k + 1 \in 1..m
        BY <1>1, <3>1, <3>3
      <4>. QED BY <1>3, <2>5, <3>1, <4>1
    <3>. QED BY <3>2, <3>3
  <2>. HIDE DEF Q
  <2>9. CutAlong(out, more, Q)
    BY <2>5, <2>6, <2>7, <2>8 DEF CutAlong, S
  <2>. QED BY <2>2, <2>9 DEF next, more
<1>. QED BY <1>9, <1>10

LEMMA ChunksCut ==
  ASSUME NEW sts \in Seq(Stmts(Nat))
  PROVE  \E P : CutAlong(Chunks(sts), sts, P)
<1>. DEFINE S == Stmts(Nat)
            n == Len(sts)
<1>1. n \in Nat /\ n \in 0..n /\ n = Len(sts)
  OBVIOUS
<1>. HIDE DEF n
<1>2. ChunkRun(sts, S, n)
  BY <1>1, ChunkSteps
<1>3. PICK to \in [0..n -> Seq(Seq(S))] :
        /\ to[0] = <<>>
        /\ \A k \in 1..n : to[k] = ChunkStep(to[k - 1], sts[k])
        /\ Chunks(sts) = to[n]
  BY <1>2 DEF ChunkRun, ChunkStep
<1>. DEFINE part(k) == SubSeq(sts, 1, k)
            U == {k \in Nat : k <= n => \E P : CutAlong(to[k], part(k), P)}
<1>4. \A k \in 0..n : part(k) \in Seq(S)
  BY <1>1
<1>5. 0 \in U
  <2>. DEFINE P == [k \in 0..0 |-> <<>>]
              none == <<>>
  <2>1. part(0) = <<>>
    OBVIOUS
  <2>2. none \in Seq(Seq(S)) /\ Len(none) = 0 /\ P \in [0..0 -> Seq(S)] /\ P[0] = <<>> /\ 1..0 = {}
    OBVIOUS
  <2>3. to[0] = none
    BY <1>3
  <2>. HIDE DEF none, P, S
  <2>4. CutAlong(none, <<>>, P)
    BY <2>2 DEF CutAlong, S
  <2>5. \E Q : CutAlong(to[0], part(0), Q)
    BY <2>1, <2>3, <2>4
  <2>. QED BY <2>5
<1>6. ASSUME NEW j \in Nat, j \in U PROVE j + 1 \in U
  <2>. SUFFICES ASSUME j + 1 <= n PROVE \E P : CutAlong(to[j + 1], part(j + 1), P)
    OBVIOUS
  <2>1. j + 1 \in 1..n /\ (j + 1) - 1 = j /\ j <= n /\ j \in 0..n
    BY ONLY <1>1, j \in Nat, j + 1 <= n
  <2>2. PICK P : CutAlong(to[j], part(j), P)
    BY <1>6, <2>1
  <2>3. to[j + 1] = ChunkStep(to[j], sts[j + 1])
    BY <1>3, <2>1
  <2>4. part(j + 1) = Append(part(j), sts[j + 1])
    BY <1>1, <2>1
  <2>. DEFINE cs == to[j]
              before == part(j)
              st == sts[j + 1]
  <2>5. before \in Seq(S) /\ st \in S /\ CutAlong(cs, before, P)
    BY <1>1, <1>4, <2>1, <2>2
  <2>. HIDE DEF cs, before, st
  <2>6. \E Q : CutAlong(ChunkStep(cs, st), Append(before, st), Q)
    BY <2>5, CutGrows
  <2>. QED BY <2>3, <2>4, <2>6 DEF cs, before, st
<1>. HIDE DEF U
<1>7. n \in U
  BY <1>1, <1>5, <1>6, SetInduction
<1>8. \E P : CutAlong(to[n], part(n), P)
  BY <1>1, <1>7 DEF U
<1>9. part(n) = sts
  BY <1>1
<1>. QED BY <1>3, <1>8, <1>9
-----------------------------------------------------------------------------
(* One round of growing: the statements are laid out by StmtSize, in the     *)
(* section they were in, and the first skip label stays among them.          *)

LEMMA RecomputedIsLaid ==
  ASSUME NEW sts \in Seq(Stmts(Int)), NEW n \in Nat, n = Len(sts), NEW out, out = Recompute(sts)
  PROVE  /\ Len(out) = n /\ Laid(out)
         /\ \A m \in 1..n : out[m].labels = sts[m].labels /\ out[m].sec = sts[m].sec
<1>1. PICK at : Recounted(sts, out, n, at)
  BY RecomputeCounts
<1>2. \A m \in 1..n : out[m].addr \in Nat /\ at[m - 1] <= out[m].addr /\ out[m].addr <= at[m]
  BY <1>1, CountsRise
<1>3. /\ Len(out) = n
      /\ \A m \in 1..n : /\ out[m].labels = sts[m].labels /\ at[m] = out[m].addr + StmtSize(sts[m])
                         /\ out[m].op = sts[m].op /\ out[m].args = sts[m].args /\ out[m].sec = sts[m].sec
  BY <1>1 DEF Recounted
<1>4. ASSUME NEW i \in 1..n, i < n PROVE out[i].addr + StmtSize(out[i]) <= out[i + 1].addr
  <2>1. i + 1 \in 1..n /\ (i + 1) - 1 = i
    BY <1>4
  <2>2. at[i] <= out[i + 1].addr
    BY <1>2, <2>1
  <2>3. at[i] = out[i].addr + StmtSize(sts[i]) /\ out[i].op = sts[i].op /\ out[i].args = sts[i].args
    BY <1>3
  <2>. DEFINE new == out[i]
              old == sts[i]
  <2>4. new.op = old.op /\ new.args = old.args
    BY <2>3
  <2>. HIDE DEF new, old
  <2>5. StmtSize(new) = StmtSize(old)
    BY <2>4, SameSize
  <2>. QED BY <2>2, <2>3, <2>5 DEF new, old
<1>. QED BY <1>3, <1>4 DEF Laid

LEMMA GrownParts ==
  ASSUME NEW st, NEW skip, NEW g, g = Grown(st, skip)
  PROVE  /\ Len(g) = 4 /\ g[1].labels = st.labels /\ g[1].sec = st.sec /\ g[4].labels = <<skip>>
<1>. DEFINE of(labels, op, args) == Stmt(Line(labels, op, args), Moved, st.sec, st.from)
            s1 == of(st.labels, IF st.op = "bt" THEN "bf" ELSE "bt", <<<<Id(skip)>>>>)
            s2 == of(<<>>, "li", <<<<Id("r4")>>, st.args[1]>>)
            s3 == of(<<>>, "jalr", <<<<Id("r0")>>, <<Id("r4")>>>>)
            s4 == of(<<skip>>, "", <<>>)
<1>1. g = <<s1, s2, s3, s4>>
  BY DEF Grown
<1>2. s1.labels = st.labels /\ s1.sec = st.sec
  BY DEF Stmt, Line
<1>3. s4.labels = <<skip>>
  BY DEF Stmt, Line
<1>. HIDE DEF s1, s2, s3, s4
<1>4. Len(g) = 4 /\ g[1] = s1 /\ g[4] = s4
  BY <1>1
<1>. QED BY <1>2, <1>3, <1>4

LEMMA GrownChunk ==
  ASSUME NEW sts \in Seq(Stmts(Nat)), sts # <<>>, NEW bad \in SUBSET (1..Len(sts)), bad # {},
         \A i \in bad : Branch(sts[i]), NEW n \in Nat, n = 0 \/ Marked(sts),
         NEW out, out = Recompute(Grow(sts, bad, n))
  PROVE  out # <<>> /\ Laid(out) /\ out[1].sec = sts[1].sec /\ Marked(out)
<1>. DEFINE ss == Pieces(sts, bad, n)
            F == Grow(sts, bad, n)
            c == Len(sts)
            top == Len(F)
            numbered(i) == Cardinality({j \in bad : j > i})
<1>1. ss \in Seq(Seq(Stmts(Int))) /\ Len(ss) = c /\ \A i \in 1..c : PieceOf(ss[i], sts[i], i \in bad)
  BY PiecesAre
<1>2. F \in Seq(Stmts(Int)) /\ F = FlattenSeq(ss)
  BY GrowIn DEF Grow, Pieces
<1>3. c \in Nat /\ top \in Nat /\ top = Len(F) /\ 1 \in 1..c /\ bad \subseteq 1..c
  BY <1>2
<1>4. out = Recompute(F) /\ c = Len(sts)
  OBVIOUS
<1>5. \A i \in 1..c : ss[i] = IF i \in bad THEN Grown(sts[i], SkipLabel(n + numbered(i))) ELSE <<sts[i]>>
  BY DEF Pieces
<1>. HIDE DEF ss, F, c, top
<1>6. PICK L : StandsAt(ss, L, c)
  BY <1>1, <1>3, FlattenAt
<1>7. /\ Len(out) = top /\ Laid(out)
      /\ \A m \in 1..top : out[m].labels = F[m].labels /\ out[m].sec = F[m].sec
  BY <1>2, <1>3, <1>4, RecomputedIsLaid
<1>8. ASSUME NEW i \in 1..c, NEW t \in 1..Len(ss[i])
      PROVE  L[i - 1] + t \in 1..top /\ F[L[i - 1] + t] = ss[i][t]
  BY <1>2, <1>3, <1>6 DEF StandsAt
<1>9. ASSUME NEW i \in 1..c
      PROVE  1 \in 1..Len(ss[i]) /\ ss[i][1].labels = sts[i].labels /\ ss[i][1].sec = sts[i].sec
             /\ (i \in bad => 4 \in 1..Len(ss[i]) /\ ss[i][4].labels = <<SkipLabel(n + numbered(i))>>)
  <2>. DEFINE st == sts[i]
              skip == SkipLabel(n + numbered(i))
              g == ss[i]
  <2>. HIDE DEF st, skip, g, numbered
  <2>1. CASE i \in bad
    <3>1. g = Grown(st, skip)
      BY <1>5, <2>1 DEF g, st, skip
    <3>2. Len(g) = 4 /\ g[1].labels = st.labels /\ g[1].sec = st.sec /\ g[4].labels = <<skip>>
      BY <3>1, GrownParts
    <3>3. 1 \in 1..Len(g) /\ 4 \in 1..Len(g)
      BY <3>2
    <3>. QED BY <3>2, <3>3 DEF g, st, skip
  <2>2. CASE i \notin bad
    <3>1. g = <<st>>
      BY <1>5, <2>2 DEF g, st
    <3>2. Len(g) = 1 /\ g[1] = st
      BY <3>1
    <3>3. 1 \in 1..Len(g)
      BY <3>2
    <3>. QED BY <2>2, <3>2, <3>3 DEF g, st
  <2>. QED BY <2>1, <2>2
<1>10. out[1].sec = sts[1].sec /\ top # 0
  <2>1. L[1 - 1] + 1 \in 1..top /\ F[L[1 - 1] + 1] = ss[1][1] /\ ss[1][1].sec = sts[1].sec
    BY <1>3, <1>8, <1>9
  <2>2. L[1 - 1] + 1 = 1
    BY <1>6 DEF StandsAt
  <2>3. 1 \in 1..top /\ F[1].sec = sts[1].sec
    BY <2>1, <2>2
  <2>. QED BY <1>3, <1>7, <2>3
<1>11. CASE Marked(sts)
  <2>1. PICK i \in 1..c : SkipLabel(0) \in Range(sts[i].labels)
    BY <1>4, <1>11 DEF Marked
  <2>. DEFINE p == L[i - 1] + 1
  <2>2. p \in 1..top /\ F[p] = ss[i][1] /\ ss[i][1].labels = sts[i].labels
    BY <1>8, <1>9
  <2>. HIDE DEF p
  <2>3. SkipLabel(0) \in Range(out[p].labels)
    BY <1>7, <2>1, <2>2
  <2>4. Marked(out)
    BY <1>7, <2>2, <2>3 DEF Marked
  <2>. QED BY <1>7, <1>10, <2>4
<1>12. CASE n = 0
  <2>1. bad \subseteq Nat /\ \A y \in bad : y <= c
    BY <1>3
  <2>. DEFINE i == Max(bad)
  <2>2. i \in bad /\ \A y \in bad : i >= y
    BY <1>3, <2>1, BoundedMax
  <2>. HIDE DEF i
  <2>3. {j \in bad : j > i} = {}
    <3>1. ASSUME NEW j \in bad PROVE ~(j > i)
      BY <2>1, <2>2
    <3>. QED BY <3>1
  <2>4. n + numbered(i) = 0
    <3>1. numbered(i) = 0
      BY <2>3, FS_EmptySet
    <3>. QED BY <1>12, <3>1
  <2>5. i \in 1..c
    BY <1>3, <2>2
  <2>. DEFINE p == L[i - 1] + 4
  <2>6. 4 \in 1..Len(ss[i]) /\ ss[i][4].labels = <<SkipLabel(0)>>
    <3>. HIDE DEF numbered
    <3>1. 4 \in 1..Len(ss[i]) /\ ss[i][4].labels = <<SkipLabel(n + numbered(i))>>
      BY <1>9, <2>2, <2>5
    <3>. QED BY <2>4, <3>1
  <2>7. p \in 1..top /\ F[p] = ss[i][4]
    BY <1>8, <2>5, <2>6
  <2>. HIDE DEF p
  <2>8. out[p].labels = <<SkipLabel(0)>>
    BY <1>7, <2>6, <2>7
  <2>9. SkipLabel(0) \in Range(out[p].labels)
    <3>. DEFINE skip == SkipLabel(0)
                ls == out[p].labels
    <3>. HIDE DEF skip, ls
    <3>1. ls = <<skip>>
      BY <2>8 DEF skip, ls
    <3>2. skip \in Range(ls)
      BY <3>1 DEF Range
    <3>. QED BY <3>2 DEF skip, ls
  <2>10. Marked(out)
    BY <1>7, <2>7, <2>9 DEF Marked
  <2>. QED BY <1>7, <1>10, <2>10
<1>. QED BY <1>11, <1>12
-----------------------------------------------------------------------------
(* What relaxation has made of the first pass, chunk by chunk.               *)

LEMMA JoinedParts ==
  ASSUME NEW s \in Seq(Stmts(Nat)), NEW t \in Seq(Stmts(Nat))
  PROVE  Joined(s, t, s \o t)
<1>. DEFINE a == Len(s)
            b == Len(t)
            u == s \o t
<1>1. u \in Seq(Stmts(Nat)) /\ Len(u) = a + b /\ a \in Nat /\ b \in Nat
  OBVIOUS
<1>2. \A i \in 1..a : u[i] = s[i]
  OBVIOUS
<1>3. \A i \in 1..b : u[a + i] = t[i]
  OBVIOUS
<1>4. a = Len(s) /\ b = Len(t)
  OBVIOUS
<1>. HIDE DEF a, b, u
<1>5. \A i \in 1..a : i \in 1..Len(u)
  BY <1>1
<1>6. \A i \in 1..b : a + i \in 1..Len(u)
  BY <1>1
<1>7. Marked(s) => Marked(u)
  BY <1>2, <1>4, <1>5 DEF Marked
<1>8. Marked(t) => Marked(u)
  BY <1>3, <1>4, <1>6 DEF Marked
<1>. QED BY <1>1, <1>2, <1>3, <1>4, <1>5, <1>6, <1>7, <1>8 DEF Joined, u

\* The first chunk as it is.
LEMMA ChunksStart ==
  ASSUME NEW placed \in Seq(Stmts(Nat)), NEW cs, cs = Chunks(placed)
  PROVE  /\ cs = <<>> => placed = <<>>
         /\ cs # <<>> => Chunked(placed, <<>>, Head(cs), Tail(cs), 0, 0)
<1>1. PICK P : CutAlong(cs, placed, P)
  BY ChunksCut
<1>2. cs \in Seq(Seq(Stmts(Nat))) /\ P[0] = <<>> /\ P[Len(cs)] = placed
  BY <1>1 DEF CutAlong
<1>3. cs = <<>> => placed = <<>>
  BY <1>2
<1>4. ASSUME cs # <<>> PROVE Chunked(placed, <<>>, Head(cs), Tail(cs), 0, 0)
  <2>1. Head(cs) = cs[1] /\ 1 \in 1..Len(cs) /\ Tail(cs) = SubSeq(cs, 2, Len(cs))
    BY <1>2, <1>4, FirstIsHead
  <2>2. cs[1] # <<>>
    BY <1>1, <2>1 DEF CutAlong
  <2>3. 1 + 1 = 2 /\ 1 - 1 = 0
    OBVIOUS
  <2>. DEFINE now == Head(cs)
              after == Tail(cs)
              none == <<>>
              m == Len(cs)
  <2>4. CutAlong(cs, placed, P) /\ 1 \in 1..m /\ m = Len(cs) /\ now = cs[1] /\ now # <<>> /\ after = SubSeq(cs, 2, m)
        /\ none = <<>> /\ none = P[0]
    BY <1>1, <1>2, <2>1, <2>2
  <2>. HIDE DEF now, after, none, m
  <2>5. Chunking(placed, cs, P, 1, none, now, after, 0, 0)
    BY <2>3, <2>4 DEF Chunking
  <2>6. Chunked(placed, none, now, after, 0, 0)
    BY <2>5 DEF Chunked
  <2>. QED BY <2>6 DEF now, after, none
<1>. QED BY <1>3, <1>4

\* A round in the middle of a chunk.
LEMMA RoundStays ==
  ASSUME NEW placed, NEW before, NEW now \in Seq(Stmts(Nat)), NEW after, NEW n \in Nat, NEW r,
         Chunked(placed, before, now, after, r, n),
         NEW bad \in SUBSET (1..Len(now)), bad # {}, \A i \in bad : Branch(now[i]),
         NEW next, next = Recompute(Grow(now, bad, n)), NEW more, NEW m
  PROVE  Chunked(placed, before, next, after, more, m)
<1>1. PICK C, P : \E j \in Nat : Chunking(placed, C, P, j, before, now, after, r, n)
  BY DEF Chunked
<1>2. PICK j \in Nat : Chunking(placed, C, P, j, before, now, after, r, n)
  BY <1>1
<1>3. now # <<>> /\ now[1].sec = C[j][1].sec /\ (n = 0 \/ Marked(now))
  BY <1>2 DEF Chunking
<1>4. next # <<>> /\ Laid(next) /\ next[1].sec = now[1].sec /\ Marked(next)
  BY <1>3, GrownChunk
<1>5. Chunking(placed, C, P, j, before, next, after, more, m)
  BY <1>2, <1>3, <1>4 DEF Chunking
<1>. QED BY <1>5 DEF Chunked

\* The last chunk is finished.
LEMMA LastSettles ==
  ASSUME NEW placed \in Seq(Stmts(Nat)), NEW before \in Seq(Stmts(Nat)), NEW now \in Seq(Stmts(Nat)), NEW r, NEW n,
         Chunked(placed, before, now, <<>>, r, n), NEW all, all = before \o now
  PROVE  Whole(placed, all)
<1>1. PICK C, P : \E j \in Nat : Chunking(placed, C, P, j, before, now, <<>>, r, n)
  BY DEF Chunked
<1>2. PICK j \in Nat : Chunking(placed, C, P, j, before, now, <<>>, r, n)
  BY <1>1
<1>. DEFINE m == Len(C)
<1>3. /\ CutAlong(C, placed, P) /\ j \in 1..m /\ <<>> = SubSeq(C, j + 1, m)
      /\ now # <<>> /\ now[1].sec = C[j][1].sec
      /\ j = 1 => before = <<>>
      /\ j # 1 => \E i \in 1..Len(before) : before[i].sec = C[j - 1][1].sec
      /\ before = P[j - 1] \/ Marked(before)
      /\ now = C[j] \/ (Marked(now) /\ Laid(now))
  BY <1>2 DEF Chunking
<1>4. C \in Seq(Seq(Stmts(Nat))) /\ P[m] = placed /\ P[0] = <<>> /\ m \in Nat
  BY <1>3 DEF CutAlong
<1>5. j = m
  <2>1. SubSeq(C, j + 1, m) = <<>> => ~(j + 1 <= m)
    <3>. SUFFICES ASSUME j + 1 <= m PROVE SubSeq(C, j + 1, m) # <<>>
      OBVIOUS
    <3>1. j + 1 \in 1..m /\ m \in 1..m
      BY <1>3, <1>4
    <3>. DEFINE x == j + 1
    <3>2. x \in 1..m /\ m = Len(C) /\ x <= m /\ x \in Nat
      BY <3>1
    <3>. HIDE DEF x, m
    <3>3. Len(SubSeq(C, x, m)) = m - x + 1
      BY <1>4, <3>2
    <3>4. m - x + 1 # 0
      BY <1>4, <3>2
    <3>5. Len(<<>>) = 0
      OBVIOUS
    <3>. QED BY <3>3, <3>4, <3>5 DEF x
  <2>. QED BY <1>3, <1>4, <2>1
<1>6. P[j] = P[j - 1] \o C[j]
  BY <1>3 DEF CutAlong
<1>7. j # 1 => C[j - 1][1].sec # C[j][1].sec
  <2>. SUFFICES ASSUME j # 1 PROVE C[j - 1][1].sec # C[j][1].sec
    OBVIOUS
  <2>. DEFINE k == j - 1
  <2>1. k \in 1..m /\ k < m /\ k + 1 = j
    BY <1>3, <1>4, <1>5
  <2>. HIDE DEF k
  <2>2. C[k][1].sec # C[k + 1][1].sec
    BY <1>3, <2>1 DEF CutAlong
  <2>. QED BY <2>1, <2>2 DEF k
<1>. HIDE DEF m
<1>8. /\ Len(all) = Len(before) + Len(now) /\ Len(before) \in Nat /\ Len(now) \in Nat
      /\ \A i \in 1..Len(before) : i \in 1..Len(all) /\ all[i] = before[i]
      /\ \A i \in 1..Len(now) : Len(before) + i \in 1..Len(all) /\ all[Len(before) + i] = now[i]
      /\ Marked(before) \/ Marked(now) => Marked(all)
  <2>1. Joined(before, now, before \o now)
    BY JoinedParts
  <2>2. Joined(before, now, all)
    BY <2>1
  <2>. QED BY ONLY <2>2 DEF Joined
<1>9. CASE before = P[j - 1] /\ now = C[j]
  <2>1. all = P[m]
    BY <1>5, <1>6, <1>9
  <2>2. all = placed
    BY <1>4, <2>1
  <2>. QED BY ONLY <2>2 DEF Whole
<1>10. CASE Marked(before) \/ (Marked(now) /\ Laid(now))
  <2>1. Marked(all)
    BY <1>8, <1>10
  <2>2. j # 1 => ~InOneSection(all)
    <3>. SUFFICES ASSUME j # 1, InOneSection(all) PROVE FALSE
      OBVIOUS
    <3>1. PICK i \in 1..Len(before) : before[i].sec = C[j - 1][1].sec
      BY <1>3
    <3>. DEFINE k == Len(before) + 1
    <3>2. k \in 1..Len(all) /\ all[k] = now[1]
      <4>1. 1 \in 1..Len(now)
        BY <1>3, <1>8
      <4>. QED BY <1>8, <4>1
    <3>3. i \in 1..Len(all) /\ all[i] = before[i]
      BY <1>8
    <3>. HIDE DEF k
    <3>4. all[i].sec = all[1].sec /\ all[k].sec = all[1].sec
      BY <3>2, <3>3 DEF InOneSection
    <3>. QED BY <1>3, <1>7, <3>1, <3>2, <3>3, <3>4
  <2>3. j = 1 => all = now /\ ~Marked(before)
    <3>. SUFFICES ASSUME j = 1 PROVE all = now /\ ~Marked(before)
      OBVIOUS
    <3>1. before = <<>>
      BY <1>3
    <3>2. all = now
      BY <3>1
    <3>3. 1..Len(before) = {}
      BY <3>1
    <3>. QED BY <3>2, <3>3 DEF Marked
  <2>4. j = 1 => Laid(all)
    BY <1>10, <2>3
  <2>. QED BY <2>1, <2>2, <2>4 DEF Whole
<1>. QED BY <1>3, <1>9, <1>10

\* Another is taken up.
LEMMA NextSettles ==
  ASSUME NEW placed \in Seq(Stmts(Nat)), NEW before \in Seq(Stmts(Nat)), NEW now \in Seq(Stmts(Nat)),
         NEW after \in Seq(Seq(Stmts(Nat))), after # <<>>, NEW r, NEW n,
         Chunked(placed, before, now, after, r, n), NEW all, all = before \o now
  PROVE  Chunked(placed, all, Head(after), Tail(after), 0, 0)
<1>1. PICK C, P : \E j \in Nat : Chunking(placed, C, P, j, before, now, after, r, n)
  BY DEF Chunked
<1>2. PICK j \in Nat : Chunking(placed, C, P, j, before, now, after, r, n)
  BY <1>1
<1>. DEFINE m == Len(C)
            k == j + 1
<1>3. /\ CutAlong(C, placed, P) /\ j \in 1..m /\ after = SubSeq(C, k, m)
      /\ now # <<>> /\ now[1].sec = C[j][1].sec
      /\ before = P[j - 1] \/ Marked(before)
      /\ now = C[j] \/ (Marked(now) /\ Laid(now))
  BY <1>2 DEF Chunking
<1>4. C \in Seq(Seq(Stmts(Nat))) /\ m \in Nat
  BY <1>3 DEF CutAlong
<1>5. m = Len(C) /\ k = j + 1
  OBVIOUS
<1>6. P[j] = P[j - 1] \o C[j]
  BY <1>3 DEF CutAlong
<1>. HIDE DEF m, k
<1>7. k \in 1..m
  <2>1. k > m => SubSeq(C, k, m) = <<>>
    <3>. SUFFICES ASSUME k > m PROVE SubSeq(C, k, m) = <<>>
      OBVIOUS
    <3>1. k = m + 1
      BY <1>3, <1>4, <1>5
    <3>. QED BY <1>4, <3>1
  <2>. QED BY <1>3, <1>4, <1>5, <2>1
<1>8. Head(after) = C[k] /\ Tail(after) = SubSeq(C, k + 1, m)
  <2>1. Len(after) = m - k + 1 /\ \A i \in 1..(m - k + 1) : after[i] = C[k + i - 1]
    BY <1>3, <1>4, <1>5, <1>7
  <2>2. 1 \in 1..(m - k + 1) /\ k + 1 - 1 = k
    BY <1>4, <1>7
  <2>3. after[1] = C[k]
    BY <2>1, <2>2
  <2>4. Tail(SubSeq(C, k, m)) = SubSeq(C, k + 1, m)
    BY <1>4, <1>5, <1>7
  <2>. QED BY <1>3, <2>3, <2>4, FirstIsHead
<1>9. C[k] # <<>> /\ k # 1 /\ k - 1 = j
  <2>1. C[k] # <<>>
    BY <1>3, <1>5, <1>7 DEF CutAlong
  <2>. QED BY <1>3, <1>4, <1>5, <2>1
<1>10. /\ Len(all) = Len(before) + Len(now) /\ Len(before) \in Nat /\ Len(now) \in Nat
       /\ \A i \in 1..Len(now) : Len(before) + i \in 1..Len(all) /\ all[Len(before) + i] = now[i]
       /\ Marked(before) \/ Marked(now) => Marked(all)
  <2>1. Joined(before, now, before \o now)
    BY JoinedParts
  <2>2. Joined(before, now, all)
    BY <2>1
  <2>. QED BY ONLY <2>2 DEF Joined
<1>11. \E i \in 1..Len(all) : all[i].sec = C[j][1].sec
  <2>1. 1 \in 1..Len(now)
    BY <1>3, <1>10
  <2>. DEFINE i == Len(before) + 1
  <2>2. i \in 1..Len(all) /\ all[i] = now[1]
    BY <1>10, <2>1
  <2>. HIDE DEF i
  <2>. QED BY <1>3, <2>2
<1>12. all = P[j] \/ Marked(all)
  BY <1>3, <1>6, <1>10
<1>. DEFINE next == Head(after)
            others == Tail(after)
<1>13. CutAlong(C, placed, P) /\ next = C[k] /\ others = SubSeq(C, k + 1, m) /\ next # <<>>
  BY <1>3, <1>8, <1>9
<1>. HIDE DEF next, others
<1>14. Chunking(placed, C, P, k, all, next, others, 0, 0)
  BY <1>5, <1>7, <1>9, <1>11, <1>12, <1>13 DEF Chunking
<1>15. k \in Nat
  BY <1>7
<1>16. Chunked(placed, all, next, others, 0, 0)
  BY <1>14, <1>15 DEF Chunked
<1>. QED BY <1>16 DEF next, others
-----------------------------------------------------------------------------
LEMMA LayoutLays == ASSUME IInv, Laying, Layout PROVE Laying'
<1>. DEFINE g == AssignAddresses(lines, source.object)
            cs == Chunks(g.stmts)
<1>1. stage = "layout" /\ lines \in Seq(SourceLine) /\ source \in Sources /\ UNCHANGED <<front, output>>
  BY DEF Layout, IInv, Typed
<1>2. stmts = <<>> /\ rounds = 0 /\ skips = 0
  BY <1>1 DEF Laying, Early
<1>3. source' = source /\ lines' = lines /\ source.object \in BOOLEAN
  BY <1>1, SourcesAssumption DEF front
<1>4. CASE source.object
  <2>1. Goto("emit", g.err)
    BY <1>4 DEF Layout
  <2>2. stage' \in {"emit", "failed"} /\ source'.object
    BY <1>3, <1>4, <2>1 DEF Goto
  <2>. QED BY <2>2 DEF Laying, Early
<1>5. CASE ~source.object
  <2>1. /\ Goto(IF cs = <<>> THEN "encode" ELSE "relax", g.err)
        /\ chunk' = IF cs = <<>> THEN <<>> ELSE Head(cs)
        /\ rest' = IF cs = <<>> THEN <<>> ELSE Tail(cs)
        /\ UNCHANGED <<stmts, rounds, skips>>
    BY <1>5 DEF Layout
  <2>2. g = AssignAddresses(lines, FALSE) /\ ~source'.object
    BY <1>3, <1>5
  <2>3. g.stmts \in Seq(Stmts(Nat))
    <3>1. g \in Assignments
      BY <1>1, AssignAddressesIn
    <3>. HIDE DEF g
    <3>. QED BY <3>1, AssignedIn
  <2>. DEFINE placed == g.stmts
  <2>4. g.stmts = placed /\ cs = Chunks(placed) /\ placed \in Seq(Stmts(Nat))
    BY <2>3
  <2>. HIDE DEF g, cs, placed
  <2>5. /\ cs = <<>> => placed = <<>>
        /\ cs # <<>> => Chunked(placed, <<>>, Head(cs), Tail(cs), 0, 0)
    BY <2>4, ChunksStart
  <2>6. stmts' = <<>> /\ rounds' = 0 /\ skips' = 0
    BY <1>2, <2>1
  <2>7. CASE g.err # "none"
    BY <2>1, <2>7 DEF Goto, Laying, Early
  <2>8. CASE g.err = "none" /\ cs = <<>>
    <3>1. stage' = "encode"
      BY <2>1, <2>8 DEF Goto
    <3>2. Whole(placed, stmts')
      BY <2>5, <2>6, <2>8 DEF Whole
    <3>3. AssignAddresses(lines', FALSE).err = "none" /\ AssignAddresses(lines', FALSE).stmts = placed
      BY <1>3, <2>2, <2>4, <2>8
    <3>. QED BY <3>1, <3>2, <3>3 DEF Laying, Early
  <2>9. CASE g.err = "none" /\ cs # <<>>
    <3>1. stage' = "relax" /\ chunk' = Head(cs) /\ rest' = Tail(cs)
      BY <2>1, <2>9 DEF Goto
    <3>2. Chunked(placed, stmts', chunk', rest', rounds', skips')
      BY <2>5, <2>6, <2>9, <3>1
    <3>3. AssignAddresses(lines', FALSE).err = "none" /\ AssignAddresses(lines', FALSE).stmts = placed
      BY <1>3, <2>2, <2>4, <2>9
    <3>. QED BY <3>1, <3>2, <3>3 DEF Laying, Early
  <2>. QED BY <2>7, <2>8, <2>9
<1>. QED BY <1>3, <1>4, <1>5

LEMMA RelaxLays == ASSUME IInv, Laying, Relax PROVE Laying'
<1>. DEFINE bad == Violations(chunk)
            placed == AssignAddresses(lines, FALSE).stmts
<1>1. stage = "relax" /\ stage' = "relax" /\ source' = source /\ lines' = lines /\ stmts' = stmts /\ rest' = rest
      /\ bad # {} /\ chunk' = Recompute(Grow(chunk, bad, skips))
  BY DEF Relax, front
<1>2. chunk \in Seq(Stmts(Nat)) /\ skips \in Nat /\ ~source.object
  BY <1>1 DEF IInv, Typed, Routed
<1>3. Chunked(placed, stmts, chunk, rest, rounds, skips) /\ AssignAddresses(lines, FALSE).err = "none"
  BY <1>1, <1>2 DEF Laying
<1>4. bad \in SUBSET (1..Len(chunk)) /\ \A i \in bad : Branch(chunk[i])
  BY ViolationsAre
<1>. DEFINE next == Recompute(Grow(chunk, bad, skips))
<1>5. next = Recompute(Grow(chunk, bad, skips)) /\ chunk' = next
  BY <1>1
<1>. HIDE DEF bad, placed, next
<1>6. Chunked(placed, stmts, next, rest, rounds', skips')
  BY <1>1, <1>2, <1>3, <1>4, <1>5, RoundStays
<1>7. Chunked(placed, stmts', chunk', rest', rounds', skips')
  BY <1>1, <1>5, <1>6
<1>8. AssignAddresses(lines', FALSE).err = "none" /\ AssignAddresses(lines', FALSE).stmts = placed
  BY <1>1, <1>3 DEF placed
<1>. QED BY <1>1, <1>7, <1>8 DEF Laying, Early

LEMMA SettleLays == ASSUME IInv, Laying, Settle PROVE Laying'
<1>. DEFINE placed == AssignAddresses(lines, FALSE).stmts
<1>1. /\ stage = "relax" /\ stmts' = stmts \o chunk /\ rounds' = 0 /\ skips' = 0
      /\ IF rest = <<>> THEN Goto("encode", "none") /\ chunk' = <<>> /\ UNCHANGED rest
         ELSE chunk' = Head(rest) /\ rest' = Tail(rest) /\ UNCHANGED <<stage, err>>
      /\ source' = source /\ lines' = lines
  BY DEF Settle, front
<1>2. chunk \in Seq(Stmts(Nat)) /\ stmts \in Seq(Stmts(Nat)) /\ rest \in Seq(Seq(Stmts(Nat))) /\ ~source.object
      /\ lines \in Seq(SourceLine)
  BY <1>1 DEF IInv, Typed, Routed
<1>3. Chunked(placed, stmts, chunk, rest, rounds, skips) /\ AssignAddresses(lines, FALSE).err = "none"
  BY <1>1, <1>2 DEF Laying
<1>4. placed \in Seq(Stmts(Nat))
  BY <1>2, AssignAddressesIn, AssignedIn
<1>5. AssignAddresses(lines', FALSE).err = "none" /\ AssignAddresses(lines', FALSE).stmts = placed
  BY <1>1, <1>3
<1>. DEFINE all == stmts \o chunk
<1>6. all = stmts \o chunk /\ stmts' = all
  BY <1>1
<1>. HIDE DEF placed, all
<1>7. CASE rest = <<>>
  <2>1. stage' = "encode"
    BY <1>1, <1>7 DEF Goto
  <2>2. Chunked(placed, stmts, chunk, <<>>, rounds, skips)
    BY <1>3, <1>7
  <2>3. Whole(placed, all)
    BY <1>2, <1>4, <1>6, <2>2, LastSettles
  <2>4. Whole(placed, stmts')
    BY <1>6, <2>3
  <2>. QED BY <1>5, <2>1, <2>4 DEF Laying, Early
<1>8. CASE rest # <<>>
  <2>1. stage' = "relax" /\ chunk' = Head(rest) /\ rest' = Tail(rest)
    BY <1>1, <1>8
  <2>2. Chunked(placed, all, Head(rest), Tail(rest), 0, 0)
    BY <1>2, <1>3, <1>4, <1>6, <1>8, NextSettles
  <2>3. Chunked(placed, stmts', chunk', rest', rounds', skips')
    BY <1>1, <1>6, <2>1, <2>2
  <2>. QED BY <1>5, <2>1, <2>3 DEF Laying, Early
<1>. QED BY <1>7, <1>8

LEMMA EncodeLays == ASSUME IInv, Laying, EncodeAll PROVE Laying'
<1>. DEFINE codes == Codes
            labels == LabelsFrom(stmts)
            bad == {i \in 1..Len(stmts) : codes[i].err # "none"}
<1>1. stage = "encode" /\ source' = source /\ lines' = lines /\ stmts' = stmts
      /\ IF bad # {} THEN Goto("done", codes[Min(bad)].err)
         ELSE Goto("done", IF stmts # <<>> /\ Size(codes) = 0 THEN "crash" ELSE "none")
              /\ image' = [a \in 0..(Size(codes) - 1) |->
                             LET by == Claims(codes, a)
                             IN  IF by = {} THEN 0 ELSE codes[Max(by)].words[a - stmts[Max(by)].addr + 1]]
  BY DEF EncodeAll, front
<1>2. stmts \in Seq(Stmts(Nat)) /\ ~source.object
  BY <1>1 DEF IInv, Typed, Routed
<1>3. /\ codes \in Seq(Coded) /\ Len(codes) = Len(stmts) /\ codes = CodesOf(stmts, labels)
      /\ \A i \in 1..Len(stmts) : codes[i] = Encode(stmts[i], labels)
  <2>1. labels \in LabelTables
    BY <1>2, StmtsWider, LabelsFromIn
  <2>. HIDE DEF labels
  <2>2. /\ CodesOf(stmts, labels) \in Seq(Coded) /\ Len(CodesOf(stmts, labels)) = Len(stmts)
        /\ \A i \in 1..Len(stmts) : CodesOf(stmts, labels)[i] = Encode(stmts[i], labels)
    BY <1>2, <2>1, CodesAre
  <2>3. codes = CodesOf(stmts, labels)
    BY DEF Codes, CodesOf, labels
  <2>. HIDE DEF codes
  <2>. QED BY <2>2, <2>3
<1>4. Size(codes) = TopOf(stmts, codes) /\ \A a : Claims(codes, a) = ClaimsOf(stmts, codes, a)
  <2>. HIDE DEF codes
  <2>. QED BY DEF Size, TopOf, EndsOf, Claims, ClaimsOf
<1>. HIDE DEF codes
<1>5. AssignAddresses(lines, FALSE).err = "none" /\ Whole(AssignAddresses(lines, FALSE).stmts, stmts)
  BY <1>1, <1>2 DEF Laying
<1>6. CASE bad # {}
  <2>1. codes[Min(bad)].err \in EncodeErrors
    <3>1. bad = {i \in 1..Len(codes) : codes[i].err # "none"}
      BY <1>3
    <3>. HIDE DEF bad
    <3>. QED BY <1>3, <1>6, <3>1, FirstErrorIn
  <2>2. codes[Min(bad)].err # "none"
    BY <2>1 DEF EncodeErrors
  <2>. HIDE DEF bad
  <2>3. stage' = "failed"
    BY <1>1, <1>6, <2>2 DEF Goto
  <2>. QED BY <2>3 DEF Laying, Early
<1>7. CASE bad = {}
  <2>1. \A i \in 1..Len(stmts) : codes[i].err = "none"
    BY <1>7
  <2>2. NoErrors(stmts)
    BY <1>3, <2>1 DEF NoErrors, labels
  <2>. HIDE DEF bad, labels
  <2>3. image' = Picture(stmts, codes)
    BY <1>1, <1>4, <1>7 DEF Picture
  <2>4. stage' \in {"done", "failed"}
    BY <1>1, <1>7 DEF Goto
  <2>5. image' = Picture(stmts', CodesOf(stmts', LabelsFrom(stmts')))
    <3>1. stmts' = stmts
      BY <1>1
    <3>2. image' = Picture(stmts, CodesOf(stmts, labels))
      BY <1>3, <2>3
    <3>3. image' = Picture(stmts, CodesOf(stmts, LabelsFrom(stmts)))
      BY <3>2 DEF labels
    <3>. QED BY ONLY <3>1, <3>3
  <2>6. NoErrors(stmts')
    BY <1>1, <2>2
  <2>7. AssignAddresses(lines', FALSE).err = "none" /\ Whole(AssignAddresses(lines', FALSE).stmts, stmts')
    BY <1>1, <1>5
  <2>. QED BY <2>4, <2>5, <2>6, <2>7 DEF Laying, Early
<1>. QED BY <1>6, <1>7

\* The stages before the layout, and those of an object, have nothing to lay out.
LEMMA OthersLay ==
  ASSUME IInv, Laying, Include \/ Collect \/ Expand \/ Strip \/ Define \/ Filter \/ Subst \/ Emit \/ Write \/ ReadBack
  PROVE  Laying'
<1>1. stmts' = stmts /\ rounds' = rounds /\ skips' = skips /\ source' = source
  BY DEF Include, Collect, Expand, Strip, Define, Filter, Subst, Emit, Write, ReadBack, relaxing, front
<1>2. CASE Include \/ Collect \/ Expand \/ Strip \/ Define \/ Filter \/ Subst
  <2>1. stage \in Early /\ stage' \in Early \cup {"failed"}
    BY <1>2 DEF Include, Collect, Expand, Strip, Define, Filter, Subst, Goto, Early
  <2>2. stmts = <<>> /\ rounds = 0 /\ skips = 0
    BY <2>1 DEF Laying
  <2>3. stage' \notin {"relax", "encode", "done"}
    BY <2>1 DEF Early
  <2>. QED BY <1>1, <2>2, <2>3 DEF Laying
<1>3. CASE Emit \/ Write \/ ReadBack
  <2>1. stage \in {"emit", "write", "read"} /\ stage' \in {"write", "read", "done", "failed"}
    BY <1>3 DEF Emit, Write, ReadBack, Goto
  <2>2. source'.object
    BY <1>1, <2>1 DEF IInv, Routed
  <2>. QED BY <2>1, <2>2 DEF Laying, Early
<1>. QED BY <1>2, <1>3

LEMMA LayingHolds == Spec => []Laying
<1>1. Init => Laying
  BY DEF Init, Laying
<1>2. IInv /\ Laying /\ [Next]_vars => Laying'
  <2>. SUFFICES ASSUME IInv, Laying, [Next]_vars PROVE Laying'
    OBVIOUS
  <2>1. CASE Include \/ Collect \/ Expand \/ Strip \/ Define \/ Filter \/ Subst \/ Emit \/ Write \/ ReadBack
    BY <2>1, OthersLay
  <2>2. CASE Layout
    BY <2>2, LayoutLays
  <2>3. CASE Relax
    BY <2>3, RelaxLays
  <2>4. CASE Settle
    BY <2>4, SettleLays
  <2>5. CASE EncodeAll
    BY <2>5, EncodeLays
  <2>6. CASE UNCHANGED vars
    BY <2>6 DEF vars, Laying
  <2>. QED BY <2>1, <2>2, <2>3, <2>4, <2>5, <2>6 DEF Next, Finished
<1>. QED BY <1>1, <1>2, StagesHold, PTL DEF Spec
-----------------------------------------------------------------------------
\* What the image is made of, at the end.
LEMMA FollowsAtTheEnd ==
  ASSUME IInv, Laying, Assembled, Unspoiled, Forward, SectionsLabelledApart
  PROVE  Follow(stmts) /\ NoErrors(stmts)
<1>. DEFINE g == AssignAddresses(lines, FALSE)
<1>1. stage = "done" /\ ~source.object /\ source.object = FALSE
  BY SourcesAssumption DEF IInv, Typed, Assembled
<1>2. stmts \in Seq(Stmts(Nat)) /\ lines \in Seq(SourceLine)
  BY DEF IInv, Typed
<1>3. g.err = "none" /\ Whole(g.stmts, stmts) /\ NoErrors(stmts)
  BY <1>1 DEF Laying
<1>4. CASE stmts = g.stmts
  <2>1. NoneBack(lines)
    <3>. SUFFICES ASSUME NEW i \in 1..Len(lines), lines[i].op = ".org"
                  PROVE  AssignAddresses(SubSeq(lines, 1, i - 1), FALSE).addr
                           <= AssignAddresses(SubSeq(lines, 1, i), FALSE).addr
      BY DEF NoneBack
    <3>1. ReachedBy(i - 1) <= ReachedBy(i)
      BY DEF Forward
    <3>. QED BY <1>1, <3>1 DEF ReachedBy
  <2>2. LabelledApart(lines)
    BY DEF SectionsLabelledApart, LabelledApart
  <2>3. AssignAddresses(lines, FALSE).err = "none" /\ stmts = AssignAddresses(lines, FALSE).stmts
    BY <1>3, <1>4
  <2>. HIDE DEF g
  <2>4. Follow(stmts)
    BY <1>2, <1>3, <2>1, <2>2, <2>3, FirstPassFollows
  <2>. QED BY <1>3, <2>4
<1>5. CASE stmts # g.stmts
  <2>1. Marked(stmts) /\ (InOneSection(stmts) => Laid(stmts))
    BY <1>3, <1>5 DEF Whole
  <2>2. HasGrown
    <3>1. PICK i \in 1..Len(stmts) : SkipLabel(0) \in Range(stmts[i].labels)
      BY <2>1 DEF Marked
    <3>2. SkipLabel(0) \in {SkipLabel(n) : n \in 0..9}
      OBVIOUS
    <3>3. Range(stmts[i].labels) \cap {SkipLabel(n) : n \in 0..9} # {}
      BY <3>1, <3>2
    <3>. QED BY <3>3 DEF HasGrown
  <2>3. OneChunk /\ \A i \in 1..Len(stmts) : ~Measured(stmts[i])
    BY <2>2 DEF Unspoiled
  <2>4. Laid(stmts)
    BY <2>1, <2>3 DEF OneChunk, InOneSection
  <2>5. \A i \in 1..Len(stmts) : i < Len(stmts) => stmts[i].addr + StmtSize(stmts[i]) <= stmts[i + 1].addr
    BY <2>4 DEF Laid
  <2>6. Follow(stmts)
    BY <1>2, <1>3, <2>3, <2>5, SizedFollows
  <2>. QED BY <1>3, <2>6
<1>. QED BY <1>4, <1>5

\* No two statements of an image write to the same word, and every statement's
\* words are in the image, under the three conditions of WordsDoNotOverlap
\* (assign_addresses, _stmt_size and _encode agree on every size there).
THEOREM WordsStandApart == Spec => []WordsDoNotOverlap
<1>1. IInv /\ Laying => WordsDoNotOverlap
  <2>. SUFFICES ASSUME IInv, Laying, Assembled, Unspoiled, Forward, SectionsLabelledApart,
                       NEW i \in 1..Len(stmts)
                PROVE  LET ws == Words(i, LabelsFrom(stmts))
                       IN  /\ \A k \in 1..Len(ws) : image[stmts[i].addr + k - 1] = ws[k]
                           /\ i < Len(stmts) => stmts[i].addr + Len(ws) <= stmts[i + 1].addr
    BY DEF WordsDoNotOverlap
  <2>. DEFINE labels == LabelsFrom(stmts)
              codes == CodesOf(stmts, labels)
              n == Len(stmts)
  <2>1. Follow(stmts) /\ NoErrors(stmts)
    BY FollowsAtTheEnd
  <2>2. stmts \in Seq(Stmts(Nat))
    BY DEF IInv, Typed
  <2>3. image = Picture(stmts, codes)
    BY DEF Laying, Assembled
  <2>4. labels \in LabelTables
    BY <2>2, StmtsWider, LabelsFromIn
  <2>5. \A j \in 1..n : j < n => stmts[j].addr + Len(Encode(stmts[j], labels).words) <= stmts[j + 1].addr
    BY <2>1 DEF Follow
  <2>6. labels = LabelsFrom(stmts) /\ codes = CodesOf(stmts, labels) /\ n = Len(stmts)
    OBVIOUS
  <2>. HIDE DEF labels, codes
  <2>7. codes \in Seq(Coded) /\ Len(codes) = n /\ \A j \in 1..n : codes[j] = Encode(stmts[j], labels)
    BY <2>2, <2>4, <2>6, CodesAre
  <2>. HIDE DEF n
  <2>8. \A j \in 1..Len(stmts) : j < Len(stmts) => stmts[j].addr + Len(codes[j].words) <= stmts[j + 1].addr
    BY <2>5, <2>6, <2>7
  <2>. DEFINE ws == codes[i].words
  <2>9. ws = Words(i, labels)
    BY <2>6, <2>7 DEF Words
  <2>10. \A k \in 1..Len(codes[i].words) : Picture(stmts, codes)[stmts[i].addr + k - 1] = codes[i].words[k]
    BY <2>2, <2>6, <2>7, <2>8, PictureHolds
  <2>11. \A k \in 1..Len(ws) : image[stmts[i].addr + k - 1] = ws[k]
    BY <2>3, <2>10
  <2>12. i < Len(stmts) => stmts[i].addr + Len(ws) <= stmts[i + 1].addr
    BY <2>8
  <2>. HIDE DEF ws
  <2>. QED BY <2>6, <2>9, <2>11, <2>12
<1>. QED BY <1>1, StagesHold, LayingHolds, PTL

=============================================================================
