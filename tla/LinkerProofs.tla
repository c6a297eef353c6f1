---------------------------- MODULE LinkerProofs ----------------------------
(* Proofs about module Linker, for every set of jobs, base and field width:  *)
(* its types, where the emitted image's branches and relocated words lead,   *)
(* whatever the rounds of relaxation moved, and that relaxation grows no     *)
(* branch it could have left short.                                          *)
EXTENDS Linker, Lemmas

\* What the phases add to the types: nothing is grown before the layout, the
\* layout covers the items before pos, then all items, and rounds are left
\* until the link fails for want of them.
PhaseInv ==
  /\ phase \in {"collect", "merge"} => relaxed = {} /\ addr = <<>>
  /\ phase = "layout" => pos = Len(addr) + 1 /\ Len(addr) <= Len(items)
  /\ phase \in {"scan", "emit"} => Len(addr) = Len(items)
  /\ phase # "failed" => budget > 0
  /\ phase = "merge" /\ sec > Len(order) => pos = 1

IInv == TypeOK /\ PhaseInv

LEMMA JobTypes ==
  ASSUME IInv, NEW k \in Nat \ {0}, k <= Len(job)
  PROVE  /\ job[k].section \in STRING /\ job[k].file \in STRING
         /\ job[k].items \in Seq(Item)
         /\ Placed(job[k]) \in Seq(PlacedItem)
<1>1. job \in Seq(Piece)
  BY JobsAssumption DEF IInv, TypeOK
<1>2. job[k] \in Piece
  BY <1>1
<1>3. job[k].section \in STRING /\ job[k].file \in STRING /\ job[k].items \in Seq(Item)
  BY <1>2 DEF Piece
<1>4. \A i \in 1..Len(job[k].items) : job[k].items[i] \in Item
  BY <1>3, ElementOfSeq
<1>5. Placed(job[k]) \in Seq(PlacedItem)
  BY <1>3, <1>4 DEF Placed, PlacedItem
<1>. QED BY <1>3, <1>5

LEMMA BaseType == ASSUME NEW s PROVE SectionBase(s) \in Nat
<1>1. CASE s \in DOMAIN Base
  BY <1>1, BaseAssumption DEF SectionBase
<1>2. CASE s \notin DOMAIN Base
  BY <1>2 DEF SectionBase
<1>. QED BY <1>1, <1>2

LEMMA SizeTypes ==
  ASSUME IInv, NEW i \in 1..Len(items)
  PROVE  /\ Size(i) \in Nat
         /\ SectionBase(items[i].section) \in Nat
<1>1. items[i] \in PlacedItem
  BY ElementOfSeq DEF IInv, TypeOK
<1>2. items[i].item \in Item
  BY <1>1 DEF PlacedItem
<1>3. items[i].item.kind \in Kinds /\ items[i].item.size \in Nat
  BY <1>2 DEF Item
<1>4. Size(i) \in Nat
  BY <1>3 DEF Size, Kinds, RelocKinds, Jumps
<1>. QED BY <1>4, BaseType

LEMMA InitInv == Init => IInv
<1>. SUFFICES ASSUME Init PROVE IInv
  OBVIOUS
<1>1. job \in Seq(Piece)
  BY JobsAssumption DEF Init
<1>2. Len(job) \in Nat
  BY <1>1
<1>3. DOMAIN image = {}
  BY DEF Init
<1>. QED BY <1>2, <1>3 DEF Init, IInv, TypeOK, PhaseInv

LEMMA StepInv == IInv /\ [Next]_vars => IInv'
<1>. SUFFICES ASSUME IInv, [Next]_vars PROVE IInv'
  OBVIOUS
<1>0. TypeOK /\ PhaseInv
  BY DEF IInv
<1>t. /\ order \in Seq(STRING) /\ items \in Seq(PlacedItem) /\ addr \in Seq(Nat)
      /\ pos \in Nat \ {0} /\ sec \in Nat \ {0} /\ budget \in Nat /\ cursor \in Nat
      /\ relaxed \subseteq Branches /\ DOMAIN image \subseteq Nat
  BY <1>0 DEF TypeOK
<1>l. Len(items) \in Nat /\ Len(addr) \in Nat /\ Len(order) \in Nat
  BY <1>t
<1>b. items' = items => Branches' = Branches
  BY DEF Branches
<1>1. ASSUME NEW r \in {"duplicate", "undefined", "budget", "range", "range after relaxation", "space"},
             Fail(r)
      PROVE  IInv'
  <2>1. TypeOK'
    BY <1>0, <1>1, <1>b DEF Fail, TypeOK
  <2>2. PhaseInv'
    BY <1>1 DEF Fail, PhaseInv
  <2>. QED BY <2>1, <2>2 DEF IInv
<1>2. CASE Collect
  <2>0. UNCHANGED <<job, why, sec, items, addr, cursor, relaxed, budget, image>> /\ phase = "collect"
    BY <1>2 DEF Collect
  <2>1. order' \in Seq(STRING) /\ pos' \in Nat \ {0}
    <3>1. CASE pos <= Len(job)
      <4>1. job[pos].section \in STRING
        BY <1>t, <3>1, JobTypes
      <4>2. Append(order, job[pos].section) \in Seq(STRING)
        BY <1>t, <4>1
      <4>3. order' \in Seq(STRING)
        BY <1>t, <1>2, <3>1, <4>2, Zenon DEF Collect
      <4>4. pos' = pos + 1
        BY <1>2, <3>1, Zenon DEF Collect
      <4>. QED BY <1>t, <4>3, <4>4
    <3>2. CASE ~(pos <= Len(job))
      BY <1>t, <1>2, <3>2 DEF Collect
    <3>. QED BY <3>1, <3>2
  <2>2. phase' = "collect" \/ (phase' = "merge" /\ pos' = 1)
    BY <1>2 DEF Collect
  <2>3. TypeOK'
    BY <1>0, <1>b, <2>0, <2>1, <2>2 DEF TypeOK
  <2>4. PhaseInv'
    BY <1>0, <2>0, <2>2 DEF PhaseInv
  <2>. QED BY <2>3, <2>4 DEF IInv
<1>3. CASE Merge
  <2>0. UNCHANGED <<job, why, order, addr, cursor, relaxed, budget, image>> /\ phase = "merge"
    BY <1>3 DEF Merge
  <2>1. relaxed = {} /\ addr = <<>> /\ budget > 0
    BY <1>0, <2>0 DEF PhaseInv
  <2>2. /\ items' \in Seq(PlacedItem) /\ pos' \in Nat \ {0} /\ sec' \in Nat \ {0}
        /\ \/ phase' = "merge" /\ (sec' > Len(order) => pos' = 1)
           \/ phase' = "layout" /\ pos' = 1
    <3>1. CASE sec <= Len(order) /\ pos <= Len(job)
      <4>1. Placed(job[pos]) \in Seq(PlacedItem)
        BY <1>t, <3>1, JobTypes
      <4>2. items \o Placed(job[pos]) \in Seq(PlacedItem)
        BY <1>t, <4>1, ConcatProperties
      <4>3. /\ items' = IF job[pos].section = order[sec] THEN items \o Placed(job[pos]) ELSE items
            /\ pos' = pos + 1 /\ UNCHANGED <<phase, sec>>
        BY <1>3, <1>t, <1>l, <3>1 DEF Merge
      <4>4. items' \in Seq(PlacedItem)
        BY <1>t, <4>2, <4>3, Zenon
      <4>. QED BY <1>t, <1>l, <2>0, <3>1, <4>3, <4>4
    <3>2. CASE sec <= Len(order) /\ pos > Len(job)
      <4>1. sec' = sec + 1 /\ pos' = 1 /\ UNCHANGED <<phase, items>>
        BY <1>3, <1>t, <1>l, <3>2 DEF Merge
      <4>. QED BY <1>t, <2>0, <4>1
    <3>3. CASE sec > Len(order)
      <4>1. phase' = "layout" /\ pos' = 1 /\ UNCHANGED <<sec, items>>
        BY <1>3, <1>t, <1>l, <3>3 DEF Merge
      <4>. QED BY <1>t, <4>1
    <3>. QED BY <1>3, <3>1, <3>2, <3>3 DEF Merge
  <2>3. TypeOK'
    BY <1>0, <1>b, <2>0, <2>1, <2>2 DEF TypeOK
  <2>4. Len(items') \in Nat /\ Len(addr') = 0
    BY <2>0, <2>1, <2>2
  <2>5. PhaseInv'
    BY <2>0, <2>1, <2>2, <2>4 DEF PhaseInv
  <2>. QED BY <2>3, <2>5 DEF IInv
<1>4. CASE Layout
  <2>0. /\ UNCHANGED <<job, why, order, sec, items, relaxed, budget, image>>
        /\ phase = "layout" /\ pos = Len(addr) + 1 /\ Len(addr) <= Len(items) /\ budget > 0
    BY <1>0, <1>4 DEF Layout, PhaseInv
  <2>1. /\ addr' \in Seq(Nat) /\ cursor' \in Nat /\ pos' \in Nat \ {0}
        /\ \/ phase' = "layout" /\ pos' = Len(addr') + 1 /\ Len(addr') <= Len(items)
           \/ phase' = "scan" /\ Len(addr') = Len(items)
    <3>1. CASE pos <= Len(items)
      <4>1. Size(pos) \in Nat /\ SectionBase(items[pos].section) \in Nat
        BY <1>t, <1>l, <3>1, SizeTypes
      <4>2. PICK at \in Nat : addr' = Append(addr, at) /\ cursor' = at + Size(pos)
        BY <1>t, <1>4, <3>1, <4>1, Zenon DEF Layout
      <4>3. addr' \in Seq(Nat) /\ Len(addr') = Len(addr) + 1 /\ cursor' \in Nat
        BY <1>t, <4>1, <4>2
      <4>4. phase' = "layout" /\ pos' = pos + 1
        BY <1>4, <3>1, <2>0 DEF Layout
      <4>. QED BY <1>t, <1>l, <2>0, <3>1, <4>3, <4>4
    <3>2. CASE ~(pos <= Len(items))
      BY <1>t, <1>l, <1>4, <2>0, <3>2 DEF Layout
    <3>. QED BY <3>1, <3>2
  <2>2. TypeOK'
    BY <1>0, <1>b, <2>0, <2>1 DEF TypeOK
  <2>3. PhaseInv'
    BY <2>0, <2>1 DEF PhaseInv
  <2>. QED BY <2>2, <2>3 DEF IInv
<1>5. CASE ScanFails
  BY <1>1, <1>5 DEF ScanFails
<1>6. CASE Relax
  <2>0. /\ UNCHANGED <<job, order, sec, items, image>> /\ phase = "scan"
        /\ relaxed' = relaxed \cup Far /\ budget' = budget - 1
        /\ addr' = <<>> /\ cursor' = 0 /\ pos' = 1
        /\ \/ budget > 1 /\ phase' = "layout" /\ why' = why
           \/ phase' = "failed" /\ why' = "budget"
    BY <1>6 DEF Relax
  <2>1. budget > 0
    BY <1>0, <2>0 DEF PhaseInv
  <2>2. relaxed' \subseteq Branches' /\ budget' \in Nat /\ (phase' = "layout" => budget' > 0)
    BY <1>t, <1>b, <2>0, <2>1 DEF Far
  <2>3. addr' \in Seq(Nat) /\ Len(addr') = 0
    BY <2>0
  <2>4. TypeOK'
    <3>1. DOMAIN image' \subseteq Nat /\ cursor' \in Nat /\ pos' \in Nat \ {0}
      BY <1>t, <2>0
    <3>2. /\ phase' \in {"collect", "merge", "layout", "scan", "emit", "done", "failed"}
          /\ why' \in {"none", "duplicate", "undefined", "budget", "range",
                       "range after relaxation", "space"}
      BY <1>0, <2>0 DEF TypeOK
    <3>3. job' \in Jobs /\ order' \in Seq(STRING) /\ sec' \in Nat \ {0} /\ items' \in Seq(PlacedItem)
      BY <1>0, <2>0 DEF TypeOK
    <3>. QED BY <2>2, <2>3, <3>1, <3>2, <3>3, Zenon DEF TypeOK
  <2>5. PhaseInv'
    BY <1>l, <2>0, <2>2, <2>3 DEF PhaseInv
  <2>. QED BY <2>4, <2>5 DEF IInv
<1>7. CASE Settle
  <2>0. /\ UNCHANGED <<job, why, order, sec, items, addr, cursor, relaxed, budget, image>>
        /\ phase = "scan" /\ phase' = "emit" /\ pos' = 1
    BY <1>7 DEF Settle
  <2>1. TypeOK'
    <3>1. relaxed' \subseteq Branches' /\ DOMAIN image' \subseteq Nat
      BY <1>t, <1>b, <2>0
    <3>2. /\ phase' \in {"collect", "merge", "layout", "scan", "emit", "done", "failed"}
          /\ why' \in {"none", "duplicate", "undefined", "budget", "range",
                       "range after relaxation", "space"}
      BY <1>0, <2>0 DEF TypeOK
    <3>3. job' \in Jobs /\ order' \in Seq(STRING) /\ sec' \in Nat \ {0} /\ items' \in Seq(PlacedItem)
      BY <1>0, <2>0 DEF TypeOK
    <3>4. addr' \in Seq(Nat) /\ cursor' \in Nat /\ pos' \in Nat \ {0} /\ budget' \in Nat
      BY <1>t, <2>0
    <3>. QED BY <3>1, <3>2, <3>3, <3>4, Zenon DEF TypeOK
  <2>2. PhaseInv'
    BY <1>0, <2>0 DEF PhaseInv
  <2>. QED BY <2>1, <2>2 DEF IInv
<1>8. CASE EmitFails
  BY <1>1, <1>8 DEF EmitFails
<1>9. CASE Emit
  <2>0. /\ UNCHANGED <<job, phase, why, order, sec, items, addr, cursor, relaxed, budget>>
        /\ phase = "emit" /\ pos' = pos + 1 /\ pos <= Len(items) /\ Len(addr) = Len(items)
    BY <1>0, <1>9 DEF Emit, PhaseInv
  <2>1. Size(pos) \in Nat /\ addr[pos] \in Nat
    BY <1>t, <1>l, <2>0, SizeTypes, ElementOfSeq
  <2>2. Cells(pos) \subseteq Nat
    BY <2>1 DEF Cells
  <2>3. DOMAIN image' = DOMAIN image \cup Cells(pos)
    BY <1>9 DEF Emit
  <2>4. DOMAIN image' \subseteq Nat
    BY <1>t, <2>2, <2>3
  <2>5. pos' \in Nat \ {0}
    BY <1>t, <2>0
  <2>6. TypeOK'
    BY <1>0, <1>b, <2>0, <2>4, <2>5 DEF TypeOK
  <2>7. PhaseInv'
    BY <1>0, <2>0 DEF PhaseInv
  <2>. QED BY <2>6, <2>7 DEF IInv
<1>10. CASE Finish
  <2>0. /\ UNCHANGED <<job, order, sec, pos, items, addr, cursor, relaxed, budget, image>>
        /\ phase = "emit"
        /\ \/ phase' = "done" /\ why' = why
           \/ phase' = "failed" /\ why' = "space"
    BY <1>10, Zenon DEF Finish
  <2>1. TypeOK'
    <3>1. relaxed' \subseteq Branches' /\ DOMAIN image' \subseteq Nat
      BY <1>t, <1>b, <2>0
    <3>2. /\ phase' \in {"collect", "merge", "layout", "scan", "emit", "done", "failed"}
          /\ why' \in {"none", "duplicate", "undefined", "budget", "range",
                       "range after relaxation", "space"}
      BY <1>0, <2>0 DEF TypeOK
    <3>. QED BY <1>0, <2>0, <3>1, <3>2 DEF TypeOK
  <2>2. PhaseInv'
    BY <1>0, <2>0 DEF PhaseInv
  <2>. QED BY <2>1, <2>2 DEF IInv
<1>11. CASE UNCHANGED vars
  BY <1>0, <1>11 DEF vars, IInv, TypeOK, PhaseInv, Branches
<1>. QED BY <1>2, <1>3, <1>4, <1>5, <1>6, <1>7, <1>8, <1>9, <1>10, <1>11 DEF Next

\* Type correctness: addresses and sizes stay numbers, only branches are grown,
\* and the rounds never run below zero.
THEOREM TypeCorrect == Spec => []TypeOK
<1>. QED BY InitInv, StepInv, PTL DEF Spec, IInv
-----------------------------------------------------------------------------
\* What relaxation has established when the emission starts.
ReachInv == /\ phase = "emit" => Far = {}
            /\ why # "range after relaxation"

LEMMA FarFrame ==
  ASSUME UNCHANGED <<items, addr, relaxed>>
  PROVE  Far' = Far
<1>1. items' = items /\ addr' = addr /\ relaxed' = relaxed
  OBVIOUS
<1>. QED BY <1>1 DEF Far, Target, SymAddr, Candidates, Defs, SameName, Branches, InReach

LEMMA ReachStep == ReachInv /\ [Next]_vars => ReachInv'
<1>. SUFFICES ASSUME ReachInv, [Next]_vars PROVE ReachInv'
  OBVIOUS
<1>1. ASSUME NEW r \in {"duplicate", "undefined", "range"}, Fail(r) PROVE ReachInv'
  BY <1>1 DEF Fail, ReachInv
<1>2. CASE Collect
  BY <1>2 DEF Collect, ReachInv
<1>3. CASE Merge
  BY <1>3 DEF Merge, ReachInv
<1>4. CASE Layout
  <2>1. phase' \in {"layout", "scan"} /\ why' = why
    BY <1>4 DEF Layout
  <2>. QED BY <2>1 DEF ReachInv
<1>5. CASE ScanFails
  BY <1>1, <1>5 DEF ScanFails
<1>6. CASE Relax
  BY <1>6 DEF Relax, ReachInv
<1>7. CASE Settle
  <2>1. Far' = Far
    BY <1>7, FarFrame DEF Settle
  <2>. QED BY <1>7, <2>1 DEF Settle, ReachInv
<1>8. CASE EmitFails
  <2>1. ASSUME pos \in Branches \ relaxed, ~InReach(Target(pos) - addr[pos]) PROVE FALSE
    BY <1>8, <2>1 DEF EmitFails, ReachInv, Far
  <2>2. Fail("undefined") \/ Fail("range")
    BY <1>8, <2>1 DEF EmitFails
  <2>. QED BY <1>1, <2>2
<1>9. CASE Emit
  <2>1. Far' = Far
    BY <1>9, FarFrame DEF Emit
  <2>. QED BY <1>9, <2>1 DEF Emit, ReachInv
<1>10. CASE Finish
  <2>1. phase' # "emit" /\ (why' = why \/ why' = "space")
    BY <1>10, Zenon DEF Finish
  <2>. QED BY <2>1 DEF ReachInv
<1>11. CASE UNCHANGED vars
  BY <1>11, FarFrame DEF vars, ReachInv
<1>. QED BY <1>2, <1>3, <1>4, <1>5, <1>6, <1>7, <1>8, <1>9, <1>10, <1>11 DEF Next

\* A short branch that relaxation left short still reaches when its word is
\* emitted: the layout the image is made with is the one the last round checked
\* (Link.hs: LinkBranchOutOfRange "shouldn't happen post-relaxation").
THEOREM ReachesWhenEmitted == Spec => []ReachAfterRelaxation
<1>1. Init => ReachInv
  BY DEF Init, ReachInv
<1>2. ReachInv => ReachAfterRelaxation
  BY DEF ReachInv, ReachAfterRelaxation
<1>. QED BY <1>1, <1>2, ReachStep, PTL DEF Spec

-----------------------------------------------------------------------------
(* The image. *)

Before == {"collect", "merge", "layout", "scan"}
Emitting == phase \in {"emit", "done"}
Emitted(i) == i < pos \/ phase = "done"

\* The image holds the code of the items emitted so far, each cell that of the
\* last item emitted there, in the layout of the last round.
Holds(a, j) == a \in Cells(j) /\ image[a] = Code(j)[a - addr[j] + 1]
ImageInv ==
  /\ phase \in Before => DOMAIN image = {}
  /\ Emitting =>
       /\ Len(addr) = Len(items)
       /\ \A i \in 1..Len(items) :
            Emitted(i) => Cells(i) \subseteq DOMAIN image /\ (Refers(i) => ~Undefined(i))
       /\ \A a \in DOMAIN image : \E j \in 1..Len(items) : Emitted(j) /\ Holds(a, j)

LEMMA ItemTypes ==
  ASSUME IInv, NEW i \in 1..Len(items)
  PROVE  /\ items[i].item \in Item /\ items[i].item.kind \in Kinds
         /\ items[i].item.size \in Nat /\ items[i].item.addend \in Int
         /\ items[i].item.when \in BOOLEAN
         /\ Size(i) \in Nat
<1>1. items[i] \in PlacedItem
  BY ElementOfSeq DEF IInv, TypeOK
<1>2. items[i].item \in Item
  BY <1>1 DEF PlacedItem
<1>. QED BY <1>2, SizeTypes DEF Item

LEMMA InCells ==
  ASSUME NEW i, addr[i] \in Nat, Size(i) \in Nat, NEW a \in Cells(i)
  PROVE  /\ a \in Int /\ addr[i] <= a /\ a < addr[i] + Size(i)
         /\ a - addr[i] + 1 \in 1..Size(i)
<1>. DEFINE x == addr[i]
            n == Size(i)
<1>1. x \in Nat /\ n \in Nat /\ a \in x..(x + n - 1)
  BY DEF Cells
<1>. HIDE DEF x, n
<1>2. a \in Int /\ x <= a /\ a < x + n /\ a - x + 1 \in 1..n
  BY <1>1
<1>. QED BY <1>2 DEF x, n

\* An item's code has as many cells as the layout gave it, and they bear its mark.
LEMMA CodeShape ==
  ASSUME IInv, NEW i \in 1..Len(items), NEW k \in 1..Size(i)
  PROVE  Code(i)[k].item = i
<1>0. items[i].item.kind \in Kinds /\ items[i].item.size \in Nat
  BY ItemTypes
<1>1. CASE items[i].item.kind = "words"
  BY <1>0, <1>1 DEF Size, Code, Cell
<1>2. CASE items[i].item.kind = "sym"
  BY <1>0, <1>2 DEF Size, Jumps
<1>3. CASE items[i].item.kind = "brel" /\ i \notin relaxed
  <2>1. Size(i) = 1 /\ k = 1
    BY <1>3 DEF Size, Jumps
  <2>. QED BY <1>3, <2>1 DEF Code, Cell
<1>4. CASE items[i].item.kind = "brel" /\ i \in relaxed
  <2>1. Size(i) = 4 /\ k \in 1..4
    BY <1>4 DEF Size, Jumps
  <2>. QED BY <1>4, <2>1 DEF Code, Cell, Jumps
<1>5. CASE items[i].item.kind = "imm12"
  <2>1. Size(i) = 1 /\ k = 1
    BY <1>5 DEF Size, Jumps
  <2>. QED BY <1>5, <2>1 DEF Code, Cell
<1>6. CASE items[i].item.kind = "li-imm12"
  <2>1. Size(i) = 2 /\ k \in 1..2
    BY <1>6 DEF Size, Jumps
  <2>. QED BY <1>6, <2>1 DEF Code, Cell
<1>7. CASE items[i].item.kind \in Jumps
  <2>1. Size(i) = 3 /\ k \in 1..3
    BY <1>7 DEF Size, Jumps
  <2>. QED BY <1>7, <2>1 DEF Code, Cell, Jumps
<1>8. CASE items[i].item.kind = "imm6-pc"
  <2>1. Size(i) = 1 /\ k = 1
    BY <1>8 DEF Size, Jumps
  <2>. QED BY <1>8, <2>1 DEF Code, Cell
<1>. QED BY <1>0, <1>1, <1>2, <1>3, <1>4, <1>5, <1>6, <1>7, <1>8 DEF Kinds, RelocKinds

\* What the emission reads stays as it is while it runs.
LEMMA LayoutFrame ==
  ASSUME UNCHANGED <<items, addr, relaxed>>
  PROVE  \A i : /\ Cells(i)' = Cells(i) /\ Code(i)' = Code(i)
                /\ Refers(i)' = Refers(i) /\ Undefined(i)' = Undefined(i)
<1>1. items' = items /\ addr' = addr /\ relaxed' = relaxed
  OBVIOUS
<1>2. \A i : Size(i)' = Size(i)
  BY <1>1 DEF Size
<1>3. \A i : Candidates(i)' = Candidates(i)
  BY <1>1 DEF Candidates, Defs, SameName
<1>4. \A i : Target(i)' = Target(i)
  <2>1. \A j : SymAddr(j)' = SymAddr(j)
    BY <1>1 DEF SymAddr
  <2>. QED BY <1>1, <1>3, <2>1, Zenon DEF Target
<1>5. \A i : Cells(i)' = Cells(i)
  BY <1>1, <1>2 DEF Cells
<1>6. \A i : Code(i)' = Code(i)
  BY <1>1, <1>2, <1>4 DEF Code, Cell
<1>7. \A i : Refers(i)' = Refers(i) /\ Undefined(i)' = Undefined(i)
  BY <1>1, <1>3 DEF Refers, Branches, Relocs, Undefined
<1>. QED BY <1>5, <1>6, <1>7

LEMMA ImageStep == IInv /\ ImageInv /\ [Next]_vars => ImageInv'
<1>. SUFFICES ASSUME IInv, ImageInv, [Next]_vars PROVE ImageInv'
  OBVIOUS
<1>0. items \in Seq(PlacedItem) /\ pos \in Nat \ {0} /\ Len(items) \in Nat
  BY LenProperties DEF IInv, TypeOK
<1>a. phase = "scan" => Len(addr) = Len(items)
  BY DEF IInv, PhaseInv
<1>1. CASE phase' = "failed"
  BY <1>1 DEF ImageInv, Emitting, Before
<1>2. CASE phase \in Before /\ phase' \in Before /\ image' = image
  BY <1>2 DEF ImageInv, Emitting, Before
<1>3. CASE Settle
  <2>1. /\ UNCHANGED <<items, addr, relaxed, image>>
        /\ phase' = "emit" /\ pos' = 1 /\ Len(addr) = Len(items) /\ DOMAIN image = {}
    BY <1>a, <1>3 DEF Settle, ImageInv, Before
  <2>. QED BY <1>0, <2>1 DEF ImageInv, Emitting, Emitted, Before
<1>4. CASE Emit
  <2>1. /\ UNCHANGED <<items, addr, relaxed, phase>> /\ phase = "emit" /\ pos' = pos + 1
        /\ pos \in 1..Len(items) /\ (Refers(pos) => ~Undefined(pos))
    BY <1>0, <1>4 DEF Emit
  <2>2. /\ DOMAIN image' = DOMAIN image \cup Cells(pos)
        /\ \A a \in DOMAIN image' :
             image'[a] = IF a \in Cells(pos) THEN Code(pos)[a - addr[pos] + 1] ELSE image[a]
    BY <1>4, Zenon DEF Emit
  <2>3. \A i : /\ Cells(i)' = Cells(i) /\ Code(i)' = Code(i)
               /\ Refers(i)' = Refers(i) /\ Undefined(i)' = Undefined(i)
    BY <2>1, LayoutFrame
  <2>4. \A i \in 1..Len(items) : Emitted(i)' <=> Emitted(i) \/ i = pos
    BY <1>0, <2>1 DEF Emitted
  <2>5. ASSUME NEW i \in 1..Len(items), Emitted(i)'
        PROVE  Cells(i)' \subseteq DOMAIN image' /\ (Refers(i)' => ~Undefined(i)')
    <3>1. CASE i = pos
      BY <2>1, <2>2, <2>3, <3>1
    <3>2. CASE i # pos
      BY <2>1, <2>2, <2>3, <2>4, <2>5, <3>2 DEF ImageInv, Emitting
    <3>. QED BY <3>1, <3>2
  <2>6. ASSUME NEW a \in DOMAIN image'
        PROVE  \E j \in 1..Len(items) : Emitted(j)' /\ Holds(a, j)'
    <3>1. CASE a \in Cells(pos)
      <4>1. PICK j \in 1..Len(items) : j = pos
        BY <2>1
      <4>2. image'[a] = Code(j)[a - addr[j] + 1] /\ a \in Cells(j)
        BY <2>2, <3>1, <4>1
      <4>3. Holds(a, j)'
        BY <2>1, <2>3, <4>2 DEF Holds
      <4>. QED BY <2>4, <4>1, <4>3
    <3>2. CASE a \notin Cells(pos)
      <4>1. a \in DOMAIN image /\ image'[a] = image[a]
        BY <2>2, <3>2
      <4>2. PICK j \in 1..Len(items) : Emitted(j) /\ Holds(a, j)
        BY <2>1, <4>1 DEF ImageInv, Emitting
      <4>3. Holds(a, j)'
        BY <2>1, <2>3, <4>1, <4>2 DEF Holds
      <4>. QED BY <2>4, <4>2, <4>3
    <3>. QED BY <3>1, <3>2
  <2>7. phase' = "emit" /\ Len(addr') = Len(items') /\ items' = items
    BY <2>1 DEF ImageInv, Emitting
  <2>. QED BY <2>5, <2>6, <2>7 DEF ImageInv, Emitting, Before
<1>5. CASE Finish /\ phase' = "done"
  <2>1. /\ UNCHANGED <<items, addr, relaxed, image, pos>> /\ phase = "emit" /\ pos > Len(items)
    BY <1>5, Zenon DEF Finish
  <2>2. \A i : /\ Cells(i)' = Cells(i) /\ Code(i)' = Code(i)
               /\ Refers(i)' = Refers(i) /\ Undefined(i)' = Undefined(i)
    BY <2>1, LayoutFrame
  <2>3. \A i \in 1..Len(items) : Emitted(i) /\ Emitted(i)'
    BY <1>0, <1>5, <2>1 DEF Emitted
  <2>4. \A a, j : Holds(a, j)' <=> Holds(a, j)
    BY <2>1, <2>2 DEF Holds
  <2>5. /\ Len(addr') = Len(items')
        /\ \A i \in 1..Len(items') :
             Cells(i)' \subseteq DOMAIN image' /\ (Refers(i)' => ~Undefined(i)')
        /\ \A a \in DOMAIN image' : \E j \in 1..Len(items') : Emitted(j)' /\ Holds(a, j)'
    BY <2>1, <2>2, <2>3, <2>4 DEF ImageInv, Emitting
  <2>. QED BY <1>5, <2>5 DEF ImageInv, Emitting, Before
<1>6. CASE UNCHANGED vars
  <2>1. UNCHANGED <<phase, items, addr, relaxed, image, pos>>
    BY <1>6 DEF vars
  <2>2. \A i : /\ Cells(i)' = Cells(i) /\ Code(i)' = Code(i)
               /\ Refers(i)' = Refers(i) /\ Undefined(i)' = Undefined(i)
    BY <2>1, LayoutFrame
  <2>3. /\ \A i : Emitted(i)' <=> Emitted(i)
        /\ \A a, j : Holds(a, j)' <=> Holds(a, j)
    BY <2>1, <2>2 DEF Holds, Emitted
  <2>. QED BY <2>1, <2>2, <2>3 DEF ImageInv, Emitting
<1>7. CASE Collect \/ Merge \/ Layout \/ Relax
  <2>1. phase \in Before /\ image' = image /\ phase' \in Before \cup {"failed"}
    BY <1>7, Zenon DEF Collect, Merge, Layout, Relax, Before
  <2>. QED BY <1>1, <1>2, <2>1
<1>8. CASE ScanFails \/ EmitFails
  BY <1>1, <1>8 DEF ScanFails, EmitFails, Fail
<1>9. CASE Finish
  <2>1. phase' \in {"done", "failed"}
    BY <1>9, Zenon DEF Finish
  <2>. QED BY <1>1, <1>5, <1>9, <2>1
<1>. QED BY <1>3, <1>4, <1>6, <1>7, <1>8, <1>9 DEF Next

LEMMA ImageAlways == Spec => [](IInv /\ ImageInv)
<1>1. Init => ImageInv
  BY DEF Init, ImageInv, Before, Emitting
<1>. QED BY <1>1, InitInv, StepInv, ImageStep, PTL DEF Spec
-----------------------------------------------------------------------------
\* An item whose cells bear its mark has its own code at its address.
LEMMA IntactCode ==
  ASSUME IInv, ImageInv, phase = "done", NEW i \in 1..Len(items), Intact(i),
         NEW k \in 1..Size(i)
  PROVE  image[addr[i] + k - 1] = Code(i)[k]
<1>. DEFINE a == addr[i] + (k - 1)
<1>1. addr[i] \in Nat /\ Size(i) \in Nat
  BY ItemTypes, ElementOfSeq DEF IInv, TypeOK, ImageInv, Emitting
<1>2. a \in Cells(i) /\ a - addr[i] + 1 = k
  BY <1>1 DEF Cells
<1>3. a \in DOMAIN image
  BY <1>2 DEF ImageInv, Emitting, Emitted
<1>4. PICK j \in 1..Len(items) : Holds(a, j)
  BY <1>3 DEF ImageInv, Emitting
<1>5. addr[j] \in Nat /\ Size(j) \in Nat
  BY ItemTypes, ElementOfSeq DEF IInv, TypeOK, ImageInv, Emitting
<1>6. a - addr[j] + 1 \in 1..Size(j)
  BY <1>4, <1>5, InCells DEF Holds
<1>. HIDE DEF a
<1>7. image[a].item = j
  BY <1>4, <1>6, CodeShape DEF Holds
<1>8. j = i
  BY <1>2, <1>7 DEF Intact
<1>9. image[a] = Code(i)[k]
  BY <1>2, <1>4, <1>8 DEF Holds
<1>. QED BY <1>1, <1>9 DEF a

\* What a reference resolves to is what its author means, if anything is.
LEMMA TargetIsMeant ==
  ASSUME IInv, ImageInv, phase = "done", NEW r \in 1..Len(items), Refers(r)
  PROVE  /\ Target(r) \in Int
         /\ Meant(r) # {} => Target(r) % Space \in Wanted(r)
<1>1. Candidates(r) # {}
  BY DEF ImageInv, Emitting, Emitted, Undefined
<1>2. PICK j \in Candidates(r) : Target(r) = SymAddr(j) + items[r].item.addend
  BY <1>1, Zenon DEF Target
<1>3. j \in 1..Len(items)
  BY DEF Candidates, Defs
<1>4. SymAddr(j) \in Int
  <2>1. addr[j] \in Nat
    BY <1>3, ElementOfSeq DEF IInv, TypeOK, ImageInv, Emitting
  <2>2. items[j].item.offset \in Int
    BY <1>3, ItemTypes DEF Item, NoOffset
  <2>. QED BY <2>1, <2>2, BaseType DEF SymAddr
<1>5. Target(r) \in Int
  BY <1>2, <1>4, ItemTypes
<1>6. Meant(r) # {} => j \in Meant(r)
  BY DEF Meant, Candidates
<1>. QED BY <1>2, <1>5, <1>6 DEF Wanted

\* Two immediates make an address: lui loads the upper, addi adds the lower.
LEMMA HighLow ==
  ASSUME NEW t \in Int
  PROVE  High(t) * Imm + Low(t) = t % Space
<1>. DEFINE r == t % Space
            q == t \div Space
            h == r \div Imm
            l == r % Imm
            p == t \div Imm
            m == t % Imm
            d == q * Imm + h
<1>0. Imm \in Nat /\ Imm > 4 /\ Space \in Nat /\ Space > 0
  <2>1. Imm \in Nat /\ Imm > 4
    BY ImmAssumption
  <2>2. Imm * Imm \in Nat /\ Imm * Imm > 0
    BY <2>1
  <2>. QED BY <2>1, <2>2 DEF Space
<1>1. r \in Nat /\ q \in Int /\ t = q * Space + r
  BY <1>0
<1>. HIDE DEF r, q
<1>2. h \in Nat /\ l \in Nat /\ l < Imm /\ r = h * Imm + l
  BY <1>0, <1>1
<1>3. p \in Int /\ m \in Nat /\ m < Imm /\ t = p * Imm + m
  BY <1>0
<1>. HIDE DEF h, l, p, m
<1>4. q * Space = (q * Imm) * Imm
  BY <1>0, <1>1 DEF Space
<1>5. d \in Int /\ d * Imm = (q * Imm) * Imm + h * Imm
  BY <1>0, <1>1, <1>2
<1>. HIDE DEF d
<1>6. d * Imm + l = p * Imm + m
  BY <1>0, <1>1, <1>2, <1>3, <1>4, <1>5
<1>7. (d - p) * Imm = m - l
  BY <1>0, <1>2, <1>3, <1>5, <1>6
<1>8. d = p
  <2>. DEFINE e == d - p
  <2>1. e \in Int /\ e * Imm = m - l
    BY <1>3, <1>5, <1>7
  <2>. HIDE DEF e
  <2>2. e > 0 => e * Imm >= Imm
    BY <1>0, <2>1
  <2>3. e < 0 => e * Imm <= -Imm
    BY <1>0, <2>1
  <2>4. e = 0
    BY <1>0, <1>2, <1>3, <2>1, <2>2, <2>3
  <2>. QED BY <1>3, <1>5, <2>4 DEF e
<1>9. l = m
  BY <1>0, <1>2, <1>3, <1>5, <1>6, <1>8
<1>. QED BY <1>2, <1>9 DEF High, Low, h, l, m, r

LEMMA BranchOps ==
  /\ BranchOp(TRUE) = "bt" /\ BranchOp(FALSE) = "bf"
  /\ \A w \in BOOLEAN : BranchOp(w) # BranchOp(~w) /\ BranchOp(~~w) = BranchOp(w)
BY DEF BranchOp

LEMMA BranchGoes ==
  ASSUME IInv, ImageInv, phase = "done", NEW i \in Branches, Intact(i), Meant(i) # {}
  PROVE  /\ Goes(i, items[i].item.when) \in Wanted(i)
         /\ Goes(i, ~items[i].item.when) = (addr[i] + Size(i)) % Space
<1>. DEFINE w == items[i].item.when
            t == Target(i)
            a == addr[i]
<1>1. i \in 1..Len(items) /\ items[i].item.kind = "brel" /\ Refers(i)
  BY DEF Branches, Refers
<1>2. w \in BOOLEAN /\ t \in Int /\ t % Space \in Wanted(i) /\ a \in Nat
  BY <1>1, ItemTypes, TargetIsMeant, ElementOfSeq DEF IInv, TypeOK, ImageInv, Emitting
<1>3. CASE i \notin relaxed
  <2>1. Size(i) = 1 /\ Code(i) = <<Cell(i, BranchOp(w), t - a)>>
    BY <1>1, <1>3 DEF Size, Code, Jumps
  <2>2. image[a] = Cell(i, BranchOp(w), t - a)
    <3>1. image[a + 1 - 1] = Code(i)[1]
      BY <1>1, <2>1, IntactCode
    <3>. QED BY <1>2, <2>1, <3>1
  <2>3. image[a].op = BranchOp(w) /\ image[a].arg = t - a
    BY <2>2 DEF Cell
  <2>. HIDE DEF w, t, a
  <2>4. Goes(i, w) = t % Space
    BY <1>2, <2>1, <2>3 DEF Goes, a
  <2>5. Goes(i, ~w) = (a + 1) % Space
    BY <1>2, <2>1, <2>3, BranchOps DEF Goes, a
  <2>. QED BY <1>2, <2>1, <2>4, <2>5 DEF w, a
<1>4. CASE i \in relaxed
  <2>1. /\ Size(i) = 4
        /\ Code(i) = <<Cell(i, BranchOp(~w), 4), Cell(i, "lui", High(t)),
                       Cell(i, "addi", Low(t)), Cell(i, "jalr", 0)>>
    BY <1>1, <1>4 DEF Size, Code, Jumps
  <2>2. /\ image[a] = Cell(i, BranchOp(~w), 4)
        /\ image[a + 1] = Cell(i, "lui", High(t))
        /\ image[a + 2] = Cell(i, "addi", Low(t))
    <3>1. /\ image[a + 1 - 1] = Code(i)[1] /\ image[a + 2 - 1] = Code(i)[2]
          /\ image[a + 3 - 1] = Code(i)[3]
      BY <1>1, <2>1, IntactCode
    <3>2. a + (1 - 1) = a /\ a + (2 - 1) = a + 1 /\ a + (3 - 1) = a + 2
      BY <1>2
    <3>. QED BY <1>2, <2>1, <3>1, <3>2
  <2>3. /\ image[a].op = BranchOp(~w) /\ image[a].arg = 4
        /\ image[a + 1].arg = High(t) /\ image[a + 2].arg = Low(t)
    BY <2>2 DEF Cell
  <2>4. High(t) * Imm + Low(t) = t % Space
    BY <1>2, HighLow
  <2>. HIDE DEF w, t, a
  <2>5. Goes(i, w) = t % Space
    <3>1. a + 1 + 1 = a + 2
      BY <1>2
    <3>. QED BY <1>2, <2>1, <2>3, <2>4, <3>1, BranchOps DEF Goes, a
  <2>6. Goes(i, ~w) = (a + 4) % Space
    BY <1>2, <2>1, <2>3, BranchOps DEF Goes, a
  <2>. QED BY <1>2, <2>1, <2>5, <2>6 DEF w, a
<1>. QED BY <1>3, <1>4

\* Every branch of a linked image, short or grown, goes to its target when its
\* condition holds and to the word after it when not.
THEOREM BranchesGoRight == Spec => []BranchesReach
<1>1. IInv /\ ImageInv => BranchesReach
  BY BranchGoes DEF BranchesReach
<1>. QED BY <1>1, ImageAlways, PTL

LEMMA RelocBinds ==
  ASSUME IInv, ImageInv, phase = "done", NEW i \in Relocs, Intact(i), Meant(i) # {}
  PROVE  CASE image[addr[i]].op = "value" -> image[addr[i]].arg \in Wanted(i)
           [] image[addr[i]].op = "pc" -> (addr[i] + image[addr[i]].arg) % Space \in Wanted(i)
           [] image[addr[i]].op = "lui" ->
                image[addr[i]].arg * Imm + image[addr[i] + 1].arg \in Wanted(i)
<1>. DEFINE t == Target(i)
            a == addr[i]
            kind == items[i].item.kind
<1>1. /\ i \in 1..Len(items) /\ Refers(i)
      /\ kind \in RelocKinds
  BY DEF Relocs, Refers
<1>2. t \in Int /\ t % Space \in Wanted(i) /\ a \in Nat
  BY <1>1, TargetIsMeant, ElementOfSeq DEF IInv, TypeOK, ImageInv, Emitting
<1>3. Space \in Nat /\ Space > 0
  <2>1. Imm \in Nat /\ Imm > 4
    BY ImmAssumption
  <2>. QED BY <2>1 DEF Space
<1>4. Size(i) >= 1 => image[a] = Code(i)[1]
  <2>1. Size(i) \in Nat
    BY <1>1, ItemTypes
  <2>2. Size(i) >= 1 => image[a + 1 - 1] = Code(i)[1]
    BY <1>1, <2>1, IntactCode
  <2>. QED BY <1>2, <2>2
<1>5. CASE kind = "imm12"
  <2>1. Size(i) = 1 /\ Code(i)[1] = Cell(i, "value", t % Space)
    BY <1>5 DEF Size, Code, Jumps
  <2>2. image[a].op = "value" /\ image[a].arg = t % Space
    BY <1>4, <2>1 DEF Cell
  <2>. QED BY <1>2, <2>2
<1>6. CASE kind \in {"li-imm12"} \cup Jumps
  <2>1. Size(i) >= 2 /\ Size(i) \in Nat
    BY <1>6 DEF Size, Jumps
  <2>2. Code(i)[1] = Cell(i, "lui", High(t)) /\ Code(i)[2] = Cell(i, "addi", Low(t))
    BY <1>6 DEF Code, Jumps
  <2>3. image[a + 2 - 1] = Code(i)[2] /\ a + (2 - 1) = a + 1
    BY <1>1, <1>2, <2>1, IntactCode
  <2>4. image[a].op = "lui" /\ image[a].arg = High(t) /\ image[a + 1].arg = Low(t)
    BY <1>4, <2>1, <2>2, <2>3 DEF Cell
  <2>5. image[a].arg * Imm + image[a + 1].arg = t % Space
    BY <1>2, <2>4, HighLow
  <2>. QED BY <1>2, <2>4, <2>5
<1>7. CASE kind = "imm6-pc"
  <2>1. Size(i) = 1 /\ Code(i)[1] = Cell(i, "pc", (t % Space) - a)
    BY <1>7 DEF Size, Code, Jumps
  <2>2. image[a].op = "pc" /\ image[a].arg = (t % Space) - a
    BY <1>4, <2>1 DEF Cell
  <2>3. (a + image[a].arg) % Space = t % Space
    <3>. DEFINE v == t % Space
    <3>1. v \in 0..(Space - 1)
      BY <1>2, <1>3
    <3>2. a + (v - a) = v /\ v % Space = v
      <4>. HIDE DEF v
      <4>. QED BY <1>2, <1>3, <3>1
    <3>. QED BY <2>2, <3>2
  <2>. QED BY <1>2, <2>2, <2>3
<1>. QED BY <1>1, <1>5, <1>6, <1>7 DEF RelocKinds

\* Every relocated word of a linked image stands for its symbol's address in
\* that image, whatever the rounds before it had laid out.
THEOREM RelocationsBind == Spec => []RelocsBind
<1>1. IInv /\ ImageInv => RelocsBind
  BY RelocBinds DEF RelocsBind
<1>. QED BY <1>1, ImageAlways, PTL
-----------------------------------------------------------------------------
\* The sections of the merged items come in the order of their names, which
\* holds every name once.
Distinct(s) == \A m, n \in 1..Len(s) : s[m] = s[n] => m = n
MergeInv ==
  /\ Distinct(order)
  /\ phase = "collect" => items = <<>>
  /\ \A i \in 1..Len(items) : \E m \in 1..Len(order) : m <= sec /\ items[i].section = order[m]
  /\ \A i, j \in 1..Len(items) : \A m, n \in 1..Len(order) :
       i < j /\ items[i].section = order[m] /\ items[j].section = order[n] => m <= n

\* What is laid out of one section lies in the order of its items, apart.
Apart(i, j) == items[i].section = items[j].section => addr[i] + Size(i) <= addr[j]
LaidInv ==
  /\ phase = "layout" /\ addr # <<>> => cursor = addr[Len(addr)] + Size(Len(addr))
  /\ phase \in {"layout", "scan", "emit", "done"} =>
       \A i, j \in 1..Len(addr) : i < j => Apart(i, j)

LEMMA Contiguous ==
  ASSUME IInv, MergeInv, NEW i \in 1..Len(items), NEW j \in 1..Len(items), i < j,
         items[i].section = items[j].section
  PROVE  items[j - 1].section = items[j].section
<1>0. Len(items) \in Nat /\ Len(order) \in Nat
  BY LenProperties DEF IInv, TypeOK
<1>1. PICK k \in 1..Len(items) : k = j - 1
  BY <1>0
<1>2. PICK m \in 1..Len(order) : items[j].section = order[m]
  BY DEF MergeInv
<1>3. PICK n \in 1..Len(order) : items[k].section = order[n]
  BY DEF MergeInv
<1>. DEFINE Sorted(x, y, p, q) ==
              x < y /\ items[x].section = order[p] /\ items[y].section = order[q] => p <= q
<1>a. \A x, y \in 1..Len(items) : \A p, q \in 1..Len(order) : Sorted(x, y, p, q)
  BY DEF MergeInv
<1>. HIDE DEF Sorted
<1>4. n <= m
  <2>1. k < j
    BY <1>0, <1>1
  <2>2. Sorted(k, j, n, m)
    BY <1>a
  <2>. QED BY <1>2, <1>3, <2>1, <2>2 DEF Sorted
<1>5. m <= n
  <2>1. CASE i = k
    BY <1>2, <1>3, <2>1 DEF MergeInv, Distinct
  <2>2. CASE i < k
    <3>1. Sorted(i, k, m, n)
      BY <1>a
    <3>. QED BY <1>2, <1>3, <2>2, <3>1 DEF Sorted
  <2>. QED BY <1>1, <2>1, <2>2
<1>. QED BY <1>1, <1>2, <1>3, <1>4, <1>5

LEMMA MergeStep == IInv /\ MergeInv /\ [Next]_vars => MergeInv'
<1>. SUFFICES ASSUME IInv, MergeInv, [Next]_vars PROVE MergeInv'
  OBVIOUS
<1>0. /\ items \in Seq(PlacedItem) /\ order \in Seq(STRING)
      /\ pos \in Nat \ {0} /\ sec \in Nat \ {0}
      /\ Len(items) \in Nat /\ Len(order) \in Nat
  BY LenProperties DEF IInv, TypeOK
<1>1. CASE UNCHANGED <<order, items>> /\ sec' >= sec /\ sec' \in Nat /\ phase' # "collect"
  BY <1>0, <1>1 DEF MergeInv, Distinct
<1>2. CASE Collect
  <2>1. phase = "collect" /\ items = <<>> /\ items' = <<>> /\ Len(items') = 0
    BY <1>2 DEF Collect, MergeInv
  <2>2. Distinct(order)'
    <3>1. CASE order' = order
      BY <3>1 DEF MergeInv, Distinct
    <3>2. CASE order' # order
      <4>1. PICK s : order' = Append(order, s) /\ \A k \in 1..Len(order) : order[k] # s
        BY <1>2, <3>2 DEF Collect
      <4>. DEFINE o == order'
      <4>2. /\ Len(o) = Len(order) + 1
            /\ \A k \in 1..Len(o) : o[k] = IF k <= Len(order) THEN order[k] ELSE s
        BY <1>0, <4>1
      <4>. HIDE DEF o
      <4>3. ASSUME NEW m \in 1..Len(o), NEW n \in 1..Len(o), o[m] = o[n] PROVE m = n
        <5>1. \A k \in 1..Len(o) :
                \/ k \in 1..Len(order) /\ o[k] = order[k] /\ o[k] # s
                \/ k = Len(order) + 1 /\ o[k] = s
          BY <1>0, <4>1, <4>2
        <5>2. CASE m \in 1..Len(order) /\ n \in 1..Len(order)
          BY <4>3, <5>1, <5>2, <1>0 DEF MergeInv, Distinct
        <5>. QED BY <4>3, <5>1, <5>2
      <4>4. Distinct(o)
        BY <4>3 DEF Distinct
      <4>. QED BY <4>4 DEF Distinct, o
    <3>. QED BY <3>1, <3>2
  <2>. QED BY <2>1, <2>2 DEF MergeInv
<1>3. CASE Merge
  <2>1. phase = "merge" /\ order' = order /\ phase' # "collect"
    BY <1>3 DEF Merge
  <2>2. CASE items' = items
    BY <1>1, <1>3, <2>1, <2>2, <1>0 DEF Merge
  <2>3. CASE items' # items
    <3>1. /\ sec \in 1..Len(order) /\ pos <= Len(job) /\ job[pos].section = order[sec]
          /\ items' = items \o Placed(job[pos]) /\ sec' = sec
      BY <1>0, <1>3, <2>3 DEF Merge
    <3>. DEFINE p == Placed(job[pos])
    <3>2. p \in Seq(PlacedItem) /\ \A k \in 1..Len(p) : p[k].section = order[sec]
      <4>1. p \in Seq(PlacedItem) /\ job[pos].items \in Seq(Item)
        BY <1>0, <3>1, JobTypes
      <4>2. \A k \in 1..Len(p) : p[k].section = job[pos].section
        BY <4>1 DEF Placed
      <4>. QED BY <3>1, <4>1, <4>2
    <3>. HIDE DEF p
    <3>3. Len(p) \in Nat
      BY <3>2
    <3>4. /\ Len(items \o p) = Len(items) + Len(p)
          /\ \A k \in 1..Len(items) + Len(p) :
               (items \o p)[k] = IF k <= Len(items) THEN items[k] ELSE p[k - Len(items)]
      BY <1>0, <3>2, ConcatProperties
    <3>5. \A k \in 1..Len(items') :
            \/ k \in 1..Len(items) /\ items'[k] = items[k]
            \/ k > Len(items) /\ items'[k].section = order[sec]
      <4>1. items' = items \o p /\ Len(items') = Len(items) + Len(p)
        BY <3>1, <3>4 DEF p
      <4>2. ASSUME NEW k \in 1..Len(items) + Len(p), k > Len(items)
            PROVE  (items \o p)[k].section = order[sec]
        <5>1. k - Len(items) \in 1..Len(p) /\ ~(k <= Len(items))
          BY <1>0, <3>3, <4>2
        <5>. QED BY <3>2, <3>4, <5>1
      <4>3. ASSUME NEW k \in 1..Len(items) + Len(p), ~(k > Len(items))
            PROVE  k \in 1..Len(items) /\ (items \o p)[k] = items[k]
        <5>1. k \in 1..Len(items) /\ k <= Len(items)
          BY <1>0, <3>3, <4>3
        <5>. QED BY <3>4, <5>1
      <4>. QED BY <4>1, <4>2, <4>3
    <3>6. ASSUME NEW i \in 1..Len(items')
          PROVE  \E m \in 1..Len(order) : m <= sec /\ items'[i].section = order[m]
      <4>1. CASE i \in 1..Len(items) /\ items'[i] = items[i]
        BY <4>1 DEF MergeInv
      <4>2. CASE items'[i].section = order[sec]
        BY <1>0, <3>1, <4>2
      <4>. QED BY <3>5, <4>1, <4>2
    <3>7. ASSUME NEW i \in 1..Len(items'), NEW j \in 1..Len(items'),
                 NEW m \in 1..Len(order), NEW n \in 1..Len(order),
                 i < j, items'[i].section = order[m], items'[j].section = order[n]
          PROVE  m <= n
      <4>1. CASE j <= Len(items)
        <5>1. /\ i \in 1..Len(items) /\ items'[i] = items[i]
              /\ j \in 1..Len(items) /\ items'[j] = items[j]
          BY <1>0, <3>1, <3>4, <3>5, <3>7, <4>1 DEF p
        <5>. QED BY <3>7, <5>1 DEF MergeInv
      <4>2. CASE j > Len(items)
        <5>1. items'[j].section = order[sec]
          BY <1>0, <3>5, <4>2
        <5>2. n = sec
          BY <3>1, <3>7, <5>1 DEF MergeInv, Distinct
        <5>3. m <= sec
          BY <3>6, <3>7 DEF MergeInv, Distinct
        <5>. QED BY <5>2, <5>3
      <4>3. j \in Nat
        BY <1>0, <3>1, <3>3, <3>4 DEF p
      <4>. QED BY <1>0, <4>1, <4>2, <4>3
    <3>8. Distinct(order)' /\ order' = order /\ sec' = sec
      BY <2>1, <3>1 DEF MergeInv, Distinct
    <3>. QED BY <2>1, <3>6, <3>7, <3>8 DEF MergeInv
  <2>. QED BY <2>2, <2>3
<1>4. CASE Layout \/ Relax \/ Settle \/ Emit \/ Finish \/ ScanFails \/ EmitFails
  <2>1. UNCHANGED <<order, items, sec>> /\ phase' # "collect"
    BY <1>4, Zenon DEF Layout, Relax, Settle, Emit, Finish, ScanFails, EmitFails, Fail
  <2>. QED BY <1>0, <1>1, <2>1
<1>5. CASE UNCHANGED vars
  BY <1>5 DEF vars, MergeInv, Distinct
<1>. QED BY <1>2, <1>3, <1>4, <1>5 DEF Next

LEMMA LaidStep == IInv /\ MergeInv /\ LaidInv /\ [Next]_vars => LaidInv'
<1>. SUFFICES ASSUME IInv, MergeInv, LaidInv, [Next]_vars PROVE LaidInv'
  OBVIOUS
<1>0. /\ items \in Seq(PlacedItem) /\ addr \in Seq(Nat) /\ cursor \in Nat /\ pos \in Nat \ {0}
      /\ Len(items) \in Nat /\ Len(addr) \in Nat
  BY LenProperties DEF IInv, TypeOK
<1>1. CASE phase' \in {"collect", "merge", "failed"}
  BY <1>1 DEF LaidInv
<1>2. CASE addr' = <<>>
  <2>1. Len(addr') = 0
    BY <1>2
  <2>. QED BY <1>2, <2>1 DEF LaidInv
<1>3. ASSUME UNCHANGED <<items, relaxed>> PROVE \A i : Size(i)' = Size(i)
  BY <1>3 DEF Size
<1>4. CASE /\ UNCHANGED <<items, relaxed, addr>> /\ phase \in {"layout", "scan", "emit", "done"}
           /\ phase' # "layout"
  BY <1>3, <1>4 DEF LaidInv, Apart
<1>5. CASE Collect \/ Merge
  <2>1. addr' = addr /\ addr = <<>>
    BY <1>5 DEF Collect, Merge, IInv, PhaseInv
  <2>. QED BY <1>2, <2>1
<1>6. CASE Layout
  <2>1. /\ UNCHANGED <<items, relaxed>> /\ phase = "layout"
        /\ pos = Len(addr) + 1 /\ Len(addr) <= Len(items)
    BY <1>6 DEF Layout, IInv, PhaseInv
  <2>2. CASE ~(pos <= Len(items))
    BY <1>4, <1>6, <2>1, <2>2 DEF Layout
  <2>3. CASE pos <= Len(items)
    <3>1. PICK at : /\ at = IF StartsSection(pos) THEN SectionBase(items[pos].section) ELSE cursor
                    /\ addr' = Append(addr, at) /\ cursor' = at + Size(pos)
                    /\ phase' = phase
      BY <1>6, <2>3, Zenon DEF Layout
    <3>2. at \in Nat
      BY <1>0, <3>1, BaseType
    <3>. DEFINE new == addr'
    <3>3. /\ new \in Seq(Nat) /\ Len(new) = pos
          /\ new[pos] = at /\ \A i \in 1..Len(addr) : new[i] = addr[i]
      BY <1>0, <2>1, <3>1, <3>2
    <3>. HIDE DEF new
    <3>4. cursor' = new[Len(new)] + Size(Len(new))
      BY <3>1, <3>3
    <3>5. ASSUME NEW i \in 1..Len(new), NEW j \in 1..Len(new), i < j,
                 items[i].section = items[j].section
          PROVE  new[i] + Size(i) <= new[j]
      <4>1. CASE j # pos
        <5>1. i \in 1..Len(addr) /\ j \in 1..Len(addr)
          BY <1>0, <2>1, <3>3, <3>5, <4>1, SMTT(60)
        <5>2. addr[i] + Size(i) <= addr[j]
          BY <2>1, <3>5, <5>1 DEF LaidInv, Apart
        <5>. QED BY <3>3, <5>1, <5>2
      <4>2. CASE j = pos
        <5>1. PICK k \in 1..Len(items) : k = Len(addr) /\ k \in 1..Len(addr) /\ i <= k
          BY <1>0, <2>1, <3>3, <3>5, <4>2
        <5>2. i \in 1..Len(items) /\ j \in 1..Len(items) /\ k = j - 1 /\ i \in 1..Len(addr)
          BY <1>0, <2>1, <2>3, <3>3, <3>5, <4>2, <5>1
        <5>3. items[k].section = items[j].section
          BY <3>5, <5>2, Contiguous
        <5>4. at = addr[k] + Size(k)
          <6>1. ~StartsSection(pos)
            BY <1>0, <2>1, <4>2, <5>1, <5>2, <5>3 DEF StartsSection
          <6>2. addr # <<>> 
            BY <5>1
          <6>. QED BY <2>1, <3>1, <5>1, <6>1, <6>2 DEF LaidInv
        <5>5. addr[k] \in Nat /\ Size(k) \in Nat /\ addr[i] \in Nat /\ Size(i) \in Nat
          BY <1>0, <5>1, <5>2, ItemTypes, ElementOfSeq
        <5>6. addr[i] + Size(i) <= at
          <6>1. CASE i = k
            BY <5>4, <5>5, <6>1
          <6>2. CASE i < k
            <7>1. addr[i] + Size(i) <= addr[k]
              BY <2>1, <3>5, <5>1, <5>2, <5>3, <6>2 DEF LaidInv, Apart
            <7>. QED BY <3>2, <5>4, <5>5, <7>1
          <6>. QED BY <5>1, <5>2, <6>1, <6>2
        <5>. QED BY <3>3, <4>2, <5>2, <5>6
      <4>. QED BY <4>1, <4>2
    <3>6. \A i : Size(i)' = Size(i)
      BY <1>3, <2>1
    <3>. QED BY <2>1, <3>4, <3>5, <3>6 DEF LaidInv, Apart, new
  <2>. QED BY <2>2, <2>3
<1>7. CASE Relax
  BY <1>2, <1>7 DEF Relax
<1>8. CASE Settle \/ Emit
  <2>1. /\ UNCHANGED <<items, relaxed, addr>> /\ phase \in {"scan", "emit"} /\ phase' = "emit"
    BY <1>8, Zenon DEF Settle, Emit
  <2>. QED BY <1>4, <2>1
<1>9. CASE Finish
  <2>1. /\ UNCHANGED <<items, relaxed, addr>> /\ phase = "emit" /\ phase' \in {"done", "failed"}
    BY <1>9, Zenon DEF Finish
  <2>. QED BY <1>4, <2>1
<1>10. CASE ScanFails \/ EmitFails
  BY <1>1, <1>10 DEF ScanFails, EmitFails, Fail
<1>11. CASE UNCHANGED vars
  BY <1>3, <1>11 DEF vars, LaidInv, Apart
<1>. QED BY <1>5, <1>6, <1>7, <1>8, <1>9, <1>10, <1>11 DEF Next

\* The code of one section is never overwritten by code of the same section:
\* however the branches grew, its items were laid out one behind the other.
THEOREM SectionsWhole == Spec => []SectionsStayWhole
<1>1. ASSUME IInv, ImageInv, LaidInv, phase = "done", NEW i \in 1..Len(items), NEW a \in Cells(i),
             image[a].item # i
      PROVE  items[image[a].item].section # items[i].section
  <2>0. addr \in Seq(Nat) /\ Len(addr) = Len(items)
    BY <1>1 DEF IInv, TypeOK, ImageInv, Emitting
  <2>1. PICK j \in 1..Len(items) : Holds(a, j)
    BY <1>1 DEF ImageInv, Emitting, Emitted
  <2>2. /\ addr[i] \in Nat /\ Size(i) \in Nat /\ addr[j] \in Nat /\ Size(j) \in Nat
    BY <1>1, <2>0, ItemTypes, ElementOfSeq
  <2>3. /\ a \in Int /\ addr[i] <= a /\ a < addr[i] + Size(i)
        /\ addr[j] <= a /\ a < addr[j] + Size(j) /\ a - addr[j] + 1 \in 1..Size(j)
    BY <1>1, <2>1, <2>2, InCells DEF Holds
  <2>4. image[a].item = j
    BY <1>1, <2>1, <2>3, CodeShape DEF Holds
  <2>5. ASSUME items[j].section = items[i].section PROVE FALSE
    <3>2. CASE i < j
      <4>1. addr[i] + Size(i) <= addr[j]
        BY <1>1, <2>0, <2>5, <3>2 DEF LaidInv, Apart
      <4>. QED BY <2>2, <2>3, <4>1, SMTT(60)
    <3>3. CASE j < i
      <4>1. addr[j] + Size(j) <= addr[i]
        BY <1>1, <2>0, <2>5, <3>3 DEF LaidInv, Apart
      <4>. QED BY <2>2, <2>3, <4>1, SMTT(60)
    <3>. QED BY <1>1, <2>4, <3>2, <3>3
  <2>. QED BY <2>4, <2>5
<1>2. IInv /\ ImageInv /\ LaidInv => SectionsStayWhole
  BY <1>1 DEF SectionsStayWhole
<1>3. Init => MergeInv /\ LaidInv
  BY DEF Init, MergeInv, LaidInv, Distinct
<1>. QED BY <1>2, <1>3, ImageAlways, MergeStep, LaidStep, PTL DEF Spec

-----------------------------------------------------------------------------
(* Relaxation. *)

\* The addresses laid out in this round are the sums of the sizes before them.
SummedInv ==
  phase \in {"layout", "scan", "emit", "done"} =>
    \A i \in 1..Len(addr) :
      addr[i] = IF StartsSection(i) THEN SectionBase(items[i].section)
                ELSE addr[i - 1] + Size(i - 1)

\* Every set of branches whose growth is enough includes what has been grown.
LeastInv ==
  OneSection /\ PlainLabels =>
    \A R \in SUBSET Branches : Suffices(R) => relaxed \subseteq R

LEMMA SummedStep == IInv /\ LaidInv /\ SummedInv /\ [Next]_vars => SummedInv'
<1>. SUFFICES ASSUME IInv, LaidInv, SummedInv, [Next]_vars PROVE SummedInv'
  OBVIOUS
<1>0. addr \in Seq(Nat) /\ Len(addr) \in Nat /\ Len(items) \in Nat /\ pos \in Nat \ {0} /\ cursor \in Nat
  BY LenProperties DEF IInv, TypeOK
<1>1. CASE phase' \in {"collect", "merge", "failed"}
  BY <1>1 DEF SummedInv
<1>2. CASE addr' = <<>>
  <2>1. Len(addr') = 0
    BY <1>2
  <2>. QED BY <1>2, <2>1 DEF SummedInv
<1>3. ASSUME UNCHANGED <<items, relaxed>>
      PROVE  \A i : Size(i)' = Size(i) /\ StartsSection(i)' = StartsSection(i)
  BY <1>3 DEF Size, StartsSection
<1>4. CASE /\ UNCHANGED <<items, relaxed, addr>> /\ phase \in {"layout", "scan", "emit", "done"}
  <2>1. \A i : Size(i)' = Size(i) /\ StartsSection(i)' = StartsSection(i)
    BY <1>3, <1>4
  <2>. QED BY <1>4, <2>1 DEF SummedInv
<1>5. CASE Collect \/ Merge
  <2>1. addr' = addr /\ addr = <<>>
    BY <1>5 DEF Collect, Merge, IInv, PhaseInv
  <2>. QED BY <1>2, <2>1
<1>6. CASE Layout
  <2>1. /\ UNCHANGED <<items, relaxed>> /\ phase = "layout"
        /\ pos = Len(addr) + 1 /\ Len(addr) <= Len(items)
    BY <1>6 DEF Layout, IInv, PhaseInv
  <2>2. CASE ~(pos <= Len(items))
    BY <1>4, <1>6, <2>1, <2>2 DEF Layout
  <2>3. CASE pos <= Len(items)
    <3>1. PICK at : /\ at = IF StartsSection(pos) THEN SectionBase(items[pos].section) ELSE cursor
                    /\ addr' = Append(addr, at)
      BY <1>6, <2>3, Zenon DEF Layout
    <3>2. at \in Nat
      BY <1>0, <3>1, BaseType
    <3>. DEFINE new == addr'
    <3>3. /\ new \in Seq(Nat) /\ Len(new) = pos
          /\ new[pos] = at /\ \A i \in 1..Len(addr) : new[i] = addr[i]
      BY <1>0, <2>1, <3>1, <3>2
    <3>. HIDE DEF new
    <3>4. ASSUME NEW i \in 1..Len(new)
          PROVE  new[i] = IF StartsSection(i) THEN SectionBase(items[i].section)
                          ELSE new[i - 1] + Size(i - 1)
      <4>1. CASE i = pos
        <5>1. CASE StartsSection(i)
          BY <3>1, <3>3, <4>1, <5>1
        <5>2. CASE ~StartsSection(i)
          <6>1. i # 1
            BY <5>2 DEF StartsSection
          <6>2. addr # <<>> /\ i - 1 = Len(addr) /\ i - 1 \in 1..Len(addr)
            BY <1>0, <2>1, <4>1, <6>1
          <6>3. cursor = addr[i - 1] + Size(i - 1)
            BY <2>1, <6>2 DEF LaidInv
          <6>. QED BY <3>1, <3>3, <4>1, <5>2, <6>2, <6>3
        <5>. QED BY <5>1, <5>2
      <4>2. CASE i # pos
        <5>1. i \in 1..Len(addr) /\ (i = 1 \/ i - 1 \in 1..Len(addr))
          BY <1>0, <2>1, <3>3, <4>2
        <5>2. i = 1 => StartsSection(i)
          BY DEF StartsSection
        <5>. QED BY <2>1, <3>3, <5>1, <5>2 DEF SummedInv
      <4>. QED BY <4>1, <4>2
    <3>5. \A i : Size(i)' = Size(i) /\ StartsSection(i)' = StartsSection(i)
      BY <1>3, <2>1
    <3>. QED BY <2>1, <3>4, <3>5 DEF SummedInv, new
  <2>. QED BY <2>2, <2>3
<1>7. CASE Relax
  BY <1>2, <1>7 DEF Relax
<1>8. CASE Settle \/ Emit
  <2>1. UNCHANGED <<items, relaxed, addr>> /\ phase \in {"scan", "emit"}
    BY <1>8, Zenon DEF Settle, Emit
  <2>. QED BY <1>4, <2>1
<1>9. CASE Finish
  <2>1. UNCHANGED <<items, relaxed, addr>> /\ phase = "emit"
    BY <1>9, Zenon DEF Finish
  <2>. QED BY <1>4, <2>1
<1>10. CASE ScanFails \/ EmitFails
  BY <1>1, <1>10 DEF ScanFails, EmitFails, Fail
<1>11. CASE UNCHANGED vars
  BY <1>3, <1>11 DEF vars, SummedInv
<1>. QED BY <1>5, <1>6, <1>7, <1>8, <1>9, <1>10, <1>11 DEF Next

\* The layout with exactly R grown satisfies the equation that defines it.
LEMMA LaidWith ==
  ASSUME IInv, NEW R
  PROVE  /\ AddrIn(R) \in [1..Len(items) -> Nat]
         /\ \A i \in 1..Len(items) :
              AddrIn(R)[i] = IF StartsSection(i) THEN SectionBase(items[i].section)
                             ELSE AddrIn(R)[i - 1] + SizeIn(R, i - 1)
<1>. DEFINE L == Len(items)
            Starts == {i \in Nat : StartsSection(i)}
            base == [i \in 1..L |-> SectionBase(items[i].section)]
            step == [i \in 1..L |-> SizeIn(R, i)]
            At(f, i) == IF StartsSection(i) THEN SectionBase(items[i].section)
                        ELSE f[i - 1] + SizeIn(R, i - 1)
            a == AddrIn(R)
<1>1. L \in Nat
  BY LenProperties DEF IInv, TypeOK
<1>2. 1 \in Starts
  BY DEF StartsSection
<1>3. base \in [1..L -> Nat] /\ step \in [1..L -> Nat]
  <2>1. \A i \in 1..L : SectionBase(items[i].section) \in Nat /\ SizeIn(R, i) \in Nat
    BY SizeTypes DEF SizeIn
  <2>. QED BY <2>1
<1>4. \A i \in 1..L : /\ i \in Starts <=> StartsSection(i)
                      /\ base[i] = SectionBase(items[i].section)
                      /\ i \notin Starts => step[i - 1] = SizeIn(R, i - 1)
  <2>1. \A i \in 1..L : i \in Starts \/ i - 1 \in 1..L
    BY <1>1, <1>2
  <2>. QED BY <2>1
<1>5. PICK f \in [1..L -> Nat] : RunsAlong(f, L, Starts, base, step)
  <2>. HIDE DEF L, Starts, base, step
  <2>. QED BY <1>1, <1>2, <1>3, AlongInterval
<1>6. f = [i \in 1..L |-> At(f, i)]
  <2>1. \A i \in 1..L : f[i] = At(f, i)
    <3>. HIDE DEF Starts, base, step, L
    <3>. QED BY <1>4, <1>5 DEF RunsAlong
  <2>. HIDE DEF At, L
  <2>. QED BY <1>5, <2>1
<1>7. a = [i \in 1..L |-> At(a, i)]
  BY <1>6, Zenon DEF AddrIn
<1>8. \A i \in 1..L : a[i] = At(a, i)
  <2>. HIDE DEF a, At, L
  <2>. QED BY <1>7
<1>9. \A i \in 1..L : f[i] = a[i]
  <2>1. RunsAlong(a, L, Starts, base, step)
    <3>. HIDE DEF Starts, base, step, L, a
    <3>. QED BY <1>4, <1>8 DEF RunsAlong
  <2>. HIDE DEF L, Starts, base, step, a
  <2>. QED BY <1>1, <1>2, <1>5, <2>1, AlongUnique
<1>10. a \in [1..L -> Nat]
  <2>. HIDE DEF a, At, L
  <2>. QED BY <1>5, <1>7, <1>9
<1>. QED BY <1>8, <1>10

\* Growing more branches moves two items of one section apart, never together.
LEMMA GrowthMovesApart ==
  ASSUME IInv, SummedInv, phase = "scan", NEW R, relaxed \subseteq R,
         \A i \in 1..Len(items) : StartsSection(i) => i = 1,
         NEW i \in 1..Len(items), NEW j \in 1..Len(items), i <= j
  PROVE  0 <= addr[j] - addr[i] /\ addr[j] - addr[i] <= AddrIn(R)[j] - AddrIn(R)[i]
<1>. DEFINE L == Len(items)
            a == AddrIn(R)
            S == {n \in Nat : i + n <= L =>
                    /\ 0 <= addr[i + n] - addr[i]
                    /\ addr[i + n] - addr[i] <= a[i + n] - a[i]}
<1>1. L \in Nat /\ addr \in [1..L -> Nat]
  <2>1. addr \in Seq(Nat) /\ Len(addr) = L
    BY DEF IInv, TypeOK, PhaseInv
  <2>. QED BY <2>1, LenProperties
<1>2. a \in [1..L -> Nat]
  BY LaidWith
<1>3. 0 \in S
  BY <1>1, <1>2
<1>4. ASSUME NEW n \in Nat, n \in S PROVE n + 1 \in S
  <2>. SUFFICES ASSUME i + (n + 1) <= L
                PROVE  /\ 0 <= addr[i + (n + 1)] - addr[i]
                       /\ addr[i + (n + 1)] - addr[i] <= a[i + (n + 1)] - a[i]
    OBVIOUS
  <2>. DEFINE k == i + n
  <2>1. k \in 1..L /\ k + 1 \in 1..L /\ i + (n + 1) = k + 1 /\ k + 1 # 1 /\ (k + 1) - 1 = k
    BY <1>1
  <2>2. 0 <= addr[k] - addr[i] /\ addr[k] - addr[i] <= a[k] - a[i]
    BY <1>4, <2>1
  <2>. HIDE DEF k
  <2>3. ~StartsSection(k + 1)
    BY <2>1
  <2>4. addr[k + 1] = addr[k] + Size(k)
    <3>1. Len(addr) = L
      BY DEF IInv, PhaseInv
    <3>. QED BY <2>1, <2>3, <3>1 DEF SummedInv
  <2>5. a[k + 1] = a[k] + SizeIn(R, k)
    <3>. HIDE DEF a
    <3>1. a[k + 1] = IF StartsSection(k + 1) THEN SectionBase(items[k + 1].section)
                     ELSE a[(k + 1) - 1] + SizeIn(R, (k + 1) - 1)
      BY <2>1, LaidWith DEF a
    <3>. QED BY <2>1, <2>3, <3>1
  <2>6. Size(k) \in Nat /\ SizeIn(R, k) \in Nat /\ Size(k) <= SizeIn(R, k)
    <3>1. Size(k) \in Nat
      BY <2>1, SizeTypes
    <3>2. k \in Branches => Size(k) = IF k \in relaxed THEN 4 ELSE 1
      BY DEF Size, Branches, Jumps
    <3>. QED BY <3>1, <3>2 DEF SizeIn
  <2>7. addr[k] \in Nat /\ addr[i] \in Nat /\ a[k] \in Nat /\ a[i] \in Nat
    BY <1>1, <1>2, <2>1
  <2>. DEFINE s == Size(k)
              t == SizeIn(R, k)
  <2>. HIDE DEF a, s, t
  <2>8. /\ 0 <= (addr[k] + s) - addr[i]
        /\ (addr[k] + s) - addr[i] <= (a[k] + t) - a[i]
    <3>1. s \in Nat /\ t \in Nat /\ s <= t
      BY <2>6 DEF s, t
    <3>2. ASSUME NEW x \in Nat, NEW y \in Nat, NEW u \in Nat, NEW v \in Nat,
                 0 <= x - y, x - y <= u - v
          PROVE  0 <= (x + s) - y /\ (x + s) - y <= (u + t) - v
      BY <3>1, <3>2
    <3>. QED BY <2>2, <2>7, <3>2
  <2>9. addr[k + 1] = addr[k] + s /\ a[k + 1] = a[k] + t
    BY <2>4, <2>5 DEF s, t
  <2>10. i + (n + 1) = k + 1
    BY <2>1
  <2>. QED BY <2>8, <2>9, <2>10
<1>5. \A n \in Nat : n \in S
  <2>. HIDE DEF S
  <2>. QED BY <1>3, <1>4, SetInduction
<1>6. j - i \in Nat /\ i + (j - i) = j /\ j <= L
  BY <1>1
<1>7. j - i \in S
  BY <1>5, <1>6
<1>. HIDE DEF a
<1>. QED BY <1>6, <1>7 DEF a

\* In one section only the first item starts one.
LEMMA OneStart ==
  ASSUME IInv, MergeInv, OneSection, NEW i \in 1..Len(items), StartsSection(i)
  PROVE  i = 1
<1>1. \A k \in 1..Len(items) : items[k].section = order[1]
  BY DEF MergeInv, OneSection
<1>2. Len(items) \in Nat
  BY LenProperties DEF IInv, TypeOK
<1>3. i # 1 => i - 1 \in 1..Len(items)
  BY <1>2
<1>. QED BY <1>1, <1>3 DEF StartsSection

\* A branch out of reach in this layout is out of reach in every layout that
\* grows at least as much, so a set that suffices has it.
LEMMA FarInEverySufficient ==
  ASSUME IInv, MergeInv, SummedInv, phase = "scan", OneSection, PlainLabels,
         \A b \in Branches \ relaxed : ~Undefined(b),
         NEW R \in SUBSET Branches, relaxed \subseteq R, Suffices(R), NEW i \in Far
  PROVE  i \in R
<1>. SUFFICES ASSUME i \notin R PROVE FALSE
  OBVIOUS
<1>. DEFINE c == CHOOSE j \in Candidates(i) : TRUE
            a == AddrIn(R)
<1>1. i \in Branches /\ i \notin relaxed /\ ~InReach(Target(i) - addr[i])
  BY DEF Far
<1>2. c \in Candidates(i)
  BY <1>1 DEF Undefined
<1>3. c \in Defs(Linkages) /\ c \in 1..Len(items) /\ i \in 1..Len(items)
  <2>. HIDE DEF c
  <2>1. c \in Defs({"local"}) \/ c \in Defs({"global", "weak"})
    BY <1>2 DEF Candidates
  <2>2. c \in Defs(Linkages) /\ c \in 1..Len(items)
    BY <2>1 DEF Defs, Linkages
  <2>. QED BY <1>1, <2>2 DEF Branches
<1>4. Target(i) = addr[c] + 0
  BY <1>1, <1>3 DEF Target, PlainLabels, SymAddr
<1>5. a[c] - a[i] \in -Imm..(Imm - 1)
  BY <1>1, <1>2 DEF Suffices
<1>6. \A k \in 1..Len(items) : StartsSection(k) => k = 1
  BY OneStart
<1>7. addr[c] \in Nat /\ addr[i] \in Nat /\ a[c] \in Nat /\ a[i] \in Nat
  <2>1. addr \in Seq(Nat) /\ Len(addr) = Len(items)
    BY DEF IInv, TypeOK, PhaseInv
  <2>. HIDE DEF c
  <2>2. addr[c] \in Nat /\ addr[i] \in Nat
    BY <1>3, <2>1, ElementOfSeq
  <2>3. a \in [1..Len(items) -> Nat]
    BY LaidWith
  <2>. HIDE DEF a
  <2>. QED BY <1>3, <2>2, <2>3
<1>8. \/ 0 <= addr[c] - addr[i] /\ addr[c] - addr[i] <= a[c] - a[i]
      \/ 0 <= addr[i] - addr[c] /\ addr[i] - addr[c] <= a[i] - a[c]
  <2>1. CASE i <= c
    BY <1>3, <1>6, <2>1, GrowthMovesApart
  <2>2. CASE c <= i
    BY <1>3, <1>6, <2>2, GrowthMovesApart
  <2>. QED BY <1>3, <2>1, <2>2
<1>. HIDE DEF a, c
<1>. QED BY <1>1, <1>4, <1>5, <1>7, <1>8, ImmAssumption DEF InReach

LEMMA LeastStep ==
  IInv /\ MergeInv /\ SummedInv /\ LeastInv /\ [Next]_vars => LeastInv'
<1>. SUFFICES ASSUME IInv, MergeInv, SummedInv, LeastInv, [Next]_vars PROVE LeastInv'
  OBVIOUS
<1>1. CASE relaxed' = {}
  BY <1>1 DEF LeastInv
<1>2. ASSUME UNCHANGED <<items, order>>
      PROVE  /\ OneSection' = OneSection /\ PlainLabels' = PlainLabels
             /\ Branches' = Branches /\ \A R : Suffices(R)' = Suffices(R)
  <2>1. items' = items /\ order' = order
    BY <1>2
  <2>2. OneSection' = OneSection /\ Branches' = Branches
    BY <2>1 DEF OneSection, Branches
  <2>3. \A l : Defs(l)' = Defs(l)
    BY <2>1 DEF Defs
  <2>4. PlainLabels' = PlainLabels
    BY <2>1, <2>2, <2>3 DEF PlainLabels
  <2>5. \A i : Candidates(i)' = Candidates(i)
    BY <2>1, <2>3 DEF Candidates, SameName
  <2>6. \A R, i : SizeIn(R, i)' = SizeIn(R, i)
    <3>1. ASSUME NEW i, i \notin Branches PROVE Size(i)' = Size(i)
      BY <2>1, <3>1 DEF Size, Branches
    <3>. QED BY <2>2, <3>1 DEF SizeIn
  <2>7. \A i : StartsSection(i)' = StartsSection(i)
    BY <2>1 DEF StartsSection
  <2>8. \A R : AddrIn(R)' = AddrIn(R)
    BY <2>1, <2>6, <2>7, Zenon DEF AddrIn
  <2>9. \A R : Suffices(R)' = Suffices(R)
    BY <2>2, <2>5, <2>8 DEF Suffices
  <2>. QED BY <2>2, <2>4, <2>9
<1>3. CASE UNCHANGED <<items, order, relaxed>>
  BY <1>2, <1>3 DEF LeastInv
<1>4. CASE Collect \/ Merge
  <2>1. relaxed' = relaxed /\ relaxed = {}
    BY <1>4 DEF Collect, Merge, IInv, PhaseInv
  <2>. QED BY <1>1, <2>1
<1>5. CASE Relax
  <2>1. /\ UNCHANGED <<items, order>> /\ phase = "scan" /\ relaxed' = relaxed \cup Far
        /\ \A i \in Branches \ relaxed : ~Undefined(i)
    BY <1>5 DEF Relax
  <2>2. ASSUME OneSection, PlainLabels, NEW R \in SUBSET Branches, Suffices(R)
        PROVE  relaxed' \subseteq R
    <3>1. relaxed \subseteq R
      BY <2>2 DEF LeastInv
    <3>2. Far \subseteq R
      BY <2>1, <2>2, <3>1, FarInEverySufficient
    <3>. QED BY <2>1, <3>1, <3>2
  <2>. QED BY <1>2, <2>1, <2>2 DEF LeastInv
<1>6. CASE Layout \/ Settle \/ Emit \/ Finish \/ ScanFails \/ EmitFails
  <2>1. UNCHANGED <<items, order, relaxed>>
    BY <1>6, Zenon DEF Layout, Settle, Emit, Finish, ScanFails, EmitFails, Fail
  <2>. QED BY <1>3, <2>1
<1>7. CASE UNCHANGED vars
  BY <1>3, <1>7 DEF vars
<1>. QED BY <1>4, <1>5, <1>6, <1>7 DEF Next

\* Relaxation grows no branch it could have left short: any part of the grown
\* branches whose growth would be enough is all of them.
THEOREM RelaxationIsLeast == Spec => []SmallestRelaxation
<1>1. Init => MergeInv /\ LaidInv /\ SummedInv /\ LeastInv
  BY DEF Init, MergeInv, LaidInv, SummedInv, LeastInv, Distinct
<1>2. IInv /\ LeastInv => SmallestRelaxation
  BY DEF LeastInv, SmallestRelaxation, IInv, TypeOK
<1>. QED BY <1>1, <1>2, InitInv, StepInv, MergeStep, LaidStep, SummedStep, LeastStep, PTL DEF Spec
=============================================================================
