------------------------------- MODULE Linker -------------------------------
(***************************************************************************)
(* The linker (pytools/link_core.py; tools/src/RRISC/Link.hs is the        *)
(* original it is ported from): pieces of sections are merged, laid out at *)
(* their bases, branches that cannot reach their target are grown from one *)
(* word to a four-word trampoline until a whole round grows none, and the  *)
(* code is emitted with every reference bound to its symbol's address.     *)
(* One action is one iteration of a loop of link_object_files, or one      *)
(* round's decision.                                                       *)
(*                                                                         *)
(* A job is the sequence of the input objects' sections, already turned    *)
(* into items (_records_to_items_fixed); "loc" items, which have no size   *)
(* and no effect on the image, are left out.                               *)
(***************************************************************************)
EXTENDS Integers, Sequences, FiniteSets

CONSTANTS Jobs,    \* the link jobs considered
          Base,    \* lo_section_bases: a function from the pinned sections
          Imm      \* IMM6_MASK + 1: what an immediate field can count to

\* A relaxed branch skips its own trampoline with an immediate of 4.
ASSUME ImmAssumption == Imm \in Nat /\ Imm > 4
ASSUME BaseAssumption == Base \in [DOMAIN Base -> Nat]

Space == Imm * Imm           \* WORD_MASK + 1
NoOffset == -1               \* a sym record without an explicit offset
NoAddr == -1                 \* resolve_sym found no definition

Linkages == {"local", "global", "weak", "extern"}
Jumps == {"jmp-target12", "call-target12"}
RelocKinds == {"imm12", "li-imm12", "imm6-pc"} \cup Jumps
Kinds == {"words", "sym", "brel"} \cup RelocKinds

Item == [kind : Kinds, size : Nat, name : STRING, linkage : Linkages,
         offset : Nat \cup {NoOffset}, when : BOOLEAN, addend : Int]
Piece == [file : STRING, section : STRING, items : Seq(Item)]
PlacedItem == [item : Item, file : STRING, section : STRING]

ASSUME JobsAssumption == Jobs \subseteq Seq(Piece)

VARIABLES
  job,       \* the pieces being linked
  phase,     \* "collect", "merge", "layout", "scan", "emit", "done", "failed"
  why,       \* the error of a failed link
  order,     \* sec_order: section names by first appearance
  sec, pos,  \* loop counters
  items,     \* merged: the items of all sections, section after section
  addr,      \* base + offset of the items laid out in this round
  cursor,    \* where the next item goes
  relaxed,   \* the branches grown to a trampoline
  budget,    \* rounds left
  image      \* the emitted cells, by address

vars == <<job, phase, why, order, sec, pos, items, addr, cursor, relaxed,
          budget, image>>
-----------------------------------------------------------------------------
SectionBase_Unpinned(s) == IF s \in DOMAIN Base THEN Base[s] ELSE -1  \* fault: a sentinel
SectionBase(s) == IF s \in DOMAIN Base THEN Base[s] ELSE 0

\* reloc_placeholder_words, and item_size for the other items.
Size(i) == CASE items[i].item.kind = "words"                  -> items[i].item.size
             [] items[i].item.kind = "sym"                    -> 0
             [] items[i].item.kind = "brel"                   -> IF i \in relaxed THEN 4 ELSE 1
             [] items[i].item.kind \in {"imm12", "imm6-pc"}   -> 1
             [] items[i].item.kind = "li-imm12"               -> 2
             [] items[i].item.kind \in Jumps                  -> 3

Branches == {i \in 1..Len(items) : items[i].item.kind = "brel"}
Relocs == {i \in 1..Len(items) : items[i].item.kind \in RelocKinds}

(* build_symbol_env and resolve_sym, on a finished layout. *)

Defs(linkages) == {i \in 1..Len(items) : items[i].item.kind = "sym"
                                      /\ items[i].item.linkage \in linkages}

SymAddr(i) == IF items[i].item.offset = NoOffset
              THEN addr[i]
              ELSE SectionBase(items[i].section) + items[i].item.offset

SameName(i, j) == items[i].item.name = items[j].item.name

\* Globals of one name at two addresses are an error, and so are locals, even
\* those of different objects.
Clash(linkages) == \E i, j \in Defs(linkages) : SameName(i, j) /\ SymAddr(i) # SymAddr(j)
Duplicate == Clash({"global", "weak"}) \/ Clash({"local"})

\* Fault: an exported name hides the object's own label.
Candidates_GlobalFirst(r) ==
  LET locals == {j \in Defs({"local"}) : SameName(r, j)}
      globals == {j \in Defs({"global", "weak"}) : SameName(r, j)}
  IN  IF globals # {} THEN globals ELSE locals

\* The definitions item r's name may bind to: a local of its own object, else
\* a global, else a local of any object.
Candidates(r) ==
  LET locals == {j \in Defs({"local"}) : SameName(r, j)}
      own == {j \in locals : items[j].file = items[r].file}
      globals == {j \in Defs({"global", "weak"}) : SameName(r, j)}
  IN  IF own # {} THEN own ELSE IF globals # {} THEN globals ELSE locals

Undefined(r) == Candidates(r) = {}
Target_NoAddend(r) == SymAddr(CHOOSE j \in Candidates(r) : TRUE)   \* fault
Target(r) == SymAddr(CHOOSE j \in Candidates(r) : TRUE) + items[r].item.addend

InReach_Tight(off) == -Imm < off /\ off < Imm     \* fault: 63 words both ways
InReach(off) == -Imm <= off /\ off < Imm
-----------------------------------------------------------------------------
Init == /\ job \in Jobs
        /\ phase = "collect" /\ why = "none"
        /\ order = <<>> /\ sec = 1 /\ pos = 1
        /\ items = <<>> /\ addr = <<>> /\ cursor = 0
        /\ relaxed = {} /\ budget = Len(job) * 4 + 16
        /\ image = <<>>

Fail(reason) == /\ phase' = "failed" /\ why' = reason
                /\ UNCHANGED <<job, order, sec, pos, items, addr, cursor, relaxed,
                               budget, image>>

(* collect_section_order *)
Collect ==
  /\ phase = "collect"
  /\ IF pos <= Len(job)
     THEN /\ pos' = pos + 1
          /\ order' = IF \E k \in 1..Len(order) : order[k] = job[pos].section
                      THEN order ELSE Append(order, job[pos].section)
          /\ UNCHANGED phase
     ELSE /\ phase' = "merge" /\ pos' = 1
          /\ UNCHANGED order
  /\ UNCHANGED <<job, why, sec, items, addr, cursor, relaxed, budget, image>>

(* merged: for every section, the items of its pieces in input order. *)
Placed(p) == [i \in 1..Len(p.items) |->
                [item |-> p.items[i], file |-> p.file, section |-> p.section]]

Merge ==
  /\ phase = "merge"
  /\ \/ /\ sec <= Len(order) /\ pos <= Len(job)
        /\ items' = IF job[pos].section = order[sec]
                    THEN items \o Placed(job[pos]) ELSE items
        /\ pos' = pos + 1
        /\ UNCHANGED <<phase, sec>>
     \/ /\ sec <= Len(order) /\ pos > Len(job)
        /\ sec' = sec + 1 /\ pos' = 1
        /\ UNCHANGED <<phase, items>>
     \/ /\ sec > Len(order)
        /\ phase' = "layout" /\ pos' = 1
        /\ UNCHANGED <<sec, items>>
  /\ UNCHANGED <<job, why, order, addr, cursor, relaxed, budget, image>>

(* layout_section, for the sections one after another: the first item of a
   section lies at the section's base. *)
StartsSection(i) == i = 1 \/ items[i].section # items[i - 1].section

Layout ==
  /\ phase = "layout"
  /\ IF pos <= Len(items)
     THEN LET at == IF StartsSection(pos) THEN SectionBase(items[pos].section)
                    ELSE cursor
          IN  /\ addr' = Append(addr, at)
              /\ cursor' = at + Size(pos)
              /\ pos' = pos + 1
              /\ UNCHANGED phase
     ELSE /\ phase' = "scan"
          /\ UNCHANGED <<addr, cursor, pos>>
  /\ UNCHANGED <<job, why, order, sec, items, relaxed, budget, image>>

(* relax_loop, after the layout of a round. *)
Far_Ahead == {i \in Branches \ relaxed : Target(i) - addr[i] >= Imm}   \* fault: no -64
Far == {i \in Branches \ relaxed : ~InReach(Target(i) - addr[i])}

ScanFails ==
  /\ phase = "scan"
  /\ \/ Duplicate /\ Fail("duplicate")
     \/ /\ ~Duplicate /\ \E i \in Branches \ relaxed : Undefined(i)
        /\ Fail("undefined")

\* Faults: the next round gets the old set and budget; the emission gets the
\* layout of before the growth.
Relax_OldArguments ==
  /\ phase = "scan" /\ ~Duplicate
  /\ \A i \in Branches \ relaxed : ~Undefined(i)
  /\ Far # {}
  /\ phase' = "layout"
  /\ addr' = <<>> /\ cursor' = 0 /\ pos' = 1
  /\ UNCHANGED <<job, why, order, sec, items, relaxed, budget, image>>
Relax_SameLayout ==
  /\ phase = "scan" /\ ~Duplicate
  /\ \A i \in Branches \ relaxed : ~Undefined(i)
  /\ Far # {}
  /\ relaxed' = relaxed \cup Far
  /\ phase' = "emit" /\ pos' = 1
  /\ UNCHANGED <<job, why, order, sec, items, addr, cursor, budget, image>>

\* Some branch is out of reach: grow them all and lay out again, unless the
\* rounds are used up.
Relax ==
  /\ phase = "scan" /\ ~Duplicate
  /\ \A i \in Branches \ relaxed : ~Undefined(i)
  /\ Far # {}
  /\ relaxed' = relaxed \cup Far
  /\ budget' = budget - 1
  /\ IF budget > 1 THEN phase' = "layout" /\ UNCHANGED why
                   ELSE phase' = "failed" /\ why' = "budget"
  /\ addr' = <<>> /\ cursor' = 0 /\ pos' = 1
  /\ UNCHANGED <<job, order, sec, items, image>>

\* No branch is out of reach.  The layout computed again for the emission is
\* this round's.
Settle ==
  /\ phase = "scan" /\ ~Duplicate
  /\ \A i \in Branches \ relaxed : ~Undefined(i)
  /\ Far = {}
  /\ phase' = "emit" /\ pos' = 1
  /\ UNCHANGED <<job, why, order, sec, items, addr, cursor, relaxed, budget, image>>

(* emit_item.  A cell is [op, arg, item]: what is stored, its immediate (or
   the index of a literal word) and the item it stems from. *)
Cell(i, op, arg) == [op |-> op, arg |-> arg, item |-> i]
BranchOp(when) == IF when THEN "bt" ELSE "bf"
High(v) == (v % Space) \div Imm
Low(v) == v % Imm

\* Fault: the inverted branch skips three words, as the manual counts them.
Code_SkipsThree(i) ==
  LET it == items[i].item
      t == Target(i)
  IN  CASE it.kind = "words" -> [k \in 1..it.size |-> Cell(i, "word", k)]
        [] it.kind = "brel" /\ i \notin relaxed ->
             <<Cell(i, BranchOp(it.when), t - addr[i])>>
        [] it.kind = "brel" /\ i \in relaxed ->
             <<Cell(i, BranchOp(~it.when), 3), Cell(i, "lui", High(t)),
               Cell(i, "addi", Low(t)), Cell(i, "jalr", 0)>>
        [] OTHER -> [k \in 1..Size(i) |-> Cell(i, "value", t % Space)]

Code(i) ==
  LET it == items[i].item
      t == Target(i)
  IN  CASE it.kind = "words" -> [k \in 1..it.size |-> Cell(i, "word", k)]
        [] it.kind = "sym" -> <<>>
        [] it.kind = "brel" /\ i \notin relaxed ->
             <<Cell(i, BranchOp(it.when), t - addr[i])>>
        [] it.kind = "brel" /\ i \in relaxed ->
             <<Cell(i, BranchOp(~it.when), 4), Cell(i, "lui", High(t)),
               Cell(i, "addi", Low(t)), Cell(i, "jalr", 0)>>
        [] it.kind = "imm12" -> <<Cell(i, "value", t % Space)>>
        [] it.kind = "li-imm12" -> <<Cell(i, "lui", High(t)), Cell(i, "addi", Low(t))>>
        [] it.kind \in Jumps ->
             <<Cell(i, "lui", High(t)), Cell(i, "addi", Low(t)), Cell(i, "jalr", 0)>>
        [] it.kind = "imm6-pc" -> <<Cell(i, "pc", (t % Space) - addr[i])>>

Cells(i) == addr[i]..(addr[i] + Size(i) - 1)
Refers(i) == i \in Branches \cup Relocs

EmitFails ==
  /\ phase = "emit" /\ pos <= Len(items) /\ Refers(pos)
  /\ \/ Undefined(pos) /\ Fail("undefined")
     \/ /\ ~Undefined(pos) /\ pos \in Branches \ relaxed
        /\ ~InReach(Target(pos) - addr[pos])
        /\ Fail("range after relaxation")
     \/ /\ ~Undefined(pos) /\ items[pos].item.kind = "imm6-pc"
        /\ ~InReach((Target(pos) % Space) - addr[pos])
        /\ Fail("range")

Emit ==
  /\ phase = "emit" /\ pos <= Len(items)
  /\ Refers(pos) => ~Undefined(pos)
  /\ pos \in Branches \ relaxed => InReach(Target(pos) - addr[pos])
  /\ items[pos].item.kind = "imm6-pc" => InReach((Target(pos) % Space) - addr[pos])
  /\ image' = [a \in DOMAIN image \cup Cells(pos) |->
                 IF a \in Cells(pos) THEN Code(pos)[a - addr[pos] + 1] ELSE image[a]]
  /\ pos' = pos + 1
  /\ UNCHANGED <<job, phase, why, order, sec, items, addr, cursor, relaxed, budget>>

\* The flat image is made only if it fits the address space.
Finish ==
  /\ phase = "emit" /\ pos > Len(items)
  /\ IF \A a \in DOMAIN image : a < Space
     THEN phase' = "done" /\ UNCHANGED why
     ELSE phase' = "failed" /\ why' = "space"
  /\ UNCHANGED <<job, order, sec, pos, items, addr, cursor, relaxed, budget, image>>

Next == \/ Collect \/ Merge \/ Layout
        \/ ScanFails \/ Relax \/ Settle
        \/ EmitFails \/ Emit \/ Finish

Spec == Init /\ [][Next]_vars /\ WF_vars(Next)
-----------------------------------------------------------------------------
TypeOK ==
  /\ job \in Jobs
  /\ phase \in {"collect", "merge", "layout", "scan", "emit", "done", "failed"}
  /\ why \in {"none", "duplicate", "undefined", "budget", "range",
              "range after relaxation", "space"}
  /\ order \in Seq(STRING) /\ sec \in Nat \ {0} /\ pos \in Nat \ {0}
  /\ items \in Seq(PlacedItem)
  /\ addr \in Seq(Nat) /\ cursor \in Nat
  /\ relaxed \subseteq Branches /\ budget \in Nat
  /\ DOMAIN image \subseteq Nat

(* What the words of a linked image do. *)

\* The cells at item i's addresses are its own: no other section was emitted
\* over them (nothing keeps sections apart but the bases the user gives).
Intact(i) == \A a \in Cells(i) : image[a].item = i

\* Where control goes from the branch i when the CPU runs the cells with flag
\* T: a branch skips or falls through, and what follows a skipped trampoline
\* head loads r4 and jumps.
Goes(i, T) ==
  LET head == image[addr[i]]
      next == IF head.op = BranchOp(T) THEN addr[i] + head.arg ELSE addr[i] + 1
  IN  IF Size(i) = 4 /\ next = addr[i] + 1
      THEN image[next].arg * Imm + image[next + 1].arg
      ELSE next % Space

\* The definitions the author of reference r means: the object's own, else the
\* exported ones of other objects.
Meant(r) ==
  LET own == {j \in Defs({"local"}) : SameName(r, j) /\ items[j].file = items[r].file}
      exported == {j \in Defs({"global", "weak"}) : SameName(r, j)}
  IN  IF own # {} THEN own ELSE exported

\* The addresses reference r may stand for in the final image.
Wanted(r) == {(SymAddr(j) + items[r].item.addend) % Space : j \in Meant(r)}

\* Every branch of a linked image, short or grown, goes to its target when its
\* condition holds and to the word after it when not, although the layout moved
\* under it while it was decided.
BranchesReach ==
  phase = "done" =>
    \A i \in Branches :
      Intact(i) /\ Meant(i) # {} =>
        /\ Goes(i, items[i].item.when) \in Wanted(i)
        /\ Goes(i, ~items[i].item.when) = (addr[i] + Size(i)) % Space

\* Every relocated word of a linked image holds its symbol's address in that
\* image, not in the layout of an earlier round.
RelocsBind ==
  phase = "done" =>
    \A i \in Relocs :
      Intact(i) /\ Meant(i) # {} =>
        LET head == image[addr[i]]
        IN  CASE head.op = "value" -> head.arg \in Wanted(i)
              [] head.op = "pc"    -> (addr[i] + head.arg) % Space \in Wanted(i)
              [] head.op = "lui"   -> head.arg * Imm + image[addr[i] + 1].arg \in Wanted(i)

\* A section's items do not overlap: the cell of an item is overwritten by an
\* item of another section or by none.
SectionsStayWhole ==
  phase = "done" =>
    \A i \in 1..Len(items) : \A a \in Cells(i) :
      image[a].item # i => items[image[a].item].section # items[i].section

\* Link.hs, of LinkBranchOutOfRange: "shouldn't happen post-relaxation".  The
\* layout that is emitted is one in which every short branch reaches.
ReachAfterRelaxation == why # "range after relaxation"

\* The layout if exactly the branches R were grown, and whether they suffice.
SizeIn(R, i) == IF i \in Branches THEN (IF i \in R THEN 4 ELSE 1) ELSE Size(i)
AddrIn(R) ==
  LET a[i \in 1..Len(items)] ==
        IF StartsSection(i) THEN SectionBase(items[i].section)
        ELSE a[i - 1] + SizeIn(R, i - 1)
  IN  a
Suffices(R) ==
  LET a == AddrIn(R)
  IN  \A i \in Branches \ R : \A j \in Candidates(i) : a[j] - a[i] \in -Imm..(Imm - 1)

\* Relaxation finds the smallest set of branches to grow: no smaller one would
\* do.  (For one section of plain labels; between sections, growing one branch
\* can bring another's target nearer.)
OneSection == Len(order) = 1
PlainLabels == /\ \A i \in Branches : items[i].item.addend = 0
               /\ \A i \in Defs(Linkages) : items[i].item.offset = NoOffset
SmallestRelaxation ==
  phase = "done" /\ OneSection /\ PlainLabels =>
    \A R \in SUBSET relaxed : Suffices(R) => R = relaxed

\* Relaxation and emission come to an end.
LinkEnds == <>(phase \in {"done", "failed"})
=============================================================================
