------------------------------- MODULE ObjEmit -------------------------------
(***************************************************************************)
(* Relocatable objects from laid-out statements (pytools/asm_obj_emit.py): *)
(* the statements of a section, wherever they stood, as a list of records; *)
(* references to a lone label are left to the linker, everything else is   *)
(* encoded by the flat encoder with the labels of the section.             *)
(*                                                                         *)
(* The addresses of the first pass place labels and gaps; the linker goes  *)
(* by the records before them.                                             *)
(***************************************************************************)
EXTENDS AsmLayout

NoOffset == -1

\* One shape for all kinds of records; loc records are left out.
Rec(kind, n, name, form) == [kind |-> kind, n |-> n, name |-> name, form |-> form, offset |-> NoOffset]
Word_(w) == Rec("word", w, "", "")
Zero(n) == Rec("zero", n, "", "")
SymRec(name, linkage) == Rec("sym", 0, name, linkage)
Reloc(form, name, addend) == Rec("reloc", addend, name, form)
Brel(form, name) == Rec("brel", 0, name, form)

WordRecs(ws) == [k \in 1..Len(ws) |-> Word_(ws[k] % Space)]

\* linkage_map_from_stmts: the last directive that names a symbol counts.
LinkageOf(stmts, name) ==
  LET marks == {i \in 1..Len(stmts) : /\ stmts[i].op \in LinkageOps
                                      /\ \E k \in 1..Len(stmts[i].args) : stmts[i].args[k][1].sym = name}
  IN  IF marks = {} THEN "local"
      ELSE IF stmts[Max(marks)].op = ".local" THEN "local" ELSE "global"

\* normalize_section
BaseOf(stmts) == Min({stmts[i].addr : i \in 1..Len(stmts)})
Normalized(stmts) == [i \in 1..Len(stmts) |-> [stmts[i] EXCEPT !.addr = @ - BaseOf(stmts)]]

(* emit_stmt_records: the records of one statement and the words they are
   counted for. *)
Emitted(recs, n, err) == [recs |-> recs, n |-> n, err |-> err]
EmitCode(c) == Emitted(WordRecs(c.words), Len(c.words), c.err)

LoadsLabel(st) == /\ st.op = "li" /\ Len(st.args) = 2 /\ SimpleLabel(st.args[2])
                  /\ IsReg(st.args[1])

\* _encode_dot_word; c is what the flat encoder makes of the operand ts.
EmitOperand(ts, c) ==
  IF SimpleLabel(ts) THEN Emitted(<<Word_(0), Reloc("imm12", ts[1].sym, 0)>>, 1, "none")
  ELSE Emitted(WordRecs(c.words), 1, c.err)
EmitAll(es) ==
  IF es = <<>> \/ \E k \in 1..Len(es) : es[k].err # "none" THEN Emitted(<<>>, 0, ".word")
  ELSE Emitted(FlattenSeq([k \in 1..Len(es) |-> es[k].recs]), Len(es), "none")
EmitWords(st, labels) ==
  EmitAll([k \in 1..Len(st.args) |->
             EmitOperand(st.args[k], Encode([st EXCEPT !.args = <<st.args[k]>>], labels))])

\* Fault: the two words of an li are counted as one.
EmitStmt_ShortLoad(st, labels) ==
  IF LoadsLabel(st)
  THEN LET rd == Registers[st.args[1][1].sym]
       IN  Emitted(<<Word_(RI(LUI, rd, 0)), Word_(RI(ADDI, rd, 0)),
                     Reloc("li-imm12", st.args[2][1].sym, 0)>>, 1, "none")
  ELSE IF Branch(st) THEN Emitted(<<Brel(st.op, Target(st))>>, 1, "none")
  ELSE EmitCode(Encode(st, labels))

EmitStmt(st, labels) ==
  CASE st.op \in LinkageOps \cup {".section"} -> Emitted(<<>>, 0, "none")
    [] Branch(st) -> Emitted(<<Brel(st.op, Target(st))>>, 1, "none")
    [] LoadsLabel(st) ->
         LET rd == Registers[st.args[1][1].sym]
         IN  Emitted(<<Word_(RI(LUI, rd, 0)), Word_(RI(ADDI, rd, 0)),
                       Reloc("li-imm12", st.args[2][1].sym, 0)>>, 2, "none")
    [] st.op = ".word" -> EmitWords(st, labels)
    [] OTHER -> EmitCode(Encode(st, labels))

Gap_Left(n) == <<>>                                     \* fault
Gap(n) == IF n > 0 THEN <<Zero(n)>> ELSE <<>>

(* build_records: a statement ahead of the cursor leaves a gap of zeros, one
   behind it leaves no trace; e is what st emits. *)
AddStmt(b, st, e, all) ==
  [recs |-> b.recs \o Gap(st.addr - b.cursor)
            \o [k \in 1..Len(st.labels) |-> SymRec(st.labels[k], LinkageOf(all, st.labels[k]))]
            \o e.recs,
   cursor |-> st.addr + e.n,
   err |-> IF b.err = "none" THEN e.err ELSE b.err]

Build(stmts, labels, all) ==
  Along(LAMBDA b, st : AddStmt(b, st, EmitStmt(st, labels), all),
        [recs |-> <<>>, cursor |-> 0, err |-> "none"], stmts)

\* The names of the sections, in the order they appear.
SectionOrder(stmts) ==
  Along(LAMBDA ns, st : IF st.sec \in Range(ns) THEN ns ELSE Append(ns, st.sec), <<>>, stmts)
InSection(stmts, name) == Taken(stmts, {i \in 1..Len(stmts) : stmts[i].sec = name})

BuildSection(stmts, name) ==
  LET norm == Normalized(InSection(stmts, name))
  IN  Build(norm, LabelsFrom(norm), stmts)

ObjectOf(order, built) ==
  LET bad == {k \in 1..Len(order) : built[k].err # "none"}
  IN  [sections |-> [k \in 1..Len(order) |-> [name |-> order[k], recs |-> built[k].recs]],
       err |-> IF bad = {} THEN "none" ELSE built[Min(bad)].err]

EncodeToObject(stmts) ==
  LET order == SectionOrder(stmts)
  IN  ObjectOf(order, [k \in 1..Len(order) |-> BuildSection(stmts, order[k])])
-----------------------------------------------------------------------------
(* What the linker reads (link_core.py, _records_to_items_fixed): a reloc     *)
(* takes the words before it as its placeholders.                             *)

Span(form) == CASE form \in {"imm12", "imm6-pc"}                -> 1
                [] form = "li-imm12"                            -> 2
                [] form \in {"jmp-target12", "call-target12"}   -> 3

Orphan == Rec("orphan", 0, "", "")      \* a reloc without placeholders

ToItem(items, r) ==
  LET n == Span(r.form)
      held == SubSeq(items, Len(items) - n + 1, Len(items))
  IN  IF items = <<Orphan>> THEN items
      ELSE CASE r.kind = "zero"    -> items \o [k \in 1..r.n |-> Word_(0)]
             [] r.kind = "reloc"   -> IF Len(items) < n THEN <<Orphan>>
                                      ELSE IF \E k \in 1..n : held[k].kind # "word" THEN <<Orphan>>
                                      ELSE SubSeq(items, 1, Len(items) - n) \o <<r>>
             [] OTHER              -> Append(items, r)

Items(recs) == Along(ToItem, <<>>, recs)

ItemSize(r) == CASE r.kind = "sym"   -> 0
                 [] r.kind = "reloc" -> Span(r.form)
                 [] OTHER            -> 1

\* Where each item lies in its section, no branch grown.
Offsets(items) ==
  LET at[k \in 1..(Len(items) + 1)] == IF k = 1 THEN 0 ELSE at[k - 1] + ItemSize(items[k - 1])
  IN  at
=============================================================================
