----------------------------- MODULE AsmStages -----------------------------
(*****************************************************************************)
(* What the stages of module Assembler hand on: types of what each makes,    *)
(* the steps of its loops seen as sequences of intermediate results, and the *)
(* two invariants of the whole, IInv and Laying.  AsmProofs proves them.     *)
(*****************************************************************************)
EXTENDS Assembler
-----------------------------------------------------------------------------
(* Sequences.                                                               *)

\* Taken, one element after another.
TakenRun(ls, n, Kind, S) ==
  \E tk \in [0..n -> Seq(Kind)] :
    /\ tk[0] = <<>>
    /\ \A k \in 1..n : tk[k] = IF k \in S THEN Append(tk[k - 1], ls[k]) ELSE tk[k - 1]
    /\ Taken(ls, S) = tk[n]

\* FlattenSeq, one sequence after another.
FlattenRun(D, ss, n) ==
  \E to \in [0..n -> Seq(D)] :
    /\ to[0] = <<>>
    /\ \A k \in 1..n : to[k] = to[k - 1] \o ss[k]
    /\ FlattenSeq(ss) = to[n]
-----------------------------------------------------------------------------
(* Stages 1 and 3: includes and calls.                                      *)

IncludeErrors == {"circular %include", "cannot open"}
ExpandErrors == {"recursive macro", "macro arguments"}
Errors == {"none"} \cup IncludeErrors \cup ExpandErrors
Results == [lines : Seq(SourceLine), err : Errors]

AreFiles(files) == /\ IsFiniteSet(DOMAIN files)
                   /\ \A f \in DOMAIN files : files[f] \in Seq(SourceLine)

\* The line leads to another file.
Leads1(files, l, seen) == Is(l, "%include") /\ NameIn(l, 1) \notin seen /\ NameIn(l, 1) \in DOMAIN files

At1(l, seen) == <<NameIn(l, 1), seen \cup {NameIn(l, 1)}>>
Asked(files) == (DOMAIN files) \X SUBSET DOMAIN files
Left(files) == [x \in Asked(files) |-> Cardinality(DOMAIN files \ x[2])]

FileResult(files, x, g) ==
  AllOf([i \in 1..Len(files[x[1]]) |-> IncludeLine(files, files[x[1]][i], x[2], g)])

GraphOf(files) == [f \in DOMAIN files |-> IncludesOf(files[f])]

\* Every file being included leads to the one that is looked at.
ChainOf(files, x) == /\ x[1] \in x[2]
                     /\ \A s \in x[2] : s = x[1] \/ x[1] \in Reached(s, GraphOf(files))
-----------------------------------------------------------------------------
(* Stage 2: the table of macros.                                            *)

CollectErrors == {"nested %macro", "invalid parameter name", "redefinition", "unexpected %endm",
                  "unterminated %macro"}

Bodies(ls) == {b \in Seq(SourceLine) : \A k \in 1..Len(b) : \E i \in 1..Len(ls) : b[k] = ls[i]}

Entries(ls) == [name : {NameIn(ls[i], 1) : i \in 1..Len(ls)},
                def : [params : {Params(ls[i]) : i \in 1..Len(ls)}, body : Bodies(ls)]]

Tables(ls) == {T \in SUBSET Entries(ls) : IsFiniteSet(T)}
Collections(ls) == [open : 0..Len(ls), table : Tables(ls), err : {"none"} \cup CollectErrors]

Collected(ls) == Along(LAMBDA c, i : CollectLine(c, ls, i), [open |-> 0, table |-> {}, err |-> "none"],
                       [i \in 1..Len(ls) |-> i])
-----------------------------------------------------------------------------
(* Stage 3: macros are called.                                              *)

AreNames(names, bys) == Len(names) \in Nat /\ \A k \in 1..Len(names) : bys[k] \in Seq(Token)
AreMacros(tab) == IsFiniteSet(tab) /\ \A d \in tab : d.def.body \in Seq(SourceLine)

\* What is asked of a line: inside which calls it is looked at.
Lookups(tab) == SourceLine \X SUBSET Macros(tab)

Others(tab) == [x \in Lookups(tab) |-> Cardinality(Macros(tab) \ x[2])]

\* The line is a call that is expanded; its lines, and inside what.
Called(tab, x) == /\ x[1].op \in Macros(tab) /\ x[1].op \notin x[2]
                  /\ Len(x[1].args) = Len(Macro(tab, x[1].op).params)

CallBody(tab, x) == Body(x[1], Macro(tab, x[1].op))
Inside(tab, x, i) == <<CallBody(tab, x)[i], x[2] \cup {x[1].op}>>

\* Calls.
CallsOf(tab) == [m \in Macros(tab) |-> {Macro(tab, m).body[i].op : i \in 1..Len(Macro(tab, m).body)}
                                       \cap Macros(tab)]

Written(tab) == \A d \in tab : \A i \in 1..Len(d.def.body), k \in 1..Len(d.def.params) :
                  d.def.body[i].op # d.def.params[k]
-----------------------------------------------------------------------------
(* Operands.                                                                *)

AllOps == {"|", "^", "&", "<<", ">>", "+", "-", "*", "/", "//", "%"}

\* What a word of an assembled line can be, the ones put in by relaxation included.
Texts == STRING \cup {""}

AnyName == Texts \cup {"text", "bt", "bf", "li", "jalr", "r0", "r4"} \cup {SkipLabel(n) : n \in Nat}
AnyToken == [sym : AnyName, num : Int]

EvalErrors == {"unexpected end", "expected )", "undefined label", "unexpected", "refused", "empty expression",
               "no operand"}

Found == [val : Int, pos : Nat, err : {"none"} \cup EvalErrors]

\* What reading from position p on may come to; the text has n tokens.
From(p, n) == {r \in Found : r.err = "none" => r.pos \in (p + 1)..(n + 1)}

Places(n) == (1..Unary) \X (1..(n + 1))
Reads(n) == {f \in [Places(n) -> Found] : \A x \in Places(n) : f[x] \in From(x[2], n)}

\* A level is ahead of the next at the same place, and all levels of later places.
Ahead(n) == [x \in Places(n) |-> 8 * (n + 1 - x[2]) + 7 - x[1]]

AreLabels(labels) == \A name \in DOMAIN labels : labels[name] \in Int

\* The turns of a level, one for each token.
Turns(l, ts, p, labels, f, n) ==
  \E to \in [0..n -> From(p, n)] :
    /\ to[0] = f[<<l + 1, p>>]
    /\ \A k \in 1..n : to[k] = Turn(l, ts, to[k - 1], f)
    /\ Level(l, ts, p, labels, f) = to[n]
-----------------------------------------------------------------------------
(* Stages 4 to 6: defines and conditionals.                                 *)

Definition == [name : Texts, val : Seq(Token)]
Definitions == Seq(Definition)

\* Names given from outside, behind those of the text.
AllDefines(ds, more) == Along(LAMBDA q, d : SetIn(q, d.name, d.val), ds, more)

FilterErrors == {"malformed conditional", "conditional operand", "%endif without %if", "unterminated conditional"}
FilterStates == [stack : Seq(BOOLEAN), out : Seq(SourceLine), err : {"none"} \cup FilterErrors]
Filtering == [stack |-> <<>>, out |-> <<>>, err |-> "none"]

Filtered(ls, ds) ==
  Along(LAMBDA g, l : FilterLine(g, l, ds), [stack |-> <<>>, out |-> <<>>, err |-> "none"], ls)

FilterFact(f, l, ds) ==
  /\ f.err # "none" => FilterLine(f, l, ds) = f
  /\ f.err = "none" /\ Opens(l) /\ Malformed(l) =>
       FilterLine(f, l, ds) = [stack |-> f.stack, out |-> f.out, err |-> "malformed conditional"]
  /\ f.err = "none" /\ Opens(l) /\ ~Malformed(l) /\ Unevaluable(l, ds) =>
       FilterLine(f, l, ds) = [stack |-> f.stack, out |-> f.out, err |-> "conditional operand"]
  /\ f.err = "none" /\ Opens(l) /\ ~Malformed(l) /\ ~Unevaluable(l, ds) =>
       FilterLine(f, l, ds) = [stack |-> Append(f.stack, Holds(l, ds)), out |-> f.out, err |-> "none"]
  /\ f.err = "none" /\ Is(l, "%endif") /\ f.stack = <<>> =>
       FilterLine(f, l, ds) = [stack |-> f.stack, out |-> f.out, err |-> "%endif without %if"]
  /\ f.err = "none" /\ Is(l, "%endif") /\ f.stack # <<>> =>
       FilterLine(f, l, ds) = [stack |-> Front(f.stack), out |-> f.out, err |-> "none"]
  /\ f.err = "none" /\ ~Opens(l) /\ ~Is(l, "%endif") =>
       FilterLine(f, l, ds) = [stack |-> f.stack,
                                 out |-> IF Active(f.stack) THEN Append(f.out, l) ELSE f.out,
                                 err |-> "none"]

FilterRun(ls, ds, n) ==
  \E to \in [0..n -> FilterStates] :
    /\ to[0] = [stack |-> <<>>, out |-> <<>>, err |-> "none"]
    /\ \A k \in 1..n : to[k] = FilterLine(to[k - 1], ls[k], ds)
    /\ Filtered(ls, ds) = to[n]
-----------------------------------------------------------------------------
(* Layout: statements, the first pass, chunks, labels.                      *)

Stmts(A) == [labels : Seq(AnyName), op : AnyName, args : Seq(Seq(AnyToken)), addr : A, sec : AnyName, from : Nat]
LabelTables == UNION {[D -> Int] : D \in SUBSET AnyName}
AssignErrors == {".org", ".align", ".fill", ".base", "no string", ".section", "duplicate label"}

Assignments == [addr : Nat, sec : AnyName, labels : LabelTables, stmts : Seq(Stmts(Nat)),
                err : {"none"} \cup AssignErrors]

\* What the steps of the first pass are made of.
Assigned(g, sec, addr, labels, sts, why) == [addr |-> addr, sec |-> sec, labels |-> labels, stmts |-> sts, err |-> why]

\* What a step may come to.
PlaceFact(g, l, st, labels, value, object) ==
  LET r == Place(g, l, st, labels, value, object)
      at(addr) == Assigned(g, g.sec, addr, labels, Append(g.stmts, st), g.err)
  IN  \/ \E why \in AssignErrors : r = Assigned(g, g.sec, g.addr, g.labels, g.stmts, why)
      \/ l.op = ".org" /\ value.val \in Word /\ r = Assigned(g, g.sec, value.val, labels, g.stmts, g.err)
      \/ l.op = ".align" /\ ~Failed(value) /\ value.val >= 1 /\ r = at(AlignUp(g.addr, value.val))
      \/ l.op = ".fill" /\ ~Failed(value) /\ value.val >= 0 /\ r = at(g.addr + value.val)
      \/ l.op \notin {".org", ".align", ".fill"} /\ r = at(g.addr + FixedSize(st))

\* A step of the first pass.
SectionLine(g, l, i) == [Stmt(l, g.addr, g.sec, i) EXCEPT !.sec = NameIn(l, 1)]

PlacedLine(g, l, i, object) ==
  LET st == Stmt(l, g.addr, g.sec, i)
      labels == WithLabels(g.labels, st, g.addr)
  IN  Place(g, l, st, labels, ValueOf(l, labels), object)

AssignFact(g, l, i, object) ==
  LET r == Assign(g, l, i, object)
  IN  \/ g.err # "none" /\ r = g
      \/ \E why \in AssignErrors : r = Assigned(g, g.sec, g.addr, g.labels, g.stmts, why)
      \/ /\ g.err = "none" /\ l.op = ".section" /\ l.args # <<>>
         /\ r = Assigned(g, NameIn(l, 1), g.addr, g.labels, Append(g.stmts, SectionLine(g, l, i)), g.err)
      \/ /\ g.err = "none" /\ l.op # ".section" /\ Range(l.labels) \cap DOMAIN g.labels = {}
         /\ r = PlacedLine(g, l, i, object)

AssignRun(ls, object, n) ==
  \E to \in [0..n -> Assignments] :
    /\ to[0] = Assigning
    /\ \A k \in 1..n : to[k] = Assign(to[k - 1], ls[k], k, object)
    /\ AssignAddresses(ls, object) = to[n]

ChunkStep(cs, st) == IF cs # <<>> /\ Last(Last(cs)).sec = st.sec
                     THEN Append(Front(cs), Append(Last(cs), st)) ELSE Append(cs, <<st>>)

ChunkRun(sts, S, n) ==
  \E to \in [0..n -> Seq(Seq(S))] :
    /\ to[0] = <<>>
    /\ \A k \in 1..n : to[k] = (IF to[k - 1] # <<>> /\ Last(Last(to[k - 1])).sec = sts[k].sec THEN Append(Front(to[k - 1]), Append(Last(to[k - 1]), sts[k])) ELSE Append(to[k - 1], <<sts[k]>>))
    /\ Chunks(sts) = to[n]

LabelRun(sts, n) ==
  \E to \in [0..n -> LabelTables] :
    /\ to[0] = << >>
    /\ \A k \in 1..n : to[k] = WithLabels(to[k - 1], sts[k], sts[k].addr)
    /\ LabelsFrom(sts) = to[n]
-----------------------------------------------------------------------------
(* Relaxation: addresses anew.                                              *)

\* The state of the pass that gives addresses anew.
Recomputing(sts) ==
  Along(LAMBDA r, st : LET a == Max2(r.addr, st.addr)
                          IN  [addr |-> a + StmtSize(st), out |-> Append(r.out, [st EXCEPT !.addr = a])],
           [addr |-> 0, out |-> <<>>], sts)

Recomputed == [addr : Nat, out : Seq(Stmts(Nat))]

RecomputeStep(r, st) ==
  LET a == Max2(r.addr, st.addr)
  IN  [addr |-> a + StmtSize(st), out |-> Append(r.out, [st EXCEPT !.addr = a])]

RecomputeRun(sts, n) ==
  \E to \in [0..n -> Recomputed] :
    /\ to[0] = [addr |-> 0, out |-> <<>>]
    /\ \A k \in 1..n : to[k] = RecomputeStep(to[k - 1], sts[k])
    /\ Recomputing(sts) = to[n]
-----------------------------------------------------------------------------
(* Encoding.                                                                *)

EncodeErrors == {"immediate", "li", "branch range", "operands", "register", "scratch register", "operand",
                 "sixbit", ".base", ".word", ".float", ".fill", ".align", "unknown mnemonic"}

Coded == [words : Seq(Int), err : {"none"} \cup EncodeErrors]
CodesOf(sts, labels) == Along(LAMBDA cs, st : Append(cs, Encode(st, labels)), <<>>, sts)

CodesRun(sts, labels, n) ==
  \E to \in [0..n -> Seq(Coded)] :
    /\ to[0] = <<>>
    /\ \A k \in 1..n : to[k] = Append(to[k - 1], Encode(sts[k], labels))
    /\ CodesOf(sts, labels) = to[n]
-----------------------------------------------------------------------------
(* Objects: their records.                                                  *)

Recs == {Word_(w) : w \in Word} \cup {Zero(n) : n \in Nat}
        \cup {SymRec(name, form) : name \in AnyName, form \in {"local", "global"}}
        \cup {Reloc(form, name, 0) : form \in {"imm12", "li-imm12"}, name \in AnyName}
        \cup {Brel(form, name) : form \in {"bt", "bf"}, name \in AnyName}

Emissions == [recs : Seq(Recs), n : Nat, err : {"none"} \cup EncodeErrors]
Building == [recs : Seq(Recs), cursor : Int, err : {"none"} \cup EncodeErrors]

BuildRun(sts, labels, all, n) ==
  \E to \in [0..n -> Building] :
    /\ to[0] = [recs |-> <<>>, cursor |-> 0, err |-> "none"]
    /\ \A k \in 1..n : to[k] = AddStmt(to[k - 1], sts[k], EmitStmt(sts[k], labels), all)
    /\ Build(sts, labels, all) = to[n]

OrderRun(sts, n) ==
  \E to \in [0..n -> Seq(AnyName)] :
    /\ to[0] = <<>>
    /\ \A k \in 1..n : to[k] = (IF sts[k].sec \in Range(to[k - 1]) THEN to[k - 1] ELSE Append(to[k - 1], sts[k].sec))
    /\ SectionOrder(sts) = to[n]

Sections == [name : AnyName, recs : Seq(Recs)]
-----------------------------------------------------------------------------
(* Objects: their text.                                                     *)

\* Where the lines of each sequence stand in the flattened one.
StandsAt(ss, L, n) ==
  /\ L \in [0..n -> Nat] /\ L[0] = 0 /\ Len(FlattenSeq(ss)) = L[n]
  /\ \A k \in 1..n : L[k] = L[k - 1] + Len(ss[k])
  /\ \A k \in 1..n : \A t \in 1..Len(ss[k]) : L[k - 1] + t \in 1..L[n] /\ FlattenSeq(ss)[L[k - 1] + t] = ss[k][t]

ParseErrors == {"nested section", "endsec without section", "outside section"}
Parses == [open : BOOLEAN, name : AnyName, recs : Seq(Recs), sections : Seq(Sections), err : {"none"} \cup ParseErrors]
Header(name) == <<W("section"), W(name)>>
Endsec == <<W("endsec")>>
ObjLines == {Header(name) : name \in AnyName} \cup {RenderRec(r) : r \in Recs} \cup {Endsec}

Parse(open, name, recs, sections, why) ==
  [open |-> open, name |-> name, recs |-> recs, sections |-> sections, err |-> why]

\* A step of the reader.
ReadHeader(p, name) ==
  ParseLine(p, Header(name)) =
    IF p.err # "none" THEN p
    ELSE IF p.open THEN Parse(p.open, p.name, p.recs, p.sections, "nested section")
    ELSE Parse(TRUE, name, <<>>, p.sections, p.err)

ReadEnd(p) ==
  ParseLine(p, Endsec) =
    IF p.err # "none" THEN p
    ELSE IF ~p.open THEN Parse(p.open, p.name, p.recs, p.sections, "endsec without section")
    ELSE Parse(FALSE, p.name, p.recs, Append(p.sections, [name |-> p.name, recs |-> p.recs]), p.err)

ReadRec(p, r) ==
  ParseLine(p, RenderRec(r)) =
    IF p.err # "none" THEN p
    ELSE IF ~p.open THEN Parse(p.open, p.name, p.recs, p.sections, "outside section")
    ELSE Parse(p.open, p.name, Append(p.recs, r), p.sections, p.err)

ParsedLines(ls) == Along(ParseLine, Parsing, ls)

ParseRun(ls, n) ==
  \E to \in [0..n -> Parses] :
    /\ to[0] = Parsing
    /\ \A k \in 1..n : to[k] = ParseLine(to[k - 1], ls[k])
    /\ ParsedLines(ls) = to[n]

SectionLines(s) == <<Header(s.name)>> \o [k \in 1..Len(s.recs) |-> RenderRec(s.recs[k])] \o <<Endsec>>

\* The reader inside an object: behind m sections, and t lines of the next.
Reading(o, p, m, t) ==
  /\ p.err = "none" /\ p.sections = SubSeq(o, 1, m)
  /\ \/ t = 0 /\ p.open = FALSE
     \/ /\ m < Len(o) /\ t \in 1..(Len(o[m + 1].recs) + 1)
        /\ p.open = TRUE /\ p.name = o[m + 1].name /\ p.recs = SubSeq(o[m + 1].recs, 1, t - 1)

\* The lines of an object behind its first, section by section.
SectionsLines(o) == [k \in 1..Len(o) |-> SectionLines(o[k])]

FirstLine == <<W("rrisc-obj"), N(Version)>>
ParsedFile(sections, why) == [sections |-> sections, err |-> why]

\* Where the reader stands after j lines behind the first.
Stands(o, L, p, j) == \E m \in 0..Len(o), t \in Nat : j = L[m] + t /\ Reading(o, p, m, t)

CutErrors == {"empty object file", "unterminated section"}
-----------------------------------------------------------------------------
(* The invariant: what each stage hands on.                                 *)

Stages == {"include", "collect", "expand", "strip", "define", "filter", "substitute", "layout",
           "relax", "encode", "emit", "write", "read", "done", "failed"}

LateErrors == CollectErrors \cup FilterErrors \cup AssignErrors \cup EncodeErrors \cup CutErrors \cup {"crash"}

Typed ==
  /\ source \in Sources /\ stage \in Stages
  /\ lines \in Seq(SourceLine) /\ AreMacros(table) /\ defs \in Definitions
  /\ stmts \in Seq(Stmts(Nat)) /\ chunk \in Seq(Stmts(Nat)) /\ rest \in Seq(Seq(Stmts(Nat)))
  /\ rounds \in 0..MaxRounds /\ skips \in Nat
  /\ obj \in Seq(Sections)

Routed ==
  /\ stage \in {"relax", "encode"} => ~source.object
  /\ stage \in {"emit", "write", "read"} => source.object
  /\ stage = "failed" <=> err # "none"

MadeOfLines ==
  stage = "expand" =>
    \A d \in table : \A i \in 1..Len(d.def.body) : \E k \in 1..Len(lines) : d.def.body[i] = lines[k]

JudgedIncludes ==
  /\ err = "circular %include" => Cyclic(source.main, GraphOf(source.files))
  /\ stage \notin {"include", "failed"} => ~Cyclic(source.main, GraphOf(source.files))

JudgedCalls ==
  /\ err = "recursive macro" /\ Written(table) => \E m \in Macros(table) : Cyclic(m, CallsOf(table))
  /\ stage \notin {"include", "collect", "expand", "failed"} /\ Written(table) =>
       \A m \in Macros(table) : ~Cyclic(m, CallsOf(table))

CutFile ==
  /\ stage = "read" => \E n \in 0..Len(RenderObject(obj)) : text = SubSeq(RenderObject(obj), 1, n)
  /\ stage = "done" /\ source.object => \E n \in 0..Len(obj) : back = Reverse(SubSeq(obj, 1, n))

IInv == Typed /\ Routed /\ MadeOfLines /\ JudgedIncludes /\ JudgedCalls /\ CutFile

Later == /\ source' = source /\ table' = table
         /\ stage \notin {"include", "collect", "expand", "failed"}
         /\ stage' \notin {"include", "collect", "expand"}
         /\ err' \in {"none"} \cup LateErrors
         /\ stage' \in {"relax", "encode"} => ~source.object
         /\ stage' \in {"emit", "write", "read"} => source.object
         /\ stage' = "failed" <=> err' # "none"
-----------------------------------------------------------------------------
(* Conditionals.                                                            *)

Openers(ls) == {i \in 1..Len(ls) : Opens(ls[i])}
Closers(ls) == {i \in 1..Len(ls) : Is(ls[i], "%endif")}
Holdings(ls, ds) == [i \in 1..Len(ls) |-> Holds(ls[i], ds)]

\* The steps of a run of the filter that does not fail.
FilterPath(ls, ds, n, to) ==
  /\ to \in [0..n -> FilterStates] /\ to[0].stack = <<>> /\ to[0].out = <<>>
  /\ \A k \in 1..n : k \in Openers(ls) =>
       to[k].stack = Append(to[k - 1].stack, Holds(ls[k], ds)) /\ to[k].out = to[k - 1].out
  /\ \A k \in 1..n : k \in Closers(ls) =>
       to[k - 1].stack # <<>> /\ to[k].stack = Front(to[k - 1].stack) /\ to[k].out = to[k - 1].out
  /\ \A k \in 1..n : k \notin Openers(ls) /\ k \notin Closers(ls) =>
       /\ to[k].stack = to[k - 1].stack
       /\ to[k].out = IF Active(to[k - 1].stack) THEN Append(to[k - 1].out, ls[k]) ELSE to[k - 1].out
-----------------------------------------------------------------------------
(* Relaxation: branches grow.                                               *)

\* Every label has the address of a statement it stands at.
LabelsCome(sts, n, labels) ==
  \A name \in DOMAIN labels : \E m \in 1..n : name \in Range(sts[m].labels) /\ labels[name] = sts[m].addr

\* No statement lies behind the address its labels have.
LabelsStand(sts, n, labels) ==
  \A m \in 1..n : \A name \in Range(sts[m].labels) : name \in DOMAIN labels /\ labels[name] >= sts[m].addr

\* What is reached behind each statement when all addresses are made anew.
Recounted(sts, out, n, at) ==
  /\ at \in [0..n -> Nat] /\ at[0] = 0 /\ Len(out) = n
  /\ \A m \in 1..n : /\ out[m].labels = sts[m].labels /\ out[m].addr = Max2(at[m - 1], sts[m].addr)
                     /\ at[m] = out[m].addr + StmtSize(sts[m])
                     /\ out[m].op = sts[m].op /\ out[m].args = sts[m].args /\ out[m].sec = sts[m].sec

\* The pieces of a grown chunk.
Pieces(sts, bad, n) ==
  [i \in 1..Len(sts) |->
    IF i \in bad THEN Grown(sts[i], SkipLabel(n + Cardinality({j \in bad : j > i}))) ELSE <<sts[i]>>]

\* A piece begins where its statement did, or is four statements long, and
\* takes the place of no less.
PieceOf(piece, st, moved) ==
  /\ piece[1].labels = st.labels /\ StmtSize(piece[1]) = StmtSize(st)
  /\ moved => Len(piece) = 4
  /\ ~moved => Len(piece) = 1 /\ piece[1].addr = st.addr

\* Statements before and behind one round of growing.
RisesTo(sts, out) ==
  /\ \A j \in 1..Len(out) : \A i \in 1..j : out[i].addr <= out[j].addr
  /\ \A i \in 1..Len(sts) : \E p \in 1..Len(out) : out[p].labels = sts[i].labels /\ out[p].addr >= sts[i].addr
-----------------------------------------------------------------------------
(* Three sizes of one statement, under two tables of labels.                *)

\* The labels both tables have.
Agree(m, w) == \A name \in DOMAIN m : name \in DOMAIN w => m[name] = w[name]

\* Two readings that came to an end.
Alike(r, s) == ~Failed(r) /\ ~Failed(s) => r = s

AlikeBelow(f, g, n, x) == \A y \in Places(n) : Ahead(n)[y] < Ahead(n)[x] => Alike(f[y], g[y])

\* The words of a directive: as many as both tables say, or, for those of which
\* the length is an operand, as many as that.
DirectiveWords(st, labels, ws) ==
  /\ st.op \notin {".fill", ".align"} => Len(ws) = FixedSize(st)
  /\ st.op \in {".fill", ".align"} => st.args # <<>> /\ ~Failed(Eval(st.args[1], labels))
  /\ st.op = ".fill"  => Eval(st.args[1], labels).val >= 0 /\ Len(ws) = Eval(st.args[1], labels).val
  /\ st.op = ".align" => Eval(st.args[1], labels).val >= 1 /\ Len(ws) = (-st.addr) % Eval(st.args[1], labels).val

\* What line l does to g when nothing is wrong with it.
LineTaken(g, r, l, k) ==
  LET st == Stmt(l, g.addr, g.sec, k)
      value == Eval(l.args[1], r.labels)
  IN  \/ /\ l.op = ".section" /\ r.addr = g.addr /\ r.labels = g.labels
         /\ r.stmts = Append(g.stmts, SectionLine(g, l, k)) /\ l.args # <<>>
      \/ /\ l.op # ".section" /\ Range(l.labels) \cap DOMAIN g.labels = {}
         /\ r.labels = WithLabels(g.labels, st, g.addr)
         /\ \/ l.op = ".org" /\ r.stmts = g.stmts
            \/ /\ l.op # ".org" /\ r.stmts = Append(g.stmts, st)
               /\ l.op = ".align" => l.args # <<>> /\ ~Failed(value) /\ value.val >= 1 /\ r.addr = AlignUp(g.addr, value.val)
               /\ l.op = ".fill" => l.args # <<>> /\ ~Failed(value) /\ value.val >= 0 /\ r.addr = g.addr + value.val
               /\ l.op \notin {".align", ".fill"} => r.addr = g.addr + FixedSize(st)

\* The path of the first pass over lines none of which is wrong.
FirstPass(ls, n, to) ==
  /\ to \in [0..n -> Assignments] /\ to[0] = Assigning
  /\ \A k \in 1..n : to[k] = Assign(to[k - 1], ls[k], k, FALSE) /\ LineTaken(to[k - 1], to[k], ls[k], k)

\* The table behind line k has the labels of the lines so far, but those of a
\* .section, each with the address it was met at.
Tabled(ls, to, k) ==
  /\ \A name \in DOMAIN to[k].labels :
       \E p \in 1..k : /\ ls[p].op # ".section" /\ name \in Range(ls[p].labels)
                       /\ to[k].labels[name] = to[p - 1].addr
  /\ \A p \in 1..k : ls[p].op # ".section" => Range(ls[p].labels) \subseteq DOMAIN to[k].labels

\* The statements behind line k, each where its line was met.
Standing(ls, to, k, st) ==
  /\ st.from \in 1..k /\ ls[st.from].op # ".org"
  /\ st.labels = ls[st.from].labels /\ st.op = ls[st.from].op /\ st.args = ls[st.from].args
  /\ st.addr = to[st.from - 1].addr

Stood(ls, to, k) ==
  LET sts == to[k].stmts
  IN  \A i \in 1..Len(sts) : /\ Standing(ls, to, k, sts[i])
                             /\ \A j \in 1..i : j < i => sts[j].from < sts[i].from
-----------------------------------------------------------------------------
(* Statements that lie apart, and the words they leave in the image.        *)

\* No statement writes where the next one begins.
Follow(sts) ==
  LET labels == LabelsFrom(sts)
  IN  \A i \in 1..Len(sts) :
        i < Len(sts) => sts[i].addr + Len(Encode(sts[i], labels).words) <= sts[i + 1].addr

NoErrors(sts) == \A i \in 1..Len(sts) : Encode(sts[i], LabelsFrom(sts)).err = "none"

NoneBack(ls) ==
  \A i \in 1..Len(ls) : ls[i].op = ".org" =>
    AssignAddresses(SubSeq(ls, 1, i - 1), FALSE).addr <= AssignAddresses(SubSeq(ls, 1, i), FALSE).addr

LabelledApart(ls) ==
  \A i, k \in 1..Len(ls) :
    i # k /\ ls[i].op = ".section" => Range(ls[i].labels) \cap Range(ls[k].labels) = {}

EndsOf(sts, codes) == {sts[i].addr + Len(codes[i].words) : i \in {k \in 1..Len(sts) : codes[k].words # <<>>}}
TopOf(sts, codes) == IF EndsOf(sts, codes) = {} THEN 0 ELSE Max(EndsOf(sts, codes))
ClaimsOf(sts, codes, a) == {i \in 1..Len(sts) : a - sts[i].addr \in 0..(Len(codes[i].words) - 1)}

Picture(sts, codes) ==
  [a \in 0..(TopOf(sts, codes) - 1) |->
     LET by == ClaimsOf(sts, codes, a)
     IN  IF by = {} THEN 0 ELSE codes[Max(by)].words[a - sts[Max(by)].addr + 1]]

CutAlong(cs, sts, P) ==
  /\ cs \in Seq(Seq(Stmts(Nat)))
  /\ P \in [0..Len(cs) -> Seq(Stmts(Nat))] /\ P[0] = <<>> /\ P[Len(cs)] = sts
  /\ \A k \in 1..Len(cs) : /\ cs[k] # <<>> /\ P[k] = P[k - 1] \o cs[k]
                           /\ cs[k][Len(cs[k])].sec = cs[k][1].sec
  /\ \A k \in 1..Len(cs) : k < Len(cs) => cs[k][1].sec # cs[k + 1][1].sec
-----------------------------------------------------------------------------
(* What relaxation has made of the first pass.                              *)

Marked(sts) == \E i \in 1..Len(sts) : SkipLabel(0) \in Range(sts[i].labels)
Laid(sts) == \A i \in 1..Len(sts) : i < Len(sts) => sts[i].addr + StmtSize(sts[i]) <= sts[i + 1].addr
Early == {"include", "collect", "expand", "strip", "define", "filter", "substitute", "layout"}
InOneSection(sts) == \A i \in 1..Len(sts) : sts[i].sec = sts[1].sec

\* Chunk j of the statements placed is being relaxed; before it the statements
\* are finished.  A chunk without a skip label is as the first pass left it.
Chunking(placed, C, P, j, before, now, after, r, n) ==
  /\ CutAlong(C, placed, P) /\ j \in 1..Len(C)
  /\ after = SubSeq(C, j + 1, Len(C))
  /\ now # <<>> /\ now[1].sec = C[j][1].sec
  /\ j = 1 => before = <<>>
  /\ j # 1 => \E i \in 1..Len(before) : before[i].sec = C[j - 1][1].sec
  /\ before = P[j - 1] \/ Marked(before)
  /\ (r = 0 /\ n = 0 /\ now = C[j]) \/ (Marked(now) /\ Laid(now))

Chunked(placed, before, now, after, r, n) ==
  \E C, P : \E j \in Nat : Chunking(placed, C, P, j, before, now, after, r, n)

\* The same of all statements.
Whole(placed, sts) == sts = placed \/ (Marked(sts) /\ (InOneSection(sts) => Laid(sts)))

Laying ==
  /\ stage \in Early => stmts = <<>> /\ rounds = 0 /\ skips = 0
  /\ ~source.object /\ stage \in {"relax", "encode", "done"} => AssignAddresses(lines, FALSE).err = "none"
  /\ stage = "relax" => Chunked(AssignAddresses(lines, FALSE).stmts, stmts, chunk, rest, rounds, skips)
  /\ ~source.object /\ stage \in {"encode", "done"} => Whole(AssignAddresses(lines, FALSE).stmts, stmts)
  /\ ~source.object /\ stage = "done" =>
       NoErrors(stmts) /\ image = Picture(stmts, CodesOf(stmts, LabelsFrom(stmts)))

\* The parts of s \o t that stay.
Joined(s, t, u) ==
  /\ Len(u) = Len(s) + Len(t) /\ Len(s) \in Nat /\ Len(t) \in Nat
  /\ \A i \in 1..Len(s) : i \in 1..Len(u) /\ u[i] = s[i]
  /\ \A i \in 1..Len(t) : Len(s) + i \in 1..Len(u) /\ u[Len(s) + i] = t[i]
  /\ Marked(s) \/ Marked(t) => Marked(u)
=============================================================================
