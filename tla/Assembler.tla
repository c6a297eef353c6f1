------------------------------ MODULE Assembler ------------------------------
(***************************************************************************)
(* Assembler.assemble and assemble_object (pytools/asm.py): one source     *)
(* file and what it includes, through the stages of modules Preproc and    *)
(* AsmLayout, into a flat image, or through ObjEmit and ObjText into the   *)
(* text of an object file and back into what the linker is given.          *)
(*                                                                         *)
(* One action is one stage, one round of relaxation, or the writing or     *)
(* reading of the object file.  A run that is killed while it writes       *)
(* leaves the lines written so far: write_object_file writes in place.     *)
(***************************************************************************)
EXTENDS ObjText

CONSTANTS Sources,      \* [files, main, object, cli]: what is assembled, and how
          MaxRounds     \* rounds of relaxation per chunk; 20 in the code

ASSUME RoundsAssumption == MaxRounds \in Nat
ASSUME SourcesAssumption ==
  \A s \in Sources :
    /\ IsFiniteSet(DOMAIN s.files) /\ s.main \in DOMAIN s.files
    /\ \A f \in DOMAIN s.files : s.files[f] \in Seq(SourceLine)
    /\ s.object \in BOOLEAN /\ s.cli \in Seq([name : STRING, val : Seq(Token)])

VARIABLES
  source,
  stage,     \* "include", "collect", "expand", "strip", "define", "filter",
             \* "substitute", "layout", "relax", "encode", "emit", "write",
             \* "read", "done", "failed"
  err,       \* why it failed
  lines,     \* the list of lines, as the last stage left it
  table,     \* the macros
  defs,      \* the defines
  stmts,     \* the statements laid out; in stage "relax" those of finished chunks
  chunk, rest,   \* the chunk being relaxed and those still to come
  rounds,    \* of this chunk
  skips,     \* skip labels used up in this chunk
  image,     \* the words of the flat image, by address
  obj,       \* the sections of the object
  text,      \* the object file
  back       \* its sections, as the linker reads them

vars == <<source, stage, err, lines, table, defs, stmts, chunk, rest, rounds, skips, image, obj, text, back>>
front == <<source, lines, table, defs>>
relaxing == <<chunk, rest, rounds, skips>>
output == <<image, obj, text, back>>
-----------------------------------------------------------------------------
Init ==
  /\ source \in Sources
  /\ stage = "include" /\ err = "none"
  /\ lines = <<>> /\ table = {} /\ defs = <<>>
  /\ stmts = <<>> /\ chunk = <<>> /\ rest = <<>> /\ rounds = 0 /\ skips = 0
  /\ image = << >> /\ obj = <<>> /\ text = <<>> /\ back = <<>>

\* A stage with an error ends the run.
Goto(s, why) == /\ stage' = IF why = "none" THEN s ELSE "failed"
                /\ err' = why

Include ==
  /\ stage = "include"
  /\ LET r == ExpandIncludes(source.files, source.main)
     IN  lines' = r.lines /\ Goto("collect", r.err)
  /\ UNCHANGED <<source, table, defs, stmts, relaxing, output>>

Collect ==
  /\ stage = "collect"
  /\ LET r == CollectMacroDefs(lines)
     IN  table' = r.table /\ Goto("expand", r.err)
  /\ UNCHANGED <<source, lines, defs, stmts, relaxing, output>>

Expand ==
  /\ stage = "expand"
  /\ LET r == ExpandMacros(lines, table)
     IN  lines' = r.lines /\ Goto("strip", r.err)
  /\ UNCHANGED <<source, table, defs, stmts, relaxing, output>>

Strip ==
  /\ stage = "strip"
  /\ lines' = StripLines(lines) /\ Goto("define", "none")
  /\ UNCHANGED <<source, table, defs, stmts, relaxing, output>>

\* Names given with -D, for objects only, come after and win.
Define ==
  /\ stage = "define"
  /\ defs' = Along(LAMBDA ds, d : SetIn(ds, d.name, d.val), DefineTable(lines),
                      IF source.object THEN source.cli ELSE <<>>)
  /\ lines' = WithoutDefines(lines)
  /\ Goto("filter", "none")
  /\ UNCHANGED <<source, table, stmts, relaxing, output>>

Filter ==
  /\ stage = "filter"
  /\ LET r == FilterConditionals(lines, defs)
     IN  lines' = r.lines /\ Goto("substitute", r.err)
  /\ UNCHANGED <<source, table, defs, stmts, relaxing, output>>

Subst ==
  /\ stage = "substitute"
  /\ lines' = Substitute(lines, defs) /\ Goto("layout", "none")
  /\ UNCHANGED <<source, table, defs, stmts, relaxing, output>>

Layout ==
  /\ stage = "layout"
  /\ LET g == AssignAddresses(lines, source.object)
         chunks == Chunks(g.stmts)
     IN  /\ IF source.object
            THEN /\ Goto("emit", g.err)
                 /\ stmts' = g.stmts
                 /\ UNCHANGED relaxing
            ELSE /\ Goto(IF chunks = <<>> THEN "encode" ELSE "relax", g.err)
                 /\ chunk' = IF chunks = <<>> THEN <<>> ELSE Head(chunks)
                 /\ rest' = IF chunks = <<>> THEN <<>> ELSE Tail(chunks)
                 /\ UNCHANGED <<stmts, rounds, skips>>
  /\ UNCHANGED <<front, output>>

(* One round: every branch out of reach grows, then all addresses of the
   chunk are made anew. *)
Relax ==
  /\ stage = "relax" /\ rounds < MaxRounds
  /\ LET bad == Violations(chunk)
     IN  /\ bad # {}
         /\ chunk' = Recompute(Grow(chunk, bad, skips))
         /\ skips' = skips + Cardinality(bad)
  /\ rounds' = rounds + 1
  /\ UNCHANGED <<front, stage, err, stmts, rest, output>>

\* A chunk is finished when nothing is out of reach, or the rounds are used up;
\* the numbers of the skip labels start again.
Settle ==
  /\ stage = "relax"
  /\ rounds = MaxRounds \/ Violations(chunk) = {}
  /\ stmts' = stmts \o chunk
  /\ rounds' = 0 /\ skips' = 0
  /\ IF rest = <<>> THEN Goto("encode", "none") /\ chunk' = <<>> /\ UNCHANGED rest
     ELSE chunk' = Head(rest) /\ rest' = Tail(rest) /\ UNCHANGED <<stage, err>>
  /\ UNCHANGED <<front, output>>

(* _encode_all: the labels are those of the final statements; of two words
   for one address the later one stays.  Statements without a single word
   crash the assembler, an empty program does not. *)
Codes == LET labels == LabelsFrom(stmts)
         IN  Along(LAMBDA cs, st : Append(cs, Encode(st, labels)), <<>>, stmts)

\* The statements with a word for address a, and the addresses in use.
Claims(codes, a) == {i \in 1..Len(stmts) : a - stmts[i].addr \in 0..(Len(codes[i].words) - 1)}
Size(codes) == LET ends == {stmts[i].addr + Len(codes[i].words) : i \in {k \in 1..Len(stmts) : codes[k].words # <<>>}}
               IN  IF ends = {} THEN 0 ELSE Max(ends)

EncodeAll ==
  /\ stage = "encode"
  /\ \E codes \in {Codes} :
       LET bad == {i \in 1..Len(stmts) : codes[i].err # "none"}
       IN  IF bad # {} THEN Goto("done", codes[Min(bad)].err) /\ UNCHANGED image
           ELSE /\ Goto("done", IF stmts # <<>> /\ Size(codes) = 0 THEN "crash" ELSE "none")
                /\ image' = [a \in 0..(Size(codes) - 1) |->
                               LET by == Claims(codes, a)
                               IN  IF by = {} THEN 0 ELSE codes[Max(by)].words[a - stmts[Max(by)].addr + 1]]
  /\ UNCHANGED <<front, stmts, relaxing, obj, text, back>>

Emit ==
  /\ stage = "emit"
  /\ \E o \in {EncodeToObject(stmts)} : Goto("write", o.err) /\ obj' = o.sections
  /\ UNCHANGED <<front, stmts, relaxing, image, text, back>>

\* The file holds all lines, or, after a crash, the first n.
Write ==
  /\ stage = "write"
  /\ LET all == RenderObject(obj)
     IN  \E n \in 0..Len(all) : text' = SubSeq(all, 1, n)
  /\ Goto("read", "none")
  /\ UNCHANGED <<front, stmts, relaxing, image, obj, back>>

ReadBack ==
  /\ stage = "read"
  /\ LET r == ParseObject(text)
     IN  Goto("done", r.err) /\ back' = r.sections
  /\ UNCHANGED <<front, stmts, relaxing, image, obj, text>>

\* There is nothing to do behind the last stage; anywhere else, something.
Finished == stage \in {"done", "failed"} /\ UNCHANGED vars

Next == Include \/ Collect \/ Expand \/ Strip \/ Define \/ Filter \/ Subst \/ Layout
        \/ Relax \/ Settle \/ EncodeAll \/ Emit \/ Write \/ ReadBack \/ Finished

Spec == Init /\ [][Next]_vars
-----------------------------------------------------------------------------
(* Preprocessing. *)

\* The files, or macros, that name is led to by includes, or calls, in any
\* number of steps.
Leading(direct) == UNION {direct[m] : m \in DOMAIN direct}
Closed(S, direct) == \A m \in S \cap DOMAIN direct : direct[m] \subseteq S
Reached(name, direct) ==
  {n \in Leading(direct) : \A S \in SUBSET Leading(direct) :
                             direct[name] \subseteq S /\ Closed(S, direct) => n \in S}
Cyclic(name, direct) ==
  \E m \in {name} \cup (Reached(name, direct) \cap DOMAIN direct) : m \in Reached(m, direct)

IncludesOf(ls) == {NameIn(ls[i], 1) : i \in {k \in 1..Len(ls) : Is(ls[k], "%include")}}
IncludeGraph == [f \in DOMAIN source.files |-> IncludesOf(source.files[f])]
CallGraph == [m \in Macros(table) |-> {Macro(table, m).body[i].op : i \in 1..Len(Macro(table, m).body)}
                                      \cap Macros(table)]

\* No parameter stands for a mnemonic of the body: what a macro calls is
\* written in it.
CallsAreWritten == \A d \in table : \A i \in 1..Len(d.def.body), k \in 1..Len(d.def.params) :
                     d.def.body[i].op # d.def.params[k]

\* Files that include one another and macros that call one another are
\* refused, and nothing else is refused for that: a file may come in twice.
\* A macro that calls itself is refused even if nothing calls it.
CyclesAreRefused ==
  /\ err = "circular %include" => Cyclic(source.main, IncludeGraph)
  /\ stage \notin {"include", "failed"} => ~Cyclic(source.main, IncludeGraph)
  /\ err = "recursive macro" /\ CallsAreWritten => \E m \in DOMAIN CallGraph : Cyclic(m, CallGraph)
  /\ stage \notin {"include", "collect", "expand", "failed"} /\ CallsAreWritten =>
       \A m \in DOMAIN CallGraph : ~Cyclic(m, CallGraph)

\* A call all of whose parameters are replaced at the same time.
AtOnce(l, def) ==
  LET place(w) == CHOOSE k \in 1..Len(def.params) : def.params[k] = w
      token(t) == IF t.sym \in Range(def.params) THEN l.args[place(t.sym)] ELSE <<t>>
      word(w) == IF w \in Range(def.params) THEN l.args[place(w)][1].sym ELSE w
      line(m) == Line([k \in 1..Len(m.labels) |-> word(m.labels[k])], word(m.op),
                      [k \in 1..Len(m.args) |-> FlattenSeq([n \in 1..Len(m.args[k]) |-> token(m.args[k][n])])])
      full == SelectSeq(def.body, LAMBDA m : ~Blank(m))
  IN  [i \in 1..Len(full) |-> IF i = 1 THEN [line(full[1]) EXCEPT !.labels = l.labels \o @]
                             ELSE line(full[i])]

\* No operand of the call holds the name of a later parameter.
Uncaptured(l, def) ==
  \A j, k \in 1..Len(def.params) :
    j < k => \A n \in 1..Len(l.args[j]) : l.args[j][n].sym # def.params[k]

Flat(def) == \A i \in 1..Len(def.body) : def.body[i].op \notin Macros(table)

\* Macro calls mean what their definitions say, labels included: as long as no
\* operand of a call names a later parameter of the macro, replacing one
\* parameter after another is replacing them all at once.
CallsMeanTheirBodies ==
  [][(Expand /\ err' = "none") =>
       LET calls(i) == lines[i].op \in Macros(table) /\ ~InDefinition(lines, i)
           def(i) == Macro(table, lines[i].op)
       IN  (\A i \in 1..Len(lines) : calls(i) => Flat(def(i)) /\ Uncaptured(lines[i], def(i)))
             => StripLines(lines') =
                  StripLines(FlattenSeq([i \in 1..Len(lines) |->
                    IF calls(i) THEN AtOnce(lines[i], def(i)) ELSE <<lines[i]>>]))]_vars

\* A line is assembled if and only if every conditional around it holds; the
\* filter keeps no directive and accepts nothing unbalanced.
Encloses(ls, j, i) ==
  /\ j < i /\ Opens(ls[j])
  /\ \A k \in j..i : Cardinality({m \in j..k : Opens(ls[m])}) > Cardinality({m \in j..k : Is(ls[m], "%endif")})
Survives(ls, i) == /\ ~Opens(ls[i]) /\ ~Is(ls[i], "%endif")
                   /\ \A j \in 1..i : Encloses(ls, j, i) => Holds(ls[j], defs)
ConditionalsNest ==
  [][(Filter /\ err' = "none") =>
       /\ lines' = Taken(lines, {i \in 1..Len(lines) : Survives(lines, i)})
       /\ Cardinality({i \in 1..Len(lines) : Opens(lines[i])})
            = Cardinality({i \in 1..Len(lines) : Is(lines[i], "%endif")})]_vars
-----------------------------------------------------------------------------
(* The flat image. *)

Assembled == stage = "done" /\ err = "none" /\ ~source.object

\* What relaxation is known to break: sections behind a section that has
\* grown, .align and .fill of labels behind a branch that has.
HasGrown == \E i \in 1..Len(stmts) : Range(stmts[i].labels) \cap {SkipLabel(n) : n \in 0..9} # {}
OneChunk == \A i \in 1..Len(stmts) : stmts[i].sec = stmts[1].sec
Measured(st) == \/ st.op = ".align"
                \/ st.op = ".fill" /\ Failed(Eval(st.args[1], << >>))
Unspoiled == HasGrown => OneChunk /\ \A i \in 1..Len(stmts) : ~Measured(stmts[i])

\* No .org leads back into what has been laid out.
ReachedBy(i) == AssignAddresses(SubSeq(lines, 1, i), source.object).addr
Forward == \A i \in 1..Len(lines) : lines[i].op = ".org" => ReachedBy(i - 1) <= ReachedBy(i)

\* Labels on the line of a .section are not in the table the first pass works
\* with, so nothing refuses one that stands elsewhere too; the final table has it.
SectionsLabelledApart ==
  \A i, k \in 1..Len(lines) :
    i # k /\ lines[i].op = ".section" => Range(lines[i].labels) \cap Range(lines[k].labels) = {}

Words(i, labels) == Encode(stmts[i], labels).words

\* The sizes the two layouts use are those of the code: no two statements
\* write to the same word, and every statement's words are in the image.  The
\* three conditions leave out what asm.py is known to lay out wrongly: labels
\* the first pass does not see, an .org that leads back, and growth in front of
\* statements that relaxation takes for nothing or in several sections.
WordsDoNotOverlap ==
  Assembled /\ Unspoiled /\ Forward /\ SectionsLabelledApart =>
    LET labels == LabelsFrom(stmts)
    IN  \A i \in 1..Len(stmts) :
          LET ws == Words(i, labels)
          IN  /\ \A k \in 1..Len(ws) : image[stmts[i].addr + k - 1] = ws[k]
              /\ i < Len(stmts) => stmts[i].addr + Len(ws) <= stmts[i + 1].addr

\* The CPU on an image that holds a branch: pc and r4 after one instruction.
Step(s, T) ==
  LET w == image[s.pc]
      off == BranchOffset(Rd(w), Imm6(w))
      flagged == IF Op(w) = LUI THEN T = 0 ELSE T = 1
  IN  CASE Op(w) \in {LUI, ADDI} /\ Rd(w) \in {0, 7} ->
             [s EXCEPT !.pc = IF flagged THEN s.pc + off ELSE s.pc + 1]
        [] Op(w) = LUI /\ Rd(w) = 4  -> [pc |-> s.pc + 1, r4 |-> 64 * Imm6(w)]
        [] Op(w) = ADDI /\ Rd(w) = 4 -> [pc |-> s.pc + 1, r4 |-> (s.r4 + Imm6(w)) % Space]
        [] w = R3(SPEC, 0, 4, JALR)  -> [s EXCEPT !.pc = s.r4]
        [] OTHER                     -> s

\* Where the branch of line k, at address a and size words long, leads.
Leads(a, size, T) ==
  Along(LAMBDA s, n : IF s.pc \in a..(a + size - 1) THEN Step(s, T) ELSE s,
        [pc |-> a, r4 |-> 0], <<1, 2, 3, 4>>).pc

\* The branch of one line of the source: its statements, one or four.
BranchLines == {l \in {stmts[i].from : i \in 1..Len(stmts)} :
                  \E i \in 1..Len(stmts) : stmts[i].from = l /\ Branch(stmts[i])}
PartsOf(l) == {i \in 1..Len(stmts) : stmts[i].from = l}
StartOf(l) == stmts[Min(PartsOf(l))].addr
SizeOf(l) == IF Cardinality(PartsOf(l)) = 1 THEN 1 ELSE 4

BranchesGo ==
  LET labels == LabelsFrom(stmts)
  IN  \A l \in BranchLines, T \in {0, 1} :
        LET written == lines[l]
            taken == IF written.op = "bt" THEN T = 1 ELSE T = 0
        IN  Leads(StartOf(l), SizeOf(l), T)
              = IF taken THEN labels[Target(written)] ELSE StartOf(l) + SizeOf(l)

\* compiler/MANUAL.md:499: 'Branch relaxation is automatic ... You do not need
\* to think about branch distance in source.'  Every branch of an assembled
\* image leads to its label when T says so, and behind itself when not.
BranchesLead == Assembled /\ Forward => BranchesGo

\* The same where relaxation has not moved the parts of the image that it is
\* known to lose, and whatever the number of rounds: a branch that is still
\* out of reach when they are used up is never encoded wrongly.
BranchesLeadInOneSection == Assembled /\ Unspoiled /\ Forward => BranchesGo

Falls == LET before == LabelsFrom(chunk)
             after == LabelsFrom(chunk')
         IN  \E n \in DOMAIN before : after[n] < before[n]

\* A branch out of reach right behind a gap: relaxation forgets its address.
AfterGap(i) == chunk[i].addr > IF i = 1 THEN 0 ELSE chunk[i - 1].addr + StmtSize(chunk[i - 1])
Forgets == \E i \in Violations(chunk) : AfterGap(i)

\* asm.py:818: 'Forward jumps in that original placement (from .org, alignment,
\* etc.) must be preserved'.  Growing branches moves code up and no label falls
\* back, but where a branch that grows itself stands behind a gap.
LabelsOnlyRise == [][Relax /\ ~Forgets => ~Falls]_vars

\* The words of a .word are the values of its operands, read with the usual
\* precedence and from the left.
WordsHaveTheirValues ==
  Assembled /\ Unspoiled /\ Forward =>
    \A i \in 1..Len(stmts) : stmts[i].op = ".word" =>
      \A k \in 1..Len(stmts[i].args) :
        image[stmts[i].addr + k - 1] = Meaning(stmts[i].args[k], LabelsFrom(stmts)) % Space
-----------------------------------------------------------------------------
(* Objects. *)

Emitted_ == stage = "write"

\* An .align measures from the start of its section once it is normalized;
\* the first pass measured from address 0.
AlignedTwice(sts) ==
  \A i \in 1..Len(sts) : sts[i].op = ".align" =>
    LET n == Eval(sts[i].args[1], << >>) IN ~Failed(n) /\ BaseOf(sts) % n.val = 0

\* Where the linker, counting records, puts a label is where the first pass,
\* counting words, put it, as long as no .org leads back and the section
\* starts on a multiple of what its .align directives ask for.
LabelsLieWhereCounted ==
  Emitted_ => \A s \in 1..Len(obj) :
    LET norm == Normalized(InSection(stmts, obj[s].name))
        items == Items(obj[s].recs)
    IN  Forward /\ AlignedTwice(InSection(stmts, obj[s].name)) =>
          /\ items # <<Orphan>>
          /\ \A k \in 1..Len(items) : items[k].kind = "sym" =>
               Offsets(items)[k] = LabelsFrom(norm)[items[k].name]

\* What linking the only section at base makes of word o of an item at offset at.
Linked(r, at, o, base, labels) ==
  LET v == labels[r.name] % Space
  IN  CASE r.kind = "word"     -> r.n
        [] r.kind = "brel"     -> BranchWord(r.form, labels[r.name] - (base + at)).words[1]
        [] r.form = "imm12"    -> v
        [] r.form = "li-imm12" -> IF o = 0 THEN v \div 64 ELSE v % 64

\* The part of an instruction an li-imm12 reloc fills in.
Field(item, w) == IF item.kind = "reloc" /\ item.form = "li-imm12" THEN w % 64 ELSE w

\* A label inside an expression is worth its offset in the section.
Apart(ts) == SimpleLabel(ts) \/ \A k \in 1..Len(ts) : ~IsName(ts[k])

\* toolchain_checks.py verifies it of the sources it has: an object linked
\* where its only section stood is the flat image, word for word, if no branch
\* had to grow and, unless the section stood at 0, no label is part of a longer
\* expression.
ObjectsLinkToTheImage ==
  LET labels == LabelsFrom(stmts)
      base == IF stmts = <<>> THEN 0 ELSE BaseOf(stmts)
      items == Items(obj[1].recs)
  IN  (/\ Emitted_ /\ Len(obj) = 1 /\ Forward /\ AlignedTwice(stmts)
       /\ \A i \in 1..Len(stmts) : Branch(stmts[i]) => /\ Target(stmts[i]) \in DOMAIN labels
                                                       /\ InReach(labels[Target(stmts[i])] - stmts[i].addr)
       /\ \A k \in 1..Len(items) : items[k].kind = "reloc" => items[k].name \in DOMAIN labels
       /\ base = 0 \/ \A i \in 1..Len(stmts) : \A k \in 1..Len(stmts[i].args) : Apart(stmts[i].args[k]))
      => \A i \in 1..Len(stmts) :
           LET ws == Words(i, labels)
           IN  \A k \in 1..Len(ws) : \E j \in 1..Len(items) :
                 LET at == Offsets(items)[j]
                     o == stmts[i].addr + k - 1 - base - at
                 IN  /\ o \in 0..(ItemSize(items[j]) - 1)
                     /\ Linked(items[j], at, o, base, labels) = Field(items[j], ws[k])

\* An object file cut off by a crash is refused, or it was cut between two
\* sections; no section is ever read with only a part of its records.
SectionsComeWhole ==
  source.object /\ stage = "done" /\ err = "none" =>
    \E n \in 0..Len(obj) : back = Reverse(SubSeq(obj, 1, n))
=============================================================================
