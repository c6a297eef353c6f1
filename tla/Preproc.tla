------------------------------- MODULE Preproc -------------------------------
(***************************************************************************)
(* The first six stages of the assembler (pytools/asm.py): %include,       *)
(* %macro, %define and the conditionals.  Every stage takes the list of    *)
(* lines of the one before it; a line is its labels, its first word and    *)
(* its operands.  What a stage yields is a list of lines or an error.      *)
(*                                                                         *)
(* Names are whole words: joining a parameter to other text is left out.   *)
(***************************************************************************)
EXTENDS AsmExpr, SequencesExt

SourceLine == [labels : Seq(STRING), op : STRING, args : Seq(Seq(Token))]
Line(labels, op, args) == [labels |-> labels, op |-> op, args |-> args]

\* A directive is one only at the start of its line: not behind a label.
Is(l, directive) == l.labels = <<>> /\ l.op = directive
Blank(l) == l.labels = <<>> /\ l.op = ""
NameIn(l, k) == IF l.args[k] = <<>> THEN "" ELSE l.args[k][1].sym

Lines(ls) == [lines |-> ls, err |-> "none"]
Wrong(why) == [lines |-> <<>>, err |-> why]

\* The results of a list of lines, one after another, or their first error.
AllOf(rs) ==
  LET bad == {i \in 1..Len(rs) : rs[i].err # "none"}
  IN  IF bad = {} THEN Lines(FlattenSeq([i \in 1..Len(rs) |-> rs[i].lines]))
      ELSE Wrong(rs[Min(bad)].err)

Each(Op(_), ls) == AllOf([i \in 1..Len(ls) |-> Op(ls[i])])
-----------------------------------------------------------------------------
(* Stage 1.  seen is the chain of files being included, not all of them: a   *)
(* file may come twice, but not inside itself.                               *)

\* included[<<name, seen>>]: what a file comes to.
IncludeLine(files, l, seen, included) ==
  IF ~Is(l, "%include") THEN Lines(<<l>>)
  ELSE IF NameIn(l, 1) \in seen THEN Wrong("circular %include")
  ELSE IF NameIn(l, 1) \notin DOMAIN files THEN Wrong("cannot open")
  ELSE AllOf(<<Lines(<<l>>), included[<<NameIn(l, 1), seen \cup {NameIn(l, 1)}>>]>>)

Included(files) ==
  LET included[x \in (DOMAIN files) \X SUBSET DOMAIN files] ==
        Each(LAMBDA l : IncludeLine(files, l, x[2], included), files[x[1]])
  IN  included

\* Fault: a file is remembered once it has been read.
ExpandIncludes_Once(files, main) ==
  LET twice == \E i, j \in 1..Len(files[main]) :
                 /\ i # j /\ Is(files[main][i], "%include")
                 /\ files[main][i] = files[main][j]
  IN  IF twice THEN Wrong("circular %include") ELSE Included(files)[<<main, {main}>>]

ExpandIncludes(files, main) == Included(files)[<<main, {main}>>]
-----------------------------------------------------------------------------
(* Stage 2: the table of macros.  The definitions stay in the list. *)

\* Named parameters, or a number of positional ones.
Numbered(l) == Len(l.args) = 2 /\ Len(l.args[2]) = 1 /\ l.args[2][1].sym = ""
Params(l) == IF Numbered(l) THEN [k \in 1..l.args[2][1].num |-> <<"%1", "%2", "%3">>[k]]
             ELSE [k \in 1..(Len(l.args) - 1) |-> NameIn(l, k + 1)]
Misnamed(l) == ~Numbered(l) /\ \E k \in 2..Len(l.args) : ~SimpleLabel(l.args[k])

\* Line i: the line the open definition starts at, the table and the error.
CollectLine(c, ls, i) ==
  LET bad(why) == [c EXCEPT !.err = why]
      start == ls[c.open]
      def == [params |-> Params(start), body |-> SubSeq(ls, c.open + 1, i - 1)]
  IN  IF c.err # "none" THEN c
      ELSE CASE Is(ls[i], "%macro") ->
                  IF c.open # 0 THEN bad("nested %macro")
                  ELSE IF Misnamed(ls[i]) THEN bad("invalid parameter name")
                  ELSE IF NameIn(ls[i], 1) \in {d.name : d \in c.table} THEN bad("redefinition")
                  ELSE [c EXCEPT !.open = i]
             [] Is(ls[i], "%endm") ->
                  IF c.open = 0 THEN bad("unexpected %endm")
                  ELSE [c EXCEPT !.open = 0,
                                 !.table = @ \cup {[name |-> NameIn(start, 1), def |-> def]}]
             [] OTHER -> c

CollectMacroDefs(ls) ==
  LET c == Along(LAMBDA c, i : CollectLine(c, ls, i), [open |-> 0, table |-> {}, err |-> "none"],
                 [i \in 1..Len(ls) |-> i])
  IN  IF c.err = "none" /\ c.open # 0 THEN [c EXCEPT !.err = "unterminated %macro"] ELSE c

Macros(table) == {d.name : d \in table}
Macro(table, name) == (CHOOSE d \in table : d.name = name).def
-----------------------------------------------------------------------------
(* Replacing a name by text, for macro parameters and for %define. *)

Replace(ts, name, by) ==
  FlattenSeq([i \in 1..Len(ts) |-> IF ts[i].sym = name THEN by ELSE <<ts[i]>>])

\* A label or a mnemonic can only be replaced by a name.
ReplaceIn(l, name, by) ==
  LET word(w) == IF w = name /\ by # <<>> THEN by[1].sym ELSE w
  IN  Line([k \in 1..Len(l.labels) |-> word(l.labels[k])], word(l.op),
           [k \in 1..Len(l.args) |-> Replace(l.args[k], name, by)])

\* One name after another: what a name is replaced by is searched for the next.
ReplaceEach(l, names, bys) ==
  Along(LAMBDA m, k : ReplaceIn(m, names[k], bys[k]), l, [k \in 1..Len(names) |-> k])

(* Stage 3.  Every line is expanded, those inside definitions too.  The labels
   of a call go to the first line of the body, and are lost if it has none. *)

\* Fault: the labels of a call stand on the first line, full or not.
FirstFull_Line(body) == {1} \cap 1..Len(body)
FirstFull(body) == {i \in 1..Len(body) : ~Blank(body[i])
                      /\ \A j \in 1..(i - 1) : Blank(body[j])}

Body(l, def) ==
  [i \in 1..Len(def.body) |->
     LET m == IF Blank(def.body[i]) THEN def.body[i]
              ELSE ReplaceEach(def.body[i], def.params, l.args)
     IN  IF i \in FirstFull(def.body) THEN [m EXCEPT !.labels = l.labels \o @] ELSE m]

\* expanded[<<l, expanding>>]: what a line inside the calls expanding comes to.
ExpandLine(l, table, expanding, expanded) ==
  IF l.op \notin Macros(table) THEN Lines(<<l>>)
  ELSE IF l.op \in expanding THEN Wrong("recursive macro")
  ELSE IF Len(l.args) # Len(Macro(table, l.op).params) THEN Wrong("macro arguments")
  ELSE Each(LAMBDA m : expanded[<<m, expanding \cup {l.op}>>], Body(l, Macro(table, l.op)))

Expanded(table) ==
  LET expanded[x \in SourceLine \X SUBSET Macros(table)] == ExpandLine(x[1], table, x[2], expanded)
  IN  expanded

ExpandMacros(ls, table) ==
  LET expanded == Expanded(table)
  IN  Each(LAMBDA l : expanded[<<l, {}>>], ls)

(* strip_lines *)
InDefinition(ls, i) == \E j \in 1..i : /\ Is(ls[j], "%macro")
                                       /\ \A k \in j..(i - 1) : ~Is(ls[k], "%endm")
StripLines(ls) ==
  Taken(ls, {i \in 1..Len(ls) : ~InDefinition(ls, i) /\ ~Is(ls[i], "%include") /\ ~Blank(ls[i])})
-----------------------------------------------------------------------------
(* Stage 4: the table of names, in the order of their first definition.  It  *)
(* is made before the conditionals are looked at.                            *)

Defines(l) == Is(l, "%define") /\ Len(l.args) = 2

SetIn(defs, name, val) ==
  IF \E k \in 1..Len(defs) : defs[k].name = name
  THEN [k \in 1..Len(defs) |-> IF defs[k].name = name THEN [defs[k] EXCEPT !.val = val] ELSE defs[k]]
  ELSE Append(defs, [name |-> name, val |-> val])

DefineTable(ls) ==
  Along(LAMBDA defs, l : IF Defines(l) THEN SetIn(defs, NameIn(l, 1), l.args[2]) ELSE defs, <<>>, ls)
WithoutDefines(ls) == Taken(ls, {i \in 1..Len(ls) : ~Defines(ls[i])})

Names(defs) == [k \in 1..Len(defs) |-> defs[k].name]
Values(defs) == [k \in 1..Len(defs) |-> defs[k].val]

(* Stage 5 *)
Opens(l) == Is(l, "%ifdef") \/ Is(l, "%ifeq") \/ Is(l, "%ifneq")

Malformed(l) == Len(l.args) # (IF Is(l, "%ifdef") THEN 1 ELSE 2)

\* The two values %ifeq and %ifneq compare; no label has one yet.
Operand(l, k, defs) == Eval(ReplaceEach(l, Names(defs), Values(defs)).args[k], << >>)
Unevaluable(l, defs) == ~Is(l, "%ifdef") /\ \E k \in {1, 2} : Failed(Operand(l, k, defs))

Holds(l, defs) ==
  LET same == Operand(l, 1, defs).val = Operand(l, 2, defs).val
  IN  CASE Is(l, "%ifdef") -> \E k \in 1..Len(defs) : defs[k].name = NameIn(l, 1)
        [] Is(l, "%ifeq")  -> same
        [] Is(l, "%ifneq") -> ~same

\* The stack of open conditionals, innermost last.
Active_Innermost(stack) == stack = <<>> \/ stack[Len(stack)]      \* fault
Active(stack) == \A k \in 1..Len(stack) : stack[k]

\* One line: the stack and the output.
FilterLine(f, l, defs) ==
  IF f.err # "none" THEN f
  ELSE CASE Opens(l) ->
              IF Malformed(l) THEN [f EXCEPT !.err = "malformed conditional"]
              ELSE IF Unevaluable(l, defs) THEN [f EXCEPT !.err = "conditional operand"]
              ELSE [f EXCEPT !.stack = Append(@, Holds(l, defs))]
         [] Is(l, "%endif") -> IF f.stack = <<>> THEN [f EXCEPT !.err = "%endif without %if"]
                               ELSE [f EXCEPT !.stack = Front(@)]
         [] OTHER -> IF Active(f.stack) THEN [f EXCEPT !.out = Append(@, l)] ELSE f

FilterConditionals(ls, defs) ==
  LET f == Along(LAMBDA g, l : FilterLine(g, l, defs),
                    [stack |-> <<>>, out |-> <<>>, err |-> "none"], ls)
  IN  CASE f.err # "none"                    -> Wrong(f.err)
        [] f.err = "none" /\ f.stack # <<>>  -> Wrong("unterminated conditional")
        [] OTHER                             -> Lines(f.out)

(* Stage 6 *)
Substitute(ls, defs) == [i \in 1..Len(ls) |-> ReplaceEach(ls[i], Names(defs), Values(defs))]
=============================================================================
