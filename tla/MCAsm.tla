------------------------------- MODULE MCAsm -------------------------------
(* Assembler on small sources. *)
EXTENDS Assembler

SeqUpTo(S, n) == UNION {[1..k -> S] : k \in 0..n}

Src(files, object) == [files |-> files, main |-> "main", object |-> object, cli |-> <<>>]
Flats(lss) == {Src([main |-> ls], FALSE) : ls \in lss}
Objects(lss) == {Src([main |-> ls], TRUE) : ls \in lss}

\* op with its operands, each a single token; R is a register.
I(op, toks) == Line(<<>>, op, [k \in 1..Len(toks) |-> <<toks[k]>>])
At(label, l) == [l EXCEPT !.labels = <<label>> \o @]
Blank_ == I("", <<>>)
WordOf(n) == I(".word", <<Num(n)>>)
Fill(n) == I(".fill", <<Num(n)>>)
Bt(name) == I("bt", <<Id(name)>>)
Bf(name) == I("bf", <<Id(name)>>)
Section(name) == I(".section", <<Id(name)>>)
Li(name) == I("li", <<Id("r1"), Id(name)>>)

(* Conditionals: every sequence of up to four lines, and of some of five. *)
Conds == {I("%ifdef", <<Id("p")>>), I("%ifeq", <<Id("p"), Num(1)>>), I("%ifneq", <<Id("p"), Num(1)>>),
          I("%endif", <<>>), I("%define", <<Id("p"), Num(1)>>), WordOf(5)}
Conditionals ==
  Flats(SeqUpTo(Conds, 4))
  \cup {[Src([main |-> ls], TRUE) EXCEPT !.cli = <<[name |-> "p", val |-> <<Num(n)>>]>>] :
          ls \in [1..3 -> Conds], n \in {1, 2}}
  \cup Flats([1..5 -> {I("%ifdef", <<Id("q")>>), I("%ifneq", <<Num(0), Num(1)>>), I("%endif", <<>>), WordOf(5)}])

(* Macros. *)
Body1 == At("b", I(".word", <<Id("a"), Id("b")>>))
MacroLines == {I("%macro", <<Id("m"), Id("a"), Id("b")>>), I("%endm", <<>>), Blank_, Body1,
               I("m", <<Id("b"), Id("x")>>), At("x", I("m", <<Id("x"), Id("y")>>)), I("m", <<Num(1)>>)}
Define1(name, body) == <<I("%macro", <<Id(name), Id("a")>>)>> \o body \o <<I("%endm", <<>>)>>
Calls(name) == I(name, <<Id("a")>>)
Nested == {Define1("m", b1) \o Define1("n", b2) \o <<At("x", I("m", <<Num(1)>>))>> :
             b1, b2 \in {<<>>, <<Blank_, I(".word", <<Id("a")>>)>>, <<Calls("m")>>, <<Calls("n")>>,
                         <<WordOf(2), Calls("n"), At("y", Blank_)>>}}
Positional == {<<I("%macro", <<Id("m"), Num(2)>>), I(".word", <<Id("%2"), Id("%1")>>), I("%endm", <<>>),
                 I("m", <<Num(1), c>>)>> : c \in {Num(2), Id("%1")}}
Renaming == {<<I("%macro", <<Id("m"), Id(p)>>), I(q, <<Id("m")>>), I("%endm", <<>>)>>
               \o Define1("n", <<Calls("m")>>) \o <<I("m", <<Id(r)>>)>> : p, q \in {"a", "n", "~"}, r \in {"m", "n", "nop"}}
MacroSources == Flats(SeqUpTo(MacroLines, 4) \cup Nested \cup Positional \cup Renaming)
  \cup Flats({<<I("%macro", <<Id("m"), Id("a"), Id("b")>>), x, Body1, I("%endm", <<>>), y, z>> :
                x \in {Blank_, Body1}, y, z \in MacroLines})

(* Files that include one another. *)
Inc(f) == I("%include", <<Id(f)>>)
Includes == {Src([main |-> m, f |-> f, g |-> g], FALSE) :
               m \in SeqUpTo({Inc("f"), Inc("g"), WordOf(1)}, 2),
               f \in SeqUpTo({Inc("f"), Inc("g"), Inc("main"), WordOf(2)}, 2),
               g \in SeqUpTo({Inc("f"), Inc("none"), WordOf(3)}, 1)}

(* Expressions: the label x stands at 7. *)
Ops == {"|", "^", "&", "<<", ">>", "+", "-", "*", "/", "%"}
P(toks) == <<I(".org", <<Num(7)>>), Line(<<"x">>, ".word", <<toks>>)>>
B == 3
Terms == {<<Num(2)>>, <<Id("-"), Num(B)>>, <<Id("x")>>}
Binaries == {<<Num(9), Id(p)>> \o t \o <<Id(q), Num(2)>> : p, q \in Ops, t \in Terms}
Grouped == {<<Num(9), Id(p), Id("("), Id("x"), Id(q), Num(2), Id(")"), Id("-"), Num(1)>> : p, q \in Ops}
Odd == [1..3 -> {Num(3), Id("x"), Id("nix"), Id("-"), Id("~"), Id("("), Id(")"), Id("/")}]
Expressions == Flats({P(ts) : ts \in Binaries \cup Grouped \cup Odd \cup {<<>>}})

(* Layout: a branch over a gap that just is, or just is not, in its reach. *)
Gaps == {Fill(60), Fill(63), I("li", <<Id("r1"), Num(-1)>>), I("xor", <<Id("r1"), Id("r2"), Id("r3")>>),
         I(".align", <<Num(4)>>), I(".org", <<Num(66)>>), Section("s"), At("y", Bf("x"))}
Layouts ==
  Flats({<<h>> \o mid \o <<At("x", t)>> : h \in {Bt("x"), WordOf(1), At("y", Bf("x"))},
                                       mid \in SeqUpTo(Gaps, 2), t \in {WordOf(9), Bt("y")}})
Rounds == Flats({<<Bt("x"), a, At("y", Bf("z")), b, At("x", WordOf(1)), c, Bt("y"), At("z", WordOf(2))>> :
                   a, b, c \in {Fill(n) : n \in {3, 58, 59, 60, 61, 62}}})
Runs == Flats({<<At("x", Fill(65)), b, Section("s"), Fill(n), c, Fill(64), At("z", WordOf(1))>> :
                 b \in {Bt("x"), Bf("x")}, n \in {0, 10}, c \in {Bt("z"), Bf("z")}})
Singles == {I("nop", <<>>), I("halt", <<>>), I("ret", <<>>), I("clrt", <<>>), I("set", <<>>),
            I("mov", <<Id("r1"), Id("r2")>>), I("neg", <<Id("r1"), Id("r2")>>), I("not", <<Id("r1"), Id("r2")>>),
            I("test", <<Id("r1")>>), I("clr", <<Id("r1")>>), I("add", <<Id("r1"), Id("r2"), Id("r9")>>),
            I("lwr", <<Id("r1"), Id("r2")>>), I("lui", <<Id("r7"), Num(1)>>), I("addi", <<Id("r1"), Num(64)>>),
            I("subi", <<Id("r1"), Num(1)>>), I("or", <<Id("r4"), Id("r1"), Id("r2")>>),
            I("or", <<Id("r1"), Id("r2"), Id("r3")>>), I("lw", <<Id("r1")>>), I("bt", <<Num(3)>>),
            I("bt", <<Id("nix")>>), Line(<<>>, "test", <<<<Id("r1"), Id("+"), Num(1)>>>>),
            I("li", <<Id("r0"), Num(1)>>), Li("x"), I("fill", <<>>),
            Line(<<>>, ".str", <<<<Num(65), Num(66)>>>>), Line(<<>>, ".strz", <<<<Num(65)>>>>),
            Line(<<>>, ".sixbit", <<<<Num(65), Num(97)>>>>), I(".global", <<Id("x")>>), I(".local", <<Id("x")>>),
            I(".base", <<Id("r1"), Num(5)>>), I(".align", <<Num(0)>>), Fill(-1), Fill(2),
            Line(<<>>, ".float", <<<<Num(1), Num(2), Num(3), Num(4)>>>>), At("x", Blank_), At("x", WordOf(1))}
Statements == {<<At("x", WordOf(1)), a, b, WordOf(7)>> : a \in Singles, b \in {Blank_, Li("x"), At("y", WordOf(3))}}

(* Objects. *)
ObjLines == {At("x", Blank_), At("y", WordOf(4)), Li("x"), Bt("x"), Section("s"), Section("text"),
             I(".align", <<Num(4)>>), I(".org", <<Num(9)>>), I(".word", <<Id("x"), Num(3), Id("y")>>),
             Line(<<>>, ".word", <<<<Id("x"), Id("+"), Num(1)>>>>), I(".global", <<Id("x")>>), Fill(3)}
Placed == {I(".org", <<Num(9)>>), Section("s"), Section("text"), I(".align", <<Num(3)>>), At("x", Blank_), Li("x")}
ObjectSources == Objects(SeqUpTo(ObjLines, 3) \cup Statements \cup [1..4 -> Placed])

\* Labels on the line of a section, which another line may have too.
Labelled == {<<At("x", a), b, At(n, Section("s")), c, At("z", d)>> :
               n \in {"x", "y"}, a \in {WordOf(1), I(".org", <<Num(2)>>)}, b \in {WordOf(2), Bt("x"), Bt("y")},
               c \in {I(".fill", <<Id("x")>>), I(".align", <<Id("x")>>), Li("x")}, d \in {WordOf(5), Bf("x")}}

AllSources == UNION {Conditionals, MacroSources, Includes, Expressions, Layouts, Rounds, Runs,
                     Flats(Statements \cup Labelled), Objects(Labelled), ObjectSources}
=============================================================================
