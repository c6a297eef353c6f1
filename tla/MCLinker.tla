------------------------------ MODULE MCLinker ------------------------------
(* Linker on small instances. *)
EXTENDS Linker, TLC

SeqUpTo(S, n) == UNION {[1..k -> S] : k \in 0..n}

Plain == [kind |-> "words", size |-> 1, name |-> "", linkage |-> "local",
          offset |-> NoOffset, when |-> TRUE, addend |-> 0]
Words(n) == [Plain EXCEPT !.size = n]
Label(nm, lk) == [Plain EXCEPT !.kind = "sym", !.size = 0, !.name = nm, !.linkage = lk]
Branch(when, nm) == [Plain EXCEPT !.kind = "brel", !.when = when, !.name = nm]
Reloc(form, nm) == [Plain EXCEPT !.kind = form, !.name = nm]
In(f, s, is) == [file |-> f, section |-> s, items |-> is]

TextOnly == [s \in {"text"} |-> 0]
TextAndData == [s \in {"text", "data"} |-> IF s = "text" THEN 0 ELSE 32]

(* One object, one section: every short sequence of items. *)
OneItems == {Words(6), Label("a", "local"), Label("b", "global"),
             Branch(TRUE, "a"), Branch(FALSE, "b")}
OnePieceJobs == {<<In("f", "text", is)>> : is \in SeqUpTo(OneItems, 4)}

(* Two objects with the same names, in one section or two. *)
TwoItems == {Words(7), Label("a", "local"), Label("a", "global"), Branch(TRUE, "a"),
             Reloc("li-imm12", "a"), Reloc("imm6-pc", "a")}
TwoPieceJobs == {<<In("f", "text", is), In("g", s, js)>> :
                   is \in SeqUpTo(TwoItems, 2), js \in SeqUpTo(TwoItems, 2),
                   s \in {"text", "data"}}

(* Chosen jobs: a cascade in which growing one branch puts the next out of
   reach, a branch with an addend, explicit offsets, three pieces of two
   sections, an extern and a weak symbol, an image too large. *)
Cascade == <<In("f", "text",
  <<Branch(TRUE, "c"), Words(2), Branch(FALSE, "b"), Words(3), Branch(TRUE, "a"), Label("c", "local"),
    Words(3), Label("b", "local"), Words(4), Label("a", "local"), Reloc("imm12", "c"),
    Reloc("jmp-target12", "b"), Reloc("call-target12", "c")>>)>>
Addends == <<In("f", "text",
  <<Label("a", "local"), Words(3), [Branch(TRUE, "a") EXCEPT !.addend = 2],
    [Branch(FALSE, "a") EXCEPT !.addend = 40], Words(5), [Reloc("imm12", "a") EXCEPT !.addend = -1]>>)>>
Offsets == <<In("f", "text",
  <<[Label("a", "global") EXCEPT !.offset = 30], Branch(TRUE, "a"), Reloc("imm6-pc", "b"),
    Label("b", "weak"), Words(2)>>)>>
ThreePieces == <<In("f", "text", <<Branch(TRUE, "g"), Words(2), Label("x", "local"), Branch(FALSE, "x")>>),
                 In("f", "data", <<Label("d", "global"), Words(3), Reloc("imm12", "g")>>),
                 In("g", "text", <<Words(5), Label("g", "global"), Reloc("li-imm12", "d"),
                                   Label("d", "extern"), Branch(TRUE, "d")>>)>>
TooLarge == <<In("f", "text", <<Words(40)>>), In("g", "text", <<Words(25)>>)>>
\* A section without a base, which falls onto the start of text.
Unpinned == <<In("f", "extra", <<Label("e", "global"), Words(2)>>),
              In("f", "text", <<Words(3), Reloc("imm12", "e"), Branch(TRUE, "e")>>)>>
Chosen == {Unpinned, Cascade, Addends, Offsets, ThreePieces, TooLarge}

AllJobs == OnePieceJobs \cup TwoPieceJobs \cup Chosen
=============================================================================
