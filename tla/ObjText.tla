------------------------------- MODULE ObjText -------------------------------
(***************************************************************************)
(* The text of an object file (pytools/objfmt.py): one line per record,    *)
(* written by render_object and read back line by line by parse_object.    *)
(* A line is the sequence of its words; a number is written in octal, with *)
(* a sign, or not at all, and what that does to its value is modelled.     *)
(***************************************************************************)
EXTENDS ObjEmit

Version == 1

W(s) == [word |-> s, val |-> 0]
N(n) == [word |-> "", val |-> n]        \* a number that reads as n

\* _render_addend leaves 0 out.
Addend(n) == IF n = 0 THEN <<>> ELSE <<N(n)>>

RenderRec(r) ==
  CASE r.kind = "word"  -> <<W("word"), N(r.n % Space)>>
    [] r.kind = "zero"  -> <<W("zero"), N(r.n)>>
    [] r.kind = "sym"   -> <<W("sym"), W(r.name), W(r.form)>>
                           \o (IF r.offset = NoOffset THEN <<>> ELSE <<N(r.offset)>>)
    [] r.kind \in {"reloc", "brel"} -> <<W(r.kind), W(r.form), W(r.name)>> \o Addend(r.n)

RenderSection(s) ==
  <<<<W("section"), W(s.name)>>>> \o [k \in 1..Len(s.recs) |-> RenderRec(s.recs[k])] \o <<<<W("endsec")>>>>

RenderObject(sections) ==
  <<<<W("rrisc-obj"), N(Version)>>>> \o FlattenSeq([k \in 1..Len(sections) |-> RenderSection(sections[k])])

(* parse_object *)
Linkages == {"local", "global", "extern", "weak"}
Forms == {"imm12", "li-imm12", "jmp-target12", "call-target12", "imm6-pc"}

IsNum(t) == t.word = ""
Read(r) == [rec |-> r, err |-> "none"]
Unread(why) == [rec |-> Zero(0), err |-> why]

AddendRec(kind, forms, ln) ==
  CASE Len(ln) < 3              -> Unread("too few words")
    [] Len(ln) >= 3 /\ ln[2].word \notin forms -> Unread("unknown kind")
    [] Len(ln) = 3 /\ ln[2].word \in forms -> Read(Rec(kind, 0, ln[3].word, ln[2].word))
    [] Len(ln) = 4 /\ ln[2].word \in forms ->
         IF IsNum(ln[4]) THEN Read(Rec(kind, ln[4].val, ln[3].word, ln[2].word)) ELSE Unread("addend")
    [] OTHER                    -> Unread("trailing words")

ParseRecord(ln) ==
  CASE ln[1].word = "word"  -> IF Len(ln) = 2 /\ IsNum(ln[2]) THEN Read(Word_(ln[2].val % Space))
                               ELSE Unread("word")
    [] ln[1].word = "zero"  -> IF Len(ln) # 2 THEN Unread("zero")
                               ELSE IF ~IsNum(ln[2]) \/ ln[2].val < 0 THEN Unread("zero")
                               ELSE Read(Zero(ln[2].val))
    [] ln[1].word = "sym"   -> IF Len(ln) \notin 3..4 THEN Unread("sym")
                               ELSE IF ln[3].word \notin Linkages THEN Unread("linkage")
                               ELSE IF Len(ln) = 3 THEN Read(SymRec(ln[2].word, ln[3].word))
                               ELSE IF ~IsNum(ln[4]) THEN Unread("offset")
                               ELSE Read([SymRec(ln[2].word, ln[3].word) EXCEPT !.offset = ln[4].val])
    [] ln[1].word = "reloc" -> AddendRec("reloc", Forms, ln)
    [] ln[1].word = "brel"  -> AddendRec("brel", {"bt", "bf"}, ln)
    [] OTHER                -> Unread("unknown record kind")

\* One line behind the header: the sections read, the open one, the error.
Parsing == [open |-> FALSE, name |-> "", recs |-> <<>>, sections |-> <<>>, err |-> "none"]

ParseLine(p, ln) ==
  CASE p.err # "none" -> p
    [] p.err = "none" /\ ln[1].word = "section" ->
         IF p.open THEN [p EXCEPT !.err = "nested section"]
         ELSE [p EXCEPT !.open = TRUE, !.name = IF Len(ln) > 1 THEN ln[2].word ELSE "", !.recs = <<>>]
    [] p.err = "none" /\ ln = <<W("endsec")>> ->
         IF ~p.open THEN [p EXCEPT !.err = "endsec without section"]
         ELSE [p EXCEPT !.open = FALSE,
                        !.sections = Append(@, [name |-> p.name, recs |-> p.recs])]
    [] OTHER ->
         IF ~p.open THEN [p EXCEPT !.err = "outside section"]
         ELSE LET r == ParseRecord(ln)
              IN  IF r.err # "none" THEN [p EXCEPT !.err = r.err]
                  ELSE [p EXCEPT !.recs = Append(@, r.rec)]

\* Fault: an open section at the end of the text is taken as it is.
ParseObject_Lenient(text) ==
  IF text = <<>> THEN [sections |-> <<>>, err |-> "empty object file"]
  ELSE LET p == Along(ParseLine, Parsing, Tail(text))
           last == IF p.open THEN <<[name |-> p.name, recs |-> p.recs]>> ELSE <<>>
       IN  [sections |-> Reverse(p.sections \o last), err |-> p.err]

\* The sections come back in reverse order.
ParseObject(text) ==
  LET p == Along(ParseLine, Parsing, Tail(text))
      bad(why) == [sections |-> <<>>, err |-> why]
  IN  CASE text = <<>>                                -> bad("empty object file")
        [] text # <<>> /\ text[1] # <<W("rrisc-obj"), N(Version)>> -> bad("header")
        [] text # <<>> /\ p.err # "none"              -> bad(p.err)
        [] text # <<>> /\ p.err = "none" /\ p.open    -> bad("unterminated section")
        [] OTHER -> [sections |-> Reverse(p.sections), err |-> "none"]
=============================================================================
