------------------------------ MODULE AsmLayout ------------------------------
(***************************************************************************)
(* The flat assembler behind its preprocessor (pytools/asm.py): a linear   *)
(* pass gives every statement its address, branches out of reach are grown *)
(* to four words section by section, and every statement is encoded.  How  *)
(* many words a statement takes is written down three times in the code,   *)
(* for the first pass, for the passes after a growth and in the encoder;   *)
(* the three need not agree.                                               *)
(***************************************************************************)
EXTENDS Preproc, Isa, TLC

CX == INSTANCE Sixbit

\* Marks a statement put in by relaxation until it is given an address.
Moved == -1

\* from: the line a statement comes from (source_index).
Stmt(l, addr, sec, from) ==
  [labels |-> l.labels, op |-> l.op, args |-> l.args, addr |-> addr, sec |-> sec, from |-> from]

Max2(a, b) == IF a >= b THEN a ELSE b
LinkageOps == {".global", ".globl", ".local"}
Strings == {".sixbit", ".str", ".strz"}
Chars(st) == IF st.args = <<>> THEN <<>> ELSE st.args[1]

(* What both tables of sizes agree on; a string operand is its characters, a
   float is its four words. *)
FixedSize(st) ==
  CASE st.op \in {"", ".base", ".section"} \cup LinkageOps -> 0
    [] st.op = "li"                -> 2
    [] st.op = ".word"             -> Max2(1, Len(st.args))
    [] st.op = ".float"            -> 4 * Max2(1, Len(st.args))
    [] st.op \in {".sixbit", ".str"} -> Len(Chars(st))
    [] st.op = ".strz"             -> 1 + Len(Chars(st))
    [] st.op = "or"                -> 3
    [] st.op = "xor"               -> 4
    [] OTHER                       -> 1

\* Fault: a .fill is taken for as little as an .align.
StmtSize_NoFill(st) == IF st.op \in {".align", ".fill"} THEN 0 ELSE FixedSize(st)

\* _stmt_size: an .align has no size, and no label a value.
StmtSize(st) ==
  CASE st.op = ".align" -> 0
    [] st.op = ".fill"  -> LET n == IF st.args = <<>> THEN Bad("none") ELSE Eval(st.args[1], << >>)
                           IN  IF Failed(n) THEN 0 ELSE Max2(0, n.val)
    [] OTHER            -> FixedSize(st)

(* assign_addresses, one line: the address reached, the section, the labels
   so far, the statements and the error.  .org leaves no statement. *)
Assigning == [addr |-> 0, sec |-> "text", labels |-> << >>, stmts |-> <<>>, err |-> "none"]

WithLabels(labels, st, addr) ==
  [n \in DOMAIN labels \cup Range(st.labels) |-> IF n \in Range(st.labels) THEN addr ELSE labels[n]]

AlignUp(a, n) == ((a + n - 1) \div n) * n

\* Behind the labels of line l: value is that of its first operand.
Place(g, l, st, labels, value, object) ==
  LET bad(why) == [g EXCEPT !.err = why]
      at(addr) == [g EXCEPT !.labels = labels, !.stmts = Append(@, st), !.addr = addr]
  IN  CASE l.op = ".org"   -> IF Failed(value) \/ value.val \notin Word THEN bad(".org")
                              ELSE [g EXCEPT !.labels = labels, !.addr = value.val]
        [] l.op = ".align" -> IF Failed(value) \/ value.val < 1 THEN bad(".align")
                              ELSE at(AlignUp(g.addr, value.val))
        [] l.op = ".fill"  -> IF Failed(value) \/ value.val < 0 THEN bad(".fill")
                              ELSE at(g.addr + value.val)
        [] l.op = ".base" /\ object -> bad(".base")
        [] l.op \in Strings /\ l.args = <<>> -> bad("no string")
        [] OTHER -> at(g.addr + FixedSize(st))

ValueOf(l, labels) == IF l.args = <<>> THEN Bad("no operand") ELSE Eval(l.args[1], labels)

Assign(g, l, i, object) ==
  LET st == Stmt(l, g.addr, g.sec, i)
      labels == WithLabels(g.labels, st, g.addr)
      twice == Range(l.labels) \cap DOMAIN g.labels # {}
               \/ Cardinality(Range(l.labels)) # Len(l.labels)
  IN  CASE g.err # "none" -> g
        [] g.err = "none" /\ l.op = ".section" ->
             IF l.args = <<>> \/ NameIn(l, 1) = "" THEN [g EXCEPT !.err = ".section"]
             ELSE [g EXCEPT !.sec = NameIn(l, 1),
                            !.stmts = Append(@, [st EXCEPT !.sec = NameIn(l, 1)])]
        [] g.err = "none" /\ l.op # ".section" /\ twice -> [g EXCEPT !.err = "duplicate label"]
        [] OTHER -> Place(g, l, st, labels, ValueOf(l, labels), object)

AssignAddresses(ls, object) ==
  Along(LAMBDA g, i : Assign(g, ls[i], i, object), Assigning, [i \in 1..Len(ls) |-> i])

\* group_contig_by_section
Chunks(stmts) ==
  Along(LAMBDA cs, st : IF cs # <<>> /\ Last(Last(cs)).sec = st.sec
                        THEN Append(Front(cs), Append(Last(cs), st)) ELSE Append(cs, <<st>>), <<>>, stmts)

\* _labels_from_stmts: of two labels of one name the later counts.
LabelsFrom(stmts) == Along(LAMBDA m, st : WithLabels(m, st, st.addr), << >>, stmts)
-----------------------------------------------------------------------------
(* _relax_branches_chunk *)

Branch(st) == st.op \in {"bt", "bf"} /\ Len(st.args) = 1 /\ SimpleLabel(st.args[1])
Target(st) == st.args[1][1].sym

InReach(off) == -64 <= off /\ off <= 63

Violations(stmts) ==
  LET labels == LabelsFrom(stmts)
  IN  {i \in 1..Len(stmts) : /\ Branch(stmts[i]) /\ Target(stmts[i]) \in DOMAIN labels
                             /\ ~InReach(labels[Target(stmts[i])] - stmts[i].addr)}

SkipLabel(n) == "__br_" \o ToString(n)

\* The branch that skips, li and jalr to the target, and the skipped-to label.
Grown(st, skip) ==
  LET of(labels, op, args) == Stmt(Line(labels, op, args), Moved, st.sec, st.from)
  IN  <<of(st.labels, IF st.op = "bt" THEN "bf" ELSE "bt", <<<<Id(skip)>>>>),
        of(<<>>, "li", <<<<Id("r4")>>, st.args[1]>>),
        of(<<>>, "jalr", <<<<Id("r0")>>, <<Id("r4")>>>>),
        of(<<skip>>, "", <<>>)>>

\* The last violation is the first to be numbered.
Grow(stmts, bad, n) ==
  FlattenSeq([i \in 1..Len(stmts) |->
    IF i \in bad THEN Grown(stmts[i], SkipLabel(n + Cardinality({j \in bad : j > i})))
    ELSE <<stmts[i]>>])

\* Fault: the gaps of the first pass are closed.
Recompute_Packed(stmts) ==
  Along(LAMBDA r, st : [addr |-> r.addr + StmtSize(st), out |-> Append(r.out, [st EXCEPT !.addr = r.addr])],
           [addr |-> 0, out |-> <<>>], stmts).out
\* _recompute_stmt_addrs: a statement moves up, never down.
Recompute(stmts) ==
  Along(LAMBDA r, st : LET a == Max2(r.addr, st.addr)
                          IN  [addr |-> a + StmtSize(st), out |-> Append(r.out, [st EXCEPT !.addr = a])],
           [addr |-> 0, out |-> <<>>], stmts).out

-----------------------------------------------------------------------------
(* _encode *)

Code(ws) == [words |-> ws, err |-> "none"]
NoCode(why) == [words |-> <<>>, err |-> why]

\* _reg takes an operand that is a register and nothing else.
Registers == [r0 |-> 0, r1 |-> 1, r2 |-> 2, r3 |-> 3, r4 |-> 4, r5 |-> 5, r6 |-> 6, r7 |-> 7]
IsReg(ts) == Len(ts) = 1 /\ ts[1].sym \in DOMAIN Registers

OpR3 == [and |-> AND, add |-> ADD, addc |-> ADDC, sub |-> SUB]
OpRI == [lui |-> LUI, addi |-> ADDI, subi |-> SUBI]
OpSpec == [jalr |-> JALR, ror |-> ROR, rol |-> ROL, lwr |-> LWR, swr |-> SWR]

\* Operands, and how many of them, from the first, are registers.
Arity == [nop |-> 0, clrt |-> 0, halt |-> 0, ret |-> 0, set |-> 0, test |-> 1, clr |-> 1,
          mov |-> 2, neg |-> 2, not |-> 2, or |-> 3, xor |-> 3, and |-> 3, add |-> 3, addc |-> 3,
          sub |-> 3, jalr |-> 2, ror |-> 2, rol |-> 2, lwr |-> 2, swr |-> 2, lui |-> 2, addi |-> 2,
          subi |-> 2, li |-> 2, bt |-> 1, bf |-> 1]
RegOperands(op) == CASE op \in DOMAIN OpRI \cup {"li"} -> 1
                     [] op \in {"bt", "bf"}           -> 0
                     [] OTHER                         -> Arity[op]

RegWords(op, r) ==
  CASE op = "nop"  -> <<0>>
    [] op = "clrt" -> <<R3(ADDC, 0, 0, 0)>>
    [] op = "halt" -> <<Halt>>
    [] op = "ret"  -> <<R3(SPEC, 0, 5, JALR)>>
    [] op = "set"  -> <<R3(SUB, 0, 0, 7)>>
    [] op = "test" -> <<R3(SUB, 0, 0, r[1])>>
    [] op = "clr"  -> <<R3(AND, r[1], 0, 0)>>
    [] op = "mov"  -> <<R3(AND, r[1], r[2], 7)>>
    [] op = "neg"  -> <<R3(SUB, r[1], 0, r[2])>>
    [] op = "not"  -> <<R3(SUB, r[1], 7, r[2])>>
    [] op \in DOMAIN OpR3   -> <<R3(OpR3[op], r[1], r[2], r[3])>>
    [] op \in DOMAIN OpSpec -> <<R3(SPEC, r[1], r[2], OpSpec[op])>>
    [] op \in {"or", "xor"} ->
         <<R3(AND, 4, r[2], r[3]), R3(ADD, r[1], r[2], r[3]), R3(SUB, r[1], r[1], 4)>>
         \o (IF op = "xor" THEN <<R3(SUB, r[1], r[1], 4)>> ELSE <<>>)

RI_Word(op, rd, v) ==
  IF rd \in {0, 7} \/ v.val \notin 0..63 THEN NoCode("immediate") ELSE Code(<<RI(OpRI[op], rd, v.val)>>)

LoadWords(rd, v) ==
  IF rd = 0 \/ v.val \notin -2048..4095 THEN NoCode("li")
  ELSE LET w == v.val % Space IN Code(<<RI(LUI, rd, w \div 64), RI(ADDI, rd, w % 64)>>)

\* Fault: a branch is measured from the word behind it.
BranchOperand_FromNext(st, v) == IF SimpleLabel(st.args[1]) THEN v.val - (st.addr + 1) ELSE v.val
\* _branch_operand: a bare label is an address, anything else the offset itself.
BranchOperand(st, v) == IF SimpleLabel(st.args[1]) THEN v.val - st.addr ELSE v.val

BranchWord(op, off) ==
  IF ~InReach(off) THEN NoCode("branch range")
  ELSE Code(<<RI(IF op = "bf" THEN LUI ELSE ADDI, IF off < 0 THEN 7 ELSE 0, off % 64)>>)

Instruction(st, labels) ==
  LET n == RegOperands(st.op)
      r == [k \in 1..n |-> Registers[st.args[k][1].sym]]
      v == Eval(st.args[n + 1], labels)
  IN  IF Len(st.args) # Arity[st.op] THEN NoCode("operands")
      ELSE IF \E k \in 1..n : ~IsReg(st.args[k]) THEN NoCode("register")
      ELSE IF n = Len(st.args)
           THEN IF st.op \in {"or", "xor"} /\ r[1] = 4 THEN NoCode("scratch register")
                ELSE Code(RegWords(st.op, r))
      ELSE IF Failed(v) THEN NoCode("operand")
      ELSE CASE st.op \in DOMAIN OpRI    -> RI_Word(st.op, r[1], v)
             [] st.op = "li"             -> LoadWords(r[1], v)
             [] st.op \in {"bt", "bf"}   -> BranchWord(st.op, BranchOperand(st, v))

Directive(st, labels) ==
  LET vs == [k \in 1..Len(st.args) |-> Eval(st.args[k], labels)]
      chars == [k \in 1..Len(Chars(st)) |-> Chars(st)[k].num]
      fails(n) == \E k \in 1..n : Failed(vs[k])
  IN  CASE st.op \in {"", ".section"} \cup LinkageOps -> Code(<<>>)
        [] st.op = ".str"    -> Code(chars)
        [] st.op = ".strz"   -> Code(chars \o <<0>>)
        [] st.op = ".sixbit" -> IF \E k \in DOMAIN chars : CX!Encode(chars[k]) = CX!NoChar
                                THEN NoCode("sixbit") ELSE Code([k \in DOMAIN chars |-> CX!Encode(chars[k])])
        [] st.op = ".base"   -> IF \/ Len(vs) # 2 \/ vs[2] \notin {Got(w, vs[2].pos) : w \in Word}
                                   \/ ~IsReg(st.args[1]) \/ st.args[1][1].sym \in {"r0", "r7"}
                                THEN NoCode(".base") ELSE Code(<<>>)
        [] st.op = ".word"   -> IF vs = <<>> \/ fails(Len(vs)) THEN NoCode(".word")
                                ELSE Code([k \in DOMAIN vs |-> vs[k].val % Space])
        [] st.op = ".float"  -> IF vs = <<>> \/ \E k \in DOMAIN vs : Len(st.args[k]) # 4 THEN NoCode(".float")
                                ELSE Code(FlattenSeq([k \in DOMAIN vs |->
                                       [j \in 1..4 |-> st.args[k][j].num]]))
        [] st.op = ".fill"   -> IF Len(vs) \notin 1..2 \/ fails(Len(vs)) THEN NoCode(".fill")
                                ELSE IF vs[1].val < 0 THEN NoCode(".fill")
                                ELSE Code([k \in 1..vs[1].val |-> IF Len(vs) = 2 THEN vs[2].val % Space ELSE 0])
        [] st.op = ".align"  -> IF vs = <<>> \/ fails(1) THEN NoCode(".align")
                                ELSE IF vs[1].val < 1 THEN NoCode(".align")
                                ELSE Code([k \in 1..((-st.addr) % vs[1].val) |-> 0])
        [] OTHER             -> NoCode("unknown mnemonic")

Encode(st, labels) == IF st.op \in DOMAIN Arity THEN Instruction(st, labels) ELSE Directive(st, labels)
=============================================================================
