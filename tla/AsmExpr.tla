------------------------------- MODULE AsmExpr -------------------------------
(***************************************************************************)
(* Operands of the assembler (pytools/asm.py, _eval_expr): integer         *)
(* expressions over numbers and labels, read by one function per level of  *)
(* precedence.  An operand is a sequence of tokens; the forms a number can *)
(* be written in are left out.                                             *)
(***************************************************************************)
EXTENDS Powers, Sequences

\* FoldLeft, each result worked out before the next element is looked at.
Along(op(_, _), base, seq) ==
  LET to[k \in 0..Len(seq)] ==
        IF k = 0 THEN base ELSE CHOOSE r \in {op(q, seq[k]) : q \in {to[k - 1]}} : TRUE
  IN  to[Len(seq)]

\* The elements of seq at the positions in S, in order.
Taken(seq, S) ==
  Along(LAMBDA out, i : IF i \in S THEN Append(out, seq[i]) ELSE out, <<>>, [i \in 1..Len(seq) |-> i])

Token == [sym : STRING, num : Int]
Num(n) == [sym |-> "", num |-> n]
Id(name) == [sym |-> name, num |-> 0]     \* a name, an operator, a parenthesis

OpsAt(level) == <<{"|"}, {"^"}, {"&"}, {"<<", ">>"}, {"+", "-"}, {"*", "/", "//", "%"}>>[level]
Unary == 7
OpSyms == UNION {OpsAt(l) : l \in 1..6} \cup {"~", "(", ")"}

IsName(t) == t.sym # "" /\ t.sym \notin OpSyms
\* is_simple_label, and the operand of bt and bf.
SimpleLabel(ts) == Len(ts) = 1 /\ IsName(ts[1])

(* The bitwise operators are those of unbounded two's complement integers,
   here of Bound values to either side of 0. *)
Bound == 65536
OneBit(op, p, q) == p + q \in (CASE op = "|" -> {1, 2} [] op = "^" -> {1} [] op = "&" -> {2})
Wrapped(n) == IF n < Bound THEN n ELSE n - 2 * Bound
Bitwise(op, a, b) ==
  LET sum[k \in 0..16] ==
        (IF OneBit(op, (a \div Pow[k]) % 2, (b \div Pow[k]) % 2) THEN Pow[k] ELSE 0)
        + (IF k = 0 THEN 0 ELSE sum[k - 1])
  IN  Wrapped(sum[16])

\* Division rounds down, whatever the signs.
Div(a, b) == IF b > 0 THEN a \div b ELSE (-a) \div (-b)

Apply(op, a, b) ==
  CASE op \in {"|", "^", "&"} -> Bitwise(op, a, b)
    [] op = "<<"              -> a * Pow[b]
    [] op = ">>"              -> a \div Pow[b]
    [] op = "+"               -> a + b
    [] op = "-"               -> a - b
    [] op = "*"               -> a * b
    [] op \in {"/", "//"}     -> Div(a, b)
    [] op = "%"               -> a - b * Div(a, b)

Refused(op, b) == CASE op \in {"/", "//", "%"} -> b = 0
                    [] op \in {"<<", ">>"}     -> b < 0
                    [] OTHER                   -> FALSE

(* A reading: the value, the position behind it, and what went wrong. *)
Got(v, p) == [val |-> v, pos |-> p, err |-> "none"]
Bad(why) == [val |-> 0, pos |-> 0, err |-> why]
Failed(r) == r.err # "none"
Sym(ts, p) == IF p <= Len(ts) THEN ts[p].sym ELSE "end of text"

(* Where a level of precedence that starts at a token gets to: read[<<l, p>>]. *)

Atom(ts, p, labels, read) ==
  IF Sym(ts, p) = "end of text" THEN Bad("unexpected end")
  ELSE IF Sym(ts, p) = "("
       THEN LET r == read[<<1, p + 1>>]
            IN  IF Failed(r) THEN r
                ELSE IF Sym(ts, r.pos) = ")" THEN Got(r.val, r.pos + 1) ELSE Bad("expected )")
  ELSE IF Sym(ts, p) = "" THEN Got(ts[p].num, p + 1)
  ELSE IF ~IsName(ts[p]) THEN Bad("unexpected")
  ELSE IF ts[p].sym \in DOMAIN labels THEN Got(labels[ts[p].sym], p + 1)
  ELSE Bad("undefined label")

Signed(ts, p, labels, read) ==
  LET r == read[<<Unary, p + 1>>]
  IN  IF Sym(ts, p) \notin {"-", "+", "~"} THEN Atom(ts, p, labels, read)
      ELSE CASE Sym(ts, p) = "+" \/ Failed(r)  -> r
             [] Sym(ts, p) = "-" /\ ~Failed(r) -> [r EXCEPT !.val = -@]
             [] Sym(ts, p) = "~" /\ ~Failed(r) -> [r EXCEPT !.val = -@ - 1]

\* Fault: an operator groups with what is to its right.
Turn_FromTheRight(l, ts, a, read) ==
  IF Failed(a) \/ Sym(ts, a.pos) \notin OpsAt(l) THEN a
  ELSE LET op == ts[a.pos].sym
           b == read[<<l, a.pos + 1>>]
       IN  IF Failed(b) THEN b
           ELSE IF Refused(op, b.val) THEN Bad("refused")
           ELSE Got(Apply(op, a.val, b.val), b.pos)

\* One turn of the loop of a level: the next operator and what it applies to.
Turn(l, ts, a, read) ==
  IF Failed(a) \/ Sym(ts, a.pos) \notin OpsAt(l) THEN a
  ELSE LET op == ts[a.pos].sym
           b == read[<<l + 1, a.pos + 1>>]
       IN  IF Failed(b) THEN b
           ELSE IF Refused(op, b.val) THEN Bad("refused")
           ELSE Got(Apply(op, a.val, b.val), b.pos)

\* No level takes more turns than there are tokens.
Level(l, ts, p, labels, read) ==
  IF l = Unary THEN Signed(ts, p, labels, read)
  ELSE Along(LAMBDA a, t : Turn(l, ts, a, read), read[<<l + 1, p>>], ts)

Readings(ts, labels) ==
  LET read[x \in (1..Unary) \X (1..(Len(ts) + 1))] == Level(x[1], ts, x[2], labels, read)
  IN  read

Eval(ts, labels) ==
  IF ts = <<>> THEN Bad("empty expression")
  ELSE LET r == Readings(ts, labels)[<<1, 1>>]
       IN  IF ~Failed(r) /\ r.pos <= Len(ts) THEN Bad("unexpected") ELSE r
-----------------------------------------------------------------------------
(* What an expression means, read from the outside: it falls apart at its   *)
(* last operator of the lowest precedence outside all parentheses.          *)

Depth(ts, i, p) ==
  LET d[k \in (i - 1)..p] == IF k = i - 1 THEN 0
                             ELSE d[k - 1] + (CASE ts[k].sym = "(" -> 1
                                                [] ts[k].sym = ")" -> -1
                                                [] OTHER -> 0)
  IN  d[p]

\* An operator between two operands: not a sign.
Binary(ts, i, p) == /\ \E l \in 1..6 : ts[p].sym \in OpsAt(l)
                    /\ p > i /\ (ts[p - 1].sym = "" \/ ts[p - 1].sym = ")" \/ IsName(ts[p - 1]))
LevelOf(op) == CHOOSE l \in 1..6 : op \in OpsAt(l)

Meaning(ts, labels) ==
  LET means[x \in (1..Len(ts)) \X (1..Len(ts))] ==
        LET i == x[1]
            j == x[2]
            splits == {p \in i..j : Binary(ts, i, p) /\ Depth(ts, i, p) = 0}
            at == CHOOSE p \in splits : \A q \in splits :
                    \/ LevelOf(ts[p].sym) < LevelOf(ts[q].sym)
                    \/ LevelOf(ts[p].sym) = LevelOf(ts[q].sym) /\ q <= p
        IN  IF splits # {} THEN Apply(ts[at].sym, means[<<i, at - 1>>], means[<<at + 1, j>>])
            ELSE CASE ts[i].sym = "-" -> -means[<<i + 1, j>>]
                   [] ts[i].sym = "~" -> -means[<<i + 1, j>>] - 1
                   [] ts[i].sym = "+" -> means[<<i + 1, j>>]
                   [] ts[i].sym = "(" -> means[<<i + 1, j - 1>>]
                   [] ts[i].sym = ""  -> ts[i].num
                   [] OTHER           -> labels[ts[i].sym]
  IN  means[<<1, Len(ts)>>]
=============================================================================
