------------------------------- MODULE RxLine -------------------------------
(***************************************************************************)
(* What the UART receive side promises a guest program, whatever simulator *)
(* it runs on: the characters sent to it form a line, the guest takes them *)
(* from the front, one at a time, each exactly once and in order, and only *)
(* a character with Depth others outstanding in front of it may be lost.   *)
(* A position holding NoChar stands for an input byte the terminal has no  *)
(* character for; it leaves the line without being delivered.              *)
(***************************************************************************)
EXTENDS Integers, Sequences

CONSTANTS Chars,    \* the character values a guest can receive
          NoChar,   \* marks a byte without a character value
          Depth     \* the receive FIFO's capacity

VARIABLES line,     \* characters sent and neither received nor lost
          got       \* what the guest has received, oldest first

lineVars == <<line, got>>

Without(s, i) == SubSeq(s, 1, i - 1) \o SubSeq(s, i + 1, Len(s))

Init == /\ line \in Seq(Chars)
        /\ Len(line) <= Depth
        /\ got = <<>>

Send(c) == /\ line' = Append(line, c)
           /\ UNCHANGED got

Discard(i) == /\ line[i] = NoChar
              /\ line' = Without(line, i)
              /\ UNCHANGED got

Lose(i) == /\ i > Depth
           /\ line' = Without(line, i)
           /\ UNCHANGED got

Deliver == /\ line # <<>>
           /\ Head(line) # NoChar
           /\ got' = Append(got, Head(line))
           /\ line' = Tail(line)

Next == \/ \E c \in Chars \cup {NoChar} : Send(c)
        \/ \E i \in 1..Len(line) : Discard(i) \/ Lose(i)
        \/ Deliver

SafeSpec == Init /\ [][Next]_lineVars

\* A guest in its receive loop is served: the front of the line does not wait
\* for ever for a character the terminal could hand over or throw away.
Spec == /\ SafeSpec
        /\ WF_lineVars(Deliver)
        /\ WF_lineVars(\E i \in 1..Len(line) : Discard(i))
=============================================================================
