------------------------------ MODULE Sim2Uart ------------------------------
(***************************************************************************)
(* The UART of the C simulator (sim2.c), with the same guest and the same  *)
(* typist as module Terminal.  It has no thread and no FIFO: a poll of     *)
(* RXRDY asks select() whether stdin is readable and, if so, prefetches    *)
(* one character with fgetc() into uart_rx_val.  fgetc() reads through a   *)
(* stdio buffer: when that is empty it takes every byte stdin has, and     *)
(* select() does not see the bytes stdio keeps.                            *)
(***************************************************************************)
EXTENDS Integers, Sequences

CONSTANTS Bytes,      \* the host bytes the typist may type
          Depth,      \* the FIFO depth a guest may rely on (see RxLine)
          MayClose,   \* whether the typist closes stdin
          PipeSize,   \* bound: bytes typed ahead of the simulator
          MaxTyped,   \* bound: bytes typed in a behaviour
          MaxGot      \* bound: characters the guest receives

ASSUME Sim2Assumption ==
  /\ Bytes \subseteq 1..255
  /\ Depth \in Nat \ {0}
  /\ MayClose \in BOOLEAN
  /\ PipeSize \in Nat /\ MaxTyped \in Nat /\ MaxGot \in Nat

VARIABLES
  stdin,     \* bytes in the kernel's pipe
  closed,    \* the other end of stdin is closed
  stdio,     \* bytes fgetc has read ahead
  have,      \* uart_rx_have
  val,       \* uart_rx_val
  guest,     \* which device access the guest performs next
  sent,      \* history: how many bytes were typed
  got        \* history: the characters the guest has received

uartVars == <<stdin, closed, stdio, have, val, guest, sent, got>>

UartInit == /\ stdin = <<>> /\ closed = FALSE /\ stdio = <<>>
            /\ have = FALSE /\ val = 0
            /\ guest = "pollRx"
            /\ sent = 0 /\ got = <<>>
-----------------------------------------------------------------------------
(* The typist. *)

Type(b) == /\ ~closed /\ Len(stdin) < PipeSize /\ sent < MaxTyped
           /\ stdin' = Append(stdin, b)
           /\ sent' = sent + 1
           /\ UNCHANGED <<closed, stdio, have, val, guest, got>>

Close == /\ MayClose /\ ~closed
         /\ closed' = TRUE
         /\ UNCHANGED <<stdin, stdio, have, val, guest, sent, got>>

(* rdmem(07771): RXRDY. *)

\* stdin_has_byte: select() reports bytes in the pipe, and end of file.
\* Fault: the end of file does not make stdin readable.
Readable_NotAtEof == stdin # <<>>

Readable == stdin # <<>> \/ closed

\* c = fgetc(stdin): from the stdio buffer, else the buffer is refilled with
\* all the pipe holds, else EOF, for which the code stores the word 0.
\* Fault: EOF (-1) is stored as it is.
Fgetc_RawEof ==
  LET available == IF stdio # <<>> THEN stdio ELSE stdin
  IN  /\ val' = IF available = <<>> THEN -1 ELSE Head(available)
      /\ stdio' = IF available = <<>> THEN <<>> ELSE Tail(available)
      /\ stdin' = IF stdio # <<>> THEN stdin ELSE <<>>

Fgetc ==
  LET available == IF stdio # <<>> THEN stdio ELSE stdin
  IN  /\ val' = IF available = <<>> THEN 0 ELSE Head(available)
      /\ stdio' = IF available = <<>> THEN <<>> ELSE Tail(available)
      /\ stdin' = IF stdio # <<>> THEN stdin ELSE <<>>

\* A word is already prefetched: RXRDY reads 1 however often it is polled (a
\* guest that has seen a 1 may poll again before it reads).
PollHave ==
  /\ have
  /\ guest' = "readRx"
  /\ UNCHANGED <<stdin, closed, stdio, have, val, sent, got>>

\* Fault: the poll does not look at uart_rx_have.
PollFetch_Overwrites ==
  /\ Readable
  /\ Fgetc
  /\ have' = TRUE
  /\ guest' = "readRx"
  /\ UNCHANGED <<closed, sent, got>>

PollFetch ==
  /\ ~have /\ Readable
  /\ Fgetc
  /\ have' = TRUE
  /\ guest' = "readRx"
  /\ UNCHANGED <<closed, sent, got>>

PollEmpty ==
  /\ ~have /\ ~Readable
  /\ UNCHANGED uartVars

(* rdmem(07773): RXBUF. *)

\* Fault: the word stays in the prefetch register.
ReadRx_Keeps ==
  /\ guest = "readRx" /\ Len(got) < MaxGot
  /\ got' = Append(got, IF have THEN val ELSE 0)
  /\ guest' = "pollRx"
  /\ UNCHANGED <<stdin, closed, stdio, have, val, sent>>

ReadRx ==
  /\ guest = "readRx" /\ Len(got) < MaxGot
  /\ got' = Append(got, IF have THEN val ELSE 0)
  /\ have' = FALSE
  /\ guest' = "pollRx"
  /\ UNCHANGED <<stdin, closed, stdio, val, sent>>

Guest == PollHave \/ PollFetch \/ PollEmpty \/ ReadRx

UartNext == (\E b \in Bytes : Type(b)) \/ Close \/ Guest

UartSpec == UartInit /\ [][UartNext]_uartVars /\ WF_uartVars(Guest)
-----------------------------------------------------------------------------
\* The prefetched word, what stdio read ahead and the pipe, in this order, are
\* the line of module RxLine.  Safety: no typed character is lost, repeated or
\* overtaken; the zeros of the end of file come behind the last of them.
NoChar == -1
Line == INSTANCE RxLine WITH
          Chars <- Bytes,
          line <- (IF have /\ Len(got) < sent THEN <<val>> ELSE <<>>) \o stdio \o stdin,
          got <- IF Len(got) <= sent THEN got ELSE SubSeq(got, 1, sent)
LineSafe == Line!SafeSpec

\* A word is received for each byte that was typed, and no other while stdin is
\* open.  Behind the last of them, once stdin is closed, come only the zeros that
\* rdmem prefetches for EOF.  (Of these sim2 delivers any number, where the
\* terminal's RXRDY stays 0.)
OnlyTypedCharacters ==
  /\ closed \/ Len(got) <= sent
  /\ \A i \in 1..Len(got) : IF i <= sent THEN got[i] \in Bytes ELSE got[i] = 0

\* The same comment, for progress: pytools.rrsim's thread hands every typed
\* byte to a guest that waits for one (LineSpec of module Terminal).
TypedIsReceived ==
  \A n \in 1..MaxTyped : sent = n ~> Len(got) >= n

\* Input from a closed pipe or a file does arrive: at end of file select()
\* reports stdin readable for ever, and each poll then empties stdio further.
ClosedInputIsReceived ==
  \A n \in 1..MaxTyped : (closed /\ sent = n) ~> Len(got) >= n
=============================================================================
