------------------------------ MODULE Terminal ------------------------------
(***************************************************************************)
(* The simulators' UART (pytools/terminal.py; tools/src/RRISC/Sim/         *)
(* Terminal.hs is its port) between a typist and a guest program.          *)
(*                                                                         *)
(* Three processes share the device: the host side that types into stdin,  *)
(* the terminal-rx thread that moves one byte at a time from stdin into    *)
(* the receive FIFO under _rx_lock, and the CPU thread, which runs the     *)
(* guest.  The guest is the echo loop the runtime library is written for:  *)
(* getchar.s (poll RXRDY, then read RXBUF) followed by putchar.s (poll     *)
(* TXRDY, then write TXBUF); one action is one access to the device.       *)
(***************************************************************************)
EXTENDS Integers, Sequences, Sixbit

CONSTANTS Bytes,      \* the host bytes the typist may type
          Depth,      \* _RX_DEPTH
          Modes,      \* --translate (SIXBIT on the guest's side): off, on, or both
          Preloads,   \* the --uart-preload strings considered
          PipeSize,   \* bound: bytes typed ahead of the reader thread
          MaxTyped    \* bound: characters typed in a behaviour

ASSUME DepthAssumption == Depth \in Nat \ {0}
ASSUME BytesAssumption == Bytes \subseteq 0..255
ASSUME PreloadAssumption == Preloads \subseteq Seq(Bytes)
ASSUME ModesAssumption == Modes \subseteq BOOLEAN
ASSUME BoundsAssumption == PipeSize \in Nat /\ MaxTyped \in Nat

VARIABLES
  translate, \* --translate
  stdin,     \* bytes typed that the reader thread has not read
  closed,    \* the other end of stdin is closed
  reader,    \* the thread: "reading" (in os.read), "queueing" (about to lock),
             \* "ended" (after EOF), "off" (never started: a preload was given)
  hand,      \* the value between os.read and the lock: <<>> or <<v>>
  rx,        \* _rx, the receive FIFO
  guest,     \* which device access the guest performs next
  r2,        \* the character register of the guest
  typed,     \* history: the bytes typed (or preloaded) that have a character
  got,       \* history: the characters the guest has received
  screen     \* the host bytes written to stdout

vars == <<translate, stdin, closed, reader, hand, rx, guest, r2, typed, got, screen>>
guestVars == <<guest, r2, got, screen>>
hostVars == <<translate, stdin, closed, typed>>
-----------------------------------------------------------------------------
\* What _reader queues for a byte: its SIXBIT value, or the byte itself.
ToGuest_Raw(tr, b) == b % 256    \* fault: --translate ignored on input
ToGuest(tr, b) == IF tr THEN Encode(b) ELSE b % 256

\* What arrives at the other end of stdout for a character: sys.stdout is a text
\* stream, taken to be UTF-8, so that chr(200) leaves as two bytes.
Utf8(c) == IF c < 128 THEN <<c>> ELSE <<192 + (c \div 64), 128 + (c % 64)>>

\* The host bytes of the word _tx_write is given; NUL decodes to no character.
ToHost(tr, w) ==
  IF tr THEN IF Decode(w) = NoChar THEN <<>> ELSE Utf8(Decode(w))
  ELSE Utf8(w % 256)

\* Everything the FIFO can hold: the values of typed bytes, and the bytes of a
\* preload, which the constructor queues as they are.
Chars == ({ToGuest(tr, b) : tr \in Modes, b \in Bytes} \ {NoChar}) \cup Bytes

Min2(a, b) == IF a < b THEN a ELSE b

\* Terminal.__init__: either the reader thread is started, or a preload fills
\* the FIFO up to its depth, as raw bytes, and no thread runs.
Init ==
  /\ translate \in Modes
  /\ stdin = <<>> /\ closed = FALSE /\ hand = <<>>
  /\ \/ rx = <<>> /\ reader = "reading"
     \/ /\ \E p \in Preloads : rx = SubSeq(p, 1, Min2(Len(p), Depth))
        /\ reader = "off"
  /\ typed = rx
  /\ guest = "pollRx" /\ r2 = 0
  /\ got = <<>> /\ screen = <<>>
-----------------------------------------------------------------------------
(* The typist. *)

Type(b) ==
  /\ reader # "off" /\ ~closed
  /\ Len(stdin) < PipeSize /\ Len(typed) < MaxTyped
  /\ stdin' = Append(stdin, b)
  /\ typed' = IF ToGuest(translate, b) = NoChar THEN typed ELSE Append(typed, b)
  /\ UNCHANGED <<translate, closed, reader, hand, rx, guestVars>>

Close ==
  /\ reader # "off" /\ ~closed
  /\ closed' = TRUE
  /\ UNCHANGED <<translate, stdin, typed, reader, hand, rx, guestVars>>

(* The terminal-rx thread, _reader. *)

\* Fault: a byte without a SIXBIT value ends the thread (break, not continue).
ReadByte_Ends ==
  /\ reader = "reading" /\ stdin # <<>>
  /\ stdin' = Tail(stdin)
  /\ IF ToGuest(translate, Head(stdin)) = NoChar
     THEN reader' = "ended" /\ UNCHANGED hand
     ELSE /\ hand' = <<ToGuest(translate, Head(stdin))>>
          /\ reader' = "queueing"
  /\ UNCHANGED <<translate, closed, typed, rx, guestVars>>

\* os.read returns a byte; one without a SIXBIT value is skipped (continue).
ReadByte ==
  /\ reader = "reading" /\ stdin # <<>>
  /\ stdin' = Tail(stdin)
  /\ IF ToGuest(translate, Head(stdin)) = NoChar
     THEN UNCHANGED <<reader, hand>>
     ELSE /\ hand' = <<ToGuest(translate, Head(stdin))>>
          /\ reader' = "queueing"
  /\ UNCHANGED <<translate, closed, typed, rx, guestVars>>

\* os.read returns nothing: the thread ends.
ReadEof ==
  /\ reader = "reading" /\ stdin = <<>> /\ closed
  /\ reader' = "ended"
  /\ UNCHANGED <<hand, rx, hostVars, guestVars>>

\* Faults in Queue: no bound, one place fewer, the oldest dropped.
Queue_Unbounded ==
  /\ reader = "queueing"
  /\ rx' = rx \o hand
  /\ hand' = <<>> /\ reader' = "reading"
  /\ UNCHANGED <<hostVars, guestVars>>
Queue_ShortByOne ==
  /\ reader = "queueing"
  /\ rx' = IF Len(rx) < Depth - 1 THEN rx \o hand ELSE rx
  /\ hand' = <<>> /\ reader' = "reading"
  /\ UNCHANGED <<hostVars, guestVars>>
Queue_DropsOldest ==
  /\ reader = "queueing"
  /\ rx' = (IF Len(rx) < Depth THEN rx ELSE Tail(rx)) \o hand
  /\ hand' = <<>> /\ reader' = "reading"
  /\ UNCHANGED <<hostVars, guestVars>>

\* Under the lock: append, or drop the new character when the FIFO is full.
Queue ==
  /\ reader = "queueing"
  /\ rx' = IF Len(rx) < Depth THEN rx \o hand ELSE rx
  /\ hand' = <<>>
  /\ reader' = "reading"
  /\ UNCHANGED <<hostVars, guestVars>>

(* The guest: getchar.s, then putchar.s. *)

\* Fault: RXRDY is not waited for.
PollRx_Blind ==
  /\ guest = "pollRx"
  /\ guest' = "readRx"
  /\ UNCHANGED <<r2, got, screen, reader, hand, rx, hostVars>>

\* getchar: lwr RXRDY; sub r0, r0, r1; bf getchar  (spin while it reads 0).
PollRx ==
  /\ guest = "pollRx"
  /\ guest' = IF rx # <<>> THEN "readRx" ELSE "pollRx"
  /\ UNCHANGED <<r2, got, screen, reader, hand, rx, hostVars>>

\* lwr RXBUF: _rx_read pops the FIFO, and reads 0 when it is empty.
ReadRx ==
  /\ guest = "readRx"
  /\ r2' = IF rx = <<>> THEN 0 ELSE Head(rx)
  /\ rx' = IF rx = <<>> THEN rx ELSE Tail(rx)
  /\ got' = Append(got, r2')
  /\ guest' = "pollTx"
  /\ UNCHANGED <<screen, reader, hand, hostVars>>

\* putchar: lwr TXRDY, which always reads 1.
PollTx ==
  /\ guest = "pollTx"
  /\ guest' = "writeTx"
  /\ UNCHANGED <<r2, got, screen, reader, hand, rx, hostVars>>

\* swr TXBUF: a value that decodes to no character prints nothing.
WriteTx ==
  /\ guest = "writeTx"
  /\ screen' = screen \o ToHost(translate, r2)
  /\ guest' = "pollRx"
  /\ UNCHANGED <<r2, got, reader, hand, rx, hostVars>>
-----------------------------------------------------------------------------
Host == (\E b \in Bytes : Type(b)) \/ Close
Reader == ReadByte \/ ReadEof \/ Queue
Guest == PollRx \/ ReadRx \/ PollTx \/ WriteTx

Next == Host \/ Reader \/ Guest

\* run() yields to the reader thread every 64 instructions and the host
\* schedules both threads; the typist owes nothing.
Spec == Init /\ [][Next]_vars /\ WF_vars(Reader) /\ WF_vars(Guest)
-----------------------------------------------------------------------------
\* Types, and the FIFO never outgrows its depth; the thread holds a value
\* exactly while it is about to take the lock.
TypeOK ==
  /\ translate \in Modes
  /\ stdin \in Seq(Bytes) /\ closed \in BOOLEAN
  /\ reader \in {"reading", "queueing", "ended", "off"}
  /\ hand \in {<<>>} \cup {<<v>> : v \in Chars}
  /\ hand # <<>> <=> reader = "queueing"
  /\ rx \in Seq(Chars) /\ Len(rx) <= Depth
  /\ guest \in {"pollRx", "readRx", "pollTx", "writeTx"}
  /\ r2 \in Chars \cup {0}
  /\ typed \in Seq(Bytes) /\ got \in Seq(Chars \cup {0}) /\ screen \in Seq(0..255)

\* The word read from RXBUF after a poll that saw RXRDY = 1 is a character,
\* never the 0 of an empty FIFO: nothing takes the character in between.
NoPhantomRead == guest = "readRx" => rx # <<>>

\* What the guest echoes for a byte, as the typist sees it: SIXBIT has one case
\* and one line end.
Canonical(b) == IF ~translate THEN b
                ELSE CASE b = CarriageReturn -> Newline
                       [] b \in 97..122      -> b - 32
                       [] OTHER              -> b

\* Every character typed is one byte of UTF-8.  With --translate it always is:
\* SIXBIT has no value for the bytes above 127.
SevenBit == translate \/ \A i \in 1..Len(typed) : typed[i] < 128

\* The typist reads back what was typed: within the FIFO's depth the screen
\* shows an initial part of the typed characters, folded as SIXBIT folds them.
\* It is a claim about seven-bit characters: raw mode reads bytes and writes
\* text, and a byte above 127 comes back as another sequence of bytes.
EchoedAsTyped ==
  reader # "off" /\ Len(typed) <= Depth /\ SevenBit =>
    /\ Len(screen) <= Len(typed)
    /\ \A i \in 1..Len(screen) : screen[i] = Canonical(typed[i])

\* The terminal is an RxLine: the FIFO, the value in the thread's hand and the
\* unread bytes, in this order, are the line.  LineSpec adds that a guest in
\* its receive loop is served.
Outstanding == rx \o hand \o [i \in 1..Len(stdin) |-> ToGuest(translate, stdin[i])]
Line == INSTANCE RxLine WITH line <- Outstanding
LineSafe == Line!SafeSpec
LineSpec == Line!Spec
=============================================================================
