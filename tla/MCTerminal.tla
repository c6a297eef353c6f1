----------------------------- MODULE MCTerminal -----------------------------
(* Terminal on a small instance: both modes, with and without a preload; of  *)
(* the bytes one folds, one has no SIXBIT value, one is no ASCII.            *)
EXTENDS Terminal

\* Shorter than, as long as, and longer than the FIFO of the run.
SomePreloads == {<<>>, <<64>>, <<97, 64>>, <<97, 13, 64>>}
=============================================================================
