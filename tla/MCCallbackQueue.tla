--------------------------- MODULE MCCallbackQueue ---------------------------
(* CallbackQueue for TLC: two threads and the loop thread post four times.   *)
(* CounterMax is 2, so that the eventfd fills up before the posts run out and*)
(* the write whose EAGAIN the code ignores does happen.                      *)
EXTENDS CallbackQueue

CONSTANTS t1, t2, lt, c1, c2

MCThreads == {t1, t2, lt}
MCCallback == {c1, c2}
=============================================================================
