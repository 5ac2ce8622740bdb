---------------------------- MODULE MCTimerQueue -----------------------------
(* TimerQueue for TLC: three timers, one thread that adds them from outside  *)
(* and callbacks that do.  A wrapped difference is 100 or a little less.     *)
EXTENDS TimerQueue

CONSTANTS th, lt, a, b, c

MCThreads == {th}
MCTimers == {a, b, c}
MCIntervals == {0, 2}
=============================================================================
