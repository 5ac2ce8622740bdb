------------------------------ MODULE MCSignals -------------------------------
(* Signals for TLC.                                                          *)
EXTENDS Signals
=============================================================================
