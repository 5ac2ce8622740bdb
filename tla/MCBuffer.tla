------------------------------ MODULE MCBuffer -------------------------------
(* Buffer for TLC: arrays of one cell that grow to three, an extrabuf of two. *)
EXTENDS Buffer

CONSTANTS r, w

MCBuffers == {r, w}
=============================================================================
