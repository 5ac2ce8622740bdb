--------------------------- MODULE MCEventDispatch ---------------------------
(* EventDispatch for TLC: two descriptors, one reuse of each number.         *)
EXTENDS EventDispatch

CONSTANTS f1, f2

MCFds == {f1, f2}
MCRequests == {"in", "other"}
MCMasks == {{"in"}, {"in", "out"}}
MCConditions == {{}, {"in", "out"}, {"err", "hup"}}
=============================================================================
