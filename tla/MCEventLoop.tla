---------------------------- MODULE MCEventLoop -----------------------------
(* EventLoop for TLC: the application's loop, made by thread a and run by    *)
(* thread c, and a pool loop made and run by b.  Functions of either loop   *)
(* may give functions to the other, so that drains can deadlock.             *)
EXTENDS EventLoop, TLC

CONSTANTS a, b, c, main, worker

MCThreads == {a, b, c}
MCLoops == {main, worker}
MCCreator == main :> a @@ worker :> b
MCMayDrive == main :> {c} @@ worker :> {b}
MCGivesTo == {<<main, worker>>, <<worker, main>>}
=============================================================================
