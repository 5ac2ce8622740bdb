---------------------------- MODULE MCThreadPool -----------------------------
(* ThreadPool for TLC: three threads.                                        *)
EXTENDS ThreadPool
=============================================================================
