----------------------------- MODULE EventHandle -----------------------------
(* Event::handle (src/event/event.cpp): which callbacks the events reported *)
(* of a descriptor lead to, and in which order.                             *)
EXTENDS Sequences

Handlers == {"read", "write", "error"}

Call(h, handlers) == IF h \in handlers THEN <<h>> ELSE <<>>

(* An error alone, else a hang-up that is not readable, what is readable,   *)
(* what is writable; of these the callbacks that are set.                   *)
Calls(revents, handlers) ==
  IF "err" \in revents
  THEN Call("error", handlers)
  ELSE (IF "hup" \in revents /\ "in" \notin revents
        THEN Call("read", handlers) ELSE <<>>)
       \o (IF revents \cap {"in", "pri"} # {} THEN Call("read", handlers) ELSE <<>>)
       \o (IF "out" \in revents THEN Call("write", handlers) ELSE <<>>)
=============================================================================
