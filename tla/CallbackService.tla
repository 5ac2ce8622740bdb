--------------------------- MODULE CallbackService ---------------------------
(***************************************************************************)
(* What CallbackQueueService promises its users: a callback handed to      *)
(* post() is run once, on the event loop, after every callback that was    *)
(* posted before it.  The service says nothing of lists, mutexes and       *)
(* wake-ups.  The eventfd queue implements it (CallbackQueue), and so does *)
(* a loop for the functions other threads give it (EventLoopProofs).       *)
(***************************************************************************)
EXTENDS Sequences

CONSTANT Callback           \* what can be posted

VARIABLES pending,          \* posted and not yet run, oldest first
          done              \* the callbacks run so far, in the order they ran

vars == <<pending, done>>

Init == pending = <<>> /\ done = <<>>

Post == /\ \E c \in Callback : pending' = Append(pending, c)
        /\ UNCHANGED done

Run == /\ pending # <<>>
       /\ done' = Append(done, Head(pending))
       /\ pending' = Tail(pending)

Next == Post \/ Run

Spec == Init /\ [][Next]_vars
=============================================================================
