---------------------------- MODULE CallbackQueue ----------------------------
(***************************************************************************)
(* EventFD, the queue behind CallbackQueueService and Engine::postCallback *)
(* (src/event/eventfd.cpp).  Any thread posts: it pushes onto a list under *)
(* a mutex and then, the mutex released, adds one to a non-blocking        *)
(* eventfd.  The loop thread is woken by the eventfd, reads it back to     *)
(* zero, swaps the list out under the mutex and runs what it took with no  *)
(* lock held, so that a callback may post again.                           *)
(*                                                                         *)
(* Each critical section of callbacksMutex is one action; everything       *)
(* between two of them interleaves.                                        *)
(*                                                                         *)
(* Operators named X_Y, set before the X they vary, are bugs that X might  *)
(* have had; no specification uses them.                                   *)
(***************************************************************************)
EXTENDS Naturals, Sequences

CONSTANTS
  Threads,      \* the threads that may post
  LoopThread,   \* the one of them that runs the event loop
  Callback,     \* what can be posted
  MaxPosts,     \* bound: posts made in one behaviour
  CounterMax    \* the eventfd's largest value, 2^64-2 on Linux

ASSUME CallbackQueueAssumption ==
  /\ LoopThread \in Threads
  /\ MaxPosts \in Nat
  /\ CounterMax \in Nat \ {0}

VARIABLES
  callbacks,    \* EventFD::callbacks, the list the mutex guards
  counter,      \* the value of the eventfd
  poster,       \* poster[t]: where thread t stands in postImpl
  loop,         \* where the loop thread stands in handleEvents
  batch,        \* the local list executeCallbacks works through
  posted,       \* history: every callback pushed, in order
  executed      \* history: every callback run, in order

vars == <<callbacks, counter, poster, loop, batch, posted, executed>>

-----------------------------------------------------------------------------

(* The constructor registers the eventfd, created with the value 0, before  *)
(* anybody holds a reference to the queue.                                  *)
Init ==
  /\ callbacks = <<>>
  /\ counter = 0
  /\ poster = [t \in Threads |-> "idle"]
  /\ loop = "wait"
  /\ batch = <<>>
  /\ posted = <<>>
  /\ executed = <<>>

(* The loop thread executes user code, and so may call post(), before it    *)
(* polls, in the handlers dispatched ahead of the eventfd's, and while it   *)
(* runs a posted callback.                                                  *)
RunsUserCode(t) == t # LoopThread \/ loop \in {"wait", "ready", "running"}

(* postImpl returns at once when it is handed an empty std::function.       *)
Postable == Callback

Pushed_AtFront(c) == <<c>> \o callbacks
Pushed(c) == Append(callbacks, c)

(* postImpl, first half: atomicPushBack.                                    *)
PushBack(t) ==
  /\ poster[t] = "idle"
  /\ RunsUserCode(t)
  /\ Len(posted) < MaxPosts
  /\ \E c \in Postable : /\ callbacks' = Pushed(c)
                         /\ posted' = Append(posted, c)
  /\ poster' = [poster EXCEPT ![t] = "pushed"]
  /\ UNCHANGED <<counter, loop, batch, executed>>

(* postImpl, second half: the write to the eventfd.  Its result is ignored; *)
(* a counter that is full makes it fail with EAGAIN and stays as it is.     *)
WriteEventFd(t) ==
  /\ poster[t] = "pushed"
  /\ counter' = IF counter < CounterMax THEN counter + 1 ELSE counter
  /\ poster' = [poster EXCEPT ![t] = "idle"]
  /\ UNCHANGED <<callbacks, loop, batch, posted, executed>>

-----------------------------------------------------------------------------

(* The loop thread cannot leave user code in the middle of its own post().  *)
LoopIsAt(pc) == loop = pc /\ poster[LoopThread] = "idle"

(* epoll_wait returns a batch in which the eventfd is readable.             *)
Wake ==
  /\ LoopIsAt("wait")
  /\ counter > 0
  /\ loop' = "ready"
  /\ UNCHANGED <<callbacks, counter, poster, batch, posted, executed>>

(* handleEvents reads the eventfd, which resets it ...                      *)
ReadEventFd ==
  /\ LoopIsAt("ready")
  /\ counter' = 0
  /\ loop' = "pop"
  /\ UNCHANGED <<callbacks, poster, batch, posted, executed>>

(* ... and only then takes the whole list: atomicPopAll.                    *)
PopAll_OnlyFirst ==
  /\ LoopIsAt("pop")
  /\ batch' = SubSeq(callbacks, 1, 1)
  /\ callbacks' = SubSeq(callbacks, 2, Len(callbacks))
  /\ loop' = "next"
  /\ UNCHANGED <<counter, poster, posted, executed>>

PopAll ==
  /\ LoopIsAt("pop")
  /\ batch' = callbacks
  /\ callbacks' = <<>>
  /\ loop' = "next"
  /\ UNCHANGED <<counter, poster, posted, executed>>

(* popAndExecuteFirstCallback: out of the local list, then called.          *)
ExecuteFirst_FromTheBack ==
  /\ LoopIsAt("next")
  /\ batch # <<>>
  /\ executed' = Append(executed, batch[Len(batch)])
  /\ batch' = SubSeq(batch, 1, Len(batch) - 1)
  /\ loop' = "running"
  /\ UNCHANGED <<callbacks, counter, poster, posted>>

ExecuteFirst ==
  /\ LoopIsAt("next")
  /\ batch # <<>>
  /\ executed' = Append(executed, Head(batch))
  /\ batch' = Tail(batch)
  /\ loop' = "running"
  /\ UNCHANGED <<callbacks, counter, poster, posted>>

CallbackReturns_TakesMore ==
  /\ LoopIsAt("running")
  /\ loop' = "next"
  /\ batch' = batch \o callbacks
  /\ callbacks' = <<>>
  /\ UNCHANGED <<counter, poster, posted, executed>>

CallbackReturns ==
  /\ LoopIsAt("running")
  /\ loop' = "next"
  /\ UNCHANGED <<callbacks, counter, poster, batch, posted, executed>>

(* The local list is empty: back to the dispatcher and to epoll_wait.       *)
RoundDone_ThenReads ==
  /\ LoopIsAt("next")
  /\ batch = <<>>
  /\ counter' = 0
  /\ loop' = "wait"
  /\ UNCHANGED <<callbacks, poster, batch, posted, executed>>

RoundDone ==
  /\ LoopIsAt("next")
  /\ batch = <<>>
  /\ loop' = "wait"
  /\ UNCHANGED <<callbacks, counter, poster, batch, posted, executed>>

-----------------------------------------------------------------------------

LoopStep == \/ Wake
            \/ ReadEventFd
            \/ PopAll
            \/ ExecuteFirst
            \/ CallbackReturns
            \/ RoundDone

Next == \/ \E t \in Threads : PushBack(t) \/ WriteEventFd(t)
        \/ LoopStep

Spec == Init /\ [][Next]_vars

(* A thread inside post() goes on to its write, and the application keeps   *)
(* driving the loop (run(), or waitAndHandleEvents over and over); nobody   *)
(* is obliged to post.  The callbacks themselves return.                    *)
Fairness == /\ \A t \in Threads : WF_vars(WriteEventFd(t))
            /\ WF_vars(LoopStep)

FairSpec == Spec /\ Fairness

-----------------------------------------------------------------------------

TypeOK ==
  /\ callbacks \in Seq(Callback)
  /\ counter \in 0..CounterMax
  /\ poster \in [Threads -> {"idle", "pushed"}]
  /\ loop \in {"wait", "ready", "pop", "next", "running"}
  /\ batch \in Seq(Callback)
  /\ posted \in Seq(Callback)
  /\ executed \in Seq(Callback)

(* No callback is lost, duplicated or overtaken on its way through the list *)
(* the posters share and the list the loop swapped out (eventfd.cpp:62-97), *)
(* whatever threads post and whenever callbacks post again.                 *)
ExactlyOnceInOrder == posted = executed \o batch \o callbacks

(* No lost wake-up: when a callback waits in the shared list, the eventfd   *)
(* is readable, or its poster has still to write it, or the loop has read   *)
(* it and has still to swap the list.  This is what the order read-then-pop *)
(* in handleEvents (eventfd.cpp:75-79) is for.                              *)
NoLostWakeUp ==
  callbacks # <<>> => \/ counter > 0
                      \/ \E t \in Threads : poster[t] = "pushed"
                      \/ loop = "pop"

(* A round runs what it swapped out and no more: a callback posted by a     *)
(* callback waits for the next round, so one that posts itself again cannot *)
(* keep the loop from its other descriptors (eventfd.cpp:82-90).            *)
RoundIsClosed ==
  [][(loop \in {"next", "running"}) =>
       Len(executed') + Len(batch') = Len(executed) + Len(batch)]_vars

(* Every callback that was posted is run in the end.                        *)
EveryPostRuns ==
  \A n \in 1..MaxPosts : Len(posted) >= n ~> Len(executed) >= n

(* The queue implements the service: what is pending is what the loop has   *)
(* swapped out followed by what the posters have pushed since.              *)
Service == INSTANCE CallbackService
             WITH pending <- batch \o callbacks, done <- executed

ImplementsService == Service!Spec
=============================================================================
