------------------------------ MODULE EventLoop ------------------------------
(***************************************************************************)
(* EventLoop's own part of the work (src/event/eventLoop.cpp): which       *)
(* thread a loop belongs to, run(), handleEvent() and stop(), and the      *)
(* functions that runInLoop hands to it.  A function given to the loop's   *)
(* own thread is called on the spot; any other thread appends it to a      *)
(* vector under the loop's mutex.  run() drains the vector after each      *)
(* poll, and holds the mutex while the functions run; handleEvent() never  *)
(* drains it.  Several loops run side by side (the application's and those *)
(* of the thread pool), and their functions give functions to each other,  *)
(* in circles too: the code puts no limit on that.                         *)
(*                                                                         *)
(* A poll ends within PollTimeMs whether or not anything happens, so it is *)
(* a state the loop leaves; what it dispatches is module EventDispatch's   *)
(* business and is "user code" here.  The mutex needs no variable: only a  *)
(* drain keeps it from one step to the next.                               *)
(*                                                                         *)
(* Operators named X_Y are bugs X might have had; no specification uses    *)
(* them.                                                                   *)
(***************************************************************************)
EXTENDS Naturals, Sequences, FiniteSets, Functions

CONSTANTS
  Threads,
  Loops,
  Creator,      \* Creator[l]: the thread that constructs loop l
  MayDrive,     \* MayDrive[l]: the threads that may call run or handleEvent
  GivesTo,      \* <<l, m>>: a function run by l's drain may call m.runInLoop
  None,         \* no thread, no loop
  MaxCalls,     \* bound: functions added to one loop's vector
  MaxInline     \* bound: functions that runInLoop calls on the spot

ASSUME EventLoopAssumption ==
  /\ IsFiniteSet(Threads) /\ IsFiniteSet(Loops)
  /\ Creator \in [Loops -> Threads]
  /\ MayDrive \in [Loops -> SUBSET Threads]
  /\ GivesTo \subseteq Loops \X Loops
  /\ None \notin Threads \cup Loops
  /\ MaxCalls \in Nat /\ MaxInline \in Nat

VARIABLES
  running,      \* EventLoop::running
  threadId,     \* EventLoop::threadId
  callbacks,    \* EventLoop::callbacks, the functions named by their number
  next,         \* how many of them the drain under way has called
  driver,       \* the thread inside run() or handleEvent(), or None
  pc,           \* where it stands
  stack,        \* stack[t]: the loops whose functions thread t is inside of
  wants,        \* wants[t]: the loop whose mutex t waits for, or None
  added,        \* history: how many functions were appended to the vector
  ran,          \* history: the functions drains have called, in order
  inlined       \* history: how many were called on the spot

loopState == <<running, threadId, driver, pc>>
vector == <<callbacks, next>>
history == <<added, ran, inlined>>
vars == <<running, threadId, callbacks, next, driver, pc, stack, wants, added, ran,
          inlined>>

Init ==
  /\ running = [l \in Loops |-> TRUE]
  /\ threadId = Creator
  /\ callbacks = [l \in Loops |-> <<>>]
  /\ next = [l \in Loops |-> 0]
  /\ driver = [l \in Loops |-> None]
  /\ pc = [l \in Loops |-> "idle"]
  /\ stack = [t \in Threads |-> <<>>]
  /\ wants = [t \in Threads |-> None]
  /\ added = [l \in Loops |-> 0]
  /\ ran = [l \in Loops |-> <<>>]
  /\ inlined = 0

-----------------------------------------------------------------------------
(* Threads in user code.                                                   *)

(* Outside of any loop, in a handler that a poll dispatches, or in a        *)
(* function; and not waiting for a mutex.                                   *)
InUserCode(t) ==
  /\ wants[t] = None
  /\ \A l \in Loops : driver[l] = t => \/ pc[l] \in {"poll", "handle"}
                                       \/ stack[t] # <<>>

Drains(t, l) == driver[l] = t /\ pc[l] \in {"drain", "clear"}

(* What the loop's functions may do is the application's choice.            *)
MayGive(t, l) ==
  \A m \in Loops : Drains(t, m) => m = l \/ <<m, l>> \in GivesTo

InThisThread_Never(t, l) == FALSE
InThisThread(t, l) == threadId[l] = t

(* runInLoop on the loop's thread: the function is called at once.          *)
RunInline(t, l) ==
  /\ InUserCode(t)
  /\ InThisThread(t, l)
  /\ inlined < MaxInline
  /\ inlined' = inlined + 1
  /\ stack' = [stack EXCEPT ![t] = Append(@, l)]
  /\ UNCHANGED <<loopState, vector, wants, added, ran>>

(* runInLoop on another thread: addFunInLoop, up to its mutex ...           *)
RunInLoop(t, l) ==
  /\ InUserCode(t)
  /\ ~InThisThread(t, l)
  /\ MayGive(t, l)
  /\ added[l] + Cardinality({u \in Threads : wants[u] = l}) < MaxCalls
  /\ wants' = [wants EXCEPT ![t] = l]
  /\ UNCHANGED <<loopState, vector, stack, history>>

(* ... which a drain of that loop holds until it is over.                   *)
MutexFree_Always(l) == TRUE
MutexFree(l) == pc[l] \notin {"drain", "clear"}

AddFun(t, l) ==
  /\ wants[t] = l
  /\ MutexFree(l)
  /\ callbacks' = [callbacks EXCEPT ![l] = Append(@, added[l] + 1)]
  /\ added' = [added EXCEPT ![l] = @ + 1]
  /\ wants' = [wants EXCEPT ![t] = None]
  /\ UNCHANGED <<loopState, next, stack, ran, inlined>>

(* A function returns: to the one that called it, to the drain, or to the   *)
(* code that called runInLoop.                                              *)
FunctionReturns(t) ==
  /\ wants[t] = None
  /\ stack[t] # <<>>
  /\ stack' = [stack EXCEPT ![t] = SubSeq(@, 1, Len(@) - 1)]
  /\ UNCHANGED <<loopState, vector, wants, history>>

(* stop() wakes nobody: a loop in its poll finds out when the poll ends.    *)
Stop(t, l) ==
  /\ InUserCode(t)
  /\ running[l]
  /\ running' = [running EXCEPT ![l] = FALSE]
  /\ UNCHANGED <<threadId, driver, pc, vector, stack, wants, history>>

-----------------------------------------------------------------------------
(* Driving a loop.                                                         *)

(* A thread drives one loop at a time, and a loop is handed over when       *)
(* nobody is in the middle of a function of its.                            *)
MayStart(t, l) ==
  /\ t \in MayDrive[l]
  /\ driver[l] = None
  /\ wants[t] = None /\ stack[t] = <<>>
  /\ \A m \in Loops : driver[m] # t
  /\ \A u \in Threads : l \notin Range(stack[u])

NewThreadId_Kept(t, l) == threadId[l]
NewThreadId(t, l) == t

Run(t, l) ==
  /\ MayStart(t, l)
  /\ threadId' = [threadId EXCEPT ![l] = NewThreadId(t, l)]
  /\ driver' = [driver EXCEPT ![l] = t]
  /\ pc' = [pc EXCEPT ![l] = "check"]
  /\ UNCHANGED <<running, vector, stack, wants, history>>

(* while(running)                                                           *)
GoesOn_Always(l) == TRUE
GoesOn(l) == running[l]

CheckRunning(l) ==
  /\ pc[l] = "check"
  /\ pc' = [pc EXCEPT ![l] = IF GoesOn(l) THEN "poll" ELSE "idle"]
  /\ driver' = [driver EXCEPT ![l] = IF GoesOn(l) THEN @ ELSE None]
  /\ UNCHANGED <<running, threadId, vector, stack, wants, history>>

(* waitAndRunHandler is through, the handlers it called included.           *)
InNoFunction(t) == stack[t] = <<>> /\ wants[t] = None

AfterPoll_Again(l) == {"check", "drain"}
AfterPoll(l) == {"drain"}

PollReturns(l) ==
  /\ pc[l] = "poll"
  /\ InNoFunction(driver[l])
  /\ \E where \in AfterPoll(l) : pc' = [pc EXCEPT ![l] = where]
  /\ UNCHANGED <<running, threadId, driver, vector, stack, wants, history>>

(* runAllFunctionInLoop: each in its turn, the mutex held ...               *)
RunFunction(l) ==
  /\ pc[l] = "drain"
  /\ InNoFunction(driver[l])
  /\ next[l] < Len(callbacks[l])
  /\ next' = [next EXCEPT ![l] = @ + 1]
  /\ ran' = [ran EXCEPT ![l] = Append(@, callbacks[l][next[l] + 1])]
  /\ stack' = [stack EXCEPT ![driver[l]] = <<l>>]
  /\ UNCHANGED <<loopState, callbacks, wants, added, inlined>>

DrainDone(l) ==
  /\ pc[l] = "drain"
  /\ InNoFunction(driver[l])
  /\ next[l] >= Len(callbacks[l])
  /\ pc' = [pc EXCEPT ![l] = "clear"]
  /\ UNCHANGED <<running, threadId, driver, vector, stack, wants, history>>

(* ... then all are dropped, and the mutex is released.                     *)
Clear(l) ==
  /\ pc[l] = "clear"
  /\ callbacks' = [callbacks EXCEPT ![l] = <<>>]
  /\ next' = [next EXCEPT ![l] = 0]
  /\ pc' = [pc EXCEPT ![l] = "check"]
  /\ UNCHANGED <<running, threadId, driver, stack, wants, history>>

(* handleEvent: one poll, on whatever thread, and nothing else.             *)
HandleEvent(t, l) ==
  /\ MayStart(t, l)
  /\ driver' = [driver EXCEPT ![l] = t]
  /\ pc' = [pc EXCEPT ![l] = "handle"]
  /\ UNCHANGED <<running, threadId, vector, stack, wants, history>>

HandleReturns(l) ==
  /\ pc[l] = "handle"
  /\ InNoFunction(driver[l])
  /\ driver' = [driver EXCEPT ![l] = None]
  /\ pc' = [pc EXCEPT ![l] = "idle"]
  /\ UNCHANGED <<running, threadId, vector, stack, wants, history>>

-----------------------------------------------------------------------------

LoopStep(l) == \/ CheckRunning(l) \/ PollReturns(l) \/ RunFunction(l)
               \/ DrainDone(l) \/ Clear(l) \/ HandleReturns(l)

Next ==
  \/ \E l \in Loops : LoopStep(l)
  \/ \E t \in Threads :
       \/ FunctionReturns(t)
       \/ \E l \in Loops : \/ RunInline(t, l) \/ RunInLoop(t, l) \/ AddFun(t, l)
                           \/ Stop(t, l) \/ Run(t, l) \/ HandleEvent(t, l)

Spec == Init /\ [][Next]_vars

(* Loops go on, handlers and functions return (they make finitely many      *)
(* calls), and a thread that waits for a mutex which is released over and   *)
(* over gets it at last.                                                    *)
FairSpec ==
  /\ Spec
  /\ \A l \in Loops : WF_vars(LoopStep(l))
  /\ \A t \in Threads : /\ WF_vars(FunctionReturns(t))
                        /\ SF_vars(\E l \in Loops : AddFun(t, l))

-----------------------------------------------------------------------------

TypeOK ==
  /\ running \in [Loops -> BOOLEAN]
  /\ threadId \in [Loops -> Threads]
  /\ callbacks \in [Loops -> Seq(1..MaxCalls)]
  /\ next \in [Loops -> 0..MaxCalls]
  /\ driver \in [Loops -> Threads \cup {None}]
  /\ pc \in [Loops -> {"idle", "check", "poll", "drain", "clear", "handle"}]
  /\ stack \in [Threads -> Seq(Loops)]
  /\ wants \in [Threads -> Loops \cup {None}]
  /\ added \in [Loops -> 0..MaxCalls]
  /\ ran \in [Loops -> Seq(1..MaxCalls)]
  /\ inlined \in 0..MaxInline
  /\ \A l \in Loops : driver[l] = None <=> pc[l] = "idle"

(* Functions given to a loop from other threads are called once each and in *)
(* the order in which they were added, however additions interleave with    *)
(* drains and with the clear() at the end of them (eventLoop.cpp:25-43).    *)
OnceInOrder ==
  \A l \in Loops :
    ran[l] \o SubSeq(callbacks[l], next[l] + 1, Len(callbacks[l]))
      = [n \in 1..added[l] |-> n]

(* A loop's functions run on its thread and on no other, though the thread  *)
(* that made the loop calls them itself until another one runs the loop     *)
(* (eventLoop.cpp:80-92 and 105-114).                                       *)
OnLoopThread ==
  \A t \in Threads, l \in Loops : l \in Range(stack[t]) => t = threadId[l]

(* A thread that waits for a mutex waits for the drain that holds it.  In a *)
(* circle everyone waits for another of the circle, and nobody goes on.     *)
Blocked(t) == wants[t] # None /\ ~MutexFree(wants[t])
WaitsFor(t) == driver[wants[t]]
Circle(threads) ==
  threads # {} /\ \A t \in threads : Blocked(t) /\ WaitsFor(t) \in threads

(* Loops each of which gives functions to another of them.                  *)
MutualGiving(loops) ==
  loops # {} /\ \A l \in loops : \E m \in loops \ {l} : <<l, m>> \in GivesTo

(* The mutex is held while functions run (eventLoop.cpp:31-43), so drains   *)
(* can come to wait for each other; but wherever threads wait in a circle,  *)
(* whatever they were doing when they got there, loops are being drained    *)
(* whose functions give to one another.  No loop waits for itself, and      *)
(* nothing else that threads do closes a circle.                            *)
OnlyMutualGivingDeadlocks ==
  \A threads \in SUBSET Threads :
    Circle(threads) =>
      \E loops \in SUBSET {l \in Loops : \E t \in threads : Drains(t, l)} :
        MutualGiving(loops)

Deadlocked(l) ==
  \E threads \in SUBSET Threads : Circle(threads) /\ driver[l] \in threads

(* While run() runs the loop, what was added to it is called, unless the    *)
(* loop is stopped first or its thread waits in a circle.                   *)
InRun(l) == pc[l] \in {"check", "poll", "drain", "clear"}
AddedRuns ==
  \A l \in Loops, n \in 1..MaxCalls :
    (InRun(l) /\ added[l] >= n) ~> (Len(ran[l]) >= n \/ ~running[l] \/ Deadlocked(l))

(* A loop that was stopped leaves run(), whatever it is doing and whoever   *)
(* keeps giving it functions, unless its thread waits in a circle.          *)
StopEnds == \A l \in Loops : ~running[l] ~> (pc[l] = "idle" \/ Deadlocked(l))
=============================================================================
