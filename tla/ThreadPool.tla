----------------------------- MODULE ThreadPool ------------------------------
(***************************************************************************)
(* EventThreadPool::init and the threads it starts (src/thread): Thread,   *)
(* whose constructor starts a std::thread that waits for start(), and      *)
(* EventLoopThread, which makes a loop on its own stack and hands its      *)
(* address to the thread that asks; then the choice of a loop for every    *)
(* new connection.                                                         *)
(*                                                                         *)
(* Each class has a mutex of its own.  Thread's stays locked while run()   *)
(* runs, which is for ever; a section that is locked and unlocked within   *)
(* one call is one step here, guarded by the mutex being free.  A wait     *)
(* may end without a notification.                                         *)
(*                                                                         *)
(* Names that every module has carry a prefix here: one module of theorems *)
(* extends this one and TcpServer, which is handed the loops.              *)
(*                                                                         *)
(* Operators named X_Y are bugs X might have had; no specification uses    *)
(* them.                                                                   *)
(***************************************************************************)
EXTENDS Naturals, Sequences, SequencesExt

CONSTANTS
  ThreadNum,    \* EventThreadPool::threadNum, whose width plays no part
  MaxPicks      \* bound: how many connections ask for a loop

ASSUME ThreadPoolAssumption == ThreadNum \in Nat /\ MaxPicks \in Nat

PoolThreads == 1..ThreadNum

VARIABLES
  main,         \* what the thread in init() does next
  i,            \* the thread it works on
  started,      \* Thread::started
  thread,       \* where each std::thread is
  notified,     \* the threads that start() has notified while they waited
  loop,         \* EventLoopThread::loop: "garbage", "null" or "own"
  answered,     \* run() has notified while init() waited
  spurious,     \* history: the threads for which that wait ended by itself
  eventLoopPoll,\* the loops init() was given, in order
  threadIndex,
  picks         \* history: how often each loop was handed out

pool == <<eventLoopPoll, threadIndex, picks>>
poolVars == <<main, i, started, thread, notified, loop, answered, spurious,
              eventLoopPoll, threadIndex, picks>>

Started_AtOnce == [t \in PoolThreads |-> TRUE]
Started == [t \in PoolThreads |-> FALSE]

PoolInit ==
  /\ main = IF ThreadNum = 0 THEN "ready" ELSE "make"
  /\ i = 1
  /\ started = Started
  /\ thread = [t \in PoolThreads |-> "none"]
  /\ notified = {}
  /\ loop = [t \in PoolThreads |-> "garbage"]
  /\ answered = FALSE
  /\ spurious = {}
  /\ eventLoopPoll = <<>>
  /\ threadIndex = 0
  /\ picks = [t \in PoolThreads |-> 0]

-----------------------------------------------------------------------------
(* The thread that calls init().                                           *)

(* The base class's constructor starts the std::thread ...                  *)
MakeThread ==
  /\ main = "make"
  /\ thread' = [thread EXCEPT ![i] = "beginRun"]
  /\ main' = "construct"
  /\ UNCHANGED <<i, started, notified, loop, answered, spurious, pool>>

(* ... before that of EventLoopThread has cleared its member.               *)
Construct ==
  /\ main = "construct"
  /\ loop' = [loop EXCEPT ![i] = "null"]
  /\ main' = "start"
  /\ UNCHANGED <<i, started, thread, notified, answered, spurious, pool>>

(* Thread's mutex is held by its thread from the moment it runs.            *)
Runs(t) == thread[t] \in {"run", "loop"}

Notified_Nobody == notified
Notified == IF thread[i] = "waiting" THEN notified \cup {i} ELSE notified

Start ==
  /\ main = "start"
  /\ ~ Runs(i)
  /\ started' = [started EXCEPT ![i] = TRUE]
  /\ notified' = Notified
  /\ main' = "get"
  /\ UNCHANGED <<i, thread, loop, answered, spurious, pool>>

(* getEventLoopInThread waits once if there is no loop yet.                 *)
MustWait_Never == FALSE
MustWait == loop[i] = "null"

GetLoop ==
  /\ main = "get"
  /\ main' = IF MustWait THEN "wait" ELSE "return"
  /\ answered' = FALSE
  /\ UNCHANGED <<i, started, thread, notified, loop, spurious, pool>>

WaitEnds ==
  /\ main = "wait"
  /\ answered
  /\ main' = "return"
  /\ UNCHANGED <<i, started, thread, notified, loop, answered, spurious, pool>>

WaitEndsByItself ==
  /\ main = "wait"
  /\ main' = "return"
  /\ spurious' = spurious \cup {i}
  /\ UNCHANGED <<i, started, thread, notified, loop, answered, pool>>

(* The member is read after the mutex was released.                         *)
PushLoop ==
  /\ main = "return"
  /\ eventLoopPoll' = Append(eventLoopPoll, <<i, loop[i]>>)
  /\ i' = i + 1
  /\ main' = IF i < ThreadNum THEN "make" ELSE "ready"
  /\ UNCHANGED <<started, thread, notified, loop, answered, spurious,
                 threadIndex, picks>>

(* getOneLoopFromPool; without threads the main loop is the answer.         *)
NextIndex_PastTheEnd(index) ==
  IF index + 1 > Len(eventLoopPoll) THEN 0 ELSE index + 1
NextIndex_SkipsFirst(index) ==
  IF index + 1 >= Len(eventLoopPoll) THEN Len(eventLoopPoll) - 1 ELSE index + 1
NextIndex(index) ==
  IF index + 1 >= Len(eventLoopPoll) THEN 0 ELSE index + 1

GetOneLoop ==
  /\ main = "ready"
  /\ eventLoopPoll # <<>>
  /\ \E t \in PoolThreads : picks[t] < MaxPicks
  /\ threadIndex' = NextIndex(threadIndex)
  /\ picks' = [picks EXCEPT ![threadIndex' + 1] = @ + 1]
  /\ UNCHANGED <<main, i, started, thread, notified, loop, answered, spurious,
                 eventLoopPoll>>

-----------------------------------------------------------------------------
(* A thread of the pool.                                                   *)

(* beginRun: it runs if it was started, else it waits and looks again.      *)
Looks(t) ==
  thread' = [thread EXCEPT ![t] = IF started[t] THEN "run" ELSE "waiting"]

BeginRun(t) ==
  /\ thread[t] = "beginRun"
  /\ Looks(t)
  /\ UNCHANGED <<main, i, started, notified, loop, answered, spurious, pool>>

(* Waking up by itself shows the thread nothing that it does not wait for.  *)
Wakes(t) ==
  /\ thread[t] = "waiting"
  /\ t \in notified
  /\ Looks(t)
  /\ notified' = notified \ {t}
  /\ UNCHANGED <<main, i, started, loop, answered, spurious, pool>>

(* run: the loop is made, its address stored, the asking thread notified.   *)
PublishLoop(t) ==
  /\ thread[t] = "run"
  /\ loop' = [loop EXCEPT ![t] = "own"]
  /\ answered' = (answered \/ (main = "wait" /\ i = t))
  /\ thread' = [thread EXCEPT ![t] = "loop"]
  /\ UNCHANGED <<main, i, started, notified, spurious, pool>>

-----------------------------------------------------------------------------

MainStep == \/ MakeThread \/ Construct \/ Start \/ GetLoop \/ WaitEnds
            \/ PushLoop \/ GetOneLoop

ThreadStep(t) == BeginRun(t) \/ Wakes(t) \/ PublishLoop(t)

PoolNext == \/ MainStep \/ WaitEndsByItself
            \/ \E t \in PoolThreads : ThreadStep(t)

PoolSpec == PoolInit /\ [][PoolNext]_poolVars

(* The operating system runs every thread that can go on; it ends no wait   *)
(* by itself that anybody could rely on.                                    *)
PoolFairSpec ==
  PoolSpec /\ WF_poolVars(MainStep) /\ \A t \in PoolThreads : WF_poolVars(ThreadStep(t))

-----------------------------------------------------------------------------

PoolTypeOK ==
  /\ main \in {"make", "construct", "start", "get", "wait", "return", "ready"}
  /\ i \in 1..ThreadNum + 1
  /\ started \in [PoolThreads -> BOOLEAN]
  /\ thread \in [PoolThreads -> {"none", "beginRun", "waiting", "run", "loop"}]
  /\ notified \subseteq PoolThreads
  /\ loop \in [PoolThreads -> {"garbage", "null", "own"}]
  /\ answered \in BOOLEAN
  /\ spurious \subseteq PoolThreads
  /\ eventLoopPoll \in Seq(PoolThreads \X {"null", "own"})
  /\ threadIndex = 0 \/ threadIndex < Len(eventLoopPoll)
  /\ picks \in [PoolThreads -> 0..MaxPicks]

(* No thread runs before its object is complete: its class would still be   *)
(* the abstract one, and the constructor would clear the loop it stored     *)
(* (thread.cpp:6, eventThread.cpp:6).                                       *)
RunsConstructed == \A t \in PoolThreads : Runs(t) => loop[t] # "garbage"

(* Every loop of the pool is that of a thread of its own, except one whose  *)
(* single wait ended by itself (eventThread.cpp:14-17).                     *)
PoolLoopsReady ==
  \A k \in DOMAIN eventLoopPoll :
    LET t == eventLoopPoll[k][1]
    IN  t = k /\ (eventLoopPoll[k][2] = "own" \/ t \in spurious)

(* Connections are spread evenly over the loops, from whichever of them the *)
(* round begins (eventThreadPool.cpp:50-64).                                *)
Balanced == \A s, t \in PoolThreads : picks[s] <= picks[t] + 1

(* init() returns, with every thread in its loop: neither notification is   *)
(* missed, whoever comes first.                                             *)
InitEnds == <>[](main = "ready" /\ \A t \in PoolThreads : thread[t] = "loop")
=============================================================================
