----------------------------- MODULE TimerQueue ------------------------------
(***************************************************************************)
(* The timer service (src/timer): two multimaps of timers, one of those    *)
(* that fire once and one of those that recur, ordered by timeout, and a   *)
(* single timerfd armed for the earliest of them.  The loop's thread runs  *)
(* what is due when the timerfd expires; any thread may add a timer.  The  *)
(* queue's mutex is held by runOnceAfter and runEveryInterval throughout,  *)
(* and by timerHandle throughout, the callbacks it runs included: those    *)
(* add timers with addOnceTimer and addRecurringTimer, which do not lock.  *)
(*                                                                         *)
(* Time is relative: left[t] is what remains until timer t's timeout, and  *)
(* Tick lets a millisecond pass for everybody, between any two steps: the  *)
(* clock waits for nobody, and a callback takes any time.  Of a timeout    *)
(* that has passed the code asks only that it has, and which of two was    *)
(* first, and left keeps no more, from MaxLate on.                         *)
(*                                                                         *)
(* The multimaps are sets ordered by left; timers of equal timeout are     *)
(* taken in any order.  A callback that calls runOnceAfter or              *)
(* runEveryInterval locks a mutex its own thread holds and never returns;  *)
(* it is left out.                                                         *)
(*                                                                         *)
(* Operators named X_Y are bugs X might have had; no specification uses    *)
(* them.                                                                   *)
(***************************************************************************)
EXTENDS Integers, FiniteSets

CONSTANTS
  Threads,        \* the threads that add timers from outside
  LoopThread,     \* the event loop's, which is none of them
  Timers,         \* Timer objects
  Intervals,      \* the intervals users ask for
  MinInterval,    \* what getTimeInterval rounds up to, 15 ms in the code
  MaxInterval,    \* no interval is larger
  MaxLate,        \* bound: how many passed timeouts are told apart
  Wrap            \* 2^64, where uint64_t wraps round

ASSUME TimerQueueAssumption ==
  /\ LoopThread \notin Threads
  /\ MinInterval \in Nat \ {0} /\ MaxInterval \in Nat /\ MaxLate \in Nat
  /\ MinInterval <= MaxInterval
  /\ Intervals \subseteq 0..MaxInterval
  /\ IsFiniteSet(Timers) /\ MaxLate >= Cardinality(Timers)
  /\ MaxLate >= MinInterval
  /\ Wrap \in Nat /\ Wrap > MaxInterval + MaxLate

VARIABLES
  once,           \* onceTimers
  recurring,      \* recurringTimers
  left,           \* left[t]: time until t's timeout, negative once it passed
  interval,       \* interval[t]: Timer::intervalMs
  remain,         \* the timerfd: time until it expires, 0 when disarmed
  expired,        \* the timerfd: whether it is readable
  arming,         \* <<thread, timer>>: inside addOnceTimer or
                  \* addRecurringTimer, the timer inserted
  pc,             \* where the loop thread stands in timerHandle
  running         \* the timer whose callback timerHandle runs

vars == <<once, recurring, left, interval, remain, expired, arming, pc, running>>

Queued == once \cup recurring

Init ==
  /\ once = {} /\ recurring = {}
  /\ left = [t \in Timers |-> 0]
  /\ interval = [t \in Timers |-> 0]
  /\ remain = 0 /\ expired = FALSE
  /\ arming = {}
  /\ pc = "idle" /\ running = {}

-----------------------------------------------------------------------------
(* Time.                                                                   *)

(* A timerfd that was armed beyond MaxInterval, that is with a difference   *)
(* that wrapped round, does not expire in anybody's lifetime.               *)
Stranded == remain > MaxInterval

(* A timer is as late as can be told when every level from the last one up  *)
(* to its own is taken.  One more, and it would meet the timer below: two   *)
(* timeouts never change their order, nor become one.  There are levels     *)
(* enough for every timer to be overdue.                                    *)
Latest(t) == \A n \in -MaxLate..left[t] : \E u \in Queued : left[u] = n

Tick ==
  /\ left' = [t \in Timers |->
                IF t \in Queued /\ ~Latest(t) THEN left[t] - 1 ELSE left[t]]
  /\ remain' = IF remain = 0 \/ Stranded THEN remain ELSE remain - 1
  /\ expired' = (expired \/ remain = 1)
  /\ UNCHANGED <<once, recurring, interval, arming, pc, running>>

(* Timer::getTimeInterval: the difference of two uint64_t, then the least   *)
(* interval.                                                                *)
Armed_Signed(difference) == difference
Armed(difference) ==
  IF difference < 0 THEN difference + Wrap
  ELSE IF difference <= MinInterval THEN MinInterval ELSE difference

(* resetTimer(timer): timerfd_settime starts afresh, and takes back an      *)
(* expiration that was not read.                                            *)
SetTime(t) == remain' = Armed(left[t]) /\ expired' = FALSE

-----------------------------------------------------------------------------
(* Adding timers.                                                          *)

MutexFree == pc \in {"idle", "woken"} /\ arming = {}

(* Outside threads take the mutex (and so does the loop's thread between    *)
(* two polls, when it is no different from them); in a callback the loop's  *)
(* thread adds with the mutex held.                                         *)
MayAdd(thread) ==
  \/ thread \in Threads /\ MutexFree
  \/ thread = LoopThread /\ running # {} /\ arming = {}

(* The Timer is made, reading the clock, and inserted.                      *)
Insert(thread, t) ==
  /\ MayAdd(thread)
  /\ t \notin Queued
  /\ \E i \in Intervals : /\ left' = [left EXCEPT ![t] = i]
                          /\ interval' = [interval EXCEPT ![t] = i]
  /\ \/ once' = once \cup {t} /\ UNCHANGED recurring
     \/ recurring' = recurring \cup {t} /\ UNCHANGED once
  /\ arming' = {<<thread, t>>}
  /\ UNCHANGED <<remain, expired, pc, running>>

(* needResetTimer: no timer of the list is earlier, nor is there another    *)
(* with the same timeout.                                                   *)
NeedReset(timers, t) ==
  /\ \A u \in timers : left[u] >= left[t]
  /\ Cardinality({u \in timers : left[u] = left[t]}) <= 1

FirstOfAll_OfItsList(t) == NeedReset(once, t) \/ NeedReset(recurring, t)
FirstOfAll(t) == NeedReset(once, t) /\ NeedReset(recurring, t)

(* The second half of addOnceTimer and addRecurringTimer.                   *)
Arm(thread, t) ==
  /\ <<thread, t>> \in arming
  /\ IF FirstOfAll(t) THEN SetTime(t) ELSE UNCHANGED <<remain, expired>>
  /\ arming' = {}
  /\ UNCHANGED <<once, recurring, left, interval, pc, running>>

-----------------------------------------------------------------------------
(* TimerQueue::timerHandle, on the loop's thread.                          *)

(* epoll_wait reports the timerfd.                                          *)
Wake ==
  /\ pc = "idle"
  /\ expired
  /\ pc' = "woken"
  /\ UNCHANGED <<once, recurring, left, interval, remain, expired, arming, running>>

(* The mutex, then readTimerFd, which fails harmlessly when the timerfd was *)
(* set again in between.                                                    *)
LockAndRead ==
  /\ pc = "woken"
  /\ arming = {}
  /\ expired' = FALSE
  /\ pc' = "once"
  /\ UNCHANGED <<once, recurring, left, interval, remain, arming, running>>

IsFirst(t, timers) == t \in timers /\ \A u \in timers : left[t] <= left[u]
Due(timers) == \E t \in timers : left[t] <= 0

(* One turn of either loop: the first timer, if its time has come.          *)
RunFirst ==
  /\ pc \in {"once", "recurring"} /\ running = {}
  /\ LET timers == IF pc = "once" THEN once ELSE recurring
     IN  /\ Due(timers)
         /\ \E t \in timers : IsFirst(t, timers) /\ running' = {t}
  /\ UNCHANGED <<once, recurring, left, interval, remain, expired, arming, pc>>

(* ... and the end of the loop, when it has not.                            *)
LoopDone ==
  /\ running = {}
  /\ \/ pc = "once" /\ ~Due(once) /\ pc' = "recurring"
     \/ pc = "recurring" /\ ~Due(recurring) /\ pc' = "reset"
  /\ UNCHANGED <<once, recurring, left, interval, remain, expired, arming, running>>

(* A timer that fires once is erased after its callback.                    *)
OnceReturns(t) ==
  /\ pc = "once" /\ running = {t} /\ arming = {}
  /\ once' = once \ {t}
  /\ left' = [left EXCEPT ![t] = 0]
  /\ interval' = [interval EXCEPT ![t] = 0]
  /\ running' = {}
  /\ UNCHANGED <<recurring, remain, expired, arming, pc>>

(* One that recurs reads the clock again and is inserted anew.              *)
RecurringReturns(t) ==
  /\ pc = "recurring" /\ running = {t} /\ arming = {}
  /\ left' = [left EXCEPT ![t] = interval[t]]
  /\ running' = {}
  /\ UNCHANGED <<once, recurring, interval, remain, expired, arming, pc>>

(* resetTimer(): the earliest of both lists; then the mutex is released.    *)
ResetCandidates_Once == once
ResetCandidates == Queued

Reset ==
  /\ pc = "reset"
  /\ IF ResetCandidates = {}
     THEN UNCHANGED <<remain, expired>>
     ELSE \E t \in ResetCandidates : IsFirst(t, ResetCandidates) /\ SetTime(t)
  /\ pc' = "idle"
  /\ UNCHANGED <<once, recurring, left, interval, arming, running>>

-----------------------------------------------------------------------------

TimerHandle == \/ Wake \/ LockAndRead \/ RunFirst \/ LoopDone \/ Reset
               \/ \E t \in Timers : OnceReturns(t) \/ RecurringReturns(t)

Adders == Threads \cup {LoopThread}

Next == \/ Tick
        \/ TimerHandle
        \/ \E thread \in Adders, t \in Timers : Insert(thread, t) \/ Arm(thread, t)

Spec == Init /\ [][Next]_vars

(* Time passes, the loop polls and its callbacks return, and a thread that  *)
(* is adding a timer comes to the end of it.                                *)
FairSpec ==
  /\ Spec
  /\ WF_vars(Tick)
  /\ WF_vars(TimerHandle)
  /\ WF_vars(\E thread \in Adders, t \in Timers : Arm(thread, t))

-----------------------------------------------------------------------------

TypeOK ==
  /\ once \subseteq Timers /\ recurring \subseteq Timers
  /\ left \in [Timers -> -MaxLate..MaxInterval]
  /\ interval \in [Timers -> 0..MaxInterval]
  /\ remain \in 0..Wrap
  /\ expired \in BOOLEAN
  /\ arming \in SUBSET (Adders \X Timers)
  /\ pc \in {"idle", "woken", "once", "recurring", "reset"}
  /\ running \in SUBSET Timers

(* Whenever nobody is inside the queue, the timerfd is readable or will     *)
(* expire in time for every timer, at most the least interval after its     *)
(* timeout (timerQueue.cpp:87-107 and 120-153): no order of additions and   *)
(* rounds postpones a timer for another's sake.  The exception is a timerfd *)
(* that was armed for a timeout that had passed already.                    *)
InTime(t) == remain > 0 /\ remain <= left[t] + MinInterval
ArmedInTime ==
  (pc = "idle" /\ arming = {} /\ ~expired) =>
    Stranded \/ \A t \in Queued : InTime(t)

(* A timer that was added fires, and fires out of the queue if it fires     *)
(* once; a recurring one fires again and again (timerQueue.cpp:47-85).  The *)
(* same exception, and a second: timerHandle, which reads the clock before  *)
(* every callback, may never come to the end of the other list, because a   *)
(* recurring callback lasts as long as its interval (65-81) or one that     *)
(* fires once adds another that is due when it returns (54-63).             *)
NeverLeaves(list) == [](pc = list)

EveryTimerFires ==
  \A t \in Timers :
    /\ t \in once ~> (t \notin once \/ Stranded \/ NeverLeaves("recurring"))
    /\ t \in recurring ~> (running = {t} \/ Stranded \/ NeverLeaves("once"))

(* needResetTimer leaves the timerfd alone for a timer that finds an        *)
(* earlier one, or another with its timeout, because "these timers will be  *)
(* triggered at the right time" (timerQueue.cpp:94 and 101).                *)
EarlierTimersAreArmed ==
  \A call \in arming :
    (pc = "idle" /\ ~expired /\ ~FirstOfAll(call[2])) => InTime(call[2])
=============================================================================
