-------------------------- MODULE TimerQueueProofs ---------------------------
(***************************************************************************)
(* Theorems about TimerQueue, for every set of threads, timers and         *)
(* intervals and every value of the least interval and of the word size.   *)
(***************************************************************************)
EXTENDS TimerQueue, FiniteSetTheorems, TLAPS

-----------------------------------------------------------------------------
(* Timer::getTimeInterval.                                                 *)

(* What the timerfd is armed with: out of reach when the timeout has        *)
(* passed, and never more than the least interval beyond it otherwise.      *)
LEMMA ArmedBounds ==
  ASSUME NEW d \in -MaxLate..MaxInterval
  PROVE  /\ Armed(d) \in 1..Wrap
         /\ d < 0 => Armed(d) > MaxInterval
         /\ d >= 0 => Armed(d) <= d + MinInterval
  BY TimerQueueAssumption DEF Armed

(* needResetTimer says no only if another timer is as early.               *)
LEMMA NotFirstHasEarlier ==
  ASSUME NEW timers, NEW t, ~NeedReset(timers, t),
         \A u \in timers \cup {t} : left[u] \in Int
  PROVE  \E u \in timers : u # t /\ left[u] <= left[t]
  <1>1. CASE \E u \in timers : ~(left[u] >= left[t])
    BY <1>1
  <1>2. CASE ~(Cardinality({u \in timers : left[u] = left[t]}) <= 1)
    <2> DEFINE Same == {u \in timers : left[u] = left[t]}
    <2>1. SUFFICES ASSUME \A u \in Same : u = t
                   PROVE  FALSE
      BY DEF Same
    <2>2. Same = {} \/ Same = {t}
      BY <2>1
    <2>3. Cardinality(Same) = 0 \/ Cardinality(Same) = 1
      BY <2>2, FS_EmptySet, FS_Singleton
    <2>4. QED
      BY <1>2, <2>3 DEF Same
  <1>3. QED
    BY <1>1, <1>2 DEF NeedReset

-----------------------------------------------------------------------------

(* Every variable keeps its type; in particular the timerfd is never given *)
(* a value below zero or beyond the word.                                  *)
THEOREM Typing == Spec => []TypeOK
  <1> USE TimerQueueAssumption
  <1>1. Init => TypeOK
    <2>1. 0 \in -MaxLate..MaxInterval /\ 0 \in 0..MaxInterval /\ 0 \in 0..Wrap
      OBVIOUS
    <2>2. QED
      BY <2>1 DEF Init, TypeOK
  <1>2. ASSUME TypeOK, [Next]_vars
        PROVE  TypeOK'
    <2> USE <1>2 DEF TypeOK, Queued
    <2>0. ASSUME NEW t \in Timers, SetTime(t)
          PROVE  remain' \in 0..Wrap /\ expired' \in BOOLEAN
      <3>0. left[t] \in -MaxLate..MaxInterval
        OBVIOUS
      <3>1. Armed(left[t]) \in 1..Wrap
        BY <3>0, ArmedBounds
      <3>2. remain' \in 0..Wrap
        BY <2>0, <3>1 DEF SetTime
      <3>3. expired' = FALSE
        BY <2>0 DEF SetTime
      <3>4. QED
        BY <3>2, <3>3
    <2>1. CASE Tick
      <3>1. left' \in [Timers -> -MaxLate..MaxInterval]
        <4>1. ASSUME NEW t \in Queued, ~Latest(t)
              PROVE  left[t] - 1 \in -MaxLate..MaxInterval
          BY <4>1 DEF Latest
        <4>2. QED
          BY <2>1, <4>1 DEF Tick
      <3>2. remain' \in 0..Wrap
        BY <2>1 DEF Tick, Stranded
      <3>3. QED
        BY <2>1, <3>1, <3>2 DEF Tick
    <2>2. ASSUME NEW thread \in Adders, NEW t \in Timers, Insert(thread, t)
          PROVE  TypeOK'
      <3>1. PICK i \in Intervals : /\ left' = [left EXCEPT ![t] = i]
                                   /\ interval' = [interval EXCEPT ![t] = i]
        BY <2>2 DEF Insert
      <3>2. i \in 0..MaxInterval /\ i \in -MaxLate..MaxInterval
        OBVIOUS
      <3>3. /\ left' \in [Timers -> -MaxLate..MaxInterval]
            /\ interval' \in [Timers -> 0..MaxInterval]
        BY <3>1, <3>2
      <3>4. QED
        BY <2>2, <3>3 DEF Insert
    <2>3. ASSUME NEW thread \in Adders, NEW t \in Timers, Arm(thread, t)
          PROVE  TypeOK'
      BY <2>0, <2>3 DEF Arm
    <2>4. CASE Wake
      BY <2>4 DEF Wake
    <2>5. CASE LockAndRead
      BY <2>5 DEF LockAndRead
    <2>6. CASE RunFirst
      BY <2>6 DEF RunFirst, IsFirst
    <2>7. CASE LoopDone
      BY <2>7 DEF LoopDone
    <2>8. ASSUME NEW t \in Timers, OnceReturns(t)
          PROVE  TypeOK'
      <3>1. 0 \in -MaxLate..MaxInterval /\ 0 \in 0..MaxInterval
        OBVIOUS
      <3>2. QED
        BY <2>8, <3>1 DEF OnceReturns
    <2>9. ASSUME NEW t \in Timers, RecurringReturns(t)
          PROVE  TypeOK'
      <3>1. interval[t] \in -MaxLate..MaxInterval
        OBVIOUS
      <3>2. QED
        BY <2>9, <3>1 DEF RecurringReturns
    <2>10. CASE Reset
      BY <2>0, <2>10 DEF Reset, ResetCandidates
    <2>11. CASE UNCHANGED vars
      BY <2>11 DEF vars
    <2>12. QED
      BY <2>1, <2>2, <2>3, <2>4, <2>5, <2>6, <2>7, <2>8, <2>9, <2>10, <2>11
         DEF Next, TimerHandle
  <1>3. QED
    BY <1>1, <1>2, PTL DEF Spec

-----------------------------------------------------------------------------

(* ArmedInTime holds because of more than it says.  While a thread is       *)
(* inside addOnceTimer the timerfd is armed for every timer but the one     *)
(* being added (Served); and the loop's thread is out of its callbacks, and *)
(* of the additions they make, before it sets the timerfd anew (Exclusive). *)
Exempt(t) == \E thread \in Adders : <<thread, t>> \in arming

Served ==
  (pc = "idle" /\ ~expired) =>
    Stranded \/ \A t \in Queued : ~Exempt(t) => InTime(t)

Exclusive ==
  /\ \A x, y \in arming : x = y
  /\ \A x \in arming : x[2] \in Queued
  /\ pc \in {"idle", "woken", "reset"} => running = {}
  /\ (running = {} /\ pc \notin {"idle", "woken"}) => arming = {}

LEMMA ExclusiveHolds == Spec => []Exclusive
  <1>1. Init => Exclusive
    BY DEF Init, Exclusive
  <1>2. ASSUME TypeOK, Exclusive, [Next]_vars
        PROVE  Exclusive'
    <2> USE <1>2 DEF Exclusive, Queued
    <2>1. CASE Tick
      BY <2>1 DEF Tick
    <2>2. ASSUME NEW thread \in Adders, NEW t \in Timers, Insert(thread, t)
          PROVE  Exclusive'
      <3>1. arming' = {<<thread, t>>} /\ t \in once' \cup recurring'
        BY <2>2 DEF Insert
      <3>2. running # {} \/ pc \in {"idle", "woken"}
        BY <2>2 DEF Insert, MayAdd, MutexFree
      <3>3. QED
        BY <2>2, <3>1, <3>2 DEF Insert
    <2>3. ASSUME NEW thread \in Adders, NEW t \in Timers, Arm(thread, t)
          PROVE  Exclusive'
      BY <2>3 DEF Arm
    <2>4. CASE Wake
      BY <2>4 DEF Wake
    <2>5. CASE LockAndRead
      BY <2>5 DEF LockAndRead
    <2>6. CASE RunFirst
      BY <2>6 DEF RunFirst
    <2>7. CASE LoopDone
      BY <2>7 DEF LoopDone
    <2>8. ASSUME NEW t \in Timers, OnceReturns(t)
          PROVE  Exclusive'
      BY <2>8 DEF OnceReturns
    <2>9. ASSUME NEW t \in Timers, RecurringReturns(t)
          PROVE  Exclusive'
      BY <2>9 DEF RecurringReturns
    <2>10. CASE Reset
      BY <2>10 DEF Reset
    <2>11. CASE UNCHANGED vars
      BY <2>11 DEF vars
    <2>12. QED
      BY <2>1, <2>2, <2>3, <2>4, <2>5, <2>6, <2>7, <2>8, <2>9, <2>10, <2>11
         DEF Next, TimerHandle
  <1>3. QED
    BY <1>1, <1>2, Typing, PTL DEF Spec

(* Setting the timerfd for a timer no other is earlier than serves them all,*)
(* unless that timer's timeout has passed.                                  *)
LEMMA SetTimeServes ==
  ASSUME TypeOK, NEW t \in Timers, SetTime(t),
         \A u \in Queued : left[u] >= left[t], UNCHANGED <<once, recurring, left>>
  PROVE  Stranded' \/ \A u \in Queued' : InTime(u)'
  <1>1. left[t] \in -MaxLate..MaxInterval
    BY DEF TypeOK
  <1>2. /\ remain' \in 1..Wrap
        /\ left[t] < 0 => remain' > MaxInterval
        /\ left[t] >= 0 => remain' <= left[t] + MinInterval
    BY <1>1, ArmedBounds DEF SetTime
  <1>3. CASE left[t] < 0
    BY <1>2, <1>3 DEF Stranded
  <1>4. CASE left[t] >= 0
    <2>1. ASSUME NEW u \in Queued'
          PROVE  remain' > 0 /\ remain' <= left[u]' + MinInterval
      <3>1. u \in Queued /\ u \in Timers /\ left[u] \in Int /\ left'[u] = left[u]
        BY <2>1 DEF Queued, TypeOK
      <3>2. left[u] >= left[t]
        BY <3>1
      <3>3. QED
        BY <1>1, <1>2, <1>4, <3>1, <3>2, TimerQueueAssumption
    <2>2. QED
      BY <2>1 DEF InTime
  <1>5. QED
    BY <1>1, <1>3, <1>4

(* A timer that needResetTimer turned away has an earlier timer, or one of  *)
(* its own timeout, beside it in the queue.                                 *)
LEMMA EarlierIsQueued ==
  ASSUME TypeOK, NEW t \in Queued, ~FirstOfAll(t)
  PROVE  \E u \in Queued : u # t /\ left[u] <= left[t]
  <1> USE DEF TypeOK, Queued
  <1>1. CASE ~NeedReset(once, t)
    <2>1. \A u \in once \cup {t} : left[u] \in Int
      OBVIOUS
    <2>2. QED
      BY <1>1, <2>1, NotFirstHasEarlier
  <1>2. CASE ~NeedReset(recurring, t)
    <2>1. \A u \in recurring \cup {t} : left[u] \in Int
      OBVIOUS
    <2>2. QED
      BY <1>2, <2>1, NotFirstHasEarlier
  <1>3. QED
    BY <1>1, <1>2 DEF FirstOfAll

LEMMA ServedHolds == Spec => []Served
  <1>1. Init => Served
    BY DEF Init, Served, Queued
  <1>2. ASSUME TypeOK, Exclusive, Served, [Next]_vars
        PROVE  Served'
    <2> SUFFICES ASSUME pc' = "idle", ~expired'
                 PROVE  Stranded' \/ \A t \in Queued' : ~Exempt(t)' => InTime(t)'
      BY DEF Served
    <2> USE <1>2
    <2>1. CASE Tick
      <3>1. pc = "idle" /\ ~expired /\ remain # 1
        BY <2>1 DEF Tick, TypeOK
      <3>2. CASE Stranded
        BY <2>1, <3>2 DEF Tick, Stranded
      <3>3. CASE ~Stranded
        <4>1. ASSUME NEW t \in Queued', ~Exempt(t)'
              PROVE  InTime(t)'
          <5>1. t \in Queued /\ ~Exempt(t) /\ t \in Timers
            BY <2>1, <4>1 DEF Tick, Queued, Exempt, TypeOK
          <5>2. remain > 0 /\ remain <= left[t] + MinInterval
            BY <3>1, <3>3, <5>1 DEF Served, InTime
          <5>3. remain' = remain - 1 /\ left'[t] \in {left[t], left[t] - 1}
            BY <2>1, <3>3, <5>1, <5>2 DEF Tick
          <5>4. QED
            BY <3>1, <5>1, <5>2, <5>3, TimerQueueAssumption DEF InTime, TypeOK
        <4>2. QED
          BY <4>1
      <3>4. QED
        BY <3>2, <3>3
    <2>2. ASSUME NEW thread \in Adders, NEW t \in Timers, Insert(thread, t)
          PROVE  Stranded' \/ \A u \in Queued' : ~Exempt(u)' => InTime(u)'
      <3>1. arming = {} /\ arming' = {<<thread, t>>} /\ pc = "idle" /\ ~expired
        BY <2>2 DEF Insert, MayAdd, MutexFree, Exclusive
      <3>2. ASSUME NEW u \in Queued', ~Exempt(u)'
            PROVE  u \in Queued /\ ~Exempt(u) /\ left'[u] = left[u]
        <4>1. u # t
          BY <3>1, <3>2 DEF Exempt
        <4>2. u \in Queued
          BY <2>2, <3>2, <4>1 DEF Insert, Queued
        <4>3. left'[u] = left[u]
          BY <2>2, <4>1, <4>2 DEF Insert, TypeOK, Queued
        <4>4. QED
          BY <3>1, <4>2, <4>3 DEF Exempt
      <3>3. remain' = remain
        BY <2>2 DEF Insert
      <3>4. QED
        BY <3>1, <3>2, <3>3 DEF Served, Stranded, InTime
    <2>3. ASSUME NEW thread \in Adders, NEW t \in Timers, Arm(thread, t)
          PROVE  Stranded' \/ \A u \in Queued' : ~Exempt(u)' => InTime(u)'
      <3>0. t \in Queued /\ UNCHANGED <<once, recurring, left>>
        BY <2>3 DEF Arm, Exclusive
      <3>1. CASE FirstOfAll(t)
        <4>1. SetTime(t) /\ \A u \in Queued : left[u] >= left[t]
          BY <2>3, <3>1 DEF Arm, FirstOfAll, NeedReset, Queued
        <4>2. QED
          BY <3>0, <4>1, SetTimeServes
      <3>2. CASE ~FirstOfAll(t)
        <4>1. UNCHANGED <<remain, expired>> /\ pc = "idle"
          BY <2>3, <3>2 DEF Arm
        <4>2. Stranded \/ \A u \in Queued \ {t} : InTime(u)
          <5>1. \A u \in Queued \ {t} : ~Exempt(u)
            BY <2>3 DEF Arm, Exclusive, Exempt
          <5>2. QED
            BY <4>1, <5>1 DEF Served
        <4>3. PICK u \in Queued : u # t /\ left[u] <= left[t]
          BY <3>0, <3>2, EarlierIsQueued
        <4>4. ~Stranded => InTime(t)
          BY <3>0, <4>2, <4>3, TimerQueueAssumption DEF InTime, TypeOK, Queued
        <4>5. QED
          BY <3>0, <4>1, <4>2, <4>4 DEF Stranded, InTime, Queued
      <3>3. QED
        BY <3>1, <3>2
    <2>4. CASE Reset
      <3>1. running = {} /\ UNCHANGED <<once, recurring, left>>
        BY <2>4 DEF Reset, Exclusive
      <3>2. CASE Queued = {}
        BY <3>1, <3>2 DEF Queued
      <3>3. CASE Queued # {}
        <4>1. PICK t \in Queued : IsFirst(t, Queued) /\ SetTime(t)
          BY <2>4, <3>3 DEF Reset, ResetCandidates
        <4>2. t \in Timers /\ \A u \in Queued : left[u] >= left[t]
          BY <4>1 DEF IsFirst, Queued, TypeOK
        <4>3. QED
          BY <3>1, <4>1, <4>2, SetTimeServes
      <3>4. QED
        BY <3>2, <3>3
    <2>5. CASE Wake \/ LockAndRead \/ RunFirst \/ LoopDone
      BY <2>5 DEF Wake, LockAndRead, RunFirst, LoopDone
    <2>6. ASSUME NEW t \in Timers, OnceReturns(t) \/ RecurringReturns(t)
          PROVE  FALSE
      BY <2>6 DEF OnceReturns, RecurringReturns
    <2>7. CASE UNCHANGED vars
      BY <2>7 DEF vars, Served, Stranded, Queued, Exempt, InTime
    <2>8. QED
      BY <2>1, <2>2, <2>3, <2>4, <2>5, <2>6, <2>7 DEF Next, TimerHandle
  <1>3. QED
    BY <1>1, <1>2, Typing, ExclusiveHolds, PTL DEF Spec

(* Between two additions and two rounds the timerfd is armed in time for    *)
(* every timer in the queue, unless it was armed for one that was overdue.  *)
THEOREM TimersArmed == Spec => []ArmedInTime
  <1>1. Served => ArmedInTime
    BY DEF Served, ArmedInTime, Exempt
  <1>2. QED
    BY <1>1, ServedHolds, PTL

-----------------------------------------------------------------------------
(* What EarlierTimersAreArmed denies, for every queue: the timerfd was      *)
(* armed with a difference that had wrapped round while the queue holds a   *)
(* timer other than one being added just now.                               *)
Armings == {x[2] : x \in arming}
Stalled == pc = "idle" /\ Stranded /\ Queued \ Armings # {}

(* Then the queue holds a timer that is overdue, and earlier than any that  *)
(* is being added: needResetTimer turns every newcomer away.                *)
Overdue == \E u \in Queued : left[u] < 0 /\ \A t \in Armings : left[u] < left[t]
StallExplained ==
  /\ Stranded => ~expired
  /\ Stalled => Overdue

LEMMA SetTimeExplains ==
  ASSUME TypeOK, NEW t \in Timers, SetTime(t), UNCHANGED left
  PROVE  ~expired' /\ (Stranded' => left'[t] < 0)
  <1>1. left[t] \in -MaxLate..MaxInterval
    BY DEF TypeOK
  <1>2. CASE left[t] < 0
    BY <1>2 DEF SetTime
  <1>3. CASE left[t] >= 0
    <2>1. Armed(left[t]) <= MaxInterval
      BY <1>1, <1>3, TimerQueueAssumption DEF Armed
    <2>2. Armed(left[t]) \in Int
      BY <1>1, ArmedBounds
    <2>3. QED
      BY <2>1, <2>2, TimerQueueAssumption DEF SetTime, Stranded
  <1>4. QED
    BY <1>1, <1>2, <1>3

(* The clock does not change which of two timeouts is the earlier: a timer  *)
(* that would meet the one below it is itself as late as can be told.       *)
LEMMA TickKeepsOrder ==
  ASSUME TypeOK, Tick, NEW u \in Queued, NEW t \in Queued, left[u] < left[t]
  PROVE  left'[u] < left'[t]
  <1>1. /\ left[u] \in -MaxLate..MaxInterval /\ left[t] \in -MaxLate..MaxInterval
        /\ left'[u] = IF Latest(u) THEN left[u] ELSE left[u] - 1
        /\ left'[t] = IF Latest(t) THEN left[t] ELSE left[t] - 1
    BY DEF TypeOK, Tick, Queued
  <1>2. CASE left[t] = left[u] + 1
    <2>1. Latest(u) => Latest(t)
      <3>1. SUFFICES ASSUME Latest(u), NEW n \in -MaxLate..left[t]
                     PROVE  \E v \in Queued : left[v] = n
        BY DEF Latest
      <3>2. n \in -MaxLate..left[u] \/ n = left[t]
        BY <1>1, <1>2, TimerQueueAssumption
      <3>3. QED
        BY <3>1, <3>2 DEF Latest
    <2>2. QED
      BY <1>1, <1>2, <2>1, TimerQueueAssumption
  <1>3. CASE left[t] # left[u] + 1
    BY <1>1, <1>3, TimerQueueAssumption
  <1>4. QED
    BY <1>2, <1>3

LEMMA StallExplainedHolds == Spec => []StallExplained
  <1>1. Init => StallExplained
    BY TimerQueueAssumption DEF Init, StallExplained, Stalled, Stranded
  <1>2. ASSUME TypeOK, Exclusive, StallExplained, [Next]_vars
        PROVE  StallExplained'
    <2> USE <1>2
    <2>1. CASE Tick
      <3>1. Queued' = Queued /\ Armings' = Armings /\ Armings \subseteq Queued
        BY <2>1 DEF Tick, Queued, Armings, Exclusive
      <3>2. \A u \in Queued : left[u] \in Int /\ left'[u] <= left[u]
        BY <2>1 DEF Tick, Queued, TypeOK
      <3>3. Stranded' <=> Stranded
        BY <2>1, TimerQueueAssumption DEF Tick, Stranded, TypeOK
      <3>4. Stranded' => ~expired'
        BY <2>1, <3>3, TimerQueueAssumption
           DEF Tick, Stranded, StallExplained, TypeOK
      <3>5. Overdue => Overdue'
        <4>1. SUFFICES ASSUME NEW u \in Queued, left[u] < 0,
                              \A t \in Armings : left[u] < left[t]
                       PROVE  left'[u] < 0 /\ \A t \in Armings : left'[u] < left'[t]
          BY <3>1 DEF Overdue
        <4>2. left'[u] < 0
          BY <2>1, <4>1 DEF Tick, TypeOK, Queued
        <4>3. ASSUME NEW t \in Armings
              PROVE  left'[u] < left'[t]
          BY <2>1, <3>1, <4>1, TickKeepsOrder
        <4>4. QED
          BY <4>2, <4>3
      <3>6. QED
        BY <2>1, <3>1, <3>3, <3>4, <3>5 DEF Tick, StallExplained, Stalled
    <2>2. ASSUME NEW thread \in Adders, NEW t \in Timers, Insert(thread, t)
          PROVE  StallExplained'
      <3>1. /\ arming = {} /\ arming' = {<<thread, t>>} /\ t \notin Queued
            /\ Queued' = Queued \cup {t} /\ UNCHANGED <<remain, expired, pc>>
        BY <2>2 DEF Insert, MayAdd, MutexFree, Queued
      <3>2. Armings = {} /\ Armings' = {t}
        BY <3>1 DEF Armings
      <3>3. PICK i \in Intervals : left' = [left EXCEPT ![t] = i]
        BY <2>2 DEF Insert
      <3>4. left'[t] >= 0 /\ left'[t] \in Int
        BY <3>3, TimerQueueAssumption DEF TypeOK
      <3>5. \A u \in Queued : left'[u] = left[u] /\ left[u] \in Int
        BY <3>1, <3>3 DEF TypeOK, Queued
      <3>6. Stalled' => Stalled
        BY <3>1, <3>2 DEF Stalled, Stranded
      <3>7. Overdue => Overdue'
        BY <3>1, <3>2, <3>4, <3>5 DEF Overdue
      <3>8. QED
        BY <3>1, <3>6, <3>7 DEF StallExplained, Stranded
    <2>3. ASSUME NEW thread \in Adders, NEW t \in Timers, Arm(thread, t)
          PROVE  StallExplained'
      <3>1. /\ t \in Queued /\ t \in Timers /\ Queued' = Queued
            /\ UNCHANGED <<left, pc>>
        BY <2>3 DEF Arm, Exclusive, Queued
      <3>2. Armings = {t} /\ Armings' = {}
        BY <2>3 DEF Arm, Exclusive, Armings
      <3>3. CASE FirstOfAll(t)
        <4>1. ~expired' /\ (Stranded' => left'[t] < 0)
          BY <2>3, <3>1, <3>3, SetTimeExplains DEF Arm
        <4>2. QED
          BY <3>1, <3>2, <4>1 DEF StallExplained, Stalled, Overdue
      <3>4. CASE ~FirstOfAll(t)
        <4>1. UNCHANGED <<remain, expired>>
          BY <2>3, <3>4 DEF Arm
        <4>2. Queued \ Armings # {}
          BY <3>1, <3>2, <3>4, EarlierIsQueued
        <4>3. Stalled' => Stalled
          BY <3>1, <4>1, <4>2 DEF Stalled, Stranded
        <4>4. Overdue => Overdue'
          BY <3>1, <3>2 DEF Overdue
        <4>5. QED
          BY <4>1, <4>3, <4>4 DEF StallExplained, Stranded
      <3>5. QED
        BY <3>3, <3>4
    <2>4. CASE Reset
      <3>1. Queued' = Queued /\ UNCHANGED left /\ Armings' = {}
        BY <2>4 DEF Reset, Exclusive, Queued, Armings
      <3>2. CASE Queued = {}
        BY <2>4, <3>1, <3>2
           DEF Reset, ResetCandidates, StallExplained, Stalled, Stranded
      <3>3. CASE Queued # {}
        <4>1. PICK t \in Queued : SetTime(t)
          BY <2>4, <3>3 DEF Reset, ResetCandidates
        <4>2. t \in Timers
          BY DEF Queued, TypeOK
        <4>3. ~expired' /\ (Stranded' => left'[t] < 0)
          BY <3>1, <4>1, <4>2, SetTimeExplains
        <4>4. QED
          BY <3>1, <4>3 DEF StallExplained, Stalled, Overdue
      <3>4. QED
        BY <3>2, <3>3
    <2>5. CASE Wake \/ LockAndRead \/ RunFirst \/ LoopDone
      BY <2>5 DEF Wake, LockAndRead, RunFirst, LoopDone, StallExplained,
                  Stalled, Stranded
    <2>6. ASSUME NEW t \in Timers, OnceReturns(t) \/ RecurringReturns(t)
          PROVE  StallExplained'
      BY <2>6 DEF OnceReturns, RecurringReturns, StallExplained, Stalled,
                  Stranded
    <2>7. CASE UNCHANGED vars
      BY <2>7 DEF vars, StallExplained, Stalled, Stranded, Queued, Armings,
                  Overdue
    <2>8. QED
      BY <2>1, <2>2, <2>3, <2>4, <2>5, <2>6, <2>7 DEF Next, TimerHandle
  <1>3. QED
    BY <1>1, <1>2, Typing, ExclusiveHolds, PTL DEF Spec

(* A timerfd that was armed for a timeout in the past, with timers in the   *)
(* queue, is never armed again whatever is added: the loop does not wake    *)
(* for a timer any more.  The comments of needResetTimer                    *)
(* (timerQueue.cpp:94 and 101) rely on the opposite.                        *)
THEOREM StallIsFinal == Spec => [][Stalled => Stalled']_vars
  <1>1. ASSUME TypeOK, Exclusive, StallExplained, [Next]_vars, Stalled
        PROVE  Stalled'
    <2> USE <1>1
    <2>1. /\ pc = "idle" /\ Stranded /\ ~expired
          /\ Queued \ Armings # {} /\ running = {}
      BY DEF Stalled, StallExplained, Exclusive
    <2>2. CASE Tick
      BY <2>1, <2>2, TimerQueueAssumption
         DEF Tick, Stalled, Stranded, Queued, Armings, TypeOK
    <2>3. ASSUME NEW thread \in Adders, NEW t \in Timers, Insert(thread, t)
          PROVE  Stalled'
      <3>1. /\ t \notin Queued /\ Queued' = Queued \cup {t}
            /\ arming' = {<<thread, t>>} /\ UNCHANGED <<remain, pc>>
        BY <2>3 DEF Insert, Queued
      <3>2. Armings' = {t}
        BY <3>1 DEF Armings
      <3>3. QED
        BY <2>1, <3>1, <3>2 DEF Stalled, Stranded
    <2>4. ASSUME NEW thread \in Adders, NEW t \in Timers, Arm(thread, t)
          PROVE  Stalled'
      <3>1. Armings = {t} /\ Armings' = {} /\ t \in Queued /\ Queued' = Queued
        BY <2>4 DEF Arm, Exclusive, Armings, Queued
      <3>2. PICK u \in Queued : left[u] < left[t]
        BY <3>1 DEF StallExplained, Overdue
      <3>3. left[u] \in Int /\ left[t] \in Int
        BY <3>1 DEF TypeOK, Queued
      <3>4. ~FirstOfAll(t)
        BY <3>2, <3>3 DEF FirstOfAll, NeedReset, Queued
      <3>5. UNCHANGED <<remain, pc>>
        BY <2>4, <3>4 DEF Arm
      <3>6. QED
        BY <2>1, <3>1, <3>5 DEF Stalled, Stranded
    <2>5. CASE TimerHandle
      BY <2>1, <2>5 DEF TimerHandle, Wake, LockAndRead, RunFirst, LoopDone,
                        OnceReturns, RecurringReturns, Reset
    <2>6. CASE UNCHANGED vars
      BY <2>6 DEF vars, Stalled, Stranded, Queued, Armings
    <2>7. QED
      BY <2>2, <2>3, <2>4, <2>5, <2>6 DEF Next
  <1>2. QED
    BY <1>1, Typing, ExclusiveHolds, StallExplainedHolds, PTL DEF Spec

(* So the exception in ArmedInTime has one cause: a timer that is late and  *)
(* still in the queue.  While none is, the timerfd is armed in time for     *)
(* every timer, whatever happened before (timerQueue.cpp:120-153).          *)
OnTimeUnlessLate ==
  (pc = "idle" /\ arming = {} /\ ~expired /\ \A u \in Queued : left[u] >= 0) =>
    \A t \in Queued : InTime(t)

THEOREM LateTimersOnly == Spec => []OnTimeUnlessLate
  <1>1. TypeOK /\ StallExplained /\ ArmedInTime => OnTimeUnlessLate
    <2> SUFFICES ASSUME TypeOK, StallExplained, ArmedInTime,
                        pc = "idle", arming = {}, ~expired,
                        \A u \in Queued : left[u] >= 0,
                        NEW t \in Queued
                 PROVE  InTime(t)
      BY DEF OnTimeUnlessLate
    <2>1. \A u \in Queued : left[u] \in Int
      BY DEF TypeOK, Queued
    <2>2. ~Stalled
      BY <2>1 DEF StallExplained, Overdue
    <2>3. ~Stranded
      BY <2>2 DEF Stalled, Armings
    <2>4. QED
      BY <2>3 DEF ArmedInTime
  <1>2. QED
    BY <1>1, Typing, StallExplainedHolds, TimersArmed, PTL
=============================================================================
