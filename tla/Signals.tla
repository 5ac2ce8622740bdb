------------------------------- MODULE Signals --------------------------------
(***************************************************************************)
(* Signals taken over by a signalfd: the SignalMonitor an Engine makes on  *)
(* first use (src/signalMonitor/signalMonitor.cpp).  Each monitor belongs  *)
(* to the loop of one engine and is used on the thread that drives it; a   *)
(* process may have several engines, on one thread or on several.          *)
(*                                                                         *)
(* A signal is sent to the process.  It waits as long as every thread      *)
(* blocks it, and takes its default action, which is assumed to end the    *)
(* process, as soon as one does not.  A read of a signalfd takes one of    *)
(* the waiting signals in its mask away from everybody else; which one is  *)
(* the kernel's affair.                                                    *)
(*                                                                         *)
(* User code runs between polls, in callbacks of the same batch that come  *)
(* before the monitor's, and in signal handlers.                           *)
(*                                                                         *)
(* Operators named X_Y are bugs X might have had; no specification uses    *)
(* them.                                                                   *)
(***************************************************************************)
EXTENDS Naturals, FiniteSets

CONSTANTS
  Signals,
  Monitors,
  Threads,
  Main,         \* the thread the process begins with
  None,
  MaxArrivals   \* bound: signals sent to the process

ASSUME SignalsAssumption ==
  /\ Main \in Threads
  /\ None \notin Signals \cup Monitors
  /\ MaxArrivals \in Nat

VARIABLES
  threads,      \* the threads that exist
  blocked,      \* blocked[t]: the signals thread t blocks
  monitors,     \* the monitors that exist
  driver,       \* driver[m]: the thread that drives m's loop
  map,          \* map[m]: the signals m has a handler for
  mask,         \* mask[m]: the signals m's signalfd takes
  call,         \* call[t]: the unfinished add or del of thread t
  stage,        \* stage[t]: where t's loop is with the events of a signalfd
  pending,      \* the signals that wait
  arrivals,     \* how many have been sent
  victim,       \* the signal whose default action, or whose handler, ended
                \* the process, or None
  undone,       \* history: undone[t], what one monitor of t unblocked though
                \* another one of t still handles it
  robbed        \* history: of the monitors that were found readable and are not
                \* done with, those that had a signal deleted or read by another

sets == <<blocked, map, mask, call, undone>>
kernel == <<pending, arrivals, victim>>
vars == <<threads, blocked, monitors, driver, map, mask, call, stage, pending,
          arrivals, victim, undone, robbed>>

NoCall == [op |-> "none", monitor |-> None, signal |-> None]
Polls == [at |-> "poll", monitor |-> None, signal |-> None, stray |-> FALSE]
Ready(m) == [Polls EXCEPT !.at = "ready", !.monitor = m]
Handles(m, s, failed) ==
  [at |-> "handler", monitor |-> m, signal |-> s, stray |-> failed]

Init ==
  /\ threads = {Main}
  /\ blocked = [t \in Threads |-> {}]
  /\ monitors = {}
  /\ driver \in [Monitors -> Threads]
  /\ map = [m \in Monitors |-> {}]
  /\ mask = [m \in Monitors |-> {}]
  /\ call = [t \in Threads |-> NoCall]
  /\ stage = [t \in Threads |-> Polls]
  /\ pending = {} /\ arrivals = 0 /\ victim = None
  /\ undone = [t \in Threads |-> {}]
  /\ robbed = {}

Running == victim = None

(* These monitors lose a signal; it matters while a loop is at them.        *)
Robs(losers) ==
  robbed' = {m \in robbed \cup losers : stage'[driver[m]].monitor = m}

(* Nothing of the process runs any more once it has been terminated.        *)
UserCode(t) == Running /\ t \in threads /\ call[t] = NoCall

Calls(t, op, m, s) == call[t] = [op |-> op, monitor |-> m, signal |-> s]
Begins(t, op, m, s) ==
  call' = [call EXCEPT ![t] = [op |-> op, monitor |-> m, signal |-> s]]
Returns(t) == call' = [call EXCEPT ![t] = NoCall]

-----------------------------------------------------------------------------
(* The world.                                                              *)

Arrive(s) ==
  /\ Running
  /\ arrivals < MaxArrivals
  /\ arrivals' = arrivals + 1
  /\ IF \A t \in threads : s \in blocked[t]
     THEN pending' = pending \cup {s} /\ UNCHANGED victim
     ELSE victim' = s /\ UNCHANGED pending
  /\ UNCHANGED <<threads, monitors, driver, sets, stage, robbed>>

(* A new thread blocks what its maker blocks.                               *)
Spawn(t, u) ==
  /\ UserCode(t)
  /\ u \in Threads \ threads
  /\ threads' = threads \cup {u}
  /\ blocked' = [blocked EXCEPT ![u] = blocked[t]]
  /\ UNCHANGED <<monitors, driver, map, mask, call, stage, kernel, undone, robbed>>

-----------------------------------------------------------------------------
(* The engine's getSignalMonitor, and its end.                             *)

GetSignalMonitor(m) ==
  /\ UserCode(driver[m])
  /\ m \notin monitors
  /\ monitors' = monitors \cup {m}
  /\ UNCHANGED <<threads, driver, sets, stage, kernel, robbed>>

(* The engine goes when its loop is not running; the signals stay blocked.  *)
(* SignalMonitorService has no virtual destructor: whether the signalfd is  *)
(* closed is undefined, but nothing reads it any more.                      *)
Destroy(m) ==
  /\ UserCode(driver[m])
  /\ m \in monitors
  /\ stage[driver[m]].monitor # m
  /\ monitors' = monitors \ {m}
  /\ map' = [map EXCEPT ![m] = {}]
  /\ mask' = [mask EXCEPT ![m] = {}]
  /\ UNCHANGED <<threads, blocked, driver, call, stage, kernel, undone, robbed>>

-----------------------------------------------------------------------------
(* SignalMonitor::add and del, on the monitor's thread.                    *)

Uses(t, m) == UserCode(t) /\ m \in monitors /\ driver[m] = t

(* block() comes before the signalfd's mask.                                *)
Blocked_Not(t, s) == blocked
Blocked(t, s) == [blocked EXCEPT ![t] = @ \cup {s}]

Add(t, m, s) ==
  /\ Uses(t, m)
  /\ s \notin map[m]
  /\ blocked' = Blocked(t, s)
  /\ undone' = [undone EXCEPT ![t] = @ \ {s}]
  /\ Begins(t, "add", m, s)
  /\ UNCHANGED <<threads, monitors, driver, map, mask, stage, kernel, robbed>>

Watched_Not(m, s) == mask
Watched(m, s) == [mask EXCEPT ![m] = @ \cup {s}]

Watch(t, m, s) ==
  /\ Running
  /\ Calls(t, "add", m, s)
  /\ mask' = Watched(m, s)
  /\ map' = [map EXCEPT ![m] = @ \cup {s}]
  /\ Returns(t)
  /\ UNCHANGED <<threads, blocked, monitors, driver, stage, kernel, undone, robbed>>

(* map.erase and the signalfd's new mask.                                   *)
Erased_MaskOnly(m, s) == map
Erased(m, s) == [map EXCEPT ![m] = @ \ {s}]

(* A handler that deletes its own signal destroys the std::function that is *)
(* being called.  If it then uses what it captured, anything may happen;    *)
(* the process may end, or go on as if nothing had.                         *)
Outcomes(t, m, s) ==
  IF \E stray \in BOOLEAN : stage[t] = Handles(m, s, stray) THEN {None, s} ELSE {None}

Del(t, m, s) ==
  /\ Uses(t, m)
  /\ s \in map[m]
  /\ map' = Erased(m, s)
  /\ mask' = [mask EXCEPT ![m] = @ \ {s}]
  /\ victim' \in Outcomes(t, m, s)
  /\ Begins(t, "del", m, s)
  /\ UNCHANGED <<threads, blocked, monitors, driver, stage, pending, arrivals, undone>>
  /\ Robs({m})

(* unblock(): a signal that waits is delivered now, by default.             *)
StillHandled(t, m, s) == \E n \in monitors \ {m} : driver[n] = t /\ s \in map[n]

Unblock(t, m, s) ==
  /\ Running
  /\ Calls(t, "del", m, s)
  /\ blocked' = [blocked EXCEPT ![t] = @ \ {s}]
  /\ undone' =
       IF StillHandled(t, m, s) THEN [undone EXCEPT ![t] = @ \cup {s}] ELSE undone
  /\ IF s \in pending
     THEN victim' = s /\ pending' = pending \ {s}
     ELSE UNCHANGED <<victim, pending>>
  /\ Returns(t)
  /\ UNCHANGED <<threads, monitors, driver, map, mask, stage, arrivals, robbed>>

-----------------------------------------------------------------------------
(* The loop: epoll reports the signalfd, the batch reaches it, handleSignal *)
(* reads one signal and calls its handler.                                 *)

Waiting(m) == pending \cap mask[m]

Poll(t, m) ==
  /\ Uses(t, m)
  /\ stage[t] = Polls
  /\ Waiting(m) # {}
  /\ stage' = [stage EXCEPT ![t] = Ready(m)]
  /\ robbed' = robbed \ {m}
  /\ UNCHANGED <<threads, monitors, driver, sets, kernel>>

Taken_All(m, s) == mask[m]
Taken(m, s) == {s}

(* map.find: without a handler nothing is called.                           *)
Looked(m, s, failed) == IF s \in map[m] THEN Handles(m, s, failed) ELSE Polls

HandleSignal(t, m) ==
  /\ UserCode(t)
  /\ stage[t] = Ready(m)
  /\ \E s \in Waiting(m) :
       /\ stage' = [stage EXCEPT ![t] = Looked(m, s, FALSE)]
       /\ pending' = pending \ Taken(m, s)
       /\ Robs({n \in Monitors \ {m} : s \in mask[n]})
  /\ UNCHANGED <<threads, monitors, driver, sets, arrivals, victim>>

(* The read fails and leaves the number uninitialised: some handler is      *)
(* called, or none.                                                         *)
ReadFails(t, m) ==
  /\ UserCode(t)
  /\ stage[t] = Ready(m)
  /\ Waiting(m) = {}
  /\ \E s \in map[m] \cup {None} : stage' = [stage EXCEPT ![t] = Looked(m, s, TRUE)]
  /\ Robs({})
  /\ UNCHANGED <<threads, monitors, driver, sets, kernel>>

After_ReadsAgain(m) == Ready(m)
After(m) == Polls

HandlerReturns(t, m) ==
  /\ UserCode(t)
  /\ stage[t].at = "handler" /\ stage[t].monitor = m
  /\ stage' = [stage EXCEPT ![t] = After(m)]
  /\ Robs({})
  /\ UNCHANGED <<threads, monitors, driver, sets, kernel>>

-----------------------------------------------------------------------------

LoopStep(t) ==
  \E m \in Monitors :
    \/ Poll(t, m) \/ HandleSignal(t, m) \/ ReadFails(t, m) \/ HandlerReturns(t, m)

CallStep(t) == \E m \in Monitors, s \in Signals : Watch(t, m, s) \/ Unblock(t, m, s)

Next ==
  \/ \E s \in Signals : Arrive(s)
  \/ \E m \in Monitors : GetSignalMonitor(m) \/ Destroy(m)
  \/ \E t \in Threads :
       \/ LoopStep(t) \/ CallStep(t)
       \/ \E u \in Threads : Spawn(t, u)
       \/ \E m \in Monitors, s \in Signals : Add(t, m, s) \/ Del(t, m, s)

Spec == Init /\ [][Next]_vars

(* A thread that drives a loop does so again and again, and a call that was *)
(* begun is finished.  User code in between may call add and del, but it    *)
(* returns: a loop that again and again could go on does, hence SF.         *)
FairSpec == Spec /\ \A t \in Threads : SF_vars(LoopStep(t)) /\ WF_vars(CallStep(t))

-----------------------------------------------------------------------------

TypeOK ==
  /\ threads \subseteq Threads
  /\ blocked \in [Threads -> SUBSET Signals]
  /\ monitors \subseteq Monitors
  /\ driver \in [Monitors -> Threads]
  /\ map \in [Monitors -> SUBSET Signals]
  /\ mask \in [Monitors -> SUBSET Signals]
  /\ call \in [Threads -> [op : {"none", "add", "del"}, monitor : Monitors \cup {None},
                           signal : Signals \cup {None}]]
  /\ stage \in [Threads -> [at : {"poll", "ready", "handler"},
                            monitor : Monitors \cup {None},
                            signal : Signals \cup {None}, stray : BOOLEAN]]
  /\ pending \subseteq Signals
  /\ arrivals \in 0..MaxArrivals
  /\ victim \in Signals \cup {None}
  /\ undone \in [Threads -> SUBSET Signals]
  /\ robbed \subseteq Monitors

(* A signal that has a handler is blocked by the monitor's thread from      *)
(* before its signalfd takes it until after it no longer does, so that it   *)
(* cannot take its default action there in between (signalMonitor.cpp:55-59,*)
(* 97-101); the exception is a signal two monitors of one thread handle,    *)
(* and one of them deletes.                                                 *)
HandledIsBlocked ==
  \A m \in monitors : map[m] \cup mask[m] \subseteq blocked[driver[m]] \cup undone[driver[m]]

(* A handler is called for a signal that was not sent only if, between poll *)
(* and read, the signal found waiting was deleted or read by another        *)
(* monitor (signalMonitor.cpp:107).                                         *)
StrayAfterRaceOnly ==
  \A t \in Threads, m \in Monitors :
    stage[t].monitor = m /\ stage[t].stray => m \in robbed

(* A signal that waits for a handler reaches it, unless it is deleted, its  *)
(* monitor destroyed, or the process ended, before.                         *)
SignalIsHandled ==
  \A m \in Monitors, s \in Signals :
    (s \in pending /\ s \in map[m]) ~>
      \/ \E t \in Threads : stage[t].at = "handler" /\ stage[t].signal = s
      \/ s \notin map[m]
      \/ ~ Running
=============================================================================
