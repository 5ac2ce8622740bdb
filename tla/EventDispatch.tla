---------------------------- MODULE EventDispatch ----------------------------
(***************************************************************************)
(* The reactor: EventCtrl's registry of events, the epoll instance under   *)
(* it, the dispatch of a batch of ready descriptors to Event::handle, and  *)
(* the two interfaces through which descriptors come and go while the loop *)
(* runs: FdMonitor (Engine::addFd, removeFd, modifyFd) for plugins, and    *)
(* Event itself for the engine's own sockets.                              *)
(*                                                                         *)
(* Neither the registry nor the epoll instance has a lock: they belong to  *)
(* the loop's thread, so user code acts between two polls or inside a      *)
(* callback.  That is where the difficulty lies: a callback may remove,    *)
(* close, reopen and add descriptors whose events wait in the same batch.  *)
(*                                                                         *)
(* epoll and the descriptors are the kernel's: level-triggered, a closed   *)
(* file leaves the epoll instance by itself (no dup'ed descriptors).       *)
(* Operators named X_Y are bugs X might have had; no specification uses    *)
(* them.                                                                   *)
(***************************************************************************)
EXTENDS Naturals, FiniteSets, Sequences, SequencesExt, EventHandle

CONSTANTS
  Fds,          \* descriptor numbers
  MaxOpens,     \* bound: how many files are opened in one behaviour
  Requests,     \* events masks plugins pass: "in", "out", "err" or "other"
  Masks,        \* masks the engine's own events take on: sets of directions
  Conditions    \* what the kernel may find true of an open file: sets of
                \* "in", "pri", "out", "err", "hup"

Directions == {"in", "out", "err"}

ASSUME EventDispatchAssumption ==
  /\ IsFiniteSet(Fds) /\ MaxOpens \in Nat
  /\ Requests \subseteq Directions \cup {"other"}
  /\ Masks \subseteq SUBSET Directions
  /\ {} \in Conditions
  /\ Conditions \subseteq SUBSET {"in", "pri", "out", "err", "hup"}

VARIABLES
  open,         \* the descriptors that are open
  opens,        \* how many files have been opened
  file,         \* file[fd]: which opening of the number fd is the latest
  ready,        \* ready[fd]: what is true of the open file
  pool,         \* EventCtrl::eventPool: from descriptors to Events
  interest,     \* the epoll instance: from watched descriptors to masks
  loop,         \* "wait", "dispatch" a batch, or inside a "callback"
  batch,        \* what remains of EventCtrl::activeEvents
  current,      \* whom Event::handle works for: <<fd, the Event's file>> or <<>>
  todo,         \* the callbacks it has still to make, the running one first
  added,        \* history: the descriptors users added and did not remove
  breach        \* history: those of them that were not open when they were
                \* added, or were closed before removal

registry == <<pool, interest>>
dispatch == <<loop, batch, current, todo>>
kernel   == <<open, opens, file, ready>>
history  == <<added, breach>>
vars == <<open, opens, file, ready, pool, interest, loop, batch, current, todo,
          added, breach>>

(* An Event: the file it was made for (0 if its number was never opened),   *)
(* the callbacks that are set in it and its mask.  readEventFlag,           *)
(* EPOLLIN|EPOLLPRI, is "in".                                               *)
Event == [file : 0..MaxOpens, handlers : SUBSET Handlers,
          mask : SUBSET Directions]

Init ==
  /\ open = {}
  /\ opens = 0
  /\ file = [fd \in Fds |-> 0]
  /\ ready = [fd \in Fds |-> {}]
  /\ pool = <<>>
  /\ interest = <<>>
  /\ loop = "wait"
  /\ batch = <<>>
  /\ current = <<>>
  /\ todo = <<>>
  /\ added = {}
  /\ breach = {}

-----------------------------------------------------------------------------
(* The kernel and the files.                                               *)

Without(f, fd) == Restrict(f, DOMAIN f \ {fd})
With(f, fd, e) ==
  [g \in DOMAIN f \cup {fd} |-> IF g = fd THEN e ELSE f[g]]

UserCode == loop \in {"wait", "callback"}

OpenFile(fd) ==
  /\ UserCode
  /\ fd \notin open
  /\ opens < MaxOpens
  /\ opens' = opens + 1
  /\ open' = open \cup {fd}
  /\ file' = [file EXCEPT ![fd] = @ + 1]
  /\ UNCHANGED <<ready, registry, dispatch, history>>

(* Code and comments (event.cpp:103, eventCtrl.cpp:36) ask users to remove  *)
(* a descriptor first; one who does not is remembered in breach.            *)
CloseFile(fd) ==
  /\ UserCode
  /\ fd \in open
  /\ open' = open \ {fd}
  /\ ready' = [ready EXCEPT ![fd] = {}]
  /\ interest' = Without(interest, fd)
  /\ breach' = breach \cup (added \cap {fd})
  /\ UNCHANGED <<opens, file, pool, dispatch, added>>

(* The peer sends, drains, resets or hangs up, at any time.                 *)
ConditionChanges(fd) ==
  /\ fd \in open
  /\ \E c \in Conditions \ {ready[fd]} : ready' = [ready EXCEPT ![fd] = c]
  /\ UNCHANGED <<open, opens, file, registry, dispatch, history>>

(* EPOLL_CTL_MOD fails unless the descriptor is watched.                    *)
EpollModify(fd, mask) ==
  interest' = IF fd \in DOMAIN interest THEN [interest EXCEPT ![fd] = mask]
                                         ELSE interest

(* What epoll_wait would report: the error conditions whether or not they   *)
(* were asked for, EPOLLPRI together with EPOLLIN.                          *)
Reported(fd) ==
  IF fd \in DOMAIN interest
  THEN ready[fd] \cap (interest[fd] \cup {"err", "hup"} \cup
                       (IF "in" \in interest[fd] THEN {"pri"} ELSE {}))
  ELSE {}

-----------------------------------------------------------------------------
(* FdMonitor, implemented by Engine.                                       *)

HandlerFor == [in |-> "read", out |-> "write", err |-> "error"]

(* The Event Engine::addFd makes: the one callback and the one direction    *)
(* that an exact match of the request selects, nothing for any other mask.  *)
Requested_Unfiltered(fd, request) ==
  [file |-> file[fd], mask |-> {request},
   handlers |-> {HandlerFor[x] : x \in {request} \cap Directions}]

Requested(fd, request) ==
  LET d == {request} \cap Directions
  IN  [file |-> file[fd], handlers |-> {HandlerFor[x] : x \in d}, mask |-> d]

(* The new event updates itself before it is added, which re-applies the    *)
(* mask of an event that was registered earlier; insert() then keeps that   *)
(* event, and EPOLL_CTL_ADD fails if the descriptor is watched already.  Of *)
(* a number that is not open epoll takes nothing, but the registry does.    *)
AddFd(fd, request) ==
  /\ UserCode
  /\ LET event == Requested(fd, request)
     IN  /\ pool' = IF fd \in DOMAIN pool THEN pool ELSE With(pool, fd, event)
         /\ \/ fd \notin open /\ UNCHANGED interest
            \/ /\ fd \in open \ DOMAIN interest
               /\ interest' = With(interest, fd, event.mask)
            \/ /\ fd \in DOMAIN interest
               /\ IF request \in Directions
                  THEN EpollModify(fd, pool[fd].mask)
                  ELSE UNCHANGED interest
  /\ added' = added \cup {fd}
  /\ breach' = breach \cup ({fd} \ open)
  /\ UNCHANGED <<kernel, dispatch>>

(* Engine::removeFd, Event::removeFromLoop: EventCtrl::deleteEvent(fd).     *)
Erased_Never(fd) == pool
Erased(fd) == Without(pool, fd)

Unwatched_Never(fd) == interest
Unwatched(fd) == Without(interest, fd)

RemoveFd(fd) ==
  /\ UserCode
  /\ fd \in DOMAIN pool
  /\ interest' = Unwatched(fd)
  /\ pool' = Erased(fd)
  /\ added' = added \ {fd}
  /\ breach' = breach \ {fd}
  /\ UNCHANGED <<kernel, dispatch>>

(* The mask modifyFd applies.  For one direction the temporary Event it     *)
(* makes calls loop->modifyEvent(fd), which looks the registered event up   *)
(* and applies that one's mask; for any other request it hands over the     *)
(* temporary Event, whose mask is empty.                                    *)
ModifiedMask_AsRequested(fd, request) == {request} \cap Directions
ModifiedMask(fd, request) ==
  IF request \in Directions THEN pool[fd].mask ELSE {}

ModifyFd(fd, request) ==
  /\ UserCode
  /\ fd \in DOMAIN pool
  /\ EpollModify(fd, ModifiedMask(fd, request))
  /\ UNCHANGED <<kernel, pool, dispatch, history>>

-----------------------------------------------------------------------------
(* Event, used directly by the sockets, the queue and the timers.          *)

(* The owner adds an event with an empty mask, sets its callbacks and       *)
(* enables reading; it owns the descriptor and nobody else added it.  A     *)
(* connection sets them all, the queue, the timers, the signal monitor and  *)
(* the acceptor the read callback only.                                     *)
Watch(fd) ==
  /\ UserCode
  /\ fd \in open
  /\ fd \notin DOMAIN pool
  /\ \E handlers \in {{"read"}, Handlers} :
       pool' = With(pool, fd, [file |-> file[fd], handlers |-> handlers,
                               mask |-> {"in"}])
  /\ interest' = With(interest, fd, {"in"})
  /\ added' = added \cup {fd}
  /\ UNCHANGED <<kernel, dispatch, breach>>

(* enableReading, enableWriting, enableErrorEvent and disableAll of a       *)
(* connection's event: the mask, then update() with what the registry       *)
(* holds.  The other owners leave theirs alone once they read.              *)
SetMask(fd, mask) ==
  /\ UserCode
  /\ fd \in DOMAIN pool
  /\ pool[fd].handlers = Handlers
  /\ pool[fd].mask # mask
  /\ pool' = [pool EXCEPT ![fd].mask = mask]
  /\ EpollModify(fd, mask)
  /\ UNCHANGED <<kernel, dispatch, history>>

-----------------------------------------------------------------------------
(* EventCtrl::waitAndRunHandler.                                           *)

(* activeEvents.resize(eventPool.size()).  With no room at all epoll_wait   *)
(* fails, and the code returns.                                             *)
Capacity_NeverResized == 0
Capacity == Cardinality(DOMAIN pool)

Active == {fd \in Fds : Reported(fd) # {}}

(* epoll_wait fills the room it is given, in an order of its own.  A wait   *)
(* that times out or fails changes nothing.                                 *)
Wait ==
  /\ loop = "wait"
  /\ \E fds \in SUBSET Active :
       /\ fds # {}
       /\ Cardinality(fds) = Min({Capacity, Cardinality(Active)})
       /\ \E order \in SetToSeqs(fds) :
            batch' = [i \in DOMAIN order |-> [fd |-> order[i],
                                              revents |-> Reported(order[i])]]
  /\ loop' = "dispatch"
  /\ UNCHANGED <<kernel, registry, current, todo, history>>

(* The event is looked up by its number when its turn comes, not when it    *)
(* was reported.                                                            *)
Handle ==
  /\ loop = "dispatch"
  /\ batch # <<>>
  /\ Head(batch).fd \in DOMAIN pool
  /\ LET active == Head(batch)
         event == pool[active.fd]
         calls == Calls(active.revents, event.handlers)
     IN  /\ todo' = calls
         /\ batch' = Tail(batch)
         /\ IF calls = <<>>
            THEN UNCHANGED <<loop, current>>
            ELSE /\ loop' = "callback"
                 /\ current' = <<active.fd, event.file>>
  /\ UNCHANGED <<kernel, registry, history>>

(* eventPool[fd] of a descriptor that was removed makes an empty entry;     *)
(* deleteEvent then takes it out again, and out of epoll.                   *)
HandleRemoved ==
  /\ loop = "dispatch"
  /\ batch # <<>>
  /\ Head(batch).fd \notin DOMAIN pool
  /\ interest' = Without(interest, Head(batch).fd)
  /\ batch' = Tail(batch)
  /\ UNCHANGED <<kernel, pool, loop, current, todo, history>>

(* A callback returns; the next one of the same handle() follows, whatever  *)
(* the first one did to its descriptor.                                     *)
CallbackReturns ==
  /\ loop = "callback"
  /\ todo' = Tail(todo)
  /\ IF Len(todo) > 1
     THEN UNCHANGED <<loop, current>>
     ELSE loop' = "dispatch" /\ current' = <<>>
  /\ UNCHANGED <<kernel, registry, batch, history>>

BatchDone ==
  /\ loop = "dispatch"
  /\ batch = <<>>
  /\ loop' = "wait"
  /\ UNCHANGED <<kernel, registry, batch, current, todo, history>>

-----------------------------------------------------------------------------

LoopStep == Wait \/ Handle \/ HandleRemoved \/ CallbackReturns \/ BatchDone

Next == \/ LoopStep
        \/ \E fd \in Fds :
             \/ OpenFile(fd) \/ CloseFile(fd) \/ ConditionChanges(fd)
             \/ RemoveFd(fd) \/ Watch(fd)
             \/ \E request \in Requests : AddFd(fd, request) \/ ModifyFd(fd, request)
             \/ \E mask \in Masks : SetMask(fd, mask)

Spec == Init /\ [][Next]_vars

(* The application drives the loop, and callbacks return.                   *)
FairSpec == Spec /\ WF_vars(LoopStep)

-----------------------------------------------------------------------------

TypeOK ==
  /\ open \subseteq Fds
  /\ opens \in 0..MaxOpens
  /\ file \in [Fds -> 0..opens]
  /\ ready \in [Fds -> Conditions]
  /\ DOMAIN pool \subseteq Fds /\ Range(pool) \subseteq Event
  /\ DOMAIN interest \subseteq Fds /\ Range(interest) \subseteq SUBSET Directions
  /\ loop \in {"wait", "dispatch", "callback"}
  /\ batch \in Seq([fd : Fds, revents : SUBSET UNION Conditions])
  /\ current \in {<<>>} \cup (Fds \X (0..MaxOpens))
  /\ todo \in Seq(Handlers)
  /\ added \subseteq Fds
  /\ breach \subseteq added

(* Everything epoll may report is registered, so that the room waitEvent is *)
(* given (eventCtrl.cpp:83) is never too small, no descriptor waits behind  *)
(* another for its turn, and no report is for nobody.  And for users who    *)
(* add what is open and remove before they close, a registration belongs to *)
(* the file that is open under its number now, however often the number was *)
(* reused, and removal leaves none behind.                                  *)
RegistryInStep ==
  /\ DOMAIN interest \subseteq DOMAIN pool
  /\ DOMAIN pool = added
  /\ \A fd \in added \ breach : fd \in open /\ pool[fd].file = file[fd]

(* Every direction epoll is asked for has its callback: level-triggered     *)
(* readiness without one would have the loop spin.                          *)
InterestHasHandler ==
  \A fd \in DOMAIN interest \ breach :
    \A d \in interest[fd] : HandlerFor[d] \in pool[fd].handlers

(* An event that an earlier callback of the batch removed, and closed, and  *)
(* perhaps opened again, is never handled for the file that is gone         *)
(* (eventCtrl.cpp:91-104).                                                  *)
HandlesOpenFile ==
  [][(loop = "dispatch" /\ loop' = "callback") =>
       LET fd == current'[1]
       IN  fd \in breach \/ (fd \in open /\ current'[2] = file[fd])]_vars

(* A descriptor that stays registered, and has a callback for what epoll    *)
(* reports of it, gets the callback, whatever else keeps the loop busy.     *)
Callable(fd) == /\ fd \in DOMAIN pool
                /\ Calls(Reported(fd), pool[fd].handlers) # <<>>
ReadyIsHandled ==
  \A fd \in Fds :
    Callable(fd) ~> (~Callable(fd) \/ (loop = "callback" /\ current[1] = fd))
=============================================================================
