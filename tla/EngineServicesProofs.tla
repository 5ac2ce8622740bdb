------------------------ MODULE EngineServicesProofs -------------------------
(***************************************************************************)
(* Theorems about two services an Engine offers its plugins.  Signals, for *)
(* any number of signals, monitors and threads; and Plugins, for any       *)
(* types, files, paths, directories and depth of searches.                 *)
(***************************************************************************)
EXTENDS Signals, Plugins, SequenceTheorems, FiniteSetTheorems, TLAPS

-----------------------------------------------------------------------------
(* The signal monitor.                                                     *)

(* The three copies of a monitor's set agree, and one that does not exist   *)
(* has none.                                                                *)
Copies ==
  /\ map = mask
  /\ \A m \in Monitors :
       IF m \in monitors THEN driver[m] \in threads ELSE map[m] = {}

(* An unfinished call is on the monitor's thread: an add has blocked its    *)
(* signal, a del has taken it out of the map.                               *)
Unfinished ==
  \A t \in Threads :
    LET m == call[t].monitor
        s == call[t].signal
    IN  call[t] # NoCall =>
          /\ m \in monitors /\ s \in Signals /\ driver[m] = t
          /\ call[t].op = "add" => s \in blocked[t]
          /\ call[t].op = "del" => s \notin map[m]

(* A loop is busy with a monitor of its own thread; a signalfd found        *)
(* readable has a signal waiting, unless it was robbed or nothing runs.     *)
Found ==
  \A t \in Threads :
    LET m == stage[t].monitor
    IN  /\ m # None => driver[m] = t
        /\ stage[t].at = "ready" /\ m \in Monitors /\ Running =>
             ~ stage[t].stray /\ (Waiting(m) # {} \/ m \in robbed)

IndInv ==
  TypeOK /\ Copies /\ Unfinished /\ Found /\ HandledIsBlocked /\ StrayAfterRaceOnly

-----------------------------------------------------------------------------

(* A process begins without monitors.                                       *)
LEMMA Initially == Init => IndInv
  <1> SUFFICES ASSUME Init PROVE IndInv
    OBVIOUS
  <1> USE SignalsAssumption DEF Init, NoCall, Polls
  <1>1. TypeOK
    BY DEF TypeOK
  <1>2. Copies
    BY DEF Copies
  <1>3. Unfinished
    BY DEF Unfinished
  <1>4. Found
    BY DEF Found
  <1>5. HandledIsBlocked
    BY DEF HandledIsBlocked
  <1>6. StrayAfterRaceOnly
    BY DEF StrayAfterRaceOnly
  <1>7. QED
    BY <1>1, <1>2, <1>3, <1>4, <1>5, <1>6 DEF IndInv

(* A signal that waits is one more; the rest stands.                        *)
LEMMA ArriveKeeps ==
  ASSUME IndInv, NEW s \in Signals, Arrive(s)
  PROVE  IndInv'
  <1> USE DEF IndInv, Arrive, sets, kernel
  <1>1. TypeOK'
    BY SignalsAssumption DEF TypeOK
  <1>2. Copies'
    BY DEF Copies
  <1>3. Unfinished'
    BY DEF Unfinished
  <1>4. Found'
    BY DEF Found, Waiting
  <1>5. HandledIsBlocked'
    BY DEF HandledIsBlocked
  <1>6. StrayAfterRaceOnly'
    BY DEF StrayAfterRaceOnly
  <1>7. QED
    BY <1>1, <1>2, <1>3, <1>4, <1>5, <1>6

(* A thread that did not exist drives no monitor yet.                       *)
LEMMA SpawnKeeps ==
  ASSUME IndInv, NEW t \in Threads, NEW u \in Threads, Spawn(t, u)
  PROVE  IndInv'
  <1> USE DEF IndInv, Spawn, sets, kernel
  <1>1. TypeOK'
    BY DEF TypeOK
  <1>2. Copies'
    BY DEF Copies
  <1>3. Unfinished'
    BY DEF TypeOK, Copies, Unfinished
  <1>4. Found'
    BY DEF Found, UserCode, Waiting
  <1>5. HandledIsBlocked'
    BY DEF TypeOK, Copies, HandledIsBlocked
  <1>6. StrayAfterRaceOnly'
    BY DEF StrayAfterRaceOnly
  <1>7. QED
    BY <1>1, <1>2, <1>3, <1>4, <1>5, <1>6

(* A new monitor has an empty map.                                          *)
LEMMA GetSignalMonitorKeeps ==
  ASSUME IndInv, NEW m \in Monitors, GetSignalMonitor(m)
  PROVE  IndInv'
  <1> USE DEF IndInv, GetSignalMonitor, sets, kernel
  <1>1. TypeOK'
    BY DEF TypeOK
  <1>2. Copies'
    BY DEF Copies, UserCode
  <1>3. Unfinished'
    BY DEF Unfinished
  <1>4. Found'
    BY DEF Found, UserCode, Waiting
  <1>5. HandledIsBlocked'
    BY DEF Copies, HandledIsBlocked
  <1>6. StrayAfterRaceOnly'
    BY DEF StrayAfterRaceOnly
  <1>7. QED
    BY <1>1, <1>2, <1>3, <1>4, <1>5, <1>6

(* No call is unfinished, and no loop busy, with a monitor that goes.       *)
LEMMA DestroyKeeps ==
  ASSUME IndInv, NEW m \in Monitors, Destroy(m)
  PROVE  IndInv'
  <1> USE DEF IndInv, Destroy, sets, kernel
  <1>1. TypeOK'
    BY DEF TypeOK
  <1>2. Copies'
    BY DEF TypeOK, Copies
  <1>3. Unfinished'
    BY DEF Unfinished, UserCode
  <1>4. Found'
    BY SignalsAssumption DEF Found, UserCode, Waiting
  <1>5. HandledIsBlocked'
    BY DEF HandledIsBlocked
  <1>6. StrayAfterRaceOnly'
    BY DEF StrayAfterRaceOnly
  <1>7. QED
    BY <1>1, <1>2, <1>3, <1>4, <1>5, <1>6

(* The thread blocks more than before.                                      *)
LEMMA AddKeeps ==
  ASSUME IndInv, NEW t \in Threads, NEW m \in Monitors, NEW s \in Signals,
         Add(t, m, s)
  PROVE  IndInv'
  <1> USE DEF IndInv, Add, sets, kernel
  <1>1. TypeOK'
    BY DEF TypeOK, Blocked, Begins
  <1>2. Copies'
    BY DEF Copies
  <1>3. Unfinished'
    BY DEF TypeOK, Unfinished, Uses, Blocked, Begins
  <1>4. Found'
    BY DEF Found, Uses, UserCode, Waiting
  <1>5. HandledIsBlocked'
    BY DEF TypeOK, HandledIsBlocked, Blocked
  <1>6. StrayAfterRaceOnly'
    BY DEF StrayAfterRaceOnly
  <1>7. QED
    BY <1>1, <1>2, <1>3, <1>4, <1>5, <1>6

(* What the signalfd now takes has been blocked by the call's first half.   *)
LEMMA WatchKeeps ==
  ASSUME IndInv, NEW t \in Threads, NEW m \in Monitors, NEW s \in Signals,
         Watch(t, m, s)
  PROVE  IndInv'
  <1> USE DEF IndInv, Watch, sets, kernel
  <1>1. TypeOK'
    BY DEF TypeOK, Watched, Returns, NoCall
  <1>2. Copies'
    BY DEF Copies, Unfinished, Calls, Watched, NoCall
  <1>3. Unfinished'
    BY DEF Unfinished, Calls, Returns, NoCall
  <1>4. Found'
    BY DEF Found, Watched, Waiting
  <1>5. HandledIsBlocked'
    BY DEF Unfinished, HandledIsBlocked, Calls, Watched, NoCall
  <1>6. StrayAfterRaceOnly'
    BY DEF StrayAfterRaceOnly
  <1>7. QED
    BY <1>1, <1>2, <1>3, <1>4, <1>5, <1>6

(* Who is robbed stays so as long as its loop is at it.                     *)
LEMMA RobbedStay ==
  ASSUME NEW losers, Robs(losers), NEW n \in robbed \cup losers,
         stage'[driver[n]].monitor = n
  PROVE  n \in robbed'
  BY DEF Robs

(* What is no longer handled need not be blocked.                           *)
LEMMA DelKeeps ==
  ASSUME IndInv, NEW t \in Threads, NEW m \in Monitors, NEW s \in Signals,
         Del(t, m, s)
  PROVE  IndInv'
  <1> USE DEF IndInv, Del, sets, kernel
  <1>a. Running /\ victim' \in {None, s}
    BY DEF Uses, UserCode, Outcomes
  <1>1. TypeOK'
    BY <1>a DEF TypeOK, Erased, Begins, Robs
  <1>2. Copies'
    BY DEF Copies, Erased
  <1>3. Unfinished'
    BY DEF TypeOK, Unfinished, Uses, Erased, Begins
  <1>4. Found'
    <2> SUFFICES ASSUME NEW u \in Threads, NEW n, n = stage[u].monitor
                 PROVE  /\ n # None => driver[n] = u
                        /\ stage[u].at = "ready" /\ n \in Monitors /\ Running' =>
                             ~ stage[u].stray /\ (Waiting(n)' # {} \/ n \in robbed')
      BY DEF Found
    <2>1. n \in robbed \cup {m} /\ n \in Monitors => n \in robbed'
      BY RobbedStay, SignalsAssumption DEF Found
    <2>2. n \in Monitors /\ n # m => Waiting(n)' = Waiting(n)
      BY DEF TypeOK, Waiting
    <2>3. QED
      BY <1>a, <2>1, <2>2 DEF Found
  <1>5. HandledIsBlocked'
    BY DEF HandledIsBlocked, Erased
  <1>6. StrayAfterRaceOnly'
    BY RobbedStay, SignalsAssumption DEF StrayAfterRaceOnly, Found
  <1>7. QED
    BY <1>1, <1>2, <1>3, <1>4, <1>5, <1>6

(* The signal is in no map of the thread, or is noted in undone.            *)
LEMMA UnblockKeeps ==
  ASSUME IndInv, NEW t \in Threads, NEW m \in Monitors, NEW s \in Signals,
         Unblock(t, m, s)
  PROVE  IndInv'
  <1> USE DEF IndInv, Unblock, sets, kernel
  <1>1. TypeOK'
    BY DEF TypeOK, Returns, NoCall
  <1>2. Copies'
    BY DEF Copies
  <1>3. Unfinished'
    BY DEF Unfinished, Calls, Returns
  <1>4. Found'
    BY SignalsAssumption DEF Found, Running, Waiting
  <1>5. HandledIsBlocked'
    BY DEF TypeOK, Copies, Unfinished, HandledIsBlocked, Calls, StillHandled,
           NoCall
  <1>6. StrayAfterRaceOnly'
    BY DEF StrayAfterRaceOnly
  <1>7. QED
    BY <1>1, <1>2, <1>3, <1>4, <1>5, <1>6

(* The monitor's own thread is the only one that can have been busy with it. *)
LEMMA PollKeeps ==
  ASSUME IndInv, NEW t \in Threads, NEW m \in Monitors, Poll(t, m)
  PROVE  IndInv'
  <1> USE DEF IndInv, Poll, sets, kernel
  <1>1. TypeOK'
    BY DEF TypeOK, Ready, Polls
  <1>2. Copies'
    BY DEF Copies
  <1>3. Unfinished'
    BY DEF Unfinished
  <1>4. Found'
    BY DEF Found, Uses, UserCode, Ready, Polls, Waiting
  <1>5. HandledIsBlocked'
    BY DEF HandledIsBlocked
  <1>6. StrayAfterRaceOnly'
    <2> SUFFICES ASSUME NEW u \in Threads, NEW n \in Monitors,
                        stage'[u].monitor = n, stage'[u].stray
                 PROVE  n \in robbed'
      BY DEF StrayAfterRaceOnly
    <2>1. u # t
      BY DEF TypeOK, Ready, Polls
    <2>2. stage'[u] = stage[u]
      BY <2>1 DEF TypeOK
    <2>3. n # m
      BY <2>1, <2>2, SignalsAssumption DEF Found, Uses
    <2>4. QED
      BY <2>2, <2>3 DEF StrayAfterRaceOnly
  <1>7. QED
    BY <1>1, <1>2, <1>3, <1>4, <1>5, <1>6

(* A monitor that loses the signal it was found readable for is robbed.     *)
LEMMA HandleSignalKeeps ==
  ASSUME IndInv, NEW t \in Threads, NEW m \in Monitors, HandleSignal(t, m)
  PROVE  IndInv'
  <1> USE DEF IndInv, HandleSignal, Looked, Handles, sets, kernel
  <1>a. m # None /\ driver[m] = t
    BY SignalsAssumption DEF Found, Ready, Polls
  <1>1. TypeOK'
    BY DEF TypeOK, Polls, Robs
  <1>2. Copies'
    BY DEF Copies
  <1>3. Unfinished'
    BY DEF Unfinished
  <1>4. Found'
    <2>1. PICK s \in Waiting(m) :
            /\ stage' = [stage EXCEPT ![t] = Looked(m, s, FALSE)]
            /\ pending' = pending \ Taken(m, s)
            /\ Robs({n \in Monitors \ {m} : s \in mask[n]})
      OBVIOUS
    <2> SUFFICES ASSUME NEW u \in Threads, NEW n, n = stage'[u].monitor
                 PROVE  /\ n # None => driver[n] = u
                        /\ stage'[u].at = "ready" /\ n \in Monitors /\ Running =>
                             ~ stage'[u].stray /\ (Waiting(n)' # {} \/ n \in robbed')
      BY DEF Found, Running, Waiting
    <2>2. CASE u = t
      <3>1. stage'[u] = Polls \/ stage'[u] = Handles(m, s, FALSE)
        BY <2>1, <2>2 DEF TypeOK, Looked
      <3>2. QED
        BY <1>a, <3>1, <2>2 DEF Handles, Polls
    <2>3. CASE u # t
      <3>1. stage'[u] = stage[u]
        BY <2>1, <2>3 DEF TypeOK
      <3>2. n # None => n # m
        BY <1>a, <2>3, <3>1 DEF Found
      <3>3. ASSUME n \in Monitors, n # m, Waiting(n) # {}
            PROVE  Waiting(n)' # {} \/ n \in robbed'
        <4>1. CASE s \in mask[n]
          BY <2>1, <3>1, <3>3, <4>1, RobbedStay, SignalsAssumption DEF Found
        <4>2. CASE s \notin mask[n]
          BY <2>1, <3>3, <4>2 DEF Waiting, Taken
        <4>3. QED
          BY <4>1, <4>2
      <3>4. n \in Monitors /\ n \in robbed => n \in robbed'
        BY <2>1, <3>1, RobbedStay, SignalsAssumption DEF Found
      <3>5. QED
        BY <3>1, <3>2, <3>3, <3>4, SignalsAssumption DEF Found, Running
    <2>4. QED
      BY <2>2, <2>3
  <1>5. HandledIsBlocked'
    BY DEF HandledIsBlocked
  <1>6. StrayAfterRaceOnly'
    <2>1. PICK s \in Waiting(m) :
            /\ stage' = [stage EXCEPT ![t] = Looked(m, s, FALSE)]
            /\ Robs({n \in Monitors \ {m} : s \in mask[n]})
      OBVIOUS
    <2> SUFFICES ASSUME NEW u \in Threads, NEW n \in Monitors,
                        stage'[u].monitor = n, stage'[u].stray
                 PROVE  n \in robbed'
      BY DEF StrayAfterRaceOnly
    <2>2. stage'[t] = Polls \/ stage'[t] = Handles(m, s, FALSE)
      BY <2>1 DEF TypeOK, Looked
    <2>3. u # t
      BY <2>2 DEF Polls, Handles
    <2>4. stage'[u] = stage[u]
      BY <2>1, <2>3 DEF TypeOK
    <2>5. n \in robbed /\ driver[n] = u
      BY <2>4, SignalsAssumption DEF StrayAfterRaceOnly, Found
    <2>6. QED
      BY <2>1, <2>5, RobbedStay
  <1>7. QED
    BY <1>1, <1>2, <1>3, <1>4, <1>5, <1>6

(* Nothing waits for a monitor found readable: it was robbed.               *)
LEMMA ReadFailsKeeps ==
  ASSUME IndInv, NEW t \in Threads, NEW m \in Monitors, ReadFails(t, m)
  PROVE  IndInv'
  <1> USE DEF IndInv, ReadFails, Looked, Handles, sets, kernel
  <1>a. m # None /\ driver[m] = t /\ m \in robbed
    BY SignalsAssumption DEF Found, Ready, Polls, UserCode
  <1>b. PICK s \in map[m] \cup {None} :
          stage' = [stage EXCEPT ![t] = Looked(m, s, TRUE)]
    OBVIOUS
  <1>e. ASSUME NEW n \in robbed, stage'[driver[n]].monitor = n PROVE n \in robbed'
    BY <1>e, RobbedStay
  <1>c. stage'[t] = Polls \/ stage'[t] = Handles(m, s, TRUE)
    BY <1>b DEF TypeOK, Looked
  <1>d. \A u \in Threads : u # t => stage'[u] = stage[u]
    BY <1>b DEF TypeOK
  <1>1. TypeOK'
    BY DEF TypeOK, Polls, Robs
  <1>2. Copies'
    BY DEF Copies
  <1>3. Unfinished'
    BY DEF Unfinished
  <1>4. Found'
    <2> SUFFICES ASSUME NEW u \in Threads, NEW n, n = stage'[u].monitor
                 PROVE  /\ n # None => driver[n] = u
                        /\ stage'[u].at = "ready" /\ n \in Monitors /\ Running =>
                             ~ stage'[u].stray /\ (Waiting(n) # {} \/ n \in robbed')
      BY DEF Found, Running, Waiting
    <2>1. CASE u = t
      BY <1>a, <1>c, <2>1 DEF Handles, Polls
    <2>2. CASE u # t
      BY <1>d, <1>e, <2>2, SignalsAssumption DEF Found
    <2>3. QED
      BY <2>1, <2>2
  <1>5. HandledIsBlocked'
    BY DEF HandledIsBlocked
  <1>6. StrayAfterRaceOnly'
    <2> SUFFICES ASSUME NEW u \in Threads, NEW n \in Monitors,
                        stage'[u].monitor = n, stage'[u].stray
                 PROVE  n \in robbed'
      BY DEF StrayAfterRaceOnly
    <2>1. CASE u = t
      BY <1>a, <1>c, <1>e, <2>1, SignalsAssumption DEF Handles, Polls
    <2>2. CASE u # t
      BY <1>d, <1>e, <2>2, SignalsAssumption DEF StrayAfterRaceOnly, Found
    <2>3. QED
      BY <2>1, <2>2
  <1>7. QED
    BY <1>1, <1>2, <1>3, <1>4, <1>5, <1>6

(* The loop polls again.                                                    *)
LEMMA HandlerReturnsKeeps ==
  ASSUME IndInv, NEW t \in Threads, NEW m \in Monitors, HandlerReturns(t, m)
  PROVE  IndInv'
  <1> USE DEF IndInv, HandlerReturns, sets, kernel
  <1>a. stage'[t] = Polls
    BY DEF TypeOK, After
  <1>b. \A u \in Threads : u # t => stage'[u] = stage[u]
    BY DEF TypeOK
  <1>1. TypeOK'
    BY DEF TypeOK, After, Polls, Robs
  <1>2. Copies'
    BY DEF Copies
  <1>3. Unfinished'
    BY DEF Unfinished
  <1>4. Found'
    <2> SUFFICES ASSUME NEW u \in Threads, NEW n, n = stage'[u].monitor
                 PROVE  /\ n # None => driver[n] = u
                        /\ stage'[u].at = "ready" /\ n \in Monitors /\ Running =>
                             ~ stage'[u].stray /\ (Waiting(n) # {} \/ n \in robbed')
      BY DEF Found, Running, Waiting
    <2>1. CASE u = t
      BY <1>a, <2>1 DEF Polls
    <2>2. CASE u # t
      BY <1>b, <2>2, RobbedStay, SignalsAssumption DEF Found
    <2>3. QED
      BY <2>1, <2>2
  <1>5. HandledIsBlocked'
    BY DEF HandledIsBlocked
  <1>6. StrayAfterRaceOnly'
    <2> SUFFICES ASSUME NEW u \in Threads, NEW n \in Monitors,
                        stage'[u].monitor = n, stage'[u].stray
                 PROVE  n \in robbed'
      BY DEF StrayAfterRaceOnly
    <2>1. u # t
      BY <1>a DEF Polls
    <2>2. n \in robbed /\ driver[n] = u
      BY <1>b, <2>1, SignalsAssumption DEF StrayAfterRaceOnly, Found
    <2>3. QED
      BY <2>2, RobbedStay
  <1>7. QED
    BY <1>1, <1>2, <1>3, <1>4, <1>5, <1>6

(* A step that changes no variable changes none of the predicates.          *)
LEMMA StutterKeeps == IndInv /\ UNCHANGED vars => IndInv'
  BY DEF IndInv, vars, TypeOK, Copies, Unfinished, Found, HandledIsBlocked,
         StrayAfterRaceOnly, Waiting, Running, NoCall

-----------------------------------------------------------------------------

(* IndInv holds in every state.                                             *)
LEMMA Inductive == Spec => []IndInv
  <1>1. IndInv /\ [Next]_vars => IndInv'
    <2> SUFFICES ASSUME IndInv, [Next]_vars PROVE IndInv'
      OBVIOUS
    <2>1. ASSUME NEW s \in Signals, Arrive(s) PROVE IndInv'
      BY <2>1, ArriveKeeps
    <2>2. ASSUME NEW m \in Monitors, GetSignalMonitor(m) \/ Destroy(m) PROVE IndInv'
      BY <2>2, GetSignalMonitorKeeps, DestroyKeeps
    <2>3. ASSUME NEW t \in Threads, LoopStep(t) PROVE IndInv'
      BY <2>3, PollKeeps, HandleSignalKeeps, ReadFailsKeeps, HandlerReturnsKeeps
         DEF LoopStep
    <2>4. ASSUME NEW t \in Threads, CallStep(t) PROVE IndInv'
      BY <2>4, WatchKeeps, UnblockKeeps DEF CallStep
    <2>5. ASSUME NEW t \in Threads, NEW u \in Threads, Spawn(t, u) PROVE IndInv'
      BY <2>5, SpawnKeeps
    <2>6. ASSUME NEW t \in Threads, NEW m \in Monitors, NEW s \in Signals,
                 Add(t, m, s) \/ Del(t, m, s)
          PROVE  IndInv'
      BY <2>6, AddKeeps, DelKeeps
    <2>7. CASE UNCHANGED vars
      BY <2>7, StutterKeeps
    <2>8. QED
      BY <2>1, <2>2, <2>3, <2>4, <2>5, <2>6, <2>7 DEF Next
  <1>2. QED
    BY Initially, <1>1, PTL DEF Spec

(* The variables keep their types.                                          *)
THEOREM Typing == Spec => []TypeOK
  BY Inductive, PTL DEF IndInv

(* HandledIsBlocked, for any number of engines, threads and signals: what   *)
(* handleSignal can be called for is blocked on the thread it is called on, *)
(* however add, del and the loops interleave, unless another monitor of the *)
(* thread unblocked it.                                                     *)
THEOREM HandledSignalsBlocked == Spec => []HandledIsBlocked
  BY Inductive, PTL DEF IndInv

(* StrayAfterRaceOnly, likewise: handleSignal's unchecked read fails only   *)
(* for a signalfd that another monitor's read or del emptied.               *)
THEOREM StrayExplained == Spec => []StrayAfterRaceOnly
  BY Inductive, PTL DEF IndInv

-----------------------------------------------------------------------------
(* Plugins.                                                                *)

(* A creator runs in a library that is open and was not left out.           *)
Caller(x, libs) ==
  x.rest # <<>> /\ Head(x.rest) \in libs \ x.blacklist

(* Searches that all wait for a creator; and a stack of searches, of which  *)
(* the innermost need not.                                                  *)
Callers(s, libs) ==
  s \in Seq(Search) /\ \A n \in 1..Len(s) : s[n].calling /\ Caller(s[n], libs)

Frames(s, libs) ==
  /\ s \in Seq(Search)
  /\ \A n \in 2..Len(s) : s[n].calling
  /\ \A n \in 1..Len(s) : s[n].calling => Caller(s[n], libs)

(* What the map holds was listed, and what lives and was listed is in it.   *)
Entered ==
  /\ pluginMap \in [Keys \X Plugins -> 0..1]
  /\ live \subseteq made /\ made \subseteq Plugins
  /\ listed \subseteq Keys \X made
  /\ \A e \in Keys \X Plugins : pluginMap[e] = 1 => e \in listed
  /\ \A e \in listed : e[2] \in live => pluginMap[e] = 1

Opened ==
  /\ libraries \subseteq Files
  /\ opened \in [Files -> Nat]
  /\ \A f \in Files : opened[f] = (IF f \in libraries THEN 1 ELSE 0)

(* One inductive invariant carries the three theorems.                      *)
PluginsIndInv == Frames(searches, libraries) /\ Entered /\ Opened

-----------------------------------------------------------------------------
(* The searches.                                                           *)

LEMMA FramesIndexed ==
  ASSUME NEW s, NEW libs, Frames(s, libs)
  PROVE  /\ s \in Seq(Search) /\ Len(s) \in Nat /\ DOMAIN s = 1..Len(s)
         /\ \A n \in 1..Len(s) : s[n] \in Search
  BY ElementOfSeq, LenProperties DEF Frames

LEMMA ConsFrames ==
  ASSUME NEW t, NEW libs, Callers(t, libs), NEW x \in Search,
         x.calling => Caller(x, libs)
  PROVE  Frames(Cons(x, t), libs)
  <1>1. /\ t \in Seq(Search) /\ Len(t) \in Nat
        /\ <<x>> \in Seq(Search) /\ Len(<<x>>) = 1 /\ <<x>>[1] = x
    BY LenProperties DEF Callers
  <1>2. /\ Cons(x, t) \in Seq(Search)
        /\ Len(Cons(x, t)) = 1 + Len(t)
        /\ \A n \in 1..1 + Len(t) :
             Cons(x, t)[n] = IF n <= 1 THEN <<x>>[n] ELSE t[n - 1]
    BY <1>1, ConcatProperties DEF Cons
  <1>3. Cons(x, t)[1] = x
    BY <1>1, <1>2
  <1>4. \A n \in 2..1 + Len(t) : n - 1 \in 1..Len(t) /\ Cons(x, t)[n] = t[n - 1]
    BY <1>1, <1>2
  <1>5. \A n \in 1..1 + Len(t) : n = 1 \/ n \in 2..1 + Len(t)
    BY <1>1
  <1>6. QED
    BY <1>2, <1>3, <1>4, <1>5 DEF Callers, Frames

LEMMA TailCallers ==
  ASSUME NEW s, NEW libs, Frames(s, libs), s # <<>>
  PROVE  Callers(Tail(s), libs)
  <1>1. /\ Tail(s) \in Seq(Search) /\ Len(s) \in Nat /\ Len(Tail(s)) = Len(s) - 1
        /\ \A n \in 1..Len(Tail(s)) : Tail(s)[n] = s[n + 1]
    BY HeadTailProperties, LenProperties DEF Frames
  <1>2. \A n \in 1..Len(Tail(s)) : n + 1 \in 2..Len(s) /\ n + 1 \in 1..Len(s)
    BY <1>1
  <1>3. QED
    BY <1>1, <1>2 DEF Callers, Frames

LEMMA UserCodeCallers ==
  ASSUME NEW s, NEW libs, Frames(s, libs), s # <<>> => Head(s).calling
  PROVE  Callers(s, libs)
  <1>1. \A n \in 1..Len(s) : n = 1 \/ n \in 2..Len(s)
    BY FramesIndexed
  <1>2. Len(s) >= 1 => s # <<>> /\ Head(s) = s[1]
    BY HeadTailProperties, EmptySeq DEF Frames
  <1>3. \A n \in 1..Len(s) : Len(s) >= 1
    BY FramesIndexed
  <1>4. QED
    BY <1>1, <1>2, <1>3 DEF Callers, Frames

LEMMA SuffixCallers ==
  ASSUME NEW s, NEW libs, Frames(s, libs), NEW m \in 1..Len(s)
  PROVE  Callers(SubSeq(s, m + 1, Len(s)), libs)
  <1> DEFINE t == SubSeq(s, m + 1, Len(s))
  <1>1. Len(s) \in Nat /\ m + 1 \in Int /\ Len(s) \in Int
    BY FramesIndexed
  <1>2. \A n \in m + 1..Len(s) : n \in 1..Len(s) /\ s[n] \in Search
    BY <1>1, FramesIndexed
  <1>3. /\ t \in Seq(Search)
        /\ Len(t) = IF m + 1 <= Len(s) THEN Len(s) - (m + 1) + 1 ELSE 0
        /\ \A n \in 1..Len(s) - (m + 1) + 1 : t[n] = s[m + 1 + n - 1]
    BY <1>1, <1>2, SubSeqProperties
  <1>4. \A n \in 1..Len(t) : /\ n \in 1..Len(s) - (m + 1) + 1
                             /\ m + 1 + n - 1 \in 2..Len(s)
                             /\ m + 1 + n - 1 \in 1..Len(s)
    BY <1>1, <1>3
  <1>5. \A n \in 1..Len(t) : t[n].calling /\ Caller(t[n], libs)
    BY <1>3, <1>4 DEF Frames
  <1>6. QED
    BY <1>3, <1>5 DEF Callers

LEMMA CallersFrames ==
  ASSUME NEW s, NEW libs, Callers(s, libs)
  PROVE  Frames(s, libs)
  <1>1. \A n \in 2..Len(s) : n \in 1..Len(s)
    BY LenProperties DEF Callers
  <1>2. QED
    BY <1>1 DEF Callers, Frames

(* Libraries stay open.                                                     *)
LEMMA MoreLibraries ==
  ASSUME NEW s, NEW libs, NEW more, Callers(s, libs), libs \subseteq more
  PROVE  Callers(s, more)
  BY DEF Callers, Caller

LEMMA TopTyped ==
  ASSUME PluginsIndInv, searches # <<>>
  PROVE  /\ Top \in Search
         /\ Top.calling => Caller(Top, libraries)
         /\ Callers(Tail(searches), libraries)
  <1>1. Top = searches[1] /\ 1 \in 1..Len(searches)
    BY HeadTailProperties, FramesIndexed, EmptySeq
       DEF PluginsIndInv, Frames, Top
  <1>2. Callers(Tail(searches), libraries)
    BY TailCallers DEF PluginsIndInv
  <1>3. QED
    BY <1>1, <1>2, FramesIndexed DEF PluginsIndInv, Frames

LEMMA PassedTyped ==
  ASSUME PluginsIndInv, searches # <<>>, Top.rest # <<>>
  PROVE  Passed \in Search /\ ~ Passed.calling
  <1>1. Top \in Search
    BY TopTyped
  <1>2. Tail(Top.rest) \in Seq(Files)
    BY <1>1, HeadTailProperties DEF Search
  <1>3. QED
    BY <1>1, <1>2 DEF Passed, Search

-----------------------------------------------------------------------------
(* The steps.                                                              *)

LEMMA PluginsInitially == PluginsInit => PluginsIndInv
  <1> SUFFICES ASSUME PluginsInit PROVE PluginsIndInv
    OBVIOUS
  <1>1. Frames(searches, libraries)
    BY EmptySeq DEF PluginsInit, Frames
  <1>2. Entered /\ Opened
    BY DEF PluginsInit, Entered, Opened
  <1>3. QED
    BY <1>1, <1>2 DEF PluginsIndInv

LEMMA EnteredUnchanged ==
  ASSUME PluginsIndInv, UNCHANGED plugins
  PROVE  Entered'
  BY DEF PluginsIndInv, Entered, plugins

LEMMA OpenedUnchanged ==
  ASSUME PluginsIndInv, UNCHANGED <<libraries, opened>>
  PROVE  Opened'
  BY DEF PluginsIndInv, Opened

LEMMA CreateKeeps ==
  ASSUME PluginsIndInv, NEW k \in Keys, Create(k)
  PROVE  PluginsIndInv'
  <1>1. PICK paths \in EnvPaths, black \in Blacklists :
          searches' = Cons([key |-> k, blacklist |-> black, rest |-> paths,
                            directory |-> FALSE, calling |-> FALSE], searches)
    BY DEF Create
  <1> DEFINE x == [key |-> k, blacklist |-> black, rest |-> paths,
                   directory |-> FALSE, calling |-> FALSE]
  <1>2. x \in Search /\ ~ x.calling
    BY PluginsAssumption DEF Search
  <1> HIDE DEF x
  <1>3. Callers(searches, libraries)
    BY UserCodeCallers DEF Create, UserActs, Top, PluginsIndInv
  <1>4. Frames(Cons(x, searches), libraries)
    BY <1>2, <1>3, ConsFrames
  <1>5. searches' = Cons(x, searches)
    BY <1>1 DEF x
  <1>6. Frames(searches, libraries)'
    BY <1>4, <1>5 DEF Create
  <1>7. QED
    BY <1>6, EnteredUnchanged, OpenedUnchanged DEF Create, PluginsIndInv

LEMMA ReleaseKeeps ==
  ASSUME PluginsIndInv, NEW p \in Plugins, Release(p)
  PROVE  PluginsIndInv'
  <1>1. Entered'
    BY DEF PluginsIndInv, Entered, Release
  <1>2. QED
    BY <1>1, OpenedUnchanged DEF Release, PluginsIndInv

LEMMA PassOverKeeps ==
  ASSUME PluginsIndInv, PassOver
  PROVE  PluginsIndInv'
  <1>1. Frames(Cons(Passed, Tail(searches)), libraries)
    BY TopTyped, PassedTyped, ConsFrames DEF PassOver, InSearch
  <1>2. Frames(searches, libraries)'
    BY <1>1 DEF PassOver, TopBecomes
  <1>3. QED
    BY <1>2, EnteredUnchanged, OpenedUnchanged DEF PassOver, PluginsIndInv

LEMMA UseLibraryKeeps ==
  ASSUME PluginsIndInv, NEW resolved \in BOOLEAN, UseLibrary(resolved)
  PROVE  PluginsIndInv'
  <1> DEFINE f == Head(Top.rest)
             x == IF resolved THEN [Top EXCEPT !.calling = TRUE] ELSE Passed
  <1>1. /\ searches # <<>> /\ Top.rest # <<>> /\ f \notin Top.blacklist
        /\ opened' = IF f \in libraries THEN opened ELSE [opened EXCEPT ![f] = @ + 1]
        /\ libraries' = libraries \cup {f}
        /\ searches' = Cons(x, Tail(searches))
        /\ UNCHANGED plugins
    BY DEF UseLibrary, InSearch, Added, TopBecomes
  <1>2. Top \in Search
    BY <1>1, TopTyped
  <1>3. f \in Files
    BY <1>1, <1>2, HeadTailProperties DEF Search
  <1>4. x \in Search /\ (x.calling => Caller(x, libraries \cup {f}))
    <2>1. CASE resolved
      <3>1. /\ x = [Top EXCEPT !.calling = TRUE]
            /\ x \in Search /\ x.rest = Top.rest /\ x.blacklist = Top.blacklist
        BY <1>2, <2>1 DEF Search
      <3>2. QED
        BY <1>1, <3>1 DEF Caller
    <2>2. CASE ~ resolved
      BY <1>1, <2>2, PassedTyped
    <2>3. QED
      BY <2>1, <2>2
  <1> HIDE DEF x, f
  <1>5. Callers(Tail(searches), libraries \cup {f})
    BY <1>1, TopTyped, MoreLibraries
  <1>6. Frames(searches, libraries)'
    BY <1>1, <1>4, <1>5, ConsFrames
  <1>7. Opened'
    BY <1>1, <1>3 DEF PluginsIndInv, Opened
  <1>8. QED
    BY <1>1, <1>6, <1>7, EnteredUnchanged DEF PluginsIndInv

LEMMA CreatorReturnsNullKeeps ==
  ASSUME PluginsIndInv, CreatorReturnsNull
  PROVE  PluginsIndInv'
  <1>1. searches # <<>> /\ Top.calling /\ searches' = Cons(Passed, Tail(searches))
    BY DEF CreatorReturnsNull, TopBecomes
  <1>2. Top.rest # <<>> /\ Callers(Tail(searches), libraries)
    BY <1>1, TopTyped DEF Caller
  <1>3. Frames(Cons(Passed, Tail(searches)), libraries)
    BY <1>1, <1>2, PassedTyped, ConsFrames
  <1>4. Frames(searches, libraries)'
    BY <1>1, <1>3 DEF CreatorReturnsNull
  <1>5. QED
    BY <1>4, EnteredUnchanged, OpenedUnchanged
       DEF CreatorReturnsNull, PluginsIndInv

(* One who is listed already and comes to live again would have been made   *)
(* twice.                                                                   *)
LEMMA CreatorReturnsKeeps ==
  ASSUME PluginsIndInv, NEW p \in Plugins, CreatorReturns(p)
  PROVE  PluginsIndInv'
  <1>1. /\ searches # <<>> /\ searches' = Tail(searches)
        /\ UNCHANGED <<libraries, opened>>
        /\ p \in live \/ p \notin made
        /\ live' = live \cup {p} /\ made' = made \cup {p}
    BY DEF CreatorReturns
  <1>2. Frames(searches, libraries)'
    BY <1>1, TopTyped, CallersFrames
  <1>3. \A e \in listed : e[2] \in live' => e[2] \in live
    BY <1>1 DEF PluginsIndInv, Entered
  <1>4. CASE Top.directory
    <2> DEFINE k == Top.key
    <2>1. /\ pluginMap' = Updated(k, p)
          /\ listed' = listed \cup {<<k, p>>}
      BY <1>4 DEF CreatorReturns
    <2>2. k \in Keys
      BY <1>1, TopTyped DEF Search
    <2> HIDE DEF k
    <2>3. \A e \in Keys \X Plugins :
            pluginMap'[e] = IF e = <<k, p>> THEN Entries(pluginMap[e])
                            ELSE IF e[1] = k /\ e[2] \notin live' THEN 0 ELSE pluginMap[e]
      BY <2>1 DEF Updated, Lives
    <2>4. pluginMap' = [e \in Keys \X Plugins |-> pluginMap'[e]]
      BY <2>1 DEF Updated
    <2>5. \A e \in Keys \X Plugins :
            pluginMap[e] \in 0..1 /\ Entries(pluginMap[e]) = 1
      BY DEF PluginsIndInv, Entered, Entries
    <2>6. pluginMap' \in [Keys \X Plugins -> 0..1]
      BY <2>3, <2>4, <2>5
    <2>7. Entered'
      BY <1>1, <1>3, <2>1, <2>2, <2>3, <2>5, <2>6 DEF PluginsIndInv, Entered
    <2>8. QED
      BY <1>1, <1>2, <2>7, OpenedUnchanged DEF PluginsIndInv
  <1>5. CASE ~ Top.directory
    <2>1. UNCHANGED <<pluginMap, listed>>
      BY <1>5 DEF CreatorReturns
    <2>2. Entered'
      BY <1>1, <1>3, <2>1 DEF PluginsIndInv, Entered
    <2>3. QED
      BY <1>1, <1>2, <2>2, OpenedUnchanged DEF PluginsIndInv
  <1>6. QED
    BY <1>4, <1>5

LEMMA ListDirectoryKeeps ==
  ASSUME PluginsIndInv, ListDirectory
  PROVE  PluginsIndInv'
  <1>1. PICK paths \in Directories :
          searches' = Cons([Top EXCEPT !.rest = paths, !.directory = TRUE],
                             Tail(searches))
    BY DEF ListDirectory, TopBecomes
  <1> DEFINE x == [Top EXCEPT !.rest = paths, !.directory = TRUE]
  <1>2. searches # <<>> /\ ~ Top.calling
    BY DEF ListDirectory, InSearch
  <1>3. Top \in Search /\ paths \in Seq(Files)
    BY <1>2, TopTyped, PluginsAssumption
  <1>4. x \in Search /\ ~ x.calling
    BY <1>2, <1>3 DEF Search
  <1> HIDE DEF x
  <1>5. Frames(Cons(x, Tail(searches)), libraries)
    BY <1>2, <1>4, TopTyped, ConsFrames
  <1>6. searches' = Cons(x, Tail(searches))
    BY <1>1 DEF x
  <1>7. Frames(searches, libraries)'
    BY <1>5, <1>6 DEF ListDirectory
  <1>8. QED
    BY <1>7, EnteredUnchanged, OpenedUnchanged DEF ListDirectory, PluginsIndInv

LEMMA ThrowsKeeps ==
  ASSUME PluginsIndInv, Throws
  PROVE  PluginsIndInv'
  <1>1. PICK n \in 1..Len(searches) : searches' = SubSeq(searches, n + 1, Len(searches))
    BY DEF Throws
  <1>2. Frames(SubSeq(searches, n + 1, Len(searches)), libraries)
    BY SuffixCallers, CallersFrames DEF PluginsIndInv
  <1>3. Frames(searches, libraries)'
    BY <1>1, <1>2 DEF Throws
  <1>4. QED
    BY <1>3, EnteredUnchanged, OpenedUnchanged DEF Throws, PluginsIndInv

LEMMA PluginsInductive ==
  PluginsIndInv /\ [PluginsNext]_pluginsVars => PluginsIndInv'
  <1> SUFFICES ASSUME PluginsIndInv, [PluginsNext]_pluginsVars
               PROVE  PluginsIndInv'
    OBVIOUS
  <1>1. CASE SearchStep
    BY <1>1, PassOverKeeps, ListDirectoryKeeps, ThrowsKeeps, UseLibraryKeeps
       DEF SearchStep
  <1>2. CASE CreatorStep
    BY <1>2, CreatorReturnsNullKeeps, CreatorReturnsKeeps DEF CreatorStep
  <1>3. ASSUME NEW k \in Keys, Create(k)
        PROVE  PluginsIndInv'
    BY <1>3, CreateKeeps
  <1>4. ASSUME NEW p \in Plugins, Release(p)
        PROVE  PluginsIndInv'
    BY <1>4, ReleaseKeeps
  <1>5. CASE UNCHANGED pluginsVars
    <2>1. Frames(searches, libraries)'
      BY <1>5 DEF pluginsVars, PluginsIndInv
    <2>2. QED
      BY <1>5, <2>1, EnteredUnchanged, OpenedUnchanged
         DEF pluginsVars, plugins, PluginsIndInv
  <1>6. QED
    BY <1>1, <1>2, <1>3, <1>4, <1>5 DEF PluginsNext

LEMMA PluginsInvariance == PluginsSpec => []PluginsIndInv
  BY PluginsInitially, PluginsInductive, PTL DEF PluginsSpec

-----------------------------------------------------------------------------

(* Only the innermost search is not in a creator, a search whose creator    *)
(* runs has a file left, and the maps keep their types                      *)
(* (pluginCreator.cpp:103-179).                                             *)
THEOREM PluginsTyping == PluginsSpec => []PluginsTypeOK
  <1>1. PluginsIndInv => PluginsTypeOK
    <2> SUFFICES ASSUME PluginsIndInv PROVE PluginsTypeOK
      OBVIOUS
    <2>1. \A n \in DOMAIN searches : searches[n].calling => searches[n].rest # <<>>
      BY FramesIndexed DEF PluginsIndInv, Frames, Caller
    <2>2. QED
      BY <2>1 DEF PluginsIndInv, Frames, Entered, Opened, PluginsTypeOK
  <1>2. QED
    BY <1>1, PluginsInvariance, PTL

(* A plugin that lives has one entry for every type it is listed for.       *)
LEMMA OneEntryEach ==
  ASSUME PluginsIndInv, NEW p \in live
  PROVE  Cardinality(EntriesOf(p)) = Cardinality(ListedFor(p))
  <1>1. p \in Plugins
    BY DEF PluginsIndInv, Entered
  <1>2. ASSUME NEW k \in Keys
        PROVE  1..pluginMap[<<k, p>>] = IF k \in ListedFor(p) THEN {1} ELSE {}
    <2>1. pluginMap[<<k, p>>] = IF k \in ListedFor(p) THEN 1 ELSE 0
      BY <1>1 DEF PluginsIndInv, Entered, ListedFor
    <2>2. 1..1 = {1} /\ 1..0 = {}
      OBVIOUS
    <2>3. QED
      BY <2>1, <2>2
  <1>3. EntriesOf(p) = ListedFor(p) \X {1}
    <2>1. \A o : o \in EntriesOf(p) <=>
                   \E k \in Keys : o \in {k} \X (1..pluginMap[<<k, p>>])
      BY DEF EntriesOf
    <2>2. ListedFor(p) \subseteq Keys
      BY DEF ListedFor
    <2>3. \A o, k : o \in {k} \X {1} <=> o = <<k, 1>>
      OBVIOUS
    <2>4. \A o : o \in ListedFor(p) \X {1} <=> \E k \in ListedFor(p) : o = <<k, 1>>
      OBVIOUS
    <2>5. \A o, k : o \notin {k} \X {}
      OBVIOUS
    <2>6. QED
      BY <1>2, <2>1, <2>2, <2>3, <2>4, <2>5
  <1>4. IsFiniteSet(ListedFor(p))
    <2>1. ListedFor(p) \in SUBSET Keys
      BY DEF ListedFor
    <2>2. QED
      BY <2>1, PluginsAssumption, FS_Subset
  <1>5. IsFiniteSet({1}) /\ Cardinality({1}) = 1
    BY FS_Singleton
  <1>6. Cardinality(ListedFor(p)) \in Nat
    BY <1>4, FS_CardinalityType
  <1>7. Cardinality(ListedFor(p) \X {1}) = Cardinality(ListedFor(p)) * 1
    BY <1>4, <1>5, FS_Product
  <1>8. QED
    BY <1>3, <1>6, <1>7

(* getExistingPlugins answers with the plugins that live, each as often as  *)
(* there are types it is listed for, however searches, creators and         *)
(* releases are nested (pluginCreator.cpp:153, PluginMap.hpp:18-50,         *)
(* engine.cpp:133-145).                                                     *)
THEOREM PluginsListed == PluginsSpec => []LivePluginsListed
  <1>1. PluginsIndInv => LivePluginsListed
    BY OneEntryEach DEF LivePluginsListed, ExistingPlugins
  <1>2. QED
    BY <1>1, PluginsInvariance, PTL

(* A library is opened once, and a creator runs only in an open one that    *)
(* its search did not leave out (pluginCreator.cpp:53-67, 191-200).         *)
THEOREM LibrariesOpenedOnce == PluginsSpec => []OpenedOnce
  <1>1. PluginsIndInv => OpenedOnce
    BY FramesIndexed DEF PluginsIndInv, Frames, Caller, Opened, OpenedOnce
  <1>2. QED
    BY <1>1, PluginsInvariance, PTL
=============================================================================
