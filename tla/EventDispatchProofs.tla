------------------------- MODULE EventDispatchProofs --------------------------
(***************************************************************************)
(* Theorems about EventDispatch, for any finite set of descriptors, any    *)
(* masks and conditions, and any number of files opened: the registry and  *)
(* epoll stay in step, epoll is asked only for what has a callback, and no *)
(* callback runs for a file that is gone.  One inductive invariant carries *)
(* them; each step of a user or of the kernel disturbs the kernel and the  *)
(* registry only, each step of the loop the dispatch and perhaps epoll.    *)
(***************************************************************************)
EXTENDS EventDispatch, SequenceTheorems, FiniteSetTheorems, TLAPS

Reports == [fd : Fds, revents : SUBSET UNION Conditions]

(* An open descriptor has been opened.                                      *)
KernelOK ==
  /\ open \subseteq Fds
  /\ opens \in 0..MaxOpens
  /\ file \in [Fds -> 0..opens]
  /\ ready \in [Fds -> Conditions]
  /\ \A fd \in open : file[fd] # 0

Mapped ==
  /\ \A fd \in DOMAIN pool : fd \in Fds /\ pool[fd] \in Event
  /\ \A fd \in DOMAIN interest : fd \in Fds /\ interest[fd] \in SUBSET Directions
  /\ added \subseteq Fds
  /\ breach \subseteq added

(* What is registered is watched, unless it was closed too early.           *)
Watched == DOMAIN pool \ breach \subseteq DOMAIN interest

(* An event's mask asks for nothing that the event has no callback for.     *)
MasksHandled ==
  \A fd \in DOMAIN pool : \A d \in pool[fd].mask : HandlerFor[d] \in pool[fd].handlers

RegistryOK ==
  Mapped /\ RegistryInStep /\ Watched /\ MasksHandled /\ InterestHasHandler

DispatchOK ==
  /\ loop \in {"wait", "dispatch", "callback"}
  /\ batch \in Seq(Reports)
  /\ current \in {<<>>} \cup (Fds \X (0..MaxOpens))
  /\ todo \in Seq(Handlers)
  /\ loop = "callback" => todo # <<>>

IndInv == KernelOK /\ RegistryOK /\ DispatchOK

LEMMA IndInvTyped == IndInv => TypeOK
  BY DEF IndInv, KernelOK, RegistryOK, Mapped, DispatchOK, TypeOK, Reports, Range

-----------------------------------------------------------------------------
(* The maps.                                                               *)

LEMMA WithoutFacts ==
  ASSUME NEW f, NEW fd
  PROVE  /\ DOMAIN Without(f, fd) = DOMAIN f \ {fd}
         /\ \A g \in DOMAIN f \ {fd} : Without(f, fd)[g] = f[g]
  BY DEF Without, Restrict

LEMMA EpollModifyFacts ==
  ASSUME NEW fd, NEW mask, EpollModify(fd, mask)
  PROVE  /\ DOMAIN interest' = DOMAIN interest
         /\ fd \in DOMAIN interest => interest'[fd] = mask
         /\ \A g \in DOMAIN interest : g # fd => interest'[g] = interest[g]
  BY DEF EpollModify

(* Event::handle makes calls to callbacks that are set.                     *)
LEMMA CallsTyped ==
  ASSUME NEW revents, NEW handlers \in SUBSET Handlers
  PROVE  Calls(revents, handlers) \in Seq(Handlers)
  <1>1. ASSUME NEW h
        PROVE  Call(h, handlers) \in Seq(Handlers)
    <2>1. CASE h \in handlers
      <3>1. Call(h, handlers) = <<h>> /\ h \in Handlers
        BY <2>1 DEF Call
      <3>2. QED
        BY <3>1
    <2>2. CASE h \notin handlers
      BY <2>2, EmptySeq DEF Call
    <2>3. QED
      BY <2>1, <2>2
  <1>2. <<>> \in Seq(Handlers)
    BY EmptySeq
  <1>3. QED
    BY <1>1, <1>2, ConcatProperties DEF Calls

(* The event that addFd makes has a callback for what its mask asks for.    *)
LEMMA RequestedFacts ==
  ASSUME NEW fd \in Fds, NEW request \in Requests, KernelOK
  PROVE  LET event == Requested(fd, request)
         IN  /\ event \in Event
             /\ event.file = file[fd]
             /\ event.mask = {request} \cap Directions
             /\ \A d \in event.mask : HandlerFor[d] \in event.handlers
  <1>1. file[fd] \in 0..MaxOpens
    BY EventDispatchAssumption DEF KernelOK
  <1>2. \A d \in Directions : HandlerFor[d] \in Handlers
    BY DEF HandlerFor, Directions, Handlers
  <1>3. QED
    BY <1>1, <1>2 DEF Requested, Event

-----------------------------------------------------------------------------
(* The users.                                                              *)

LEMMA Initially == Init => IndInv
  <1> SUFFICES ASSUME Init PROVE IndInv
    OBVIOUS
  <1> USE EventDispatchAssumption DEF Init
  <1>1. KernelOK
    BY DEF KernelOK
  <1>2. RegistryOK
    BY DEF RegistryOK, Mapped, RegistryInStep, Watched, MasksHandled,
           InterestHasHandler
  <1>3. DispatchOK
    BY EmptySeq DEF DispatchOK
  <1>4. QED
    BY <1>1, <1>2, <1>3 DEF IndInv

LEMMA OpenFileKeeps ==
  ASSUME IndInv, NEW fd \in Fds, OpenFile(fd)
  PROVE  KernelOK' /\ RegistryOK'
  <1> USE DEF OpenFile, registry, history
  <1>1. KernelOK'
    BY EventDispatchAssumption DEF IndInv, KernelOK
  <1>2. \A g \in added \ breach : g # fd /\ g \in open' /\ file'[g] = file[g]
    BY DEF IndInv, KernelOK, RegistryOK, Mapped, RegistryInStep
  <1>3. RegistryInStep'
    BY <1>2 DEF IndInv, RegistryOK, RegistryInStep
  <1>4. (Mapped /\ Watched /\ MasksHandled /\ InterestHasHandler)'
    BY DEF IndInv, RegistryOK, Mapped, Watched, MasksHandled, InterestHasHandler
  <1>5. QED
    BY <1>1, <1>3, <1>4 DEF RegistryOK

LEMMA CloseFileKeeps ==
  ASSUME IndInv, NEW fd \in Fds, CloseFile(fd)
  PROVE  KernelOK' /\ RegistryOK'
  <1> USE DEF CloseFile
  <1>1. KernelOK'
    BY EventDispatchAssumption DEF IndInv, KernelOK
  <1>2. /\ DOMAIN interest' = DOMAIN interest \ {fd}
        /\ \A g \in DOMAIN interest' : interest'[g] = interest[g]
    BY WithoutFacts
  <1>3. Mapped'
    BY <1>2 DEF IndInv, RegistryOK, Mapped
  <1>4. RegistryInStep' /\ Watched'
    BY <1>2 DEF IndInv, RegistryOK, Mapped, RegistryInStep, Watched
  <1>5. MasksHandled' /\ InterestHasHandler'
    BY <1>2 DEF IndInv, RegistryOK, MasksHandled, InterestHasHandler
  <1>6. QED
    BY <1>1, <1>3, <1>4, <1>5 DEF RegistryOK

LEMMA ConditionChangesKeeps ==
  ASSUME IndInv, NEW fd \in Fds, ConditionChanges(fd)
  PROVE  KernelOK' /\ RegistryOK'
  BY DEF IndInv, ConditionChanges, KernelOK, RegistryOK, Mapped, RegistryInStep,
         Watched, MasksHandled, InterestHasHandler, registry, history

(* Either the number is new to the registry, or its event stays there; and  *)
(* epoll then watches it already, or it is not open or was closed too early. *)
LEMMA AddFdKeeps ==
  ASSUME IndInv, NEW fd \in Fds, NEW request \in Requests, AddFd(fd, request)
  PROVE  KernelOK' /\ RegistryOK'
  <1> DEFINE event == Requested(fd, request)
  <1>1. /\ added' = added \cup {fd} /\ breach' = breach \cup ({fd} \ open)
        /\ UNCHANGED <<open, opens, file, ready>>
        /\ pool' = IF fd \in DOMAIN pool THEN pool ELSE With(pool, fd, event)
    BY DEF AddFd, kernel
  <1>2. /\ event \in Event /\ event.file = file[fd] /\ event.mask \in SUBSET Directions
        /\ \A d \in event.mask : HandlerFor[d] \in event.handlers
    BY <1>1, RequestedFacts DEF IndInv, Event
  <1>3. \/ fd \notin open /\ interest' = interest
        \/ /\ fd \in open \ DOMAIN interest
           /\ interest' = With(interest, fd, event.mask)
        \/ /\ fd \in DOMAIN interest
           /\ EpollModify(fd, pool[fd].mask) \/ interest' = interest
    BY DEF AddFd
  <1> HIDE DEF event
  <1>4. /\ DOMAIN pool' = DOMAIN pool \cup {fd}
        /\ \A g \in DOMAIN pool : pool'[g] = pool[g]
        /\ fd \notin DOMAIN pool => pool'[fd] = event
    BY <1>1 DEF With
  <1>5. /\ DOMAIN interest \subseteq DOMAIN interest'
        /\ DOMAIN interest' \subseteq DOMAIN interest \cup {fd}
        /\ fd \in open => fd \in DOMAIN interest'
        /\ \A g \in DOMAIN interest : g # fd => interest'[g] = interest[g]
        /\ fd \in DOMAIN interest => interest'[fd] \in {interest[fd], pool[fd].mask}
        /\ fd \in DOMAIN interest' \ DOMAIN interest => interest'[fd] = event.mask
    BY <1>3, EpollModifyFacts DEF With
  <1>6. KernelOK'
    BY <1>1 DEF IndInv, KernelOK
  <1>7. \A g \in DOMAIN pool' : g \in Fds /\ pool'[g] \in Event
    BY <1>2, <1>4 DEF IndInv, RegistryOK, Mapped
  <1>8. \A g \in DOMAIN interest' : g \in Fds /\ interest'[g] \in SUBSET Directions
    <2>1. fd \in DOMAIN interest => fd \in DOMAIN pool /\ pool[fd].mask \in SUBSET Directions
      BY DEF IndInv, RegistryOK, Mapped, RegistryInStep, Event
    <2>2. QED
      BY <1>2, <1>5, <2>1 DEF IndInv, RegistryOK, Mapped
  <1>9. Mapped'
    BY <1>1, <1>7, <1>8 DEF IndInv, RegistryOK, Mapped
  <1>10. RegistryInStep'
    BY <1>1, <1>2, <1>4, <1>5 DEF IndInv, RegistryOK, Mapped, RegistryInStep
  <1>11. Watched' /\ MasksHandled'
    BY <1>1, <1>2, <1>4, <1>5 DEF IndInv, RegistryOK, Watched, MasksHandled
  <1>12. InterestHasHandler'
    <2>1. SUFFICES ASSUME NEW g \in DOMAIN interest', g \notin breach,
                          NEW d \in interest'[g]
                   PROVE  HandlerFor[d] \in pool'[g].handlers
      BY <1>1 DEF InterestHasHandler
    <2>2. CASE g \in DOMAIN interest
      <3>1. g \in DOMAIN pool /\ pool'[g] = pool[g]
        BY <1>4, <2>2 DEF IndInv, RegistryOK, RegistryInStep
      <3>2. d \in interest[g] \/ d \in pool[g].mask
        BY <1>5, <2>1, <2>2
      <3>3. QED
        BY <2>1, <2>2, <3>1, <3>2
           DEF IndInv, RegistryOK, MasksHandled, InterestHasHandler
    <2>3. CASE g \notin DOMAIN interest
      <3>1. g = fd /\ g \notin DOMAIN pool
        BY <1>5, <2>1, <2>3 DEF IndInv, RegistryOK, Watched
      <3>2. QED
        BY <1>2, <1>4, <1>5, <2>1, <2>3, <3>1
    <2>4. QED
      BY <2>2, <2>3
  <1>13. QED
    BY <1>6, <1>9, <1>10, <1>11, <1>12 DEF RegistryOK

LEMMA RemoveFdKeeps ==
  ASSUME IndInv, NEW fd \in Fds, RemoveFd(fd)
  PROVE  KernelOK' /\ RegistryOK'
  <1>1. /\ added' = added \ {fd} /\ breach' = breach \ {fd}
        /\ UNCHANGED <<open, opens, file, ready>>
        /\ pool' = Without(pool, fd) /\ interest' = Without(interest, fd)
    BY DEF RemoveFd, Erased, Unwatched, kernel
  <1>2. /\ DOMAIN pool' = DOMAIN pool \ {fd}
        /\ \A g \in DOMAIN pool' : pool'[g] = pool[g]
    BY <1>1, WithoutFacts
  <1>3. /\ DOMAIN interest' = DOMAIN interest \ {fd}
        /\ \A g \in DOMAIN interest' : interest'[g] = interest[g]
    BY <1>1, WithoutFacts
  <1>4. KernelOK'
    BY <1>1 DEF IndInv, KernelOK
  <1>5. Mapped'
    BY <1>1, <1>2, <1>3 DEF IndInv, RegistryOK, Mapped
  <1>6. RegistryInStep' /\ Watched'
    BY <1>1, <1>2, <1>3 DEF IndInv, RegistryOK, RegistryInStep, Watched
  <1>7. MasksHandled' /\ InterestHasHandler'
    BY <1>1, <1>2, <1>3
       DEF IndInv, RegistryOK, RegistryInStep, MasksHandled, InterestHasHandler
  <1>8. QED
    BY <1>4, <1>5, <1>6, <1>7 DEF RegistryOK

(* The mask becomes that of the registered event, or empty.                 *)
LEMMA ModifyFdKeeps ==
  ASSUME IndInv, NEW fd \in Fds, NEW request \in Requests, ModifyFd(fd, request)
  PROVE  KernelOK' /\ RegistryOK'
  <1> DEFINE mask == ModifiedMask(fd, request)
  <1>1. /\ fd \in DOMAIN pool /\ EpollModify(fd, mask)
        /\ UNCHANGED <<open, opens, file, ready, pool, added, breach>>
    BY DEF ModifyFd, kernel, history
  <1>2. mask \in {pool[fd].mask, {}}
    BY DEF ModifiedMask
  <1>3. mask \in SUBSET Directions /\ \A d \in mask : HandlerFor[d] \in pool[fd].handlers
    BY <1>1, <1>2 DEF IndInv, RegistryOK, Mapped, MasksHandled, Event
  <1> HIDE DEF mask
  <1>4. /\ DOMAIN interest' = DOMAIN interest
        /\ fd \in DOMAIN interest => interest'[fd] = mask
        /\ \A g \in DOMAIN interest : g # fd => interest'[g] = interest[g]
    BY <1>1, EpollModifyFacts
  <1>5. KernelOK'
    BY <1>1 DEF IndInv, KernelOK
  <1>6. Mapped'
    BY <1>1, <1>3, <1>4 DEF IndInv, RegistryOK, Mapped
  <1>7. RegistryInStep' /\ Watched' /\ MasksHandled'
    BY <1>1, <1>4 DEF IndInv, RegistryOK, RegistryInStep, Watched, MasksHandled
  <1>8. InterestHasHandler'
    BY <1>1, <1>3, <1>4 DEF IndInv, RegistryOK, InterestHasHandler
  <1>9. QED
    BY <1>5, <1>6, <1>7, <1>8 DEF RegistryOK

LEMMA WatchKeeps ==
  ASSUME IndInv, NEW fd \in Fds, Watch(fd)
  PROVE  KernelOK' /\ RegistryOK'
  <1>a. PICK handlers \in {{"read"}, Handlers} :
          pool' = With(pool, fd, [file |-> file[fd], handlers |-> handlers,
                                  mask |-> {"in"}])
    BY DEF Watch
  <1> DEFINE event == [file |-> file[fd], handlers |-> handlers, mask |-> {"in"}]
  <1>1. /\ fd \in open /\ fd \notin DOMAIN pool
        /\ added' = added \cup {fd} /\ breach' = breach
        /\ UNCHANGED <<open, opens, file, ready>>
        /\ pool' = With(pool, fd, event)
        /\ interest' = With(interest, fd, {"in"})
    BY <1>a DEF Watch, kernel
  <1>2. /\ file[fd] \in 0..MaxOpens
        /\ event \in Event /\ event.file = file[fd]
    BY <1>1, EventDispatchAssumption
       DEF IndInv, KernelOK, Event, Directions, Handlers
  <1>3. HandlerFor["in"] \in event.handlers /\ event.mask = {"in"}
    BY DEF HandlerFor, Handlers
  <1> HIDE DEF event
  <1>4. /\ DOMAIN pool' = DOMAIN pool \cup {fd} /\ pool'[fd] = event
        /\ \A g \in DOMAIN pool : g # fd => pool'[g] = pool[g]
    BY <1>1 DEF With
  <1>5. /\ DOMAIN interest' = DOMAIN interest \cup {fd} /\ interest'[fd] = {"in"}
        /\ \A g \in DOMAIN interest : g # fd => interest'[g] = interest[g]
    BY <1>1 DEF With
  <1>6. KernelOK'
    BY <1>1 DEF IndInv, KernelOK
  <1>7. Mapped'
    BY <1>1, <1>2, <1>4, <1>5 DEF IndInv, RegistryOK, Mapped, Directions
  <1>8. RegistryInStep' /\ Watched'
    BY <1>1, <1>2, <1>4, <1>5
       DEF IndInv, RegistryOK, Mapped, RegistryInStep, Watched
  <1>9. MasksHandled' /\ InterestHasHandler'
    BY <1>1, <1>3, <1>4, <1>5
       DEF IndInv, RegistryOK, RegistryInStep, MasksHandled, InterestHasHandler
  <1>10. QED
    BY <1>6, <1>7, <1>8, <1>9 DEF RegistryOK

LEMMA SetMaskKeeps ==
  ASSUME IndInv, NEW fd \in Fds, NEW mask \in Masks, SetMask(fd, mask)
  PROVE  KernelOK' /\ RegistryOK'
  <1>1. /\ fd \in DOMAIN pool /\ pool[fd].handlers = Handlers
        /\ pool' = [pool EXCEPT ![fd].mask = mask] /\ EpollModify(fd, mask)
        /\ UNCHANGED <<open, opens, file, ready, added, breach>>
    BY DEF SetMask, kernel, history
  <1>2. mask \in SUBSET Directions /\ \A d \in mask : HandlerFor[d] \in Handlers
    BY EventDispatchAssumption DEF HandlerFor, Handlers, Directions
  <1>3. pool[fd] \in Event
    BY <1>1 DEF IndInv, RegistryOK, Mapped
  <1>4. /\ DOMAIN pool' = DOMAIN pool
        /\ \A g \in DOMAIN pool : g # fd => pool'[g] = pool[g]
        /\ pool'[fd] = [pool[fd] EXCEPT !.mask = mask]
    BY <1>1
  <1>5. /\ pool'[fd] \in Event /\ pool'[fd].mask = mask
        /\ pool'[fd].handlers = Handlers /\ pool'[fd].file = pool[fd].file
    BY <1>1, <1>2, <1>3, <1>4 DEF Event
  <1>6. /\ DOMAIN interest' = DOMAIN interest
        /\ fd \in DOMAIN interest => interest'[fd] = mask
        /\ \A g \in DOMAIN interest : g # fd => interest'[g] = interest[g]
    BY <1>1, EpollModifyFacts
  <1>7. KernelOK'
    BY <1>1 DEF IndInv, KernelOK
  <1>8. Mapped'
    BY <1>1, <1>2, <1>4, <1>5, <1>6 DEF IndInv, RegistryOK, Mapped
  <1>9. RegistryInStep' /\ Watched'
    BY <1>1, <1>4, <1>5, <1>6 DEF IndInv, RegistryOK, RegistryInStep, Watched
  <1>10. MasksHandled'
    BY <1>2, <1>4, <1>5 DEF IndInv, RegistryOK, MasksHandled
  <1>11. InterestHasHandler'
    BY <1>1, <1>2, <1>4, <1>5, <1>6
       DEF IndInv, RegistryOK, RegistryInStep, InterestHasHandler
  <1>12. QED
    BY <1>7, <1>8, <1>9, <1>10, <1>11 DEF RegistryOK

-----------------------------------------------------------------------------
(* The loop.                                                               *)

LEMMA WaitKeeps ==
  ASSUME IndInv, Wait
  PROVE  DispatchOK'
  <1>1. PICK fds \in SUBSET Active :
          \E order \in SetToSeqs(fds) :
            batch' = [i \in DOMAIN order |-> [fd |-> order[i],
                                              revents |-> Reported(order[i])]]
    BY DEF Wait
  <1>2. PICK order \in SetToSeqs(fds) :
          batch' = [i \in DOMAIN order |-> [fd |-> order[i],
                                            revents |-> Reported(order[i])]]
    BY <1>1
  <1>3. fds \subseteq Fds /\ Cardinality(fds) \in Nat
    BY FS_Subset, FS_CardinalityType, EventDispatchAssumption DEF Active
  <1>4. order \in [1..Cardinality(fds) -> fds]
    BY <1>2 DEF SetToSeqs
  <1>5. ASSUME NEW fd \in Fds
        PROVE  Reported(fd) \in SUBSET UNION Conditions
    BY <1>5 DEF Reported, IndInv, KernelOK
  <1>6. batch' \in [1..Cardinality(fds) -> Reports]
    BY <1>2, <1>3, <1>4, <1>5 DEF Reports
  <1>7. batch' \in Seq(Reports)
    BY <1>3, <1>6
  <1>8. QED
    BY <1>7 DEF Wait, IndInv, DispatchOK

LEMMA HandleKeeps ==
  ASSUME IndInv, Handle
  PROVE  DispatchOK'
  <1> DEFINE active == Head(batch)
             calls == Calls(active.revents, pool[active.fd].handlers)
  <1>1. /\ loop = "dispatch" /\ batch # <<>> /\ active.fd \in DOMAIN pool
        /\ todo' = calls /\ batch' = Tail(batch)
        /\ \/ calls = <<>> /\ loop' = loop /\ current' = current
           \/ /\ calls # <<>> /\ loop' = "callback"
              /\ current' = <<active.fd, pool[active.fd].file>>
    BY DEF Handle
  <1>2. batch' \in Seq(Reports)
    BY <1>1, HeadTailProperties DEF IndInv, DispatchOK
  <1>3. active.fd \in Fds /\ pool[active.fd] \in Event
    BY <1>1 DEF IndInv, RegistryOK, Mapped
  <1>4. pool[active.fd].handlers \in SUBSET Handlers /\ pool[active.fd].file \in 0..MaxOpens
    BY <1>3 DEF Event
  <1>5. calls \in Seq(Handlers)
    BY <1>4, CallsTyped
  <1> HIDE DEF calls, active
  <1>6. QED
    BY <1>1, <1>2, <1>3, <1>4, <1>5 DEF IndInv, DispatchOK

LEMMA CallbackReturnsKeeps ==
  ASSUME IndInv, CallbackReturns
  PROVE  DispatchOK'
  <1>1. todo # <<>> /\ todo \in Seq(Handlers)
    BY DEF IndInv, DispatchOK, CallbackReturns
  <1>2. todo' \in Seq(Handlers) /\ Len(todo') = Len(todo) - 1 /\ Len(todo) \in Nat
    BY <1>1, HeadTailProperties DEF CallbackReturns
  <1>3. Len(todo) > 1 => todo' # <<>>
    BY <1>2
  <1>4. QED
    BY <1>2, <1>3 DEF IndInv, DispatchOK, CallbackReturns

(* Whoever is not in the registry is not in the epoll instance either.      *)
LEMMA HandleRemovedKeeps ==
  ASSUME IndInv, HandleRemoved
  PROVE  IndInv'
  <1> USE DEF HandleRemoved, kernel, history
  <1>1. KernelOK'
    BY DEF IndInv, KernelOK
  <1>2. Head(batch).fd \notin DOMAIN interest
    BY DEF IndInv, RegistryOK, RegistryInStep
  <1>3. /\ DOMAIN interest' = DOMAIN interest
        /\ \A g \in DOMAIN interest : interest'[g] = interest[g]
    BY <1>2 DEF Without, Restrict
  <1>4. RegistryOK'
    BY <1>3 DEF IndInv, RegistryOK, Mapped, RegistryInStep, Watched, MasksHandled,
                InterestHasHandler
  <1>5. DispatchOK'
    BY HeadTailProperties DEF IndInv, DispatchOK
  <1>6. QED
    BY <1>1, <1>4, <1>5 DEF IndInv

LEMMA DispatchUnchanged ==
  ASSUME IndInv, UNCHANGED dispatch
  PROVE  DispatchOK'
  BY DEF IndInv, DispatchOK, dispatch

LEMMA RegistryUnchanged ==
  ASSUME IndInv, UNCHANGED <<kernel, registry, history>>
  PROVE  KernelOK' /\ RegistryOK'
  BY DEF IndInv, KernelOK, RegistryOK, Mapped, RegistryInStep, Watched,
         MasksHandled, InterestHasHandler, kernel, registry, history

LEMMA Inductive == IndInv /\ [Next]_vars => IndInv'
  <1> SUFFICES ASSUME IndInv, [Next]_vars PROVE IndInv'
    OBVIOUS
  <1>1. CASE Wait
    BY <1>1, WaitKeeps, RegistryUnchanged DEF Wait, IndInv
  <1>2. CASE Handle
    BY <1>2, HandleKeeps, RegistryUnchanged DEF Handle, IndInv
  <1>3. CASE HandleRemoved
    BY <1>3, HandleRemovedKeeps
  <1>4. CASE CallbackReturns
    BY <1>4, CallbackReturnsKeeps, RegistryUnchanged DEF CallbackReturns, IndInv
  <1>5. CASE BatchDone
    <2>1. DispatchOK'
      BY <1>5 DEF BatchDone, IndInv, DispatchOK
    <2>2. QED
      BY <1>5, <2>1, RegistryUnchanged DEF BatchDone, IndInv
  <1>6. ASSUME NEW fd \in Fds, OpenFile(fd) \/ CloseFile(fd) \/ ConditionChanges(fd)
        PROVE  IndInv'
    <2>1. KernelOK' /\ RegistryOK'
      BY <1>6, OpenFileKeeps, CloseFileKeeps, ConditionChangesKeeps
    <2>2. DispatchOK'
      BY <1>6, DispatchUnchanged DEF OpenFile, CloseFile, ConditionChanges
    <2>3. QED
      BY <2>1, <2>2 DEF IndInv
  <1>7. ASSUME NEW fd \in Fds, RemoveFd(fd) \/ Watch(fd)
        PROVE  IndInv'
    <2>1. KernelOK' /\ RegistryOK'
      BY <1>7, RemoveFdKeeps, WatchKeeps
    <2>2. DispatchOK'
      BY <1>7, DispatchUnchanged DEF RemoveFd, Watch
    <2>3. QED
      BY <2>1, <2>2 DEF IndInv
  <1>8. ASSUME NEW fd \in Fds, NEW request \in Requests,
               AddFd(fd, request) \/ ModifyFd(fd, request)
        PROVE  IndInv'
    <2>1. KernelOK' /\ RegistryOK'
      BY <1>8, AddFdKeeps, ModifyFdKeeps
    <2>2. DispatchOK'
      BY <1>8, DispatchUnchanged DEF AddFd, ModifyFd
    <2>3. QED
      BY <2>1, <2>2 DEF IndInv
  <1>9. ASSUME NEW fd \in Fds, NEW mask \in Masks, SetMask(fd, mask)
        PROVE  IndInv'
    <2>1. KernelOK' /\ RegistryOK'
      BY <1>9, SetMaskKeeps
    <2>2. DispatchOK'
      BY <1>9, DispatchUnchanged DEF SetMask
    <2>3. QED
      BY <2>1, <2>2 DEF IndInv
  <1>10. CASE UNCHANGED vars
    BY <1>10, DispatchUnchanged, RegistryUnchanged
       DEF vars, IndInv, kernel, registry, dispatch, history
  <1>11. QED
    BY <1>1, <1>2, <1>3, <1>4, <1>5, <1>6, <1>7, <1>8, <1>9, <1>10
       DEF Next, LoopStep

LEMMA Invariance == Spec => []IndInv
  BY Initially, Inductive, PTL DEF Spec

-----------------------------------------------------------------------------

(* The kernel's table, the registry, the epoll instance and the batch keep  *)
(* their types.                                                             *)
THEOREM Typing == Spec => []TypeOK
  BY Invariance, IndInvTyped, PTL

(* Everything epoll may report is registered, and what is registered by     *)
(* users who remove before they close is the file open under its number.    *)
THEOREM RegistryKept == Spec => []RegistryInStep
  <1>1. IndInv => RegistryInStep
    BY DEF IndInv, RegistryOK
  <1>2. QED
    BY <1>1, Invariance, PTL

(* Whatever is added, modified and removed in whichever order, epoll is     *)
(* asked only for what has a callback.                                      *)
THEOREM InterestHandled == Spec => []InterestHasHandler
  <1>1. IndInv => InterestHasHandler
    BY DEF IndInv, RegistryOK
  <1>2. QED
    BY <1>1, Invariance, PTL

(* No batch leads to a callback for a file that is gone.                    *)
THEOREM OpenFilesHandled == Spec => HandlesOpenFile
  <1> DEFINE ForOpenFile ==
        (loop = "dispatch" /\ loop' = "callback") =>
          LET fd == current'[1]
          IN  fd \in breach \/ (fd \in open /\ current'[2] = file[fd])
  <1>1. ASSUME IndInv, Next, loop = "dispatch", loop' = "callback"
        PROVE  Handle
    BY <1>1
       DEF Next, LoopStep, Wait, HandleRemoved, CallbackReturns, BatchDone,
           OpenFile, CloseFile, ConditionChanges, RemoveFd, Watch, AddFd,
           ModifyFd, SetMask, UserCode, dispatch
  <1>2. ASSUME IndInv, Handle, loop' = "callback"
        PROVE  ForOpenFile
    <2> DEFINE fd == Head(batch).fd
    <2>1. fd \in DOMAIN pool /\ current' = <<fd, pool[fd].file>>
      BY <1>2 DEF Handle
    <2>2. fd \in breach \/ (fd \in open /\ pool[fd].file = file[fd])
      BY <1>2, <2>1 DEF IndInv, RegistryOK, RegistryInStep
    <2> HIDE DEF fd
    <2>3. current'[1] = fd /\ current'[2] = pool[fd].file
      BY <2>1
    <2>4. QED
      BY <2>2, <2>3
  <1>3. IndInv /\ [Next]_vars => [ForOpenFile]_vars
    BY <1>1, <1>2
  <1>4. QED
    BY <1>3, Invariance, PTL DEF Spec, HandlesOpenFile

-----------------------------------------------------------------------------
(* No descriptor waits behind others for its turn in a batch.              *)

(* The room that waitAndRunHandler gives epoll_wait, an entry for every     *)
(* registered event, is enough for all that is ready.                       *)
LEMMA RoomForAll ==
  ASSUME IndInv
  PROVE  /\ IsFiniteSet(Active)
         /\ Cardinality(Active) \in Nat
         /\ Min({Capacity, Cardinality(Active)}) = Cardinality(Active)
  <1>1. Active \subseteq DOMAIN pool
    BY DEF Active, Reported, IndInv, RegistryOK, RegistryInStep
  <1>2. IsFiniteSet(DOMAIN pool)
    BY FS_Subset, EventDispatchAssumption DEF IndInv, RegistryOK, Mapped
  <1>3. IsFiniteSet(Active) /\ Cardinality(Active) <= Capacity
    BY <1>1, <1>2, FS_Subset DEF Capacity
  <1>4. Cardinality(Active) \in Nat /\ Capacity \in Nat
    BY <1>2, <1>3, FS_CardinalityType DEF Capacity
  <1>5. Min({Capacity, Cardinality(Active)}) = Cardinality(Active)
    BY <1>3, <1>4 DEF Min
  <1>6. QED
    BY <1>3, <1>4, <1>5

(* A sequence of as many elements as a finite set has, none of them twice,  *)
(* has them all.                                                            *)
LEMMA OrderHasAll ==
  ASSUME NEW S, IsFiniteSet(S), NEW order \in SetToSeqs(S), NEW x \in S
  PROVE  \E i \in DOMAIN order : order[i] = x
  <1> DEFINE D == 1..Cardinality(S)
  <1>1. Cardinality(S) \in Nat
    BY FS_CardinalityType
  <1>2. IsFiniteSet(D) /\ Cardinality(D) = Cardinality(S)
    BY <1>1, FS_Interval
  <1>3. order \in Injection(D, S)
    BY DEF SetToSeqs, Injection, IsInjective
  <1>4. order \in Surjection(D, S)
    BY <1>2, <1>3, FS_Injection
  <1>5. QED
    BY <1>4 DEF Surjection

(* A poll that reports anything reports everything that is ready, with all  *)
(* that is true of it: activeEvents is resized to the registry's size,      *)
(* which is no less than the number of descriptors epoll watches            *)
(* (eventCtrl.cpp:83).                                                      *)
ReportsAll ==
  [][(loop = "wait" /\ loop' = "dispatch") =>
       \A fd \in Active : \E i \in DOMAIN batch' :
         batch'[i] = [fd |-> fd, revents |-> Reported(fd)]]_vars

THEOREM EveryReadyReported == Spec => ReportsAll
  <1> DEFINE Complete ==
        (loop = "wait" /\ loop' = "dispatch") =>
          \A fd \in Active : \E i \in DOMAIN batch' :
            batch'[i] = [fd |-> fd, revents |-> Reported(fd)]
  <1>1. ASSUME Next, loop = "wait", loop' = "dispatch"
        PROVE  Wait
    BY <1>1
       DEF Next, LoopStep, Handle, HandleRemoved, CallbackReturns, BatchDone,
           OpenFile, CloseFile, ConditionChanges, RemoveFd, Watch, AddFd,
           ModifyFd, SetMask, dispatch
  <1>2. ASSUME IndInv, Wait, NEW fd \in Active
        PROVE  \E i \in DOMAIN batch' :
                 batch'[i] = [fd |-> fd, revents |-> Reported(fd)]
    <2>1. PICK fds \in SUBSET Active :
            /\ Cardinality(fds) = Min({Capacity, Cardinality(Active)})
            /\ \E order \in SetToSeqs(fds) :
                 batch' = [i \in DOMAIN order |-> [fd |-> order[i],
                                                   revents |-> Reported(order[i])]]
      BY <1>2 DEF Wait
    <2>2. fds = Active
      BY <1>2, <2>1, RoomForAll, FS_Subset
    <2>3. PICK order \in SetToSeqs(Active) :
            batch' = [i \in DOMAIN order |-> [fd |-> order[i],
                                              revents |-> Reported(order[i])]]
      BY <2>1, <2>2
    <2>4. PICK i \in DOMAIN order : order[i] = fd
      BY <1>2, RoomForAll, OrderHasAll
    <2>5. QED
      BY <2>3, <2>4
  <1>3. IndInv /\ [Next]_vars => [Complete]_vars
    BY <1>1, <1>2
  <1>4. QED
    BY <1>3, Invariance, PTL DEF Spec, ReportsAll
=============================================================================
