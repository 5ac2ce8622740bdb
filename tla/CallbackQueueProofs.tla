------------------------- MODULE CallbackQueueProofs -------------------------
(***************************************************************************)
(* Theorems about CallbackQueue, for every set of threads and callbacks    *)
(* and every bound.  Typing comes first; the order of the callbacks, the   *)
(* wake-up and the refinement each rest on it and on two lemmas about      *)
(* sequences.                                                              *)
(***************************************************************************)
EXTENDS CallbackQueue, SequenceTheorems, TLAPS

-----------------------------------------------------------------------------
(* Lemmas about sequences.                                                 *)

(* What is appended to the second of two lists is appended to both.        *)
LEMMA AppendToConcat ==
  ASSUME NEW S, NEW s \in Seq(S), NEW t \in Seq(S), NEW e \in S
  PROVE  s \o Append(t, e) = Append(s \o t, e)
  <1>1. <<e>> \in Seq(S)
    OBVIOUS
  <1>2. s \o t \in Seq(S)
    BY ConcatProperties
  <1>3. Append(t, e) = t \o <<e>> /\ Append(s \o t, e) = (s \o t) \o <<e>>
    BY <1>2, AppendIsConcat
  <1>4. QED
    BY <1>1, <1>3, ConcatAssociative

(* A list that is not empty is its head followed by its tail.              *)
LEMMA HeadThenTail ==
  ASSUME NEW S, NEW s \in Seq(S), s # <<>>
  PROVE  <<Head(s)>> \o Tail(s) = s
  <1>1. Head(s) \in S /\ Tail(s) \in Seq(S)
    BY HeadTailProperties
  <1>2. Len(s) \in Nat \ {0}
    BY EmptySeq
  <1>3. SubSeq(s, 1, Len(s)) = <<s[1]>> \o SubSeq(s, 1 + 1, Len(s))
    BY <1>2, SubSeqRecursiveFirst
  <1>4. SubSeq(s, 1, Len(s)) = s /\ Tail(s) = SubSeq(s, 2, Len(s))
    BY SubSeqFull, TailIsSubSeq
  <1>5. QED
    BY <1>3, <1>4, <1>2

(* Moving the head of one list to the end of another changes nothing in    *)
(* their concatenation.                                                    *)
LEMMA MoveHead ==
  ASSUME NEW S, NEW s \in Seq(S), NEW t \in Seq(S), t # <<>>
  PROVE  Append(s, Head(t)) \o Tail(t) = s \o t
  <1>1. Head(t) \in S /\ Tail(t) \in Seq(S) /\ <<Head(t)>> \in Seq(S)
    BY HeadTailProperties
  <1>2. Append(s, Head(t)) = s \o <<Head(t)>>
    BY <1>1, AppendIsConcat
  <1>3. (s \o <<Head(t)>>) \o Tail(t) = s \o (<<Head(t)>> \o Tail(t))
    BY <1>1, ConcatAssociative
  <1>4. QED
    BY <1>2, <1>3, HeadThenTail

(* The head and the tail of a concatenation are those of its first part.   *)
LEMMA HeadTailOfConcat ==
  ASSUME NEW S, NEW s \in Seq(S), NEW t \in Seq(S), s # <<>>
  PROVE  /\ s \o t # <<>>
         /\ Head(s \o t) = Head(s)
         /\ Tail(s \o t) = Tail(s) \o t
  <1>1. Len(s) \in Nat \ {0} /\ Len(t) \in Nat
    BY EmptySeq, LenProperties
  <1>2. /\ s \o t \in Seq(S)
        /\ Len(s \o t) = Len(s) + Len(t)
        /\ \A i \in 1..(Len(s) + Len(t)) :
             (s \o t)[i] = IF i <= Len(s) THEN s[i] ELSE t[i - Len(s)]
    BY ConcatProperties
  <1>3. s \o t # <<>>
    BY <1>1, <1>2, EmptySeq
  <1>4. Head(s \o t) = Head(s)
    BY <1>1, <1>2
  <1>5. /\ Tail(s) \in Seq(S)
        /\ Len(Tail(s)) = Len(s) - 1
        /\ \A i \in 1..Len(Tail(s)) : Tail(s)[i] = s[i + 1]
    BY HeadTailProperties
  <1>6. /\ Tail(s \o t) \in Seq(S)
        /\ Len(Tail(s \o t)) = Len(s) + Len(t) - 1
        /\ \A i \in 1..Len(Tail(s \o t)) : Tail(s \o t)[i] = (s \o t)[i + 1]
    BY <1>2, <1>3, HeadTailProperties
  <1>7. /\ Tail(s) \o t \in Seq(S)
        /\ Len(Tail(s) \o t) = Len(s) - 1 + Len(t)
        /\ \A i \in 1..(Len(s) - 1 + Len(t)) :
             (Tail(s) \o t)[i] = IF i <= Len(s) - 1 THEN Tail(s)[i]
                                                    ELSE t[i - (Len(s) - 1)]
    BY <1>5, ConcatProperties
  <1>8. Tail(s \o t) = Tail(s) \o t
    <2>1. \A i \in 1..Len(Tail(s \o t)) : Tail(s \o t)[i] = (Tail(s) \o t)[i]
      BY <1>1, <1>2, <1>5, <1>6, <1>7
    <2>2. Len(Tail(s \o t)) = Len(Tail(s) \o t)
      BY <1>1, <1>6, <1>7
    <2>3. QED
      BY <1>6, <1>7, <2>1, <2>2, SeqEqual
  <1>9. QED
    BY <1>3, <1>4, <1>8

-----------------------------------------------------------------------------
(* The theorems.                                                           *)

(* Every variable keeps its type: in particular the eventfd never passes   *)
(* its limit, and post() never lets an empty function into the list        *)
(* (eventfd.cpp:51-55).                                                    *)
THEOREM Typing == Spec => []TypeOK
  <1>1. Init => TypeOK
    BY CallbackQueueAssumption DEF Init, TypeOK
  <1>2. ASSUME TypeOK, [Next]_vars
        PROVE  TypeOK'
    <2> USE <1>2 DEF TypeOK
    <2>1. ASSUME NEW t \in Threads, PushBack(t)
          PROVE  TypeOK'
      BY <2>1 DEF PushBack, Postable, Pushed
    <2>2. ASSUME NEW t \in Threads, WriteEventFd(t)
          PROVE  TypeOK'
      BY <2>2, CallbackQueueAssumption DEF WriteEventFd
    <2>3. CASE Wake
      BY <2>3 DEF Wake
    <2>4. CASE ReadEventFd
      BY <2>4, CallbackQueueAssumption DEF ReadEventFd
    <2>5. CASE PopAll
      BY <2>5 DEF PopAll
    <2>6. CASE ExecuteFirst
      <3>1. Head(batch) \in Callback /\ Tail(batch) \in Seq(Callback)
        BY <2>6, HeadTailProperties DEF ExecuteFirst
      <3>2. Append(executed, Head(batch)) \in Seq(Callback)
        BY <3>1
      <3>3. QED
        BY <2>6, <3>1, <3>2 DEF ExecuteFirst
    <2>7. CASE CallbackReturns
      BY <2>7 DEF CallbackReturns
    <2>8. CASE RoundDone
      BY <2>8 DEF RoundDone
    <2>9. CASE UNCHANGED vars
      BY <2>9 DEF vars
    <2>10. QED
      BY <2>1, <2>2, <2>3, <2>4, <2>5, <2>6, <2>7, <2>8, <2>9
         DEF Next, LoopStep
  <1>3. QED
    BY <1>1, <1>2, PTL DEF Spec

(* The order of the callbacks is inductive only together with the fact     *)
(* that the loop's local list is empty between two rounds: atomicPopAll    *)
(* would otherwise overwrite what is still in it.                          *)
OrderInv == /\ ExactlyOnceInOrder
            /\ loop \in {"wait", "ready", "pop"} => batch = <<>>

LEMMA OrderInvHolds == Spec => []OrderInv
  <1>1. Init => OrderInv
    BY DEF Init, OrderInv, ExactlyOnceInOrder
  <1>2. ASSUME TypeOK, OrderInv, [Next]_vars
        PROVE  OrderInv'
    <2> USE <1>2 DEF OrderInv, ExactlyOnceInOrder, LoopIsAt
    <2>0. /\ callbacks \in Seq(Callback) /\ batch \in Seq(Callback)
          /\ executed \in Seq(Callback)
          /\ executed \o batch \in Seq(Callback)
      BY ConcatProperties DEF TypeOK
    <2>1. ASSUME NEW t \in Threads, PushBack(t)
          PROVE  OrderInv'
      <3>1. PICK c \in Callback : /\ callbacks' = Append(callbacks, c)
                                  /\ posted' = Append(posted, c)
        BY <2>1 DEF PushBack, Postable, Pushed
      <3>2. (executed \o batch) \o Append(callbacks, c)
              = Append((executed \o batch) \o callbacks, c)
        BY <2>0, AppendToConcat
      <3>3. QED
        BY <2>1, <3>1, <3>2 DEF PushBack
    <2>2. ASSUME NEW t \in Threads, WriteEventFd(t)
          PROVE  OrderInv'
      BY <2>2 DEF WriteEventFd
    <2>3. CASE Wake
      BY <2>3 DEF Wake
    <2>4. CASE ReadEventFd
      BY <2>4 DEF ReadEventFd
    <2>5. CASE PopAll
      <3>1. batch = <<>> /\ batch' = callbacks /\ callbacks' = <<>>
        BY <2>5 DEF PopAll
      <3>2. (executed \o batch) \o callbacks = (executed \o callbacks) \o <<>>
        <4>1. executed \o batch = executed
          BY <2>0, <3>1, ConcatEmptySeq
        <4>2. executed \o callbacks \in Seq(Callback)
          BY <2>0, ConcatProperties
        <4>3. QED
          BY <4>1, <4>2, ConcatEmptySeq
      <3>3. QED
        BY <2>5, <3>1, <3>2 DEF PopAll
    <2>6. CASE ExecuteFirst
      <3>1. Append(executed, Head(batch)) \o Tail(batch) = executed \o batch
        BY <2>0, <2>6, MoveHead DEF ExecuteFirst
      <3>2. QED
        BY <2>6, <3>1 DEF ExecuteFirst
    <2>7. CASE CallbackReturns
      BY <2>7 DEF CallbackReturns
    <2>8. CASE RoundDone
      BY <2>8 DEF RoundDone
    <2>9. CASE UNCHANGED vars
      BY <2>9 DEF vars
    <2>10. QED
      BY <2>1, <2>2, <2>3, <2>4, <2>5, <2>6, <2>7, <2>8, <2>9
         DEF Next, LoopStep
  <1>3. QED
    BY <1>1, <1>2, Typing, PTL DEF Spec

(* Nothing posted is lost, doubled or overtaken, however the posters'      *)
(* critical sections fall between the loop's (eventfd.cpp:61-97).          *)
THEOREM OrderKept == Spec => []ExactlyOnceInOrder
  <1>1. OrderInv => ExactlyOnceInOrder
    BY DEF OrderInv
  <1>2. QED
    BY <1>1, OrderInvHolds, PTL

(* A callback in the shared list always has a wake-up on its way: the      *)
(* eventfd is read before the list is taken, never after                   *)
(* (eventfd.cpp:56-58 and 76-81).                                          *)
THEOREM WakeUpPending == Spec => []NoLostWakeUp
  <1>1. Init => NoLostWakeUp
    BY DEF Init, NoLostWakeUp
  <1>2. ASSUME TypeOK, NoLostWakeUp, [Next]_vars
        PROVE  NoLostWakeUp'
    <2> USE <1>2 DEF NoLostWakeUp, LoopIsAt
    <2>1. ASSUME NEW t \in Threads, PushBack(t)
          PROVE  NoLostWakeUp'
      <3>1. poster'[t] = "pushed"
        BY <2>1 DEF PushBack, TypeOK
      <3>2. QED
        BY <3>1
    <2>2. ASSUME NEW t \in Threads, WriteEventFd(t)
          PROVE  NoLostWakeUp'
      <3>1. counter' > 0
        BY <2>2, CallbackQueueAssumption DEF WriteEventFd, TypeOK
      <3>2. QED
        BY <3>1
    <2>3. CASE Wake
      BY <2>3 DEF Wake
    <2>4. CASE ReadEventFd
      BY <2>4 DEF ReadEventFd
    <2>5. CASE PopAll
      BY <2>5 DEF PopAll
    <2>6. CASE ExecuteFirst
      BY <2>6 DEF ExecuteFirst
    <2>7. CASE CallbackReturns
      BY <2>7 DEF CallbackReturns
    <2>8. CASE RoundDone
      BY <2>8 DEF RoundDone
    <2>9. CASE UNCHANGED vars
      BY <2>9 DEF vars
    <2>10. QED
      BY <2>1, <2>2, <2>3, <2>4, <2>5, <2>6, <2>7, <2>8, <2>9
         DEF Next, LoopStep
  <1>3. QED
    BY <1>1, <1>2, Typing, PTL DEF Spec

(* A round runs exactly what atomicPopAll swapped out: callbacks posted    *)
(* while it runs wait for the next one (eventfd.cpp:83-90).                *)
THEOREM RoundsAreClosed == Spec => RoundIsClosed
  <1>1. ASSUME TypeOK, [Next]_vars, loop \in {"next", "running"}
        PROVE  Len(executed') + Len(batch') = Len(executed) + Len(batch)
    <2> USE <1>1 DEF LoopIsAt
    <2>1. CASE ExecuteFirst
      <3>1. Len(batch) \in Nat \ {0} /\ Len(executed) \in Nat
        BY <2>1, EmptySeq, LenProperties DEF ExecuteFirst, TypeOK
      <3>2. Head(batch) \in Callback /\ Len(Tail(batch)) = Len(batch) - 1
        BY <2>1, HeadTailProperties DEF ExecuteFirst, TypeOK
      <3>3. Len(Append(executed, Head(batch))) = Len(executed) + 1
        BY <3>2, AppendProperties DEF TypeOK
      <3>4. QED
        BY <2>1, <3>1, <3>2, <3>3 DEF ExecuteFirst
    <2>2. CASE ~ExecuteFirst
      <3>1. UNCHANGED <<executed, batch>>
        BY <2>2 DEF Next, LoopStep, vars, PushBack, WriteEventFd, Wake,
                    ReadEventFd, PopAll, CallbackReturns, RoundDone
      <3>2. QED
        BY <3>1
    <2>3. QED
      BY <2>1, <2>2
  <1>2. QED
    BY <1>1, Typing, PTL DEF Spec, RoundIsClosed

-----------------------------------------------------------------------------

(* The queue implements the service: pushing is the service's Post,        *)
(* popAndExecuteFirstCallback its Run, and everything else, the swap of    *)
(* the lists above all, changes nothing the service's users can see.       *)
THEOREM QueueImplementsService == Spec => ImplementsService
  <1>1. Init => Service!Init
    <2>1. <<>> \o <<>> = <<>>
      BY EmptySeq, ConcatEmptySeq
    <2>2. QED
      BY <2>1 DEF Init, Service!Init
  <1>2. ASSUME TypeOK, OrderInv, [Next]_vars
        PROVE  [Service!Next]_Service!vars
    <2> USE <1>2 DEF LoopIsAt
    <2>0. callbacks \in Seq(Callback) /\ batch \in Seq(Callback)
      BY DEF TypeOK
    <2>1. ASSUME NEW t \in Threads, PushBack(t)
          PROVE  Service!Post
      <3>1. PICK c \in Callback : callbacks' = Append(callbacks, c)
        BY <2>1 DEF PushBack, Postable, Pushed
      <3>2. batch \o Append(callbacks, c) = Append(batch \o callbacks, c)
        BY <2>0, AppendToConcat
      <3>3. QED
        BY <2>1, <3>1, <3>2 DEF PushBack, Service!Post
    <2>2. ASSUME NEW t \in Threads, WriteEventFd(t)
          PROVE  UNCHANGED Service!vars
      BY <2>2 DEF WriteEventFd, Service!vars
    <2>3. CASE Wake
      BY <2>3 DEF Wake, Service!vars
    <2>4. CASE ReadEventFd
      BY <2>4 DEF ReadEventFd, Service!vars
    <2>5. CASE PopAll
      <3>1. batch = <<>>
        BY <2>5 DEF PopAll, OrderInv
      <3>2. batch \o callbacks = callbacks \o <<>>
        BY <2>0, <3>1, ConcatEmptySeq
      <3>3. QED
        BY <2>5, <3>1, <3>2 DEF PopAll, Service!vars
    <2>6. CASE ExecuteFirst
      <3>1. /\ batch \o callbacks # <<>>
            /\ Head(batch \o callbacks) = Head(batch)
            /\ Tail(batch \o callbacks) = Tail(batch) \o callbacks
        BY <2>0, <2>6, HeadTailOfConcat DEF ExecuteFirst
      <3>2. QED
        BY <2>6, <3>1 DEF ExecuteFirst, Service!Next, Service!Run
    <2>7. CASE CallbackReturns
      BY <2>7 DEF CallbackReturns, Service!vars
    <2>8. CASE RoundDone
      BY <2>8 DEF RoundDone, Service!vars
    <2>9. CASE UNCHANGED vars
      BY <2>9 DEF vars, Service!vars
    <2>10. QED
      BY <2>1, <2>2, <2>3, <2>4, <2>5, <2>6, <2>7, <2>8, <2>9
         DEF Next, LoopStep, Service!Next
  <1>3. QED
    BY <1>1, <1>2, Typing, OrderInvHolds, PTL
       DEF Spec, ImplementsService, Service!Spec
=============================================================================
