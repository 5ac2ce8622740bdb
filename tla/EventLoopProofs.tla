--------------------------- MODULE EventLoopProofs ----------------------------
(***************************************************************************)
(* Theorems about EventLoop, for any number of loops and threads and any   *)
(* numbers of functions.                                                   *)
(***************************************************************************)
EXTENDS EventLoop, SequenceTheorems, FiniteSetTheorems, TLAPS

Numbers == 1..MaxCalls
Numbered(n) == [i \in 1..n |-> i]

(* Inside run() a loop is driven by the thread it belongs to.               *)
Driven ==
  \A l \in Loops : pc[l] \in {"check", "poll", "drain", "clear"} => driver[l] = threadId[l]

(* The vector is only counted through while the mutex is held.              *)
Filled ==
  \A l \in Loops :
    /\ next[l] <= Len(callbacks[l])
    /\ Len(callbacks[l]) <= added[l]
    /\ MutexFree(l) => next[l] = 0
    /\ pc[l] = "clear" => next[l] = Len(callbacks[l])

(* There is room for what threads wait to add.                              *)
Waiting(l) == {u \in Threads : wants[u] = l}
Room == \A l \in Loops : added[l] + Cardinality(Waiting(l)) <= MaxCalls

(* A function run by a drain waits for another loop only, and for one that  *)
(* its own gives functions to.                                              *)
Given ==
  \A t \in Threads, l \in Loops :
    wants[t] # None /\ Drains(t, l) => wants[t] # l /\ <<l, wants[t]>> \in GivesTo

(* OnceInOrder, of one loop's history, vector, position and count.          *)
InOrder(past, vec, n, count) == past \o SubSeq(vec, n + 1, Len(vec)) = Numbered(count)

IndInv ==
  TypeOK /\ Driven /\ Filled /\ Room /\ Given /\ OnceInOrder /\ OnLoopThread

-----------------------------------------------------------------------------
(* The vector.                                                             *)

LEMMA NumberedFacts ==
  ASSUME NEW n \in Nat, n <= MaxCalls
  PROVE  Numbered(n) \in Seq(Numbers) /\ Len(Numbered(n)) = n
  <1>1. Numbered(n) \in [1..n -> Numbers]
    BY EventLoopAssumption DEF Numbered, Numbers
  <1>2. Numbered(n) \in Seq(Numbers)
    BY <1>1, SeqDef
  <1>3. QED
    BY <1>1, <1>2, LenProperties DEF Numbered

(* One more function comes last.                                            *)
LEMMA AddedInOrder ==
  ASSUME NEW past \in Seq(Numbers), NEW vec \in Seq(Numbers), NEW count \in Nat,
         count + 1 <= MaxCalls, InOrder(past, vec, 0, count)
  PROVE  /\ Append(vec, count + 1) \in Seq(Numbers)
         /\ Len(Append(vec, count + 1)) = Len(vec) + 1
         /\ InOrder(past, Append(vec, count + 1), 0, count + 1)
  <1> DEFINE e == count + 1
             longer == Append(vec, e)
  <1>1. e \in Numbers /\ e \in Nat /\ count <= MaxCalls
    BY EventLoopAssumption DEF Numbers
  <1>2. longer \in Seq(Numbers) /\ Len(longer) = Len(vec) + 1 /\ longer = vec \o <<e>>
    BY <1>1, AppendProperties, AppendIsConcat
  <1>3. <<e>> \in Seq(Numbers)
    BY <1>1
  <1>4. past \o vec = Numbered(count)
    BY SubSeqFull DEF InOrder
  <1>5. past \o (vec \o <<e>>) = (past \o vec) \o <<e>>
    <2> HIDE DEF e
    <2>1. QED
      BY <1>3, ConcatAssociative, SMTT(30)
  <1>6. (past \o vec) \o <<e>> = Append(Numbered(count), e)
    BY <1>1, <1>4, NumberedFacts, AppendIsConcat
  <1>7. Append(Numbered(count), e) = Numbered(e)
    <2>1. /\ Numbered(count) \in Seq(Numbers) /\ Len(Numbered(count)) = count
          /\ Numbered(e) \in Seq(Numbers) /\ Len(Numbered(e)) = e
      BY <1>1, NumberedFacts
    <2>2. /\ Append(Numbered(count), e) \in Seq(Numbers)
          /\ Len(Append(Numbered(count), e)) = e
          /\ \A i \in 1..count : Append(Numbered(count), e)[i] = Numbered(count)[i]
          /\ Append(Numbered(count), e)[e] = e
      BY <1>1, <2>1, AppendProperties
    <2>3. \A i \in 1..e : i \in 1..count \/ i = e
      BY <1>1
    <2>4. \A i \in 1..count : Numbered(count)[i] = i
      BY DEF Numbered
    <2>5. \A i \in 1..e : Numbered(e)[i] = i
      BY DEF Numbered
    <2>6. \A i \in 1..e : Append(Numbered(count), e)[i] = Numbered(e)[i]
      BY <2>2, <2>3, <2>4, <2>5
    <2>7. QED
      BY <2>1, <2>2, <2>6, SeqEqual
  <1>8. SubSeq(longer, 0 + 1, Len(longer)) = longer
    BY <1>2, SubSeqFull
  <1>9. QED
    BY <1>2, <1>5, <1>6, <1>7, <1>8 DEF InOrder

(* What a drain calls is the first of what is left.                         *)
LEMMA RanInOrder ==
  ASSUME NEW past \in Seq(Numbers), NEW vec \in Seq(Numbers), NEW count \in Nat,
         NEW n \in Nat, n < Len(vec), InOrder(past, vec, n, count)
  PROVE  /\ Append(past, vec[n + 1]) \in Seq(Numbers)
         /\ InOrder(Append(past, vec[n + 1]), vec, n + 1, count)
  <1> DEFINE e == vec[n + 1]
             rest == SubSeq(vec, n + 2, Len(vec))
  <1>1. /\ Len(vec) \in Nat /\ n + 1 \in 1..Len(vec) /\ Len(vec) \in n + 1..Len(vec)
        /\ n + 1 + 1 = n + 2 /\ n + 2 \in Int
    BY LenProperties
  <1>2. e \in Numbers /\ <<e>> \in Seq(Numbers)
    BY <1>1, ElementOfSeq
  <1>3. rest \in Seq(Numbers)
    <2>1. \A i \in n + 2..Len(vec) : i \in 1..Len(vec)
      BY <1>1
    <2>2. \A i \in n + 2..Len(vec) : vec[i] \in Numbers
      BY <2>1, ElementOfSeq
    <2>3. QED
      BY <1>1, <2>2, SubSeqProperties
  <1>4. SubSeq(vec, n + 1, Len(vec)) = <<e>> \o rest
    BY <1>1, SubSeqRecursiveFirst
  <1>5. Append(past, e) \in Seq(Numbers) /\ Append(past, e) = past \o <<e>>
    BY <1>2, AppendProperties, AppendIsConcat
  <1>6. (past \o <<e>>) \o rest = past \o (<<e>> \o rest)
    <2> HIDE DEF e, rest
    <2>1. QED
      BY <1>2, <1>3, ConcatAssociative, SMTT(30)
  <1>7. QED
    BY <1>1, <1>4, <1>5, <1>6 DEF InOrder

(* A vector that was run to its end may be cleared.                         *)
LEMMA ClearedInOrder ==
  ASSUME NEW past \in Seq(Numbers), NEW vec \in Seq(Numbers), NEW count \in Nat,
         InOrder(past, vec, Len(vec), count)
  PROVE  InOrder(past, <<>>, 0, count)
  <1>1. Len(vec) \in Nat
    BY LenProperties
  <1>2. SubSeq(vec, Len(vec) + 1, Len(vec)) = <<>>
    BY <1>1, SubSeqEmpty
  <1>3. SubSeq(<<>>, 0 + 1, Len(<<>>)) = <<>>
    BY SubSeqEmpty, EmptySeq
  <1>4. QED
    BY <1>2, <1>3 DEF InOrder

-----------------------------------------------------------------------------
(* The stack.                                                              *)

LEMMA Pushed ==
  ASSUME NEW s \in Seq(Loops), NEW l \in Loops
  PROVE  Append(s, l) \in Seq(Loops) /\ Range(Append(s, l)) = Range(s) \cup {l}
  <1>1. <<l>> \in Seq(Loops) /\ Range(<<l>>) = {l}
    BY DEF Range
  <1>2. Append(s, l) \in Seq(Loops) /\ Append(s, l) = s \o <<l>>
    BY AppendProperties, AppendIsConcat
  <1>3. Range(s \o <<l>>) = Range(s) \cup Range(<<l>>)
    BY <1>1, RangeConcatenation
  <1>4. QED
    BY <1>1, <1>2, <1>3

LEMMA Popped ==
  ASSUME NEW s \in Seq(Loops), s # <<>>
  PROVE  LET below == SubSeq(s, 1, Len(s) - 1)
         IN  below \in Seq(Loops) /\ Range(below) \subseteq Range(s)
  <1> DEFINE below == SubSeq(s, 1, Len(s) - 1)
  <1>1. Len(s) \in Nat /\ Len(s) - 1 \in Nat
    BY LenProperties, EmptySeq
  <1>2. \A i \in 1..Len(s) - 1 : i \in 1..Len(s)
    BY <1>1
  <1>3. \A i \in 1..Len(s) - 1 : s[i] \in Loops
    BY <1>2, ElementOfSeq
  <1>4. /\ below \in Seq(Loops)
        /\ Len(below) = IF 1 <= Len(s) - 1 THEN Len(s) - 1 - 1 + 1 ELSE 0
        /\ \A i \in 1..Len(s) - 1 - 1 + 1 : below[i] = s[1 + i - 1]
    BY <1>1, <1>3, SubSeqProperties
  <1>5. Len(below) = Len(s) - 1 /\ \A i \in 1..Len(s) - 1 : below[i] = s[i]
    <2>1. \A k \in Nat : (IF 1 <= k THEN k - 1 + 1 ELSE 0) = k
      OBVIOUS
    <2>2. Len(s) - 1 - 1 + 1 = Len(s) - 1 /\ \A i \in 1..Len(s) - 1 : 1 + i - 1 = i
      BY <1>1
    <2>3. Len(below) = Len(s) - 1
      BY <1>1, <1>4, <2>1
    <2>4. ASSUME NEW i \in 1..Len(s) - 1 PROVE below[i] = s[i]
      BY <1>4, <2>2
    <2>5. QED
      BY <2>3, <2>4
  <1>6. Range(below) = {below[i] : i \in 1..Len(below)}
    BY <1>4, RangeEquality
  <1>7. Range(s) = {s[i] : i \in 1..Len(s)}
    BY RangeEquality
  <1>8. Range(below) \subseteq Range(s)
    BY <1>2, <1>5, <1>6, <1>7
  <1>9. QED
    BY <1>4, <1>8

LEMMA Singly ==
  ASSUME NEW l \in Loops
  PROVE  <<l>> \in Seq(Loops) /\ Range(<<l>>) = {l}
  BY DEF Range

(* Who waits can be counted.                                                *)
LEMMA WaitingFinite ==
  ASSUME NEW l \in Loops
  PROVE  /\ IsFiniteSet(Waiting(l)) /\ Cardinality(Waiting(l)) \in Nat
         /\ Waiting(l) # {} => Cardinality(Waiting(l)) >= 1
  <1>1. IsFiniteSet(Waiting(l))
    <2>1. Waiting(l) \in SUBSET Threads
      BY DEF Waiting
    <2>2. QED
      BY <2>1, EventLoopAssumption, FS_Subset
  <1>2. Cardinality(Waiting(l)) \in Nat
    BY <1>1, FS_CardinalityType
  <1>3. Cardinality(Waiting(l)) = 0 <=> Waiting(l) = {}
    BY <1>1, FS_EmptySet
  <1>4. QED
    BY <1>1, <1>2, <1>3

-----------------------------------------------------------------------------

(* No loop runs, and nothing was added.                                     *)
LEMMA Initially == Init => IndInv
  <1> SUFFICES ASSUME Init PROVE IndInv
    OBVIOUS
  <1> USE EventLoopAssumption DEF Init
  <1>1. <<>> \in Seq(Numbers) /\ <<>> \in Seq(Loops) /\ Len(<<>>) = 0
    BY EmptySeq
  <1>2. TypeOK
    BY <1>1 DEF TypeOK, Numbers
  <1>3. Driven
    BY DEF Driven
  <1>4. Filled
    BY <1>1 DEF Filled
  <1>5. Room
    <2>1. \A l \in Loops : Waiting(l) = {}
      BY DEF Waiting
    <2>2. \A l \in Loops : added[l] = 0 /\ Cardinality(Waiting(l)) = 0
      BY <2>1, FS_EmptySet
    <2>3. QED
      BY <2>2 DEF Room
  <1>6. Given
    BY DEF Given
  <1>7. OnceInOrder
    BY <1>1 DEF OnceInOrder
  <1>8. OnLoopThread
    BY DEF OnLoopThread, Range
  <1>9. QED
    BY <1>2, <1>3, <1>4, <1>5, <1>6, <1>7, <1>8 DEF IndInv

(* A function is called on the thread the loop belongs to.                  *)
LEMMA RunInlineKeeps ==
  ASSUME IndInv, NEW t \in Threads, NEW l \in Loops, RunInline(t, l)
  PROVE  IndInv'
  <1> USE DEF IndInv, RunInline, loopState, vector, history
  <1>1. TypeOK'
    <2>1. Append(stack[t], l) \in Seq(Loops)
      BY Pushed DEF TypeOK
    <2>2. QED
      BY <2>1, EventLoopAssumption DEF TypeOK
  <1>2. Driven'
    BY DEF Driven
  <1>3. Filled'
    BY DEF Filled, MutexFree
  <1>4. Room'
    BY DEF Room, Waiting
  <1>5. Given'
    BY DEF Given, Drains
  <1>6. OnceInOrder'
    BY DEF OnceInOrder
  <1>7. OnLoopThread'
    <2>1. stack[t] \in Seq(Loops) /\ threadId[l] = t
      BY DEF TypeOK, InThisThread
    <2>2. Range(Append(stack[t], l)) = Range(stack[t]) \cup {l}
      BY <2>1, Pushed
    <2>3. \A u \in Threads :
            stack'[u] = IF u = t THEN Append(stack[t], l) ELSE stack[u]
      BY DEF TypeOK
    <2>4. QED
      BY <2>1, <2>2, <2>3 DEF OnLoopThread
  <1>8. QED
    BY <1>1, <1>2, <1>3, <1>4, <1>5, <1>6, <1>7

(* Whoever waits has a place.                                               *)
LEMMA RunInLoopKeeps ==
  ASSUME IndInv, NEW t \in Threads, NEW l \in Loops, RunInLoop(t, l)
  PROVE  IndInv'
  <1> USE DEF IndInv, RunInLoop, loopState, vector, history
  <1>1. TypeOK'
    BY DEF TypeOK
  <1>2. Driven'
    BY DEF Driven
  <1>3. Filled'
    BY DEF Filled, MutexFree
  <1>4. Room'
    <2>1. \A m \in Loops : m # l => Waiting(m)' = Waiting(m)
      BY EventLoopAssumption DEF TypeOK, Waiting, InUserCode
    <2>2. Waiting(l)' = Waiting(l) \cup {t} /\ t \notin Waiting(l)
      BY EventLoopAssumption DEF TypeOK, Waiting, InUserCode
    <2>3. Cardinality(Waiting(l)') = Cardinality(Waiting(l)) + 1
      BY <2>2, WaitingFinite, FS_AddElement
    <2>4. added[l] + Cardinality(Waiting(l)) < MaxCalls
      BY DEF Waiting
    <2>5. added[l] + Cardinality(Waiting(l)') <= MaxCalls
      BY <2>3, <2>4, WaitingFinite, EventLoopAssumption DEF TypeOK
    <2>6. QED
      BY <2>1, <2>5 DEF Room
  <1>5. Given'
    BY DEF Given, Driven, Drains, InThisThread, MayGive
  <1>6. OnceInOrder'
    BY DEF OnceInOrder
  <1>7. OnLoopThread'
    BY DEF OnLoopThread
  <1>8. QED
    BY <1>1, <1>2, <1>3, <1>4, <1>5, <1>6, <1>7

(* The function comes last, and its thread waits no more.                   *)
LEMMA AddFunKeeps ==
  ASSUME IndInv, NEW t \in Threads, NEW l \in Loops, AddFun(t, l)
  PROVE  IndInv'
  <1> USE DEF IndInv, AddFun, loopState, vector, history
  <1>a. added[l] + 1 <= MaxCalls /\ added[l] \in Nat
    <2>1. t \in Waiting(l)
      BY DEF Waiting
    <2>2. Cardinality(Waiting(l)) \in Nat /\ Cardinality(Waiting(l)) >= 1
      BY <2>1, WaitingFinite
    <2>3. QED
      BY <2>2, EventLoopAssumption DEF Room, TypeOK
  <1>b. /\ Append(callbacks[l], added[l] + 1) \in Seq(Numbers)
        /\ Len(Append(callbacks[l], added[l] + 1)) = Len(callbacks[l]) + 1
        /\ Len(callbacks[l]) \in Nat
        /\ InOrder(ran[l], Append(callbacks[l], added[l] + 1), 0, added[l] + 1)
    <2>1. ran[l] \in Seq(Numbers) /\ callbacks[l] \in Seq(Numbers)
      BY DEF TypeOK, Numbers
    <2>2. InOrder(ran[l], callbacks[l], 0, added[l])
      BY DEF OnceInOrder, Filled, InOrder, Numbered
    <2>3. QED
      BY <1>a, <2>1, <2>2, AddedInOrder, LenProperties
  <1>1. TypeOK'
    BY <1>a, <1>b DEF TypeOK
  <1>2. Driven'
    BY DEF Driven
  <1>3. Filled'
    BY <1>a, <1>b DEF Filled, TypeOK, MutexFree
  <1>4. Room'
    <2>1. \A m \in Loops : m # l => Waiting(m)' = Waiting(m)
      BY EventLoopAssumption DEF TypeOK, Waiting
    <2>2. Waiting(l)' = Waiting(l) \ {t} /\ t \in Waiting(l)
      BY EventLoopAssumption DEF TypeOK, Waiting
    <2>3. Cardinality(Waiting(l)') = Cardinality(Waiting(l)) - 1
      BY <2>2, WaitingFinite, FS_RemoveElement
    <2>4. added[l] + 1 + Cardinality(Waiting(l)') <= MaxCalls
      BY <1>a, <2>3, WaitingFinite, EventLoopAssumption DEF Room
    <2>5. QED
      BY <1>a, <2>1, <2>4 DEF Room, TypeOK
  <1>5. Given'
    BY DEF Given, Drains
  <1>6. OnceInOrder'
    <2>1. \A m \in Loops : InOrder(ran[m], callbacks[m], next[m], added[m])
      BY DEF OnceInOrder, InOrder, Numbered
    <2>2. InOrder(ran'[l], callbacks'[l], next'[l], added'[l])
      BY <1>b DEF Filled, TypeOK
    <2>3. ASSUME NEW m \in Loops
          PROVE  InOrder(ran'[m], callbacks'[m], next'[m], added'[m])
      BY <2>1, <2>2 DEF TypeOK
    <2>4. QED
      BY <2>3 DEF OnceInOrder, InOrder, Numbered
  <1>7. OnLoopThread'
    BY DEF OnLoopThread
  <1>8. QED
    BY <1>1, <1>2, <1>3, <1>4, <1>5, <1>6, <1>7

(* A function less is under way.                                            *)
LEMMA FunctionReturnsKeeps ==
  ASSUME IndInv, NEW t \in Threads, FunctionReturns(t)
  PROVE  IndInv'
  <1> USE DEF IndInv, FunctionReturns, loopState, vector, history
  <1>1. TypeOK'
    <2>1. SubSeq(stack[t], 1, Len(stack[t]) - 1) \in Seq(Loops)
      BY Popped DEF TypeOK
    <2>2. QED
      BY <2>1 DEF TypeOK
  <1>2. Driven'
    BY DEF Driven
  <1>3. Filled'
    BY DEF Filled, MutexFree
  <1>4. Room'
    BY DEF Room, Waiting
  <1>5. Given'
    BY DEF Given, Drains
  <1>6. OnceInOrder'
    BY DEF OnceInOrder
  <1>7. OnLoopThread'
    <2>1. stack[t] \in Seq(Loops)
      BY DEF TypeOK
    <2>2. Range(SubSeq(stack[t], 1, Len(stack[t]) - 1)) \subseteq Range(stack[t])
      BY <2>1, Popped
    <2>3. \A u \in Threads :
            stack'[u] = IF u = t THEN SubSeq(stack[t], 1, Len(stack[t]) - 1) ELSE stack[u]
      BY DEF TypeOK
    <2>4. QED
      BY <2>2, <2>3 DEF OnLoopThread
  <1>8. QED
    BY <1>1, <1>2, <1>3, <1>4, <1>5, <1>6, <1>7

(* Only the flag changes.                                                   *)
LEMMA StopKeeps ==
  ASSUME IndInv, NEW t \in Threads, NEW l \in Loops, Stop(t, l)
  PROVE  IndInv'
  <1> USE DEF IndInv, Stop, loopState, vector, history
  <1>1. TypeOK'
    BY DEF TypeOK
  <1>2. Driven'
    BY DEF Driven
  <1>3. Filled'
    BY DEF Filled, MutexFree
  <1>4. Room'
    BY DEF Room, Waiting
  <1>5. Given'
    BY DEF Given, Drains
  <1>6. OnceInOrder'
    BY DEF OnceInOrder
  <1>7. OnLoopThread'
    BY DEF OnLoopThread
  <1>8. QED
    BY <1>1, <1>2, <1>3, <1>4, <1>5, <1>6, <1>7

(* The loop is handed over while none of its functions is under way.        *)
LEMMA RunKeeps ==
  ASSUME IndInv, NEW t \in Threads, NEW l \in Loops, Run(t, l)
  PROVE  IndInv'
  <1> USE DEF IndInv, Run, loopState, vector, history
  <1>1. TypeOK'
    BY DEF TypeOK, MayStart, NewThreadId
  <1>2. Driven'
    BY DEF Driven, TypeOK, NewThreadId
  <1>3. Filled'
    BY DEF Filled, TypeOK, MutexFree, MayStart
  <1>4. Room'
    BY DEF Room, Waiting
  <1>5. Given'
    BY DEF Given, Drains, MayStart
  <1>6. OnceInOrder'
    BY DEF OnceInOrder
  <1>7. OnLoopThread'
    BY DEF OnLoopThread, MayStart
  <1>8. QED
    BY <1>1, <1>2, <1>3, <1>4, <1>5, <1>6, <1>7

(* run() goes on, or leaves the loop.                                       *)
LEMMA CheckRunningKeeps ==
  ASSUME IndInv, NEW l \in Loops, CheckRunning(l)
  PROVE  IndInv'
  <1> USE DEF IndInv, CheckRunning, loopState, vector, history
  <1>1. TypeOK'
    BY DEF TypeOK
  <1>2. Driven'
    BY DEF Driven, TypeOK
  <1>3. Filled'
    BY DEF Filled, MutexFree
  <1>4. Room'
    BY DEF Room, Waiting
  <1>5. Given'
    BY DEF Given, Drains
  <1>6. OnceInOrder'
    BY DEF OnceInOrder
  <1>7. OnLoopThread'
    BY DEF OnLoopThread
  <1>8. QED
    BY <1>1, <1>2, <1>3, <1>4, <1>5, <1>6, <1>7

(* The drain begins with nothing under way.                                 *)
LEMMA PollReturnsKeeps ==
  ASSUME IndInv, NEW l \in Loops, PollReturns(l)
  PROVE  IndInv'
  <1> USE DEF IndInv, PollReturns, loopState, vector, history
  <1>1. TypeOK'
    BY DEF TypeOK, AfterPoll
  <1>2. Driven'
    BY DEF Driven
  <1>3. Filled'
    BY DEF Filled, MutexFree, AfterPoll
  <1>4. Room'
    BY DEF Room, Waiting
  <1>5. Given'
    BY DEF Given, Drains, InNoFunction
  <1>6. OnceInOrder'
    BY DEF OnceInOrder
  <1>7. OnLoopThread'
    BY DEF OnLoopThread
  <1>8. QED
    BY <1>1, <1>2, <1>3, <1>4, <1>5, <1>6, <1>7

(* The next function is called on the loop's thread.                        *)
LEMMA RunFunctionKeeps ==
  ASSUME IndInv, NEW l \in Loops, RunFunction(l)
  PROVE  IndInv'
  <1> USE DEF IndInv, RunFunction, loopState, vector, history
  <1>a. /\ callbacks[l] \in Seq(Numbers) /\ ran[l] \in Seq(Numbers)
        /\ next[l] \in Nat /\ Len(callbacks[l]) \in Nat /\ added[l] \in 0..MaxCalls
        /\ next[l] + 1 <= Len(callbacks[l])
    BY LenProperties DEF TypeOK, Numbers
  <1>b. /\ Append(ran[l], callbacks[l][next[l] + 1]) \in Seq(Numbers)
        /\ InOrder(Append(ran[l], callbacks[l][next[l] + 1]), callbacks[l],
                   next[l] + 1, added[l])
    <2>1. InOrder(ran[l], callbacks[l], next[l], added[l])
      BY DEF OnceInOrder, InOrder, Numbered
    <2>2. QED
      BY <1>a, <2>1, RanInOrder
  <1>c. driver[l] \in Threads /\ driver[l] = threadId[l]
    BY EventLoopAssumption DEF TypeOK, Driven
  <1>1. TypeOK'
    <2>1. next[l] + 1 \in 0..MaxCalls
      BY <1>a, EventLoopAssumption DEF Filled
    <2>2. <<l>> \in Seq(Loops)
      BY Singly
    <2>3. QED
      BY <1>b, <1>c, <2>1, <2>2 DEF TypeOK, Numbers
  <1>2. Driven'
    BY DEF Driven
  <1>3. Filled'
    BY <1>a DEF Filled, MutexFree
  <1>4. Room'
    BY DEF Room, Waiting
  <1>5. Given'
    BY DEF Given, Drains
  <1>6. OnceInOrder'
    <2>1. \A m \in Loops : InOrder(ran[m], callbacks[m], next[m], added[m])
      BY DEF OnceInOrder, InOrder, Numbered
    <2>2. InOrder(ran'[l], callbacks'[l], next'[l], added'[l])
      BY <1>b DEF TypeOK
    <2>3. ASSUME NEW m \in Loops
          PROVE  InOrder(ran'[m], callbacks'[m], next'[m], added'[m])
      BY <2>1, <2>2 DEF TypeOK
    <2>4. QED
      BY <2>3 DEF OnceInOrder, InOrder, Numbered
  <1>7. OnLoopThread'
    <2>1. \A u \in Threads : stack'[u] = IF u = driver[l] THEN <<l>> ELSE stack[u]
      BY <1>c DEF TypeOK
    <2>2. QED
      BY <1>c, <2>1, Singly DEF OnLoopThread
  <1>8. QED
    BY <1>1, <1>2, <1>3, <1>4, <1>5, <1>6, <1>7

(* Everything in the vector was called.                                     *)
LEMMA DrainDoneKeeps ==
  ASSUME IndInv, NEW l \in Loops, DrainDone(l)
  PROVE  IndInv'
  <1> USE DEF IndInv, DrainDone, loopState, vector, history
  <1>1. TypeOK'
    BY DEF TypeOK
  <1>2. Driven'
    BY DEF Driven
  <1>3. Filled'
    BY DEF Filled, TypeOK, MutexFree
  <1>4. Room'
    BY DEF Room, Waiting
  <1>5. Given'
    BY DEF Given, Drains
  <1>6. OnceInOrder'
    BY DEF OnceInOrder
  <1>7. OnLoopThread'
    BY DEF OnLoopThread
  <1>8. QED
    BY <1>1, <1>2, <1>3, <1>4, <1>5, <1>6, <1>7

(* What was called is dropped.                                              *)
LEMMA ClearKeeps ==
  ASSUME IndInv, NEW l \in Loops, Clear(l)
  PROVE  IndInv'
  <1> USE DEF IndInv, Clear, loopState, vector, history
  <1>a. InOrder(ran[l], <<>>, 0, added[l])
    <2>1. /\ ran[l] \in Seq(Numbers) /\ callbacks[l] \in Seq(Numbers)
          /\ added[l] \in Nat /\ next[l] = Len(callbacks[l])
      BY DEF TypeOK, Numbers, Filled
    <2>2. InOrder(ran[l], callbacks[l], Len(callbacks[l]), added[l])
      BY <2>1 DEF OnceInOrder, InOrder, Numbered
    <2>3. QED
      BY <2>1, <2>2, ClearedInOrder
  <1>b. <<>> \in Seq(1..MaxCalls) /\ Len(<<>>) = 0
    BY EmptySeq
  <1>1. TypeOK'
    BY EventLoopAssumption DEF TypeOK
  <1>2. Driven'
    BY DEF Driven
  <1>3. Filled'
    BY DEF Filled, TypeOK, MutexFree
  <1>4. Room'
    BY DEF Room, Waiting
  <1>5. Given'
    BY DEF Given, Drains
  <1>6. OnceInOrder'
    <2>1. \A m \in Loops : InOrder(ran[m], callbacks[m], next[m], added[m])
      BY DEF OnceInOrder, InOrder, Numbered
    <2>2. InOrder(ran'[l], callbacks'[l], next'[l], added'[l])
      BY <1>a DEF TypeOK
    <2>3. ASSUME NEW m \in Loops
          PROVE  InOrder(ran'[m], callbacks'[m], next'[m], added'[m])
      BY <2>1, <2>2 DEF TypeOK
    <2>4. QED
      BY <2>3 DEF OnceInOrder, InOrder, Numbered
  <1>7. OnLoopThread'
    BY DEF OnLoopThread
  <1>8. QED
    BY <1>1, <1>2, <1>3, <1>4, <1>5, <1>6, <1>7

(* handleEvent() leaves the loop to its thread.                             *)
LEMMA HandleEventKeeps ==
  ASSUME IndInv, NEW t \in Threads, NEW l \in Loops, HandleEvent(t, l)
  PROVE  IndInv'
  <1> USE DEF IndInv, HandleEvent, loopState, vector, history
  <1>1. TypeOK'
    BY DEF TypeOK, MayStart
  <1>2. Driven'
    BY DEF Driven, TypeOK
  <1>3. Filled'
    BY DEF Filled, TypeOK, MutexFree, MayStart
  <1>4. Room'
    BY DEF Room, Waiting
  <1>5. Given'
    BY DEF Given, Drains, MayStart
  <1>6. OnceInOrder'
    BY DEF OnceInOrder
  <1>7. OnLoopThread'
    BY DEF OnLoopThread
  <1>8. QED
    BY <1>1, <1>2, <1>3, <1>4, <1>5, <1>6, <1>7

(* handleEvent() is through.                                                *)
LEMMA HandleReturnsKeeps ==
  ASSUME IndInv, NEW l \in Loops, HandleReturns(l)
  PROVE  IndInv'
  <1> USE DEF IndInv, HandleReturns, loopState, vector, history
  <1>1. TypeOK'
    BY DEF TypeOK
  <1>2. Driven'
    BY DEF Driven
  <1>3. Filled'
    BY DEF Filled, MutexFree
  <1>4. Room'
    BY DEF Room, Waiting
  <1>5. Given'
    BY DEF Given, Drains
  <1>6. OnceInOrder'
    BY DEF OnceInOrder
  <1>7. OnLoopThread'
    BY DEF OnLoopThread
  <1>8. QED
    BY <1>1, <1>2, <1>3, <1>4, <1>5, <1>6, <1>7

-----------------------------------------------------------------------------

LEMMA StepsKeep == IndInv /\ [Next]_vars => IndInv'
  <1> SUFFICES ASSUME IndInv, [Next]_vars PROVE IndInv'
    OBVIOUS
  <1>1. ASSUME NEW l \in Loops, LoopStep(l) PROVE IndInv'
    BY <1>1, CheckRunningKeeps, PollReturnsKeeps, RunFunctionKeeps, DrainDoneKeeps,
       ClearKeeps, HandleReturnsKeeps DEF LoopStep
  <1>2. ASSUME NEW t \in Threads, FunctionReturns(t) PROVE IndInv'
    BY <1>2, FunctionReturnsKeeps
  <1>3. ASSUME NEW t \in Threads, NEW l \in Loops,
               \/ RunInline(t, l) \/ RunInLoop(t, l) \/ AddFun(t, l)
               \/ Stop(t, l) \/ Run(t, l) \/ HandleEvent(t, l)
        PROVE  IndInv'
    BY <1>3, RunInlineKeeps, RunInLoopKeeps, AddFunKeeps, StopKeeps, RunKeeps,
       HandleEventKeeps
  <1>4. CASE UNCHANGED vars
    <2> USE <1>4 DEF IndInv, vars
    <2>1. TypeOK' /\ OnceInOrder' /\ OnLoopThread'
      BY DEF TypeOK, OnceInOrder, OnLoopThread
    <2>2. Driven' /\ Filled' /\ Given'
      BY DEF Driven, Filled, Given, MutexFree, Drains
    <2>3. Room'
      BY DEF Room, Waiting
    <2>4. QED
      BY <2>1, <2>2, <2>3
  <1>5. QED
    BY <1>1, <1>2, <1>3, <1>4 DEF Next

LEMMA Inductive == Spec => []IndInv
  BY Initially, StepsKeep, PTL DEF Spec

(* Every variable of the loops keeps its type, and a loop has a driver      *)
(* exactly while it is not idle.                                            *)
THEOREM Typing == Spec => []TypeOK
  BY Inductive, PTL DEF IndInv

(* A function is never lost, called twice or overtaken                      *)
(* (eventLoop.cpp:25-43).                                                   *)
THEOREM FunctionsInOrder == Spec => []OnceInOrder
  BY Inductive, PTL DEF IndInv

(* A function given to a loop runs on the loop's thread                     *)
(* (eventLoop.cpp:80-92 and 105-114).                                       *)
THEOREM FunctionsOnThread == Spec => []OnLoopThread
  BY Inductive, PTL DEF IndInv

-----------------------------------------------------------------------------
(* Deadlock.                                                               *)

(* The mutexes waited for in a circle are held by drains of threads in it,  *)
(* each of which waits for another of these mutexes.                        *)
LEMMA CirclesDrain ==
  ASSUME IndInv, NEW threads \in SUBSET Threads, Circle(threads)
  PROVE  \E loops \in SUBSET {l \in Loops : \E t \in threads : Drains(t, l)} :
           MutualGiving(loops)
  <1> USE DEF IndInv
  <1> DEFINE loops == {wants[t] : t \in threads}
  <1>1. ASSUME NEW t \in threads
        PROVE  /\ wants[t] \in Loops
               /\ WaitsFor(t) \in threads
               /\ Drains(WaitsFor(t), wants[t])
    BY DEF Circle, Blocked, WaitsFor, MutexFree, Drains, TypeOK
  <1>2. ASSUME NEW l \in loops
        PROVE  \E m \in loops \ {l} : <<l, m>> \in GivesTo
    <2>1. PICK t \in threads : l = wants[t]
      OBVIOUS
    <2> DEFINE u == WaitsFor(t)
    <2>2. u \in threads /\ wants[u] \in Loops /\ l \in Loops /\ Drains(u, l)
      BY <1>1, <2>1
    <2>3. wants[u] # l /\ <<l, wants[u]>> \in GivesTo
      BY <2>2, EventLoopAssumption DEF Given
    <2>4. QED
      BY <2>2, <2>3
  <1>3. loops \in SUBSET {l \in Loops : \E t \in threads : Drains(t, l)}
    BY <1>1
  <1>4. loops # {}
    BY DEF Circle
  <1>5. MutualGiving(loops)
    BY <1>2, <1>4 DEF MutualGiving
  <1>6. QED
    BY <1>3, <1>5

LEMMA CirclesAreMutual == IndInv => OnlyMutualGivingDeadlocks
  BY CirclesDrain DEF OnlyMutualGivingDeadlocks

(* Wherever threads wait for each other in a circle, they are inside of     *)
(* drains of loops whose functions give functions to one another            *)
(* (eventLoop.cpp:31-43): a program that deadlocks in these mutexes is one  *)
(* that does that, and nothing else it does with its loops is to blame.     *)
THEOREM DeadlocksAreMutual == Spec => []OnlyMutualGivingDeadlocks
  BY Inductive, CirclesAreMutual, PTL

(* So a program whose loops can be put in an order in which functions are   *)
(* given only forwards never deadlocks: of threads that wait for each other *)
(* one can always go on.                                                    *)
THEOREM OrderedGivingGoesOn ==
  ASSUME \A loops \in SUBSET Loops : ~MutualGiving(loops)
  PROVE  Spec => [](\A threads \in SUBSET Threads : ~Circle(threads))
  <1>1. OnlyMutualGivingDeadlocks => \A threads \in SUBSET Threads : ~Circle(threads)
    BY DEF OnlyMutualGivingDeadlocks
  <1>2. QED
    BY <1>1, DeadlocksAreMutual, PTL

-----------------------------------------------------------------------------
(* The service.                                                            *)

(* To the other threads a loop is what the callback queue is to its users,  *)
(* a CallbackService: what is in the vector and not yet called is pending.  *)
Left(l) == SubSeq(callbacks[l], next[l] + 1, Len(callbacks[l]))
Service(l) ==
  INSTANCE CallbackService
    WITH Callback <- Numbers, pending <- Left(l), done <- ran[l]

(* A loop's service is touched by what changes its vector and its history.  *)
LEMMA ServiceUntouched ==
  ASSUME NEW l \in Loops,
         callbacks'[l] = callbacks[l], next'[l] = next[l], ran'[l] = ran[l]
  PROVE  UNCHANGED Service(l)!vars
  BY DEF Service!vars, Left

(* A function that a thread adds is posted: while the mutex is free nothing *)
(* is counted through, so all of the vector is pending.                     *)
LEMMA AddFunPosts ==
  ASSUME IndInv, NEW t \in Threads, NEW l \in Loops, AddFun(t, l)
  PROVE  Service(l)!Post
  <1> DEFINE e == added[l] + 1
  <1>1. callbacks[l] \in Seq(Numbers) /\ next[l] = 0 /\ next'[l] = 0
    BY DEF AddFun, vector, IndInv, TypeOK, Filled, Numbers
  <1>2. e \in Numbers
    <2>1. t \in Waiting(l)
      BY DEF AddFun, Waiting
    <2>2. Cardinality(Waiting(l)) \in Nat /\ Cardinality(Waiting(l)) >= 1
      BY <2>1, WaitingFinite
    <2>3. QED
      BY <2>2, EventLoopAssumption DEF IndInv, Room, TypeOK, Numbers
  <1>3. callbacks'[l] = Append(callbacks[l], e) /\ ran'[l] = ran[l]
    BY DEF AddFun, IndInv, TypeOK
  <1> HIDE DEF e
  <1>4. Append(callbacks[l], e) \in Seq(Numbers)
    BY <1>1, <1>2, AppendProperties
  <1>5. Left(l) = callbacks[l] /\ Left(l)' = Append(callbacks[l], e)
    BY <1>1, <1>3, <1>4, SubSeqFull DEF Left
  <1>6. QED
    BY <1>2, <1>3, <1>5 DEF Service!Post

(* What a drain calls is the first that is pending.                         *)
LEMMA RunFunctionRuns ==
  ASSUME IndInv, NEW l \in Loops, RunFunction(l)
  PROVE  Service(l)!Run
  <1>1. /\ callbacks[l] \in Seq(Numbers) /\ next[l] \in Nat
        /\ Len(callbacks[l]) \in Nat /\ next[l] < Len(callbacks[l])
    BY LenProperties DEF RunFunction, IndInv, TypeOK, Numbers
  <1>2. /\ next[l] + 1 \in 1..Len(callbacks[l])
        /\ Len(callbacks[l]) \in next[l] + 1..Len(callbacks[l])
    BY <1>1
  <1>3. /\ Head(Left(l)) = callbacks[l][next[l] + 1]
        /\ Tail(Left(l)) = SubSeq(callbacks[l], next[l] + 1 + 1, Len(callbacks[l]))
    BY <1>1, <1>2, HeadTailOfSubSeq DEF Left
  <1>4. Left(l) # <<>>
    <2>1. Left(l) = <<callbacks[l][next[l] + 1]>> \o
                    SubSeq(callbacks[l], next[l] + 1 + 1, Len(callbacks[l]))
      BY <1>1, <1>2, SubSeqRecursiveFirst DEF Left
    <2>2. QED
      BY <2>1
  <1>5. /\ callbacks'[l] = callbacks[l] /\ next'[l] = next[l] + 1
        /\ ran'[l] = Append(ran[l], callbacks[l][next[l] + 1])
    BY DEF RunFunction, IndInv, TypeOK
  <1>6. QED
    BY <1>3, <1>4, <1>5 DEF Left, Service!Run

(* A drain that is through drops only what it has called.                   *)
LEMMA ClearStutters ==
  ASSUME IndInv, NEW l \in Loops, Clear(l)
  PROVE  UNCHANGED Service(l)!vars
  <1>1. Len(callbacks[l]) \in Nat /\ next[l] = Len(callbacks[l])
    BY LenProperties DEF Clear, IndInv, TypeOK, Filled
  <1>2. callbacks'[l] = <<>> /\ next'[l] = 0 /\ ran'[l] = ran[l]
    BY DEF Clear, history, IndInv, TypeOK
  <1>3. Left(l) = <<>>
    BY <1>1, SubSeqEmpty DEF Left
  <1>4. Left(l)' = <<>>
    BY <1>2, SubSeqEmpty, EmptySeq DEF Left
  <1>5. QED
    BY <1>2, <1>3, <1>4 DEF Service!vars

(* No step of another loop touches this one's.                              *)
LEMMA OthersUntouched ==
  ASSUME IndInv, NEW l \in Loops, NEW m \in Loops \ {l},
         RunFunction(m) \/ Clear(m) \/ \E t \in Threads : AddFun(t, m)
  PROVE  UNCHANGED Service(l)!vars
  <1>1. callbacks'[l] = callbacks[l] /\ next'[l] = next[l] /\ ran'[l] = ran[l]
    BY DEF RunFunction, Clear, AddFun, history, IndInv, TypeOK
  <1>2. QED
    BY <1>1, ServiceUntouched

(* CallbackService, of every loop: what other threads give to runInLoop is  *)
(* called once each and in the order given, and nothing else is called by a *)
(* drain (eventLoop.cpp:25-43 and 105-114).                                    *)
THEOREM LoopImplementsService ==
  ASSUME NEW l \in Loops
  PROVE  Spec => Service(l)!Spec
  <1>1. Init => Service(l)!Init
    <2> SUFFICES ASSUME Init PROVE Service(l)!Init
      OBVIOUS
    <2>1. callbacks[l] = <<>> /\ next[l] = 0 /\ ran[l] = <<>>
      BY DEF Init
    <2>2. Left(l) = <<>>
      BY <2>1, SubSeqEmpty, EmptySeq DEF Left
    <2>3. QED
      BY <2>1, <2>2 DEF Service!Init
  <1>2. ASSUME IndInv, [Next]_vars
        PROVE  [Service(l)!Next]_(Service(l)!vars)
    <2> USE <1>2
    <2>1. ASSUME NEW m \in Loops,
                 RunFunction(m) \/ Clear(m) \/ \E t \in Threads : AddFun(t, m)
          PROVE  [Service(l)!Next]_(Service(l)!vars)
      <3>1. CASE m = l
        BY <2>1, <3>1, AddFunPosts, RunFunctionRuns, ClearStutters DEF Service!Next
      <3>2. CASE m # l
        BY <2>1, <3>2, OthersUntouched
      <3>3. QED
        BY <3>1, <3>2
    <2>2. ASSUME NEW m \in Loops,
                 CheckRunning(m) \/ PollReturns(m) \/ DrainDone(m) \/ HandleReturns(m)
          PROVE  UNCHANGED Service(l)!vars
      BY <2>2, ServiceUntouched
         DEF CheckRunning, PollReturns, DrainDone, HandleReturns, vector, history
    <2>3. ASSUME NEW t \in Threads, NEW m \in Loops,
                 \/ RunInline(t, m) \/ RunInLoop(t, m) \/ FunctionReturns(t)
                 \/ Stop(t, m) \/ Run(t, m) \/ HandleEvent(t, m)
          PROVE  UNCHANGED Service(l)!vars
      BY <2>3, ServiceUntouched
         DEF RunInline, RunInLoop, FunctionReturns, Stop, Run, HandleEvent, vector,
             history
    <2>4. CASE UNCHANGED vars
      BY <2>4, ServiceUntouched DEF vars
    <2>5. QED
      BY <2>1, <2>2, <2>3, <2>4 DEF Next, LoopStep
  <1>3. QED
    BY <1>1, <1>2, Inductive, PTL DEF Spec, Service!Spec
=============================================================================
