------------------------- MODULE TcpConnectionProofs --------------------------
(***************************************************************************)
(* Theorems about TcpConnection, for any number of bytes in either         *)
(* direction.                                                              *)
(***************************************************************************)
EXTENDS TcpConnection, SequenceTheorems, TLAPS

Bytes == 1..MaxGiven
Numbered(n) == [i \in 1..n |-> i]

(* A connection that left the pool was closed, once, and closed it stays.   *)
Closed ==
  /\ closes > 0 => state = "Disconnected"
  /\ loop = "accept" => closes = 0 /\ alive /\ mask = {}
  /\ callback # "none" => loop = "callback"
  /\ callback = "close" => closes = 1
  /\ callback = "connect" => todo = <<>>
  /\ ~ pooled => closes = 1

Batches == {<<>>, <<"error">>, <<"read">>, <<"write">>, <<"read", "write">>}

(* What a batch may hold: room is only reported while bytes wait, an error  *)
(* only of a reset, and after the first callback at most "write" is left.   *)
Batch ==
  /\ todo \in Batches
  /\ loop \in {"accept", "poll"} => todo = <<>>
  /\ loop = "callback" => todo \in {<<>>, <<"write">>}
  /\ loop = "handle" /\ ~ alive => todo \in {<<>>, <<"write">>}
  /\ todo \in {<<"write">>, <<"read", "write">>} => "out" \in mask
  /\ todo = <<"error">> => peer = "reset"
  /\ socketError => peer = "reset"

IndInv ==
  /\ TypeOK /\ StreamInOrder /\ WritingIffBuffered
  /\ Closed /\ Batch /\ ReferencesKeepAlive

-----------------------------------------------------------------------------
(* Sequences.                                                              *)

(* The two parts of a write are what was written.                           *)
LEMMA Parted ==
  ASSUME NEW S, NEW data \in Seq(S), NEW n \in 0..Len(data)
  PROVE  /\ SubSeq(data, 1, n) \in Seq(S)
         /\ Remaining(data, n) \in Seq(S)
         /\ SubSeq(data, 1, n) \o Remaining(data, n) = data
  <1>1. Len(data) \in Nat
    BY LenProperties
  <1>2. /\ 1 \in 1..Len(data) + 1 /\ n \in 1 - 1..Len(data)
        /\ Len(data) \in n..Len(data) /\ n + 1 \in Int
    BY <1>1
  <1>3. SubSeq(data, 1, n) \in Seq(S)
    <2>1. \A i \in 1..n : data[i] \in S
      BY <1>1, ElementOfSeq
    <2>2. QED
      BY <1>2, <2>1, SubSeqProperties
  <1>4. Remaining(data, n) \in Seq(S)
    <2>1. \A i \in n + 1..Len(data) : data[i] \in S
      BY <1>1, ElementOfSeq
    <2>2. QED
      BY <1>1, <1>2, <2>1, SubSeqProperties DEF Remaining
  <1>5. SubSeq(data, 1, n) \o Remaining(data, n) = SubSeq(data, 1, Len(data))
    BY <1>2, ConcatAdjacentSubSeq DEF Remaining
  <1>6. QED
    BY <1>3, <1>4, <1>5, SubSeqFull

LEMMA SentAndKept ==
  ASSUME NEW S, NEW before \in Seq(S), NEW data \in Seq(S), NEW n \in 0..Len(data)
  PROVE  (before \o SubSeq(data, 1, n)) \o Remaining(data, n) = before \o data
  <1> DEFINE front == SubSeq(data, 1, n)
             rest == Remaining(data, n)
  <1>1. front \in Seq(S) /\ rest \in Seq(S)
    BY Parted
  <1>2. front \o rest = data
    BY Parted
  <1> HIDE DEF front, rest
  <1>3. (before \o front) \o rest = before \o (front \o rest)
    BY <1>1, ConcatAssociative, SMTT(30)
  <1>4. QED
    BY <1>2, <1>3 DEF front, rest

(* The bytes of a write are those that come after the ones before.          *)
LEMMA DataContinues ==
  ASSUME TypeOK, NEW len \in Nat, given + len <= MaxGiven
  PROVE  /\ Data(len) \in Seq(Bytes) /\ Len(Data(len)) = len
         /\ Numbered(given) \o Data(len) = Numbered(given + len)
  <1> USE TcpConnectionAssumption
  <1>1. given \in Nat /\ given + len \in Nat
    BY DEF TypeOK
  <1>2. /\ Data(len) \in [1..len -> Bytes]
        /\ Numbered(given) \in [1..given -> Bytes]
        /\ Numbered(given + len) \in [1..given + len -> Bytes]
    BY <1>1 DEF Data, Numbered, Bytes
  <1>3. /\ Data(len) \in Seq(Bytes) /\ Numbered(given) \in Seq(Bytes)
        /\ Numbered(given + len) \in Seq(Bytes)
    BY <1>1, <1>2, SeqDef
  <1>4. /\ Len(Data(len)) = len /\ Len(Numbered(given)) = given
        /\ Len(Numbered(given + len)) = given + len
    BY <1>1, <1>2, <1>3, LenProperties DEF Data, Numbered
  <1> DEFINE both == Numbered(given) \o Data(len)
  <1>5. /\ both \in Seq(Bytes) /\ Len(both) = given + len
        /\ \A i \in 1..given + len :
             both[i] = IF i <= given THEN Numbered(given)[i] ELSE Data(len)[i - given]
    <2>1. /\ both \in Seq(Bytes)
          /\ Len(both) = Len(Numbered(given)) + Len(Data(len))
          /\ \A i \in 1..Len(Numbered(given)) + Len(Data(len)) :
               both[i] = IF i <= Len(Numbered(given)) THEN Numbered(given)[i]
                         ELSE Data(len)[i - Len(Numbered(given))]
      BY <1>3, ConcatProperties
    <2>2. QED
      BY <1>4, <2>1
  <1>6. ASSUME NEW i \in 1..given + len PROVE both[i] = Numbered(given + len)[i]
    BY <1>1, <1>5 DEF Data, Numbered
  <1>7. both = Numbered(given + len)
    BY <1>3, <1>4, <1>5, <1>6, SeqEqual
  <1>8. QED
    BY <1>3, <1>4, <1>7

(* Whatever of a write is sent, and whatever is kept.                       *)
LEMMA StreamGrows ==
  ASSUME TypeOK, StreamInOrder, NEW len \in Nat, given + len <= MaxGiven
  PROVE  /\ (sent \o writeBuf) \o Data(len) = Numbered(given + len)
         /\ sent \o (writeBuf \o Data(len)) = Numbered(given + len)
         /\ writeBuf \o Data(len) \in Seq(Bytes)
  <1>1. /\ sent \in Seq(Bytes) /\ writeBuf \in Seq(Bytes) /\ Data(len) \in Seq(Bytes)
    BY DataContinues DEF TypeOK, Bytes
  <1>2. (sent \o writeBuf) \o Data(len) = Numbered(given + len)
    BY DataContinues DEF StreamInOrder, Numbered
  <1>3. sent \o (writeBuf \o Data(len)) = (sent \o writeBuf) \o Data(len)
    BY <1>1, ConcatAssociative, SMTT(30)
  <1>4. writeBuf \o Data(len) \in Seq(Bytes)
    BY <1>1, ConcatProperties
  <1>5. QED
    BY <1>2, <1>3, <1>4

LEMMA BatchesTyped == Batches \subseteq Seq({"read", "write", "error"})
  <1> DEFINE H == {"read", "write", "error"}
  <1>1. <<>> \in Seq(H)
    BY EmptySeq
  <1>2. <<"error">> \in Seq(H) /\ <<"read">> \in Seq(H) /\ <<"write">> \in Seq(H)
    OBVIOUS
  <1>3. <<"read", "write">> \in Seq(H)
    OBVIOUS
  <1>4. QED
    BY <1>1, <1>2, <1>3 DEF Batches

(* What is left of a batch, after its first callback.                       *)
Rest(b, rest) ==
  /\ rest \in {<<>>, <<"write">>}
  /\ rest \in {<<"write">>, <<"read", "write">>} => b = <<"read", "write">>
  /\ rest \in Batches /\ rest # <<"error">>
  /\ rest \in Seq({"read", "write", "error"})
  /\ Head(b) = "error" <=> b = <<"error">>
  /\ Head(b) = "write" <=> b = <<"write">>
  /\ Head(b) = "write" => rest = <<>>

LEMMA Called ==
  ASSUME Batch, NEW handler, Calling(handler)
  PROVE  Rest(todo, Tail(todo))
  <1>0. todo \in Batches /\ todo # <<>>
    BY DEF Batch, Calling
  <1>1. CASE todo = <<"error">>
    BY <1>1, BatchesTyped DEF Batches, Rest
  <1>2. CASE todo = <<"read">>
    BY <1>2, BatchesTyped DEF Batches, Rest
  <1>3. CASE todo = <<"write">>
    BY <1>3, BatchesTyped DEF Batches, Rest
  <1>4. CASE todo = <<"read", "write">>
    BY <1>4, BatchesTyped DEF Batches, Rest
  <1>5. QED
    BY <1>0, <1>1, <1>2, <1>3, <1>4 DEF Batches

LEMMA ReadThenWrite == <<"read">> \o <<"write">> = <<"read", "write">>
  <1> DEFINE H == {"read", "write"}
             s == <<"read">> \o <<"write">>
             t == <<"read", "write">>
  <1>1. <<"read">> \in Seq(H) /\ <<"write">> \in Seq(H) /\ t \in Seq(H)
    OBVIOUS
  <1>2. Len(<<"read">>) = 1 /\ Len(<<"write">>) = 1 /\ Len(t) = 2
    OBVIOUS
  <1>3. /\ s \in Seq(H) /\ Len(s) = Len(<<"read">>) + Len(<<"write">>)
        /\ \A i \in 1..Len(<<"read">>) + Len(<<"write">>) :
             s[i] = IF i <= Len(<<"read">>) THEN <<"read">>[i]
                    ELSE <<"write">>[i - Len(<<"read">>)]
    BY <1>1, ConcatProperties
  <1>4. Len(s) = 2 /\ s[1] = t[1] /\ s[2] = t[2]
    BY <1>2, <1>3
  <1> HIDE DEF s, t
  <1>5. \A i \in 1..2 : i = 1 \/ i = 2
    OBVIOUS
  <1>6. s = t
    BY <1>1, <1>2, <1>3, <1>4, <1>5, SeqEqual
  <1>7. QED
    BY <1>6 DEF s, t

(* What is reported of the socket leads to a batch.                         *)
LEMMA ReportedBatch ==
  ASSUME NEW room \in SUBSET (mask \cap {"out"})
  PROVE  LET calls == Calls(Reported \cup room, Handlers)
         IN  /\ calls \in Batches
             /\ calls = <<"error">> => socketError
             /\ calls \in {<<"write">>, <<"read", "write">>} => "out" \in mask
  <1> DEFINE revents == Reported \cup room
             hangs == IF "hup" \in revents /\ "in" \notin revents THEN <<"read">> ELSE <<>>
             reads == IF "in" \in revents THEN <<"read">> ELSE <<>>
             writes == IF "out" \in revents THEN <<"write">> ELSE <<>>
  <1>1. "err" \in revents => socketError
    BY DEF Reported
  <1>2. "out" \in revents => "out" \in mask
    BY DEF Reported
  <1>3. "pri" \notin revents
    BY DEF Reported
  <1>4. revents \cap {"in", "pri"} # {} <=> "in" \in revents
    BY <1>3
  <1>5. Calls(revents, Handlers) = IF "err" \in revents THEN <<"error">> ELSE hangs \o reads \o writes
    BY <1>4 DEF Calls, Call, Handlers
  <1> HIDE DEF revents
  <1>6. /\ hangs \in {<<>>, <<"read">>} /\ reads \in {<<>>, <<"read">>}
        /\ reads # <<>> => hangs = <<>>
        /\ writes \in {<<>>, <<"write">>} /\ (writes # <<>> => "out" \in revents)
    OBVIOUS
  <1> HIDE DEF hangs, reads, writes
  <1>7. /\ hangs \o reads \o writes \in Batches \ {<<"error">>}
        /\ writes = <<>> => hangs \o reads \o writes \in {<<>>, <<"read">>}
    <2>1. /\ <<>> \o <<>> = <<>>
          /\ <<>> \o <<"read">> = <<"read">> /\ <<"read">> \o <<>> = <<"read">>
          /\ <<>> \o <<"write">> = <<"write">>
      OBVIOUS
    <2>2. hangs \o reads \in {<<>>, <<"read">>}
      BY <1>6, <2>1
    <2>3. CASE writes = <<>>
      BY <2>1, <2>2, <2>3 DEF Batches
    <2>4. CASE writes = <<"write">>
      <3>1. CASE hangs \o reads = <<>>
        BY <2>1, <2>4, <3>1 DEF Batches
      <3>2. CASE hangs \o reads = <<"read">>
        <4>1. hangs \o reads \o writes = <<"read", "write">>
          BY <2>4, <3>2, ReadThenWrite
        <4>2. QED
          BY <2>4, <4>1 DEF Batches
      <3>3. QED
        BY <2>2, <3>1, <3>2
    <2>5. QED
      BY <1>6, <2>3, <2>4
  <1>8. Calls(revents, Handlers) \in Batches
    BY <1>5, <1>7 DEF Batches
  <1>9. Calls(revents, Handlers) = <<"error">> => socketError
    BY <1>1, <1>5, <1>7
  <1>10. Calls(revents, Handlers) \in {<<"write">>, <<"read", "write">>} => "out" \in mask
    BY <1>2, <1>5, <1>6, <1>7
  <1>11. QED
    BY <1>8, <1>9, <1>10 DEF revents

-----------------------------------------------------------------------------

(* TcpServer::newConnected leaves a pooled connection without bytes.        *)
LEMMA Initially == Init => IndInv
  <1> SUFFICES ASSUME Init PROVE IndInv
    OBVIOUS
  <1> USE TcpConnectionAssumption DEF Init
  <1>1. TypeOK
    <2>1. <<>> \in Seq(Bytes)
      BY EmptySeq
    <2>2. <<>> \in Seq({"read", "write", "error"})
      <3>1. <<>> \in Batches
        BY DEF Batches
      <3>2. QED
        BY <3>1, BatchesTyped
    <2>3. /\ writeBuf \in Seq(1..MaxGiven) /\ sent \in Seq(1..MaxGiven)
          /\ todo \in Seq({"read", "write", "error"})
      BY <2>1, <2>2 DEF Bytes
    <2>4. /\ 0 \in 0..MaxGiven /\ 0 \in 0..MaxArrived /\ 0 \in 0..0 /\ 0 \in 0..1
      OBVIOUS
    <2>5. QED
      BY <2>3, <2>4, Zenon DEF TypeOK
  <1>2. StreamInOrder
    BY DEF StreamInOrder
  <1>3. WritingIffBuffered
    BY DEF WritingIffBuffered
  <1>4. Closed
    BY DEF Closed
  <1>5. Batch
    BY DEF Batch, Batches
  <1>6. ReferencesKeepAlive
    BY DEF ReferencesKeepAlive
  <1>7. QED
    BY <1>1, <1>2, <1>3, <1>4, <1>5, <1>6 DEF IndInv

(* The peer's bytes wait in the socket.                                     *)
LEMMA PeerSendsKeeps ==
  ASSUME IndInv, PeerSends
  PROVE  IndInv'
  <1> USE DEF IndInv, PeerSends, flow, stream, refs, far
  <1>1. TypeOK'
    BY TcpConnectionAssumption DEF TypeOK
  <1>2. StreamInOrder'
    BY DEF StreamInOrder
  <1>3. WritingIffBuffered'
    BY DEF WritingIffBuffered
  <1>4. Closed'
    BY DEF Closed
  <1>5. Batch'
    BY DEF Batch
  <1>6. ReferencesKeepAlive'
    BY DEF ReferencesKeepAlive
  <1>7. QED
    BY <1>1, <1>2, <1>3, <1>4, <1>5, <1>6

(* The end of the peer is not an error.                                     *)
LEMMA PeerFinishesKeeps ==
  ASSUME IndInv, PeerFinishes
  PROVE  IndInv'
  <1> USE DEF IndInv, PeerFinishes, flow, stream, refs, far
  <1>1. TypeOK'
    BY DEF TypeOK
  <1>2. StreamInOrder'
    BY DEF StreamInOrder
  <1>3. WritingIffBuffered'
    BY DEF WritingIffBuffered
  <1>4. Closed'
    BY DEF Closed
  <1>5. Batch'
    BY DEF Batch
  <1>6. ReferencesKeepAlive'
    BY DEF ReferencesKeepAlive
  <1>7. QED
    BY <1>1, <1>2, <1>3, <1>4, <1>5, <1>6

(* A reset is what an error is reported of.                                 *)
LEMMA PeerResetsKeeps ==
  ASSUME IndInv, PeerResets
  PROVE  IndInv'
  <1> USE DEF IndInv, PeerResets, flow, stream, refs, far
  <1>1. TypeOK'
    BY DEF TypeOK
  <1>2. StreamInOrder'
    BY DEF StreamInOrder
  <1>3. WritingIffBuffered'
    BY DEF WritingIffBuffered
  <1>4. Closed'
    BY DEF Closed
  <1>5. Batch'
    BY DEF Batch
  <1>6. ReferencesKeepAlive'
    BY DEF ReferencesKeepAlive
  <1>7. QED
    BY <1>1, <1>2, <1>3, <1>4, <1>5, <1>6

(* Nothing waits before a write that goes to the socket.                    *)
LEMMA WriteDirectKeeps ==
  ASSUME IndInv, NEW len \in Nat, WriteDirect(len)
  PROVE  IndInv'
  <1> USE DEF IndInv, WriteDirect, flow, stream, refs, far
  <1>1. PICK n \in 0..len :
          sent' = sent \o SubSeq(Data(len), 1, n) /\ Kept(Remaining(Data(len), n))
    OBVIOUS
  <1> DEFINE front == SubSeq(Data(len), 1, n)
             rest == Remaining(Data(len), n)
  <1>2. /\ front \in Seq(Bytes) /\ rest \in Seq(Bytes)
        /\ front \o rest = Data(len)
    BY DataContinues, Parted
  <1>3. /\ writeBuf = <<>> /\ sent \in Seq(Bytes)
        /\ sent' = sent \o front /\ writeBuf' = rest
    BY <1>1, <1>2, ConcatEmptySeq DEF Direct, Kept, TypeOK, Bytes
  <1>4. given + len \in 0..MaxGiven
    BY TcpConnectionAssumption DEF TypeOK
  <1>5. TypeOK'
    <2>1. sent' \in Seq(Bytes) /\ writeBuf' \in Seq(Bytes)
      BY <1>2, <1>3, ConcatProperties
    <2>2. mask' \subseteq {"in", "out", "err"}
      BY <1>1 DEF Kept, TypeOK
    <2>3. QED
      BY <1>4, <2>1, <2>2 DEF TypeOK, Bytes
  <1>6. StreamInOrder'
    <2>1. sent = Numbered(given)
      <3>1. sent \o <<>> = sent
        BY <1>3, ConcatEmptySeq
      <3>2. QED
        BY <1>3, <3>1 DEF StreamInOrder, Numbered
    <2>2. (sent \o front) \o rest = sent \o Data(len)
      BY <1>3, DataContinues, SentAndKept
    <2>3. sent' \o writeBuf' = Numbered(given + len)
      BY <1>3, <2>1, <2>2, DataContinues
    <2>4. QED
      BY <2>3 DEF StreamInOrder, Numbered
  <1>7. WritingIffBuffered'
    BY <1>1, <1>3 DEF WritingIffBuffered, Kept
  <1>8. Closed'
    BY DEF Closed, UserCode
  <1>9. Batch'
    BY <1>1 DEF Batch, Kept
  <1>10. ReferencesKeepAlive'
    BY DEF ReferencesKeepAlive, UserCode
  <1>11. QED
    BY <1>5, <1>6, <1>7, <1>8, <1>9, <1>10

(* What is kept comes after what waits.                                     *)
LEMMA WriteBufferedKeeps ==
  ASSUME IndInv, NEW len \in Nat, WriteBuffered(len)
  PROVE  IndInv'
  <1> USE DEF IndInv, WriteBuffered, flow, stream, refs, far
  <1>1. given + len \in 0..MaxGiven
    BY TcpConnectionAssumption DEF TypeOK
  <1>2. /\ writeBuf' \in Seq(Bytes)
        /\ sent' \o writeBuf' = Numbered(given + len)
    BY StreamGrows DEF Kept
  <1>3. TypeOK'
    BY <1>1, <1>2 DEF TypeOK, Kept, Bytes
  <1>4. StreamInOrder'
    BY <1>2 DEF StreamInOrder, Numbered
  <1>5. WritingIffBuffered'
    <2>1. writeBuf \in Seq(Bytes) /\ Data(len) \in Seq(Bytes)
      BY DataContinues DEF TypeOK, Bytes
    <2>2. writeBuf # <<>>
      BY DEF Direct, WritingIffBuffered
    <2>3. writeBuf \o Data(len) # <<>>
      BY <2>1, <2>2, ConcatEqualIffEmpty
    <2>4. QED
      BY <2>2, <2>3 DEF WritingIffBuffered, Kept
  <1>6. Closed'
    BY DEF Closed, UserCode
  <1>7. Batch'
    BY DEF Batch, Kept
  <1>8. ReferencesKeepAlive'
    BY DEF ReferencesKeepAlive, UserCode
  <1>9. QED
    BY <1>3, <1>4, <1>5, <1>6, <1>7, <1>8

(* The data is dropped before it counts.                                    *)
LEMMA WriteFailsKeeps ==
  ASSUME IndInv, WriteFails
  PROVE  IndInv'
  <1> USE DEF IndInv, WriteFails, flow, stream, refs, far
  <1>1. TypeOK'
    BY DEF TypeOK, UserCode
  <1>2. StreamInOrder'
    BY DEF StreamInOrder
  <1>3. WritingIffBuffered'
    BY DEF WritingIffBuffered
  <1>4. Closed'
    BY DEF Closed
  <1>5. Batch'
    BY DEF Batch
  <1>6. ReferencesKeepAlive'
    BY DEF ReferencesKeepAlive
  <1>7. QED
    BY <1>1, <1>2, <1>3, <1>4, <1>5, <1>6

(* A connection that is shut down was not closed.                           *)
LEMMA ShutdownWriteKeeps ==
  ASSUME IndInv, ShutdownWrite
  PROVE  IndInv'
  <1> USE DEF IndInv, ShutdownWrite, flow, stream, refs, far
  <1>1. TypeOK'
    BY DEF TypeOK
  <1>2. StreamInOrder'
    BY DEF StreamInOrder
  <1>3. WritingIffBuffered'
    BY DEF WritingIffBuffered
  <1>4. Closed'
    BY DEF Closed
  <1>5. Batch'
    BY DEF Batch
  <1>6. ReferencesKeepAlive'
    BY DEF ReferencesKeepAlive
  <1>7. QED
    BY <1>1, <1>2, <1>3, <1>4, <1>5, <1>6

(* The application refers to an object that exists.                         *)
LEMMA HoldKeeps ==
  ASSUME IndInv, Hold
  PROVE  IndInv'
  <1> USE DEF IndInv, Hold, flow, stream, refs, far
  <1>1. TypeOK'
    BY DEF TypeOK, DropsTo
  <1>2. StreamInOrder'
    BY DEF StreamInOrder
  <1>3. WritingIffBuffered'
    BY DEF WritingIffBuffered
  <1>4. Closed'
    BY DEF Closed, DropsTo
  <1>5. Batch'
    BY DEF Batch, DropsTo
  <1>6. ReferencesKeepAlive'
    BY DEF ReferencesKeepAlive, DropsTo
  <1>7. QED
    BY <1>1, <1>2, <1>3, <1>4, <1>5, <1>6

(* Between two polls the pool may be the last to refer to it.               *)
LEMMA ReleaseKeeps ==
  ASSUME IndInv, Release
  PROVE  IndInv'
  <1> USE DEF IndInv, Release, flow, stream, refs, far
  <1>1. TypeOK'
    BY DEF TypeOK, DropsTo, UserCode
  <1>2. StreamInOrder'
    BY DEF StreamInOrder
  <1>3. WritingIffBuffered'
    BY DEF WritingIffBuffered
  <1>4. Closed'
    BY DEF Closed, DropsTo, UserCode
  <1>5. Batch'
    BY DEF Batch, UserCode
  <1>6. ReferencesKeepAlive'
    BY DEF ReferencesKeepAlive, DropsTo
  <1>7. QED
    BY <1>1, <1>2, <1>3, <1>4, <1>5, <1>6

(* Nothing was closed before the connection was announced.                  *)
LEMMA ConnectedHandleKeeps ==
  ASSUME IndInv, ConnectedHandle
  PROVE  IndInv'
  <1> USE DEF IndInv, ConnectedHandle, flow, stream, refs, far
  <1>1. TypeOK'
    BY DEF TypeOK, ConnectedMask
  <1>2. StreamInOrder'
    BY DEF StreamInOrder
  <1>3. WritingIffBuffered'
    BY DEF Closed, WritingIffBuffered, ConnectedMask
  <1>4. Closed'
    BY DEF Closed, Batch
  <1>5. Batch'
    BY DEF Batch
  <1>6. ReferencesKeepAlive'
    BY DEF Closed, ReferencesKeepAlive
  <1>7. QED
    BY <1>1, <1>2, <1>3, <1>4, <1>5, <1>6

(* epoll reports room only of an event that is writing.                     *)
LEMMA PollKeeps ==
  ASSUME IndInv, Poll
  PROVE  IndInv'
  <1> USE DEF IndInv, Poll, flow, stream, refs, far
  <1>0. /\ todo' \in Batches
        /\ todo' \in Seq({"read", "write", "error"})
        /\ todo' = <<"error">> => socketError
        /\ todo' \in {<<"write">>, <<"read", "write">>} => "out" \in mask
    BY ReportedBatch, BatchesTyped
  <1>1. TypeOK'
    BY <1>0 DEF TypeOK
  <1>2. StreamInOrder'
    BY DEF StreamInOrder
  <1>3. WritingIffBuffered'
    BY DEF WritingIffBuffered
  <1>4. Closed'
    BY DEF Closed
  <1>5. Batch'
    BY <1>0 DEF Batch
  <1>6. ReferencesKeepAlive'
    BY DEF ReferencesKeepAlive
  <1>7. QED
    BY <1>1, <1>2, <1>3, <1>4, <1>5, <1>6

(* Only room can be left of the batch.                                      *)
LEMMA ReadSomeKeeps ==
  ASSUME IndInv, ReadSome
  PROVE  IndInv'
  <1> USE DEF IndInv, ReadSome, flow, stream, refs, far
  <1>0. Rest(todo, todo')
    BY Called
  <1>1. TypeOK'
    BY <1>0 DEF Rest, TypeOK
  <1>2. StreamInOrder'
    BY DEF StreamInOrder
  <1>3. WritingIffBuffered'
    BY DEF WritingIffBuffered
  <1>4. Closed'
    BY DEF Closed
  <1>5. Batch'
    BY <1>0 DEF Rest, Batch
  <1>6. ReferencesKeepAlive'
    BY DEF Closed, ReferencesKeepAlive, Calling
  <1>7. QED
    BY <1>1, <1>2, <1>3, <1>4, <1>5, <1>6

(* closeEvent closes once.                                                  *)
LEMMA ReadEndKeeps ==
  ASSUME IndInv, ReadEnd
  PROVE  IndInv'
  <1> USE DEF IndInv, ReadEnd, flow, stream, refs, far
  <1>0. Rest(todo, todo')
    BY Called
  <1>1. TypeOK'
    <2>1. closes' \in 0..1
      BY DEF TypeOK, Closed, CloseEvent, Closable
    <2>2. /\ state' \in {"Disconnected", "Connected", "Disconnecting"}
          /\ loop' \in {"accept", "poll", "handle", "callback", "undefined"}
          /\ callback' \in {"none", "connect", "message", "close"}
      BY DEF TypeOK, CloseEvent
    <2>3. QED
      BY <1>0, <2>1, <2>2 DEF TypeOK, Rest
  <1>2. StreamInOrder'
    BY DEF StreamInOrder
  <1>3. WritingIffBuffered'
    BY DEF WritingIffBuffered
  <1>4. Closed'
    BY DEF TypeOK, Closed, CloseEvent, Closable
  <1>5. Batch'
    BY <1>0 DEF Rest, Batch, CloseEvent
  <1>6. ReferencesKeepAlive'
    BY DEF ReferencesKeepAlive, Calling, CloseEvent
  <1>7. QED
    BY <1>1, <1>2, <1>3, <1>4, <1>5, <1>6

(* Only the first branch is ever taken.                                     *)
LEMMA WriteEventKeeps ==
  ASSUME IndInv, WriteEvent
  PROVE  IndInv'
  <1> USE DEF IndInv, WriteEvent, flow, stream, refs, far
  <1>0. Rest(todo, todo')
    BY Called
  <1>1. TypeOK'
    BY <1>0 DEF Rest, TypeOK, Batch, Calling, IsWriting
  <1>2. StreamInOrder'
    BY DEF StreamInOrder, WritingIffBuffered, IsWriting
  <1>3. WritingIffBuffered'
    BY DEF WritingIffBuffered
  <1>4. Closed'
    BY DEF TypeOK, Closed, Calling, CloseEvent, Closable
  <1>5. Batch'
    BY <1>0 DEF Rest, Batch, Calling
  <1>6. ReferencesKeepAlive'
    BY DEF ReferencesKeepAlive, Calling, CloseEvent
  <1>7. QED
    BY <1>1, <1>2, <1>3, <1>4, <1>5, <1>6

(* closeEvent closes once.                                                  *)
LEMMA ErrorEventKeeps ==
  ASSUME IndInv, ErrorEvent
  PROVE  IndInv'
  <1> USE DEF IndInv, ErrorEvent, flow, stream, refs, far
  <1>0. Rest(todo, todo')
    BY Called
  <1>1. TypeOK'
    BY <1>0 DEF Rest, TypeOK, Closed, CloseEvent, Closable
  <1>2. StreamInOrder'
    BY DEF StreamInOrder
  <1>3. WritingIffBuffered'
    BY DEF WritingIffBuffered
  <1>4. Closed'
    BY DEF TypeOK, Closed, CloseEvent, Closable
  <1>5. Batch'
    BY <1>0 DEF Rest, Batch, Calling
  <1>6. ReferencesKeepAlive'
    BY DEF ReferencesKeepAlive, Calling, CloseEvent
  <1>7. QED
    BY <1>1, <1>2, <1>3, <1>4, <1>5, <1>6

(* The pool gives a connection up after closeCallback only.                 *)
LEMMA CallbackReturnsKeeps ==
  ASSUME IndInv, CallbackReturns
  PROVE  IndInv'
  <1> USE DEF IndInv, CallbackReturns, flow, stream, refs, far
  <1>1. TypeOK'
    BY DEF TypeOK, DropsTo, PooledAfter
  <1>2. StreamInOrder'
    BY DEF StreamInOrder
  <1>3. WritingIffBuffered'
    BY DEF WritingIffBuffered
  <1>4. Closed'
    BY DEF Closed, DropsTo, PooledAfter
  <1>5. Batch'
    BY DEF Closed, Batch
  <1>6. ReferencesKeepAlive'
    BY DEF ReferencesKeepAlive, DropsTo, PooledAfter
  <1>7. QED
    BY <1>1, <1>2, <1>3, <1>4, <1>5, <1>6

(* What is left for an object that is gone is the write callback.           *)
LEMMA CallsTheDeadKeeps ==
  ASSUME IndInv, CallsTheDead
  PROVE  IndInv'
  <1> USE DEF IndInv, CallsTheDead, flow, stream, refs, far
  <1>1. TypeOK'
    BY DEF TypeOK
  <1>2. StreamInOrder'
    BY DEF StreamInOrder
  <1>3. WritingIffBuffered'
    BY DEF WritingIffBuffered
  <1>4. Closed'
    BY DEF Closed
  <1>5. Batch'
    BY DEF Batch
  <1>6. ReferencesKeepAlive'
    BY DEF Closed, Batch, ReferencesKeepAlive, WritingIffBuffered
  <1>7. QED
    BY <1>1, <1>2, <1>3, <1>4, <1>5, <1>6

(* The batch is through.                                                    *)
LEMMA HandledKeeps ==
  ASSUME IndInv, Handled
  PROVE  IndInv'
  <1> USE DEF IndInv, Handled, flow, stream, refs, far
  <1>1. TypeOK'
    BY DEF TypeOK
  <1>2. StreamInOrder'
    BY DEF StreamInOrder
  <1>3. WritingIffBuffered'
    BY DEF WritingIffBuffered
  <1>4. Closed'
    BY DEF Closed
  <1>5. Batch'
    BY DEF Batch
  <1>6. ReferencesKeepAlive'
    BY DEF ReferencesKeepAlive
  <1>7. QED
    BY <1>1, <1>2, <1>3, <1>4, <1>5, <1>6

-----------------------------------------------------------------------------

LEMMA StepsKeep == IndInv /\ [Next]_vars => IndInv'
  <1> SUFFICES ASSUME IndInv, [Next]_vars PROVE IndInv'
    OBVIOUS
  <1>1. CASE LoopStep
    BY <1>1, ConnectedHandleKeeps, PollKeeps, ReadSomeKeeps, ReadEndKeeps,
       WriteEventKeeps, ErrorEventKeeps, CallbackReturnsKeeps,
       CallsTheDeadKeeps, HandledKeeps
       DEF LoopStep
  <1>2. CASE UserStep
    BY <1>2, TcpConnectionAssumption, WriteFailsKeeps, ShutdownWriteKeeps,
       HoldKeeps, ReleaseKeeps, WriteDirectKeeps, WriteBufferedKeeps
       DEF UserStep
  <1>3. CASE PeerSends \/ PeerFinishes \/ PeerResets
    BY <1>3, PeerSendsKeeps, PeerFinishesKeeps, PeerResetsKeeps
  <1>4. CASE UNCHANGED vars
    BY <1>4 DEF IndInv, TypeOK, StreamInOrder, WritingIffBuffered, Closed, Batch,
                ReferencesKeepAlive, vars, Calling
  <1>5. QED
    BY <1>1, <1>2, <1>3, <1>4 DEF Next

LEMMA Inductive == Spec => []IndInv
  BY Initially, StepsKeep, PTL DEF Spec

(* Every variable of a connection keeps its type: it is closed once at most,*)
(* and its counters stay within their bounds.                               *)
THEOREM Typing == Spec => []TypeOK
  BY Inductive, PTL DEF IndInv

(* The bytes the socket took and those that wait are what was written, in   *)
(* order, each once (tcpConnect.cpp:183).                                   *)
THEOREM StreamKept == Spec => []StreamInOrder
  BY Inductive, PTL DEF IndInv

(* Room is waited for exactly while bytes wait (tcpConnect.cpp:98-100,      *)
(* 210-216).                                                                *)
THEOREM WritingKept == Spec => []WritingIffBuffered
  BY Inductive, PTL DEF IndInv

(* The object lives while somebody refers to it, a closed connection leaves *)
(* the pool, and only the write callback of the batch that closed it can    *)
(* reach an object that is gone (event.cpp:127).                            *)
THEOREM LifetimeKept == Spec => []ReferencesKeepAlive
  BY Inductive, PTL DEF IndInv

(* A connection that was closed stays closed, is not written to, and is     *)
(* not closed again (tcpConnect.cpp:122-133, 178).                          *)
THEOREM StaysClosed == Spec => ClosedForGood
  <1>1. IndInv /\ [Next]_vars =>
          [closes > 0 => closes' = closes /\ state' = state /\ sent' = sent]_vars
    <2> SUFFICES ASSUME IndInv, Next, closes > 0
                 PROVE  closes' = closes /\ state' = state /\ sent' = sent
      OBVIOUS
    <2> USE DEF IndInv, flow, stream, refs, far
    <2>1. state = "Disconnected" /\ loop # "accept"
      BY DEF Closed
    <2>2. CASE LoopStep
      <3>1. CASE WriteEvent
        BY <2>1, <3>1, Called
           DEF WriteEvent, CloseEvent, Closable, Calling, Batch, Rest, IsWriting
      <3>2. QED
        BY <2>1, <2>2, <3>1
           DEF LoopStep, ConnectedHandle, Poll, ReadSome, ReadEnd, ErrorEvent,
               CallbackReturns, CallsTheDead, Handled, CloseEvent, Closable
    <2>3. CASE UserStep
      BY <2>1, <2>3
         DEF UserStep, WriteFails, ShutdownWrite, Hold, Release, WriteDirect,
             WriteBuffered, MayWrite
    <2>4. CASE PeerSends \/ PeerFinishes \/ PeerResets
      BY <2>4 DEF PeerSends, PeerFinishes, PeerResets
    <2>5. QED
      BY <2>2, <2>3, <2>4 DEF Next
  <1>2. QED
    BY <1>1, Inductive, PTL DEF Spec, ClosedForGood

(* What the buffer once holds stays there, and holds back all that comes    *)
(* after it: writeEvent, the one reader of the buffer, refuses to work      *)
(* whenever it is called, because the event is writing while bytes wait     *)
(* (tcpConnect.cpp:88-92).                                                  *)
BufferedBytesStay ==
  [][writeBuf # <<>> => writeBuf' # <<>> /\ sent' = sent]_vars

THEOREM NothingLeavesTheBuffer == Spec => BufferedBytesStay
  <1>1. IndInv /\ [Next]_vars =>
          [writeBuf # <<>> => writeBuf' # <<>> /\ sent' = sent]_vars
    <2> SUFFICES ASSUME IndInv, Next, writeBuf # <<>>
                 PROVE  writeBuf' # <<>> /\ sent' = sent
      OBVIOUS
    <2> USE DEF IndInv, flow, stream, refs, far
    <2>1. "out" \in mask
      BY DEF WritingIffBuffered
    <2>2. CASE LoopStep
      BY <2>1, <2>2
         DEF LoopStep, ConnectedHandle, Poll, ReadSome, ReadEnd, WriteEvent,
             IsWriting, ErrorEvent, CallbackReturns, CallsTheDead, Handled
    <2>3. CASE UserStep
      <3>1. ASSUME NEW len \in 0..MaxGiven, WriteBuffered(len)
            PROVE  writeBuf' # <<>> /\ sent' = sent
        <4>1. len \in Nat /\ given + len <= MaxGiven
          BY <3>1 DEF WriteBuffered
        <4>2. writeBuf \in Seq(Bytes) /\ Data(len) \in Seq(Bytes)
          BY <4>1, DataContinues DEF TypeOK, Bytes
        <4>3. writeBuf \o Data(len) # <<>>
          BY <4>2, ConcatEmptySeq, ConcatProperties, EmptySeq, LenProperties
        <4>4. QED
          BY <3>1, <4>3 DEF WriteBuffered, Kept
      <3>2. QED
        BY <2>1, <2>3, <3>1
           DEF UserStep, WriteFails, ShutdownWrite, Hold, Release, WriteDirect, Direct
    <2>4. CASE PeerSends \/ PeerFinishes \/ PeerResets
      BY <2>4 DEF PeerSends, PeerFinishes, PeerResets
    <2>5. QED
      BY <2>2, <2>3, <2>4 DEF Next
  <1>2. QED
    BY <1>1, Inductive, PTL DEF Spec, BufferedBytesStay

(* Every poll reports the end of a peer until the connection has been       *)
(* closed: the part of EndIsNoticed that needs no fairness                  *)
(* (tcpConnect.cpp:122-133, 150-155).                                       *)
THEOREM EndStaysReported == Spec => []EndReported
  <1> DEFINE ReadingKept == loop # "accept" => "in" \in mask
  <1>1. Init => ReadingKept
    BY DEF Init
  <1>2. ReadingKept /\ [Next]_vars => ReadingKept'
    <2> SUFFICES ASSUME ReadingKept, [Next]_vars PROVE ReadingKept'
      OBVIOUS
    <2> USE DEF flow, stream
    <2>1. CASE LoopStep
      BY <2>1
         DEF LoopStep, ConnectedHandle, ConnectedMask, Poll, ReadSome, ReadEnd,
             WriteEvent, ErrorEvent, Calling, CallbackReturns, CallsTheDead, Handled
    <2>2. CASE UserStep
      BY <2>2
         DEF UserStep, WriteFails, ShutdownWrite, Hold, Release, WriteDirect,
             WriteBuffered, Kept
    <2>3. CASE PeerSends \/ PeerFinishes \/ PeerResets
      BY <2>3 DEF PeerSends, PeerFinishes, PeerResets
    <2>4. CASE UNCHANGED vars
      BY <2>4 DEF vars
    <2>5. QED
      BY <2>1, <2>2, <2>3, <2>4 DEF Next
  <1>3. IndInv /\ ReadingKept => EndReported
    BY DEF IndInv, Closed, ReferencesKeepAlive, EndReported, Reported
  <1>4. QED
    BY <1>1, <1>2, <1>3, Inductive, PTL DEF Spec
=============================================================================
