--------------------------- MODULE TcpServerProofs ---------------------------
(***************************************************************************)
(* Theorems about TcpServer, for any number of connections, addresses and  *)
(* threads: the pool keeps every connection from before its first event    *)
(* until its close callback has returned, and handlers find their object.  *)
(* And about the ThreadPool a server takes its loops from, for every       *)
(* number of threads: no thread runs before its object is complete, the    *)
(* pool holds each thread's own loop, and the round is even.               *)
(***************************************************************************)
EXTENDS TcpServer, ThreadPool, SequenceTheorems, TLAPS

-----------------------------------------------------------------------------
(* The server.                                                             *)

(* What the thread that is doing it knows of a connection.  Only the main   *)
(* thread makes connections; only a connection's own loop handles it.       *)
Stations ==
  \A t \in Threads :
    LET stage == at[t][1]
        c == at[t][2]
    IN  stage # "poll" =>
          /\ c \in Conns /\ name[c] # None
          /\ stage \in {"insert", "connect", "announce"} => t = Main
          /\ stage \in {"event", "handle", "message", "close", "erase"} => owner[c] = t
          /\ stage \in {"insert", "connect"} =>
               state[c] = "Disconnected" /\ c \notin closed
          /\ stage \in {"close", "erase"} => c \in closed

(* Only within Event::handle is there something left for it to call.        *)
Settled ==
  \A t \in Threads :
    at[t][1] \in {"poll", "insert", "connect", "announce"} => todo[t] = <<>>

(* A connection is made, connected and closed, in this order.               *)
Lives ==
  \A c \in Conns :
    /\ name[c] = None =>
         owner[c] = None /\ c \notin closed /\ state[c] = "Disconnected"
    /\ name[c] # None =>
         c \in closed \/ state[c] = "Connected" \/ In({"insert", "connect"}, c)
    /\ c \in closed => state[c] = "Disconnected"
    /\ owner[c] \in OneLoopFromPool \cup {None}

(* On a single thread nothing comes between an event and its first handler. *)
AloneSafe ==
  loops = {} => \A c \in Conns : at[Main] = <<"event", c>> => Alive(c)

(* A connection is named by its address.                                    *)
Named ==
  \A c \in Conns :
    IF address[c] = None THEN name[c] = None ELSE name[c] = toString(address[c])

IndInv ==
  TypeOK /\ Named /\ Stations /\ Settled /\ Lives /\ PoolServes /\ AloneSafe

-----------------------------------------------------------------------------

(* What exchanging the bytes of a number of 16 bits gives.                  *)
LEMMA BytesExchanged ==
  ASSUME NEW h \in 0..255, NEW l \in 0..255
  PROVE  (((h + 256 * l) * 256) % 65536) + ((h + 256 * l) \div 256) = 256 * h + l
  <1>1. (h + 256 * l) * 256 = 256 * h + 65536 * l
    OBVIOUS
  <1>2. (256 * h + 65536 * l) % 65536 = 256 * h
    OBVIOUS
  <1>3. (h + 256 * l) \div 256 = l
    OBVIOUS
  <1>4. QED
    BY <1>1, <1>2, <1>3

(* Two addresses with the same text are the same address, on every build    *)
(* (socketOperation.cpp:205-220): the pool may be keyed by it.              *)
THEOREM TextTellsApart ==
  ASSUME NEW a \in SockAddrs, NEW b \in SockAddrs, toString(a) = toString(b)
  PROVE  a = b
  <1>1. a.ip = b.ip /\ PortShown(a) = PortShown(b)
    <2>1. toString(a).ip = toString(b).ip /\ toString(a).port = toString(b).port
      OBVIOUS
    <2>2. QED
      BY <2>1 DEF toString
  <1>2. /\ a.port \in [1..2 -> 0..255] /\ b.port \in [1..2 -> 0..255]
    BY DEF SockAddrs, Octets
  <1>3. a.port[1] = b.port[1] /\ a.port[2] = b.port[2]
    <2> /\ a.port[1] \in 0..255 /\ a.port[2] \in 0..255
        /\ b.port[1] \in 0..255 /\ b.port[2] \in 0..255
      BY <1>2
    <2>1. PICK h \in 0..255, l \in 0..255 : a.port[1] = h /\ a.port[2] = l
      BY Zenon
    <2>2. PICK k \in 0..255, m \in 0..255 : b.port[1] = k /\ b.port[2] = m
      BY Zenon
    <2>3. \/ 256 * h + l = 256 * k + m
          \/ 256 * l + h = 256 * m + k
      <3>1. CASE LittleEndian
        <4>1. sin_port(a) = h + 256 * l /\ sin_port(b) = k + 256 * m
          BY <2>1, <2>2, <3>1 DEF sin_port
        <4>2. PortShown(a) = (((h + 256 * l) * 256) % 65536) + ((h + 256 * l) \div 256)
          BY <4>1 DEF PortShown
        <4>3. PortShown(b) = (((k + 256 * m) * 256) % 65536) + ((k + 256 * m) \div 256)
          BY <4>1 DEF PortShown
        <4>4. PortShown(a) = 256 * h + l
          BY <4>2, BytesExchanged
        <4>5. PortShown(b) = 256 * k + m
          BY <4>3, BytesExchanged
        <4>6. QED
          BY <1>1, <4>4, <4>5
      <3>2. CASE ~ LittleEndian
        <4>1. sin_port(a) = l + 256 * h /\ sin_port(b) = m + 256 * k
          BY <2>1, <2>2, <3>2 DEF sin_port
        <4>2. PortShown(a) = (((l + 256 * h) * 256) % 65536) + ((l + 256 * h) \div 256)
          BY <4>1 DEF PortShown
        <4>3. PortShown(b) = (((m + 256 * k) * 256) % 65536) + ((m + 256 * k) \div 256)
          BY <4>1 DEF PortShown
        <4>4. PortShown(a) = 256 * l + h
          BY <4>2, BytesExchanged
        <4>5. PortShown(b) = 256 * m + k
          BY <4>3, BytesExchanged
        <4>6. QED
          BY <1>1, <4>4, <4>5
      <3>3. QED
        BY <3>1, <3>2
    <2>4. h = k /\ l = m
      BY <2>3
    <2>5. QED
      BY <2>1, <2>2, <2>4
  <1>4. a.port = b.port
    BY <1>2, <1>3
  <1>5. QED
    BY <1>1, <1>4 DEF SockAddrs

(* What becomes of the address a server is given in four numbers and a port *)
(* (socketOperation.cpp:148-194): on a little-endian build the socket is    *)
(* bound to its bytes in the opposite order; on a big-endian one the text   *)
(* of the address shows the wrong port.                                     *)
THEOREM GivenAddressShown ==
  ASSUME NEW o \in [1..4 -> Octets], NEW p \in Nat, p < 65536
  PROVE  LET text == [k \in 1..4 |-> {o[k]}]
             shown == toString(ToAddrIpv4(text, p))
         IN  /\ IsIpv4(text)
             /\ \A k \in 1..4 : shown.ip[k] = IF LittleEndian THEN o[5 - k] ELSE o[k]
             /\ shown.port = IF LittleEndian THEN p ELSE 256 * (p % 256) + (p \div 256)
  <1> DEFINE text == [k \in 1..4 |-> {o[k]}]
             a == ToAddrIpv4(text, p)
  <1>1. \A k \in 1..4 : Uint16(Read(text[k])) = o[k]
    <2> TAKE k \in 1..4
    <2>1. Read(text[k]) = o[k]
      BY DEF Read
    <2>2. o[k] \in 0..255
      BY DEF Octets
    <2>3. QED
      BY <2>1, <2>2 DEF Uint16
  <1>2. IsIpv4(text)
    BY <1>1 DEF IsIpv4
  <1>3. \A k \in 1..4 : toString(a).ip[k] = IF LittleEndian THEN o[5 - k] ELSE o[k]
    <2> TAKE k \in 1..4
    <2>1. toString(a).ip[k] = Uint16(Read(text[InMemory(k)]))
      BY DEF toString, ToAddrIpv4
    <2>2. InMemory(k) \in 1..4
      BY DEF InMemory
    <2>3. toString(a).ip[k] = o[InMemory(k)]
      BY <1>1, <2>1, <2>2
    <2>4. QED
      BY <2>3 DEF InMemory
  <1>4. toString(a).port = IF LittleEndian THEN p ELSE 256 * (p % 256) + (p \div 256)
    <2>1. PICK h \in 0..255, l \in 0..255 : p = 256 * h + l
      <3>1. p \div 256 \in 0..255
        OBVIOUS
      <3>2. p % 256 \in 0..255
        OBVIOUS
      <3>3. p = 256 * (p \div 256) + (p % 256)
        OBVIOUS
      <3> WITNESS p \div 256 \in 0..255, p % 256 \in 0..255
      <3>4. QED
        BY <3>3
    <2>2. p \div 256 = h /\ p % 256 = l
      BY <2>1
    <2>3. a.port[1] = h /\ a.port[2] = l
      BY <2>2 DEF ToAddrIpv4, htons
    <2>4. toString(a).port = PortShown(a)
      BY DEF toString
    <2>5. CASE LittleEndian
      <3>1. sin_port(a) = h + 256 * l
        BY <2>3, <2>5 DEF sin_port
      <3>2. PortShown(a) = (((h + 256 * l) * 256) % 65536) + ((h + 256 * l) \div 256)
        BY <3>1 DEF PortShown
      <3>3. QED
        BY <2>1, <2>4, <2>5, <3>2, BytesExchanged
    <2>6. CASE ~ LittleEndian
      <3>1. sin_port(a) = l + 256 * h
        BY <2>3, <2>6 DEF sin_port
      <3>2. PortShown(a) = (((l + 256 * h) * 256) % 65536) + ((l + 256 * h) \div 256)
        BY <3>1 DEF PortShown
      <3>3. PortShown(a) = 256 * l + h
        BY <3>2, BytesExchanged
      <3>4. QED
        BY <2>2, <2>4, <2>6, <3>3
    <2>7. QED
      BY <2>5, <2>6
  <1>5. QED
    BY <1>2, <1>3, <1>4

(* So do the names of two connections.                                      *)
LEMMA NamesTellApart ==
  ASSUME TypeOK, Named, NEW c \in Conns, NEW d \in Conns, name[c] # None, name[c] = name[d]
  PROVE  address[c] \in Peers /\ address[c] = address[d]
  <1>1. address[c] \in Peers /\ address[d] \in Peers
    BY DEF TypeOK, Named
  <1>2. toString(address[c]) = toString(address[d])
    BY <1>1, TcpServerAssumption DEF Named
  <1>3. QED
    BY <1>1, <1>2, TextTellsApart, TcpServerAssumption

-----------------------------------------------------------------------------

LEMMA CallsFacts ==
  ASSUME NEW revents
  PROVE  Calls(revents, Handlers) \in Seq(Handlers)
  <1>1. \A h \in Handlers : Call(h, Handlers) \in Seq(Handlers)
    BY DEF Call
  <1>2. <<>> \in Seq(Handlers)
    BY EmptySeq
  <1>3. /\ Call("read", Handlers) \in Seq(Handlers)
        /\ Call("write", Handlers) \in Seq(Handlers)
        /\ Call("error", Handlers) \in Seq(Handlers)
    BY <1>1 DEF Handlers
  <1>4. \A x, y, z \in Seq(Handlers) : x \o y \o z \in Seq(Handlers)
    BY ConcatProperties
  <1>5. QED
    BY <1>2, <1>3, <1>4 DEF Calls

LEMMA TailFacts ==
  ASSUME TypeOK, NEW t \in Threads, todo[t] # <<>>
  PROVE  Tail(todo[t]) \in Seq(Handlers)
  BY HeadTailProperties DEF TypeOK

LEMMA Initially == Init => IndInv
  <1> SUFFICES ASSUME Init PROVE IndInv
    OBVIOUS
  <1> USE TcpServerAssumption DEF Init, Idle, Threads
  <1>n. Named
    BY DEF Named, TypeOK
  <1>1. TypeOK
    <2>1. <<>> \in Seq(Handlers)
      BY EmptySeq
    <2>2. QED
      BY <2>1 DEF TypeOK, Stages
  <1>2. Stations
    BY DEF Stations
  <1>s. Settled
    BY DEF Settled
  <1>3. Lives
    BY DEF Lives
  <1>4. PoolServes
    BY DEF PoolServes, Served, Pooled, In
  <1>5. AloneSafe
    BY DEF AloneSafe
  <1>6. QED
    BY <1>1, <1>n, <1>2, <1>s, <1>3, <1>4, <1>5 DEF IndInv

(* The peer moves nothing of the server.                                    *)
LEMMA PeerLeavesKeeps ==
  ASSUME IndInv, NEW c \in Conns, PeerLeaves(c)
  PROVE  IndInv'
  <1> USE DEF IndInv, PeerLeaves, object
  <1>n. Named'
    BY DEF Named, TypeOK
  <1>1. TypeOK'
    BY DEF TypeOK
  <1>2. Stations'
    BY DEF Stations
  <1>s. Settled'
    BY DEF Settled, TypeOK, Idle
  <1>3. Lives'
    BY DEF OneLoopFromPool, Lives, In
  <1>4. PoolServes'
    BY DEF In, Served, Pooled, PoolServes
  <1>5. AloneSafe'
    BY DEF In, Alive, Pooled, AloneSafe
  <1>6. QED
    BY <1>1, <1>n, <1>2, <1>s, <1>3, <1>4, <1>5

(* No thread is busy with an object that has yet to be made.                *)
LEMMA AcceptKeeps ==
  ASSUME IndInv, NEW c \in Conns, NEW a \in Peers, Accept(c, a)
  PROVE  IndInv'
  <1> USE DEF IndInv, Accept, Goes
  <1>a. a # None /\ toString(a) \in Names /\ toString(a) # None
    BY TcpServerAssumption DEF Names
  <1>n. Named'
    BY <1>a DEF Named, TypeOK
  <1>1. TypeOK'
    BY <1>a, TcpServerAssumption DEF Threads, TypeOK, Stages, OneLoopFromPool
  <1>2. Stations'
    BY <1>a, TcpServerAssumption DEF TypeOK, Stations, Lives
  <1>s. Settled'
    BY DEF Settled, TypeOK, Idle
  <1>3. Lives'
    BY <1>a, TcpServerAssumption
       DEF Threads, Idle, TypeOK, OneLoopFromPool, Lives, In
  <1>4. PoolServes'
    BY <1>a DEF Idle, Stations, Lives, In, Served, Pooled, PoolServes
  <1>5. AloneSafe'
    BY DEF In, Alive, Pooled, AloneSafe
  <1>6. QED
    BY <1>1, <1>n, <1>2, <1>s, <1>3, <1>4, <1>5

(* The name was free and now leads to c, or is one of those used again.     *)
LEMMA InsertKeeps ==
  ASSUME IndInv, NEW c \in Conns, Insert(c)
  PROVE  IndInv'
  <1> USE DEF IndInv, Insert, Goes, object
  <1>a. name[c] # None /\ address[c] \in Peers
    BY DEF TypeOK, Stations, Named, Threads
  <1>n. Named'
    BY DEF Named, TypeOK
  <1>1. TypeOK'
    BY <1>a DEF Threads, TypeOK, Stages, Inserted, Key
  <1>2. Stations'
    BY DEF Stations
  <1>s. Settled'
    BY DEF Settled, TypeOK, Idle
  <1>3. Lives'
    BY DEF OneLoopFromPool, Lives, In
  <1>4. PoolServes'
    <2>1. connectPool[name[c]] # None => address[c] \in reused'
      <3>1. SUFFICES ASSUME NEW d \in Conns, connectPool[name[c]] = d
                     PROVE  address[c] \in reused'
        BY <1>a DEF TypeOK
      <3>2. name[d] = name[c] /\ Pooled(d)
        BY <1>a, <3>1, TcpServerAssumption DEF TypeOK, Pooled
      <3>3. QED
        BY <1>a, <3>2, NamesTellApart
    <2>2. QED
      BY <1>a, <2>1, TcpServerAssumption DEF Threads, TypeOK, Inserted, Key,
         Stations, In, Served, Pooled, PoolServes
  <1>5. AloneSafe'
    BY DEF AloneSafe
  <1>6. QED
    BY <1>1, <1>n, <1>2, <1>s, <1>3, <1>4, <1>5

(* It is in the pool already.                                               *)
LEMMA ConnectedKeeps ==
  ASSUME IndInv, NEW c \in Conns, Connected(c)
  PROVE  IndInv'
  <1> USE DEF IndInv, Connected, Goes, object
  <1>n. Named'
    BY DEF Named, TypeOK
  <1>1. TypeOK'
    BY DEF TypeOK, Stages
  <1>2. Stations'
    BY DEF TypeOK, Stations
  <1>s. Settled'
    BY DEF Settled, TypeOK, Idle
  <1>3. Lives'
    BY DEF Threads, TypeOK, Stations, OneLoopFromPool, Lives, In
  <1>4. PoolServes'
    BY DEF Threads, In, Served, Pooled, PoolServes
  <1>5. AloneSafe'
    BY DEF AloneSafe
  <1>6. QED
    BY <1>1, <1>n, <1>2, <1>s, <1>3, <1>4, <1>5

(* A handler starts on a connection that exists.                            *)
LEMMA EventKeeps ==
  ASSUME IndInv, NEW c \in Conns, Event(c)
  PROVE  IndInv'
  <1> USE DEF IndInv, Event, Goes, object
  <1>n. Named'
    BY DEF Named, TypeOK
  <1>1. TypeOK'
    BY CallsFacts DEF TypeOK, Stages
  <1>2. Stations'
    BY DEF Stations, Lives
  <1>s. Settled'
    BY DEF Settled, TypeOK, Idle
  <1>3. Lives'
    BY DEF Idle, OneLoopFromPool, Lives, In
  <1>4. PoolServes'
    BY DEF Idle, In, Served, Pooled, PoolServes
  <1>5. AloneSafe'
    BY DEF Idle, In, Alive, Pooled, AloneSafe
  <1>6. QED
    BY <1>1, <1>n, <1>2, <1>s, <1>3, <1>4, <1>5

(* The callback's own reference keeps the connection.                       *)
LEMMA MessageKeeps ==
  ASSUME IndInv, NEW t \in Threads, NEW c \in Conns, Message(t, c)
  PROVE  IndInv'
  <1> USE DEF IndInv, Message, Goes, object
  <1>n. Named'
    BY DEF Named, TypeOK
  <1>1. TypeOK'
    BY TailFacts DEF Calling, Onward, Idle, TypeOK, Stages
  <1>2. Stations'
    BY DEF Calling, Onward, Stations
  <1>s. Settled'
    BY DEF Settled, TypeOK, Idle, Calling, Onward
  <1>3. Lives'
    BY DEF Calling, Onward, OneLoopFromPool, Lives, In
  <1>4. PoolServes'
    BY DEF Calling, Onward, In, Served, Pooled, PoolServes
  <1>5. AloneSafe'
    BY DEF Calling, Onward, In, Alive, Pooled, AloneSafe
  <1>6. QED
    BY <1>1, <1>n, <1>2, <1>s, <1>3, <1>4, <1>5

(* A handler that does nothing to the connection; handle() goes on.         *)
LEMMA OnwardKeeps ==
  ASSUME IndInv, NEW t \in Threads, NEW c \in Conns, NEW handlers,
         Calling(t, c, handlers), at' = [at EXCEPT ![t] = Onward(todo'[t], c)],
         UNCHANGED <<loops, object, state, peer, connectPool, held, closed, reused>>
  PROVE  IndInv'
  <1> USE DEF IndInv, Calling, object
  <1>a. /\ at \in [Threads -> Stages \X (Conns \cup {None})]
        /\ at[t] \in {<<"event", c>>, <<"handle", c>>}
        /\ at'[t] = Idle \/ at'[t] = <<"handle", c>>
        /\ \A u \in Threads \ {t} : at'[u] = at[u] /\ todo'[u] = todo[u]
        /\ at'[t] = Idle => todo'[t] = <<>>
    BY DEF TypeOK, Onward, Idle
  <1>b. \A x \in Conns :
          /\ In({"insert", "connect"}, x)' <=> In({"insert", "connect"}, x)
          /\ In({"connect", "close", "erase"}, x)' <=> In({"connect", "close", "erase"}, x)
          /\ In({"close", "erase"}, x)' <=> In({"close", "erase"}, x)
    BY <1>a DEF In, Idle
  <1>n. Named'
    BY DEF Named
  <1>1. TypeOK'
    BY TailFacts DEF TypeOK, Onward, Idle, Stages
  <1>2. Stations'
    BY <1>a DEF Stations, Idle
  <1>s. Settled'
    BY <1>a DEF Settled
  <1>3. Lives'
    BY <1>b DEF Lives, OneLoopFromPool
  <1>4. PoolServes'
    BY <1>b DEF PoolServes, Served, Pooled
  <1>5. AloneSafe'
    <2>1. SUFFICES ASSUME loops = {}, NEW x \in Conns, at'[Main] = <<"event", x>>
                   PROVE  Alive(x)'
      BY DEF AloneSafe
    <2>2. CASE t = Main
      BY <1>a, <2>1, <2>2 DEF Idle
    <2>3. CASE t # Main
      <3>1. owner[c] = t /\ t # None /\ t \notin OneLoopFromPool
        BY <1>a, <2>1, <2>3, TcpServerAssumption DEF Stations, OneLoopFromPool, Threads
      <3>2. QED
        BY <3>1 DEF Lives
    <2>4. QED
      BY <2>2, <2>3
  <1>6. QED
    BY <1>1, <1>n, <1>2, <1>s, <1>3, <1>4, <1>5

LEMMA WriteEventKeeps ==
  ASSUME IndInv, NEW t \in Threads, NEW c \in Conns, WriteEvent(t, c)
  PROVE  IndInv'
  BY OnwardKeeps DEF WriteEvent

(* A connection that closes is still in the pool.                           *)
LEMMA CloseEventKeeps ==
  ASSUME IndInv, NEW t \in Threads, NEW c \in Conns, CloseEvent(t, c)
  PROVE  IndInv'
  <1>1. CASE state[c] = "Disconnected"
    BY <1>1, OnwardKeeps DEF CloseEvent
  <1>2. CASE state[c] # "Disconnected"
    <2> USE DEF IndInv
    <2>a. /\ at[t] \in {<<"event", c>>, <<"handle", c>>}
          /\ at' = [at EXCEPT ![t] = <<"close", c>>]
          /\ todo[t] # <<>> /\ todo' = [todo EXCEPT ![t] = Tail(@)]
          /\ state' = [state EXCEPT ![c] = "Disconnected"]
          /\ closed' = closed \cup {c}
          /\ UNCHANGED <<loops, object, peer, connectPool, held, reused>>
      BY <1>2 DEF CloseEvent, Calling, Goes
    <2>b. c \notin closed /\ name[c] # None /\ owner[c] = t
      BY <1>2, <2>a DEF Lives, Stations
    <2>n. Named'
      BY <2>a DEF Named, object
    <2>1. TypeOK'
      BY <2>a, TailFacts DEF TypeOK, Stages, object
    <2>2. Stations'
      <3>1. at'[t] = <<"close", c>> /\ \A u \in Threads \ {t} : at'[u] = at[u]
        BY <2>a DEF TypeOK
      <3>2. \A d \in Conns :
              d # c => state'[d] = state[d] /\ (d \in closed' <=> d \in closed)
        BY <2>a DEF TypeOK
      <3>3. \A u \in Threads : at[u] \notin {<<"insert", c>>, <<"connect", c>>}
        BY <1>2 DEF Stations
      <3>4. SUFFICES ASSUME NEW u \in Threads, at'[u][1] # "poll"
                     PROVE  LET stage == at'[u][1]
                                d == at'[u][2]
                            IN  /\ d \in Conns /\ name[d] # None
                                /\ stage \in {"insert", "connect", "announce"} => u = Main
                                /\ stage \in {"event", "handle", "message", "close", "erase"}
                                     => owner[d] = u
                                /\ stage \in {"insert", "connect"} =>
                                     state'[d] = "Disconnected" /\ d \notin closed'
                                /\ stage \in {"close", "erase"} => d \in closed'
        BY <2>a DEF Stations, object
      <3>5. CASE u = t
        BY <2>a, <2>b, <3>1, <3>5
      <3>6. CASE u # t
        <4>1. at[u] \in Stages \X (Conns \cup {None}) /\ at'[u] = at[u]
          BY <3>1, <3>6 DEF TypeOK
        <4>2. at[u][1] \in {"insert", "connect"} => at[u][2] # c
          BY <3>3, <4>1
        <4>3. QED
          BY <2>a, <3>2, <3>4, <4>1, <4>2 DEF Stations
      <3>7. QED
        BY <3>5, <3>6
    <2>s. Settled'
      BY <2>a DEF Settled, TypeOK
    <2>3. Lives'
      <3>1. \A d \in Conns : d # c => (In({"insert", "connect"}, d)' <=> In({"insert", "connect"}, d))
        BY <2>a DEF In, TypeOK
      <3>2. QED
        BY <2>a, <2>b, <3>1 DEF TypeOK, OneLoopFromPool, Lives, object
    <2>4. PoolServes'
      <3>1. \A d \in Conns :
              d # c => /\ In({"connect", "close", "erase"}, d)' <=> In({"connect", "close", "erase"}, d)
                       /\ In({"close", "erase"}, d)' <=> In({"close", "erase"}, d)
        BY <2>a DEF In, TypeOK
      <3>2. Served(c) /\ In({"close", "erase"}, c)'
        <4>1. state[c] = "Connected"
          BY <1>2 DEF TypeOK
        <4>2. at'[t] = <<"close", c>>
          BY <2>a DEF TypeOK
        <4>3. QED
          BY <4>1, <4>2 DEF Served, In
      <3>3. ASSUME NEW d \in Conns
            PROVE  /\ Served(d)' => Served(d)
                   /\ d # c => (state'[d] = state[d] /\ (d \in closed' <=> d \in closed))
        BY <2>a, <3>1, <3>2 DEF Served, TypeOK
      <3>4. QED
        BY <2>a, <3>1, <3>2, <3>3 DEF PoolServes, Pooled, object
    <2>5. AloneSafe'
      BY <2>a, <2>b, TcpServerAssumption
         DEF Threads, TypeOK, OneLoopFromPool, Lives, AloneSafe, object
    <2>6. QED
      BY <2>1, <2>n, <2>2, <2>s, <2>3, <2>4, <2>5
  <1>3. QED
    BY <1>1, <1>2

(* One reference more.                                                      *)
LEMMA HoldKeeps ==
  ASSUME IndInv, NEW t \in Threads, Hold(t)
  PROVE  IndInv'
  <1> USE DEF IndInv, Hold, object
  <1>n. Named'
    BY DEF Named, TypeOK
  <1>1. TypeOK'
    BY DEF TypeOK, InCallback, Stations
  <1>2. Stations'
    BY DEF Stations
  <1>s. Settled'
    BY DEF Settled, TypeOK, Idle
  <1>3. Lives'
    BY DEF OneLoopFromPool, Lives, In
  <1>4. PoolServes'
    BY DEF In, Served, Pooled, PoolServes
  <1>5. AloneSafe'
    BY DEF In, Alive, Pooled, AloneSafe
  <1>6. QED
    BY <1>1, <1>n, <1>2, <1>s, <1>3, <1>4, <1>5

(* The thread is in a callback, so no handler on it has just begun.         *)
LEMMA ReleaseKeeps ==
  ASSUME IndInv, NEW t \in Threads, NEW c \in Conns, Release(t, c)
  PROVE  IndInv'
  <1> USE DEF IndInv, Release, object
  <1>n. Named'
    BY DEF Named, TypeOK
  <1>1. TypeOK'
    BY DEF TypeOK
  <1>2. Stations'
    BY DEF Stations
  <1>s. Settled'
    BY DEF Settled, TypeOK, Idle
  <1>3. Lives'
    BY DEF OneLoopFromPool, Lives, In
  <1>4. PoolServes'
    BY DEF In, Served, Pooled, PoolServes
  <1>5. AloneSafe'
    BY TcpServerAssumption DEF Threads, InCallback, OneLoopFromPool, Lives,
       AloneSafe
  <1>6. QED
    BY <1>1, <1>n, <1>2, <1>s, <1>3, <1>4, <1>5

(* From the close callback the thread goes on to erase the entry.           *)
LEMMA CallbackReturnsKeeps ==
  ASSUME IndInv, NEW t \in Threads, CallbackReturns(t)
  PROVE  IndInv'
  <1> USE DEF IndInv, CallbackReturns, object
  <1>n. Named'
    BY DEF Named, TypeOK
  <1>1. TypeOK'
    BY DEF Idle, TypeOK, Stages, After, Onward, InCallback
  <1>2. Stations'
    BY DEF Idle, After, Onward, InCallback, Settled, Stations
  <1>s. Settled'
    BY DEF Settled, Stations, TypeOK, Idle, After, InCallback, Onward
  <1>3. Lives'
    BY DEF InCallback, OneLoopFromPool, Lives, In
  <1>4. PoolServes'
    BY DEF Idle, InCallback, After, Onward, In, Served, Pooled, PoolServes
  <1>5. AloneSafe'
    BY DEF Threads, Idle, After, Onward, Stations, In, Alive, Pooled, AloneSafe
  <1>6. QED
    BY <1>1, <1>n, <1>2, <1>s, <1>3, <1>4, <1>5

(* The entry that goes is c's, whose close is handled, or is used again.      *)
LEMMA EraseKeeps ==
  ASSUME IndInv, NEW t \in Threads, NEW c \in Conns, Erase(t, c)
  PROVE  IndInv'
  <1> USE DEF IndInv, Erase, object
  <1>n. Named'
    BY DEF Named, TypeOK
  <1>1. TypeOK'
    BY DEF Idle, TypeOK, Stages, Onward
  <1>2. Stations'
    BY DEF Idle, Onward, Stations
  <1>s. Settled'
    BY DEF Settled, Stations, TypeOK, Idle, After, InCallback, Onward
  <1>3. Lives'
    BY DEF OneLoopFromPool, Lives, In
  <1>4. PoolServes'
    <2>1. \A d \in Conns :
            d # c /\ name[d] # None /\ connectPool[name[d]] = d /\ name[d] = name[c] =>
              address[d] \in reused
      <3>1. name[c] # None /\ Served(c)
        BY DEF Stations, Served, In
      <3>2. QED
        BY <3>1, NamesTellApart DEF PoolServes
    <2>2. \A d \in Conns : d # c => (In({"close", "erase"}, d)' <=> In({"close", "erase"}, d))
      BY DEF In, Idle, Onward, TypeOK
    <2>3. \A d \in Conns : Served(d)' => Served(d)
      BY DEF Served, In, Idle, Onward, TypeOK
    <2>4. c \in closed /\ name[c] # None /\ name[c] \in Names
      BY DEF Stations, TypeOK
    <2>5. \A d \in Conns : connectPool[name[c]] = d => name[d] = name[c]
      BY <2>4, TcpServerAssumption DEF TypeOK
    <2>6. connectPool'[name[c]] = None
          /\ \A n \in Names : n # name[c] => connectPool'[n] = connectPool[n]
      BY <2>4 DEF TypeOK
    <2>7. ASSUME NEW d \in Conns, Served(d)', address'[d] \notin reused'
          PROVE  connectPool'[name'[d]] = d
      <3>1. connectPool[name[d]] = d /\ name[d] # None
        BY <2>3, <2>7, TcpServerAssumption DEF PoolServes, Served, Lives, Stations, In
      <3>2. d # c
        BY <2>4, <2>7 DEF Served, In, Lives, Stations, Idle, Onward, TypeOK
      <3>3. QED
        BY <2>1, <2>6, <2>7, <3>1, <3>2 DEF TypeOK
    <2>8. ASSUME NEW d \in Conns, Pooled(d)'
          PROVE  d \notin closed' \/ In({"close", "erase"}, d)'
      <3>1. Pooled(d) /\ d # c
        BY <2>4, <2>5, <2>6, <2>8, TcpServerAssumption DEF Pooled, TypeOK
      <3>2. QED
        BY <2>2, <3>1 DEF PoolServes
    <2>9. QED
      BY <2>7, <2>8 DEF PoolServes
  <1>5. AloneSafe'
    BY TcpServerAssumption DEF Threads, Idle, Onward, Stations, OneLoopFromPool,
       Lives, AloneSafe
  <1>6. QED
    BY <1>1, <1>n, <1>2, <1>s, <1>3, <1>4, <1>5

(* A step that changes no variable changes none of the predicates.          *)
LEMMA StutterKeeps == IndInv /\ UNCHANGED vars => IndInv'
  BY DEF IndInv, vars, TypeOK, Named, Stations, Settled, Lives, PoolServes, AloneSafe,
         Served, Pooled, Alive, In, OneLoopFromPool

LEMMA NextKeeps == IndInv /\ [Next]_vars => IndInv'
  <1> SUFFICES ASSUME IndInv, [Next]_vars PROVE IndInv'
    OBVIOUS
  <1>1. CASE UNCHANGED vars
    BY <1>1, StutterKeeps
  <1>2. CASE \E c \in Conns : \/ PeerLeaves(c) \/ Insert(c) \/ Connected(c) \/ Event(c)
                              \/ \E a \in Peers : Accept(c, a)
    BY <1>2, PeerLeavesKeeps, InsertKeeps, ConnectedKeeps, EventKeeps, AcceptKeeps
  <1>3. CASE \E t \in Threads : Hold(t) \/ CallbackReturns(t)
    BY <1>3, HoldKeeps, CallbackReturnsKeeps
  <1>4. CASE \E t \in Threads, c \in Conns :
               \/ Message(t, c) \/ CloseEvent(t, c) \/ WriteEvent(t, c)
               \/ Release(t, c) \/ Erase(t, c)
    BY <1>4, MessageKeeps, CloseEventKeeps, WriteEventKeeps, ReleaseKeeps, EraseKeeps
  <1>5. QED
    BY <1>1, <1>2, <1>3, <1>4 DEF Next

(* IndInv holds in every state the server reaches.                          *)
LEMMA Invariance == Spec => []IndInv
  BY Initially, NextKeeps, PTL DEF Spec

-----------------------------------------------------------------------------

(* The server's variables keep their types, and every entry of the pool     *)
(* stands under its connection's own name.                                  *)
THEOREM Typing == Spec => []TypeOK
  <1>1. IndInv => TypeOK
    BY DEF IndInv
  <1>2. QED
    BY Invariance, <1>1, PTL

(* A connection is in the pool from before its first event until its close  *)
(* callback has returned, and no longer (tcpServer.cpp:38-46, 104-109).     *)
THEOREM PoolIsKept == Spec => []PoolServes
  <1>1. IndInv => PoolServes
    BY DEF IndInv
  <1>2. QED
    BY Invariance, <1>1, PTL

(* Beyond AloneSafe: a connection that has events and is not closed is in   *)
(* the pool, or newConnected is not through with it.                        *)
LEMMA UnclosedLives ==
  ASSUME IndInv, NEW c \in Conns,
         name[c] # None, c \notin closed, address[c] \notin reused
  PROVE  Alive(c)
  <1>1. CASE In({"insert", "connect"}, c)
    BY <1>1 DEF Alive, In
  <1>2. CASE state[c] = "Connected"
    <2>1. connectPool[name[c]] = c
      BY <1>2 DEF IndInv, PoolServes, Served
    <2>2. QED
      BY <2>1 DEF IndInv, TypeOK, Alive, Pooled
  <1>3. QED
    BY <1>1, <1>2 DEF IndInv, Lives

(* A handler runs on a connection that exists, unless that was closed or    *)
(* shares its address; with the main loop alone the first handler of a      *)
(* report always does (tcpServer.cpp:31-50, tcpConnect.cpp:23,              *)
(* event.cpp:127-141).                                                      *)
THEOREM HandlersSafe == Spec => []HandlersHaveTheirObject
  <1>1. IndInv => HandlersHaveTheirObject
    <2> SUFFICES ASSUME IndInv, NEW t \in Threads, NEW c \in Conns,
                        at[t] \in {<<"event", c>>, <<"handle", c>>}
                 PROVE  \/ Alive(c)
                        \/ /\ loops # {} \/ at[t][1] = "handle"
                           /\ c \in closed \/ address[c] \in reused
      BY DEF HandlersHaveTheirObject
    <2>1. name[c] # None /\ owner[c] = t
      BY DEF IndInv, Stations
    <2>2. CASE loops = {} /\ at[t] = <<"event", c>>
      <3>1. t = Main
        BY <2>1, <2>2, TcpServerAssumption
           DEF IndInv, Lives, OneLoopFromPool, Threads
      <3>2. QED
        BY <2>2, <3>1 DEF IndInv, AloneSafe
    <2>3. QED
      BY <2>1, <2>2, UnclosedLives
  <1>2. QED
    BY Invariance, <1>1, PTL

-----------------------------------------------------------------------------
(* The thread pool.                                                        *)

Shapes ==
  /\ main \in {"make", "construct", "start", "get", "wait", "return", "ready"}
  /\ i \in 1..ThreadNum + 1
  /\ started \in [PoolThreads -> BOOLEAN]
  /\ thread \in [PoolThreads -> {"none", "beginRun", "waiting", "run", "loop"}]
  /\ notified \subseteq PoolThreads
  /\ loop \in [PoolThreads -> {"garbage", "null", "own"}]
  /\ answered \in BOOLEAN
  /\ spurious \subseteq PoolThreads
  /\ eventLoopPoll \in Seq(PoolThreads \X {"null", "own"})
  /\ threadIndex \in Nat
  /\ picks \in [PoolThreads -> Nat]

(* init() works on thread i, when those before it are in the pool.          *)
Progress ==
  /\ main # "ready" => i \in PoolThreads /\ Len(eventLoopPoll) = i - 1
  /\ main = "ready" => Len(eventLoopPoll) = ThreadNum

(* A thread that was started is constructed, and only such a thread runs.   *)
Construction ==
  /\ main \in {"start", "get", "wait", "return"} => loop[i] # "garbage"
  /\ \A t \in PoolThreads : started[t] => loop[t] # "garbage"
  /\ \A t \in PoolThreads : Runs(t) => started[t]

(* What getEventLoopInThread has in hand when it is about to return.        *)
Answers ==
  /\ main = "wait" /\ answered => loop[i] = "own"
  /\ main = "return" => loop[i] = "own" \/ i \in spurious

(* The loops that had their turn in this round are one ahead.  The round    *)
(* begins at index 1 and ends at index 0.                                   *)
Ahead(n) ==
  \A t \in PoolThreads :
    picks[t] = IF t > 1 /\ t <= threadIndex + 1 THEN n + 1 ELSE n

Round ==
  /\ threadIndex = 0 \/ threadIndex < Len(eventLoopPoll)
  /\ main # "ready" => threadIndex = 0
  /\ \E n \in 0..MaxPicks : Ahead(n)
  /\ \A t \in PoolThreads : picks[t] <= MaxPicks

PoolIndInv ==
  /\ Shapes /\ Progress /\ Construction
  /\ Answers /\ PoolLoopsReady /\ Round

-----------------------------------------------------------------------------

LEMMA PoolInitially == PoolInit => PoolIndInv
  <1> SUFFICES ASSUME PoolInit PROVE PoolIndInv
    OBVIOUS
  <1>0. ThreadNum \in Nat /\ MaxPicks \in Nat
    BY ThreadPoolAssumption
  <1>1. Shapes
    <2>1. <<>> \in Seq(PoolThreads \X {"null", "own"})
      BY EmptySeq
    <2>2. i \in 1..ThreadNum + 1
      BY <1>0 DEF PoolInit
    <2>3. started \in [PoolThreads -> BOOLEAN]
      BY DEF PoolInit, Started
    <2>4. QED
      BY <2>1, <2>2, <2>3 DEF PoolInit, Shapes
  <1>2. Progress
    BY <1>0, EmptySeq DEF PoolInit, Progress, PoolThreads
  <1>3. Construction
    BY DEF PoolInit, Construction, Started, Runs
  <1>4. Answers
    BY DEF PoolInit, Answers
  <1>5. PoolLoopsReady
    BY DEF PoolInit, PoolLoopsReady
  <1>6. Round
    <2>1. \A t \in PoolThreads : ~ (t > 1 /\ t <= 0 + 1)
      BY <1>0 DEF PoolThreads
    <2>2. Ahead(0)
      BY <2>1 DEF PoolInit, Ahead
    <2>3. QED
      BY <1>0, <2>2 DEF PoolInit, Round
  <1>7. QED
    BY <1>1, <1>2, <1>3, <1>4, <1>5, <1>6 DEF PoolIndInv

(* The steps that leave the pool of loops alone.                            *)
LEMMA Handshake ==
  ASSUME PoolIndInv,
         \/ MakeThread \/ Construct \/ Start \/ GetLoop \/ WaitEnds
         \/ WaitEndsByItself \/ \E t \in PoolThreads : ThreadStep(t)
  PROVE  PoolIndInv'
  <1>0. /\ Shapes /\ Progress /\ Construction /\ Answers /\ PoolLoopsReady /\ Round
        /\ ThreadNum \in Nat
    BY ThreadPoolAssumption DEF PoolIndInv
  <1>1. /\ UNCHANGED <<eventLoopPoll, threadIndex, picks, i>>
        /\ main # "ready" <=> main' # "ready"
    BY DEF MakeThread, Construct, Start, GetLoop,
           WaitEnds, WaitEndsByItself, ThreadStep, BeginRun,
           Wakes, PublishLoop, pool
  <1>2. Round'
    BY <1>0, <1>1 DEF Round, Ahead
  <1>3. Progress'
    BY <1>0, <1>1 DEF Progress
  <1>4. PoolLoopsReady'
    BY <1>0, <1>1
       DEF PoolLoopsReady, MakeThread, Construct, Start,
           GetLoop, WaitEnds, WaitEndsByItself, ThreadStep,
           BeginRun, Wakes, PublishLoop, pool
  <1>5. Shapes' /\ Construction' /\ Answers'
    <2>1. CASE MakeThread
      BY <1>0, <2>1
         DEF MakeThread, Shapes, Progress, Construction, Answers,
             Runs, pool
    <2>2. CASE Construct
      BY <1>0, <2>2
         DEF Construct, Shapes, Progress, Construction, Answers, Runs,
             pool
    <2>3. CASE Start
      BY <1>0, <2>3
         DEF Start, Shapes, Progress, Construction, Answers, Runs,
             Notified, pool
    <2>4. CASE GetLoop
      BY <1>0, <2>4
         DEF GetLoop, MustWait, Shapes, Progress, Construction,
             Answers, Runs, pool
    <2>5. CASE WaitEnds
      BY <1>0, <2>5
         DEF WaitEnds, Shapes, Progress, Construction, Answers, Runs,
             pool
    <2>6. CASE WaitEndsByItself
      BY <1>0, <2>6
         DEF WaitEndsByItself, Shapes, Progress, Construction, Answers,
             Runs, pool
    <2>7. ASSUME NEW t \in PoolThreads, BeginRun(t)
          PROVE  Shapes' /\ Construction' /\ Answers'
      BY <1>0, <2>7
         DEF BeginRun, Looks, Shapes, Construction, Answers,
             Runs, pool
    <2>8. ASSUME NEW t \in PoolThreads, Wakes(t)
          PROVE  Shapes' /\ Construction' /\ Answers'
      BY <1>0, <2>8
         DEF Wakes, Looks, Shapes, Construction, Answers, Runs,
             pool
    <2>9. ASSUME NEW t \in PoolThreads, PublishLoop(t)
          PROVE  Shapes' /\ Construction' /\ Answers'
      BY <1>0, <2>9
         DEF PublishLoop, Shapes, Progress, Construction, Answers,
             Runs, pool
    <2>10. QED
      BY <2>1, <2>2, <2>3, <2>4, <2>5, <2>6, <2>7, <2>8, <2>9 DEF ThreadStep
  <1>6. QED
    BY <1>2, <1>3, <1>4, <1>5 DEF PoolIndInv

LEMMA PushKeeps ==
  ASSUME PoolIndInv, PushLoop
  PROVE  PoolIndInv'
  <1> DEFINE entry == <<i, loop[i]>>
  <1>0. /\ Shapes /\ Progress /\ Construction /\ Answers /\ PoolLoopsReady /\ Round
        /\ ThreadNum \in Nat
    BY ThreadPoolAssumption DEF PoolIndInv
  <1>1. /\ i \in PoolThreads /\ Len(eventLoopPoll) = i - 1
        /\ loop[i] # "garbage" /\ (loop[i] = "own" \/ i \in spurious)
    BY <1>0 DEF PushLoop, Progress, Construction, Answers
  <1>2. entry \in PoolThreads \X {"null", "own"}
    BY <1>0, <1>1 DEF Shapes
  <1>3. /\ eventLoopPoll' = Append(eventLoopPoll, entry)
        /\ i' = i + 1
        /\ main' = IF i < ThreadNum THEN "make" ELSE "ready"
        /\ UNCHANGED <<started, thread, notified, loop, answered, spurious,
                       threadIndex, picks>>
    BY DEF PushLoop
  <1>4. /\ eventLoopPoll' \in Seq(PoolThreads \X {"null", "own"})
        /\ Len(eventLoopPoll') = i
        /\ \A k \in 1..i - 1 : eventLoopPoll'[k] = eventLoopPoll[k]
        /\ eventLoopPoll'[i] = entry
    BY <1>0, <1>1, <1>2, <1>3, AppendProperties DEF Shapes
  <1>5. Progress' /\ i' \in 1..ThreadNum + 1
    BY <1>0, <1>1, <1>3, <1>4 DEF Progress, PoolThreads
  <1>6. Shapes'
    BY <1>0, <1>3, <1>4, <1>5 DEF Shapes
  <1>7. Construction' /\ Answers'
    BY <1>0, <1>3 DEF Construction, Answers, Runs
  <1>8. PoolLoopsReady'
    <2> SUFFICES ASSUME NEW k \in 1..i
                 PROVE  /\ eventLoopPoll'[k][1] = k
                        /\ eventLoopPoll'[k][2] = "own" \/ eventLoopPoll'[k][1] \in spurious
      BY <1>3, <1>4 DEF PoolLoopsReady
    <2>1. CASE k = i
      BY <1>1, <1>4, <2>1
    <2>2. CASE k # i
      <3>1. k \in 1..i - 1 /\ k \in DOMAIN eventLoopPoll
        BY <1>0, <1>1, <2>2 DEF Shapes, PoolThreads
      <3>2. QED
        BY <1>0, <1>4, <3>1 DEF PoolLoopsReady
    <2>3. QED
      BY <2>1, <2>2
  <1>9. Round'
    BY <1>0, <1>3 DEF Round, Ahead, PushLoop
  <1>10. QED
    BY <1>5, <1>6, <1>7, <1>8, <1>9 DEF PoolIndInv

LEMMA PickKeeps ==
  ASSUME PoolIndInv, GetOneLoop
  PROVE  PoolIndInv'
  <1>0. /\ Shapes /\ Progress /\ Construction /\ Answers /\ PoolLoopsReady /\ Round
        /\ ThreadNum \in Nat /\ MaxPicks \in Nat
    BY ThreadPoolAssumption DEF PoolIndInv
  <1>a. /\ threadIndex \in Nat /\ picks \in [PoolThreads -> Nat]
        /\ \A t \in PoolThreads : t \in Nat /\ 1 <= t /\ t <= ThreadNum /\ picks[t] \in Nat
    BY <1>0 DEF Shapes, PoolThreads
  <1>1. /\ main = "ready" /\ Len(eventLoopPoll) = ThreadNum
        /\ threadIndex' = NextIndex(threadIndex)
        /\ picks' = [picks EXCEPT ![threadIndex' + 1] = @ + 1]
        /\ UNCHANGED <<main, i, started, thread, notified, loop, answered, spurious,
                       eventLoopPoll>>
    BY <1>0 DEF GetOneLoop, Progress
  <1>2. ThreadNum > 0
    <2>1. eventLoopPoll # <<>>
      BY DEF GetOneLoop
    <2>2. QED
      BY <1>0, <1>1, <2>1, EmptySeq DEF Shapes
  <1>3. /\ threadIndex' \in Nat /\ threadIndex' < ThreadNum
        /\ threadIndex' + 1 \in PoolThreads
        /\ \/ threadIndex + 1 >= ThreadNum /\ threadIndex' = 0
           \/ threadIndex + 1 < ThreadNum /\ threadIndex' = threadIndex + 1
    BY <1>0, <1>1, <1>2 DEF Shapes, NextIndex, PoolThreads
  <1>4. PICK n \in 0..MaxPicks : Ahead(n)
    BY <1>0 DEF Round
  <1>5. /\ picks[threadIndex' + 1] = n
        /\ \A t \in PoolThreads :
             picks'[t] = IF t = threadIndex' + 1 THEN n + 1 ELSE picks[t]
    <2>1. ~ (threadIndex' + 1 > 1 /\ threadIndex' + 1 <= threadIndex + 1)
      <3>1. threadIndex \in Nat
        BY <1>a
      <3>2. threadIndex' = 0 \/ threadIndex' = threadIndex + 1
        BY <1>3
      <3>3. QED
        BY <3>1, <3>2
    <2>2. picks[threadIndex' + 1] = n
      BY <1>3, <1>4, <2>1 DEF Ahead
    <2>3. QED
      BY <1>a, <1>1, <1>3, <2>2
  <1>6. n < MaxPicks
    <2>1. PICK t \in PoolThreads : picks[t] < MaxPicks
      BY DEF GetOneLoop
    <2>2. picks[t] = n \/ picks[t] = n + 1
      BY <1>4 DEF Ahead
    <2>3. QED
      BY <1>0, <2>1, <2>2
  <1>7. \E m \in 0..MaxPicks : Ahead(m)'
    <2>1. CASE threadIndex + 1 >= ThreadNum
      <3>1. \A t \in PoolThreads : t = 1 \/ (t > 1 /\ t <= threadIndex + 1)
        BY <1>0, <1>a, <2>1
      <3>2. \A t \in PoolThreads : ~ (t > 1 /\ t <= threadIndex' + 1)
        BY <1>0, <1>a, <1>3, <2>1
      <3>3. \A t \in PoolThreads : picks'[t] = n + 1
        <4>1. threadIndex' + 1 = 1
          <5>1. threadIndex \in Nat /\ ThreadNum \in Nat
            BY <1>0, <1>a
          <5>2. ~ (threadIndex + 1 < ThreadNum)
            BY <2>1, <5>1
          <5>3. threadIndex' = 0
            BY <1>3, <5>2
          <5>4. QED
            BY <5>3
        <4>2. \A t \in PoolThreads : t > 1 /\ t <= threadIndex + 1 => picks[t] = n + 1
          BY <1>4 DEF Ahead
        <4>3. \A t \in PoolThreads : t = 1 => picks'[t] = n + 1
          BY <1>5, <4>1
        <4>4. \A t \in PoolThreads : t # 1 => picks'[t] = picks[t]
          BY <1>5, <4>1
        <4>5. \A t \in PoolThreads : t > 1 => t # 1
          BY <1>a
        <4>6. QED
          BY <3>1, <4>2, <4>3, <4>4, <4>5
      <3>4. n + 1 \in 0..MaxPicks
        BY <1>0, <1>6
      <3>5. Ahead(n + 1)'
        BY <3>2, <3>3 DEF Ahead
      <3>6. QED
        BY <3>4, <3>5
    <2>2. CASE threadIndex + 1 < ThreadNum
      <3>1. \A t \in PoolThreads :
              (t > 1 /\ t <= threadIndex' + 1)
                <=> (t = threadIndex' + 1 \/ (t > 1 /\ t <= threadIndex + 1))
        BY <1>0, <1>a, <1>3, <2>2
      <3>2. Ahead(n)'
        BY <1>4, <1>5, <3>1 DEF Ahead
      <3>3. QED
        BY <3>2
    <2>3. QED
      BY <1>0, <1>a, <2>1, <2>2
  <1>8. \A t \in PoolThreads : picks'[t] <= MaxPicks
    <2>1. \A t \in PoolThreads : picks[t] <= MaxPicks
      BY <1>0 DEF Round
    <2>2. QED
      BY <1>0, <1>a, <1>5, <1>6, <2>1
  <1>9. Round'
    BY <1>1, <1>3, <1>7, <1>8 DEF Round
  <1>10. Shapes'
    BY <1>0, <1>1, <1>3 DEF Shapes
  <1>11. Progress' /\ Construction' /\ Answers' /\ PoolLoopsReady'
    BY <1>0, <1>1
       DEF Progress, Construction, Answers, PoolLoopsReady, Runs
  <1>12. QED
    BY <1>9, <1>10, <1>11 DEF PoolIndInv

LEMMA PoolInvariance == PoolSpec => []PoolIndInv
  <1>1. PoolIndInv /\ [PoolNext]_poolVars => PoolIndInv'
    <2> SUFFICES ASSUME PoolIndInv, [PoolNext]_poolVars
                 PROVE  PoolIndInv'
      OBVIOUS
    <2>1. CASE PushLoop
      BY <2>1, PushKeeps
    <2>2. CASE GetOneLoop
      BY <2>2, PickKeeps
    <2>3. CASE UNCHANGED poolVars
      BY <2>3 DEF poolVars, PoolIndInv, Shapes, Progress, Construction, Answers,
                  PoolLoopsReady, Round, Ahead, Runs
    <2>4. CASE \/ MakeThread \/ Construct \/ Start \/ GetLoop \/ WaitEnds
               \/ WaitEndsByItself \/ \E t \in PoolThreads : ThreadStep(t)
      BY <2>4, Handshake
    <2>5. QED
      BY <2>1, <2>2, <2>3, <2>4 DEF PoolNext, MainStep
  <1>2. QED
    BY <1>1, PoolInitially, PTL DEF PoolSpec

-----------------------------------------------------------------------------
(* The theorems.                                                           *)

(* The pool's variables keep their types; above all threadIndex stays       *)
(* within the pool (eventThreadPool.cpp:57-63).                             *)
THEOREM PoolTyping == PoolSpec => []PoolTypeOK
  <1>1. PoolIndInv => PoolTypeOK
    <2> SUFFICES ASSUME PoolIndInv PROVE PoolTypeOK
      OBVIOUS
    <2>1. Shapes /\ (threadIndex = 0 \/ threadIndex < Len(eventLoopPoll))
      BY DEF PoolIndInv, Round
    <2>2. picks \in [PoolThreads -> 0..MaxPicks]
      <3>1. picks \in [PoolThreads -> Nat] /\ \A t \in PoolThreads : picks[t] <= MaxPicks
        BY DEF PoolIndInv, Shapes, Round
      <3>2. \A t \in PoolThreads : picks[t] \in 0..MaxPicks
        BY <3>1, ThreadPoolAssumption
      <3>3. QED
        BY <3>1, <3>2
    <2>3. QED
      BY <2>1, <2>2 DEF Shapes, PoolTypeOK
  <1>2. QED
    BY <1>1, PoolInvariance, PTL

(* However early a std::thread is scheduled, run() is called on complete    *)
(* objects only (thread.cpp:6, 22-31).                                      *)
THEOREM ThreadsRunConstructed == PoolSpec => []RunsConstructed
  <1>1. PoolIndInv => RunsConstructed
    BY DEF PoolIndInv, Construction, RunsConstructed
  <1>2. QED
    BY <1>1, PoolInvariance, PTL

(* Every entry of the pool is the loop of its own thread, or one whose      *)
(* single wait ended by itself (eventThread.cpp:10-21).                     *)
THEOREM LoopsReady == PoolSpec => []PoolLoopsReady
  BY PoolInvariance, PTL DEF PoolIndInv

(* No loop is ever handed out two times more often than another             *)
(* (eventThreadPool.cpp:50-64).                                             *)
THEOREM RoundIsBalanced == PoolSpec => []Balanced
  <1>1. PoolIndInv => Balanced
    <2> SUFFICES ASSUME PoolIndInv,
                        NEW s \in PoolThreads, NEW t \in PoolThreads
                 PROVE  picks[s] <= picks[t] + 1
      BY DEF Balanced
    <2>1. PICK n \in 0..MaxPicks : Ahead(n)
      BY DEF PoolIndInv, Round
    <2>2. /\ picks[s] = n \/ picks[s] = n + 1
          /\ picks[t] = n \/ picks[t] = n + 1
      BY <2>1 DEF Ahead
    <2>3. QED
      BY <2>2, ThreadPoolAssumption
  <1>2. QED
    BY <1>1, PoolInvariance, PTL

-----------------------------------------------------------------------------
(* The notifications, on which it rests that init() returns.               *)

(* A thread that was started does not wait without having been notified,    *)
(* and whoever waits in getEventLoopInThread waits for a thread that has    *)
(* still to publish its loop, whichever side came first to its mutex        *)
(* (thread.cpp:15-31, eventThread.cpp:10-33).                               *)
NotificationsKept ==
  /\ \A t \in PoolThreads : thread[t] = "waiting" /\ started[t] => t \in notified
  /\ main = "wait" /\ ~ answered =>
       started[i] /\ thread[i] \in {"beginRun", "waiting", "run"}

(* What it takes: the thread at work exists, is started before it is asked, *)
(* not earlier, and has its loop once it is there.                          *)
InTurn ==
  /\ main \notin {"make", "ready"} => thread[i] # "none"
  /\ main \in {"get", "wait", "return"} => started[i]
  /\ \A t \in PoolThreads : started[t] =>
       t < i \/ (t = i /\ main \in {"get", "wait", "return"})
  /\ \A t \in PoolThreads : thread[t] = "loop" => loop[t] = "own"

LEMMA NotificationsInitially == PoolInit => NotificationsKept /\ InTurn
  BY DEF PoolInit, Started, NotificationsKept, InTurn

LEMMA NotificationsStep ==
  ASSUME PoolIndInv, NotificationsKept, InTurn, [PoolNext]_poolVars
  PROVE  NotificationsKept' /\ InTurn'
  <1> USE DEF NotificationsKept, InTurn
  <1>0. Shapes /\ Progress /\ Construction /\ ThreadNum \in Nat
    BY ThreadPoolAssumption DEF PoolIndInv
  <1>1. CASE MakeThread
    BY <1>0, <1>1 DEF MakeThread, Shapes, Progress, Construction, Runs, pool
  <1>2. CASE Construct
    BY <1>0, <1>2 DEF Construct, Shapes, Progress, Construction, Runs, pool
  <1>3. CASE Start
    BY <1>0, <1>3 DEF Start, Notified, Shapes, Progress, Runs, pool
  <1>4. CASE GetLoop
    BY <1>0, <1>4 DEF GetLoop, MustWait, Shapes, Progress, pool
  <1>5. CASE WaitEnds \/ WaitEndsByItself
    BY <1>0, <1>5 DEF WaitEnds, WaitEndsByItself, Shapes, Progress, pool
  <1>6. CASE PushLoop
    BY <1>0, <1>6 DEF PushLoop, Shapes, Progress, PoolThreads
  <1>7. CASE GetOneLoop
    BY <1>7 DEF GetOneLoop
  <1>8. ASSUME NEW t \in PoolThreads, BeginRun(t)
        PROVE  NotificationsKept' /\ InTurn'
    BY <1>0, <1>8 DEF BeginRun, Looks, Shapes, Progress, pool
  <1>9. ASSUME NEW t \in PoolThreads, Wakes(t)
        PROVE  NotificationsKept' /\ InTurn'
    BY <1>0, <1>9 DEF Wakes, Looks, Shapes, Progress, pool
  <1>10. ASSUME NEW t \in PoolThreads, PublishLoop(t)
         PROVE  NotificationsKept' /\ InTurn'
    BY <1>0, <1>10 DEF PublishLoop, Shapes, Progress, pool
  <1>11. CASE UNCHANGED poolVars
    BY <1>11 DEF poolVars
  <1>12. QED
    BY <1>1, <1>2, <1>3, <1>4, <1>5, <1>6, <1>7, <1>8, <1>9, <1>10, <1>11
       DEF PoolNext, MainStep, ThreadStep

(* No notification is missed: the part of InitEnds that needs no fairness.  *)
THEOREM NoNotificationMissed == PoolSpec => []NotificationsKept
  BY NotificationsInitially, NotificationsStep, PoolInvariance, PTL DEF PoolSpec
=============================================================================
