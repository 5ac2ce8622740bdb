------------------------------ MODULE TcpServer -------------------------------
(***************************************************************************)
(* A TcpServer (src/net/tcp/tcpServer.cpp) with the listening socket that  *)
(* feeds it (TcpAccept): the main thread accepts connections, hands each   *)
(* to a loop of its thread pool, or to its own when the pool is empty, and *)
(* keeps them in connectPool under the text of the peer's address, until   *)
(* the connection's loop has told the application of its end.              *)
(*                                                                         *)
(* A connection is an object: it exists as long as the pool, the           *)
(* application, newConnected or a callback has a reference to it.  Its     *)
(* event handlers begin with a bare pointer, each of those that one report *)
(* of epoll leads to (event.cpp:108-142).  What they do with the bytes is  *)
(* module TcpConnection's.                                                 *)
(*                                                                         *)
(* Nothing locks connectPool, a std::map: an insertion or an erasure lasts *)
(* from one step to the next, and when two of them meet the program is     *)
(* undefined and takes no further step.                                    *)
(*                                                                         *)
(* Operators named X_Y are bugs X might have had; no specification uses    *)
(* them.                                                                   *)
(***************************************************************************)
EXTENDS SocketAddr, FiniteSets, EventHandle

CONSTANTS
  Conns,        \* bound: the TcpConnect objects there may be
  Peers,        \* the addresses of peers
  Workers,      \* the threads the pool may have
  Main,         \* the thread of the server's own loop
  None

Names == {toString(a) : a \in Peers}

ASSUME TcpServerAssumption ==
  /\ Peers \subseteq SockAddrs
  /\ Main \notin Workers
  /\ None \notin Peers /\ None \notin Names
  /\ None \notin Conns \cup Workers \cup {Main}

Threads == Workers \cup {Main}

VARIABLES
  loops,        \* the threads of the pool; setThreadPoolSize decides
  at,           \* at[t]: what thread t is doing, and with which connection
  todo,         \* todo[t]: what Event::handle has still to call
  address,      \* address[c]: TcpConnect::socketAddr, the peer's address
  name,         \* name[c]: TcpConnect::name, None before c is made
  owner,        \* owner[c]: the thread whose loop handles c
  state,        \* state[c]: TcpConnect::state
  peer,         \* peer[c]: the peer is "open" or "gone"
  connectPool,  \* connectPool[n]: the connection named n, or None
  held,         \* the connections the application keeps a reference to
  closed,       \* history: the connections whose closeCallback was called
  reused        \* history: the addresses of which insert found an older one

object == <<address, name, owner>>
vars == <<loops, at, todo, address, name, owner, state, peer, connectPool, held,
          closed, reused>>

Idle == <<"poll", None>>

Init ==
  /\ loops \in SUBSET Workers
  /\ at = [t \in Threads |-> Idle]
  /\ todo = [t \in Threads |-> <<>>]
  /\ address = [c \in Conns |-> None]
  /\ name = [c \in Conns |-> None]
  /\ owner = [c \in Conns |-> None]
  /\ state = [c \in Conns |-> "Disconnected"]
  /\ peer = [c \in Conns |-> "open"]
  /\ connectPool = [n \in Names |-> None]
  /\ held = {}
  /\ closed = {}
  /\ reused = {}

In(stages, c) == \E t \in Threads : at[t][1] \in stages /\ at[t][2] = c

Pooled(c) == \E n \in Names : connectPool[n] = c

(* newConnected and the callbacks have a std::shared_ptr of their own.      *)
Alive(c) ==
  \/ Pooled(c)
  \/ c \in held
  \/ In({"insert", "connect", "announce", "message", "close", "erase"}, c)

(* Two threads within connectPool, both to change it.                       *)
Torn ==
  \E t, u \in Threads :
    /\ t # u
    /\ at[t][1] \in {"insert", "erase"}
    /\ at[u][1] \in {"insert", "erase"}

Goes(t, stage, c) == at' = [at EXCEPT ![t] = <<stage, c>>]

-----------------------------------------------------------------------------
(* The peer.  It may use an address again once it has given it up.          *)

PeerLeaves(c) ==
  /\ name[c] # None /\ peer[c] = "open"
  /\ ~ Torn
  /\ peer' = [peer EXCEPT ![c] = "gone"]
  /\ UNCHANGED <<loops, at, todo, object, state, connectPool, held, closed, reused>>

Usable(a) == \A c \in Conns : address[c] = a => peer[c] = "gone"

-----------------------------------------------------------------------------
(* acceptHandle and newConnected, on the main thread.                      *)

OneLoopFromPool == IF loops = {} THEN {Main} ELSE loops

Accept(c, a) ==
  /\ at[Main] = Idle
  /\ ~ Torn
  /\ name[c] = None /\ Usable(a)
  /\ address' = [address EXCEPT ![c] = a]
  /\ name' = [name EXCEPT ![c] = toString(a)]
  /\ \E t \in OneLoopFromPool : owner' = [owner EXCEPT ![c] = t]
  /\ Goes(Main, "insert", c)
  /\ UNCHANGED <<loops, todo, state, peer, connectPool, held, closed, reused>>

(* addConnect: std::map::insert leaves an entry of the name as it is.       *)
Key_ServersOwn(c) == CHOOSE n \in Names : TRUE
Key(c) == name[c]
Inserted_Nothing(c) == connectPool
Inserted(c) ==
  [connectPool EXCEPT ![Key(c)] = IF @ = None THEN c ELSE @]

Insert(c) ==
  /\ at[Main] = <<"insert", c>>
  /\ ~ Torn
  /\ connectPool' = Inserted(c)
  /\ reused' =
       IF \E d \in Conns : Pooled(d) /\ address[d] = address[c]
       THEN reused \cup {address[c]} ELSE reused
  /\ Goes(Main, "connect", c)
  /\ UNCHANGED <<loops, todo, object, state, peer, held, closed>>

(* The callbacks are set, connectedHandle enables reading: from here on the *)
(* connection's loop delivers events, announced or not.                     *)
Connected(c) ==
  /\ at[Main] = <<"connect", c>>
  /\ ~ Torn
  /\ state' = [state EXCEPT ![c] = "Connected"]
  /\ Goes(Main, "announce", c)
  /\ UNCHANGED <<loops, todo, object, peer, connectPool, held, closed, reused>>

-----------------------------------------------------------------------------
(* A connection's events, on the thread of its loop.                       *)

(* Reading is enabled with the connection, writing while bytes wait; an     *)
(* error or a hang-up is reported of an event that enabled nothing, too.    *)
Reported(c) ==
  {r \in {"in", "out"} : state[c] = "Connected" \/ c \in closed}
  \cup {r \in {"err", "hup"} : peer[c] = "gone"}

Event(c) ==
  /\ owner[c] # None /\ at[owner[c]] = Idle
  /\ ~ Torn
  /\ Alive(c)
  /\ \E calls \in {Calls(revents, Handlers) : revents \in SUBSET Reported(c) \ {{}}} :
       todo' = [todo EXCEPT ![owner[c]] = calls]
  /\ Goes(owner[c], "event", c)
  /\ UNCHANGED <<loops, object, state, peer, connectPool, held, closed, reused>>

(* Event::handle calls its first handler, or, "handle", goes on to another  *)
(* one when that has returned.                                              *)
Calling(t, c, handlers) ==
  /\ at[t] \in {<<"event", c>>, <<"handle", c>>}
  /\ ~ Torn
  /\ Alive(c)
  /\ todo[t] # <<>> /\ Head(todo[t]) \in handlers
  /\ todo' = [todo EXCEPT ![t] = Tail(@)]

Onward(rest, c) == IF rest = <<>> THEN Idle ELSE <<"handle", c>>

(* Bytes may still come after the error that closed the connection.         *)
Message(t, c) ==
  /\ Calling(t, c, {"read"})
  /\ state[c] = "Connected" \/ c \in closed
  /\ Goes(t, "message", c)
  /\ UNCHANGED <<loops, object, state, peer, connectPool, held, closed, reused>>

CloseEvent(t, c) ==
  /\ Calling(t, c, {"read", "error"})
  /\ peer[c] = "gone"
  /\ IF state[c] = "Disconnected"
     THEN /\ at' = [at EXCEPT ![t] = Onward(todo'[t], c)]
          /\ UNCHANGED <<state, closed>>
     ELSE /\ state' = [state EXCEPT ![c] = "Disconnected"]
          /\ closed' = closed \cup {c}
          /\ Goes(t, "close", c)
  /\ UNCHANGED <<loops, object, peer, connectPool, held, reused>>

(* writeEvent returns at once: the event that reported room is writing.     *)
WriteEvent(t, c) ==
  /\ Calling(t, c, {"write"})
  /\ at' = [at EXCEPT ![t] = Onward(todo'[t], c)]
  /\ UNCHANGED <<loops, object, state, peer, connectPool, held, closed, reused>>

-----------------------------------------------------------------------------
(* The application, in a callback on thread t.                             *)

InCallback(t) == at[t][1] \in {"announce", "message", "close"}

Hold(t) ==
  /\ InCallback(t)
  /\ ~ Torn
  /\ at[t][2] \notin held
  /\ held' = held \cup {at[t][2]}
  /\ UNCHANGED <<loops, at, todo, object, state, peer, connectPool, closed, reused>>

(* It gives a connection up on the thread of the connection's loop.         *)
Release(t, c) ==
  /\ InCallback(t)
  /\ ~ Torn
  /\ c \in held /\ owner[c] = t
  /\ held' = held \ {c}
  /\ UNCHANGED <<loops, at, todo, object, state, peer, connectPool, closed, reused>>

(* connectCloseEvent goes on to removeConnect, and a handler's callback ends *)
(* with the handler.                                                        *)
After_NeverErased(t) == Onward(todo[t], at[t][2])
After(t) ==
  IF at[t][1] = "close" THEN <<"erase", at[t][2]>> ELSE Onward(todo[t], at[t][2])

CallbackReturns(t) ==
  /\ InCallback(t)
  /\ ~ Torn
  /\ at' = [at EXCEPT ![t] = After(t)]
  /\ UNCHANGED <<loops, todo, object, state, peer, connectPool, held, closed,
                 reused>>

Erase(t, c) ==
  /\ at[t] = <<"erase", c>>
  /\ ~ Torn
  /\ connectPool' = [connectPool EXCEPT ![name[c]] = None]
  /\ at' = [at EXCEPT ![t] = Onward(todo[t], c)]
  /\ UNCHANGED <<loops, todo, object, state, peer, held, closed, reused>>

-----------------------------------------------------------------------------

Next ==
  \/ \E c \in Conns : \/ PeerLeaves(c) \/ Insert(c) \/ Connected(c) \/ Event(c)
                      \/ \E a \in Peers : Accept(c, a)
  \/ \E t \in Threads :
       \/ Hold(t) \/ CallbackReturns(t)
       \/ \E c \in Conns : \/ Message(t, c) \/ CloseEvent(t, c) \/ WriteEvent(t, c)
                           \/ Release(t, c) \/ Erase(t, c)

Spec == Init /\ [][Next]_vars

-----------------------------------------------------------------------------

Stages == {"poll", "insert", "connect", "announce", "event", "handle", "message",
           "close", "erase"}

(* Every connection of the pool is there under its own name.                *)
TypeOK ==
  /\ loops \subseteq Workers
  /\ at \in [Threads -> Stages \X (Conns \cup {None})]
  /\ todo \in [Threads -> Seq(Handlers)]
  /\ address \in [Conns -> Peers \cup {None}]
  /\ name \in [Conns -> Names \cup {None}]
  /\ owner \in [Conns -> Threads \cup {None}]
  /\ state \in [Conns -> {"Disconnected", "Connected"}]
  /\ peer \in [Conns -> {"open", "gone"}]
  /\ connectPool \in [Names -> Conns \cup {None}]
  /\ \A n \in Names : connectPool[n] # None => name[connectPool[n]] = n
  /\ held \subseteq Conns
  /\ closed \subseteq Conns
  /\ reused \subseteq Peers

(* The connections a loop may have events of, up to the end of the close.   *)
Served(c) ==
  \/ state[c] = "Connected"
  \/ In({"connect", "close", "erase"}, c)

(* From before its first event until its close callback has returned a      *)
(* connection is found in the pool under its name, unless the peer's        *)
(* address was used again too early (tcpServer.cpp:55): no other peer's     *)
(* address has that name (socketOperation.cpp:205).  And nothing stays in   *)
(* the pool beyond that, whatever the threads do (tcpServer.cpp:107).       *)
PoolServes ==
  \A c \in Conns :
    /\ Served(c) /\ address[c] \notin reused => connectPool[name[c]] = c
    /\ Pooled(c) => c \notin closed \/ In({"close", "erase"}, c)

(* A handler runs on a connection that exists, the first one of a report    *)
(* and those that follow it.  It may be gone only once it was closed, or if *)
(* another connection of its address kept it out of the pool or took it     *)
(* out; and then only before a first handler when the pool has threads,     *)
(* newConnected letting go of it meanwhile (tcpServer.cpp:31-50), but       *)
(* before a later handler with the main loop alone, too: the first one, or  *)
(* the application in its callback, let go of it (event.cpp:127-141).       *)
HandlersHaveTheirObject ==
  \A t \in Threads, c \in Conns :
    at[t] \in {<<"event", c>>, <<"handle", c>>} =>
      \/ Alive(c)
      \/ /\ loops # {} \/ at[t][1] = "handle"
         /\ c \in closed \/ address[c] \in reused
=============================================================================
