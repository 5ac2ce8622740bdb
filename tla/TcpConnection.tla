---------------------------- MODULE TcpConnection -----------------------------
(***************************************************************************)
(* One connection of a TcpServer on its loop's thread: TcpConnect          *)
(* (src/net/tcp/tcpConnect.cpp), the server's pool that keeps it alive,    *)
(* the callbacks of the application, the socket and the peer.              *)
(*                                                                         *)
(* The object lives as long as the pool, the application or a running      *)
(* callback has a reference to it; its destructor removes the event from   *)
(* the loop and closes the socket, but the Event that is being handled     *)
(* lives on until handle() is through with the events it was given.        *)
(*                                                                         *)
(* The application calls write and shutdownWrite on the loop's thread,     *)
(* with SIGPIPE ignored.  A write that waits for room is one step: what    *)
(* it returns covers blocking sockets (everything, less when a signal      *)
(* interrupts, nothing when the kernel lacks memory) and non-blocking ones.*)
(* writeCompleteCallback, which no server sets, is user code within user   *)
(* code and has no step of its own.                                        *)
(*                                                                         *)
(* Operators named X_Y are bugs X might have had; no specification uses    *)
(* them.                                                                   *)
(***************************************************************************)
EXTENDS Naturals, Sequences, EventHandle

CONSTANTS
  MaxGiven,     \* bound: bytes the application writes
  MaxArrived    \* bound: bytes the peer sends

ASSUME TcpConnectionAssumption == MaxGiven \in Nat /\ MaxArrived \in Nat

VARIABLES
  loop,         \* "accept", "poll", "handle" events, in a "callback" of the
                \* application, or "undefined" after a call to a dead object
  callback,     \* which callback: "connect", "message", "close" or "none"
  todo,         \* what Event::handle has still to call
  state,        \* TcpConnect::state
  mask,         \* the directions of its event
  writeBuf,     \* the bytes in TcpConnect::writeBuf
  alive,        \* the TcpConnect exists
  pooled,       \* TcpServer::connectPool refers to it
  held,         \* the application refers to it
  peer,         \* the peer is "open", has "finished" sending or has "reset"
  arrived,      \* how many bytes it sent
  inbox,        \* how many of them wait in the socket
  socketError,  \* the reset has not been reported by a call yet
  shut,         \* our side has been shut down
  sent,         \* the bytes the socket took
  given,        \* history: how many bytes write() sent or kept, numbered 1, 2...
  closes        \* history: how often closeCallback was called

flow   == <<loop, callback, todo>>
stream == <<mask, writeBuf, sent, given>>
refs   == <<alive, pooled, held>>
far    == <<peer, arrived>>
vars == <<loop, callback, todo, state, mask, writeBuf, alive, pooled, held, peer,
          arrived, inbox, socketError, shut, sent, given, closes>>

(* TcpServer::newConnected made the connection and put it into the pool.    *)
Init ==
  /\ loop = "accept" /\ callback = "none" /\ todo = <<>>
  /\ state = "Disconnected" /\ mask = {} /\ writeBuf = <<>>
  /\ alive = TRUE /\ pooled = TRUE /\ held = FALSE
  /\ peer = "open" /\ arrived = 0 /\ inbox = 0
  /\ socketError = FALSE /\ shut = FALSE
  /\ sent = <<>> /\ given = 0 /\ closes = 0

-----------------------------------------------------------------------------
(* The peer.                                                               *)

PeerSends ==
  /\ peer = "open" /\ alive
  /\ arrived < MaxArrived
  /\ arrived' = arrived + 1
  /\ inbox' = inbox + 1
  /\ UNCHANGED <<flow, state, stream, refs, peer, socketError, shut, closes>>

PeerFinishes ==
  /\ peer = "open" /\ alive
  /\ peer' = "finished"
  /\ UNCHANGED <<flow, state, stream, refs, arrived, inbox, socketError, shut, closes>>

PeerResets ==
  /\ peer # "reset" /\ alive
  /\ peer' = "reset"
  /\ socketError' = TRUE
  /\ UNCHANGED <<flow, state, stream, refs, arrived, inbox, shut, closes>>

Broken == peer = "reset" \/ shut

-----------------------------------------------------------------------------
(* The application, between two polls or in a callback.                    *)

UserCode == loop \in {"poll", "callback"} /\ alive

(* The bytes of the next write: those after the ones given before.          *)
Data(len) == [i \in 1..len |-> given + i]

(* data + n, length - n: what a write of n bytes left.                      *)
Remaining(data, n) == SubSeq(data, n + 1, Len(data))

(* writeBuf.append; writing is enabled as long as there is something left.  *)
Kept_Unannounced(rest) == writeBuf' = writeBuf \o rest /\ mask' = mask
Kept_WriteOnly(rest) ==
  /\ writeBuf' = writeBuf \o rest
  /\ mask' = IF rest # <<>> THEN {"out"} ELSE mask
Kept(rest) ==
  /\ writeBuf' = writeBuf \o rest
  /\ mask' = IF rest # <<>> THEN mask \cup {"out"} ELSE mask

MayWrite_Always == TRUE
MayWrite == state # "Disconnected"

(* Past the buffer only if nothing waits in it.                             *)
Direct_Always == TRUE
Direct == "out" \notin mask /\ writeBuf = <<>>

WriteDirect(len) ==
  /\ UserCode /\ MayWrite
  /\ Direct
  /\ ~ Broken
  /\ given + len <= MaxGiven
  /\ \E n \in 0..len :
       /\ sent' = sent \o SubSeq(Data(len), 1, n)
       /\ Kept(Remaining(Data(len), n))
  /\ given' = given + len
  /\ UNCHANGED <<flow, state, refs, far, inbox, socketError, shut, closes>>

(* EPIPE or ECONNRESET: the data is dropped, the connection left as it is.  *)
WriteFails ==
  /\ UserCode /\ MayWrite
  /\ Direct
  /\ Broken
  /\ socketError' = FALSE
  /\ UNCHANGED <<flow, state, stream, refs, far, inbox, shut, closes>>

WriteBuffered(len) ==
  /\ UserCode /\ MayWrite
  /\ ~ Direct
  /\ given + len <= MaxGiven
  /\ Kept(Data(len))
  /\ given' = given + len
  /\ UNCHANGED <<flow, state, sent, refs, far, inbox, socketError, shut, closes>>

ShutdownWrite ==
  /\ UserCode
  /\ state = "Connected"
  /\ state' = "Disconnecting"
  /\ shut' = TRUE
  /\ UNCHANGED <<flow, stream, refs, far, inbox, socketError, closes>>

(* ~TcpConnect, when the last reference goes.                               *)
DropsTo(inPool, inUse, running) ==
  /\ pooled' = inPool
  /\ held' = inUse
  /\ alive' = (inPool \/ inUse \/ running)

Hold ==
  /\ UserCode
  /\ ~ held
  /\ DropsTo(pooled, TRUE, FALSE)
  /\ UNCHANGED <<flow, state, stream, far, inbox, socketError, shut, closes>>

Release ==
  /\ UserCode
  /\ held
  /\ DropsTo(pooled, FALSE, loop = "callback")
  /\ UNCHANGED <<flow, state, stream, far, inbox, socketError, shut, closes>>

-----------------------------------------------------------------------------
(* The loop.                                                               *)

ConnectedMask_ErrorOnly == {"err"}
ConnectedMask == {"in", "err"}

ConnectedHandle ==
  /\ loop = "accept"
  /\ state' = "Connected"
  /\ mask' = ConnectedMask
  /\ loop' = "callback"
  /\ callback' = "connect"
  /\ UNCHANGED <<todo, writeBuf, refs, far, inbox, socketError, shut, sent,
                 given, closes>>

(* What epoll reports of the socket; whether it has room for more is the    *)
(* peer's affair.                                                           *)
Reported ==
  {c \in {"in", "err", "hup"} :
     \/ c = "in"  /\ "in" \in mask /\ (inbox > 0 \/ peer # "open")
     \/ c = "err" /\ socketError
     \/ c = "hup" /\ (peer = "reset" \/ (peer = "finished" /\ shut))}
  \cup {c \in {"out"} : "out" \in mask /\ peer = "reset"}

Poll ==
  /\ loop = "poll" /\ alive
  /\ \E room \in SUBSET (mask \cap {"out"}) :
       LET revents == Reported \cup room
       IN  /\ revents # {}
           /\ todo' = Calls(revents, Handlers)
  /\ loop' = "handle"
  /\ UNCHANGED <<callback, state, stream, refs, far, inbox, socketError, shut, closes>>

(* closeEvent, within the handler whose call this is.                       *)
Closable_Always == TRUE
Closable == state # "Disconnected"
CloseEvent ==
  IF Closable
  THEN /\ state' = "Disconnected"
       /\ closes' = closes + 1
       /\ loop' = "callback"
       /\ callback' = "close"
  ELSE UNCHANGED <<state, closes, loop, callback>>

Calling(handler) ==
  /\ loop = "handle"
  /\ todo # <<>>
  /\ Head(todo) = handler
  /\ alive

ReadSome ==
  /\ Calling("read")
  /\ \E n \in 1..inbox : inbox' = inbox - n
  /\ todo' = Tail(todo)
  /\ loop' = "callback"
  /\ callback' = "message"
  /\ UNCHANGED <<state, stream, refs, far, socketError, shut, closes>>

(* The end of the stream, or an error, comes after the data before it.      *)
AtEnd == inbox = 0 /\ peer # "open"

ReadEnd ==
  /\ Calling("read")
  /\ AtEnd
  /\ socketError' = FALSE
  /\ todo' = Tail(todo)
  /\ CloseEvent
  /\ UNCHANGED <<stream, refs, far, inbox, shut>>

(* writeEvent's first test; the flush below it never comes about, because   *)
(* epoll reports "out" only of an event that is writing.                    *)
IsWriting == "out" \in mask

WriteEvent ==
  /\ Calling("write")
  /\ todo' = Tail(todo)
  /\ IF IsWriting
     THEN UNCHANGED <<loop, callback, state, stream, socketError, closes>>
     ELSE IF Broken
     THEN /\ CloseEvent
          /\ socketError' = FALSE
          /\ UNCHANGED stream
     ELSE /\ \E n \in 1..Len(writeBuf) :
               /\ sent' = sent \o SubSeq(writeBuf, 1, n)
               /\ writeBuf' = Remaining(writeBuf, n)
          /\ mask' = IF writeBuf' = <<>> THEN mask \ {"out"} ELSE mask
          /\ UNCHANGED <<loop, callback, state, given, socketError, closes>>
  /\ UNCHANGED <<refs, far, inbox, shut>>

ErrorEvent ==
  /\ Calling("error")
  /\ todo' = Tail(todo)
  /\ CloseEvent
  /\ UNCHANGED <<stream, refs, far, inbox, socketError, shut>>

(* After closeCallback the server drops the connection from its pool.       *)
Pooled_StillAfterClose == pooled
PooledAfter == pooled /\ callback # "close"

CallbackReturns ==
  /\ loop = "callback"
  /\ DropsTo(PooledAfter, held, FALSE)
  /\ loop' = IF callback = "connect" THEN "poll" ELSE "handle"
  /\ callback' = "none"
  /\ UNCHANGED <<todo, state, stream, far, inbox, socketError, shut, closes>>

(* handle() goes on although the object its callbacks are bound to is gone. *)
CallsTheDead ==
  /\ loop = "handle"
  /\ todo # <<>>
  /\ ~ alive
  /\ loop' = "undefined"
  /\ UNCHANGED <<callback, todo, state, stream, refs, far, inbox, socketError,
                 shut, closes>>

Handled ==
  /\ loop = "handle"
  /\ todo = <<>>
  /\ loop' = "poll"
  /\ UNCHANGED <<callback, todo, state, stream, refs, far, inbox, socketError,
                 shut, closes>>

-----------------------------------------------------------------------------

LoopStep == \/ ConnectedHandle \/ Poll \/ ReadSome \/ ReadEnd \/ WriteEvent
            \/ ErrorEvent \/ CallbackReturns \/ CallsTheDead \/ Handled

UserStep == \/ WriteFails \/ ShutdownWrite \/ Hold \/ Release
            \/ \E len \in 0..MaxGiven : WriteDirect(len) \/ WriteBuffered(len)

Next == LoopStep \/ UserStep \/ PeerSends \/ PeerFinishes \/ PeerResets

Spec == Init /\ [][Next]_vars

(* The loop runs, and the application's callbacks return.                   *)
FairSpec == Spec /\ WF_vars(LoopStep)

-----------------------------------------------------------------------------

TypeOK ==
  /\ loop \in {"accept", "poll", "handle", "callback", "undefined"}
  /\ callback \in {"none", "connect", "message", "close"}
  /\ todo \in Seq({"read", "write", "error"})
  /\ state \in {"Disconnected", "Connected", "Disconnecting"}
  /\ mask \subseteq {"in", "out", "err"}
  /\ writeBuf \in Seq(1..MaxGiven)
  /\ alive \in BOOLEAN /\ pooled \in BOOLEAN /\ held \in BOOLEAN
  /\ peer \in {"open", "finished", "reset"}
  /\ arrived \in 0..MaxArrived /\ inbox \in 0..arrived
  /\ socketError \in BOOLEAN /\ shut \in BOOLEAN
  /\ sent \in Seq(1..MaxGiven)
  /\ given \in 0..MaxGiven
  /\ closes \in 0..1

(* What the socket took and what waits behind it are the bytes that were    *)
(* given, in order, each once (tcpConnect.cpp:183: written past the buffer  *)
(* the data would overlap).                                                 *)
StreamInOrder == sent \o writeBuf = [i \in 1..given |-> i]

(* The loop is asked to report room exactly while bytes wait for it, or a   *)
(* buffer would never be looked at again, or the loop spin on an empty one  *)
(* (tcpConnect.cpp:98-100, 210-216).                                        *)
WritingIffBuffered == "out" \in mask <=> writeBuf # <<>>

(* A connection that was closed stays closed: nothing is sent on it, and    *)
(* its application hears of it once, whichever of reading and the error     *)
(* callback finds out (tcpConnect.cpp:122-133, 178).                        *)
ClosedForGood ==
  [][closes > 0 => closes' = closes /\ state' = state /\ sent' = sent]_vars

(* The object exists as long as the pool or the application refers to it, a *)
(* closed connection leaves the pool, and the one call that can still reach *)
(* an object that is gone (event.cpp:127) is the write callback of the      *)
(* events whose read callback closed it, with bytes left unsent.            *)
ReferencesKeepAlive ==
  /\ (pooled \/ held) => alive
  /\ alive /\ loop # "callback" => pooled \/ held
  /\ pooled => closes = 0 \/ callback = "close"
  /\ loop = "undefined" => closes = 1 /\ todo = <<"write">> /\ writeBuf # <<>>

(* Reading is never switched off, whatever is written and however it fails, *)
(* and nobody but closeEvent lets go of a connection in the pool: as long   *)
(* as a peer's end has not been noticed, every poll reports it              *)
(* (tcpConnect.cpp:122-133, 150-155, 202-216).                              *)
EndReported ==
  peer # "open" /\ loop = "poll" /\ closes = 0 => alive /\ "in" \in Reported

(* The end of the peer, orderly or not, is noticed.                         *)
EndIsNoticed == (peer # "open") ~> (closes > 0)

(* writeEvent turns away with "connect failed" (tcpConnect.cpp:90) only     *)
(* when the connection failed.                                              *)
RefusalMeansFailure == Calling("write") /\ IsWriting => Broken \/ closes > 0
=============================================================================
