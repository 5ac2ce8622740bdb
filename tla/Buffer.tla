------------------------------- MODULE Buffer --------------------------------
(***************************************************************************)
(* Buffer (src/net/tcp/buffer.cpp): an array of bytes with a read and a    *)
(* write index.  Appending grows the array at its end, and only there:     *)
(* what was read stays in front until the buffer runs empty, when both     *)
(* indices go back to the start.  readFromIO fills the room that is left   *)
(* and takes what is beyond it from a second area on the stack.            *)
(*                                                                         *)
(* Positions count from 0 as in the code; cell i is cells[i + 1].  The     *)
(* indices are uint32_t: MaxSize stays below 2^32, which a buffer that     *)
(* never runs empty would need 4 GB of bytes to leave.                     *)
(*                                                                         *)
(* Operators named X_Y are bugs X might have had; no specification uses    *)
(* them.                                                                   *)
(***************************************************************************)
EXTENDS Naturals, Sequences

CONSTANTS
  Buffers,
  Byte,
  Zero,         \* the byte that resize() fills new cells with
  InitSize,     \* Buffer::InitSize
  ExtraSize,    \* the size of readFromIO's extrabuf
  MaxSize,      \* bound: how far an array grows
  MaxChunk      \* bound: how much is appended in one call

ASSUME BufferAssumption ==
  /\ Zero \in Byte
  /\ InitSize \in Nat /\ ExtraSize \in Nat /\ MaxSize \in Nat /\ MaxChunk \in Nat
  /\ InitSize <= MaxSize

VARIABLES
  buffer,       \* buffer[b]: the array and the two indices
  given,        \* the data of the last call, if it put bytes in
  taken         \* what the last call returned or dropped, if it took bytes out

vars == <<buffer, given, taken>>

Init ==
  /\ buffer = [b \in Buffers |-> [cells |-> [i \in 1..InitSize |-> Zero],
                                  readIndex |-> 0, writeIndex |-> 0]]
  /\ given = <<>> /\ taken = <<>>

-----------------------------------------------------------------------------
(* The operations as functions of one buffer.                              *)

Writable(buf) == Len(buf.cells) - buf.writeIndex
Readable(buf) == buf.writeIndex - buf.readIndex

(* buffer.resize(size), for a size no smaller than the present one.         *)
Resized(cells, size) ==
  [i \in 1..size |-> IF i <= Len(cells) THEN cells[i] ELSE Zero]

(* data copied into the array from position at on.                          *)
Copied(cells, at, data) ==
  [i \in 1..Len(cells) |-> IF i \in at + 1..at + Len(data) THEN data[i - at]
                                                          ELSE cells[i]]

(* ensureWritableBytes                                                      *)
Ensured_ByDataAlone(buf, len) ==
  IF Writable(buf) < len
  THEN [buf EXCEPT !.cells = Resized(@, len)] ELSE buf
Ensured(buf, len) ==
  IF Writable(buf) < len
  THEN [buf EXCEPT !.cells = Resized(@, buf.writeIndex + len)] ELSE buf

(* append                                                                   *)
Appended(buf, data) ==
  LET room == Ensured(buf, Len(data))
  IN  [room EXCEPT !.cells = Copied(@, buf.writeIndex, data),
                   !.writeIndex = @ + Len(data)]

(* readFromIO of a readv that returned data: the array's room first, then   *)
(* extrabuf.                                                                *)
Received_IndexKept(buf, data) ==
  LET writable == Writable(buf)
      overflow == SubSeq(data, writable + 1, Len(data))
  IN  Appended(buf, IF Len(data) <= writable THEN data ELSE overflow)
Received(buf, data) ==
  LET writable == Writable(buf)
  IN  IF Len(data) <= writable
      THEN [buf EXCEPT !.cells = Copied(@, buf.writeIndex, data),
                       !.writeIndex = @ + Len(data)]
      ELSE Appended([buf EXCEPT
                       !.cells = Copied(@, buf.writeIndex, SubSeq(data, 1, writable)),
                       !.writeIndex = Len(buf.cells)],
                    SubSeq(data, writable + 1, Len(data)))

(* clearReadIndex: forward, or back to the start when nothing is left.      *)
Cleared(buf, len) ==
  IF len < Readable(buf)
  THEN [buf EXCEPT !.readIndex = @ + len]
  ELSE [buf EXCEPT !.readIndex = 0, !.writeIndex = 0]

(* The bytes at the read index.                                             *)
Front(buf, len) == SubSeq(buf.cells, buf.readIndex + 1, buf.readIndex + len)

-----------------------------------------------------------------------------
(* The operations as steps.                                                *)

AtMost(n) == UNION {[1..k -> Byte] : k \in 0..n}

AppendData(b) ==
  \E data \in AtMost(MaxChunk) :
    /\ buffer[b].writeIndex + Len(data) <= MaxSize
    /\ buffer' = [buffer EXCEPT ![b] = Appended(@, data)]
    /\ given' = data /\ taken' = <<>>

(* What readv may return: extrabuf is offered only when the room that is    *)
(* left is smaller than it.  An error or the end of the stream, and an      *)
(* empty array that is offered alone, leave the buffer as it is.            *)
MostRead(buf) ==
  Writable(buf) + (IF Writable(buf) < ExtraSize THEN ExtraSize ELSE 0)

ReadFromIO(b) ==
  \E data \in AtMost(MaxChunk) :
    /\ Len(data) <= MostRead(buffer[b])
    /\ buffer[b].writeIndex + Len(data) <= MaxSize
    /\ buffer' = [buffer EXCEPT ![b] = Received(@, data)]
    /\ given' = data /\ taken' = <<>>

(* readBytes, readAsString and, with all that is readable, readAllAs...;    *)
(* writeEvent reads what the socket took in the same way.                   *)
ReadBytes(b) ==
  \E len \in 0..MaxSize :
    LET some == IF len > Readable(buffer[b]) THEN Readable(buffer[b]) ELSE len
    IN  /\ taken' = Front(buffer[b], some)
        /\ buffer' = [buffer EXCEPT ![b] = Cleared(@, some)]
        /\ given' = <<>>

(* retrieveUntil a position, refused outside of what is readable.           *)
RetrieveUntil(b) ==
  \E end \in buffer[b].readIndex..buffer[b].writeIndex :
    LET len == end - buffer[b].readIndex
    IN  /\ taken' = Front(buffer[b], len)
        /\ buffer' = [buffer EXCEPT ![b] = Cleared(@, len)]
        /\ given' = <<>>

Swap(a, b) ==
  /\ buffer' = [buffer EXCEPT ![a] = buffer[b], ![b] = buffer[a]]
  /\ given' = <<>> /\ taken' = <<>>

Next == \/ \E b \in Buffers : \/ AppendData(b) \/ ReadFromIO(b)
                              \/ ReadBytes(b) \/ RetrieveUntil(b)
        \/ \E a, b \in Buffers : Swap(a, b)

Spec == Init /\ [][Next]_vars

-----------------------------------------------------------------------------

(* The array and the two indices of a buffer.                               *)
Array == [cells : Seq(Byte), readIndex : 0..MaxSize, writeIndex : 0..MaxSize]

InBounds(buf) ==
  /\ buf.writeIndex <= Len(buf.cells)
  /\ Len(buf.cells) <= MaxSize

TypeOK ==
  /\ buffer \in [Buffers -> Array]
  /\ \A b \in Buffers : InBounds(buffer[b])
  /\ given \in Seq(Byte) /\ taken \in Seq(Byte)

(* The indices never pass each other, and a buffer that is empty starts     *)
(* over: only a buffer that never runs empty keeps growing                  *)
(* (buffer.cpp:113-135).                                                    *)
StartsOver(buf) ==
  \/ buf.readIndex < buf.writeIndex
  \/ buf.readIndex = 0 /\ buf.writeIndex = 0

EmptyStartsOver == \A b \in Buffers : StartsOver(buffer[b])

(* The buffers are queues of bytes, whatever the array does to hold them:   *)
(* what append and readv were given stands behind what was there, across    *)
(* the array's growth and the overflow into extrabuf (buffer.cpp:53-119),   *)
(* and what is read leaves from the front (126-172).                        *)
Content(buf) == Front(buf, Readable(buf))

Fifo == INSTANCE ByteFifo WITH content <- [b \in Buffers |-> Content(buffer[b])]

ImplementsFifo == Fifo!Spec
=============================================================================
