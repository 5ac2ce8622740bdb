---------------------------- MODULE BufferProofs -----------------------------
(***************************************************************************)
(* Theorems about Buffer, for every set of buffers and bytes and every     *)
(* size: the indices stay in bounds and in order, and the buffers are      *)
(* queues of bytes.  Each operation is first described by a lemma on one   *)
(* buffer; the theorems go through the steps.                              *)
(***************************************************************************)
EXTENDS Buffer, SequenceTheorems, TLAPS

Bytes == Seq(Byte)

(* A buffer in good order.                                                  *)
Sound(buf) == buf \in Array /\ InBounds(buf) /\ StartsOver(buf)

-----------------------------------------------------------------------------
(* One buffer.                                                             *)

LEMMA SoundFacts ==
  ASSUME NEW buf, Sound(buf)
  PROVE  /\ buf.cells \in Bytes /\ Len(buf.cells) \in Nat
         /\ buf.readIndex \in Nat /\ buf.writeIndex \in Nat
         /\ buf.readIndex <= buf.writeIndex
         /\ buf.writeIndex <= Len(buf.cells)
         /\ Len(buf.cells) <= MaxSize
         /\ Readable(buf) \in Nat /\ Writable(buf) \in Nat
  <1>1. buf.cells \in Bytes /\ Len(buf.cells) \in Nat
    BY LenProperties DEF Sound, Array, Bytes
  <1>2. QED
    BY <1>1, BufferAssumption
       DEF Sound, Array, InBounds, StartsOver, Readable, Writable

(* Up to what is readable, the front of a buffer is a stretch of its array. *)
LEMMA FrontFacts ==
  ASSUME NEW buf, Sound(buf), NEW len \in 0..Readable(buf)
  PROVE  /\ Front(buf, len) \in Bytes
         /\ Len(Front(buf, len)) = len
         /\ \A i \in 1..len : Front(buf, len)[i] = buf.cells[buf.readIndex + i]
  <1> DEFINE m == buf.readIndex + 1
             n == buf.readIndex + len
  <1>1. /\ m \in Int /\ n \in Int /\ len \in Nat
        /\ m \in Nat \ {0} /\ n <= Len(buf.cells)
    BY SoundFacts DEF Readable
  <1>2. \A i \in m..n : buf.cells[i] \in Byte
    <2>1. \A i \in m..n : i \in 1..Len(buf.cells)
      BY <1>1, SoundFacts
    <2>2. QED
      BY <2>1, SoundFacts, ElementOfSeq DEF Bytes
  <1>3. /\ SubSeq(buf.cells, m, n) \in Seq(Byte)
        /\ Len(SubSeq(buf.cells, m, n)) = IF m <= n THEN n - m + 1 ELSE 0
        /\ \A i \in 1..n - m + 1 : SubSeq(buf.cells, m, n)[i] = buf.cells[m + i - 1]
    BY <1>1, <1>2, SubSeqProperties
  <1>4. (IF m <= n THEN n - m + 1 ELSE 0) = len /\ n - m + 1 = len
    BY <1>1, SoundFacts
  <1>5. \A i \in 1..len : m + i - 1 = buf.readIndex + i
    BY <1>1, SoundFacts
  <1>6. QED
    BY <1>3, <1>4, <1>5 DEF Front, Bytes

LEMMA ContentFacts ==
  ASSUME NEW buf, Sound(buf)
  PROVE  /\ Content(buf) \in Bytes
         /\ Len(Content(buf)) = Readable(buf)
         /\ \A i \in 1..Readable(buf) :
              Content(buf)[i] = buf.cells[buf.readIndex + i]
  <1>1. Readable(buf) \in 0..Readable(buf)
    BY SoundFacts
  <1>2. QED
    BY <1>1, FrontFacts DEF Content

-----------------------------------------------------------------------------
(* Putting bytes in.                                                       *)

(* after starts where before does, has the same bytes up to where before    *)
(* ends, and data behind them.                                              *)
Grown(after, before, data) ==
  /\ Sound(after)
  /\ after.readIndex = before.readIndex
  /\ after.writeIndex = before.writeIndex + Len(data)
  /\ \A i \in 1..before.writeIndex : after.cells[i] = before.cells[i]
  /\ \A i \in 1..Len(data) : after.cells[before.writeIndex + i] = data[i]

LEMMA GrownTwice ==
  ASSUME NEW a, NEW b, NEW c, NEW first \in Bytes, NEW second \in Bytes,
         Sound(c), Grown(b, c, first), Grown(a, b, second)
  PROVE  Grown(a, c, first \o second)
  <1>1. /\ Len(first) \in Nat /\ Len(second) \in Nat /\ c.writeIndex \in Nat
        /\ b.writeIndex = c.writeIndex + Len(first)
        /\ a.writeIndex = b.writeIndex + Len(second)
    BY SoundFacts, LenProperties DEF Grown, Bytes
  <1>2. /\ Len(first \o second) = Len(first) + Len(second)
        /\ \A i \in 1..Len(first) + Len(second) :
             (first \o second)[i] = IF i <= Len(first) THEN first[i]
                                    ELSE second[i - Len(first)]
    BY ConcatProperties DEF Bytes
  <1>3. \A i \in 1..c.writeIndex : a.cells[i] = c.cells[i]
    <2>1. \A i \in 1..c.writeIndex : i \in 1..b.writeIndex
      BY <1>1
    <2>2. QED
      BY <2>1 DEF Grown
  <1>4. ASSUME NEW i \in 1..Len(first \o second)
        PROVE  a.cells[c.writeIndex + i] = (first \o second)[i]
    <2>1. CASE i <= Len(first)
      <3>1. i \in 1..Len(first) /\ c.writeIndex + i \in 1..b.writeIndex
        BY <1>1, <1>2, <2>1
      <3>2. QED
        BY <1>1, <1>2, <2>1, <3>1 DEF Grown
    <2>2. CASE ~ (i <= Len(first))
      <3>1. /\ i - Len(first) \in 1..Len(second)
            /\ c.writeIndex + i = b.writeIndex + (i - Len(first))
        BY <1>1, <1>2, <2>2
      <3>2. QED
        BY <1>1, <1>2, <2>2, <3>1 DEF Grown
    <2>3. QED
      BY <2>1, <2>2
  <1>5. a.writeIndex = c.writeIndex + Len(first \o second)
    BY <1>1, <1>2
  <1>6. QED
    BY <1>3, <1>4, <1>5 DEF Grown

(* Then after holds what before held and the data behind it.                *)
LEMMA GrownContent ==
  ASSUME NEW a, NEW b, NEW data \in Bytes, Sound(b), Grown(a, b, data)
  PROVE  Content(a) = Content(b) \o data
  <1>1. /\ Len(data) \in Nat
        /\ b.readIndex \in Nat /\ b.writeIndex \in Nat /\ b.readIndex <= b.writeIndex
        /\ a.readIndex = b.readIndex /\ a.writeIndex = b.writeIndex + Len(data)
    BY SoundFacts, LenProperties DEF Grown, Bytes
  <1>2. /\ Readable(b) \in Nat /\ b.readIndex + Readable(b) = b.writeIndex
        /\ Readable(a) = Readable(b) + Len(data)
    BY <1>1 DEF Readable
  <1>3. /\ Content(a) \in Bytes /\ Len(Content(a)) = Readable(a)
        /\ \A i \in 1..Readable(a) : Content(a)[i] = a.cells[a.readIndex + i]
    BY ContentFacts DEF Grown
  <1>4. /\ Content(b) \in Bytes /\ Len(Content(b)) = Readable(b)
        /\ \A i \in 1..Readable(b) : Content(b)[i] = b.cells[b.readIndex + i]
    BY ContentFacts
  <1>5. /\ Content(b) \o data \in Bytes
        /\ Len(Content(b) \o data) = Readable(a)
        /\ \A i \in 1..Readable(a) :
             (Content(b) \o data)[i] = IF i <= Readable(b) THEN Content(b)[i]
                                       ELSE data[i - Readable(b)]
    <2>1. LET c == Content(b)
          IN  /\ c \o data \in Seq(Byte)
              /\ Len(c \o data) = Len(c) + Len(data)
              /\ \A i \in 1..Len(c) + Len(data) :
                   (c \o data)[i] = IF i <= Len(c) THEN c[i] ELSE data[i - Len(c)]
      BY <1>4, ConcatProperties DEF Bytes
    <2>2. QED
      BY <1>2, <1>4, <2>1 DEF Bytes
  <1>6. ASSUME NEW i \in 1..Readable(a)
        PROVE  Content(a)[i] = (Content(b) \o data)[i]
    <2>1. Content(a)[i] = a.cells[b.readIndex + i]
      BY <1>1, <1>3
    <2>2. CASE i <= Readable(b)
      <3>1. i \in 1..Readable(b) /\ b.readIndex + i \in 1..b.writeIndex
        BY <1>1, <1>2, <2>2
      <3>2. QED
        BY <1>4, <1>5, <2>1, <2>2, <3>1 DEF Grown
    <2>3. CASE ~ (i <= Readable(b))
      <3>1. /\ i - Readable(b) \in 1..Len(data)
            /\ b.readIndex + i = b.writeIndex + (i - Readable(b))
        BY <1>1, <1>2, <2>3
      <3>2. a.cells[b.writeIndex + (i - Readable(b))] = data[i - Readable(b)]
        BY <3>1 DEF Grown
      <3>3. QED
        BY <1>5, <2>1, <2>3, <3>1, <3>2
    <2>4. QED
      BY <2>2, <2>3
  <1>7. QED
    BY <1>3, <1>5, <1>6, SeqEqual DEF Bytes

(* An array enlarged keeps its bytes.                                       *)
LEMMA ResizedFacts ==
  ASSUME NEW cells \in Bytes, NEW size \in Nat, Len(cells) <= size
  PROVE  /\ Resized(cells, size) \in Bytes
         /\ Len(Resized(cells, size)) = size
         /\ \A i \in 1..Len(cells) : Resized(cells, size)[i] = cells[i]
  <1> DEFINE e(i) == IF i <= Len(cells) THEN cells[i] ELSE Zero
  <1>1. Len(cells) \in Nat
    BY LenProperties DEF Bytes
  <1>2. ASSUME NEW i \in 1..size
        PROVE  e(i) \in Byte
    <2>1. CASE i <= Len(cells)
      <3>1. i \in 1..Len(cells)
        BY <1>1, <2>1
      <3>2. QED
        BY <2>1, <3>1, ElementOfSeq DEF Bytes
    <2>2. CASE ~ (i <= Len(cells))
      BY <2>2, BufferAssumption
    <2>3. QED
      BY <2>1, <2>2
  <1>3. [i \in 1..size |-> e(i)] \in [1..size -> Byte]
    BY <1>2
  <1>4. Resized(cells, size) = [i \in 1..size |-> e(i)]
    BY DEF Resized
  <1>5. Resized(cells, size) \in Seq(Byte) /\ Len(Resized(cells, size)) = size
    BY <1>3, <1>4
  <1>6. \A i \in 1..Len(cells) : i \in 1..size /\ i <= Len(cells)
    BY <1>1
  <1>7. QED
    BY <1>4, <1>5, <1>6 DEF Bytes

(* Copying at a position keeps what is before it and puts the data there.   *)
LEMMA CopiedFacts ==
  ASSUME NEW cells \in Bytes, NEW data \in Bytes, NEW at \in Nat,
         at + Len(data) <= Len(cells)
  PROVE  /\ Copied(cells, at, data) \in Bytes
         /\ Len(Copied(cells, at, data)) = Len(cells)
         /\ \A i \in 1..at : Copied(cells, at, data)[i] = cells[i]
         /\ \A i \in 1..Len(data) : Copied(cells, at, data)[at + i] = data[i]
  <1> DEFINE e(i) == IF i \in at + 1..at + Len(data) THEN data[i - at] ELSE cells[i]
  <1>1. Len(cells) \in Nat /\ Len(data) \in Nat
    BY LenProperties DEF Bytes
  <1>2. ASSUME NEW i \in 1..Len(cells)
        PROVE  e(i) \in Byte
    <2>1. CASE i \in at + 1..at + Len(data)
      <3>1. i - at \in 1..Len(data)
        BY <1>1, <2>1
      <3>2. QED
        BY <2>1, <3>1, ElementOfSeq DEF Bytes
    <2>2. CASE i \notin at + 1..at + Len(data)
      BY <2>2, ElementOfSeq DEF Bytes
    <2>3. QED
      BY <2>1, <2>2
  <1>3. [i \in 1..Len(cells) |-> e(i)] \in [1..Len(cells) -> Byte]
    BY <1>2
  <1>4. Copied(cells, at, data) = [i \in 1..Len(cells) |-> e(i)]
    BY DEF Copied
  <1>5. Copied(cells, at, data) \in Seq(Byte) /\ Len(Copied(cells, at, data)) = Len(cells)
    BY <1>1, <1>3, <1>4
  <1>6. \A i \in 1..at : i \in 1..Len(cells) /\ i \notin at + 1..at + Len(data)
    BY <1>1
  <1>7. \A i \in 1..Len(data) : /\ at + i \in 1..Len(cells)
                                /\ at + i \in at + 1..at + Len(data)
                                /\ (at + i) - at = i
    BY <1>1
  <1>8. QED
    BY <1>4, <1>5, <1>6, <1>7 DEF Bytes

(* ensureWritableBytes makes the room and moves nothing.                    *)
LEMMA EnsuredFacts ==
  ASSUME NEW buf, Sound(buf), NEW len \in Nat, buf.writeIndex + len <= MaxSize
  PROVE  /\ Grown(Ensured(buf, len), buf, <<>>)
         /\ Ensured(buf, len).writeIndex = buf.writeIndex
         /\ buf.writeIndex + len <= Len(Ensured(buf, len).cells)
  <1>1. CASE Writable(buf) < len
    <2> DEFINE r == Resized(buf.cells, buf.writeIndex + len)
               grown == [buf EXCEPT !.cells = r]
    <2>1. Len(buf.cells) <= buf.writeIndex + len /\ buf.writeIndex + len \in Nat
      BY <1>1, SoundFacts DEF Writable
    <2>2. /\ r \in Bytes
          /\ Len(r) = buf.writeIndex + len
          /\ \A i \in 1..Len(buf.cells) : r[i] = buf.cells[i]
      BY <2>1, SoundFacts, ResizedFacts
    <2>3. Ensured(buf, len) = grown
      BY <1>1 DEF Ensured
    <2>4. /\ grown \in Array /\ grown.cells = r
          /\ grown.readIndex = buf.readIndex /\ grown.writeIndex = buf.writeIndex
      BY <2>2 DEF Sound, Array, Bytes
    <2> HIDE DEF grown, r
    <2>5. Sound(grown)
      <3>1. InBounds(grown)
        BY <2>1, <2>2, <2>4, SoundFacts DEF InBounds
      <3>2. StartsOver(grown)
        BY <2>4 DEF Sound, StartsOver
      <3>3. QED
        BY <2>4, <3>1, <3>2 DEF Sound
    <2>6. \A i \in 1..buf.writeIndex : i \in 1..Len(buf.cells)
      BY SoundFacts
    <2>7. QED
      BY <2>1, <2>2, <2>3, <2>4, <2>5, <2>6, SoundFacts DEF Grown
  <1>2. CASE ~ (Writable(buf) < len)
    BY <1>2, SoundFacts DEF Ensured, Grown, Writable
  <1>3. QED
    BY <1>1, <1>2

(* Bytes written behind the write index, where there is room for them.      *)
LEMMA WrittenFacts ==
  ASSUME NEW buf, Sound(buf), NEW data \in Bytes,
         buf.writeIndex + Len(data) <= Len(buf.cells), NEW end,
         end = buf.writeIndex + Len(data)
  PROVE  Grown([buf EXCEPT !.cells = Copied(@, buf.writeIndex, data),
                           !.writeIndex = end], buf, data)
  <1> DEFINE c == Copied(buf.cells, buf.writeIndex, data)
             after == [buf EXCEPT !.cells = Copied(@, buf.writeIndex, data),
                                  !.writeIndex = end]
  <1>1. Len(data) \in Nat
    BY LenProperties DEF Bytes
  <1>2. /\ c \in Bytes
        /\ Len(c) = Len(buf.cells)
        /\ \A i \in 1..buf.writeIndex : c[i] = buf.cells[i]
        /\ \A i \in 1..Len(data) : c[buf.writeIndex + i] = data[i]
    BY SoundFacts, CopiedFacts
  <1>3. end \in 0..MaxSize
    BY <1>1, SoundFacts, BufferAssumption
  <1>4. /\ after \in Array /\ after.cells = c
        /\ after.readIndex = buf.readIndex /\ after.writeIndex = end
    BY <1>2, <1>3 DEF Sound, Array, Bytes
  <1>5. InBounds(after)
    BY <1>2, <1>4, SoundFacts DEF InBounds
  <1>6. StartsOver(after)
    BY <1>1, <1>4, SoundFacts DEF Sound, StartsOver
  <1>7. buf.writeIndex <= end
    BY <1>1, SoundFacts
  <1>8. QED
    BY <1>2, <1>4, <1>5, <1>6, <1>7 DEF Sound, Grown

LEMMA AppendedGrown ==
  ASSUME NEW buf, Sound(buf), NEW data \in Bytes, buf.writeIndex + Len(data) <= MaxSize
  PROVE  Grown(Appended(buf, data), buf, data)
  <1> DEFINE room == Ensured(buf, Len(data))
  <1>1. Len(data) \in Nat
    BY LenProperties DEF Bytes
  <1>2. /\ Grown(room, buf, <<>>) /\ Sound(room)
        /\ room.writeIndex = buf.writeIndex
        /\ room.writeIndex + Len(data) <= Len(room.cells)
    BY <1>1, EnsuredFacts DEF Grown
  <1>3. Grown([room EXCEPT !.cells = Copied(@, room.writeIndex, data),
                           !.writeIndex = room.writeIndex + Len(data)], room, data)
    BY <1>2, WrittenFacts
  <1>4. Appended(buf, data)
          = [room EXCEPT !.cells = Copied(@, room.writeIndex, data),
                         !.writeIndex = room.writeIndex + Len(data)]
    BY <1>2 DEF Appended
  <1>5. <<>> \in Bytes /\ <<>> \o data = data
    BY EmptySeq, ConcatEmptySeq DEF Bytes
  <1>6. Grown(Appended(buf, data), room, data)
    BY <1>3, <1>4
  <1> HIDE DEF room
  <1>7. Grown(Appended(buf, data), buf, <<>> \o data)
    BY <1>2, <1>5, <1>6, GrownTwice
  <1>8. QED
    BY <1>5, <1>7

(* What is split in two and joined again is the same.                       *)
LEMMA SplitFacts ==
  ASSUME NEW data \in Bytes, NEW w \in 0..Len(data)
  PROVE  LET first == SubSeq(data, 1, w)
             rest == SubSeq(data, w + 1, Len(data))
         IN  /\ first \in Bytes /\ rest \in Bytes
             /\ Len(first) = w /\ Len(rest) = Len(data) - w
             /\ first \o rest = data
  <1> DEFINE first == SubSeq(data, 1, w)
             rest == SubSeq(data, w + 1, Len(data))
  <1>1. Len(data) \in Nat /\ w \in Nat /\ w <= Len(data)
    BY LenProperties DEF Bytes
  <1>2. /\ \A i \in 1..w : data[i] \in Byte
        /\ \A i \in w + 1..Len(data) : data[i] \in Byte
    <2>1. \A i \in 1..Len(data) : data[i] \in Byte
      BY ElementOfSeq DEF Bytes
    <2>2. QED
      BY <1>1, <2>1
  <1>3. /\ first \in Bytes /\ Len(first) = w
        /\ \A i \in 1..w : first[i] = data[i]
    <2>1. /\ first \in Seq(Byte)
          /\ Len(first) = IF 1 <= w THEN w - 1 + 1 ELSE 0
          /\ \A i \in 1..w - 1 + 1 : first[i] = data[1 + i - 1]
      BY <1>1, <1>2, SubSeqProperties
    <2>2. /\ (IF 1 <= w THEN w - 1 + 1 ELSE 0) = w /\ w - 1 + 1 = w
          /\ \A i \in 1..w : 1 + i - 1 = i
      BY <1>1
    <2>3. QED
      BY <2>1, <2>2 DEF Bytes
  <1>4. /\ rest \in Bytes /\ Len(rest) = Len(data) - w
        /\ \A i \in 1..Len(data) - w : rest[i] = data[w + i]
    <2>1. /\ rest \in Seq(Byte)
          /\ Len(rest) = IF w + 1 <= Len(data) THEN Len(data) - (w + 1) + 1 ELSE 0
          /\ \A i \in 1..Len(data) - (w + 1) + 1 : rest[i] = data[w + 1 + i - 1]
      BY <1>1, <1>2, SubSeqProperties
    <2>2. /\ (IF w + 1 <= Len(data) THEN Len(data) - (w + 1) + 1 ELSE 0)
               = Len(data) - w
          /\ Len(data) - (w + 1) + 1 = Len(data) - w
          /\ \A i \in 1..Len(data) - w : w + 1 + i - 1 = w + i
      BY <1>1
    <2>3. QED
      BY <2>1, <2>2 DEF Bytes
  <1> HIDE DEF first, rest
  <1>5. /\ first \o rest \in Bytes
        /\ Len(first \o rest) = Len(data)
        /\ \A i \in 1..Len(data) :
             (first \o rest)[i] = IF i <= w THEN first[i] ELSE rest[i - w]
    <2>1. /\ first \o rest \in Seq(Byte)
          /\ Len(first \o rest) = Len(first) + Len(rest)
          /\ \A i \in 1..Len(first) + Len(rest) :
               (first \o rest)[i] = IF i <= Len(first) THEN first[i]
                                    ELSE rest[i - Len(first)]
      BY <1>3, <1>4, ConcatProperties DEF Bytes
    <2>2. w + (Len(data) - w) = Len(data)
      BY <1>1
    <2>3. QED
      BY <1>3, <1>4, <2>1, <2>2 DEF Bytes
  <1>6. ASSUME NEW i \in 1..Len(data)
        PROVE  (first \o rest)[i] = data[i]
    <2>1. CASE i <= w
      BY <1>1, <1>3, <1>5, <2>1
    <2>2. CASE ~ (i <= w)
      <3>1. i - w \in 1..Len(data) - w /\ w + (i - w) = i
        BY <1>1, <2>2
      <3>2. QED
        BY <1>4, <1>5, <2>2, <3>1
    <2>3. QED
      BY <2>1, <2>2
  <1>7. first \o rest = data
    BY <1>5, <1>6, SeqEqual DEF Bytes
  <1>8. QED
    BY <1>3, <1>4, <1>7 DEF first, rest

LEMMA ReceivedGrown ==
  ASSUME NEW buf, Sound(buf), NEW data \in Bytes, buf.writeIndex + Len(data) <= MaxSize
  PROVE  Grown(Received(buf, data), buf, data)
  <1>1. Len(data) \in Nat /\ Writable(buf) \in Nat
    BY SoundFacts, LenProperties DEF Bytes
  <1>2. CASE Len(data) <= Writable(buf)
    <2>1. buf.writeIndex + Len(data) <= Len(buf.cells)
      BY <1>1, <1>2, SoundFacts DEF Writable
    <2>2. Grown([buf EXCEPT !.cells = Copied(@, buf.writeIndex, data),
                            !.writeIndex = buf.writeIndex + Len(data)], buf, data)
      BY <2>1, WrittenFacts
    <2>3. QED
      BY <1>2, <2>2 DEF Received
  <1>3. CASE ~ (Len(data) <= Writable(buf))
    <2> DEFINE w == Writable(buf)
               first == SubSeq(data, 1, w)
               rest == SubSeq(data, w + 1, Len(data))
               full == [buf EXCEPT !.cells = Copied(@, buf.writeIndex, first),
                                   !.writeIndex = Len(buf.cells)]
    <2>1. /\ first \in Bytes /\ rest \in Bytes
          /\ Len(first) = w /\ Len(rest) = Len(data) - w
          /\ first \o rest = data
      <3>1. w \in 0..Len(data)
        BY <1>1, <1>3
      <3>2. QED
        BY <3>1, SplitFacts
    <2>2. Len(buf.cells) = buf.writeIndex + Len(first)
      <3>1. Len(buf.cells) = buf.writeIndex + w
        BY SoundFacts DEF Writable
      <3>2. QED
        BY <2>1, <3>1
    <2>3. Grown(full, buf, first) /\ Sound(full)
      <3> HIDE DEF first, rest, w
      <3>1. buf.writeIndex + Len(first) <= Len(buf.cells)
        BY <2>1, <2>2, SoundFacts
      <3>2. Grown(full, buf, first)
        BY <2>1, <2>2, <3>1, WrittenFacts
      <3>3. QED
        BY <3>2 DEF Grown
    <2>4. full.writeIndex = Len(buf.cells)
      BY DEF Sound, Array
    <2>5. full.writeIndex + Len(rest) <= MaxSize
      BY <1>1, <2>1, <2>2, <2>4, SoundFacts
    <2>6. Grown(Appended(full, rest), full, rest)
      BY <2>1, <2>3, <2>5, AppendedGrown
    <2>7. Received(buf, data) = Appended(full, rest)
      BY <1>3 DEF Received
    <2>8. QED
      BY <2>1, <2>3, <2>6, <2>7, GrownTwice
  <1>4. QED
    BY <1>2, <1>3

-----------------------------------------------------------------------------
(* Taking bytes out.                                                       *)

(* The front of a buffer is the front of what it holds.                     *)
LEMMA FrontOfContent ==
  ASSUME NEW buf, Sound(buf), NEW len \in 0..Readable(buf)
  PROVE  SubSeq(Content(buf), 1, len) = Front(buf, len)
  <1> DEFINE s == SubSeq(Content(buf), 1, len)
  <1>1. Readable(buf) \in Nat /\ len \in Nat /\ len <= Readable(buf)
    BY SoundFacts
  <1>2. \A i \in 1..len : i \in 1..Readable(buf) /\ 1 + i - 1 = i
    BY <1>1
  <1>3. \A i \in 1..len : Content(buf)[i] \in Byte
    BY <1>2, ContentFacts, ElementOfSeq DEF Bytes
  <1>4. /\ s \in Seq(Byte)
        /\ Len(s) = IF 1 <= len THEN len - 1 + 1 ELSE 0
        /\ \A i \in 1..len - 1 + 1 : s[i] = Content(buf)[1 + i - 1]
    BY <1>1, <1>3, SubSeqProperties
  <1>5. (IF 1 <= len THEN len - 1 + 1 ELSE 0) = len /\ len - 1 + 1 = len
    BY <1>1
  <1>6. \A i \in 1..len : s[i] = Front(buf, len)[i]
    BY <1>2, <1>4, <1>5, ContentFacts, FrontFacts
  <1>7. Front(buf, len) \in Seq(Byte) /\ Len(s) = Len(Front(buf, len))
    BY <1>4, <1>5, FrontFacts DEF Bytes
  <1>8. QED
    BY <1>4, <1>5, <1>6, <1>7, SeqEqual

(* clearReadIndex drops the front and nothing else.                         *)
LEMMA ClearedFacts ==
  ASSUME NEW buf, Sound(buf), NEW len \in 0..Readable(buf)
  PROVE  /\ Sound(Cleared(buf, len))
         /\ Content(Cleared(buf, len))
              = SubSeq(Content(buf), len + 1, Len(Content(buf)))
  <1> DEFINE after == Cleared(buf, len)
             rest == SubSeq(Content(buf), len + 1, Len(Content(buf)))
             left == Readable(buf) - len
  <1>1. Readable(buf) \in Nat /\ len \in Nat /\ len <= Readable(buf) /\ left \in Nat
    BY SoundFacts
  <1>2. Sound(after) /\ Readable(after) = left
    <2>1. CASE len < Readable(buf)
      <3>1. /\ after.cells = buf.cells /\ after.readIndex = buf.readIndex + len
            /\ after.writeIndex = buf.writeIndex
        BY <2>1 DEF Cleared, Sound, Array
      <3>2. buf.readIndex + len < buf.writeIndex /\ buf.readIndex + len \in 0..MaxSize
        BY <1>1, <2>1, SoundFacts, BufferAssumption DEF Readable
      <3>3. after \in Array
        BY <2>1, <3>2 DEF Cleared, Sound, Array
      <3>4. QED
        BY <1>1, <3>1, <3>2, <3>3, SoundFacts
           DEF Sound, InBounds, StartsOver, Readable
    <2>2. CASE ~ (len < Readable(buf))
      <3>1. /\ after.cells = buf.cells /\ after.readIndex = 0 /\ after.writeIndex = 0
        BY <2>2 DEF Cleared, Sound, Array
      <3>2. after \in Array
        <4>1. 0 \in 0..MaxSize
          BY BufferAssumption
        <4>2. after = [buf EXCEPT !.readIndex = 0, !.writeIndex = 0]
          BY <2>2 DEF Cleared
        <4>3. QED
          BY <4>1, <4>2 DEF Sound, Array
      <3>3. left = 0
        BY <1>1, <2>2
      <3>4. QED
        BY <3>1, <3>2, <3>3, SoundFacts DEF Sound, InBounds, StartsOver, Readable
    <2>3. QED
      BY <2>1, <2>2
  <1>3. /\ rest \in Seq(Byte)
        /\ Len(rest) = left
        /\ \A i \in 1..left : rest[i] = Content(buf)[len + i]
    <2>1. Len(Content(buf)) = Readable(buf)
      BY ContentFacts
    <2>2. \A i \in len + 1..Readable(buf) : i \in 1..Readable(buf)
      BY <1>1
    <2>3. \A i \in len + 1..Readable(buf) : Content(buf)[i] \in Byte
      BY <2>1, <2>2, ContentFacts, ElementOfSeq DEF Bytes
    <2>4. /\ rest \in Seq(Byte)
          /\ Len(rest) = IF len + 1 <= Readable(buf)
                         THEN Readable(buf) - (len + 1) + 1 ELSE 0
          /\ \A i \in 1..Readable(buf) - (len + 1) + 1 :
               rest[i] = Content(buf)[len + 1 + i - 1]
      <3>1. len + 1 \in Int /\ Readable(buf) \in Int
        BY <1>1
      <3>2. QED
        BY <2>1, <2>3, <3>1, SubSeqProperties
    <2>5. /\ (IF len + 1 <= Readable(buf) THEN Readable(buf) - (len + 1) + 1 ELSE 0)
               = left
          /\ Readable(buf) - (len + 1) + 1 = left
          /\ \A i \in 1..left : len + 1 + i - 1 = len + i
      BY <1>1
    <2>6. QED
      BY <2>4, <2>5
  <1>4. \A i \in 1..left : Content(after)[i] = rest[i]
    <2>1. TAKE i \in 1..left
    <2>2. len < Readable(buf) /\ len + i \in 1..Readable(buf)
      BY <1>1
    <2>3. after.cells = buf.cells /\ after.readIndex = buf.readIndex + len
      BY <2>2 DEF Cleared, Sound, Array
    <2>4. Content(after)[i] = buf.cells[(buf.readIndex + len) + i]
      BY <1>2, <2>3, ContentFacts
    <2>5. rest[i] = buf.cells[buf.readIndex + (len + i)]
      BY <1>3, <2>2, ContentFacts
    <2>6. (buf.readIndex + len) + i = buf.readIndex + (len + i)
      BY <1>1, SoundFacts
    <2>7. QED
      BY <2>4, <2>5, <2>6
  <1>5. Content(after) \in Seq(Byte) /\ Len(Content(after)) = left
    BY <1>2, ContentFacts DEF Bytes
  <1>6. QED
    BY <1>2, <1>3, <1>4, <1>5, SeqEqual

-----------------------------------------------------------------------------
(* The steps.                                                              *)

LEMMA AtMostBytes ==
  ASSUME NEW n \in Nat
  PROVE  AtMost(n) \subseteq Bytes
  BY DEF AtMost, Bytes

(* What an operation did to the buffers: one of them changed, or two were   *)
(* swapped.                                                                 *)
LEMMA Puts ==
  ASSUME \A b \in Buffers : Sound(buffer[b]), TypeOK,
         NEW b \in Buffers, AppendData(b) \/ ReadFromIO(b)
  PROVE  /\ buffer' = [buffer EXCEPT ![b] = buffer'[b]]
         /\ given' \in Bytes /\ taken' = <<>>
         /\ Grown(buffer'[b], buffer[b], given')
  <1>1. AtMost(MaxChunk) \subseteq Bytes
    BY AtMostBytes, BufferAssumption
  <1>2. CASE AppendData(b)
    <2>1. /\ given' \in AtMost(MaxChunk) /\ taken' = <<>>
          /\ buffer[b].writeIndex + Len(given') <= MaxSize
          /\ buffer' = [buffer EXCEPT ![b] = Appended(@, given')]
      BY <1>2 DEF AppendData
    <2>2. buffer'[b] = Appended(buffer[b], given')
      BY <2>1 DEF TypeOK
    <2>3. QED
      BY <1>1, <2>1, <2>2, AppendedGrown
  <1>3. CASE ReadFromIO(b)
    <2>1. /\ given' \in AtMost(MaxChunk) /\ taken' = <<>>
          /\ buffer[b].writeIndex + Len(given') <= MaxSize
          /\ buffer' = [buffer EXCEPT ![b] = Received(@, given')]
      BY <1>3 DEF ReadFromIO
    <2>2. buffer'[b] = Received(buffer[b], given')
      BY <2>1 DEF TypeOK
    <2>3. QED
      BY <1>1, <2>1, <2>2, ReceivedGrown
  <1>4. QED
    BY <1>2, <1>3

LEMMA Takes ==
  ASSUME \A b \in Buffers : Sound(buffer[b]), TypeOK,
         NEW b \in Buffers, ReadBytes(b) \/ RetrieveUntil(b)
  PROVE  \E len \in 0..Readable(buffer[b]) :
           /\ taken' = Front(buffer[b], len)
           /\ buffer' = [buffer EXCEPT ![b] = Cleared(@, len)]
           /\ given' = <<>>
  <1>0. Readable(buffer[b]) \in Nat
    BY SoundFacts
  <1>1. ASSUME ReadBytes(b)
        PROVE  \E len \in 0..Readable(buffer[b]) :
                 /\ taken' = Front(buffer[b], len)
                 /\ buffer' = [buffer EXCEPT ![b] = Cleared(@, len)]
                 /\ given' = <<>>
    <2> DEFINE some(len) == IF len > Readable(buffer[b]) THEN Readable(buffer[b]) ELSE len
    <2>1. PICK len \in 0..MaxSize :
            /\ taken' = Front(buffer[b], some(len))
            /\ buffer' = [buffer EXCEPT ![b] = Cleared(@, some(len))]
            /\ given' = <<>>
      BY <1>1 DEF ReadBytes
    <2>2. some(len) \in 0..Readable(buffer[b])
      BY <1>0, BufferAssumption
    <2>3. QED
      BY <2>1, <2>2
  <1>2. ASSUME RetrieveUntil(b)
        PROVE  \E len \in 0..Readable(buffer[b]) :
                 /\ taken' = Front(buffer[b], len)
                 /\ buffer' = [buffer EXCEPT ![b] = Cleared(@, len)]
                 /\ given' = <<>>
    <2>1. PICK end \in buffer[b].readIndex..buffer[b].writeIndex :
            /\ taken' = Front(buffer[b], end - buffer[b].readIndex)
            /\ buffer' = [buffer EXCEPT ![b] = Cleared(@, end - buffer[b].readIndex)]
            /\ given' = <<>>
      BY <1>2 DEF RetrieveUntil
    <2>2. end - buffer[b].readIndex \in 0..Readable(buffer[b])
      BY SoundFacts DEF Readable
    <2>3. QED
      BY <2>1, <2>2
  <1>3. QED
    BY <1>1, <1>2

-----------------------------------------------------------------------------
(* The inductive invariant: the types alone do not keep the write index     *)
(* ahead of the read index, which the bounds of the copies rest on.         *)
IndInv == TypeOK /\ EmptyStartsOver

LEMMA IndInvIsSound ==
  ASSUME IndInv
  PROVE  \A b \in Buffers : Sound(buffer[b])
  BY DEF IndInv, TypeOK, EmptyStartsOver, Sound

LEMMA IndInvHolds == Spec => []IndInv
  <1>1. Init => IndInv
    <2>1. [i \in 1..InitSize |-> Zero] \in Seq(Byte)
      BY BufferAssumption
    <2>2. Len([i \in 1..InitSize |-> Zero]) = InitSize
      BY BufferAssumption
    <2>3. 0 \in 0..MaxSize
      BY BufferAssumption
    <2>4. QED
      BY <2>1, <2>2, <2>3, BufferAssumption
         DEF Init, IndInv, TypeOK, EmptyStartsOver, Array, InBounds, StartsOver
  <1>2. IndInv /\ [Next]_vars => IndInv'
    <2> SUFFICES ASSUME IndInv, [Next]_vars PROVE IndInv'
      OBVIOUS
    <2>0. /\ \A b \in Buffers : Sound(buffer[b])
          /\ TypeOK /\ buffer \in [Buffers -> Array]
          /\ <<>> \in Seq(Byte)
      BY IndInvIsSound, EmptySeq DEF IndInv, TypeOK
    <2>1. ASSUME NEW b \in Buffers, AppendData(b) \/ ReadFromIO(b)
          PROVE  IndInv'
      <3>1. /\ buffer' = [buffer EXCEPT ![b] = buffer'[b]]
            /\ Sound(buffer'[b])
            /\ given' \in Seq(Byte) /\ taken' \in Seq(Byte)
        BY <2>0, <2>1, Puts DEF Grown, Bytes
      <3>2. buffer' \in [Buffers -> Array]
        BY <2>0, <3>1 DEF Sound
      <3>3. \A c \in Buffers : Sound(buffer'[c])
        BY <2>0, <3>1
      <3>4. QED
        BY <2>0, <3>1, <3>2, <3>3
           DEF IndInv, TypeOK, EmptyStartsOver, Sound
    <2>2. ASSUME NEW b \in Buffers, ReadBytes(b) \/ RetrieveUntil(b)
          PROVE  IndInv'
      <3>1. PICK len \in 0..Readable(buffer[b]) :
              /\ taken' = Front(buffer[b], len)
              /\ buffer' = [buffer EXCEPT ![b] = Cleared(@, len)]
              /\ given' = <<>>
        BY <2>0, <2>2, Takes
      <3>2. Sound(Cleared(buffer[b], len)) /\ taken' \in Seq(Byte)
        BY <2>0, <3>1, ClearedFacts, FrontFacts DEF Bytes
      <3>3. buffer' \in [Buffers -> Array]
        BY <2>0, <3>1, <3>2 DEF Sound
      <3>4. \A c \in Buffers : Sound(buffer'[c])
        BY <2>0, <3>1, <3>2
      <3>5. QED
        BY <2>0, <3>1, <3>2, <3>3, <3>4
           DEF IndInv, TypeOK, EmptyStartsOver, Sound
    <2>3. ASSUME NEW a \in Buffers, NEW b \in Buffers, Swap(a, b)
          PROVE  IndInv'
      <3>1. /\ buffer' \in [Buffers -> Array]
            /\ given' \in Seq(Byte) /\ taken' \in Seq(Byte)
            /\ \A c \in Buffers : \E d \in Buffers : buffer'[c] = buffer[d]
        BY <2>0, <2>3 DEF Swap
      <3>2. \A c \in Buffers : Sound(buffer'[c])
        BY <2>0, <3>1
      <3>3. QED
        BY <3>1, <3>2 DEF IndInv, TypeOK, EmptyStartsOver, Sound
    <2>4. CASE UNCHANGED vars
      BY <2>4 DEF vars, IndInv, TypeOK, EmptyStartsOver
    <2>5. QED
      BY <2>1, <2>2, <2>3, <2>4 DEF Next
  <1>3. QED
    BY <1>1, <1>2, PTL DEF Spec

(* Every index stays inside its array, whatever is appended, received, read *)
(* and swapped (buffer.cpp:98-135).                                         *)
THEOREM Typing == Spec => []TypeOK
  BY IndInvHolds, PTL DEF IndInv

(* The read index never passes the write index, and an empty buffer is back *)
(* at its start (buffer.cpp:126-135).                                       *)
THEOREM IndicesInOrder == Spec => []EmptyStartsOver
  BY IndInvHolds, PTL DEF IndInv

-----------------------------------------------------------------------------
(* The refinement.                                                         *)

Held == [b \in Buffers |-> Content(buffer[b])]

(* What append and readv are given stands in the buffer behind what was     *)
(* there, and leaves it from the front: buffer.cpp implements the queue of  *)
(* bytes, through every resize and every overflow into extrabuf.            *)
THEOREM BufferImplementsFifo == Spec => ImplementsFifo
  <1>1. Init => Fifo!Init
    <2> SUFFICES ASSUME Init PROVE Fifo!Init
      OBVIOUS
    <2>1. ASSUME NEW b \in Buffers
          PROVE  Content(buffer[b]) = <<>>
      <3>1. buffer[b].readIndex = 0 /\ buffer[b].writeIndex = 0
        BY DEF Init
      <3>2. Content(buffer[b]) = SubSeq(buffer[b].cells, 1, 0)
        BY <3>1 DEF Content, Front, Readable
      <3>3. QED
        BY <3>2, SubSeqEmpty
    <2>2. QED
      BY <2>1 DEF Init, Fifo!Init
  <1>2. IndInv /\ IndInv' /\ [Next]_vars => [Fifo!Next]_Fifo!vars
    <2> SUFFICES ASSUME IndInv, IndInv', [Next]_vars
                 PROVE  [Fifo!Next]_Fifo!vars
      OBVIOUS
    <2>0. /\ \A b \in Buffers : Sound(buffer[b])
          /\ TypeOK /\ buffer \in [Buffers -> Array]
      BY IndInvIsSound DEF IndInv, TypeOK
    <2>1. ASSUME NEW b \in Buffers, AppendData(b) \/ ReadFromIO(b)
          PROVE  Fifo!Put(b)
      <3>1. /\ buffer' = [buffer EXCEPT ![b] = buffer'[b]]
            /\ given' \in Seq(Byte) /\ taken' = <<>>
            /\ Grown(buffer'[b], buffer[b], given')
        BY <2>0, <2>1, Puts DEF Bytes
      <3>2. Content(buffer'[b]) = Content(buffer[b]) \o given'
        BY <2>0, <3>1, GrownContent DEF Bytes
      <3>3. Held' = [Held EXCEPT ![b] = Content(buffer'[b])]
        BY <2>0, <3>1 DEF Held
      <3>4. Held' = [Held EXCEPT ![b] = @ \o given']
        BY <3>2, <3>3 DEF Held
      <3>5. QED
        BY <3>1, <3>4 DEF Fifo!Put, Held
    <2>2. ASSUME NEW b \in Buffers, ReadBytes(b) \/ RetrieveUntil(b)
          PROVE  Fifo!Take(b)
      <3>1. PICK len \in 0..Readable(buffer[b]) :
              /\ taken' = Front(buffer[b], len)
              /\ buffer' = [buffer EXCEPT ![b] = Cleared(@, len)]
              /\ given' = <<>>
        BY <2>0, <2>2, Takes
      <3>2. /\ taken' \in Seq(Byte) /\ Len(taken') = len
            /\ SubSeq(Content(buffer[b]), 1, len) = taken'
            /\ len <= Len(Content(buffer[b]))
        BY <2>0, <3>1, FrontFacts, FrontOfContent, ContentFacts, SoundFacts DEF Bytes
      <3>3. Content(buffer'[b])
              = SubSeq(Content(buffer[b]), len + 1, Len(Content(buffer[b])))
        BY <2>0, <3>1, ClearedFacts
      <3>4. Held' = [Held EXCEPT ![b] = Content(buffer'[b])]
        BY <2>0, <3>1 DEF Held
      <3>5. Held[b] = Content(buffer[b])
        BY DEF Held
      <3>6. Held' = [Held EXCEPT ![b] = SubSeq(@, Len(taken') + 1, Len(@))]
        BY <3>2, <3>3, <3>4, <3>5
      <3>7. QED
        BY <3>1, <3>2, <3>5, <3>6 DEF Fifo!Take, Held
    <2>3. ASSUME NEW a \in Buffers, NEW b \in Buffers, Swap(a, b)
          PROVE  Fifo!Exchange(a, b)
      <3>1. Held' = [Held EXCEPT ![a] = Held[b], ![b] = Held[a]]
        BY <2>0, <2>3 DEF Swap, Held
      <3>2. QED
        BY <2>3, <3>1 DEF Swap, Fifo!Exchange, Held
    <2>4. CASE UNCHANGED vars
      BY <2>4 DEF vars, Fifo!vars, Content
    <2>5. QED
      BY <2>1, <2>2, <2>3, <2>4 DEF Next, Fifo!Next
  <1>3. QED
    BY <1>1, <1>2, IndInvHolds, PTL DEF Spec, ImplementsFifo, Fifo!Spec
=============================================================================
