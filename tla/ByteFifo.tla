------------------------------ MODULE ByteFifo -------------------------------
(***************************************************************************)
(* What a Buffer is for: the bytes handed to it come out again in the same *)
(* order, each once, in portions from the front; two buffers may exchange  *)
(* their contents.  Module Buffer shows that the indexed and growing array *)
(* of buffer.cpp does this.                                                *)
(***************************************************************************)
EXTENDS Naturals, Sequences

CONSTANTS Buffers, Byte

VARIABLES content,          \* content[b]: the bytes in b, oldest first
          given,            \* the bytes that the last call put in
          taken             \* the portion that it took out

vars == <<content, given, taken>>

Init == content = [b \in Buffers |-> <<>>] /\ given = <<>> /\ taken = <<>>

Put(b) ==
  /\ given' \in Seq(Byte)
  /\ content' = [content EXCEPT ![b] = @ \o given']
  /\ taken' = <<>>

Take(b) ==
  /\ taken' \in Seq(Byte)
  /\ Len(taken') <= Len(content[b])
  /\ SubSeq(content[b], 1, Len(taken')) = taken'
  /\ content' = [content EXCEPT
                   ![b] = SubSeq(@, Len(taken') + 1, Len(@))]
  /\ given' = <<>>

Exchange(a, b) ==
  /\ content' = [content EXCEPT ![a] = content[b], ![b] = content[a]]
  /\ given' = <<>> /\ taken' = <<>>

Next == \/ \E b \in Buffers : Put(b) \/ Take(b)
        \/ \E a, b \in Buffers : Exchange(a, b)

Spec == Init /\ [][Next]_vars
=============================================================================
