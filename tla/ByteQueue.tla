----------------------------- MODULE ByteQueue ------------------------------
(***************************************************************************)
(* What a connection's buffer promises: a queue of bytes.  The bytes that  *)
(* are put are added at its end; what a writer is given, and what a reader *)
(* consumes, is a prefix of it.                                            *)
(***************************************************************************)
EXTENDS Naturals, Sequences

CONSTANT Byte

VARIABLES
  content,  \* the bytes in the queue
  moved     \* the bytes of the last Put or Write

Init == content = <<>> /\ moved = <<>>

Put == /\ moved' \in Seq(Byte)
       /\ content' = content \o moved'

Consume == /\ \E n \in 0 .. Len(content) :
                content' = SubSeq(content, n + 1, Len(content))
           /\ UNCHANGED moved

Write == \E n \in 0 .. Len(content) :
           /\ moved' = SubSeq(content, 1, n)
           /\ content' = SubSeq(content, n + 1, Len(content))

Next == Put \/ Consume \/ Write

Spec == Init /\ [][Next]_<<content, moved>>

=============================================================================
