------------------------------- MODULE Buffer -------------------------------
(***************************************************************************)
(* The byte buffer of a connection (base/Buffer.h, base/Buffer.cpp): a     *)
(* vector with a read and a write position.  Bytes before the read         *)
(* position are free, and so are those from the write position on; when    *)
(* there is no room at the end the content is moved to the front or the    *)
(* vector grows.                                                           *)
(*                                                                         *)
(* A buffer is a record: bytes is buffer_ (a sequence, so that position p  *)
(* of the code is bytes[p+1]), read is readPos_, write is writePos_.       *)
(***************************************************************************)
EXTENDS Naturals, Sequences

CONSTANTS
  Byte,         \* the values of a byte
  Zero,         \* the value of a byte that resize adds
  InitialSize,  \* kInitialSize, or the size given to the constructor
  Stack,        \* sizeof(buff) of ReadFd
  MaxChunk,     \* bound on the bytes of one Append
  MaxSize       \* bound on the size of the vector

ASSUME BufferAssumption ==
  /\ Zero \in Byte
  /\ InitialSize \in Nat
  /\ Stack \in Nat
  /\ MaxChunk \in Nat
  /\ MaxSize \in Nat

VARIABLES
  buf,      \* the buffer
  moved     \* the bytes the last append or read brought, or the last write()
            \* accepted (history)

vars == <<buf, moved>>

-----------------------------------------------------------------------------
ReadableBytes(b) == b.write - b.read
WritableBytes(b) == Len(b.bytes) - b.write
PrependableBytes(b) == b.read

(* From Peek() on, ReadableBytes() bytes.                                  *)
Content(b) == SubSeq(b.bytes, b.read + 1, b.write)

(* buffer_.resize(n) for an n that is not smaller.                         *)
Resized(b, n) ==
  [bytes |-> [k \in 1 .. n |-> IF k <= Len(b.bytes) THEN b.bytes[k] ELSE Zero],
   read |-> b.read,
   write |-> b.write]

(* std::copy of the content to the front.                                  *)
MovedToFront(b) ==
  [bytes |-> [k \in 1 .. Len(b.bytes) |->
                IF k <= ReadableBytes(b) THEN b.bytes[b.read + k] ELSE b.bytes[k]],
   read |-> 0,
   write |-> ReadableBytes(b)]

\* Mutant: the room in front is counted although nothing is moved there.
MakeSpaceUnmoved(b, len) ==
  IF WritableBytes(b) + PrependableBytes(b) < len
    THEN Resized(b, b.write + len + 1)
    ELSE b

\* Mutant: always grows.
MakeSpaceGrows(b, len) == Resized(b, b.write + len + 1)

MakeSpace(b, len) ==
  IF WritableBytes(b) + PrependableBytes(b) < len
    THEN Resized(b, b.write + len + 1)
    ELSE MovedToFront(b)

EnsureWriteable(b, len) ==
  IF WritableBytes(b) < len THEN MakeSpace(b, len) ELSE b

(* std::copy of s to BeginWrite(), and HasWritten.                         *)
Written(b, s) ==
  [bytes |-> [k \in 1 .. Len(b.bytes) |->
                IF b.write < k /\ k <= b.write + Len(s)
                  THEN s[k - b.write] ELSE b.bytes[k]],
   read |-> b.read,
   write |-> b.write + Len(s)]

Appended(b, s) == Written(EnsureWriteable(b, Len(s)), s)

-----------------------------------------------------------------------------
Init ==
  /\ buf = [bytes |-> [k \in 1 .. InitialSize |-> Zero], read |-> 0, write |-> 0]
  /\ moved = <<>>

Chunk(n) == UNION {[1 .. k -> Byte] : k \in 0 .. n}

AppendBytes(s) ==
  /\ Len(Appended(buf, s).bytes) <= MaxSize
  /\ buf' = Appended(buf, s)
  /\ moved' = s

RetrieveAll ==
  /\ buf' = [buf EXCEPT !.read = 0, !.write = 0]
  /\ UNCHANGED moved

Retrieve(len) ==
  /\ len <= ReadableBytes(buf)
  /\ buf' = IF len < ReadableBytes(buf)
              THEN [buf EXCEPT !.read = @ + len]
              ELSE [buf EXCEPT !.read = 0, !.write = 0]
  /\ UNCHANGED moved

\* Mutant: the part on the stack is appended from its start again.
ReceivedTwice(b, s) ==
  LET writable == WritableBytes(b)
  IN IF Len(s) <= writable
       THEN Written(b, s)
       ELSE Appended(Written(b, SubSeq(s, 1, writable)), s)

(* readv into the room at the end and then the array on the stack; what    *)
(* went to the stack is appended.  s is what the socket delivered.         *)
Received(b, s) ==
  LET writable == WritableBytes(b)
  IN IF Len(s) <= writable
       THEN Written(b, s)
       ELSE Appended(Written(b, SubSeq(s, 1, writable)),
                     SubSeq(s, writable + 1, Len(s)))

ReadFd(s) ==
  /\ Len(s) <= WritableBytes(buf) + Stack
  /\ Len(Received(buf, s).bytes) <= MaxSize
  /\ buf' = Received(buf, s)
  /\ moved' = s

(* write() accepts a prefix; the read position moves and the buffer is not *)
(* reset when it becomes empty.                                            *)
WriteFd(len) ==
  /\ len <= ReadableBytes(buf)
  /\ moved' = SubSeq(buf.bytes, buf.read + 1, buf.read + len)
  /\ buf' = [buf EXCEPT !.read = @ + len]

Next ==
  \/ \E s \in Chunk(MaxChunk) : AppendBytes(s)
  \/ RetrieveAll
  \/ \E len \in 0 .. MaxSize : Retrieve(len) \/ WriteFd(len)
  \/ \E s \in Chunk(WritableBytes(buf) + Stack) : ReadFd(s)

Spec == Init /\ [][Next]_vars

-----------------------------------------------------------------------------
Buf == [bytes : Seq(Byte), read : Nat, write : Nat]

(* 0 <= readerIndex <= writerIndex <= size (Buffer.h:30), so that none of  *)
(* the unsigned differences wraps around.                                  *)
TypeOK ==
  /\ buf \in Buf
  /\ buf.read <= buf.write /\ buf.write <= Len(buf.bytes)
  /\ moved \in Seq(Byte)

Abs == INSTANCE ByteQueue WITH content <- Content(buf)

(* Growing, moving to the front and reading through the stack never lose,  *)
(* double or reorder a byte: the buffer is a queue of bytes.               *)
ImplementsByteQueue == Abs!Spec

(* The vector grows only when the bytes would not fit even if the consumed *)
(* room were reused (MakeSpace_, Buffer.cpp:172-182): a buffer that is     *)
(* emptied between appends of bounded size has a bounded vector.           *)
GrowsOnlyWhenFull ==
  [][Len(buf'.bytes) > Len(buf.bytes)
       => ReadableBytes(buf') > Len(buf.bytes)]_vars

=============================================================================
