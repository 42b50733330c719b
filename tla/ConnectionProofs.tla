-------------------------- MODULE ConnectionProofs --------------------------
(***************************************************************************)
(* Proofs about the two sides of a connection.                             *)
(*                                                                         *)
(* Buffer: for every size of the vector and of the array on the stack, and *)
(* every sequence of operations, the buffer is a queue of bytes.           *)
(*                                                                         *)
(* TcpConnection: for a socket of any size, responses of any bytes and     *)
(* every way of cutting them into writes, the client gets the responses in *)
(* order, and the server closes a connection of its own accord only when   *)
(* everything was sent.                                                    *)
(***************************************************************************)
EXTENDS Buffer, TcpConnection, SequenceTheorems, TLAPS


Good(b) == b \in Buf /\ b.read <= b.write /\ b.write <= Len(b.bytes)

(* SubSeq with the positions of the code, which count from 0.              *)
LEMMA SubSeqFacts ==
  ASSUME NEW S, NEW s \in Seq(S), NEW m \in Nat, NEW n \in Nat,
         m <= n, n <= Len(s)
  PROVE  /\ SubSeq(s, m + 1, n) \in Seq(S)
         /\ Len(SubSeq(s, m + 1, n)) = n - m
         /\ \A k \in 1 .. n - m : SubSeq(s, m + 1, n)[k] = s[m + k]
<1>1. m + 1 \in Int /\ n \in Int
  OBVIOUS
<1>2. \A i \in (m + 1) .. n : s[i] \in S
  OBVIOUS
<1> DEFINE t == SubSeq(s, m + 1, n)
<1>3. /\ t \in Seq(S)
      /\ Len(t) = IF m + 1 <= n THEN n - (m + 1) + 1 ELSE 0
      /\ \A k \in 1 .. n - (m + 1) + 1 : t[k] = s[m + 1 + k - 1]
  BY <1>1, <1>2, SubSeqProperties
<1> HIDE DEF t
<1>4. Len(t) = n - m
  BY <1>3
<1>5. n - (m + 1) + 1 = n - m
  OBVIOUS
<1>6. \A k \in 1 .. n - m : t[k] = s[m + k]
  <2> TAKE k \in 1 .. n - m
  <2>1. t[k] = s[m + 1 + k - 1] /\ m + 1 + k - 1 = m + k
    BY <1>3, <1>5
  <2> QED BY <2>1
<1> QED
  BY <1>3, <1>4, <1>6, Zenon DEF t

(* The content of a buffer, position by position.                          *)
LEMMA ContentFacts ==
  ASSUME NEW b, Good(b)
  PROVE  /\ Content(b) \in Seq(Byte)
         /\ Len(Content(b)) = ReadableBytes(b)
         /\ \A k \in 1 .. ReadableBytes(b) : Content(b)[k] = b.bytes[b.read + k]
<1>1. /\ b.bytes \in Seq(Byte) /\ b.read \in Nat /\ b.write \in Nat
      /\ b.read <= b.write /\ b.write <= Len(b.bytes)
  BY DEF Good, Buf
<1> DEFINE s == b.bytes   m == b.read   n == b.write
<1>2. Content(b) = SubSeq(s, m + 1, n) /\ ReadableBytes(b) = n - m
  BY DEF Content, ReadableBytes
<1>3. s \in Seq(Byte) /\ m \in Nat /\ n \in Nat /\ m <= n /\ n <= Len(s)
  BY <1>1
<1> HIDE DEF s, m, n
<1>4. /\ SubSeq(s, m + 1, n) \in Seq(Byte)
      /\ Len(SubSeq(s, m + 1, n)) = n - m
      /\ \A k \in 1 .. n - m : SubSeq(s, m + 1, n)[k] = s[m + k]
  BY <1>3, SubSeqFacts
<1> QED
  BY <1>2, <1>4, Zenon DEF s, m, n

LEMMA SameContent ==
  ASSUME NEW b, Good(b), NEW c, Good(c),
         ReadableBytes(c) = ReadableBytes(b),
         \A k \in 1 .. ReadableBytes(b) : c.bytes[c.read + k] = b.bytes[b.read + k]
  PROVE  Content(c) = Content(b)
<1>1. /\ Content(c) \in Seq(Byte) /\ Content(b) \in Seq(Byte)
      /\ Len(Content(c)) = Len(Content(b))
  BY ContentFacts
<1>2. \A k \in 1 .. Len(Content(c)) : Content(c)[k] = Content(b)[k]
  BY ContentFacts
<1> QED
  BY <1>1, <1>2, SeqEqual

(* Growing the vector keeps the positions and the content.                 *)
LEMMA ResizedFacts ==
  ASSUME NEW b, Good(b), NEW n \in Nat, n >= Len(b.bytes)
  PROVE  /\ Good(Resized(b, n))
         /\ Content(Resized(b, n)) = Content(b)
         /\ Len(Resized(b, n).bytes) = n
         /\ Resized(b, n).read = b.read /\ Resized(b, n).write = b.write
<1> DEFINE r == Resized(b, n)
           grown == [k \in 1 .. n |-> IF k <= Len(b.bytes) THEN b.bytes[k] ELSE Zero]
<1>1. r = [bytes |-> grown, read |-> b.read, write |-> b.write]
  BY DEF Resized
<1>2. grown \in [1 .. n -> Byte]
  BY BufferAssumption DEF Good, Buf
<1>3. grown \in Seq(Byte) /\ Len(grown) = n
  BY <1>2
<1>4. Good(r)
  BY <1>1, <1>3 DEF Good, Buf
<1>5. \A k \in 1 .. ReadableBytes(b) : grown[b.read + k] = b.bytes[b.read + k]
  BY DEF Good, Buf, ReadableBytes
<1>6. ReadableBytes(r) = ReadableBytes(b)
  BY <1>1 DEF ReadableBytes
<1> HIDE DEF r, grown
<1>7. Content(r) = Content(b)
  BY <1>1, <1>4, <1>5, <1>6, SameContent
<1> QED
  BY <1>1, <1>3, <1>4, <1>7 DEF r

(* Moving the content to the front keeps it, and the size of the vector.   *)
LEMMA MovedFacts ==
  ASSUME NEW b, Good(b)
  PROVE  /\ Good(MovedToFront(b))
         /\ Content(MovedToFront(b)) = Content(b)
         /\ Len(MovedToFront(b).bytes) = Len(b.bytes)
         /\ MovedToFront(b).read = 0
         /\ MovedToFront(b).write = ReadableBytes(b)
<1> DEFINE r == MovedToFront(b)
           shifted == [k \in 1 .. Len(b.bytes) |->
                       IF k <= ReadableBytes(b) THEN b.bytes[b.read + k]
                                                ELSE b.bytes[k]]
<1>1. r = [bytes |-> shifted, read |-> 0, write |-> ReadableBytes(b)]
  BY DEF MovedToFront
<1>2. shifted \in [1 .. Len(b.bytes) -> Byte]
  BY DEF Good, Buf, ReadableBytes
<1>3. shifted \in Seq(Byte) /\ Len(shifted) = Len(b.bytes)
  BY <1>2 DEF Good, Buf
<1>4. Good(r)
  BY <1>1, <1>3 DEF Good, Buf, ReadableBytes
<1>5. \A k \in 1 .. ReadableBytes(b) : shifted[0 + k] = b.bytes[b.read + k]
  BY DEF Good, Buf, ReadableBytes
<1>6. ReadableBytes(r) = ReadableBytes(b)
  BY <1>1 DEF ReadableBytes, Good, Buf
<1> HIDE DEF r, shifted
<1>7. Content(r) = Content(b)
  BY <1>1, <1>4, <1>5, <1>6, SameContent
<1> QED
  BY <1>1, <1>3, <1>4, <1>7 DEF r

(* EnsureWriteable makes room, keeps the content, and grows the vector     *)
(* only when content and new bytes together do not fit in it: the assert   *)
(* of Buffer.cpp:95 holds.                                                 *)
LEMMA EnsureWriteableFacts ==
  ASSUME NEW b, Good(b), NEW count \in Nat
  PROVE  /\ Good(EnsureWriteable(b, count))
         /\ Content(EnsureWriteable(b, count)) = Content(b)
         /\ WritableBytes(EnsureWriteable(b, count)) >= count
         /\ ReadableBytes(EnsureWriteable(b, count)) = ReadableBytes(b)
         /\ Len(EnsureWriteable(b, count).bytes) # Len(b.bytes)
              => ReadableBytes(b) + count > Len(b.bytes)
<1>1. /\ Len(b.bytes) \in Nat /\ b.read \in Nat /\ b.write \in Nat
      /\ b.read <= b.write /\ b.write <= Len(b.bytes)
  BY DEF Good, Buf
<1>2. CASE WritableBytes(b) >= count
  BY <1>1, <1>2 DEF EnsureWriteable, WritableBytes
<1>3. CASE WritableBytes(b) < count /\ WritableBytes(b) + PrependableBytes(b) < count
  <2> DEFINE n == b.write + count + 1
  <2>1. n \in Nat /\ n >= Len(b.bytes)
    BY <1>1, <1>3 DEF WritableBytes
  <2>2. EnsureWriteable(b, count) = Resized(b, n)
    BY <1>3 DEF EnsureWriteable, MakeSpace
  <2> HIDE DEF n
  <2>3. /\ Good(Resized(b, n)) /\ Content(Resized(b, n)) = Content(b)
        /\ Len(Resized(b, n).bytes) = n
        /\ Resized(b, n).read = b.read /\ Resized(b, n).write = b.write
    BY <2>1, ResizedFacts
  <2> QED
    BY <1>1, <1>3, <2>2, <2>3
    DEF n, WritableBytes, ReadableBytes, PrependableBytes
<1>4. CASE WritableBytes(b) < count /\ ~(WritableBytes(b) + PrependableBytes(b) < count)
  <2>1. EnsureWriteable(b, count) = MovedToFront(b)
    BY <1>4 DEF EnsureWriteable, MakeSpace
  <2> QED
    BY <1>1, <1>4, <2>1, MovedFacts
    DEF WritableBytes, ReadableBytes, PrependableBytes
<1> QED
  BY <1>1, <1>2, <1>3, <1>4 DEF WritableBytes, PrependableBytes

(* Bytes copied into the room at the end are appended to the content.      *)
LEMMA WrittenFacts ==
  ASSUME NEW b, Good(b), NEW s \in Seq(Byte), Len(s) <= WritableBytes(b)
  PROVE  /\ Good(Written(b, s))
         /\ Content(Written(b, s)) = Content(b) \o s
         /\ Len(Written(b, s).bytes) = Len(b.bytes)
         /\ ReadableBytes(Written(b, s)) = ReadableBytes(b) + Len(s)
         /\ WritableBytes(Written(b, s)) = WritableBytes(b) - Len(s)
<1> DEFINE r == Written(b, s)
           bytes == [k \in 1 .. Len(b.bytes) |->
                       IF b.write < k /\ k <= b.write + Len(s)
                         THEN s[k - b.write] ELSE b.bytes[k]]
<1>1. /\ b.bytes \in Seq(Byte) /\ Len(b.bytes) \in Nat /\ Len(s) \in Nat
      /\ b.read \in Nat /\ b.write \in Nat
      /\ b.read <= b.write /\ b.write <= Len(b.bytes)
      /\ b.write + Len(s) <= Len(b.bytes)
  BY DEF Good, Buf, WritableBytes
<1>2. r = [bytes |-> bytes, read |-> b.read, write |-> b.write + Len(s)]
  BY DEF Written
<1>3. bytes \in [1 .. Len(b.bytes) -> Byte]
  BY <1>1
<1>4. bytes \in Seq(Byte) /\ Len(bytes) = Len(b.bytes)
  BY <1>1, <1>3
<1>5. Good(r)
  BY <1>1, <1>2, <1>4 DEF Good, Buf
<1>6. /\ ReadableBytes(r) = ReadableBytes(b) + Len(s)
      /\ WritableBytes(r) = WritableBytes(b) - Len(s)
  BY <1>1, <1>2, <1>4 DEF ReadableBytes, WritableBytes
<1>7. \A k \in 1 .. ReadableBytes(b) + Len(s) :
        bytes[b.read + k] = IF k <= ReadableBytes(b) THEN b.bytes[b.read + k]
                                                     ELSE s[k - ReadableBytes(b)]
  <2> TAKE k \in 1 .. ReadableBytes(b) + Len(s)
  <2>1. k \in Nat /\ 1 <= k /\ b.read + k <= b.write + Len(s)
    BY <1>1 DEF ReadableBytes
  <2>2. b.read + k \in 1 .. Len(b.bytes)
    BY <1>1, <2>1
  <2>3. bytes[b.read + k] = IF b.write < b.read + k /\ b.read + k <= b.write + Len(s)
                              THEN s[b.read + k - b.write] ELSE b.bytes[b.read + k]
    BY <1>1, <2>1, <2>2
  <2>4. CASE k <= ReadableBytes(b)
    BY <1>1, <2>1, <2>3, <2>4 DEF ReadableBytes
  <2>5. CASE ~(k <= ReadableBytes(b))
    <3>1. b.write < b.read + k /\ b.read + k - b.write = k - ReadableBytes(b)
      BY <1>1, <2>1, <2>5 DEF ReadableBytes
    <3> QED BY <2>1, <2>3, <2>5, <3>1
  <2> QED BY <2>4, <2>5
<1> HIDE DEF r, bytes
<1>8. Content(r) = Content(b) \o s
  <2>1. /\ Content(r) \in Seq(Byte) /\ Len(Content(r)) = ReadableBytes(r)
        /\ \A k \in 1 .. ReadableBytes(r) : Content(r)[k] = bytes[b.read + k]
    BY <1>2, <1>5, ContentFacts
  <2>2. /\ Content(b) \in Seq(Byte) /\ Len(Content(b)) = ReadableBytes(b)
        /\ \A k \in 1 .. ReadableBytes(b) : Content(b)[k] = b.bytes[b.read + k]
    BY ContentFacts
  <2>3. /\ Content(b) \o s \in Seq(Byte)
        /\ Len(Content(b) \o s) = ReadableBytes(b) + Len(s)
        /\ \A k \in 1 .. ReadableBytes(b) + Len(s) :
             (Content(b) \o s)[k] = IF k <= ReadableBytes(b) THEN Content(b)[k]
                                                ELSE s[k - ReadableBytes(b)]
    <3> DEFINE c == Content(b)
    <3>1. c \in Seq(Byte) /\ Len(c) = ReadableBytes(b)
      BY <2>2
    <3> HIDE DEF c
    <3>2. /\ c \o s \in Seq(Byte)
          /\ Len(c \o s) = Len(c) + Len(s)
          /\ \A k \in 1 .. Len(c) + Len(s) :
               (c \o s)[k] = IF k <= Len(c) THEN c[k] ELSE s[k - Len(c)]
      BY <3>1, ConcatProperties
    <3> QED BY <3>1, <3>2, Zenon DEF c
  <2>4. \A k \in 1 .. Len(Content(r)) : Content(r)[k] = (Content(b) \o s)[k]
    <3> TAKE k \in 1 .. Len(Content(r))
    <3>1. k \in 1 .. ReadableBytes(b) + Len(s)
      BY <1>6, <2>1
    <3>2. ReadableBytes(b) \in Nat
      BY <1>1 DEF ReadableBytes
    <3>3. k <= ReadableBytes(b) => k \in 1 .. ReadableBytes(b)
      BY <3>1, <3>2
    <3> QED BY <1>6, <1>7, <2>1, <2>2, <2>3, <3>1, <3>3
  <2>5. Len(Content(r)) = Len(Content(b) \o s)
    BY <1>6, <2>1, <2>3
  <2> HIDE DEF Content
  <2> QED BY <2>1, <2>3, <2>4, <2>5, SeqEqual
<1> QED
  BY <1>2, <1>4, <1>5, <1>6, <1>8 DEF r

-----------------------------------------------------------------------------
(* What an operation that puts bytes at the end does to a buffer.          *)
Puts(b, c, s) ==
  /\ Good(c)
  /\ Content(c) = Content(b) \o s
  /\ Len(c.bytes) > Len(b.bytes) => ReadableBytes(c) > Len(b.bytes)

LEMMA AppendedFacts ==
  ASSUME NEW b, Good(b), NEW s \in Seq(Byte)
  PROVE  /\ Puts(b, Appended(b, s), s)
         /\ ReadableBytes(Appended(b, s)) = ReadableBytes(b) + Len(s)
<1> DEFINE e == EnsureWriteable(b, Len(s))
<1>1. Len(s) \in Nat
  OBVIOUS
<1>2. /\ Good(e) /\ Content(e) = Content(b) /\ WritableBytes(e) >= Len(s)
      /\ ReadableBytes(e) = ReadableBytes(b)
      /\ Len(e.bytes) # Len(b.bytes) => ReadableBytes(b) + Len(s) > Len(b.bytes)
  BY <1>1, EnsureWriteableFacts
<1>3. Appended(b, s) = Written(e, s)
  BY DEF Appended
<1> HIDE DEF e
<1>4. Len(s) <= WritableBytes(e)
  BY <1>1, <1>2 DEF WritableBytes, Good, Buf
<1>5. /\ Good(Written(e, s)) /\ Content(Written(e, s)) = Content(e) \o s
      /\ Len(Written(e, s).bytes) = Len(e.bytes)
      /\ ReadableBytes(Written(e, s)) = ReadableBytes(e) + Len(s)
  BY <1>2, <1>4, WrittenFacts
<1>6. Len(b.bytes) \in Nat
  BY DEF Good, Buf
<1>7. Len(e.bytes) > Len(b.bytes) => Len(e.bytes) # Len(b.bytes)
  BY <1>6
<1> QED
  BY <1>2, <1>3, <1>5, <1>7 DEF Puts

(* readv splits the bytes between the room at the end and the array on the *)
(* stack; together they are appended in order.                             *)
LEMMA ReceivedFacts ==
  ASSUME NEW b, Good(b), NEW s \in Seq(Byte)
  PROVE  Puts(b, Received(b, s), s)
<1> DEFINE w == WritableBytes(b)
           s1 == SubSeq(s, 1, w)
           s2 == SubSeq(s, w + 1, Len(s))
           b1 == Written(b, s1)
<1>1. Len(s) \in Nat /\ w \in Nat /\ Len(b.bytes) \in Nat
  BY DEF Good, Buf, WritableBytes
<1>2. CASE Len(s) <= w
  <2>1. Received(b, s) = Written(b, s)
    BY <1>2 DEF Received
  <2>2. Good(Written(b, s)) /\ Content(Written(b, s)) = Content(b) \o s
        /\ Len(Written(b, s).bytes) = Len(b.bytes)
    BY <1>2, WrittenFacts
  <2> QED BY <1>1, <2>1, <2>2 DEF Puts
<1>3. CASE Len(s) > w
  <2>1. /\ s1 \in Seq(Byte) /\ Len(s1) = w
        /\ s2 \in Seq(Byte)
        /\ s1 \o s2 = s
    <3>1. /\ \A i \in 1 .. w : s[i] \in Byte
          /\ \A i \in (w + 1) .. Len(s) : s[i] \in Byte
      BY <1>1, <1>3
    <3>2. s1 \in Seq(Byte) /\ Len(s1) = w
      BY <1>1, <3>1, SubSeqProperties
    <3>3. w + 1 \in Int /\ Len(s) \in Int
      BY <1>1
    <3>4. s2 \in Seq(Byte)
      BY <3>1, <3>3, SubSeqProperties
    <3>5. 1 \in 1 .. Len(s) + 1 /\ w \in 1 - 1 .. Len(s) /\ Len(s) \in w .. Len(s)
      BY <1>1, <1>3
    <3>6. s1 \o s2 = SubSeq(s, 1, Len(s))
      BY <3>5, ConcatAdjacentSubSeq
    <3> QED BY <3>2, <3>4, <3>6, SubSeqFull
  <2>2. Received(b, s) = Appended(b1, s2)
    BY <1>1, <1>3 DEF Received
  <2> HIDE DEF s1, s2
  <2>3. /\ Good(b1) /\ Content(b1) = Content(b) \o s1
        /\ Len(b1.bytes) = Len(b.bytes)
    BY <1>1, <2>1, WrittenFacts
  <2> HIDE DEF b1
  <2>4. Puts(b1, Appended(b1, s2), s2)
    BY <2>1, <2>3, AppendedFacts
  <2>5. Content(b) \in Seq(Byte)
    BY ContentFacts
  <2>6. (Content(b) \o s1) \o s2 = Content(b) \o (s1 \o s2)
    <3> DEFINE c == Content(b)
    <3>1. c \in Seq(Byte) /\ s1 \in Seq(Byte) /\ s2 \in Seq(Byte)
      BY <2>1, <2>5
    <3> HIDE DEF c
    <3>2. (c \o s1) \o s2 = c \o (s1 \o s2)
      BY <3>1, SMTT(30)
    <3> QED BY <3>2, Zenon DEF c
  <2> HIDE DEF w
  <2> QED BY <2>1, <2>2, <2>3, <2>4, <2>6, Zenon DEF Puts
<1> QED
  BY <1>1, <1>2, <1>3

-----------------------------------------------------------------------------
(* What moving the read position does.                                     *)
LEMMA ConsumedFacts ==
  ASSUME NEW b, Good(b), NEW n \in Nat, n <= ReadableBytes(b),
         NEW c, c = [b EXCEPT !.read = @ + n]
  PROVE  /\ Good(c)
         /\ Len(c.bytes) = Len(b.bytes)
         /\ Content(c) = SubSeq(Content(b), n + 1, Len(Content(b)))
         /\ SubSeq(b.bytes, b.read + 1, b.read + n) = SubSeq(Content(b), 1, n)
         /\ SubSeq(Content(b), 1, n) \in Seq(Byte)
<1> DEFINE r == ReadableBytes(b)
           q == Content(b)
<1>1. /\ b.bytes \in Seq(Byte) /\ Len(b.bytes) \in Nat
      /\ b.read \in Nat /\ b.write \in Nat
      /\ b.read <= b.write /\ b.write <= Len(b.bytes)
      /\ r \in Nat /\ b.read + n <= b.write /\ r = b.write - b.read
  BY DEF Good, Buf, ReadableBytes
<1>2. c.bytes = b.bytes /\ c.read = b.read + n /\ c.write = b.write /\ c \in Buf
  BY DEF Good, Buf
<1>3. Good(c)
  BY <1>1, <1>2 DEF Good
<1>4. /\ q \in Seq(Byte) /\ Len(q) = r
      /\ \A k \in 1 .. r : q[k] = b.bytes[b.read + k]
  BY ContentFacts
<1>5. /\ Content(c) \in Seq(Byte) /\ Len(Content(c)) = r - n
      /\ \A k \in 1 .. r - n : Content(c)[k] = b.bytes[b.read + n + k]
  <2>1. ReadableBytes(c) = r - n
    BY <1>1, <1>2 DEF ReadableBytes
  <2> HIDE DEF r
  <2> QED BY <1>2, <1>3, <2>1, ContentFacts
<1> HIDE DEF q, r
<1>6. /\ SubSeq(q, n + 1, r) \in Seq(Byte)
      /\ Len(SubSeq(q, n + 1, r)) = r - n
      /\ \A k \in 1 .. r - n : SubSeq(q, n + 1, r)[k] = q[n + k]
  <2>1. q \in Seq(Byte) /\ r \in Nat /\ n <= r /\ r <= Len(q)
    BY <1>1, <1>4 DEF r
  <2> QED BY <2>1, SubSeqFacts
<1>7. Content(c) = SubSeq(q, n + 1, r)
  <2>1. \A k \in 1 .. r - n : q[n + k] = b.bytes[b.read + n + k]
    <3> TAKE k \in 1 .. r - n
    <3>1. n + k \in 1 .. r /\ b.read + (n + k) = b.read + n + k
      BY <1>1
    <3> QED BY <1>4, <3>1
  <2>2. \A k \in 1 .. Len(Content(c)) : Content(c)[k] = SubSeq(q, n + 1, r)[k]
    <3> TAKE k \in 1 .. Len(Content(c))
    <3>1. k \in 1 .. r - n
      BY <1>5
    <3>2. SubSeq(q, n + 1, r)[k] = q[n + k] /\ q[n + k] = b.bytes[b.read + n + k]
      BY <1>6, <2>1, <3>1
    <3> QED BY <1>5, <3>1, <3>2
  <2> DEFINE u == Content(c)
             v == SubSeq(q, n + 1, r)
  <2>3. /\ u \in Seq(Byte) /\ v \in Seq(Byte) /\ Len(u) = Len(v)
        /\ \A k \in 1 .. Len(u) : u[k] = v[k]
    BY <1>5, <1>6, <2>2
  <2> HIDE DEF u, v
  <2>4. u = v
    BY <2>3, SeqEqual
  <2> QED BY <2>4, Zenon DEF u, v
<1>8. /\ SubSeq(q, 1, n) \in Seq(Byte) /\ Len(SubSeq(q, 1, n)) = n
      /\ \A k \in 1 .. n : SubSeq(q, 1, n)[k] = q[k]
  <2>1. n <= Len(q) /\ 0 <= n /\ n - 0 = n
    BY <1>4 DEF r
  <2>2. /\ SubSeq(q, 0 + 1, n) \in Seq(Byte) /\ Len(SubSeq(q, 0 + 1, n)) = n - 0
        /\ \A k \in 1 .. n - 0 : SubSeq(q, 0 + 1, n)[k] = q[0 + k]
    BY <1>4, <2>1, SubSeqFacts
  <2> QED BY <2>1, <2>2
<1>9. SubSeq(b.bytes, b.read + 1, b.read + n) = SubSeq(q, 1, n)
  <2> DEFINE u == SubSeq(b.bytes, b.read + 1, b.read + n)
             v == SubSeq(q, 1, n)
  <2>1. /\ b.read + n \in Nat /\ b.read <= b.read + n /\ b.read + n <= Len(b.bytes)
        /\ (b.read + n) - b.read = n
    BY <1>1
  <2> DEFINE bytes == b.bytes
             from == b.read
             to == b.read + n
  <2>2. /\ bytes \in Seq(Byte) /\ from \in Nat /\ to \in Nat
        /\ from <= to /\ to <= Len(bytes) /\ to - from = n
    BY <1>1, <2>1
  <2> HIDE DEF bytes, from, to
  <2>3. /\ SubSeq(bytes, from + 1, to) \in Seq(Byte)
        /\ Len(SubSeq(bytes, from + 1, to)) = to - from
        /\ \A k \in 1 .. to - from :
             SubSeq(bytes, from + 1, to)[k] = bytes[from + k]
    BY <2>2, SubSeqFacts
  <2>4. /\ u \in Seq(Byte) /\ Len(u) = n
        /\ \A k \in 1 .. n : u[k] = b.bytes[b.read + k]
    BY <2>2, <2>3, Zenon DEF bytes, from, to
  <2>5. \A k \in 1 .. n : k \in 1 .. r
    BY <1>1 DEF r
  <2>6. \A k \in 1 .. n : v[k] = b.bytes[b.read + k]
    BY <1>4, <1>8, <2>5
  <2>7. v \in Seq(Byte) /\ Len(v) = n
    BY <1>8
  <2> HIDE DEF u, v
  <2>8. u = v
    BY <2>4, <2>6, <2>7, SeqEqual
  <2> QED BY <2>8, Zenon DEF u, v
<1>10. Len(c.bytes) = Len(b.bytes)
  BY <1>2
<1> QED
  BY <1>3, <1>4, <1>7, <1>8, <1>9, <1>10, Zenon DEF q

(* Both positions back to the front: the content is empty.                 *)
LEMMA RetrievedAllFacts ==
  ASSUME NEW b, Good(b), NEW c, c = [b EXCEPT !.read = 0, !.write = 0]
  PROVE  /\ Good(c)
         /\ Len(c.bytes) = Len(b.bytes)
         /\ Content(c) = SubSeq(Content(b), Len(Content(b)) + 1, Len(Content(b)))
         /\ Len(Content(b)) \in Nat
<1>1. c.bytes = b.bytes /\ c.read = 0 /\ c.write = 0 /\ c \in Buf
  BY DEF Good, Buf
<1>2. Good(c)
  BY <1>1 DEF Good, Buf
<1> DEFINE l == Len(Content(b))
<1>3. l \in Nat
  <2>1. Content(b) \in Seq(Byte)
    BY ContentFacts
  <2> HIDE DEF Content
  <2> QED BY <2>1
<1> HIDE DEF l
<1>4. l + 1 \in Int /\ l \in Int /\ l < l + 1
  BY <1>3
<1>5. SubSeq(Content(b), l + 1, l) = <<>>
  BY <1>4, SubSeqEmpty
<1>6. SubSeq(c.bytes, c.read + 1, c.write) = <<>>
  <2>1. c.read + 1 \in Int /\ c.write \in Int /\ c.write < c.read + 1
    BY <1>1
  <2> QED BY <2>1, SubSeqEmpty
<1> QED
  BY <1>1, <1>2, <1>3, <1>5, <1>6, Zenon DEF l, Content

-----------------------------------------------------------------------------
(* Putting bytes at the end is a Put of the queue, and grows the vector    *)
(* only when it must.                                                      *)
LEMMA PutsIsPut ==
  ASSUME NEW s \in Seq(Byte), TypeOK, Puts(buf, buf', s), moved' = s
  PROVE  TypeOK' /\ Abs!Put /\ (Len(buf'.bytes) > Len(buf.bytes)
                                  => ReadableBytes(buf') > Len(buf.bytes))
<1>1. TypeOK'
  BY DEF TypeOK, Puts, Good, Buf
<1>2. Abs!Put
  BY Zenon DEF Puts, Abs!Put
<1> QED
  BY <1>1, <1>2 DEF Puts

(* Every chunk is a sequence of bytes.                                     *)
LEMMA ChunkIsSeq ==
  ASSUME NEW n, NEW s \in Chunk(n), n \in Nat
  PROVE  s \in Seq(Byte)
<1>1. PICK k \in 0 .. n : s \in [1 .. k -> Byte]
  BY Zenon DEF Chunk
<1> QED
  BY <1>1

(* Moving the read position is a Consume.                                  *)
LEMMA MoveIsConsume ==
  ASSUME TypeOK, NEW n \in Nat, n <= ReadableBytes(buf),
         buf' = [buf EXCEPT !.read = @ + n]
  PROVE  /\ Good(buf')
         /\ Len(buf'.bytes) = Len(buf.bytes)
         /\ n \in 0 .. Len(Content(buf))
         /\ Content(buf') = SubSeq(Content(buf), n + 1, Len(Content(buf)))
         /\ SubSeq(buf.bytes, buf.read + 1, buf.read + n)
              = SubSeq(Content(buf), 1, n)
         /\ SubSeq(Content(buf), 1, n) \in Seq(Byte)
<1>1. Good(buf)
  BY DEF TypeOK, Good
<1>2. Len(Content(buf)) = ReadableBytes(buf) /\ ReadableBytes(buf) \in Nat
  BY <1>1, ContentFacts DEF Good, Buf, ReadableBytes
<1>3. n \in 0 .. Len(Content(buf))
  <2> HIDE DEF ReadableBytes
  <2> QED BY <1>2
<1> QED
  BY <1>1, <1>3, ConsumedFacts

Grows == Len(buf'.bytes) > Len(buf.bytes) => ReadableBytes(buf') > Len(buf.bytes)

LEMMA RetrieveAllStep ==
  ASSUME TypeOK, UNCHANGED moved, buf' = [buf EXCEPT !.read = 0, !.write = 0]
  PROVE  TypeOK' /\ Abs!Consume /\ Grows
<1> DEFINE l == Len(Content(buf))
<1>1. Good(buf)
  BY DEF TypeOK, Good
<1>2. /\ Good(buf') /\ Len(buf'.bytes) = Len(buf.bytes)
      /\ Content(buf') = SubSeq(Content(buf), l + 1, l)
      /\ l \in Nat
  BY <1>1, RetrievedAllFacts
<1>3. TypeOK'
  BY <1>2 DEF TypeOK, Good, Buf
<1> HIDE DEF l
<1>4. l \in 0 .. l
  BY <1>2
<1>5. Abs!Consume
  BY <1>2, <1>4, Zenon DEF l, Abs!Consume
<1>6. Grows
  BY <1>1, <1>2 DEF Grows, Good, Buf
<1> QED
  BY <1>3, <1>5, <1>6

LEMMA RetrieveStep ==
  ASSUME TypeOK, NEW count \in Nat, Retrieve(count)
  PROVE  TypeOK' /\ Abs!Consume /\ Grows
<1>1. CASE count < ReadableBytes(buf)
  <2>1. buf' = [buf EXCEPT !.read = @ + count] /\ count <= ReadableBytes(buf)
    BY <1>1 DEF Retrieve
  <2>2. /\ Good(buf') /\ Len(buf'.bytes) = Len(buf.bytes)
        /\ count \in 0 .. Len(Content(buf))
        /\ Content(buf') = SubSeq(Content(buf), count + 1, Len(Content(buf)))
    BY <2>1, MoveIsConsume
  <2>3. UNCHANGED moved
    BY DEF Retrieve
  <2>4. Abs!Consume
    BY <2>2, <2>3, Zenon DEF Abs!Consume
  <2>5. TypeOK'
    BY <2>2, <2>3 DEF TypeOK, Good, Buf
  <2> QED BY <2>2, <2>4, <2>5 DEF Grows, TypeOK, Buf
<1>2. CASE ~(count < ReadableBytes(buf))
  <2>1. buf' = [buf EXCEPT !.read = 0, !.write = 0] /\ UNCHANGED moved
    BY <1>2 DEF Retrieve
  <2> QED BY <2>1, RetrieveAllStep
<1> QED
  BY <1>1, <1>2

LEMMA WriteFdStep ==
  ASSUME TypeOK, NEW count \in Nat, WriteFd(count)
  PROVE  TypeOK' /\ Abs!Write /\ Grows
<1>1. buf' = [buf EXCEPT !.read = @ + count] /\ count <= ReadableBytes(buf)
  BY DEF WriteFd
<1>2. /\ Good(buf') /\ Len(buf'.bytes) = Len(buf.bytes)
      /\ count \in 0 .. Len(Content(buf))
      /\ Content(buf') = SubSeq(Content(buf), count + 1, Len(Content(buf)))
      /\ SubSeq(buf.bytes, buf.read + 1, buf.read + count)
           = SubSeq(Content(buf), 1, count)
      /\ SubSeq(Content(buf), 1, count) \in Seq(Byte)
  BY <1>1, MoveIsConsume
<1>3. moved' = SubSeq(Content(buf), 1, count)
  BY <1>2 DEF WriteFd
<1>4. Abs!Write
  BY <1>2, <1>3, Zenon DEF Abs!Write
<1>5. TypeOK'
  <2>1. moved' \in Seq(Byte)
    BY <1>2, <1>3, Zenon
  <2> QED BY <1>2, <2>1 DEF TypeOK, Good, Buf
<1> QED
  BY <1>2, <1>4, <1>5 DEF Grows, TypeOK, Buf

(* One step of the buffer: it keeps the positions in order, it is a step   *)
(* of the queue or a stutter, and it grows the vector only when it must.   *)
LEMMA Step ==
  TypeOK /\ [Next]_vars
    => /\ TypeOK'
       /\ [Abs!Next]_<<Content(buf), moved>>
       /\ [Grows]_vars
<1> SUFFICES ASSUME TypeOK, [Next]_vars
             PROVE  TypeOK' /\ [Abs!Next]_<<Content(buf), moved>> /\ [Grows]_vars
  OBVIOUS
<1>0. Good(buf) /\ MaxChunk \in Nat /\ WritableBytes(buf) + Stack \in Nat
      /\ 0 .. MaxSize \subseteq Nat
  BY BufferAssumption DEF TypeOK, Good, Buf, WritableBytes
<1>1. ASSUME NEW s \in Chunk(MaxChunk), AppendBytes(s)
      PROVE  TypeOK' /\ Abs!Put /\ Grows
  <2>1. s \in Seq(Byte)
    BY <1>0, ChunkIsSeq
  <2>2. Puts(buf, buf', s) /\ moved' = s
    BY <1>0, <1>1, <2>1, AppendedFacts DEF AppendBytes
  <2> QED BY <2>1, <2>2, PutsIsPut DEF Grows
<1>2. ASSUME RetrieveAll PROVE TypeOK' /\ Abs!Consume /\ Grows
  BY <1>2, RetrieveAllStep DEF RetrieveAll
<1>3. ASSUME NEW count \in 0 .. MaxSize, Retrieve(count)
      PROVE  TypeOK' /\ Abs!Consume /\ Grows
  BY <1>0, <1>3, RetrieveStep
<1>4. ASSUME NEW count \in 0 .. MaxSize, WriteFd(count)
      PROVE  TypeOK' /\ Abs!Write /\ Grows
  BY <1>0, <1>4, WriteFdStep
<1>5. ASSUME NEW s \in Chunk(WritableBytes(buf) + Stack), ReadFd(s)
      PROVE  TypeOK' /\ Abs!Put /\ Grows
  <2>1. s \in Seq(Byte)
    BY <1>0, ChunkIsSeq
  <2>2. Puts(buf, buf', s) /\ moved' = s
    BY <1>0, <1>5, <2>1, ReceivedFacts DEF ReadFd
  <2> QED BY <2>1, <2>2, PutsIsPut DEF Grows
<1>6. CASE UNCHANGED vars
  <2>1. TypeOK'
    BY <1>6 DEF TypeOK, Buf, vars
  <2>2. UNCHANGED <<Content(buf), moved>>
    BY <1>6 DEF Content, vars
  <2> QED BY <1>6, <2>1, <2>2
<1> QED
  BY <1>1, <1>2, <1>3, <1>4, <1>5, <1>6, Zenon DEF Next, Abs!Next

LEMMA InitFacts == Init => TypeOK /\ Abs!Init
<1> SUFFICES ASSUME Init PROVE TypeOK /\ Abs!Init
  OBVIOUS
<1> DEFINE zeros == [k \in 1 .. InitialSize |-> Zero]
<1>1. zeros \in [1 .. InitialSize -> Byte]
  BY BufferAssumption
<1>2. zeros \in Seq(Byte) /\ Len(zeros) = InitialSize
  BY <1>1, BufferAssumption
<1>3. buf = [bytes |-> zeros, read |-> 0, write |-> 0] /\ moved = <<>>
  BY DEF Init
<1> HIDE DEF zeros
<1>4. TypeOK
  BY <1>2, <1>3, BufferAssumption DEF TypeOK, Buf
<1>5. Content(buf) = <<>>
  BY <1>3, SubSeqEmpty DEF Content
<1> QED
  BY <1>3, <1>4, <1>5 DEF Abs!Init

(* 0 <= readerIndex <= writerIndex <= size (Buffer.h:30) holds in every    *)
(* reachable state, whatever is appended, received and written.            *)
THEOREM PositionsInOrder == Spec => []TypeOK
<1>1. Init => TypeOK
  BY InitFacts
<1>2. TypeOK /\ [Next]_vars => TypeOK'
  BY Step
<1> QED
  BY <1>1, <1>2, PTL DEF Spec

(* The buffer implements the queue of bytes: growing, moving to the front  *)
(* and the scattered read neither lose, double nor reorder a byte.         *)
THEOREM BufferIsByteQueue == Spec => ImplementsByteQueue
<1>1. Init => Abs!Init
  BY InitFacts
<1>2. TypeOK /\ [Next]_vars => [Abs!Next]_<<Content(buf), moved>>
  BY Step
<1> QED
  BY <1>1, <1>2, PositionsInOrder, PTL DEF Spec, ImplementsByteQueue, Abs!Spec

(* The vector grows only when content and new bytes together do not fit in *)
(* it (MakeSpace_).                                                        *)
THEOREM GrowthIsNeeded == Spec => GrowsOnlyWhenFull
<1>1. TypeOK /\ [Next]_vars => [Grows]_vars
  BY Step
<1> QED
  BY <1>1, PositionsInOrder, PTL DEF Spec, GrowsOnlyWhenFull, Grows

-----------------------------------------------------------------------------
(* What Socket::send and FileSendStream::send split into written and left. *)

(* TcpConnection::send writes a prefix of at most the room there is, and   *)
(* keeps the rest.                                                         *)
LEMMA WriteSplits ==
  ASSUME NEW s \in Seq(Symbol), CTypeOK
  PROVE  /\ Taken(s) \in 0 .. Len(s) /\ Taken(s) <= room
         /\ SubSeq(s, 1, Taken(s)) \in Seq(Symbol)
         /\ Left(s) \in Seq(Symbol)
         /\ SubSeq(s, 1, Taken(s)) \o Left(s) = s
<1>1. Taken(s) \in 0 .. Len(s) /\ Taken(s) <= room
  <2>1. room \in Nat /\ Len(s) \in Nat
    BY ConnectionAssumption, LenProperties DEF CTypeOK
  <2> QED BY <2>1 DEF Taken, Least
<1>2. \A i \in 1 .. Len(s) : s[i] \in Symbol
  BY ElementOfSeq
<1>3. SubSeq(s, 1, Taken(s)) \in Seq(Symbol)
  BY <1>1, <1>2, LenProperties, SubSeqProperties
<1>4. Left(s) \in Seq(Symbol)
  <2>1. \A i \in Taken(s) + 1 .. Len(s) : s[i] \in Symbol
    BY <1>1, <1>2, LenProperties
  <2> QED BY <1>1, <2>1, LenProperties, SubSeqProperties DEF Left
<1>5. SubSeq(s, 1, Taken(s)) \o Left(s) = s
  <2>1. SubSeq(s, 1, Taken(s)) \o Left(s) = SubSeq(s, 1, Len(s))
    <3>1. /\ 1 \in 1 .. Len(s) + 1
          /\ Taken(s) \in 1 - 1 .. Len(s)
          /\ Len(s) \in Taken(s) .. Len(s)
      BY <1>1, LenProperties
    <3> QED BY <3>1, ConcatAdjacentSubSeq, Zenon DEF Left
  <2> QED BY <2>1, SubSeqFull
<1> QED BY <1>1, <1>3, <1>4, <1>5

(* Bytes that move from the front of a sequence to the end of the one      *)
(* before it keep their place.                                             *)
LEMMA Associative ==
  \A a, b, c \in Seq(Symbol) : a \o (b \o c) = (a \o b) \o c
<1> TAKE a, b, c \in Seq(Symbol)
<1> QED BY SMTT(30)

-----------------------------------------------------------------------------
(* The connection's fields keep their types (TcpConnection.h): no write    *)
(* takes more than the room there is.                                      *)
THEOREM ConnectionType == CSpec => []CTypeOK
<1>1. CInit => CTypeOK
  <2>1. <<>> \in Seq(Symbol)
    BY EmptySeq
  <2>2. Room \in 0 .. Room
    BY ConnectionAssumption
  <2> QED BY <2>1, <2>2, Zenon DEF CInit, CTypeOK
<1>2. CTypeOK /\ [CNext]_cvars => CTypeOK'
  <2> SUFFICES ASSUME CTypeOK, [CNext]_cvars PROVE CTypeOK'
    OBVIOUS
  <2>1. CASE Answer
    <3> PICK bytes \in Seq(Symbol), content \in Seq(Symbol), clears \in BOOLEAN :
          /\ link' \in {"idle", "armed"}
          /\ Respond(bytes, content, clears)
      BY <2>1 DEF Answer
    <3>1. sender' \in Seq(Symbol)
      BY EmptySeq, ConcatProperties DEF CTypeOK, Respond
    <3>2. owed' \in Seq(Symbol)
      BY ConcatProperties DEF CTypeOK, Respond
    <3> QED BY <3>1, <3>2 DEF CTypeOK, Respond
  <2>2. CASE HangUp \/ OnSend \/ SendReturns
    BY <2>2 DEF CTypeOK, HangUp, OnSend, SendReturns
  <2>3. ASSUME NEW s \in Seq(Symbol), Wrote(s)
        PROVE  /\ len' \in {"none", "some", "again", "failed"}
               /\ room' \in 0 .. Room /\ got' \in Seq(Symbol)
    <3>1. got' \in Seq(Symbol)
      BY <2>3, WriteSplits, ConcatProperties DEF Wrote, CTypeOK
    <3>2. room' \in 0 .. Room
      <4>1. /\ room \in 0 .. Room /\ Room \in Nat
            /\ Taken(s) \in 0 .. Len(s) /\ Taken(s) <= room /\ Len(s) \in Nat
        BY WriteSplits, ConnectionAssumption, LenProperties DEF CTypeOK
      <4>2. room' = room - Taken(s)
        BY <2>3 DEF Wrote
      <4> QED BY <4>1, <4>2
    <3> QED BY <2>3, <3>1, <3>2 DEF Wrote, WriteResult
  <2>4. CASE SendBuffer
    BY <2>4, <2>3, WriteSplits DEF CTypeOK, SendBuffer
  <2>5. CASE SendFile
    BY <2>5, <2>3, WriteSplits DEF CTypeOK, SendFile
  <2>6. CASE ClientReads
    BY <2>6, ConnectionAssumption DEF CTypeOK, ClientReads
  <2>7. CASE ClientCloses
    BY <2>7 DEF CTypeOK, ClientCloses
  <2>8. CASE UNCHANGED cvars
    BY <2>8 DEF CTypeOK, cvars
  <2> QED BY <2>1, <2>2, <2>4, <2>5, <2>6, <2>7, <2>8 DEF CNext, Transfer
<1> QED BY <1>1, <1>2, PTL DEF CSpec

-----------------------------------------------------------------------------
(* What makes the two properties inductive: an idle connection has no file *)
(* to send; inside onSend, a write that got EAGAIN left something to send, *)
(* and one that failed found the client gone.                              *)
Strengthening ==
  /\ link = "idle" => file = <<>>
  /\ link = "sending" /\ len = "again" => Sendable
  /\ link = "sending" /\ len = "failed" => gone

ConnectionInv == AnswersInOrder /\ NothingCutOff /\ Strengthening

LEMMA InvInitially == CInit => ConnectionInv
<1>1. <<>> \o <<>> \o <<>> = <<>>
  BY ConcatEmptySeq, EmptySeq, Zenon
<1> QED BY <1>1 DEF CInit, ConnectionInv, AnswersInOrder, NothingCutOff, Strengthening

(* A response is put behind what is still to be sent, or replaces it.      *)
LEMMA AnswerKeepsOrder ==
  ASSUME CTypeOK, AnswersInOrder, Strengthening, Answer
  PROVE  AnswersInOrder'
<1> PICK bytes \in Seq(Symbol), content \in Seq(Symbol), clears \in BOOLEAN :
      /\ link = "idle"
      /\ Respond(bytes, content, clears)
  BY DEF Answer
<1>1. got \in Seq(Symbol) /\ sender \in Seq(Symbol) /\ file = <<>>
  BY DEF CTypeOK, Strengthening
<1>2. CASE clears
  <2>1. sender' = bytes
    BY <1>2, ConcatEmptySeq DEF Respond
  <2> QED BY <1>2, <2>1 DEF Respond, AnswersInOrder
<1>3. CASE ~clears
  <2>1. got \o sender \in Seq(Symbol)
    BY <1>1, ConcatProperties
  <2>2. owed = got \o sender
    BY <1>1, <2>1, ConcatEmptySeq DEF AnswersInOrder
  <2>3. got \o (sender \o bytes) = (got \o sender) \o bytes
    BY <1>1, Associative, Zenon
  <2> QED BY <1>3, <2>2, <2>3 DEF Respond, AnswersInOrder
<1> QED BY <1>2, <1>3

(* A write moves bytes from the front of sender_, or of the file once      *)
(* sender_ is empty, to the client.                                        *)
LEMMA WriteKeepsOrder ==
  ASSUME CTypeOK, AnswersInOrder, SendBuffer \/ SendFile
  PROVE  AnswersInOrder'
<1>1. got \in Seq(Symbol) /\ sender \in Seq(Symbol) /\ file \in Seq(Symbol)
  BY DEF CTypeOK
<1>2. CASE SendBuffer
  <2> DEFINE taken == SubSeq(sender, 1, Taken(sender))
  <2>1. (got \o taken) \o Left(sender) = got \o sender
    <3>1. taken \in Seq(Symbol) /\ Left(sender) \in Seq(Symbol)
      BY <1>1, WriteSplits
    <3>2. got \o (taken \o Left(sender)) = (got \o taken) \o Left(sender)
      <4> HIDE DEF taken
      <4>1. got \in Seq(Symbol)
        BY <1>1
      <4> QED BY <3>1, <4>1, Associative, Zenon
    <3>3. taken \o Left(sender) = sender
      BY <1>1, WriteSplits
    <3> QED BY <3>2, <3>3, Zenon
  <2>2. got' = got \o taken /\ sender' = Left(sender) /\ file' = file /\ owed' = owed
    BY <1>2 DEF SendBuffer, Wrote
  <2> QED BY <2>1, <2>2 DEF AnswersInOrder
<1>3. CASE SendFile
  <2> DEFINE taken == SubSeq(file, 1, Taken(file))
  <2>1. got' = got \o taken /\ sender' = <<>> /\ file' = Left(file) /\ owed' = owed
    BY <1>3 DEF SendFile, Wrote
  <2>2. got \o sender = got
    BY <1>1, <1>3, ConcatEmptySeq DEF SendFile
  <2>3. (got \o taken) \o <<>> = got \o taken
    BY <1>1, WriteSplits, ConcatProperties, ConcatEmptySeq
  <2>4. (got \o taken) \o Left(file) = got \o file
    <3>1. taken \in Seq(Symbol) /\ Left(file) \in Seq(Symbol)
      BY <1>1, WriteSplits
    <3>2. got \o (taken \o Left(file)) = (got \o taken) \o Left(file)
      <4> HIDE DEF taken
      <4>1. got \in Seq(Symbol)
        BY <1>1
      <4> QED BY <3>1, <4>1, Associative, Zenon
    <3>3. taken \o Left(file) = file
      BY <1>1, WriteSplits
    <3> QED BY <3>2, <3>3, Zenon
  <2> QED BY <2>1, <2>2, <2>3, <2>4 DEF AnswersInOrder
<1> QED BY <1>2, <1>3

(* Whatever the socket takes, EAGAIN leaves something to send.             *)
LEMMA WriteKeepsStrengthening ==
  ASSUME CTypeOK, SendBuffer \/ SendFile
  PROVE  Strengthening'
<1>1. /\ sender \in Seq(Symbol) /\ file \in Seq(Symbol) /\ gone \in BOOLEAN
      /\ room \in Nat
  BY ConnectionAssumption DEF CTypeOK
<1>2. link' = "sending" /\ len' = WriteResult /\ gone' = gone
  BY DEF SendBuffer, SendFile, MayWrite, Wrote
<1>3. ASSUME NEW s \in Seq(Symbol), s # <<>>, WriteResult = "again"
      PROVE  Left(s) # <<>>
  <2>1. room = 0 /\ ~gone
    BY <1>3, <1>1 DEF WriteResult
  <2>2. Len(s) \in Nat \ {0}
    BY <1>3, EmptySeq
  <2>3. Taken(s) = 0
    BY <2>1, <2>2 DEF Taken, Least
  <2>4. Left(s) = SubSeq(s, 1, Len(s))
    BY <2>3 DEF Left
  <2> QED BY <1>3, <2>4, SubSeqFull
<1>4. len' = "again" => Sendable'
  BY <1>1, <1>2, <1>3 DEF SendBuffer, SendFile, Sendable
<1>5. len' = "failed" => gone'
  BY <1>1, <1>2 DEF WriteResult
<1> QED BY <1>2, <1>4, <1>5 DEF Strengthening

LEMMA InvKept ==
  ASSUME CTypeOK, ConnectionInv, [CNext]_cvars
  PROVE  ConnectionInv'
<1> USE DEF ConnectionInv
<1>1. CASE Answer
  <2>1. AnswersInOrder'
    BY <1>1, AnswerKeepsOrder
  <2>2. link' \in {"idle", "armed"} /\ (link' = "idle" => file' = <<>>)
    BY <1>1 DEF Answer, Respond
  <2> QED BY <2>1, <2>2 DEF NothingCutOff, Strengthening
<1>2. CASE SendBuffer \/ SendFile
  <2>1. link' = "sending"
    BY <1>2 DEF SendBuffer, SendFile, MayWrite
  <2> QED BY <1>2, <2>1, WriteKeepsOrder, WriteKeepsStrengthening DEF NothingCutOff
<1>3. CASE HangUp
  BY <1>3 DEF HangUp, AnswersInOrder, NothingCutOff, Strengthening
<1>4. CASE OnSend
  BY <1>4 DEF OnSend, AnswersInOrder, NothingCutOff, Strengthening
<1>5. CASE SendReturns
  <2>1. link' = IF StatusOfSend = "AGAIN" THEN "armed" ELSE "closed"
    BY <1>5 DEF SendReturns
  <2>2. UNCHANGED <<len, sender, file, room, got, owed, gone>>
    BY <1>5 DEF SendReturns
  <2>3. AnswersInOrder'
    BY <2>2 DEF AnswersInOrder
  <2>4. ASSUME link' = "closed", ~gone'
        PROVE  got = owed
    <3>1. StatusOfSend # "AGAIN" /\ ~gone
      BY <2>1, <2>2, <2>4
    <3>2. ~Sendable
      BY <1>5, <3>1 DEF SendReturns, StatusOfSend, Strengthening
    <3>3. sender = <<>> /\ file = <<>> /\ got \in Seq(Symbol)
      BY <3>2 DEF Sendable, CTypeOK
    <3>4. got \o sender \o file = got
      BY <3>3, ConcatEmptySeq
    <3> QED BY <3>4 DEF AnswersInOrder
  <2>5. Strengthening'
    BY <2>1, <2>2 DEF Strengthening
  <2> QED BY <2>2, <2>3, <2>4, <2>5 DEF NothingCutOff
<1>6. CASE ClientReads
  BY <1>6 DEF ClientReads, AnswersInOrder, NothingCutOff, Strengthening, Sendable
<1>7. CASE ClientCloses
  BY <1>7 DEF ClientCloses, AnswersInOrder, NothingCutOff, Strengthening, Sendable
<1>8. CASE UNCHANGED cvars
  BY <1>8 DEF cvars, AnswersInOrder, NothingCutOff, Strengthening, Sendable
<1> QED BY <1>1, <1>2, <1>3, <1>4, <1>5, <1>6, <1>7, <1>8 DEF CNext, Transfer

LEMMA ConnectionInvariant == CSpec => []ConnectionInv
<1>1. CTypeOK /\ CTypeOK' /\ ConnectionInv /\ [CNext]_cvars => ConnectionInv'
  BY InvKept
<1> QED BY <1>1, InvInitially, ConnectionType, PTL DEF CSpec

(* TcpConnection::send (TcpConnection.cpp:51-76): for every size of the    *)
(* socket's buffer and every response, the client gets a prefix of the     *)
(* responses and the rest is still queued behind it, the head before the   *)
(* file.                                                                   *)
THEOREM HeadBeforeFile == CSpec => []AnswersInOrder
<1>1. ConnectionInv => AnswersInOrder
  BY DEF ConnectionInv
<1> QED BY <1>1, ConnectionInvariant, PTL

(* onSend (TcpServer.cpp:244-263) closes a connection whose client is      *)
(* there only after the last byte was taken.                               *)
THEOREM ClosedAfterTheLastByte == CSpec => []NothingCutOff
<1>1. ConnectionInv => NothingCutOff
  BY DEF ConnectionInv
<1> QED BY <1>1, ConnectionInvariant, PTL

=============================================================================
