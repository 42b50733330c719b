-------------------------- MODULE LogOutputProofs --------------------------
(***************************************************************************)
(* Proofs about the asynchronous log and its files.                        *)
(*                                                                         *)
(* AsyncLog, for every size of a buffer, every kbuffersMaxSize of at least *)
(* two and any number of messages.  SparesReturn is not inductive: while   *)
(* flush writes, the spare buffers it still has must be empty too          *)
(* (SparesAreEmpty).  TypeOK needs it as well: the swap may move           *)
(* newBuffer1 into currentBuffer_ because it is there.                     *)
(*                                                                         *)
(* LogFile, for every size, interval and length of a day and every         *)
(* sequence of appends, and LogOutput, which composes it with AsyncLog.    *)
(* Both properties of LogFile rest on one invariant: names grow and none   *)
(* is later than lastRoll_; late appends are among those counted, and      *)
(* there are none while the clock is in the file's day.                    *)
(***************************************************************************)
EXTENDS LogOutput, SequenceTheorems, TLAPS


SparesAreEmpty == newBuffer1 \in {<<>>, None} /\ newBuffer2 \in {<<>>, None}

Inv == TypeOK /\ SparesReturn /\ SparesAreEmpty

LEMMA EmptyBuffer ==
  <<>> \in Buffer /\ <<>> \in Seq(Buffer) /\ <<>> # None
<1>1. <<>> \in Seq(Nat)
  OBVIOUS
<1>2. <<>> # None
  BY <1>1, AsyncLogAssumption, Zenon
<1> QED
  BY <1>2 DEF Buffer

LEMMA InitInv == Init => Inv
<1> SUFFICES ASSUME Init PROVE Inv
  OBVIOUS
<1>1. running \in BOOLEAN
  BY Zenon DEF Init
<1>2. TypeOK
  BY <1>1, EmptyBuffer, AsyncLogAssumption DEF Init, TypeOK, Buffer
<1>3. SparesReturn
  BY EmptyBuffer DEF Init, SparesReturn
<1> QED
  BY <1>2, <1>3 DEF Inv, Init, SparesAreEmpty

(* The numbers of messages in a batch.                                     *)
LEMMA MessagesOf ==
  ASSUME NEW b \in Seq(Buffer), NEW k \in DOMAIN b
  PROVE  ToSet(b[k]) \subseteq 1 .. MaxMessages
<1> DEFINE c == b[k]
<1>1. c \in Seq(1 .. MaxMessages)
  BY DEF Buffer
<1> HIDE DEF c
<1>2. \A i \in DOMAIN c : c[i] \in 1 .. MaxMessages
  <2>1. DOMAIN c = 1 .. Len(c) /\ c \in [1 .. Len(c) -> 1 .. MaxMessages]
    BY <1>1, LenProperties
  <2> QED
    BY <2>1, Zenon
<1> QED
  BY <1>2, Zenon DEF ToSet, c

LEMMA NextType == Inv /\ [Next]_vars => TypeOK'
<1> SUFFICES ASSUME TypeOK, SparesReturn, [Next]_vars PROVE TypeOK'
  BY DEF Inv
<1> USE DEF TypeOK
<1>0. ASSUME appended < MaxMessages
      PROVE  Message \in 1 .. MaxMessages /\ Message \in 0 .. MaxMessages
  BY <1>0, AsyncLogAssumption DEF Message
<1>1. CASE AppendToCurrent
  BY <1>0, <1>1 DEF AppendToCurrent, back, output, Buffer
<1>2. CASE AppendToFresh
  <2>1. currentBuffer' \in Buffer
    <3> DEFINE fresh == IF nextBuffer # None THEN nextBuffer ELSE <<>>
    <3>1. fresh \in Buffer
      BY EmptyBuffer
    <3>2. currentBuffer' = Append(fresh, Message) /\ Message \in 1 .. MaxMessages
      BY <1>0, <1>2 DEF AppendToFresh
    <3> HIDE DEF fresh
    <3> QED BY <3>1, <3>2 DEF Buffer
  <2>2. buffers' \in Seq(Buffer)
    BY <1>2 DEF AppendToFresh
  <2> QED
    BY <1>0, <1>2, <2>1, <2>2 DEF AppendToFresh, back, output
<1>3. CASE Stop
  <2>1. running' \in BOOLEAN
    BY <1>3, Zenon DEF Stop
  <2> QED
    BY <1>3, <2>1 DEF Stop, front, back, output
<1>4. CASE CheckRunning
  BY <1>4 DEF CheckRunning, front, back, output
<1>5. CASE WaitEnds
  BY <1>5 DEF WaitEnds, front, back, output
<1>6. CASE FlushSwap
  <2>1. newBuffer1 = <<>> /\ newBuffer2 = <<>> /\ buffersToWrite = <<>>
    BY <1>6 DEF FlushSwap, SparesReturn
  <2>2. /\ currentBuffer' \in Buffer /\ buffers' \in Seq(Buffer)
        /\ buffersToWrite' \in Seq(Buffer)
    BY <1>6, <2>1, EmptyBuffer DEF FlushSwap
  <2> QED
    BY <1>6, <2>1, <2>2, EmptyBuffer DEF FlushSwap, output
<1>7. CASE FlushLimit
  <2>1. buffersToWrite' \in Seq(Buffer)
    BY <1>7, AsyncLogAssumption DEF FlushLimit
  <2>2. \A k \in (MaxBuffers + 1) .. Len(buffersToWrite) : k \in DOMAIN buffersToWrite
    BY AsyncLogAssumption
  <2>3. \A k \in (MaxBuffers + 1) .. Len(buffersToWrite) :
          ToSet(buffersToWrite[k]) \subseteq 1 .. MaxMessages
    BY <2>2, MessagesOf
  <2>4. dropped' \subseteq 1 .. MaxMessages
    BY <1>7, <2>3, Zenon DEF FlushLimit
  <2> QED
    BY <1>7, <2>1, <2>4 DEF FlushLimit, front
<1>8. CASE WriteBuffer
  <2>1. buffersToWrite[written + 1] \in Buffer
    BY <1>8 DEF WriteBuffer
  <2>2. file' \in Buffer
    BY <1>8, <2>1 DEF WriteBuffer, Buffer
  <2> QED
    BY <1>8, <2>2 DEF WriteBuffer, front
<1>9. CASE FlushRecycle
  BY <1>9, EmptyBuffer DEF FlushRecycle, front, output
<1>10. CASE UNCHANGED vars
  BY <1>10 DEF vars
<1> QED
  BY <1>1, <1>2, <1>3, <1>4, <1>5, <1>6, <1>7, <1>8, <1>9, <1>10
  DEF Next, LoggerStep

LEMMA NextSpares == Inv /\ [Next]_vars => SparesReturn'
<1> SUFFICES ASSUME TypeOK, SparesReturn, SparesAreEmpty, [Next]_vars
             PROVE  SparesReturn'
  BY DEF Inv
<1> USE DEF TypeOK, SparesReturn
<1>1. CASE AppendToCurrent
  BY <1>1 DEF AppendToCurrent, back, output, Spares
<1>2. CASE AppendToFresh
  <2>1. buffers' # <<>>
    BY <1>2 DEF AppendToFresh
  <2> QED
    BY <1>2, <2>1 DEF AppendToFresh, back, output, Spares
<1>3. CASE Stop
  BY <1>3 DEF Stop, front, back, output, Spares
<1>4. CASE CheckRunning
  BY <1>4 DEF CheckRunning, front, back, output, Spares
<1>5. CASE WaitEnds
  BY <1>5 DEF WaitEnds, front, back, output, Spares
<1>6. CASE FlushSwap
  <2>1. newBuffer1 = <<>> /\ newBuffer2 = <<>> /\ buffersToWrite = <<>>
    BY <1>6 DEF FlushSwap
  <2>2. Len(buffersToWrite') = Len(buffers) + 1 /\ newBuffer1' = None
    BY <1>6 DEF FlushSwap
  <2>3. CASE nextBuffer = None
    <3>1. Len(buffers) >= 1
      BY <2>3
    <3>2. nextBuffer' = <<>> /\ newBuffer2' = None
      BY <1>6, <2>1, <2>3 DEF FlushSwap
    <3> QED
      BY <1>6, <2>2, <3>1, <3>2, EmptyBuffer DEF FlushSwap, Spares
  <2>4. CASE nextBuffer # None
    <3>1. nextBuffer' = <<>> /\ newBuffer2' = <<>>
      BY <1>6, <2>1, <2>4 DEF FlushSwap
    <3> QED
      BY <1>6, <2>2, <3>1, EmptyBuffer DEF FlushSwap, Spares
  <2> QED
    BY <2>3, <2>4
<1>7. CASE FlushLimit
  <2>1. lpc = "limit" /\ lpc' = "write" /\ UNCHANGED <<newBuffer1, newBuffer2>>
    BY <1>7 DEF FlushLimit
  <2>2. Len(buffersToWrite') = Len(buffersToWrite) \/ Len(buffersToWrite') >= 2
    BY <1>7, AsyncLogAssumption DEF FlushLimit
  <2>3. Spares' = Spares /\ Spares \in Nat /\ Len(buffersToWrite') \in Nat
    <3>1. Spares' = Spares /\ Spares \in Nat
      BY <2>1 DEF Spares
    <3> QED BY <1>7, <3>1, AsyncLogAssumption DEF FlushLimit
  <2>4. Spares' + Len(buffersToWrite)' >= 2
    BY <2>1, <2>2, <2>3
  <2> QED
    BY <1>7, <2>1, <2>4 DEF FlushLimit, front
<1>8. CASE WriteBuffer
  BY <1>8 DEF WriteBuffer, front, Spares
<1>9. CASE FlushRecycle
  <2>1. lpc = "write" /\ lpc' = "loop" /\ buffersToWrite' = <<>>
    BY <1>9 DEF FlushRecycle
  <2> QED
    BY <1>9, <2>1, EmptyBuffer DEF FlushRecycle, front, SparesAreEmpty
<1>10. CASE UNCHANGED vars
  BY <1>10 DEF vars, Spares
<1> QED
  BY <1>1, <1>2, <1>3, <1>4, <1>5, <1>6, <1>7, <1>8, <1>9, <1>10
  DEF Next, LoggerStep

LEMMA NextEmpty == Inv /\ [Next]_vars => SparesAreEmpty'
<1> SUFFICES ASSUME SparesReturn, SparesAreEmpty, [Next]_vars
             PROVE  SparesAreEmpty'
  BY DEF Inv
<1> USE DEF SparesAreEmpty
<1>1. CASE AppendToCurrent \/ AppendToFresh \/ Stop \/ CheckRunning \/ WaitEnds
  BY <1>1 DEF AppendToCurrent, AppendToFresh, Stop, CheckRunning, WaitEnds, back
<1>2. CASE FlushSwap
  BY <1>2 DEF FlushSwap
<1>3. CASE FlushLimit \/ WriteBuffer
  BY <1>3 DEF FlushLimit, WriteBuffer
<1>4. CASE FlushRecycle
  BY <1>4 DEF FlushRecycle
<1>5. CASE UNCHANGED vars
  BY <1>5 DEF vars
<1> QED
  BY <1>1, <1>2, <1>3, <1>4, <1>5 DEF Next, LoggerStep

LEMMA InvAlways == Spec => []Inv
<1>1. Inv /\ [Next]_vars => Inv'
  BY NextType, NextSpares, NextEmpty DEF Inv
<1> QED
  BY InitInv, <1>1, PTL DEF Spec

(* The asserts of flush hold however many messages are appended between    *)
(* two flushes and during one (LogAppender.cpp:134-136, 150, 180, 188):    *)
(* the two spare buffers are there and empty when it starts, and there are *)
(* enough buffers to recycle when it ends.                                 *)
THEOREM SparesAlwaysReturn == Spec => []SparesReturn
<1>1. Inv => SparesReturn
  BY DEF Inv
<1> QED
  BY InvAlways, <1>1, PTL

(* append never meets a currentBuffer_ that has been moved away: the type  *)
(* invariant, in which currentBuffer is always a buffer.                   *)
THEOREM TypeAlways == Spec => []TypeOK
<1>1. Inv => TypeOK
  BY DEF Inv
<1> QED
  BY InvAlways, <1>1, PTL

LEMMA DropsOnlyExcessStep ==
  TypeOK /\ [Next]_vars
    => [\A m \in dropped' \ dropped :
          \E k \in DOMAIN buffersToWrite :
            k > MaxBuffers /\ m \in ToSet(buffersToWrite[k])]_vars
<1> SUFFICES ASSUME TypeOK, [Next]_vars, NEW m \in dropped' \ dropped
             PROVE  \E k \in DOMAIN buffersToWrite :
                      k > MaxBuffers /\ m \in ToSet(buffersToWrite[k])
  OBVIOUS
<1>1. FlushLimit
  <2>1. dropped' # dropped
    OBVIOUS
  <2> QED
    BY <2>1
    DEF Next, LoggerStep, AppendToCurrent, AppendToFresh, Stop, CheckRunning,
        WaitEnds, FlushSwap, WriteBuffer, FlushRecycle, vars, output
<1>2. PICK k \in (MaxBuffers + 1) .. Len(buffersToWrite) :
        m \in ToSet(buffersToWrite[k])
  BY <1>1, Zenon DEF FlushLimit
<1>3. k \in DOMAIN buffersToWrite /\ k > MaxBuffers
  BY AsyncLogAssumption DEF TypeOK
<1> QED
  BY <1>2, <1>3, Zenon

(* A flush drops only the buffers past the first kbuffersMaxSize.          *)
THEOREM ExcessOnly == Spec => DropsOnlyExcess
BY DropsOnlyExcessStep, TypeAlways, PTL DEF Spec, DropsOnlyExcess

-----------------------------------------------------------------------------
(* Messages and InOrder of a sequence of buffers, from those of its parts. *)
Buffers == Seq(Seq(Nat))

(* Every message of p is older than every message of q.                    *)
Older(p, q) == \A x \in Messages(p), y \in Messages(q) : x < y

LEMMA MessagesAre ==
  ASSUME NEW p \in Buffers
  PROVE  /\ Messages(p) \subseteq Nat
         /\ \A x : x \in Messages(p) <=>
              \E k \in DOMAIN p : \E a \in DOMAIN p[k] : x = p[k][a]
<1>1. ASSUME NEW x
      PROVE  x \in Messages(p) <=>
               \E k \in DOMAIN p : \E a \in DOMAIN p[k] : x = p[k][a]
  <2>1. x \in Messages(p) <=> \E k \in DOMAIN p : x \in ToSet(p[k])
    BY Zenon DEF Messages
  <2>2. ASSUME NEW k PROVE x \in ToSet(p[k]) <=> \E a \in DOMAIN p[k] : x = p[k][a]
    BY Zenon DEF ToSet
  <2> QED BY <2>1, <2>2, Zenon
<1>2. \A k \in DOMAIN p : \A a \in DOMAIN p[k] : p[k][a] \in Nat
  <2> TAKE k \in DOMAIN p
  <2>1. p[k] \in Seq(Nat)
    BY DEF Buffers
  <2> DEFINE s == p[k]
  <2>2. s \in Seq(Nat)
    BY <2>1
  <2> HIDE DEF s
  <2>3. \A a \in DOMAIN s : s[a] \in Nat
    BY <2>2
  <2> QED BY <2>3 DEF s
<1>3. ASSUME NEW x \in Messages(p) PROVE x \in Nat
  <2>1. PICK k \in DOMAIN p : \E a \in DOMAIN p[k] : x = p[k][a]
    BY <1>1
  <2> QED BY <1>2, <2>1, Zenon
<1> QED BY <1>1, <1>3, Zenon

LEMMA ConcatMessages ==
  ASSUME NEW p \in Buffers, NEW q \in Buffers
  PROVE  p \o q \in Buffers /\ Messages(p \o q) = Messages(p) \cup Messages(q)
<1> DEFINE r == p \o q
<1>1. r \in Buffers /\ Len(r) = Len(p) + Len(q)
  BY DEF Buffers
<1>2. \A k \in DOMAIN p : k \in DOMAIN r /\ r[k] = p[k]
  BY DEF Buffers
<1>3. \A k \in DOMAIN q : k + Len(p) \in DOMAIN r /\ r[k + Len(p)] = q[k]
  BY DEF Buffers
<1>4. \A k \in DOMAIN r : k \in DOMAIN p \/ k - Len(p) \in DOMAIN q
  BY DEF Buffers
<1>5. \A k \in DOMAIN r : k \notin DOMAIN p =>
        k - Len(p) \in DOMAIN q /\ r[k] = q[k - Len(p)]
  BY DEF Buffers
<1> HIDE DEF r
<1>6. Messages(p) \subseteq Messages(r)
  BY <1>2, Zenon DEF Messages
<1>7. Messages(q) \subseteq Messages(r)
  BY <1>3, Zenon DEF Messages
<1>8. Messages(r) \subseteq Messages(p) \cup Messages(q)
  BY <1>2, <1>5, Zenon DEF Messages
<1> QED BY <1>1, <1>6, <1>7, <1>8 DEF r

LEMMA ConcatInOrder ==
  ASSUME NEW p \in Buffers, NEW q \in Buffers
  PROVE  InOrder(p \o q) <=> InOrder(p) /\ InOrder(q) /\ Older(p, q)
<1> DEFINE r == p \o q   n == Len(p)
<1>1. r \in Buffers /\ n \in Nat
  BY DEF Buffers
<1>2. \A k \in DOMAIN p : k \in DOMAIN r /\ r[k] = p[k]
  BY DEF Buffers
<1>3. \A k \in DOMAIN q : k + n \in DOMAIN r /\ r[k + n] = q[k]
  BY DEF Buffers
<1>4. \A k \in DOMAIN r : k \notin DOMAIN p =>
        k - n \in DOMAIN q /\ r[k] = q[k - n]
  BY DEF Buffers
<1>5. /\ \A k \in DOMAIN r : k \in Int
      /\ \A k \in DOMAIN p : k \in Int /\ k <= n
      /\ \A k \in DOMAIN q : k \in Int /\ k > 0
  BY <1>1 DEF Buffers
<1>6. \A k \in DOMAIN r : k \notin DOMAIN p => k > n
  BY <1>1 DEF Buffers
<1> HIDE DEF r, n
<1>7. ASSUME InOrder(r) PROVE InOrder(p)
  BY <1>2, <1>7, Zenon DEF InOrder
<1>8. ASSUME InOrder(r) PROVE InOrder(q)
  <2> SUFFICES ASSUME NEW i \in DOMAIN q, NEW j \in DOMAIN q,
                      NEW a \in DOMAIN q[i], NEW b \in DOMAIN q[j],
                      i < j \/ (i = j /\ a < b)
               PROVE  q[i][a] < q[j][b]
    BY DEF InOrder
  <2>1. i + n < j + n \/ (i + n = j + n /\ a < b)
    BY <1>1, <1>5
  <2>2. /\ i + n \in DOMAIN r /\ j + n \in DOMAIN r
        /\ r[i + n] = q[i] /\ r[j + n] = q[j]
    BY <1>3
  <2> QED BY <1>8, <2>1, <2>2, Zenon DEF InOrder
<1>9. ASSUME InOrder(r) PROVE Older(p, q)
  <2> SUFFICES ASSUME NEW x \in Messages(p), NEW y \in Messages(q) PROVE x < y
    BY DEF Older
  <2>1. PICK i \in DOMAIN p : \E a \in DOMAIN p[i] : x = p[i][a]
    BY MessagesAre
  <2>2. PICK a \in DOMAIN p[i] : x = p[i][a]
    BY <2>1
  <2>3. PICK j \in DOMAIN q : \E b \in DOMAIN q[j] : y = q[j][b]
    BY MessagesAre
  <2>4. PICK b \in DOMAIN q[j] : y = q[j][b]
    BY <2>3
  <2>5. i < j + n
    BY <1>1, <1>5
  <2>6. /\ i \in DOMAIN r /\ j + n \in DOMAIN r
        /\ r[i] = p[i] /\ r[j + n] = q[j]
    BY <1>2, <1>3
  <2> QED BY <1>9, <2>2, <2>4, <2>5, <2>6, Zenon DEF InOrder
<1>10. ASSUME InOrder(p), InOrder(q), Older(p, q) PROVE InOrder(r)
  <2> SUFFICES ASSUME NEW i \in DOMAIN r, NEW j \in DOMAIN r,
                      NEW a \in DOMAIN r[i], NEW b \in DOMAIN r[j],
                      i < j \/ (i = j /\ a < b)
               PROVE  r[i][a] < r[j][b]
    BY DEF InOrder
  <2>1. CASE i \in DOMAIN p /\ j \in DOMAIN p
    BY <1>2, <1>10, <2>1, Zenon DEF InOrder
  <2>2. CASE i \in DOMAIN p /\ j \notin DOMAIN p
    <3>1. r[i][a] \in Messages(p) /\ r[j][b] \in Messages(q)
      BY <1>2, <1>4, <2>2, MessagesAre, Zenon
    <3> QED BY <1>10, <3>1, Zenon DEF Older
  <2>3. CASE i \notin DOMAIN p /\ j \notin DOMAIN p
    <3>1. /\ i - n \in DOMAIN q /\ r[i] = q[i - n]
          /\ j - n \in DOMAIN q /\ r[j] = q[j - n]
      BY <1>4, <2>3
    <3>2. i - n < j - n \/ (i - n = j - n /\ a < b)
      BY <1>1, <1>5
    <3> QED BY <1>10, <3>1, <3>2, Zenon DEF InOrder
  <2>4. CASE i \notin DOMAIN p /\ j \in DOMAIN p
    BY <1>1, <1>5, <1>6, <2>4
  <2> QED BY <2>1, <2>2, <2>3, <2>4
<1> QED BY <1>7, <1>8, <1>9, <1>10 DEF r

LEMMA OneBuffer ==
  ASSUME NEW s \in Seq(Nat)
  PROVE  /\ <<s>> \in Buffers /\ Messages(<<s>>) = ToSet(s)
         /\ InOrder(<<s>>) <=> \A a, b \in DOMAIN s : a < b => s[a] < s[b]
<1> DEFINE r == <<s>>
<1>1. r \in Buffers /\ DOMAIN r = {1} /\ r[1] = s
  BY DEF Buffers
<1> HIDE DEF r
<1>2. Messages(r) = ToSet(s)
  BY <1>1, Zenon DEF Messages
<1>3. InOrder(r) <=> \A a, b \in DOMAIN s : a < b => s[a] < s[b]
  BY <1>1 DEF InOrder
<1> QED BY <1>1, <1>2, <1>3 DEF r

LEMMA NoMessages ==
  /\ <<>> \in Buffers /\ Messages(<<>>) = {} /\ InOrder(<<>>)
  /\ << <<>> >> \in Buffers /\ Messages(<< <<>> >>) = {} /\ InOrder(<< <<>> >>)
<1>1. <<>> \in Buffers /\ DOMAIN <<>> = {} /\ <<>> \in Seq(Nat)
  BY DEF Buffers
<1>2. Messages(<<>>) = {} /\ InOrder(<<>>)
  BY <1>1, Zenon DEF Messages, InOrder
<1>3. ToSet(<<>>) = {}
  BY <1>1, Zenon DEF ToSet
<1> QED BY <1>1, <1>2, <1>3, OneBuffer

(* Joining two buffers into one, as the file does, changes neither.        *)
LEMMA JoinedBuffers ==
  ASSUME NEW s \in Seq(Nat), NEW t \in Seq(Nat)
  PROVE  /\ s \o t \in Seq(Nat)
         /\ Messages(<<s \o t>>) = Messages(<<s>>) \cup Messages(<<t>>)
         /\ InOrder(<<s \o t>>) <=> /\ InOrder(<<s>>) /\ InOrder(<<t>>)
                                    /\ Older(<<s>>, <<t>>)
<1> DEFINE r == s \o t   n == Len(s)
<1>1. r \in Seq(Nat) /\ n \in Nat
  OBVIOUS
<1>2. \A k \in DOMAIN s : k \in DOMAIN r /\ r[k] = s[k]
  OBVIOUS
<1>3. \A k \in DOMAIN t : k + n \in DOMAIN r /\ r[k + n] = t[k]
  OBVIOUS
<1>4. \A k \in DOMAIN r : k \notin DOMAIN s =>
        k - n \in DOMAIN t /\ r[k] = t[k - n]
  OBVIOUS
<1>5. /\ \A k \in DOMAIN r : k \in Int
      /\ \A k \in DOMAIN s : k \in Int /\ k <= n
      /\ \A k \in DOMAIN t : k \in Int /\ k > 0
      /\ \A k \in DOMAIN r : k \notin DOMAIN s => k > n
  OBVIOUS
<1> HIDE DEF r, n
<1>6. ToSet(r) = ToSet(s) \cup ToSet(t)
  <2>1. ToSet(s) \subseteq ToSet(r)
    BY <1>2, Zenon DEF ToSet
  <2>2. ToSet(t) \subseteq ToSet(r)
    BY <1>3, Zenon DEF ToSet
  <2>3. ToSet(r) \subseteq ToSet(s) \cup ToSet(t)
    BY <1>2, <1>4, Zenon DEF ToSet
  <2> QED BY <2>1, <2>2, <2>3
<1> DEFINE Up(u) == \A a, b \in DOMAIN u : a < b => u[a] < u[b]
           Below == \A x \in ToSet(s), y \in ToSet(t) : x < y
<1>7. ASSUME Up(r) PROVE Up(s) /\ Up(t) /\ Below
  <2>1. Up(s)
    BY <1>2, <1>7, Zenon
  <2>2. Up(t)
    <3> SUFFICES ASSUME NEW a \in DOMAIN t, NEW b \in DOMAIN t, a < b
                 PROVE  t[a] < t[b]
      OBVIOUS
    <3>1. a + n < b + n
      BY <1>1, <1>5
    <3> QED BY <1>3, <1>7, <3>1, Zenon
  <2>3. Below
    <3> SUFFICES ASSUME NEW a \in DOMAIN s, NEW b \in DOMAIN t PROVE s[a] < t[b]
      BY Zenon DEF ToSet
    <3>1. a < b + n
      BY <1>1, <1>5
    <3> QED BY <1>2, <1>3, <1>7, <3>1, Zenon
  <2> QED BY <2>1, <2>2, <2>3
<1>8. ASSUME Up(s), Up(t), Below PROVE Up(r)
  <2> SUFFICES ASSUME NEW a \in DOMAIN r, NEW b \in DOMAIN r, a < b
               PROVE  r[a] < r[b]
    OBVIOUS
  <2>1. CASE a \in DOMAIN s /\ b \in DOMAIN s
    BY <1>2, <1>8, <2>1, Zenon
  <2>2. CASE a \in DOMAIN s /\ b \notin DOMAIN s
    BY <1>2, <1>4, <1>8, <2>2, Zenon DEF ToSet
  <2>3. CASE a \notin DOMAIN s /\ b \notin DOMAIN s
    <3>1. a - n < b - n
      BY <1>1, <1>5
    <3> QED BY <1>4, <1>8, <2>3, <3>1, Zenon
  <2>4. CASE a \notin DOMAIN s /\ b \in DOMAIN s
    BY <1>1, <1>5, <2>4
  <2> QED BY <2>1, <2>2, <2>3, <2>4
<1> HIDE DEF Up, Below
<1>9. Older(<<s>>, <<t>>) <=> Below
  BY OneBuffer, Zenon DEF Older, Below
<1>10. /\ InOrder(<<s>>) <=> Up(s)
       /\ InOrder(<<t>>) <=> Up(t)
       /\ InOrder(<<r>>) <=> Up(r)
  BY <1>1, OneBuffer, Zenon DEF Up
<1>11. Messages(<<r>>) = Messages(<<s>>) \cup Messages(<<t>>)
  BY <1>1, <1>6, OneBuffer, Zenon
<1> QED BY <1>1, <1>7, <1>8, <1>9, <1>10, <1>11 DEF r

(* A new message, later than all others, at the end of the last buffer.    *)
LEMMA LastGrows ==
  ASSUME NEW p \in Buffers, NEW s \in Seq(Nat), NEW m \in Nat,
         InOrder(p \o <<s>>), \A x \in Messages(p \o <<s>>) : x < m
  PROVE  /\ InOrder(p \o <<Append(s, m)>>)
         /\ Messages(p \o <<Append(s, m)>>) = Messages(p \o <<s>>) \cup {m}
<1> DEFINE t == <<m>>
<1>1. t \in Seq(Nat) /\ DOMAIN t = {1} /\ t[1] = m /\ Append(s, m) = s \o t
  BY AppendIsConcat
<1> HIDE DEF t
<1>2. ToSet(t) = {m}
  BY <1>1, Zenon DEF ToSet
<1>3. Messages(<<t>>) = {m} /\ InOrder(<<t>>)
  <2>1. \A a, b \in DOMAIN t : ~(a < b)
    BY <1>1
  <2> QED BY <1>1, <1>2, <2>1, OneBuffer, Zenon
<1>4. s \o t \in Seq(Nat)
  BY <1>1, JoinedBuffers
<1>5. <<s>> \in Buffers /\ <<t>> \in Buffers /\ <<s \o t>> \in Buffers
  BY <1>1, <1>4, OneBuffer, Zenon
<1>6. /\ Messages(p \o <<s>>) = Messages(p) \cup Messages(<<s>>)
      /\ InOrder(p) /\ InOrder(<<s>>) /\ Older(p, <<s>>)
  BY <1>5, ConcatMessages, ConcatInOrder
<1>7. Messages(<<s \o t>>) = Messages(<<s>>) \cup {m} /\ InOrder(<<s \o t>>)
  <2>1. Older(<<s>>, <<t>>)
    BY <1>3, <1>6, Zenon DEF Older
  <2> QED BY <1>1, <1>3, <1>6, <2>1, JoinedBuffers, Zenon
<1>8. Older(p, <<s \o t>>)
  BY <1>6, <1>7, Zenon DEF Older
<1>9. InOrder(p \o <<s \o t>>)
  BY <1>5, <1>6, <1>7, <1>8, ConcatInOrder, Zenon
<1>10. Messages(p \o <<s \o t>>) = Messages(p \o <<s>>) \cup {m}
  <2>1. Messages(p \o <<s \o t>>) = Messages(p) \cup Messages(<<s \o t>>)
    BY <1>5, ConcatMessages, Zenon
  <2> QED BY <1>6, <1>7, <2>1
<1> QED BY <1>1, <1>9, <1>10, Zenon

-----------------------------------------------------------------------------
(* What NothingLost needs besides the types and SparesReturn: the drops are*)
(* among the messages appended, and written counts only while it is used.  *)
Flowing ==
  /\ NothingLost
  /\ dropped \subseteq 1 .. appended
  /\ written <= Len(buffersToWrite)
  /\ lpc # "write" => written = 0

LEMMA BuffersAre ==
  ASSUME TypeOK
  PROVE  /\ file \in Seq(Nat) /\ currentBuffer \in Seq(Nat)
         /\ buffers \in Buffers /\ buffersToWrite \in Buffers
<1>1. 1 .. MaxMessages \subseteq Nat
  OBVIOUS
<1>2. \A s \in Buffer : s \in Seq(Nat)
  BY <1>1, SeqMonotonic DEF Buffer
<1>3. Buffer \subseteq Seq(Nat)
  BY <1>2
<1>4. \A p \in Seq(Buffer) : p \in Buffers
  BY <1>3, SeqMonotonic DEF Buffers
<1> QED BY <1>2, <1>4 DEF TypeOK

(* The parts of Stages, and both ways to see where it ends.                *)
LEMMA StagesAre ==
  ASSUME TypeOK
  PROVE  /\ <<file>> \in Buffers /\ NotYetWritten \in Buffers
         /\ buffers \in Buffers /\ <<currentBuffer>> \in Buffers
         /\ <<file>> \o NotYetWritten \in Buffers
         /\ buffers \o <<currentBuffer>> \in Buffers
         /\ (<<file>> \o NotYetWritten) \o buffers \in Buffers
         /\ Stages \in Buffers /\ Messages(Stages) \subseteq Nat
         /\ Stages = ((<<file>> \o NotYetWritten) \o buffers) \o <<currentBuffer>>
<1>1. <<file>> \in Buffers /\ <<currentBuffer>> \in Buffers /\ buffers \in Buffers
  BY BuffersAre, OneBuffer
<1>2. NotYetWritten \in Buffers
  <2>1. buffersToWrite \in Seq(Seq(Nat)) /\ written \in Nat
    BY BuffersAre DEF Buffers, TypeOK
  <2>2. SubSeq(buffersToWrite, written + 1, Len(buffersToWrite)) \in Seq(Seq(Nat))
    <3>1. \A k \in (written + 1) .. Len(buffersToWrite) : buffersToWrite[k] \in Seq(Nat)
      BY <2>1
    <3>2. written + 1 \in Int /\ Len(buffersToWrite) \in Int
      BY <2>1
    <3> QED BY <3>1, <3>2, SubSeqProperties
  <2> QED BY <2>1, <2>2 DEF NotYetWritten, Buffers
<1>3. /\ <<file>> \o NotYetWritten \in Buffers
      /\ buffers \o <<currentBuffer>> \in Buffers
  BY <1>1, <1>2, ConcatMessages
<1>4. /\ (<<file>> \o NotYetWritten) \o buffers \in Buffers
      /\ Stages \in Buffers /\ Messages(Stages) \subseteq Nat
  BY <1>1, <1>3, ConcatMessages, MessagesAre DEF Stages
<1>5. Stages = ((<<file>> \o NotYetWritten) \o buffers) \o <<currentBuffer>>
  BY <1>1, <1>3, ConcatAssociative DEF Stages, Buffers
<1> QED BY <1>1, <1>2, <1>3, <1>4, <1>5

LEMMA EmptyJoined ==
  ASSUME NEW p \in Buffers, NEW q \in Buffers, Messages(p) = {}, Messages(q) = {},
         InOrder(p), InOrder(q)
  PROVE  p \o q \in Buffers /\ Messages(p \o q) = {} /\ InOrder(p \o q)
<1>1. Older(p, q)
  BY DEF Older
<1>2. p \o q \in Buffers /\ Messages(p \o q) = Messages(p) \cup Messages(q)
  BY ConcatMessages, Zenon
<1>3. InOrder(p \o q)
  BY <1>1, ConcatInOrder, Zenon
<1> QED BY <1>2, <1>3

LEMMA InitFlowing == Init => Flowing
<1> SUFFICES ASSUME Init PROVE Flowing
  OBVIOUS
<1>1. /\ file = <<>> /\ currentBuffer = <<>> /\ buffers = <<>>
      /\ NotYetWritten = <<>> /\ appended = 0 /\ dropped = {}
  BY DEF Init, NotYetWritten
<1>2. Messages(Stages) = {} /\ InOrder(Stages)
  <2> DEFINE e == << <<>> >>   n == <<>>
  <2>0. Stages = (e \o n) \o (n \o e)
    BY <1>1 DEF Stages
  <2>1. e \in Buffers /\ Messages(e) = {} /\ InOrder(e)
    BY NoMessages
  <2>2. n \in Buffers /\ Messages(n) = {} /\ InOrder(n)
    BY NoMessages
  <2> HIDE DEF e, n
  <2>3. e \o n \in Buffers /\ Messages(e \o n) = {} /\ InOrder(e \o n)
    BY <2>1, <2>2, EmptyJoined, Zenon
  <2>4. n \o e \in Buffers /\ Messages(n \o e) = {} /\ InOrder(n \o e)
    BY <2>1, <2>2, EmptyJoined, Zenon
  <2> DEFINE a == e \o n   b == n \o e
  <2>5. a \in Buffers /\ Messages(a) = {} /\ InOrder(a)
    BY <2>3
  <2>6. b \in Buffers /\ Messages(b) = {} /\ InOrder(b)
    BY <2>4
  <2>7. Stages = a \o b
    BY <2>0
  <2> HIDE DEF a, b
  <2>8. Messages(a \o b) = {} /\ InOrder(a \o b)
    BY <2>5, <2>6, EmptyJoined, Zenon
  <2> QED BY <2>7, <2>8, Zenon
<1> QED BY <1>1, <1>2 DEF Flowing, NothingLost, Init

(* An empty buffer at the end changes nothing.                             *)
LEMMA EmptyLast ==
  ASSUME NEW p \in Buffers
  PROVE  /\ p \o << <<>> >> \in Buffers
         /\ Messages(p \o << <<>> >>) = Messages(p)
         /\ InOrder(p \o << <<>> >>) <=> InOrder(p)
<1> DEFINE e == << <<>> >>
<1>1. e \in Buffers /\ Messages(e) = {} /\ InOrder(e)
  BY NoMessages
<1> HIDE DEF e
<1>2. p \o e \in Buffers /\ Messages(p \o e) = Messages(p)
  <2>1. p \o e \in Buffers /\ Messages(p \o e) = Messages(p) \cup Messages(e)
    BY <1>1, ConcatMessages, Zenon
  <2> QED BY <1>1, <2>1
<1>3. InOrder(p \o e) <=> InOrder(p)
  BY <1>1, ConcatInOrder, Zenon DEF Older
<1> QED BY <1>2, <1>3 DEF e

LEMMA AppendFlows ==
  ASSUME Inv, Flowing, AppendToCurrent \/ AppendToFresh
  PROVE  NothingLost' /\ dropped' \subseteq 1 .. appended'
<1> DEFINE m == appended + 1
<1>1. TypeOK /\ appended \in Nat /\ m \in Nat /\ currentBuffer \in Seq(Nat)
  BY BuffersAre DEF Inv, TypeOK
<1>2. InOrder(Stages) /\ Messages(Stages) = (1 .. appended) \ dropped
  BY DEF Flowing, NothingLost
<1>3. \A x \in Messages(Stages) : x < m
  BY <1>1, <1>2
<1>4. /\ appended' = m /\ dropped' = dropped /\ file' = file
      /\ NotYetWritten' = NotYetWritten
  BY DEF AppendToCurrent, AppendToFresh, Message, output, back, NotYetWritten
<1> HIDE DEF m
<1>5. InOrder(Stages') /\ Messages(Stages') = Messages(Stages) \cup {m}
  <2>1. CASE AppendToCurrent
    <3> DEFINE p == (<<file>> \o NotYetWritten) \o buffers
    <3>1. p \in Buffers /\ Stages = p \o <<currentBuffer>>
      BY <1>1, StagesAre
    <3>2. currentBuffer' = Append(currentBuffer, m) /\ buffers' = buffers
      BY <2>1 DEF AppendToCurrent, Message, m
    <3>3. <<currentBuffer'>> \in Buffers
      <4>1. Append(currentBuffer, m) \in Seq(Nat)
        BY <1>1
      <4>2. <<Append(currentBuffer, m)>> \in Buffers
        BY <4>1, OneBuffer, Zenon
      <4> QED BY <3>2, <4>2
    <3>4. Stages' = p \o <<currentBuffer'>>
      <4>1. Stages' = (<<file>> \o NotYetWritten) \o (buffers \o <<currentBuffer'>>)
        BY <1>4, <3>2 DEF Stages
      <4>2. <<file>> \o NotYetWritten \in Buffers /\ buffers \in Buffers
        BY <1>1, StagesAre
      <4> QED BY <3>3, <4>1, <4>2, ConcatAssociative DEF Buffers
    <3> HIDE DEF p
    <3> QED BY <1>1, <1>2, <1>3, <3>1, <3>2, <3>4, LastGrows
  <2>2. CASE AppendToFresh
    <3>1. nextBuffer \in {<<>>, None}
      BY DEF Inv, SparesReturn
    <3>2. currentBuffer' = Append(<<>>, m) /\ buffers' = Append(buffers, currentBuffer)
      BY <2>2, <3>1 DEF AppendToFresh, Message, m
    <3>3. buffers \in Buffers /\ Append(buffers, currentBuffer) = buffers \o <<currentBuffer>>
      BY <1>1, StagesAre, AppendIsConcat DEF Buffers
    <3>4. <<currentBuffer'>> \in Buffers
      <4>1. Append(<<>>, m) \in Seq(Nat)
        BY <1>1
      <4>2. <<Append(<<>>, m)>> \in Buffers
        BY <4>1, OneBuffer, Zenon
      <4> QED BY <3>2, <4>2
    <3>5. Stages' = Stages \o <<Append(<<>>, m)>>
      <4>1. Stages' = (<<file>> \o NotYetWritten)
                        \o ((buffers \o <<currentBuffer>>) \o <<currentBuffer'>>)
        BY <1>4, <3>2, <3>3 DEF Stages
      <4>2. /\ <<file>> \o NotYetWritten \in Buffers
            /\ buffers \o <<currentBuffer>> \in Buffers
        BY <1>1, StagesAre
      <4>3. \A a, b, c \in Buffers : a \o (b \o c) = (a \o b) \o c
        BY SMTT(30) DEF Buffers
      <4>4. Stages' = ((<<file>> \o NotYetWritten) \o (buffers \o <<currentBuffer>>))
                        \o <<currentBuffer'>>
        <5> DEFINE a == <<file>> \o NotYetWritten
                   b == buffers \o <<currentBuffer>>
                   c == <<currentBuffer'>>
        <5>1. a \in Buffers /\ b \in Buffers /\ c \in Buffers
          BY <3>4, <4>2
        <5>2. Stages' = a \o (b \o c)
          BY <4>1
        <5> HIDE DEF a, b, c
        <5>3. Stages' = (a \o b) \o c
          BY <4>3, <5>1, <5>2, Zenon
        <5> QED BY <5>3 DEF a, b, c
      <4> QED BY <3>2, <4>4 DEF Stages
    <3>6. Stages \in Buffers /\ <<>> \in Seq(Nat)
      BY <1>1, StagesAre
    <3>7. InOrder(Stages \o << <<>> >>) /\ Messages(Stages \o << <<>> >>) = Messages(Stages)
      BY <1>2, <3>6, EmptyLast
    <3>8. /\ InOrder(Stages \o <<Append(<<>>, m)>>)
          /\ Messages(Stages \o <<Append(<<>>, m)>>)
               = Messages(Stages \o << <<>> >>) \cup {m}
      <4>1. \A x \in Messages(Stages \o << <<>> >>) : x < m
        BY <1>3, <3>7
      <4> QED BY <1>1, <3>6, <3>7, <4>1, LastGrows, Zenon
    <3> QED BY <3>5, <3>7, <3>8
  <2> QED BY <2>1, <2>2
<1>6. dropped \subseteq 1 .. appended
  BY DEF Flowing
<1>7. Messages(Stages') = (1 .. m) \ dropped
  BY <1>1, <1>2, <1>5, <1>6 DEF m
<1>8. dropped \subseteq 1 .. m
  BY <1>1, <1>6 DEF m
<1> QED BY <1>4, <1>5, <1>7, <1>8 DEF NothingLost

LEMMA FlushSwapFlows ==
  ASSUME Inv, Flowing, FlushSwap
  PROVE  NothingLost'
<1> DEFINE f == <<file>>   b == buffers \o <<currentBuffer>>
<1>1. TypeOK /\ newBuffer1 = <<>> /\ buffersToWrite = <<>> /\ lpc = "flush"
  BY DEF Inv, SparesReturn, FlushSwap
<1>2. f \in Buffers /\ b \in Buffers
  BY <1>1, StagesAre
<1>3. Stages = f \o b
  <2>1. NotYetWritten = <<>>
    BY <1>1 DEF NotYetWritten
  <2>2. f \o <<>> = f
    BY <1>2, ConcatEmptySeq DEF Buffers
  <2> QED BY <2>1, <2>2 DEF Stages
<1>4. Stages' = (f \o b) \o << <<>> >>
  <2>1. NotYetWritten' = Append(buffers, currentBuffer) /\ file' = file
    BY DEF FlushSwap, NotYetWritten, output
  <2>2. Append(buffers, currentBuffer) = b
    BY <1>1, BuffersAre, AppendIsConcat DEF Buffers
  <2>3. buffers' = <<>> /\ currentBuffer' = <<>>
    BY <1>1 DEF FlushSwap
  <2>4. <<>> \o << <<>> >> = << <<>> >>
    BY NoMessages, ConcatEmptySeq DEF Buffers
  <2> QED BY <2>1, <2>2, <2>3, <2>4 DEF Stages
<1> HIDE DEF f, b
<1>5. f \o b \in Buffers
  BY <1>2, ConcatMessages
<1>6. InOrder(Stages') /\ Messages(Stages') = Messages(Stages)
  BY <1>3, <1>4, <1>5, EmptyLast DEF Flowing, NothingLost
<1>7. appended' = appended /\ dropped' = dropped
  BY DEF FlushSwap, output
<1> QED BY <1>6, <1>7 DEF Flowing, NothingLost

(* A batch cut after its first n buffers.                                  *)
LEMMA CutBuffers ==
  ASSUME NEW w \in Buffers, NEW n \in Nat, n < Len(w)
  PROVE  LET keep == SubSeq(w, 1, n)   extra == SubSeq(w, n + 1, Len(w)) IN
         /\ keep \in Buffers /\ extra \in Buffers /\ w = keep \o extra
         /\ DOMAIN extra = 1 .. (Len(w) - n)
         /\ \A k \in DOMAIN extra : extra[k] = w[k + n]
<1> DEFINE keep == SubSeq(w, 1, n)   extra == SubSeq(w, n + 1, Len(w))
<1>1. w \in Seq(Seq(Nat)) /\ Len(w) \in Nat
  BY DEF Buffers
<1>2. \A k \in 1 .. Len(w) : w[k] \in Seq(Nat)
  BY <1>1
<1>3. keep \in Seq(Seq(Nat))
  <2>1. \A k \in 1 .. n : w[k] \in Seq(Nat)
    BY <1>1, <1>2
  <2> QED BY <2>1, SubSeqProperties
<1>4. /\ extra \in Seq(Seq(Nat)) /\ Len(extra) = Len(w) - n
      /\ \A k \in 1 .. (Len(w) - n) : extra[k] = w[k + n]
  <2>1. \A k \in (n + 1) .. Len(w) : w[k] \in Seq(Nat)
    BY <1>1, <1>2
  <2>2. n + 1 \in Int /\ Len(w) \in Int /\ n + 1 <= Len(w)
    BY <1>1
  <2>3. /\ extra \in Seq(Seq(Nat))
        /\ Len(extra) = IF n + 1 <= Len(w) THEN Len(w) - (n + 1) + 1 ELSE 0
        /\ \A k \in 1 .. (Len(w) - (n + 1) + 1) : extra[k] = w[(n + 1) + k - 1]
    BY <2>1, <2>2, SubSeqProperties
  <2> HIDE DEF extra
  <2>4. Len(w) - (n + 1) + 1 = Len(w) - n
    BY <1>1
  <2>5. \A k \in 1 .. (Len(w) - n) : (n + 1) + k - 1 = k + n
    BY <1>1
  <2> QED BY <2>2, <2>3, <2>4, <2>5
<1>5. w = keep \o extra
  <2>1. keep \o extra = SubSeq(w, 1, Len(w))
    <3>1. /\ 1 \in 1 .. Len(w) + 1 /\ n \in 1 - 1 .. Len(w)
          /\ Len(w) \in n .. Len(w)
      BY <1>1
    <3> QED BY <1>1, <3>1, ConcatAdjacentSubSeq
  <2> QED BY <1>1, <2>1, SubSeqFull
<1>6. DOMAIN extra = 1 .. (Len(w) - n)
  BY <1>4
<1> QED BY <1>3, <1>4, <1>5, <1>6 DEF Buffers

LEMMA FlushLimitFlows ==
  ASSUME Inv, Flowing, FlushLimit
  PROVE  NothingLost' /\ dropped' \subseteq 1 .. appended'
<1> DEFINE f == <<file>>   r == buffers \o <<currentBuffer>>   w == buffersToWrite
           keep == SubSeq(w, 1, MaxBuffers)
           extra == SubSeq(w, MaxBuffers + 1, Len(w))
<1>1. TypeOK /\ w \in Buffers /\ written = 0 /\ lpc = "limit" /\ lpc' = "write"
  BY BuffersAre DEF Inv, Flowing, FlushLimit
<1>2. f \in Buffers /\ r \in Buffers
  BY <1>1, StagesAre
<1>3. Stages = (f \o w) \o r
  BY <1>1 DEF Stages, NotYetWritten
<1>4. UNCHANGED <<file, appended, buffers, currentBuffer, written>>
  BY DEF FlushLimit, front
<1>5. buffersToWrite' \in Buffers
  BY <1>1, AsyncLogAssumption DEF FlushLimit, Buffers
<1>6. Stages' = (f \o buffersToWrite') \o r
  <2>1. NotYetWritten' = SubSeq(buffersToWrite', 1, Len(buffersToWrite'))
    BY <1>1, <1>4 DEF NotYetWritten
  <2>2. NotYetWritten' = buffersToWrite'
    BY <1>5, <2>1, SubSeqFull DEF Buffers
  <2> QED BY <1>4, <2>2 DEF Stages
<1>7. /\ InOrder(Stages) /\ Messages(Stages) = (1 .. appended) \ dropped
      /\ dropped \subseteq 1 .. appended
  BY DEF Flowing, NothingLost
<1>8. CASE Len(w) <= MaxBuffers
  <2>1. buffersToWrite' = w
    BY <1>8 DEF FlushLimit
  <2>2. (MaxBuffers + 1) .. Len(w) = {}
    BY <1>1, <1>8, AsyncLogAssumption DEF Buffers
  <2>3. dropped' = dropped
    BY <2>2 DEF FlushLimit
  <2>4. Stages' = Stages
    BY <1>3, <1>6, <2>1
  <2> QED BY <1>4, <1>7, <2>3, <2>4 DEF NothingLost
<1>9. CASE ~(Len(w) <= MaxBuffers)
  <2>1. /\ keep \in Buffers /\ extra \in Buffers /\ w = keep \o extra
        /\ DOMAIN extra = 1 .. (Len(w) - MaxBuffers)
        /\ \A k \in DOMAIN extra : extra[k] = w[k + MaxBuffers]
    <3>1. w \in Buffers /\ MaxBuffers \in Nat /\ MaxBuffers < Len(w)
      BY <1>1, <1>9, AsyncLogAssumption DEF Buffers
    <3> HIDE DEF w
    <3> QED BY <3>1, CutBuffers DEF keep, extra
  <2>2. buffersToWrite' = keep
    BY <1>9 DEF FlushLimit
  <2>3. dropped' = dropped \cup Messages(extra)
    <3> DEFINE tail == (MaxBuffers + 1) .. Len(w)
    <3>1. dropped' = dropped \cup UNION {ToSet(w[k]) : k \in tail}
      BY DEF FlushLimit
    <3>0. Len(w) \in Nat /\ MaxBuffers \in Nat
      BY <1>1, AsyncLogAssumption DEF Buffers
    <3> HIDE DEF extra, w
    <3>2. \A k \in tail : k - MaxBuffers \in DOMAIN extra /\ extra[k - MaxBuffers] = w[k]
      <4> SUFFICES ASSUME NEW k \in tail
                   PROVE  k - MaxBuffers \in DOMAIN extra /\ extra[k - MaxBuffers] = w[k]
        OBVIOUS
      <4>1. /\ k - MaxBuffers \in 1 .. (Len(w) - MaxBuffers)
            /\ (k - MaxBuffers) + MaxBuffers = k
        BY <3>0
      <4>2. k - MaxBuffers \in DOMAIN extra
        BY <2>1, <4>1
      <4>3. extra[k - MaxBuffers] = w[(k - MaxBuffers) + MaxBuffers]
        BY <2>1, <4>2, Zenon
      <4> QED BY <4>1, <4>2, <4>3
    <3>3. \A k \in DOMAIN extra : k + MaxBuffers \in tail /\ extra[k] = w[k + MaxBuffers]
      BY <2>1, <3>0
    <3> HIDE DEF tail
    <3>4. UNION {ToSet(w[k]) : k \in tail} \subseteq Messages(extra)
      BY <3>2, Zenon DEF Messages
    <3>5. Messages(extra) \subseteq UNION {ToSet(w[k]) : k \in tail}
      BY <3>3, Zenon DEF Messages
    <3> QED BY <3>1, <3>4, <3>5
  <2> HIDE DEF f, r, w, keep, extra
  <2>4. f \o w \in Buffers /\ f \o keep \in Buffers
    BY <1>1, <1>2, <2>1, ConcatMessages
  <2>5. /\ InOrder(f) /\ InOrder(w) /\ Older(f, w) /\ InOrder(r) /\ Older(f \o w, r)
        /\ Messages(f \o w) = Messages(f) \cup Messages(w)
        /\ Messages(Stages) = Messages(f \o w) \cup Messages(r)
    BY <1>1, <1>2, <1>3, <1>7, <2>4, ConcatMessages, ConcatInOrder
  <2>6. /\ InOrder(keep) /\ Older(keep, extra)
        /\ Messages(w) = Messages(keep) \cup Messages(extra)
    BY <2>1, <2>5, ConcatMessages, ConcatInOrder
  <2>7. /\ Messages(f \o keep) = Messages(f) \cup Messages(keep)
        /\ Messages(Stages') = Messages(f \o keep) \cup Messages(r)
    BY <1>2, <1>6, <2>1, <2>2, <2>4, ConcatMessages
  <2>8. Older(f, keep) /\ Older(f, extra) /\ Older(f \o keep, r) /\ Older(extra, r)
    BY <2>5, <2>6, <2>7, Zenon DEF Older
  <2>9. InOrder(Stages')
    <3>1. InOrder(f \o keep)
      BY <1>2, <2>1, <2>5, <2>6, <2>8, ConcatInOrder
    <3> QED BY <1>2, <1>6, <2>2, <2>4, <2>5, <2>8, <3>1, ConcatInOrder
  <2>10. Messages(extra) \cap Messages(Stages') = {}
    <3> SUFFICES ASSUME NEW x \in Messages(extra), x \in Messages(Stages') PROVE FALSE
      OBVIOUS
    <3>1. x \in Nat
      BY <2>1, MessagesAre
    <3>2. x \in Messages(f) \/ x \in Messages(keep) \/ x \in Messages(r)
      BY <2>7
    <3>3. x < x
      BY <2>6, <2>8, <3>2, Zenon DEF Older
    <3> QED BY <3>1, <3>3
  <2>11. /\ Messages(Stages) = Messages(Stages') \cup Messages(extra)
    BY <2>5, <2>6, <2>7
  <2>12. Messages(Stages') = (1 .. appended) \ dropped'
    BY <1>7, <2>3, <2>10, <2>11
  <2>13. dropped' \subseteq 1 .. appended
    BY <1>7, <2>3, <2>11
  <2> QED BY <1>4, <2>9, <2>12, <2>13 DEF NothingLost
<1> QED BY <1>8, <1>9

LEMMA WriteBufferFlows ==
  ASSUME Inv, Flowing, WriteBuffer
  PROVE  NothingLost' /\ written' <= Len(buffersToWrite')
<1> DEFINE s == file   t == buffersToWrite[written + 1]
           r == buffers \o <<currentBuffer>>   rest == NotYetWritten'
<1>1. TypeOK /\ buffersToWrite \in Buffers /\ lpc = "write" /\ lpc' = "write"
      /\ written \in Nat /\ written < Len(buffersToWrite)
  BY BuffersAre DEF Inv, WriteBuffer, TypeOK
<1>2. /\ file' = s \o t /\ written' = written + 1
      /\ UNCHANGED <<appended, dropped, buffers, currentBuffer, buffersToWrite>>
  BY DEF WriteBuffer, front
<1>3. s \in Seq(Nat) /\ t \in Seq(Nat) /\ r \in Buffers
  BY <1>1, BuffersAre, StagesAre DEF Buffers
<1>4. rest \in Buffers /\ NotYetWritten = <<t>> \o rest
  <2>1. rest = SubSeq(buffersToWrite, (written + 1) + 1, Len(buffersToWrite))
    BY <1>1, <1>2 DEF NotYetWritten
  <2>2. NotYetWritten = SubSeq(buffersToWrite, written + 1, Len(buffersToWrite))
    BY <1>1 DEF NotYetWritten
  <2>3. /\ buffersToWrite \in Seq(Seq(Nat))
        /\ written + 1 \in 1 .. Len(buffersToWrite)
        /\ Len(buffersToWrite) \in (written + 1) .. Len(buffersToWrite)
    BY <1>1 DEF Buffers
  <2>4. NotYetWritten = <<t>> \o rest
    BY <2>1, <2>2, <2>3, SubSeqRecursiveFirst
  <2>5. rest \in Seq(Seq(Nat))
    BY <2>1, <2>3
  <2> QED BY <2>4, <2>5 DEF Buffers
<1>5. Stages = (<<s>> \o (<<t>> \o rest)) \o r
  BY <1>4 DEF Stages
<1>6. Stages' = (<<s \o t>> \o rest) \o r
  BY <1>2 DEF Stages
<1> HIDE DEF s, t, r, rest
<1>7. <<s>> \in Buffers /\ <<t>> \in Buffers /\ <<s \o t>> \in Buffers
  <2>1. s \o t \in Seq(Nat)
    BY <1>3, JoinedBuffers
  <2> QED BY <1>3, <2>1, OneBuffer, Zenon
<1>8. /\ <<t>> \o rest \in Buffers /\ <<s>> \o (<<t>> \o rest) \in Buffers
      /\ <<s \o t>> \o rest \in Buffers
  BY <1>4, <1>7, ConcatMessages
<1>9. InOrder(Stages) /\ Messages(Stages) = (1 .. appended) \ dropped
  BY DEF Flowing, NothingLost
<1>10. /\ Messages(Stages) = Messages(<<s>> \o (<<t>> \o rest)) \cup Messages(r)
       /\ Messages(<<s>> \o (<<t>> \o rest)) = Messages(<<s>>) \cup Messages(<<t>> \o rest)
       /\ Messages(<<t>> \o rest) = Messages(<<t>>) \cup Messages(rest)
  BY <1>3, <1>4, <1>5, <1>7, <1>8, ConcatMessages
<1>11. /\ InOrder(<<s>> \o (<<t>> \o rest)) /\ InOrder(r)
       /\ Older(<<s>> \o (<<t>> \o rest), r)
  BY <1>3, <1>5, <1>8, <1>9, ConcatInOrder
<1>12. InOrder(<<s>>) /\ InOrder(<<t>> \o rest) /\ Older(<<s>>, <<t>> \o rest)
  BY <1>7, <1>8, <1>11, ConcatInOrder
<1>13. InOrder(<<t>>) /\ InOrder(rest) /\ Older(<<t>>, rest)
  BY <1>4, <1>7, <1>12, ConcatInOrder
<1>14. /\ Messages(<<s \o t>>) = Messages(<<s>>) \cup Messages(<<t>>)
       /\ Messages(<<s \o t>> \o rest) = Messages(<<s \o t>>) \cup Messages(rest)
       /\ Messages(Stages') = Messages(<<s \o t>> \o rest) \cup Messages(r)
  BY <1>3, <1>4, <1>6, <1>7, <1>8, JoinedBuffers, ConcatMessages
<1>15. Older(<<s>>, <<t>>) /\ Older(<<s>>, rest)
  BY <1>10, <1>12, Zenon DEF Older
<1>16. InOrder(<<s \o t>>)
  BY <1>3, <1>12, <1>13, <1>15, JoinedBuffers
<1>17. InOrder(<<s \o t>> \o rest)
  <2>1. Older(<<s \o t>>, rest)
    BY <1>13, <1>14, <1>15, Zenon DEF Older
  <2> QED BY <1>4, <1>7, <1>13, <1>16, <2>1, ConcatInOrder
<1>18. InOrder(Stages')
  <2>1. Older(<<s \o t>> \o rest, r)
    BY <1>10, <1>11, <1>14, Zenon DEF Older
  <2> QED BY <1>3, <1>6, <1>8, <1>11, <1>17, <2>1, ConcatInOrder
<1>19. Messages(Stages') = Messages(Stages)
  BY <1>10, <1>14
<1>20. written' <= Len(buffersToWrite')
  BY <1>1, <1>2 DEF Buffers
<1> QED BY <1>2, <1>9, <1>18, <1>19, <1>20 DEF NothingLost

LEMMA NextFlowing == Inv /\ Flowing /\ [Next]_vars => Flowing'
<1> SUFFICES ASSUME Inv, Flowing, [Next]_vars PROVE Flowing'
  OBVIOUS
<1>0. /\ buffersToWrite \in Buffers /\ written \in Nat
      /\ written <= Len(buffersToWrite) /\ (lpc # "write" => written = 0)
      /\ dropped \subseteq 1 .. appended /\ NothingLost
  BY BuffersAre DEF Inv, TypeOK, Flowing
<1>1. CASE AppendToCurrent \/ AppendToFresh
  <2>1. UNCHANGED <<buffersToWrite, written, lpc>>
    BY <1>1 DEF AppendToCurrent, AppendToFresh, back
  <2> QED BY <1>0, <1>1, <2>1, AppendFlows DEF Flowing
<1>2. CASE Stop \/ UNCHANGED vars
  BY <1>0, <1>2
  DEF Stop, vars, front, back, output, Flowing, NothingLost, Stages, NotYetWritten
<1>3. CASE CheckRunning \/ WaitEnds
  <2>1. NotYetWritten' = NotYetWritten
    BY <1>3 DEF CheckRunning, WaitEnds, back, NotYetWritten
  <2>2. UNCHANGED <<front, back, output, appended>> /\ lpc # "write"
    BY <1>3 DEF CheckRunning, WaitEnds
  <2> QED BY <1>0, <2>1, <2>2 DEF front, back, output, Flowing, NothingLost, Stages
<1>4. CASE FlushSwap
  <2>1. written' = 0 /\ 0 <= Len(buffersToWrite') /\ UNCHANGED <<dropped, appended>>
    <3>1. buffers \in Buffers /\ currentBuffer \in Seq(Nat)
      BY BuffersAre DEF Inv
    <3>2. Len(Append(buffers, currentBuffer)) \in Nat
      BY <3>1 DEF Buffers
    <3> QED BY <1>0, <1>4, <3>2 DEF FlushSwap, output
  <2> QED BY <1>0, <1>4, <2>1, FlushSwapFlows DEF Flowing
<1>5. CASE FlushLimit
  <2>1. written' = 0 /\ lpc' = "write" /\ 0 <= Len(buffersToWrite')
    BY <1>0, <1>5, AsyncLogAssumption DEF FlushLimit, Buffers
  <2> QED BY <1>5, <2>1, FlushLimitFlows DEF Flowing
<1>6. CASE WriteBuffer
  <2>1. lpc' = "write" /\ UNCHANGED <<dropped, appended>>
    BY <1>6 DEF WriteBuffer
  <2> QED BY <1>0, <1>6, <2>1, WriteBufferFlows DEF Flowing
<1>7. CASE FlushRecycle
  <2>1. /\ lpc = "write" /\ lpc' = "loop" /\ written = Len(buffersToWrite)
        /\ buffersToWrite' = <<>> /\ written' = 0
        /\ UNCHANGED <<appended, front, output>>
    BY <1>7 DEF FlushRecycle
  <2>2. NotYetWritten = <<>>
    <3>1. written + 1 \in Int /\ Len(buffersToWrite) \in Int
          /\ Len(buffersToWrite) < written + 1
      BY <1>0, <2>1
    <3> QED BY <2>1, <3>1, SubSeqEmpty DEF NotYetWritten
  <2>3. NotYetWritten' = <<>>
    BY <2>1 DEF NotYetWritten
  <2> QED BY <1>0, <2>1, <2>2, <2>3 DEF front, output, Flowing, NothingLost, Stages
<1> QED
  BY <1>1, <1>2, <1>3, <1>4, <1>5, <1>6, <1>7 DEF Next, LoggerStep

(* What the file has got, what is being written and what the front end     *)
(* still holds is every message appended and not dropped, once and in      *)
(* order, however the appends interleave with the logging thread           *)
(* (LogAppender.cpp:77-195).                                               *)
THEOREM NothingIsLost == Spec => []NothingLost
<1>1. Flowing => NothingLost
  BY DEF Flowing
<1> QED
  BY InitFlowing, NextFlowing, InvAlways, <1>1, PTL DEF Spec

-----------------------------------------------------------------------------
(* Of Period the proofs need only that days do not go backwards.           *)
LEMMA DivMonotone ==
  ASSUME NEW a \in Nat, NEW b \in Nat, NEW c \in Nat \ {0}, a <= b
  PROVE  a \div c <= b \div c
<1>1. a \div c \in Int /\ b \div c \in Int
  OBVIOUS
<1>2. c * (a \div c) <= a
  OBVIOUS
<1>3. b < c * (b \div c) + c
  OBVIOUS
<1> QED BY <1>1, <1>2, <1>3

LEMMA PeriodType == ASSUME NEW t \in Nat PROVE Period(t) \in Int
BY LogFileAssumption DEF Period

LEMMA PeriodMonotone ==
  ASSUME NEW a \in Nat, NEW b \in Nat, a <= b PROVE Period(a) <= Period(b)
<1>1. PICK c \in Nat \ {0} : c = RollPerSeconds BY LogFileAssumption
<1>2. a \div c <= b \div c BY DivMonotone
<1>3. a \div c \in Int /\ b \div c \in Int OBVIOUS
<1>4. (a \div c) * c <= (b \div c) * c BY <1>2, <1>3
<1> QED BY <1>1, <1>4 DEF Period

-----------------------------------------------------------------------------
FTypeOK ==
  /\ time \in Nat /\ lastRoll \in Nat
  /\ opened \in Seq(Nat)
  /\ count \in Nat /\ count < CheckEveryN
  /\ late \in Nat

(* Each name is later than the names before it.                            *)
NamesIncrease ==
  /\ \A i \in 1 .. Len(opened) : opened[i] <= lastRoll
  /\ \A i, j \in 1 .. Len(opened) : i < j => opened[i] < opened[j]

(* Late appends are counted, and end with the file's day.                  *)
LateAreCounted ==
  /\ lastRoll <= time /\ startOfPeriod = Period(lastRoll)
  /\ late <= count
  /\ late > 0 => Period(time) # startOfPeriod

LogInv == FTypeOK /\ NamesIncrease /\ LateAreCounted

LEMMA InitLog == FInit => LogInv
<1> SUFFICES ASSUME FInit PROVE LogInv OBVIOUS
<1>1. time \in Nat /\ lastRoll = time /\ late = 0 /\ count = 0
  BY DEF FInit
<1>2. opened = <<time>> /\ startOfPeriod = Period(time)
  BY DEF FInit
<1>3. opened \in Seq(Nat) /\ Len(opened) = 1 /\ opened[1] = time BY <1>1, <1>2
<1>4. FTypeOK BY <1>1, <1>3, LogFileAssumption DEF FTypeOK
<1>5. NamesIncrease BY <1>1, <1>3 DEF NamesIncrease
<1>6. LateAreCounted BY <1>1, <1>2 DEF LateAreCounted
<1> QED BY <1>4, <1>5, <1>6 DEF LogInv

(* A new file: its name is later than all names, and nothing in it is late.*)
LEMMA RollKeepsLog ==
  ASSUME LogInv, NEW at \in Nat, at > lastRoll, time' = at,
         lastRoll' = at, startOfPeriod' = Period(at), opened' = Append(opened, at),
         late' = 0, count' \in Nat, count' < CheckEveryN
  PROVE  LogInv'
<1>1. opened \in Seq(Nat) /\ lastRoll \in Nat BY DEF LogInv, FTypeOK
<1>2. opened' \in Seq(Nat) /\ Len(opened') = Len(opened) + 1 BY <1>1
<1>3. \A i \in 1 .. Len(opened) : opened'[i] = opened[i] /\ opened[i] \in Nat BY <1>1
<1>4. opened'[Len(opened')] = at BY <1>1, <1>2
<1>5. \A i \in 1 .. Len(opened') : i \in 1 .. Len(opened) \/ i = Len(opened')
  BY <1>1, <1>2
<1>6. \A i \in 1 .. Len(opened) : opened[i] <= lastRoll
  BY DEF LogInv, NamesIncrease
<1>7. \A i, j \in 1 .. Len(opened) : i < j => opened[i] < opened[j]
  BY DEF LogInv, NamesIncrease
<1>8. FTypeOK' BY <1>2 DEF FTypeOK
<1>9. NamesIncrease'
  <2>1. \A i \in 1 .. Len(opened') : opened'[i] <= at BY <1>1, <1>3, <1>4, <1>5, <1>6
  <2>2. ASSUME NEW i \in 1 .. Len(opened'), NEW j \in 1 .. Len(opened'), i < j
        PROVE  opened'[i] < opened'[j]
    <3>1. i \in 1 .. Len(opened) BY <1>1, <1>2, <2>2
    <3>2. CASE j = Len(opened') BY <1>1, <1>3, <1>4, <1>6, <3>1, <3>2
    <3>3. CASE j \in 1 .. Len(opened) BY <1>3, <1>7, <2>2, <3>1, <3>3
    <3> QED BY <1>5, <3>2, <3>3
  <2> QED BY <2>1, <2>2 DEF NamesIncrease
<1>10. LateAreCounted' BY DEF LateAreCounted
<1> QED BY <1>8, <1>9, <1>10 DEF LogInv

(* An append to the file that is open.                                     *)
LEMMA AppendKeepsLog ==
  ASSUME LogInv, NEW now \in Nat, NEW at \in Nat, time <= now, now <= at, time' = at,
         UNCHANGED <<opened, startOfPeriod, lastRoll>>,
         late' = IF Period(now) = startOfPeriod THEN late ELSE late + 1,
         count' \in Nat, count' < CheckEveryN,
         \/ count' = count + 1
         \/ Period(now) = startOfPeriod
  PROVE  LogInv'
<1>1. time \in Nat /\ lastRoll \in Nat /\ late \in Nat /\ count \in Nat
  BY DEF LogInv, FTypeOK
<1>2. lastRoll <= time /\ startOfPeriod = Period(lastRoll) /\ late <= count
  BY DEF LogInv, LateAreCounted
<1>3. /\ Period(lastRoll) <= Period(time) /\ Period(time) <= Period(now)
      /\ Period(now) <= Period(at)
  BY <1>1, <1>2, PeriodMonotone
<1>4. /\ Period(lastRoll) \in Int /\ Period(time) \in Int /\ Period(now) \in Int
      /\ Period(at) \in Int
  BY <1>1, PeriodType
<1>5. late > 0 => Period(time) # startOfPeriod BY DEF LogInv, LateAreCounted
<1>6. Period(now) = startOfPeriod => late = 0 BY <1>1, <1>2, <1>3, <1>4, <1>5
<1>7. late' > 0 => Period(at) # startOfPeriod BY <1>1, <1>2, <1>3, <1>4, <1>6
<1>8. late' \in Nat /\ late' <= count' BY <1>1, <1>2, <1>6
<1>9. FTypeOK' BY <1>8 DEF FTypeOK, LogInv
<1>10. NamesIncrease' BY DEF NamesIncrease, LogInv
<1>11. LateAreCounted' BY <1>1, <1>2, <1>7, <1>8 DEF LateAreCounted
<1> QED BY <1>9, <1>10, <1>11 DEF LogInv

LEMMA AppendUnlockedKeepsLog ==
  ASSUME LogInv, NEW n \in Nat, AppendUnlocked(n) PROVE LogInv'
<1>1. PICK now \in time .. MaxTime : \E at \in now .. MaxTime :
        /\ time' = at
        /\ IF size + n > RollSize
             THEN RollFile(n, now, at) /\ UNCHANGED count
           ELSE IF count + 1 < CheckEveryN
             THEN /\ Appended(n, now) /\ count' = count + 1
                  /\ UNCHANGED <<opened, startOfPeriod, lastRoll, lastFlush>>
           ELSE CheckPeriod(n, now, at) /\ count' = 0
  BY DEF AppendUnlocked
<1>2. PICK at \in now .. MaxTime :
        /\ time' = at
        /\ IF size + n > RollSize
             THEN RollFile(n, now, at) /\ UNCHANGED count
           ELSE IF count + 1 < CheckEveryN
             THEN /\ Appended(n, now) /\ count' = count + 1
                  /\ UNCHANGED <<opened, startOfPeriod, lastRoll, lastFlush>>
           ELSE CheckPeriod(n, now, at) /\ count' = 0
  BY <1>1
<1>3. time \in Nat /\ lastRoll \in Nat /\ count \in Nat /\ count < CheckEveryN
  BY DEF LogInv, FTypeOK
<1>4. lastRoll <= time /\ startOfPeriod = Period(lastRoll)
  BY DEF LogInv, LateAreCounted
<1>5. /\ now \in Nat /\ at \in Nat /\ time <= now /\ now <= at
      /\ 0 \in Nat /\ 0 < CheckEveryN
  BY <1>3, LogFileAssumption
<1>6. ASSUME RollFile(n, now, at), count' \in {0, count} PROVE LogInv'
  <2>1. count' \in Nat /\ count' < CheckEveryN BY <1>3, <1>5, <1>6
  <2>2. CASE at > lastRoll
    BY <1>2, <1>5, <1>6, <2>1, <2>2, RollKeepsLog DEF RollFile
  <2>3. CASE ~(at > lastRoll)
    <3>1. now = lastRoll BY <1>3, <1>4, <1>5, <2>3
    <3>2. Period(now) = startOfPeriod BY <1>4, <3>1
    <3> QED BY <1>2, <1>5, <1>6, <2>1, <2>3, <3>2, AppendKeepsLog DEF RollFile, Appended
  <2> QED BY <2>2, <2>3
<1>7. CASE size + n > RollSize BY <1>2, <1>6, <1>7
<1>8. CASE ~(size + n > RollSize) /\ count + 1 < CheckEveryN
  <2>1. count' = count + 1 /\ count' \in Nat /\ count' < CheckEveryN BY <1>2, <1>3, <1>8
  <2> QED BY <1>2, <1>5, <1>8, <2>1, AppendKeepsLog DEF Appended
<1>9. CASE ~(size + n > RollSize) /\ ~(count + 1 < CheckEveryN)
  <2>1. CheckPeriod(n, now, at) /\ count' = 0 BY <1>2, <1>9
  <2>2. CASE Period(now) # startOfPeriod BY <1>6, <2>1, <2>2 DEF CheckPeriod
  <2>3. CASE Period(now) = startOfPeriod
    BY <1>2, <1>5, <2>1, <2>3, AppendKeepsLog DEF CheckPeriod, Appended
  <2> QED BY <2>2, <2>3
<1> QED BY <1>7, <1>8, <1>9

LEMMA StepKeepsLog == LogInv /\ [\E n \in Nat : AppendUnlocked(n)]_fvars => LogInv'
<1> SUFFICES ASSUME LogInv, [\E n \in Nat : AppendUnlocked(n)]_fvars PROVE LogInv'
  OBVIOUS
<1>1. CASE \E n \in Nat : AppendUnlocked(n) BY <1>1, AppendUnlockedKeepsLog
<1>2. CASE UNCHANGED fvars
  BY <1>2 DEF fvars, LogInv, FTypeOK, NamesIncrease, LateAreCounted, Period
<1> QED BY <1>1, <1>2

LEMMA LogInvAlways == FSpec => []LogInv
BY InitLog, StepKeepsLog, PTL DEF FSpec

-----------------------------------------------------------------------------
LEMMA NamesDiffer == LogInv => OneFilePerName
<1> SUFFICES ASSUME LogInv, NEW i \in DOMAIN opened, NEW j \in DOMAIN opened,
                    opened[i] = opened[j]
             PROVE  i = j
  BY DEF OneFilePerName
<1>1. opened \in Seq(Nat) BY DEF LogInv, FTypeOK
<1>2. i \in 1 .. Len(opened) /\ j \in 1 .. Len(opened) BY <1>1
<1>3. opened[i] \in Nat /\ opened[j] \in Nat BY <1>1, <1>2
<1>4. i < j => opened[i] < opened[j] BY <1>2 DEF LogInv, NamesIncrease
<1>5. j < i => opened[j] < opened[i] BY <1>2 DEF LogInv, NamesIncrease
<1> QED BY <1>2, <1>3, <1>4, <1>5

LEMMA LateAreFew == LogInv => OneDayPerFile
BY LogFileAssumption DEF LogInv, FTypeOK, LateAreCounted, OneDayPerFile

(* rollFile never opens a file twice (LogFile.cpp:128-143).                *)
THEOREM NamesAreNew == FSpec => []OneFilePerName
BY NamesDiffer, LogInvAlways, PTL

(* The count of appends, which rolling by size leaves as it is, is enough  *)
(* to notice a new day in time (LogFile.cpp:99-126).                       *)
THEOREM DaysAreNoticed == FSpec => []OneDayPerFile
BY LateAreFew, LogInvAlways, PTL

-----------------------------------------------------------------------------
(* LogOutput: a step of the composition is a step of AsyncLog and an       *)
(* append to LogFile, or leaves one of them alone.                         *)
LEMMA OutNextIsBoth ==
  ASSUME TypeOK, [OutNext]_ovars
  PROVE  [Next]_vars /\ [\E n \in Nat : AppendUnlocked(n)]_fvars
<1>1. CASE FlushLimitToFile
  <2>1. Next
    BY <1>1 DEF FlushLimitToFile, Next, LoggerStep
  <2>2. AppendUnlocked(1) \/ UNCHANGED fvars
    BY <1>1 DEF FlushLimitToFile
  <2> QED BY <2>1, <2>2
<1>2. CASE WriteBufferToFile
  <2>1. Next
    BY <1>2 DEF WriteBufferToFile, Next, LoggerStep
  <2>2. AppendUnlocked(Len(buffersToWrite[written + 1]))
    BY <1>2 DEF WriteBufferToFile
  <2>3. Len(buffersToWrite[written + 1]) \in Nat
    <3>1. buffersToWrite \in Seq(Seq(Nat)) /\ written + 1 \in DOMAIN buffersToWrite
      BY <1>2, BuffersAre DEF WriteBufferToFile, WriteBuffer, Buffers, TypeOK
    <3>2. buffersToWrite[written + 1] \in Seq(Nat)
      BY <3>1
    <3> QED BY <3>2, LenProperties
  <2> QED BY <2>1, <2>2, <2>3
<1>3. CASE (CheckRunning \/ WaitEnds \/ FlushSwap \/ FlushRecycle) /\ UNCHANGED fvars
  BY <1>3 DEF Next, LoggerStep
<1>4. CASE (AppendToCurrent \/ AppendToFresh \/ Stop) /\ UNCHANGED fvars
  BY <1>4 DEF Next
<1>5. CASE UNCHANGED ovars
  BY <1>5 DEF ovars
<1> QED BY <1>1, <1>2, <1>3, <1>4, <1>5 DEF OutNext, OutLoggerStep

LEMMA OutInvAlways == OutSpec => [](Inv /\ Flowing /\ LogInv)
<1>1. OutInit => Inv /\ Flowing /\ LogInv
  BY InitInv, InitFlowing, InitLog DEF OutInit
<1>2. Inv /\ Flowing /\ LogInv /\ [OutNext]_ovars => (Inv /\ Flowing /\ LogInv)'
  <2> SUFFICES ASSUME Inv, Flowing, LogInv, [OutNext]_ovars
               PROVE  Inv' /\ Flowing' /\ LogInv'
    OBVIOUS
  <2>1. [Next]_vars /\ [\E n \in Nat : AppendUnlocked(n)]_fvars
    BY OutNextIsBoth DEF Inv
  <2>2. Inv'
    BY <2>1, NextType, NextSpares, NextEmpty DEF Inv
  <2> QED BY <2>1, <2>2, NextFlowing, StepKeepsLog
<1> QED BY <1>1, <1>2, PTL DEF OutSpec

(* The composition is AsyncLog, seen without the files, and LogFile, seen  *)
(* without the buffers: writing to a file neither delays nor disturbs the  *)
(* exchange of buffers, and the file only ever sees appends.               *)
THEOREM OutImplementsBoth == OutSpec => Init /\ [][Next]_vars /\ FSpec
<1>1. OutInit => Init /\ FInit
  BY DEF OutInit
<1>2. Inv => TypeOK
  BY DEF Inv
<1>3. TypeOK /\ [OutNext]_ovars
        => [Next]_vars /\ [\E n \in Nat : AppendUnlocked(n)]_fvars
  BY OutNextIsBoth
<1> QED BY OutInvAlways, <1>1, <1>2, <1>3, PTL DEF OutSpec, FSpec

(* Everything shown of AsyncLog and of LogFile holds of the logger that    *)
(* writes to its files: nothing that was appended is lost, doubled or      *)
(* reordered on the way to them, the spare buffers return, no file is      *)
(* opened twice, a new day is noticed in time and only excess is dropped.  *)
THEOREM LogReachesItsFiles ==
  OutSpec => /\ [](NothingLost /\ SparesReturn /\ OneFilePerName /\ OneDayPerFile)
             /\ DropsOnlyExcess
<1>1. Inv /\ Flowing => NothingLost /\ SparesReturn
  BY DEF Inv, Flowing
<1>2. LogInv => OneFilePerName /\ OneDayPerFile
  BY NamesDiffer, LateAreFew
<1>3. Inv => TypeOK
  BY DEF Inv
<1> QED
  BY OutInvAlways, OutImplementsBoth, DropsOnlyExcessStep, <1>1, <1>2, <1>3, PTL
  DEF DropsOnlyExcess

=============================================================================
