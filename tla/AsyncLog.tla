------------------------------ MODULE AsyncLog ------------------------------
(***************************************************************************)
(* The asynchronous log: FileAsyncLogAppender's buffers, filled by any     *)
(* thread and written to the file by AsyncLogger's own thread              *)
(* (log/LogAppender.cpp, log/Logger.cpp).                                  *)
(*                                                                         *)
(* A message is the number of its append: the appender's spin lock orders  *)
(* them.  A buffer is the sequence of messages in it; a unique_ptr that    *)
(* has been moved from is None.  A buffer has room for Room messages.      *)
(*                                                                         *)
(* The thread waits for flushInterval_ or a notification; both end the     *)
(* wait at a moment nothing else depends on, so the wait may simply end.   *)
(***************************************************************************)
EXTENDS Naturals, Sequences, SequencesExt

CONSTANTS
  Room,         \* messages a buffer takes
  MaxBuffers,   \* kbuffersMaxSize
  MaxMessages,  \* bound on the messages appended
  None

ASSUME AsyncLogAssumption ==
  /\ Room \in Nat \ {0}
  /\ MaxBuffers \in Nat /\ MaxBuffers >= 2
  /\ MaxMessages \in Nat
  /\ None \notin Seq(Nat)

VARIABLES
  appended,        \* number of messages appended so far
  currentBuffer,   \* currentBuffer_
  nextBuffer,      \* nextBuffer_
  buffers,         \* buffers_
  newBuffer1,      \* newBuffer1
  newBuffer2,      \* newBuffer2
  buffersToWrite,  \* buffersToWrite
  written,         \* how many of them the file has got
  file,            \* the messages the file has got
  dropped,         \* the messages dropped by flush (history)
  running,         \* running_
  lpc              \* where the logging thread is

vars == <<appended, currentBuffer, nextBuffer, buffers, newBuffer1, newBuffer2,
          buffersToWrite, written, file, dropped, running, lpc>>
front == <<currentBuffer, nextBuffer, buffers>>
back == <<newBuffer1, newBuffer2, buffersToWrite, written>>
output == <<file, dropped>>

Init ==
  /\ appended = 0
  /\ currentBuffer = <<>> /\ nextBuffer = <<>>
  /\ buffers = <<>>
  /\ newBuffer1 = <<>> /\ newBuffer2 = <<>>
  /\ buffersToWrite = <<>> /\ written = 0
  /\ file = <<>> /\ dropped = {}
  /\ running = TRUE
  /\ lpc = "loop"

-----------------------------------------------------------------------------
(* append, by any thread, under the spin lock.                             *)
Message == appended + 1

AppendToCurrent ==
  /\ appended < MaxMessages
  /\ Len(currentBuffer) < Room
  /\ currentBuffer' = Append(currentBuffer, Message)
  /\ appended' = Message
  /\ UNCHANGED <<nextBuffer, buffers, back, output, running, lpc>>

(* The full buffer goes to buffers_; nextBuffer_ or a new buffer replaces  *)
(* it.                                                                     *)
AppendToFresh ==
  /\ appended < MaxMessages
  /\ Len(currentBuffer) >= Room
  /\ buffers' = Append(buffers, currentBuffer)
  /\ currentBuffer' =
       Append(IF nextBuffer # None THEN nextBuffer ELSE <<>>, Message)
  /\ nextBuffer' = None
  /\ appended' = Message
  /\ UNCHANGED <<back, output, running, lpc>>

(* ~AsyncLogger clears running_.                                           *)
Stop ==
  /\ running
  /\ running' = FALSE
  /\ UNCHANGED <<appended, front, back, output, lpc>>

-----------------------------------------------------------------------------
(* task: the loop of the logging thread.                                   *)
CheckRunning ==
  /\ lpc = "loop"
  /\ lpc' = IF running THEN "wait" ELSE "exited"
  /\ UNCHANGED <<appended, front, back, output, running>>

\* Mutant: one full buffer is not worth a flush.
WaitEndsForTwo ==
  /\ lpc = "wait"
  /\ lpc' = IF Len(buffers) < 2 THEN "loop" ELSE "flush"
  /\ UNCHANGED <<appended, front, back, output, running>>

(* waitForSeconds returns and empty() looks at buffers_ under the lock.    *)
WaitEnds ==
  /\ lpc = "wait"
  /\ lpc' = IF buffers = <<>> THEN "loop" ELSE "flush"
  /\ UNCHANGED <<appended, front, back, output, running>>

\* Mutant: the current buffer goes in front of the older ones.
FlushSwapCurrentFirst ==
  /\ lpc = "flush"
  /\ buffersToWrite' = <<currentBuffer>> \o buffers
  /\ buffers' = buffersToWrite
  /\ currentBuffer' = newBuffer1
  /\ newBuffer1' = None
  /\ IF nextBuffer = None
       THEN nextBuffer' = newBuffer2 /\ newBuffer2' = None
       ELSE UNCHANGED <<nextBuffer, newBuffer2>>
  /\ lpc' = "limit"
  /\ UNCHANGED <<appended, written, output, running>>

(* The critical section of flush: every filled buffer and the current one  *)
(* are taken, the two spare buffers go to the front.                       *)
FlushSwap ==
  /\ lpc = "flush"
  /\ buffersToWrite' = Append(buffers, currentBuffer)
  /\ buffers' = buffersToWrite
  /\ currentBuffer' = newBuffer1
  /\ newBuffer1' = None
  /\ IF nextBuffer = None
       THEN nextBuffer' = newBuffer2 /\ newBuffer2' = None
       ELSE UNCHANGED <<nextBuffer, newBuffer2>>
  /\ lpc' = "limit"
  /\ UNCHANGED <<appended, written, output, running>>

\* Mutant: the newest buffers are kept.
FlushLimitKeepsNewest ==
  /\ lpc = "limit"
  /\ IF Len(buffersToWrite) <= MaxBuffers
       THEN UNCHANGED <<buffersToWrite, dropped>>
       ELSE LET extra == Len(buffersToWrite) - MaxBuffers IN
            /\ buffersToWrite' =
                 SubSeq(buffersToWrite, extra + 1, Len(buffersToWrite))
            /\ dropped' = dropped \cup UNION {ToSet(buffersToWrite[k]) :
                                               k \in 1 .. extra}
  /\ lpc' = "write"
  /\ UNCHANGED <<appended, front, newBuffer1, newBuffer2, written, file, running>>

(* Too many buffers: the later ones are dropped.                           *)
FlushLimit ==
  /\ lpc = "limit"
  /\ buffersToWrite' = IF Len(buffersToWrite) <= MaxBuffers
                         THEN buffersToWrite
                         ELSE SubSeq(buffersToWrite, 1, MaxBuffers)
  /\ dropped' =
       dropped \cup UNION {ToSet(buffersToWrite[k]) :
                             k \in (MaxBuffers + 1) .. Len(buffersToWrite)}
  /\ lpc' = "write"
  /\ UNCHANGED <<appended, front, newBuffer1, newBuffer2, written, file, running>>

WriteBuffer ==
  /\ lpc = "write"
  /\ written < Len(buffersToWrite)
  /\ file' = file \o buffersToWrite[written + 1]
  /\ written' = written + 1
  /\ UNCHANGED <<appended, front, newBuffer1, newBuffer2, buffersToWrite,
                 dropped, running, lpc>>

\* Mutant: newBuffer2 is forgotten.
FlushRecycleFirst ==
  /\ lpc = "write"
  /\ written = Len(buffersToWrite)
  /\ newBuffer1' = IF newBuffer1 = None THEN <<>> ELSE newBuffer1
  /\ buffersToWrite' = <<>>
  /\ written' = 0
  /\ lpc' = "loop"
  /\ UNCHANGED <<appended, front, newBuffer2, output, running>>

(* The first two buffers, reset, become the spare ones that are missing,   *)
(* the later one first; the others are freed.                              *)
FlushRecycle ==
  /\ lpc = "write"
  /\ written = Len(buffersToWrite)
  /\ newBuffer1' = IF newBuffer1 = None THEN <<>> ELSE newBuffer1
  /\ newBuffer2' = IF newBuffer2 = None THEN <<>> ELSE newBuffer2
  /\ buffersToWrite' = <<>>
  /\ written' = 0
  /\ lpc' = "loop"
  /\ UNCHANGED <<appended, front, output, running>>

LoggerStep ==
  CheckRunning \/ WaitEnds \/ FlushSwap \/ FlushLimit \/ WriteBuffer
  \/ FlushRecycle

Next == AppendToCurrent \/ AppendToFresh \/ Stop \/ LoggerStep

(* The wait is timed, so the logging thread always moves on.               *)
Spec == Init /\ [][Next]_vars /\ WF_vars(LoggerStep)

-----------------------------------------------------------------------------
Buffer == Seq(1 .. MaxMessages)

TypeOK ==
  /\ appended \in 0 .. MaxMessages
  /\ currentBuffer \in Buffer
  /\ nextBuffer \in Buffer \cup {None}
  /\ buffers \in Seq(Buffer)
  /\ newBuffer1 \in Buffer \cup {None}
  /\ newBuffer2 \in Buffer \cup {None}
  /\ buffersToWrite \in Seq(Buffer)
  /\ written \in Nat
  /\ file \in Buffer
  /\ dropped \subseteq 1 .. MaxMessages
  /\ running \in BOOLEAN
  /\ lpc \in {"loop", "wait", "flush", "limit", "write", "exited"}

Spares == (IF newBuffer1 = None THEN 0 ELSE 1)
          + (IF newBuffer2 = None THEN 0 ELSE 1)

(* The buffers circulate: flush finds both of its spare buffers and        *)
(* nothing left to write, and when it looks for buffers to recycle there   *)
(* are as many as it lacks (the asserts of LogAppender.cpp:134-136, 150,   *)
(* 180, 188).  That a batch holds two buffers when both are missing        *)
(* depends on what append did to nextBuffer_ since the last flush.         *)
SparesReturn ==
  /\ lpc \in {"loop", "wait", "flush", "exited"} =>
       newBuffer1 = <<>> /\ newBuffer2 = <<>> /\ buffersToWrite = <<>>
  /\ lpc \in {"limit", "write"} => Spares + Len(buffersToWrite) >= 2
  /\ nextBuffer \in {<<>>, None}
  /\ nextBuffer = None => buffers # <<>>

Messages(bs) == UNION {ToSet(bs[k]) : k \in DOMAIN bs}

(* The messages of these buffers, read one after the other, increase.      *)
InOrder(bs) ==
  \A i, j \in DOMAIN bs : \A a \in DOMAIN bs[i], b \in DOMAIN bs[j] :
    i < j \/ (i = j /\ a < b) => bs[i][a] < bs[j][b]

NotYetWritten ==
  IF lpc = "write" THEN SubSeq(buffersToWrite, written + 1, Len(buffersToWrite))
                   ELSE buffersToWrite

(* What the file has, what waits to be written and what is still in the    *)
(* buffers is, in this order, everything that was appended and not dropped:*)
(* no message is lost, doubled or overtaken while the buffers change hands.*)
Stages == (<<file>> \o NotYetWritten) \o (buffers \o <<currentBuffer>>)
NothingLost == InOrder(Stages) /\ Messages(Stages) = (1 .. appended) \ dropped

(* A flush drops only what exceeds MaxBuffers full buffers, never the      *)
(* oldest messages of its batch.                                           *)
DropsOnlyExcess ==
  [][\A m \in dropped' \ dropped :
       \E k \in DOMAIN buffersToWrite :
         k > MaxBuffers /\ m \in ToSet(buffersToWrite[k])]_vars

(* A message in a full buffer reaches the file, or is dropped, unless the  *)
(* logger is stopped.                                                      *)
FullBuffersAreWritten ==
  \A m \in 1 .. MaxMessages :
    (\E k \in DOMAIN buffers : m \in ToSet(buffers[k]))
      ~> (m \in ToSet(file) \/ m \in dropped \/ ~running)

=============================================================================
