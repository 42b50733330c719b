--------------------------- MODULE SerialExecutor ---------------------------
(***************************************************************************)
(* What runInLoop promises of an event loop: tasks queued by other threads *)
(* run one after the other, in the order in which they were queued and     *)
(* each once; a task submitted by the loop's own thread runs at once.      *)
(***************************************************************************)
EXTENDS Naturals, Sequences

CONSTANTS Threads, LoopThread

VARIABLES
  queue,   \* the tasks that have been queued and have not run
  done     \* the tasks that have run, in order

Init == queue = <<>> /\ done = <<>>

Enqueue ==
  /\ Len(queue') > 0
  /\ queue' = Append(queue, queue'[Len(queue')])
  /\ queue'[Len(queue')].by \in Threads
  /\ UNCHANGED done

RunFirst ==
  /\ queue # <<>>
  /\ done' = Append(done, Head(queue))
  /\ queue' = Tail(queue)

RunAtOnce ==
  /\ Len(done') > 0
  /\ done' = Append(done, done'[Len(done')])
  /\ done'[Len(done')].by = LoopThread
  /\ UNCHANGED queue

Next == Enqueue \/ RunFirst \/ RunAtOnce

Spec == Init /\ [][Next]_<<queue, done>>

=============================================================================
