----------------------------- MODULE EventLoop -----------------------------
(***************************************************************************)
(* One event loop and the thread that runs it (net/EventLoop.cpp,          *)
(* net/EventLoopThread.cpp): tasks handed over by other threads, the       *)
(* eventfd that wakes the loop, and the start and the end of the thread.   *)
(*                                                                         *)
(* A critical section under mutex_ is one step: it holds the spin lock for *)
(* one operation on pendingTasks_.  Everything else that another thread    *)
(* can observe is a step of its own.  Other channels of the loop (the      *)
(* timerfd, sockets) appear as epoll_wait returning without the eventfd.   *)
(***************************************************************************)
EXTENDS Integers, Sequences

CONSTANTS
  Threads,   \* the threads that call runInLoop from outside the loop
  Owner,     \* the thread that constructs and destroys the EventLoopThread
  LoopThread,\* the loop's own thread
  MaxTasks   \* how many tasks each of them submits

ASSUME EventLoopAssumption ==
  /\ Owner \in Threads
  /\ LoopThread \notin Threads
  /\ MaxTasks \in Nat

VARIABLES
  lpc,        \* where the loop's thread is
  pending,    \* pendingTasks_
  running,    \* the tasks doPendingTasks took and has not finished
  calling,    \* callingPendingTasks_
  quit,       \* quit_
  loopOk,     \* EventLoopThread::loop_ok_
  registered, \* the eventfd has been added to epoll
  counter,    \* the eventfd's counter
  edge,       \* the eventfd is on epoll's ready list (EPOLLET)
  tpc,        \* where each outside thread is
  submitted,  \* how many tasks each thread has submitted
  executed    \* the tasks that have run, in order

vars == <<lpc, pending, running, calling, quit, loopOk, registered, counter,
          edge, tpc, submitted, executed>>

loopVars == <<lpc, running, calling, loopOk, registered>>
eventfd == <<counter, edge>>

Task == [by : Threads \cup {LoopThread}, n : 1 .. MaxTasks]

Init ==
  /\ lpc = "boot"
  /\ pending = <<>> /\ running = <<>>
  /\ calling = FALSE /\ quit = FALSE
  /\ loopOk = FALSE /\ registered = FALSE
  /\ counter = 0 /\ edge = FALSE
  /\ tpc = [t \in Threads |-> "outside"]
  /\ submitted = [t \in Threads \cup {LoopThread} |-> 0]
  /\ executed = <<>>

NextTask(t) == [by |-> t, n |-> submitted[t] + 1]

-----------------------------------------------------------------------------
(* EventLoopThread::work: the loop exists, and the constructor, which      *)
(* spins on loop_ok_, may return.                                          *)
Boot ==
  /\ lpc = "boot"
  /\ loopOk' = TRUE
  /\ lpc' = "start"
  /\ UNCHANGED <<pending, running, calling, quit, registered, eventfd, tpc,
                 submitted, executed>>

(* The beginning of loop: the eventfd joins epoll, and is on the ready     *)
(* list at once if it has been written before.                             *)
StartLoop ==
  /\ lpc = "start"
  /\ registered' = TRUE
  /\ edge' = (counter > 0)
  /\ lpc' = "check"
  /\ UNCHANGED <<pending, running, calling, quit, loopOk, counter, tpc,
                 submitted, executed>>

CheckQuit ==
  /\ lpc = "check"
  /\ lpc' = IF quit THEN "exited" ELSE "wait"
  /\ UNCHANGED <<pending, running, calling, quit, loopOk, registered, eventfd,
                 tpc, submitted, executed>>

(* epoll_wait reports the eventfd once for an edge, if it is readable.     *)
WaitReturnsWakeup ==
  /\ lpc = "wait"
  /\ edge /\ counter > 0
  /\ edge' = FALSE
  /\ lpc' = "wakeup"
  /\ UNCHANGED <<pending, running, calling, quit, loopOk, registered, counter,
                 tpc, submitted, executed>>

(* epoll_wait returns for another channel, or is interrupted (EINTR).      *)
WaitReturnsOther ==
  /\ lpc = "wait"
  /\ lpc' = "dispatch"
  /\ UNCHANGED <<pending, running, calling, quit, loopOk, registered, eventfd,
                 tpc, submitted, executed>>

HandleWakeup ==
  /\ lpc = "wakeup"
  /\ counter' = 0
  /\ lpc' = "dispatch"
  /\ UNCHANGED <<pending, running, calling, quit, loopOk, registered, edge,
                 tpc, submitted, executed>>

(* doPendingTasks: callingPendingTasks_, and the swap under the lock.      *)
SwapPendingTasks ==
  /\ lpc = "dispatch"
  /\ calling' = TRUE
  /\ running' = pending
  /\ pending' = <<>>
  /\ lpc' = "tasks"
  /\ UNCHANGED <<quit, loopOk, registered, eventfd, tpc, submitted, executed>>

\* Mutant: tasks are taken from the back.
RunTaskLast ==
  /\ lpc = "tasks"
  /\ running # <<>>
  /\ executed' = Append(executed, running[Len(running)])
  /\ running' = SubSeq(running, 1, Len(running) - 1)
  /\ UNCHANGED <<lpc, pending, calling, quit, loopOk, registered, eventfd, tpc,
                 submitted>>

RunTask ==
  /\ lpc = "tasks"
  /\ running # <<>>
  /\ executed' = Append(executed, Head(running))
  /\ running' = Tail(running)
  /\ UNCHANGED <<lpc, pending, calling, quit, loopOk, registered, eventfd, tpc,
                 submitted>>

\* Mutant: the eventfd is read after the tasks.
TasksDoneDrains ==
  /\ lpc = "tasks"
  /\ running = <<>>
  /\ calling' = FALSE
  /\ lpc' = "check"
  /\ counter' = 0 /\ edge' = FALSE
  /\ UNCHANGED <<pending, running, quit, loopOk, registered, tpc, submitted,
                 executed>>

TasksDone ==
  /\ lpc = "tasks"
  /\ running = <<>>
  /\ calling' = FALSE
  /\ lpc' = "check"
  /\ UNCHANGED <<pending, running, quit, loopOk, registered, eventfd, tpc,
                 submitted, executed>>

(* runInLoop called by a handler or a task, in the loop's own thread: the  *)
(* task runs at once.                                                      *)
RunInline ==
  /\ lpc \in {"dispatch", "tasks"}
  /\ submitted[LoopThread] < MaxTasks
  /\ executed' = Append(executed, NextTask(LoopThread))
  /\ submitted' = [submitted EXCEPT ![LoopThread] = @ + 1]
  /\ UNCHANGED <<loopVars, pending, quit, eventfd, tpc>>

(* quit called by a handler or a task: the flag only, no wakeup.           *)
QuitInLoop ==
  /\ lpc \in {"dispatch", "tasks"}
  /\ ~quit
  /\ quit' = TRUE
  /\ UNCHANGED <<loopVars, pending, eventfd, tpc, submitted, executed>>

-----------------------------------------------------------------------------
(* Calls from another thread.  The loop is handed out by the constructor   *)
(* of EventLoopThread, so only after loop_ok_.                             *)

\* Mutant: no wakeup.
QueueInLoopSilently(t) ==
  /\ loopOk
  /\ tpc[t] = "outside"
  /\ submitted[t] < MaxTasks
  /\ pending' = Append(pending, NextTask(t))
  /\ submitted' = [submitted EXCEPT ![t] = @ + 1]
  /\ UNCHANGED <<loopVars, quit, eventfd, tpc, executed>>

(* queueInLoop up to the release of the lock.                              *)
QueueInLoop(t) ==
  /\ loopOk
  /\ tpc[t] = "outside"
  /\ submitted[t] < MaxTasks
  /\ pending' = Append(pending, NextTask(t))
  /\ submitted' = [submitted EXCEPT ![t] = @ + 1]
  /\ tpc' = [tpc EXCEPT ![t] = "queued"]
  /\ UNCHANGED <<loopVars, quit, eventfd, executed>>

(* wakeup: the write to the eventfd.  The condition of queueInLoop,        *)
(* !isInLoopThread() || callingPendingTasks_, holds in another thread.     *)
Wakeup(t) ==
  /\ tpc[t] \in {"queued", "quitting"}
  /\ counter' = counter + 1
  /\ edge' = (edge \/ registered)
  /\ tpc' = [tpc EXCEPT ![t] = IF tpc[t] = "queued" THEN "outside" ELSE "joining"]
  /\ UNCHANGED <<loopVars, pending, quit, submitted, executed>>

\* Mutant: quit without wakeup.
QuitSilently(t) ==
  /\ t = Owner
  /\ loopOk
  /\ tpc[t] = "outside"
  /\ quit' = TRUE
  /\ tpc' = [tpc EXCEPT ![t] = "joining"]
  /\ UNCHANGED <<loopVars, pending, eventfd, submitted, executed>>

(* ~EventLoopThread: quit, then join.                                      *)
Quit(t) ==
  /\ t = Owner
  /\ loopOk
  /\ tpc[t] = "outside"
  /\ quit' = TRUE
  /\ tpc' = [tpc EXCEPT ![t] = "quitting"]
  /\ UNCHANGED <<loopVars, pending, eventfd, submitted, executed>>

Join(t) ==
  /\ tpc[t] = "joining"
  /\ lpc = "exited"
  /\ tpc' = [tpc EXCEPT ![t] = "joined"]
  /\ UNCHANGED <<loopVars, pending, quit, eventfd, submitted, executed>>

-----------------------------------------------------------------------------
LoopStep ==
  \/ Boot \/ StartLoop \/ CheckQuit
  \/ WaitReturnsWakeup \/ HandleWakeup
  \/ SwapPendingTasks \/ RunTask \/ TasksDone

Next ==
  \/ LoopStep
  \/ WaitReturnsOther \/ RunInline \/ QuitInLoop
  \/ \E t \in Threads : QueueInLoop(t) \/ Wakeup(t) \/ Quit(t) \/ Join(t)

(* The scheduler runs every thread that can run.  Nothing is assumed of    *)
(* other channels: the loop must not depend on them to see a task.         *)
Fairness ==
  /\ WF_vars(LoopStep)
  /\ \A t \in Threads : WF_vars(Wakeup(t)) /\ WF_vars(Join(t))

Spec == Init /\ [][Next]_vars /\ Fairness

-----------------------------------------------------------------------------
TypeOK ==
  /\ lpc \in {"boot", "start", "check", "wait", "wakeup", "dispatch", "tasks",
              "exited"}
  /\ pending \in Seq(Task) /\ running \in Seq(Task) /\ executed \in Seq(Task)
  /\ calling \in BOOLEAN /\ quit \in BOOLEAN
  /\ loopOk \in BOOLEAN /\ registered \in BOOLEAN
  /\ counter \in Nat /\ edge \in BOOLEAN
  /\ tpc \in [Threads -> {"outside", "queued", "quitting", "joining", "joined"}]
  /\ submitted \in [Threads \cup {LoopThread} -> 0 .. MaxTasks]

(* The eventfd will make epoll_wait return.                                *)
Ready == edge /\ counter > 0

(* A thread is about to write to the eventfd.                              *)
WakeupComing == \E t \in Threads : tpc[t] \in {"queued", "quitting"}

(* What the loop relies on before it sleeps: from the swap on, a task that *)
(* is queued has an edge of the eventfd, or one coming; before loop has    *)
(* registered the eventfd, its counter.  Only doPendingTasks holds tasks.  *)
WakeupOwed ==
  /\ lpc \in {"check", "wait", "tasks"} /\ pending # <<>> => Ready \/ WakeupComing
  /\ lpc \in {"boot", "start"} /\ pending # <<>> => counter > 0 \/ WakeupComing
  /\ registered = (lpc \notin {"boot", "start"})
  /\ lpc # "tasks" => running = <<>>

(* The loop never sleeps in epoll_wait over a task, unless the thread that *)
(* queued it has yet to write to the eventfd: the order of push and write, *)
(* and of the read of the counter and the swap, lose no wakeup.            *)
NoLostWakeup ==
  lpc = "wait" /\ pending # <<>> => Ready \/ WakeupComing

(* Nor does it sleep over a quit.                                          *)
QuitIsSeen ==
  lpc = "wait" /\ quit => Ready \/ WakeupComing

(* The threads' tasks are executed in the order they were queued, each     *)
(* once; what a handler runs inline may overtake what is queued.           *)
Abs == INSTANCE SerialExecutor
         WITH queue <- running \o pending, done <- executed
ImplementsSerialExecutor == Abs!Spec

(* A task that is queued runs, unless the loop is told to quit; no other   *)
(* channel needs to become ready for it.                                   *)
TasksRun ==
  \A t \in Threads, n \in 1 .. MaxTasks :
    submitted[t] >= n ~>
      quit \/ \E k \in DOMAIN executed : executed[k] = [by |-> t, n |-> n]

(* The destructor returns: quit reaches the loop wherever it is, also      *)
(* before it has started.                                                  *)
DestructorReturns ==
  tpc[Owner] \in {"quitting", "joining"} ~> tpc[Owner] = "joined"

=============================================================================
