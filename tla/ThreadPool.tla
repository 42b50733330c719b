----------------------------- MODULE ThreadPool -----------------------------
(***************************************************************************)
(* The pool of worker threads with a blocking queue (base/ThreadPool.cpp). *)
(*                                                                         *)
(* mtx_ guards taskPool_ but not isRunning_, which the destructor changes  *)
(* at any moment: a worker's reads of isRunning_ are therefore steps of    *)
(* their own, also inside the critical section.  cond_ is a set of waiting *)
(* workers: notify_one wakes one of them, if there is one, and a waiting   *)
(* worker may wake up for no reason.                                       *)
(***************************************************************************)
EXTENDS Naturals, Sequences, FiniteSets

CONSTANTS
  Workers,    \* the pool's threads
  Callers,    \* threads that call addTask
  Owner,      \* the one of them that starts and destroys the pool
  MaxTasks,   \* bound on the calls of addTask by each caller
  None

ASSUME ThreadPoolAssumption ==
  /\ Owner \in Callers
  /\ MaxTasks \in Nat
  /\ None \notin Workers
  /\ IsFiniteSet(Workers) /\ IsFiniteSet(Callers)

VARIABLES
  isRunning,  \* isRunning_
  holder,     \* the worker that holds mtx_, or None
  taskPool,   \* taskPool_
  wpc,        \* where each worker is
  waiting,    \* the workers that sleep on cond_
  cpc,        \* where each caller is
  calls,      \* how often each caller has called addTask
  accepted,   \* the tasks that entered the queue, in order (history)
  started     \* the tasks that workers took from it, in order (history)

vars == <<isRunning, holder, taskPool, wpc, waiting, cpc, calls, accepted,
          started>>

Task == [by : Callers, n : 1 .. MaxTasks]

Init ==
  /\ isRunning = FALSE
  /\ holder = None
  /\ taskPool = <<>>
  /\ wpc = [w \in Workers |-> "unborn"]
  /\ waiting = {}
  /\ cpc = [c \in Callers |-> "outside"]
  /\ calls = [c \in Callers |-> 0]
  /\ accepted = <<>> /\ started = <<>>

Goes(w, from, to) ==
  /\ wpc[w] = from
  /\ wpc' = [wpc EXCEPT ![w] = to]

-----------------------------------------------------------------------------
(* start: the flag first, then the threads.                                *)
Start ==
  /\ cpc[Owner] = "outside"
  /\ \A w \in Workers : wpc[w] = "unborn"
  /\ isRunning' = TRUE
  /\ wpc' = [w \in Workers |-> "loop"]
  /\ UNCHANGED <<holder, taskPool, waiting, cpc, calls, accepted, started>>

\* Mutant: notify_one only when the queue was empty.
AddTaskNotifyFirst(c) ==
  /\ cpc[c] = "outside" /\ cpc[Owner] # "joined"
  /\ calls[c] < MaxTasks
  /\ calls' = [calls EXCEPT ![c] = @ + 1]
  /\ IF isRunning
       THEN LET task == [by |-> c, n |-> calls[c] + 1] IN
            /\ holder = None
            /\ taskPool' = Append(taskPool, task)
            /\ accepted' = Append(accepted, task)
            /\ cpc' = [cpc EXCEPT ![c] =
                         IF taskPool = <<>> THEN "notify" ELSE "outside"]
       ELSE UNCHANGED <<taskPool, accepted, cpc>>
  /\ UNCHANGED <<isRunning, holder, wpc, waiting, started>>

(* addTask up to the release of the lock; dropped when not running.        *)
AddTask(c) ==
  /\ cpc[c] = "outside" /\ cpc[Owner] # "joined"
  /\ calls[c] < MaxTasks
  /\ calls' = [calls EXCEPT ![c] = @ + 1]
  /\ IF isRunning
       THEN LET task == [by |-> c, n |-> calls[c] + 1] IN
            /\ holder = None
            /\ taskPool' = Append(taskPool, task)
            /\ accepted' = Append(accepted, task)
            /\ cpc' = [cpc EXCEPT ![c] = "notify"]
       ELSE UNCHANGED <<taskPool, accepted, cpc>>
  /\ UNCHANGED <<isRunning, holder, wpc, waiting, started>>

Wake(w) ==
  /\ w \in waiting
  /\ waiting' = waiting \ {w}
  /\ Goes(w, "waiting", "relock")

NotifyOne(c) ==
  /\ cpc[c] = "notify"
  /\ cpc' = [cpc EXCEPT ![c] = "outside"]
  /\ IF waiting = {} THEN UNCHANGED <<waiting, wpc>>
                     ELSE \E w \in waiting : Wake(w)
  /\ UNCHANGED <<isRunning, holder, taskPool, calls, accepted, started>>

(* ~ThreadPool: the flag, without the lock, then notify_all, then join.    *)
Stop ==
  /\ isRunning
  /\ \A c \in Callers : cpc[c] = "outside"
  /\ isRunning' = FALSE
  /\ cpc' = [cpc EXCEPT ![Owner] = "notifyAll"]
  /\ UNCHANGED <<holder, taskPool, wpc, waiting, calls, accepted, started>>

NotifyAll ==
  /\ cpc[Owner] = "notifyAll"
  /\ cpc' = [cpc EXCEPT ![Owner] = "join"]
  /\ waiting' = {}
  /\ wpc' = [w \in Workers |-> IF w \in waiting THEN "relock" ELSE wpc[w]]
  /\ UNCHANGED <<isRunning, holder, taskPool, calls, accepted, started>>

Join ==
  /\ cpc[Owner] = "join"
  /\ \A w \in Workers : wpc[w] = "exited"
  /\ cpc' = [cpc EXCEPT ![Owner] = "joined"]
  /\ UNCHANGED <<isRunning, holder, taskPool, wpc, waiting, calls, accepted,
                 started>>

-----------------------------------------------------------------------------
(* run: the condition of the outer loop.                                   *)
OuterTest(w) ==
  /\ Goes(w, "loop", IF isRunning THEN "lock" ELSE "exited")
  /\ UNCHANGED <<isRunning, holder, taskPool, waiting, cpc, calls, accepted,
                 started>>

\* Mutant: if instead of while around the wait: nothing is tested again.
LockWithoutTest(w) ==
  /\ holder = None
  /\ holder' = w
  /\ Goes(w, "lock", "test") \/ Goes(w, "relock", "recheck")
  /\ UNCHANGED <<isRunning, taskPool, waiting, cpc, calls, accepted, started>>

(* The lock is acquired, on entry or when cond_.wait returns.              *)
Lock(w) ==
  /\ holder = None
  /\ holder' = w
  /\ Goes(w, "lock", "test") \/ Goes(w, "relock", "test")
  /\ UNCHANGED <<isRunning, taskPool, waiting, cpc, calls, accepted, started>>

\* Mutant: the queue is not looked at before the wait.
InnerTestIgnoresQueue(w) ==
  /\ Goes(w, "test", IF isRunning THEN "sleep" ELSE "recheck")
  /\ UNCHANGED <<isRunning, holder, taskPool, waiting, cpc, calls, accepted,
                 started>>

(* The condition of the inner loop.                                        *)
InnerTest(w) ==
  /\ Goes(w, "test", IF isRunning /\ taskPool = <<>> THEN "sleep" ELSE "recheck")
  /\ UNCHANGED <<isRunning, holder, taskPool, waiting, cpc, calls, accepted,
                 started>>

(* cond_.wait releases the lock and sleeps, atomically.                    *)
Sleep(w) ==
  /\ Goes(w, "sleep", "waiting")
  /\ waiting' = waiting \cup {w}
  /\ holder' = None
  /\ UNCHANGED <<isRunning, taskPool, cpc, calls, accepted, started>>

SpuriousWakeup(w) ==
  /\ Wake(w)
  /\ UNCHANGED <<isRunning, holder, taskPool, cpc, calls, accepted, started>>

(* if(!isRunning_)break, with the lock released on the way out.            *)
Break(w) ==
  /\ ~isRunning
  /\ Goes(w, "recheck", "exited")
  /\ holder' = None
  /\ UNCHANGED <<isRunning, taskPool, waiting, cpc, calls, accepted, started>>

\* Mutant: front without pop.
TakeWithoutPop(w) ==
  /\ isRunning
  /\ Goes(w, "recheck", "run")
  /\ started' = Append(started, Head(taskPool))
  /\ holder' = None
  /\ UNCHANGED <<isRunning, taskPool, waiting, cpc, calls, accepted>>

Take(w) ==
  /\ isRunning
  /\ Goes(w, "recheck", "run")
  /\ started' = Append(started, Head(taskPool))
  /\ taskPool' = Tail(taskPool)
  /\ holder' = None
  /\ UNCHANGED <<isRunning, waiting, cpc, calls, accepted>>

RunTask(w) ==
  /\ Goes(w, "run", "loop")
  /\ UNCHANGED <<isRunning, holder, taskPool, waiting, cpc, calls, accepted,
                 started>>

WorkerStep(w) ==
  OuterTest(w) \/ Lock(w) \/ InnerTest(w) \/ Sleep(w) \/ Break(w) \/ Take(w)
  \/ RunTask(w)

Next ==
  \/ Start \/ Stop \/ NotifyAll \/ Join
  \/ \E c \in Callers : AddTask(c) \/ NotifyOne(c)
  \/ \E w \in Workers : WorkerStep(w) \/ SpuriousWakeup(w)

(* The scheduler runs every thread that can run, and the mutex is handed   *)
(* to each thread that keeps asking for it.  No spurious wakeup is owed.   *)
Fairness ==
  /\ \A w \in Workers : WF_vars(WorkerStep(w)) /\ SF_vars(Lock(w))
  /\ \A c \in Callers : WF_vars(NotifyOne(c))
  /\ WF_vars(NotifyAll) /\ WF_vars(Join)

Spec == Init /\ [][Next]_vars /\ Fairness

-----------------------------------------------------------------------------
TypeOK ==
  /\ isRunning \in BOOLEAN
  /\ holder \in Workers \cup {None}
  /\ taskPool \in Seq(Task)
  /\ wpc \in [Workers -> {"unborn", "loop", "lock", "test", "sleep", "waiting",
                          "relock", "recheck", "run", "exited"}]
  /\ waiting \subseteq Workers
  /\ cpc \in [Callers -> {"outside", "notify", "notifyAll", "join", "joined"}]
  /\ calls \in [Callers -> 0 .. MaxTasks]
  /\ accepted \in Seq(Task) /\ started \in Seq(Task)

(* taskPool_.front() and pop() are not called on an empty queue: between   *)
(* the test of the queue and the use of it the worker keeps the lock       *)
(* (ThreadPool.cpp:40-45), whoever else was woken for the same task.       *)
NeverTakesFromEmpty ==
  \A w \in Workers : wpc[w] = "recheck" /\ isRunning => taskPool # <<>>

(* Tasks are taken in the order in which they were queued, each once.      *)
TasksInOrder == started \o taskPool = accepted

Awake == {w \in Workers : wpc[w] \in {"loop", "lock", "relock", "test", "recheck"}}
Notifying == {c \in Callers : cpc[c] = "notify"}

(* Work conservation: while a worker sleeps, every queued task has a       *)
(* worker that is on its way to the queue, or a notify_one to come.        *)
WorkConserving ==
  isRunning /\ waiting # {}
    => Len(taskPool) <= Cardinality(Awake) + Cardinality(Notifying)

(* A queued task is taken, unless the pool is destroyed.                   *)
QueuedTasksStart ==
  \A c \in Callers, n \in 1 .. MaxTasks :
    (\E k \in DOMAIN accepted : accepted[k] = [by |-> c, n |-> n])
      ~> (~isRunning \/ \E k \in DOMAIN started : started[k] = [by |-> c, n |-> n])

(* The destructor joins every worker and returns (ThreadPool.cpp:6-14).    *)
DestructorReturns == cpc[Owner] = "notifyAll" ~> cpc[Owner] = "joined"

=============================================================================
