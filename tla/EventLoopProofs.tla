-------------------------- MODULE EventLoopProofs --------------------------
(***************************************************************************)
(* Proofs about EventLoop, for every set of threads and any number of      *)
(* tasks.  NoLostWakeup is not inductive: a task may be queued while the   *)
(* loop runs others, long before it sleeps.  WakeupOwed carries the        *)
(* obligation from the swap of pendingTasks_ to the next epoll_wait.       *)
(***************************************************************************)
EXTENDS EventLoop, TLAPS

Inv == TypeOK /\ WakeupOwed /\ QuitIsSeen

LEMMA InitInv == Init => Inv
<1> SUFFICES ASSUME Init PROVE Inv
  OBVIOUS
<1>1. submitted \in [Threads \cup {LoopThread} -> 0 .. MaxTasks]
  BY EventLoopAssumption DEF Init
<1>2. TypeOK
  <2>1. calling \in BOOLEAN /\ quit \in BOOLEAN /\ loopOk \in BOOLEAN
    BY Zenon DEF Init
  <2>2. registered \in BOOLEAN /\ edge \in BOOLEAN
    BY Zenon DEF Init
  <2>3. pending \in Seq(Task) /\ running \in Seq(Task) /\ executed \in Seq(Task)
    BY DEF Init
  <2> QED BY <1>1, <2>1, <2>2, <2>3 DEF Init, TypeOK
<1>3. WakeupOwed /\ QuitIsSeen
  BY DEF Init, WakeupOwed, QuitIsSeen
<1> QED BY <1>2, <1>3 DEF Inv

LEMMA NextType == TypeOK /\ [Next]_vars => TypeOK'
<1> SUFFICES ASSUME TypeOK, [Next]_vars PROVE TypeOK'
  OBVIOUS
<1> USE DEF TypeOK
<1>1. ASSUME NEW t \in Threads \cup {LoopThread}, submitted[t] < MaxTasks
      PROVE  /\ NextTask(t) \in Task
             /\ submitted[t] + 1 \in 0 .. MaxTasks
  BY <1>1, EventLoopAssumption DEF NextTask, Task
<1>2. CASE Boot
  BY <1>2 DEF Boot, eventfd
<1>3. CASE StartLoop
  BY <1>3 DEF StartLoop
<1>4. CASE CheckQuit
  BY <1>4 DEF CheckQuit, eventfd
<1>5. CASE WaitReturnsWakeup
  BY <1>5 DEF WaitReturnsWakeup
<1>6. CASE WaitReturnsOther
  BY <1>6 DEF WaitReturnsOther, eventfd
<1>7. CASE HandleWakeup
  BY <1>7 DEF HandleWakeup
<1>8. CASE SwapPendingTasks
  BY <1>8 DEF SwapPendingTasks, eventfd
<1>9. CASE RunTask
  BY <1>9 DEF RunTask, eventfd
<1>10. CASE TasksDone
  BY <1>10 DEF TasksDone, eventfd
<1>11. CASE RunInline
  BY <1>1, <1>11 DEF RunInline, eventfd, loopVars
<1>12. CASE QuitInLoop
  BY <1>12 DEF QuitInLoop, eventfd, loopVars
<1>13. ASSUME NEW t \in Threads, QueueInLoop(t) PROVE TypeOK'
  BY <1>1, <1>13 DEF QueueInLoop, eventfd, loopVars
<1>14. ASSUME NEW t \in Threads, Wakeup(t) PROVE TypeOK'
  BY <1>14 DEF Wakeup, loopVars
<1>15. ASSUME NEW t \in Threads, Quit(t) PROVE TypeOK'
  BY <1>15 DEF Quit, eventfd, loopVars
<1>16. ASSUME NEW t \in Threads, Join(t) PROVE TypeOK'
  BY <1>16 DEF Join, eventfd, loopVars
<1>17. CASE UNCHANGED vars
  BY <1>17 DEF vars
<1> QED
  BY <1>2, <1>3, <1>4, <1>5, <1>6, <1>7, <1>8, <1>9, <1>10, <1>11, <1>12,
     <1>13, <1>14, <1>15, <1>16, <1>17 DEF Next, LoopStep

LEMMA NextOwed == Inv /\ [Next]_vars => WakeupOwed' /\ QuitIsSeen'
<1> SUFFICES ASSUME Inv, [Next]_vars PROVE WakeupOwed' /\ QuitIsSeen'
  OBVIOUS
<1> USE DEF Inv, WakeupOwed, QuitIsSeen, Ready, WakeupComing
<1>1. counter \in Nat /\ tpc \in [Threads -> {"outside", "queued", "quitting",
                                             "joining", "joined"}]
  BY DEF TypeOK
<1>2. CASE Boot
  BY <1>2 DEF Boot, eventfd
<1>3. CASE StartLoop
  BY <1>3 DEF StartLoop
<1>4. CASE CheckQuit
  BY <1>4 DEF CheckQuit, eventfd
<1>5. CASE WaitReturnsWakeup
  BY <1>5 DEF WaitReturnsWakeup
<1>6. CASE WaitReturnsOther
  BY <1>6 DEF WaitReturnsOther, eventfd
<1>7. CASE HandleWakeup
  BY <1>7 DEF HandleWakeup
<1>8. CASE SwapPendingTasks
  BY <1>8 DEF SwapPendingTasks, eventfd
<1>9. CASE RunTask
  BY <1>9 DEF RunTask, eventfd
<1>10. CASE TasksDone
  BY <1>10 DEF TasksDone, eventfd
<1>11. CASE RunInline
  BY <1>11 DEF RunInline, eventfd, loopVars
<1>12. CASE QuitInLoop
  BY <1>12 DEF QuitInLoop, eventfd, loopVars
<1>13. ASSUME NEW t \in Threads, QueueInLoop(t)
       PROVE  WakeupOwed' /\ QuitIsSeen'
  <2>1. tpc'[t] = "queued"
    BY <1>1, <1>13 DEF QueueInLoop
  <2> QED BY <1>13, <2>1 DEF QueueInLoop, eventfd, loopVars
<1>14. ASSUME NEW t \in Threads, Wakeup(t)
       PROVE  WakeupOwed' /\ QuitIsSeen'
  <2>1. counter' > 0
    BY <1>1, <1>14 DEF Wakeup
  <2>2. registered => edge'
    BY <1>14, Zenon DEF Wakeup
  <2> QED BY <1>14, <2>1, <2>2 DEF Wakeup, loopVars
<1>15. ASSUME NEW t \in Threads, Quit(t)
       PROVE  WakeupOwed' /\ QuitIsSeen'
  <2>1. tpc'[t] = "quitting"
    BY <1>1, <1>15 DEF Quit
  <2> QED BY <1>15, <2>1 DEF Quit, eventfd, loopVars
<1>16. ASSUME NEW t \in Threads, Join(t)
       PROVE  WakeupOwed' /\ QuitIsSeen'
  BY <1>1, <1>16 DEF Join, eventfd, loopVars
<1>17. CASE UNCHANGED vars
  BY <1>17 DEF vars
<1> QED
  BY <1>2, <1>3, <1>4, <1>5, <1>6, <1>7, <1>8, <1>9, <1>10, <1>11, <1>12,
     <1>13, <1>14, <1>15, <1>16, <1>17 DEF Next, LoopStep

LEMMA NextInv == Inv /\ [Next]_vars => Inv'
BY NextType, NextOwed DEF Inv

(* The loop never sleeps over a queued task or over a quit whose wakeup    *)
(* has been written, whatever the number of threads and tasks.             *)
THEOREM NoWakeupIsLost == Spec => [](NoLostWakeup /\ QuitIsSeen)
<1>1. Inv => NoLostWakeup /\ QuitIsSeen
  BY DEF Inv, WakeupOwed, NoLostWakeup
<1> QED BY <1>1, InitInv, NextInv, PTL DEF Spec
-----------------------------------------------------------------------------
(* The facts about sequences that the refinement needs.                    *)
LEMMA AppendConcat ==
  ASSUME NEW S, NEW a \in Seq(S), NEW b \in Seq(S), NEW x \in S
  PROVE  a \o Append(b, x) = Append(a \o b, x)
OBVIOUS

LEMMA HeadTailConcat ==
  ASSUME NEW S, NEW a \in Seq(S), NEW b \in Seq(S), a # <<>>
  PROVE  /\ Head(a \o b) = Head(a)
         /\ Tail(a \o b) = Tail(a) \o b
         /\ a \o b # <<>>
OBVIOUS

LEMMA EmptyConcat ==
  ASSUME NEW S, NEW a \in Seq(S)
  PROVE  a \o <<>> = a /\ <<>> \o a = a
OBVIOUS

LEMMA LastOfAppend ==
  ASSUME NEW S, NEW a \in Seq(S), NEW x \in S
  PROVE  /\ Len(Append(a, x)) > 0
         /\ Append(a, x)[Len(Append(a, x))] = x
OBVIOUS


LEMMA StepRefines ==
  ASSUME Inv, [Next]_vars
  PROVE  [Abs!Next]_<<running \o pending, executed>>
<1> DEFINE queue == running \o pending
           Keeps == UNCHANGED <<queue, executed>>
<1>1. /\ running \in Seq(Task) /\ pending \in Seq(Task) /\ executed \in Seq(Task)
      /\ queue \in Seq(Task)
  BY DEF Inv, TypeOK
<1>2. ASSUME NEW t \in Threads \cup {LoopThread}, submitted[t] < MaxTasks
      PROVE  NextTask(t) \in Task /\ NextTask(t).by = t
  BY <1>2, EventLoopAssumption DEF NextTask, Task, Inv, TypeOK
<1>3. CASE SwapPendingTasks
  <2>1. running = <<>>
    BY <1>3 DEF SwapPendingTasks, Inv, WakeupOwed
  <2>2. running' = pending /\ pending' = <<>> /\ executed' = executed
    BY <1>3 DEF SwapPendingTasks
  <2> QED BY <1>1, <2>1, <2>2, EmptyConcat
<1>4. CASE RunTask
  <2>1. /\ running # <<>> /\ running' = Tail(running) /\ pending' = pending
        /\ executed' = Append(executed, Head(running))
    BY <1>4 DEF RunTask
  <2>2. Head(queue) = Head(running) /\ Tail(queue) = queue' /\ queue # <<>>
    BY <1>1, <2>1, HeadTailConcat
  <2>3. Abs!RunFirst
    BY <2>1, <2>2 DEF Abs!RunFirst
  <2> QED BY <2>3 DEF Abs!Next
<1>5. CASE RunInline
  <2> DEFINE x == NextTask(LoopThread)
  <2>1. queue' = queue /\ executed' = Append(executed, x)
    BY <1>5 DEF RunInline, loopVars
  <2>2. x \in Task /\ x.by = LoopThread
    BY <1>2, <1>5 DEF RunInline
  <2>3. Len(executed') > 0 /\ executed'[Len(executed')] = x
    BY <1>1, <2>1, <2>2, LastOfAppend
  <2>4. Abs!RunAtOnce
    BY <2>1, <2>2, <2>3 DEF Abs!RunAtOnce
  <2> QED BY <2>4 DEF Abs!Next
<1>6. ASSUME NEW t \in Threads, QueueInLoop(t) PROVE Abs!Next
  <2> DEFINE x == NextTask(t)
  <2>1. running' = running /\ executed' = executed /\ pending' = Append(pending, x)
    BY <1>6 DEF QueueInLoop, loopVars
  <2>2. x \in Task /\ x.by = t
    BY <1>2, <1>6 DEF QueueInLoop
  <2>3. queue' = Append(queue, x)
    BY <1>1, <2>1, <2>2, AppendConcat
  <2>4. Len(queue') > 0 /\ queue'[Len(queue')] = x
    BY <1>1, <2>2, <2>3, LastOfAppend
  <2>5. Abs!Enqueue
    BY <2>1, <2>2, <2>3, <2>4 DEF Abs!Enqueue
  <2> QED BY <2>5 DEF Abs!Next
<1>7. CASE Boot \/ StartLoop \/ CheckQuit \/ WaitReturnsWakeup \/ WaitReturnsOther
           \/ HandleWakeup \/ TasksDone \/ QuitInLoop
  BY <1>7 DEF Boot, StartLoop, CheckQuit, WaitReturnsWakeup, WaitReturnsOther,
     HandleWakeup, TasksDone, QuitInLoop, loopVars
<1>8. ASSUME NEW t \in Threads, Wakeup(t) \/ Quit(t) \/ Join(t) PROVE Keeps
  BY <1>8 DEF Wakeup, Quit, Join, loopVars
<1>9. CASE UNCHANGED vars
  BY <1>9 DEF vars
<1> QED
  BY <1>3, <1>4, <1>5, <1>6, <1>7, <1>8, <1>9 DEF Next, LoopStep

(* Tasks queued by other threads run in the order in which they were       *)
(* queued and each once: the loop implements SerialExecutor.               *)
THEOREM LoopIsSerialExecutor == Spec => ImplementsSerialExecutor
<1>1. Init => Abs!Init
  BY EmptyConcat DEF Init, Abs!Init
<1>2. Inv /\ [Next]_vars => [Abs!Next]_<<running \o pending, executed>>
  BY StepRefines
<1> QED BY <1>1, <1>2, InitInv, NextInv, PTL DEF Spec, ImplementsSerialExecutor, Abs!Spec

=============================================================================
