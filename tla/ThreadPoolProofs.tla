-------------------------- MODULE ThreadPoolProofs --------------------------
(***************************************************************************)
(* Proofs about ThreadPool, for any number of workers, callers and tasks.  *)
(* NeverTakesFromEmpty is about a test that is made long before the queue  *)
(* is used; it is inductive with MutualExclusion (nobody else takes in     *)
(* between) and because isRunning_ is never set again once a worker exists.*)
(***************************************************************************)
EXTENDS ThreadPool, SequenceTheorems, FiniteSetTheorems, TLAPS

(* The workers between Lock and the release hold the mutex.                *)
MutualExclusion ==
  \A w \in Workers : wpc[w] \in {"test", "sleep", "recheck"} => holder = w

Inv == TypeOK /\ MutualExclusion /\ NeverTakesFromEmpty /\ TasksInOrder

LEMMA InitInv == Init => Inv
<1> SUFFICES ASSUME Init PROVE Inv
  OBVIOUS
<1>1. isRunning \in BOOLEAN
  BY Zenon DEF Init
<1>2. TypeOK
  BY <1>1, ThreadPoolAssumption DEF Init, TypeOK
<1>3. MutualExclusion /\ NeverTakesFromEmpty
  BY DEF Init, MutualExclusion, NeverTakesFromEmpty
<1>4. TasksInOrder
  BY DEF Init, TasksInOrder
<1> QED
  BY <1>2, <1>3, <1>4 DEF Inv

LEMMA TakeIsHead ==
  ASSUME Inv, NEW w \in Workers, Take(w)
  PROVE  /\ taskPool # <<>>
         /\ Head(taskPool) \in Task /\ Tail(taskPool) \in Seq(Task)
         /\ started' \in Seq(Task)
         /\ started' \o taskPool' = started \o taskPool
<1>1. taskPool # <<>> /\ taskPool \in Seq(Task) /\ started \in Seq(Task)
  BY DEF Inv, TypeOK, NeverTakesFromEmpty, Take, Goes
<1> DEFINE h == Head(taskPool)
           t == Tail(taskPool)
<1>2. h \in Task /\ t \in Seq(Task) /\ taskPool = <<h>> \o t
  BY <1>1
<1>3. started' = started \o <<h>> /\ taskPool' = t
  BY <1>1 DEF Take
<1> HIDE DEF h, t
<1>4. <<h>> \in Seq(Task)
  BY <1>2
<1>5. (started \o <<h>>) \o t = started \o (<<h>> \o t)
  BY <1>1, <1>2, <1>4, ConcatAssociative
<1>6. started \o <<h>> \in Seq(Task)
  BY <1>1, <1>4
<1> QED
  BY <1>1, <1>2, <1>3, <1>5, <1>6, Zenon DEF h, t

LEMMA NextType == Inv /\ [Next]_vars => TypeOK'
<1> SUFFICES ASSUME Inv, [Next]_vars PROVE TypeOK'
  OBVIOUS
<1>0. TypeOK
  BY DEF Inv
<1> USE <1>0 DEF TypeOK
<1>1. CASE Start
  <2>1. isRunning' \in BOOLEAN
    BY <1>1, Zenon DEF Start
  <2> QED BY <1>1, <2>1 DEF Start
<1>2. CASE Stop
  <2>1. isRunning' \in BOOLEAN
    BY <1>2, Zenon DEF Stop
  <2> QED BY <1>2, <2>1 DEF Stop
<1>3. CASE NotifyAll
  BY <1>3 DEF NotifyAll
<1>4. CASE Join
  BY <1>4 DEF Join
<1>5. ASSUME NEW c \in Callers, AddTask(c) PROVE TypeOK'
  <2>1. calls[c] + 1 \in 1 .. MaxTasks /\ calls[c] + 1 \in 0 .. MaxTasks
    BY <1>5, ThreadPoolAssumption DEF AddTask
  <2>2. [by |-> c, n |-> calls[c] + 1] \in Task
    BY <2>1 DEF Task
  <2>3. calls' \in [Callers -> 0 .. MaxTasks]
    BY <1>5, <2>1 DEF AddTask
  <2>4. CASE isRunning
    <3> DEFINE task == [by |-> c, n |-> calls[c] + 1]
    <3>1. /\ taskPool' = Append(taskPool, task)
          /\ accepted' = Append(accepted, task)
          /\ cpc' = [cpc EXCEPT ![c] = "notify"]
      BY <1>5, <2>4, Zenon DEF AddTask
    <3>2. task \in Task
      BY <2>2
    <3> HIDE DEF task
    <3>3. taskPool' \in Seq(Task) /\ accepted' \in Seq(Task)
      BY <3>1, <3>2
    <3> QED BY <1>5, <2>3, <3>1, <3>3 DEF AddTask
  <2>5. CASE ~isRunning
    BY <1>5, <2>3, <2>5 DEF AddTask
  <2> QED BY <2>4, <2>5
<1>6. ASSUME NEW c \in Callers, NotifyOne(c) PROVE TypeOK'
  BY <1>6 DEF NotifyOne, Wake, Goes
<1>7. ASSUME NEW w \in Workers, OuterTest(w) PROVE TypeOK'
  BY <1>7 DEF OuterTest, Goes
<1>8. ASSUME NEW w \in Workers, Lock(w) PROVE TypeOK'
  BY <1>8 DEF Lock, Goes
<1>9. ASSUME NEW w \in Workers, InnerTest(w) PROVE TypeOK'
  BY <1>9 DEF InnerTest, Goes
<1>10. ASSUME NEW w \in Workers, Sleep(w) PROVE TypeOK'
  BY <1>10 DEF Sleep, Goes
<1>11. ASSUME NEW w \in Workers, Break(w) PROVE TypeOK'
  BY <1>11 DEF Break, Goes
<1>12. ASSUME NEW w \in Workers, Take(w) PROVE TypeOK'
  <2>1. started' \in Seq(Task) /\ taskPool' \in Seq(Task)
    BY <1>12, TakeIsHead DEF Take
  <2> QED BY <1>12, <2>1 DEF Take, Goes
<1>13. ASSUME NEW w \in Workers, RunTask(w) PROVE TypeOK'
  BY <1>13 DEF RunTask, Goes
<1>14. ASSUME NEW w \in Workers, SpuriousWakeup(w) PROVE TypeOK'
  BY <1>14 DEF SpuriousWakeup, Wake, Goes
<1>15. CASE UNCHANGED vars
  BY <1>15 DEF vars
<1> QED
  BY <1>1, <1>2, <1>3, <1>4, <1>5, <1>6, <1>7, <1>8, <1>9, <1>10, <1>11,
     <1>12, <1>13, <1>14, <1>15
  DEF Next, WorkerStep

LEMMA NextExclusion == Inv /\ [Next]_vars => MutualExclusion'
<1> SUFFICES ASSUME TypeOK, MutualExclusion, [Next]_vars PROVE MutualExclusion'
  BY DEF Inv
<1> USE DEF TypeOK, MutualExclusion
<1>1. CASE Start \/ Stop \/ Join
  BY <1>1 DEF Start, Stop, Join
<1>2. CASE NotifyAll
  BY <1>2 DEF NotifyAll
<1>3. ASSUME NEW c \in Callers, AddTask(c) \/ NotifyOne(c)
      PROVE  MutualExclusion'
  BY <1>3 DEF AddTask, NotifyOne, Wake, Goes
<1>4. ASSUME NEW w \in Workers, Lock(w) PROVE MutualExclusion'
  BY <1>4, ThreadPoolAssumption DEF Lock, Goes
<1>5. ASSUME NEW w \in Workers,
             OuterTest(w) \/ InnerTest(w) \/ RunTask(w) \/ SpuriousWakeup(w)
      PROVE  MutualExclusion'
  BY <1>5 DEF OuterTest, InnerTest, RunTask, SpuriousWakeup, Wake, Goes
<1>6. ASSUME NEW w \in Workers, Sleep(w) \/ Break(w) \/ Take(w)
      PROVE  MutualExclusion'
  BY <1>6 DEF Sleep, Break, Take, Goes
<1>7. CASE UNCHANGED vars
  BY <1>7 DEF vars
<1> QED
  BY <1>1, <1>2, <1>3, <1>4, <1>5, <1>6, <1>7 DEF Next, WorkerStep

LEMMA NextNonEmpty == Inv /\ [Next]_vars => NeverTakesFromEmpty'
<1> SUFFICES ASSUME TypeOK, MutualExclusion, NeverTakesFromEmpty, [Next]_vars
             PROVE  NeverTakesFromEmpty'
  BY DEF Inv
<1> USE DEF TypeOK, NeverTakesFromEmpty
<1>1. CASE Start \/ Stop \/ Join
  BY <1>1 DEF Start, Stop, Join
<1>2. CASE NotifyAll
  BY <1>2 DEF NotifyAll
<1>3. ASSUME NEW c \in Callers, AddTask(c) PROVE NeverTakesFromEmpty'
  <2>1. taskPool # <<>> => taskPool' # <<>>
    BY <1>3 DEF AddTask
  <2> QED BY <1>3, <2>1 DEF AddTask
<1>4. ASSUME NEW c \in Callers, NotifyOne(c) PROVE NeverTakesFromEmpty'
  BY <1>4 DEF NotifyOne, Wake, Goes
<1>5. ASSUME NEW w \in Workers,
             OuterTest(w) \/ Lock(w) \/ RunTask(w) \/ SpuriousWakeup(w)
               \/ Sleep(w) \/ Break(w)
      PROVE  NeverTakesFromEmpty'
  BY <1>5 DEF OuterTest, Lock, RunTask, SpuriousWakeup, Sleep, Break, Wake, Goes
<1>6. ASSUME NEW w \in Workers, InnerTest(w) PROVE NeverTakesFromEmpty'
  BY <1>6 DEF InnerTest, Goes
<1>7. ASSUME NEW w \in Workers, Take(w) PROVE NeverTakesFromEmpty'
  <2>1. \A v \in Workers : v # w => wpc[v] # "recheck"
    BY <1>7 DEF Take, Goes, MutualExclusion
  <2> QED BY <1>7, <2>1 DEF Take, Goes
<1>8. CASE UNCHANGED vars
  BY <1>8 DEF vars
<1> QED
  BY <1>1, <1>2, <1>3, <1>4, <1>5, <1>6, <1>7, <1>8 DEF Next, WorkerStep

LEMMA NextOrder == Inv /\ [Next]_vars => TasksInOrder'
<1> SUFFICES ASSUME Inv, [Next]_vars PROVE TasksInOrder'
  OBVIOUS
<1>0. TypeOK /\ TasksInOrder
  BY DEF Inv
<1>1. CASE UNCHANGED <<started, taskPool, accepted>>
  BY <1>0, <1>1 DEF TasksInOrder
<1>2. ASSUME NEW c \in Callers, AddTask(c) PROVE TasksInOrder'
  <2>1. CASE isRunning
    <3> DEFINE task == [by |-> c, n |-> calls[c] + 1]
    <3>1. task \in Task
      BY <1>0, <1>2, ThreadPoolAssumption DEF AddTask, TypeOK, Task
    <3>2. /\ taskPool' = taskPool \o <<task>> /\ accepted' = accepted \o <<task>>
          /\ UNCHANGED started
      <4>1. /\ taskPool' = Append(taskPool, task)
            /\ accepted' = Append(accepted, task)
            /\ UNCHANGED started
        BY <1>2, <2>1, Zenon DEF AddTask
      <4> HIDE DEF task
      <4> QED BY <1>0, <3>1, <4>1, AppendIsConcat DEF TypeOK
    <3> HIDE DEF task
    <3>3. /\ started \in Seq(Task) /\ taskPool \in Seq(Task)
          /\ <<task>> \in Seq(Task)
      BY <1>0, <3>1 DEF TypeOK
    <3>4. (started \o taskPool) \o <<task>> = started \o (taskPool \o <<task>>)
      BY <3>3, ConcatAssociative
    <3> QED BY <1>0, <3>2, <3>4, Zenon DEF TasksInOrder
  <2>2. CASE ~isRunning
    BY <1>1, <1>2, <2>2 DEF AddTask
  <2> QED BY <2>1, <2>2
<1>3. ASSUME NEW w \in Workers, Take(w) PROVE TasksInOrder'
  <2>1. started' \o taskPool' = started \o taskPool
    BY <1>3, TakeIsHead
  <2>2. UNCHANGED accepted
    BY <1>3 DEF Take
  <2> QED BY <1>0, <2>1, <2>2 DEF TasksInOrder
<1>4. CASE Start \/ Stop \/ NotifyAll \/ Join
  BY <1>1, <1>4 DEF Start, Stop, NotifyAll, Join
<1>5. ASSUME NEW c \in Callers, NotifyOne(c) PROVE TasksInOrder'
  BY <1>1, <1>5 DEF NotifyOne
<1>6. ASSUME NEW w \in Workers,
             \/ OuterTest(w) \/ Lock(w) \/ InnerTest(w) \/ Sleep(w)
             \/ Break(w) \/ RunTask(w) \/ SpuriousWakeup(w)
      PROVE  TasksInOrder'
  BY <1>1, <1>6
  DEF OuterTest, Lock, InnerTest, Sleep, Break, RunTask, SpuriousWakeup
<1>7. CASE UNCHANGED vars
  BY <1>1, <1>7 DEF vars
<1> QED
  BY <1>2, <1>3, <1>4, <1>5, <1>6, <1>7 DEF Next, WorkerStep

LEMMA InvAlways == Spec => []Inv
<1>1. Inv /\ [Next]_vars => Inv'
  BY NextType, NextExclusion, NextNonEmpty, NextOrder DEF Inv
<1> QED
  BY InitInv, <1>1, PTL DEF Spec

(* front() and pop() are never called on an empty queue (ThreadPool.cpp:   *)
(* 40-45), however many workers one notification and spurious wakeups      *)
(* bring to the same task.                                                 *)
THEOREM NeverFromEmpty == Spec => []NeverTakesFromEmpty
<1>1. Inv => NeverTakesFromEmpty
  BY DEF Inv
<1> QED
  BY InvAlways, <1>1, PTL

(* Tasks are taken in the order in which they were queued, each once.      *)
THEOREM OrderKept == Spec => []TasksInOrder
<1>1. Inv => TasksInOrder
  BY DEF Inv
<1> QED
  BY InvAlways, <1>1, PTL

-----------------------------------------------------------------------------
(* What WorkConserving needs besides Inv: the sleepers are where they say  *)
(* they are, and a worker that is about to sleep has seen an empty queue   *)
(* that nobody can fill before it sleeps.                                  *)
SleepersSleep == \A w \in waiting : wpc[w] = "waiting"
SleepsOnEmpty ==
  \A w \in Workers : wpc[w] = "sleep" /\ isRunning => taskPool = <<>>

Conserving == WorkConserving /\ SleepersSleep /\ SleepsOnEmpty

(* The sizes of Awake and Notifying.                                       *)
LEMMA CountsAreNat ==
  /\ IsFiniteSet(Awake) /\ Cardinality(Awake) \in Nat
  /\ IsFiniteSet(Notifying) /\ Cardinality(Notifying) \in Nat
<1>1. Awake \subseteq Workers /\ Notifying \subseteq Callers
  BY DEF Awake, Notifying
<1>2. IsFiniteSet(Awake) /\ IsFiniteSet(Notifying)
  BY <1>1, ThreadPoolAssumption, FS_Subset
<1> QED BY <1>2, FS_CardinalityType

(* A worker that moves from one place to another.                          *)
LEMMA AwakeMoves ==
  ASSUME TypeOK, NEW w \in Workers, NEW from, NEW to, Goes(w, from, to)
  PROVE  LET on == {"loop", "lock", "relock", "test", "recheck"} IN
         Cardinality(Awake') =
           IF (from \in on) = (to \in on) THEN Cardinality(Awake)
           ELSE IF to \in on THEN Cardinality(Awake) + 1
           ELSE Cardinality(Awake) - 1
<1> DEFINE on == {"loop", "lock", "relock", "test", "recheck"}
<1>1. /\ wpc[w] = from /\ wpc'[w] = to
      /\ \A v \in Workers : v # w => wpc'[v] = wpc[v]
  BY DEF TypeOK, Goes
<1>2. Awake = {v \in Workers : wpc[v] \in on} /\ Awake' = {v \in Workers : wpc'[v] \in on}
  BY DEF Awake
<1> HIDE DEF on
<1>3. IsFiniteSet(Awake) /\ Cardinality(Awake) \in Nat
  BY CountsAreNat
<1>4. w \in Awake <=> from \in on
  BY <1>1, <1>2
<1>5. CASE from \in on /\ to \in on
  <2>1. Awake' = Awake
    BY <1>1, <1>2, <1>5
  <2> QED BY <1>5, <2>1 DEF on
<1>6. CASE from \notin on /\ to \notin on
  <2>1. Awake' = Awake
    BY <1>1, <1>2, <1>6
  <2> QED BY <1>6, <2>1 DEF on
<1>7. CASE from \notin on /\ to \in on
  <2>1. Awake' = Awake \cup {w}
    BY <1>1, <1>2, <1>7
  <2>2. Cardinality(Awake') = Cardinality(Awake) + 1
    BY <1>3, <1>4, <1>7, <2>1, FS_AddElement
  <2> QED BY <1>7, <2>2 DEF on
<1>8. CASE from \in on /\ to \notin on
  <2>1. Awake' = Awake \ {w}
    BY <1>1, <1>2, <1>8
  <2>2. Cardinality(Awake') = Cardinality(Awake) - 1
    BY <1>3, <1>4, <1>8, <2>1, FS_RemoveElement
  <2> QED BY <1>8, <2>2 DEF on
<1> QED BY <1>5, <1>6, <1>7, <1>8

LEMMA InitConserving == Init => Conserving
BY DEF Init, Conserving, WorkConserving, SleepersSleep, SleepsOnEmpty

LEMMA NextSleepers == Inv /\ Conserving /\ [Next]_vars => SleepersSleep'
<1> SUFFICES ASSUME TypeOK, SleepersSleep, [Next]_vars PROVE SleepersSleep'
  BY DEF Inv, Conserving
<1> USE DEF TypeOK, SleepersSleep
<1>1. CASE Start
  BY <1>1 DEF Start
<1>2. CASE Stop \/ Join \/ NotifyAll
  BY <1>2 DEF Stop, Join, NotifyAll
<1>3. ASSUME NEW c \in Callers, AddTask(c) \/ NotifyOne(c) PROVE SleepersSleep'
  BY <1>3 DEF AddTask, NotifyOne, Wake, Goes
<1>4. ASSUME NEW w \in Workers, OuterTest(w) \/ Lock(w) \/ InnerTest(w) \/ Break(w)
                                \/ Take(w) \/ RunTask(w)
      PROVE  SleepersSleep'
  BY <1>4 DEF OuterTest, Lock, InnerTest, Break, Take, RunTask, Goes
<1>5. ASSUME NEW w \in Workers, Sleep(w) \/ SpuriousWakeup(w) PROVE SleepersSleep'
  BY <1>5 DEF Sleep, SpuriousWakeup, Wake, Goes
<1>6. CASE UNCHANGED vars
  BY <1>6 DEF vars
<1> QED
  BY <1>1, <1>2, <1>3, <1>4, <1>5, <1>6 DEF Next, WorkerStep

LEMMA NextSleepsOnEmpty == Inv /\ Conserving /\ [Next]_vars => SleepsOnEmpty'
<1> SUFFICES ASSUME TypeOK, MutualExclusion, SleepsOnEmpty, [Next]_vars
             PROVE  SleepsOnEmpty'
  BY DEF Inv, Conserving
<1> USE DEF TypeOK, SleepsOnEmpty
<1>1. CASE Start \/ Stop \/ Join \/ NotifyAll
  BY <1>1 DEF Start, Stop, Join, NotifyAll
<1>2. ASSUME NEW c \in Callers, AddTask(c) PROVE SleepsOnEmpty'
  <2>1. CASE isRunning
    <3>1. holder = None
      BY <1>2, <2>1 DEF AddTask
    <3>2. \A w \in Workers : wpc[w] # "sleep"
      BY <3>1, ThreadPoolAssumption DEF MutualExclusion
    <3> QED BY <1>2, <3>2 DEF AddTask
  <2>2. CASE ~isRunning
    BY <1>2, <2>2 DEF AddTask
  <2> QED BY <2>1, <2>2
<1>3. ASSUME NEW c \in Callers, NotifyOne(c) PROVE SleepsOnEmpty'
  BY <1>3 DEF NotifyOne, Wake, Goes
<1>4. ASSUME NEW w \in Workers, OuterTest(w) \/ Lock(w) \/ Break(w) \/ RunTask(w)
                                \/ Sleep(w) \/ SpuriousWakeup(w)
      PROVE  SleepsOnEmpty'
  BY <1>4 DEF OuterTest, Lock, Break, RunTask, Sleep, SpuriousWakeup, Wake, Goes
<1>5. ASSUME NEW w \in Workers, InnerTest(w) PROVE SleepsOnEmpty'
  BY <1>5 DEF InnerTest, Goes
<1>6. ASSUME NEW w \in Workers, Take(w) PROVE SleepsOnEmpty'
  <2>1. \A v \in Workers : wpc[v] # "sleep"
    BY <1>6 DEF Take, Goes, MutualExclusion
  <2> QED BY <1>6, <2>1 DEF Take, Goes
<1>7. CASE UNCHANGED vars
  BY <1>7 DEF vars
<1> QED
  BY <1>1, <1>2, <1>3, <1>4, <1>5, <1>6, <1>7 DEF Next, WorkerStep

LEMMA NextConserving == Inv /\ Conserving /\ [Next]_vars => WorkConserving'
<1> SUFFICES ASSUME Inv, Conserving, [Next]_vars, isRunning', waiting' # {}
             PROVE  Len(taskPool)' <= Cardinality(Awake') + Cardinality(Notifying')
  BY DEF WorkConserving
<1> DEFINE A == Cardinality(Awake)   N == Cardinality(Notifying)
           L == Len(taskPool)
<1>0. /\ TypeOK /\ NeverTakesFromEmpty /\ SleepersSleep /\ SleepsOnEmpty
      /\ isRunning /\ waiting # {} => L <= A + N
  BY DEF Inv, Conserving, WorkConserving
<1>n. /\ A \in Nat /\ N \in Nat /\ Cardinality(Awake') \in Nat
      /\ Cardinality(Notifying') \in Nat /\ L \in Nat
  <2>1. Cardinality(Awake') \in Nat /\ Cardinality(Notifying') \in Nat
    <3>1. Awake' \subseteq Workers /\ Notifying' \subseteq Callers
      BY DEF Awake, Notifying
    <3>2. IsFiniteSet(Awake') /\ IsFiniteSet(Notifying')
      BY <3>1, ThreadPoolAssumption, FS_Subset
    <3> QED BY <3>2, FS_CardinalityType
  <2>2. L \in Nat
    BY <1>0 DEF TypeOK
  <2> QED BY <2>1, <2>2, CountsAreNat
<1>1. CASE Start
  BY <1>0, <1>1 DEF Start, SleepersSleep, TypeOK
<1>2. CASE Stop \/ NotifyAll
  BY <1>2 DEF Stop, NotifyAll
<1>3. CASE Join
  <2>1. cpc[Owner] = "join" /\ cpc' = [cpc EXCEPT ![Owner] = "joined"]
        /\ UNCHANGED <<wpc, isRunning, waiting, taskPool>>
    BY <1>3 DEF Join
  <2>2. Notifying' = Notifying /\ Awake' = Awake
    BY <1>0, <2>1, ThreadPoolAssumption DEF Notifying, Awake, TypeOK
  <2> QED BY <1>0, <2>1, <2>2
<1>4. ASSUME NEW c \in Callers, AddTask(c)
      PROVE  Len(taskPool)' <= Cardinality(Awake') + Cardinality(Notifying')
  <2>1. isRunning /\ waiting' = waiting /\ Awake' = Awake
    BY <1>4 DEF AddTask, Awake
  <2>2. Len(taskPool)' = L + 1
    <3>1. PICK task : taskPool' = Append(taskPool, task)
      BY <1>4, <2>1 DEF AddTask
    <3> QED BY <1>0, <3>1 DEF TypeOK
  <2>3. cpc[c] = "outside" /\ cpc' = [cpc EXCEPT ![c] = "notify"]
    BY <1>4, <2>1, Zenon DEF AddTask
  <2>4. Notifying' = Notifying \cup {c} /\ c \notin Notifying
    BY <1>0, <2>3 DEF Notifying, TypeOK
  <2>5. Cardinality(Notifying') = N + 1
    BY <2>4, CountsAreNat, FS_AddElement
  <2> QED BY <1>0, <1>n, <2>1, <2>2, <2>5
<1>5. ASSUME NEW c \in Callers, NotifyOne(c)
      PROVE  Len(taskPool)' <= Cardinality(Awake') + Cardinality(Notifying')
  <2>1. cpc[c] = "notify" /\ cpc' = [cpc EXCEPT ![c] = "outside"]
        /\ UNCHANGED <<taskPool, isRunning>>
    BY <1>5 DEF NotifyOne
  <2>2. Notifying' = Notifying \ {c} /\ c \in Notifying
    BY <1>0, <2>1 DEF Notifying, TypeOK
  <2>3. Cardinality(Notifying') = N - 1
    BY <2>2, CountsAreNat, FS_RemoveElement
  <2>4. PICK w \in waiting : Wake(w)
    BY <1>5 DEF NotifyOne
  <2>5. w \in Workers /\ Goes(w, "waiting", "relock")
    BY <1>0, <2>4 DEF Wake, TypeOK
  <2>6. Cardinality(Awake') = A + 1
    BY <1>0, <2>5, AwakeMoves
  <2> QED BY <1>0, <1>n, <2>1, <2>3, <2>4, <2>6
<1>6. ASSUME NEW w \in Workers, OuterTest(w) \/ Lock(w) \/ RunTask(w) \/ SpuriousWakeup(w)
      PROVE  Len(taskPool)' <= Cardinality(Awake') + Cardinality(Notifying')
  <2>1. UNCHANGED <<taskPool, isRunning, cpc>> /\ waiting # {}
    BY <1>6 DEF OuterTest, Lock, RunTask, SpuriousWakeup, Wake
  <2>2. isRunning /\ Notifying' = Notifying
    BY <2>1 DEF Notifying
  <2>3. \/ Goes(w, "loop", "lock") \/ Goes(w, "lock", "test") \/ Goes(w, "relock", "test")
        \/ Goes(w, "run", "loop") \/ Goes(w, "waiting", "relock")
    BY <1>6, <2>2 DEF OuterTest, Lock, RunTask, SpuriousWakeup, Wake
  <2>4. Cardinality(Awake') >= A
    <3>1. CASE Goes(w, "loop", "lock") \/ Goes(w, "lock", "test") \/ Goes(w, "relock", "test")
      <4>1. Cardinality(Awake') = A
        BY <1>0, <3>1, AwakeMoves
      <4> QED BY <1>n, <4>1
    <3>2. CASE Goes(w, "run", "loop") \/ Goes(w, "waiting", "relock")
      <4>1. Cardinality(Awake') = A + 1
        BY <1>0, <3>2, AwakeMoves
      <4> QED BY <1>n, <4>1
    <3> QED BY <2>3, <3>1, <3>2
  <2> QED BY <1>0, <1>n, <2>1, <2>2, <2>4
<1>7. ASSUME NEW w \in Workers, InnerTest(w)
      PROVE  Len(taskPool)' <= Cardinality(Awake') + Cardinality(Notifying')
  <2>1. UNCHANGED <<taskPool, isRunning, cpc, waiting>>
    BY <1>7 DEF InnerTest
  <2>2. CASE taskPool = <<>>
    BY <1>n, <2>1, <2>2
  <2>3. CASE taskPool # <<>>
    <3>1. Goes(w, "test", "recheck") /\ Notifying' = Notifying
      BY <1>7, <2>1, <2>3 DEF InnerTest, Notifying
    <3>2. Cardinality(Awake') = A
      BY <1>0, <3>1, AwakeMoves
    <3> QED BY <1>0, <2>1, <3>1, <3>2
  <2> QED BY <2>2, <2>3
<1>8. ASSUME NEW w \in Workers, Sleep(w)
      PROVE  Len(taskPool)' <= Cardinality(Awake') + Cardinality(Notifying')
  <2>1. taskPool = <<>> /\ taskPool' = taskPool
    BY <1>0, <1>8 DEF Sleep, Goes, SleepsOnEmpty
  <2> QED BY <1>n, <2>1
<1>9. ASSUME NEW w \in Workers, Break(w)
      PROVE  Len(taskPool)' <= Cardinality(Awake') + Cardinality(Notifying')
  BY <1>9 DEF Break
<1>10. ASSUME NEW w \in Workers, Take(w)
       PROVE  Len(taskPool)' <= Cardinality(Awake') + Cardinality(Notifying')
  <2>1. /\ isRunning /\ taskPool' = Tail(taskPool) /\ waiting' = waiting
        /\ Goes(w, "recheck", "run") /\ Notifying' = Notifying
    BY <1>10 DEF Take, Notifying
  <2>2. taskPool # <<>> /\ taskPool \in Seq(Task)
    BY <1>0, <2>1 DEF Goes, NeverTakesFromEmpty, TypeOK
  <2>3. Len(taskPool)' = L - 1
    BY <2>1, <2>2, HeadTailProperties
  <2>4. Cardinality(Awake') = A - 1
    BY <1>0, <2>1, AwakeMoves
  <2> QED BY <1>0, <1>n, <2>1, <2>3, <2>4
<1>11. CASE UNCHANGED vars
  BY <1>0, <1>11 DEF vars, Awake, Notifying
<1> QED
  BY <1>1, <1>2, <1>3, <1>4, <1>5, <1>6, <1>7, <1>8, <1>9, <1>10, <1>11
  DEF Next, WorkerStep

(* While a worker sleeps, every queued task has a worker on its way to it  *)
(* or a notify_one to come, however notifications, spurious wakeups and    *)
(* workers that find the queue empty interleave (ThreadPool.cpp:16-48).    *)
THEOREM WorkIsConserved == Spec => []WorkConserving
<1>1. Inv /\ Conserving /\ [Next]_vars => Conserving'
  BY NextSleepers, NextSleepsOnEmpty, NextConserving DEF Conserving
<1>2. Conserving => WorkConserving
  BY DEF Conserving
<1> QED
  BY InitConserving, InvAlways, <1>1, <1>2, PTL DEF Spec

=============================================================================
