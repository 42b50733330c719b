-------------------------- MODULE TcpServerProofs ---------------------------
(***************************************************************************)
(* Proofs about TcpServer, for any numbers of connections, fds and loops,  *)
(* any timeout, with and without kept requests and keep-alive.             *)
(***************************************************************************)
EXTENDS TcpServer, TLAPS

(* onConnect has run: the connection has left the accepting thread and its *)
(* loop's task queue.                                                      *)
Started(c) == loopOf[c] # None /\ ~Queued(c)

(* An fd is the socket of exactly one live connection while it is open.    *)
FdsAreOwned ==
  /\ \A c \in Conns : alive[c] => fd[c] \in Fds /\ owner[fd[c]] = c
  /\ \A f \in Fds : owner[f] # None => alive[owner[f]] /\ fd[owner[f]] = f

ReferencesAreAlive == \A c \in Conns : Referenced(c) => alive[c]

(* The accepting thread holds the one connection that exists and has no    *)
(* loop yet.                                                               *)
InHand ==
  /\ apc = "wait" <=> acur = None
  /\ \A c \in Conns : loopOf[c] = None <=> fd[c] = None \/ acur = c

(* Before onConnect nothing can happen to a connection.                    *)
UntouchedBeforeStart ==
  \A c \in Conns : ~Started(c) =>
    ~disconnected[c] /\ ~context[c] /\ armed[c] = "off"

(* The table entry lasts from the insertion to the erasure by the handler  *)
(* that closes the connection.                                             *)
TableEntries ==
  /\ \A f \in Fds : connects[f] # None => fd[connects[f]] = f
  /\ \A c \in Conns : alive[c] /\ ~disconnected[c] =>
       connects[fd[c]] = c \/ (acur = c /\ apc = "table")

QueuesAreExact ==
  \A l \in Loops :
    /\ \A k \in DOMAIN tasks[l] :
         loopOf[tasks[l][k]] = l /\ alive[tasks[l][k]]
    /\ \A j, k \in DOMAIN tasks[l] : tasks[l][j] = tasks[l][k] => j = k

ClosingInOwnLoop ==
  \A l \in Loops :
    /\ cur[l] # None
         <=> lpc[l] \in {"erase", "eraseTimed", "drop", "dropTimed"}
    /\ cur[l] # None => loopOf[cur[l]] = l /\ disconnected[cur[l]]

BatchInOwnLoop ==
  \A l \in Loops :
    /\ lpc[l] \in {"wait", "tasks"} => batch[l] = {}
    /\ \A e \in batch[l] :
         IF e.kind = "TIMER" THEN e.conn = None
         ELSE e.conn \in Conns /\ loopOf[e.conn] = l /\ ~Queued(e.conn)

TimersInOwnLoop ==
  \A l \in Loops, f \in Fds :
    timers[l][f] # NoTimer =>
      /\ timers[l][f].conn \in Conns
      /\ fd[timers[l][f].conn] = f
      /\ loopOf[timers[l][f].conn] = l
      /\ ~Queued(timers[l][f].conn)

Links ==
  /\ FdsAreOwned /\ ReferencesAreAlive /\ InHand /\ UntouchedBeforeStart
  /\ TableEntries /\ QueuesAreExact /\ ClosingInOwnLoop /\ BatchInOwnLoop
  /\ TimersInOwnLoop /\ GuardedByOwnTimer /\ NeverDeaf

Inv == TypeOK /\ Links

LEMMA NoneIsNothing ==
  /\ None \notin Conns /\ None \notin Fds
  /\ \A l \in Loops : l # None
BY TcpServerAssumption DEF Loops

(* A connection that waits for onConnect or is being served is in the      *)
(* table under its own fd.                                                 *)
LEMMA InTable ==
  ASSUME Inv, NEW c \in Conns, Served(c) \/ Queued(c)
  PROVE  /\ alive[c] /\ ~disconnected[c] /\ acur # c
         /\ fd[c] \in Fds /\ owner[fd[c]] = c /\ connects[fd[c]] = c
<1> USE DEF Inv, Links
<1>1. alive[c] /\ ~disconnected[c] /\ acur # c
  <2>1. CASE Queued(c)
    <3>1. PICK l \in Loops : \E k \in DOMAIN tasks[l] : tasks[l][k] = c
      BY <2>1 DEF Queued
    <3>2. alive[c] /\ loopOf[c] = l
      BY <3>1 DEF QueuesAreExact
    <3>3. acur # c
      BY <3>2, NoneIsNothing DEF InHand
    <3> QED BY <2>1, <3>2, <3>3 DEF UntouchedBeforeStart, Started
  <2>2. CASE Served(c)
    BY <2>2 DEF Served
  <2> QED BY <2>1, <2>2
<1>2. fd[c] \in Fds /\ owner[fd[c]] = c
  BY <1>1 DEF FdsAreOwned
<1> QED BY <1>1, <1>2 DEF TableEntries

-----------------------------------------------------------------------------
(* Types.                                                                  *)

LEMMA InitType == Init => TypeOK
<1> SUFFICES ASSUME Init PROVE TypeOK
  OBVIOUS
<1>1. 0 \in 0 .. MaxNow /\ 0 \in 0 .. (MaxNow + Timeout) /\ 0 \in Loops
  BY TcpServerAssumption DEF Loops
<1> QED BY <1>1 DEF Init, TypeOK, NoTimer

LEMMA ClockType ==
  ASSUME TypeOK
  PROVE  now + Timeout \in 0 .. (MaxNow + Timeout)
BY TcpServerAssumption DEF TypeOK

LEMMA DestroyType ==
  ASSUME TypeOK, DestroyUnreferenced
  PROVE  /\ alive' \in [Conns -> BOOLEAN]
         /\ owner' \in [Fds -> Conns \cup {None}]
         /\ armed' \in [Conns -> {"IN", "OUT", "off"}]
<1>1. alive' \in [Conns -> BOOLEAN]
  BY Zenon DEF DestroyUnreferenced
<1> QED BY <1>1 DEF TypeOK, DestroyUnreferenced

LEMMA AdjustedType ==
  ASSUME TypeOK, NEW l \in Loops, NEW f
  PROVE  Adjusted(l, f) \in [Loops -> [Fds -> [conn : Conns \cup {None},
                                             due : 0 .. (MaxNow + Timeout)]]]
<1> DEFINE T == [conn : Conns \cup {None}, due : 0 .. (MaxNow + Timeout)]
           t == [timers[l][f] EXCEPT !.due = now + Timeout]
<1>1. timers \in [Loops -> [Fds -> T]]
  BY DEF TypeOK
<1>2. f \in Fds => t \in T
  BY <1>1, ClockType
<1>3. Adjusted(l, f) = timers
      \/ Adjusted(l, f) = [timers EXCEPT ![l] = [timers[l] EXCEPT ![f] = t]]
  BY DEF Adjusted
<1> HIDE DEF t, T
<1>4. Adjusted(l, f) \in [Loops -> [Fds -> T]]
  BY <1>1, <1>2, <1>3
<1> QED BY <1>4 DEF T

LEMMA NoTimerType ==
  ASSUME TypeOK
  PROVE  NoTimer \in [conn : Conns \cup {None}, due : 0 .. (MaxNow + Timeout)]
BY TcpServerAssumption DEF NoTimer

LEMMA BeginCloseType ==
  ASSUME TypeOK, NEW l \in Loops, NEW c \in Conns \cup {None},
         NEW after \in {"erase", "eraseTimed"}, BeginClose(l, c, after)
  PROVE  /\ disconnected' \in [Conns -> BOOLEAN]
         /\ armed' \in [Conns -> {"IN", "OUT", "off"}]
         /\ cur' \in [Loops -> Conns \cup {None}]
         /\ lpc' \in [Loops -> {"wait", "events", "timers", "tasks", "erase",
                               "drop", "eraseTimed", "dropTimed"}]
BY DEF TypeOK, BeginClose

LEMMA EpollWaitType ==
  ASSUME TypeOK, NEW l \in Loops, EpollWait(l)
  PROVE  TypeOK'
<1> DEFINE E == [conn : Conns \cup {None}, kind : {"IN", "OUT", "HUP", "TIMER"}]
           B == {[conn |-> c, kind |-> EventOf(c)] : c \in ReadyConns(l)}
                 \cup (IF tick[l] THEN {[conn |-> None, kind |-> "TIMER"]} ELSE {})
<1>1. \A c \in ReadyConns(l) : c \in Conns /\ EventOf(c) \in {"HUP", "IN", "OUT"}
  BY DEF ReadyConns, EventOf
<1>2. B \subseteq E
  BY <1>1
<1>3. batch' = [batch EXCEPT ![l] = B]
  BY DEF EpollWait
<1> HIDE DEF B
<1>4. batch' \in [Loops -> SUBSET E]
  BY <1>2, <1>3 DEF TypeOK
<1> USE DEF TypeOK
<1>5. /\ armed' \in [Conns -> {"IN", "OUT", "off"}]
      /\ tick' \in [Loops -> BOOLEAN]
      /\ lpc' \in [Loops -> {"wait", "events", "timers", "tasks", "erase",
                            "drop", "eraseTimed", "dropTimed"}]
  BY DEF EpollWait
<1> QED BY <1>4, <1>5 DEF EpollWait, object, accepting

LEMMA DispatchType ==
  ASSUME TypeOK, NEW l \in Loops, NEW e \in batch[l], Dispatch(l, e)
  PROVE  TypeOK'
<1> DEFINE E == [conn : Conns \cup {None}, kind : {"IN", "OUT", "HUP", "TIMER"}]
<1>1. batch \in [Loops -> SUBSET E] /\ e \in E
  BY DEF TypeOK
<1>2. Took(l, e)
  BY DEF Dispatch, HandleConnectionClose, ReadFails, ReadAgain, ReadComplete,
     WriteStays, WriteCloses, HandleConnectionRead, HandleConnectionWrite,
     EventIgnored, EventOnFreedChannel, HandleTimeout
<1>3. batch' \in [Loops -> SUBSET E]
  BY <1>1, <1>2 DEF Took
<1>4. /\ e.conn \in Conns \cup {None}
      /\ now \in 0 .. MaxNow
      /\ [last EXCEPT ![e.conn] = now] \in [Conns -> 0 .. MaxNow]
  BY <1>1 DEF TypeOK
<1>5. [timers EXCEPT ![l][fd[e.conn]] = NoTimer]
        \in [Loops -> [Fds -> [conn : Conns \cup {None},
                              due : 0 .. (MaxNow + Timeout)]]]
  BY NoTimerType DEF TypeOK
<1>6. CASE HandleConnectionClose(l, e)
  BY <1>3, <1>4, <1>6, BeginCloseType
  DEF HandleConnectionClose, TypeOK, accepting
<1>7. CASE ReadFails(l, e) \/ WriteCloses(l, e)
  <2>1. BeginClose(l, e.conn, "erase")
    BY <1>7 DEF ReadFails, WriteCloses
  <2> QED
    BY <1>3, <1>4, <1>5, <1>7, <2>1, BeginCloseType
    DEF ReadFails, WriteCloses, HandleConnectionRead, HandleConnectionWrite,
        TypeOK, accepting
<1>8. ASSUME ReadAgain(l, e) \/ ReadComplete(l, e) \/ WriteStays(l, e)
      PROVE  TypeOK'
  <2>1. /\ timers' \in [Loops -> [Fds -> [conn : Conns \cup {None},
                                        due : 0 .. (MaxNow + Timeout)]]]
        /\ last' \in [Conns -> 0 .. MaxNow]
    BY <1>4, <1>8, AdjustedType DEF ReadAgain, ReadComplete, WriteStays,
       HandleConnectionRead, HandleConnectionWrite
  <2>2. /\ armed' \in [Conns -> {"IN", "OUT", "off"}]
        /\ peer' \in [Conns -> {"quiet", "data", "closed"}]
    BY <1>4, <1>8 DEF ReadAgain, ReadComplete, WriteStays, StayOpen, TypeOK
  <2>3. context' \in [Conns -> BOOLEAN]
    BY <1>8, Zenon DEF ReadAgain, ReadComplete, WriteStays, TypeOK
  <2>4. keep' \in [Conns -> BOOLEAN]
    <3>1. CASE ReadComplete(l, e)
      <4> PICK k \in {keep[e.conn], KeepAlive, FALSE} :
                 keep' = [keep EXCEPT ![e.conn] = k]
        BY <3>1 DEF ReadComplete
      <4>1. e.conn \in Conns => k \in BOOLEAN
        BY TcpServerAssumption DEF TypeOK
      <4> QED BY <4>1 DEF TypeOK
    <3>2. CASE ReadAgain(l, e) \/ WriteStays(l, e)
      BY <3>2 DEF ReadAgain, WriteStays, TypeOK
    <3> QED BY <1>8, <3>1, <3>2
  <2>5. UNCHANGED <<owner, tick, now, alive, fd, loopOf, disconnected, connects,
                    accepting, lpc, cur, tasks, deadline, ub>>
    BY <1>8 DEF ReadAgain, ReadComplete, WriteStays, StayOpen
  <2> QED BY <1>3, <2>1, <2>2, <2>3, <2>4, <2>5 DEF TypeOK, accepting
<1>9. CASE EventIgnored(l, e) \/ EventOnFreedChannel(l, e)
  BY <1>3, <1>9 DEF EventIgnored, EventOnFreedChannel, TypeOK, kernel, object,
     accepting
<1>10. CASE HandleTimeout(l, e)
  BY <1>3, <1>10 DEF HandleTimeout, TypeOK, kernel, object, accepting
<1> QED BY <1>6, <1>7, <1>8, <1>9, <1>10 DEF Dispatch

LEMMA NextType == TypeOK /\ InHand /\ [Next]_vars => TypeOK'
<1> SUFFICES ASSUME TypeOK, InHand, [Next]_vars PROVE TypeOK'
  OBVIOUS
<1>1. ASSUME NEW c \in Conns, NEW f \in Fds, Accept(c, f) PROVE TypeOK'
  <2>1. alive' \in [Conns -> BOOLEAN]
    BY <1>1, Zenon DEF Accept, TypeOK
  <2> QED BY <1>1, <2>1 DEF Accept, TypeOK, looping
<1>2. CASE InsertConnection
  BY <1>2, DestroyType DEF InsertConnection, TypeOK
<1>3. CASE HandOver
  <2>1. next \in Loops /\ next' \in Loops
    BY <1>3, TcpServerAssumption DEF HandOver, NextLoop, TypeOK, Loops
  <2>2. loopOf' \in [Conns -> Loops \cup {None}]
    BY <1>3, <2>1 DEF HandOver, TypeOK
  <2>3. tasks' \in [Loops -> Seq(Conns)]
    <3>1. acur \in Conns
      BY <1>3 DEF HandOver, InHand, TypeOK
    <3>2. Append(tasks[next], acur) \in Seq(Conns)
      BY <2>1, <3>1 DEF TypeOK
    <3> QED BY <1>3, <2>1, <3>2 DEF HandOver, TypeOK
  <2> QED BY <1>3, <2>1, <2>2, <2>3, DestroyType DEF HandOver, TypeOK
<1>4. ASSUME NEW l \in Loops, EpollWait(l) PROVE TypeOK'
  BY <1>4, EpollWaitType
<1>5. ASSUME NEW l \in Loops, NEW e \in batch[l], Dispatch(l, e) PROVE TypeOK'
  BY <1>5, DispatchType
<1>6. ASSUME NEW l \in Loops, NEW f \in Fds, FireTimer(l, f) PROVE TypeOK'
  <2>1. timers' \in [Loops -> [Fds -> [conn : Conns \cup {None},
                                      due : 0 .. (MaxNow + Timeout)]]]
    BY <1>6, NoTimerType DEF FireTimer, TypeOK
  <2>2. timers[l][f].conn \in Conns \cup {None}
    BY DEF TypeOK
  <2> QED BY <1>6, <2>1, <2>2, BeginCloseType DEF FireTimer, TypeOK, accepting
<1>7. ASSUME NEW l \in Loops, TimeoutReturns(l) PROVE TypeOK'
  BY <1>7, TcpServerAssumption
  DEF TimeoutReturns, TypeOK, kernel, object, accepting
<1>8. ASSUME NEW l \in Loops, EraseConnection(l) PROVE TypeOK'
  BY <1>8, DestroyType DEF EraseConnection, TypeOK
<1>9. ASSUME NEW l \in Loops, DropConnection(l) PROVE TypeOK'
  BY <1>9, DestroyType DEF DropConnection, TypeOK
<1>10. ASSUME NEW l \in Loops, BatchDone(l) \/ TasksDone(l) PROVE TypeOK'
  BY <1>10 DEF BatchDone, TasksDone, TypeOK, kernel, object, accepting
<1>11. ASSUME NEW l \in Loops, OnConnect(l) PROVE TypeOK'
  <2> DEFINE c == Head(tasks[l])
             t == [conn |-> c, due |-> now + Timeout]
  <2>1. c \in Conns /\ tasks' \in [Loops -> Seq(Conns)]
    BY <1>11 DEF OnConnect, TypeOK
  <2>2. t \in [conn : Conns \cup {None}, due : 0 .. (MaxNow + Timeout)]
    BY <2>1, ClockType
  <2>3. timers' = timers \/ timers' = [timers EXCEPT ![l][fd[c]] = t]
    BY <1>11 DEF OnConnect
  <2> HIDE DEF t, c
  <2>4. [timers[l] EXCEPT ![fd[c]] = t]
          \in [Fds -> [conn : Conns \cup {None}, due : 0 .. (MaxNow + Timeout)]]
    BY <2>2 DEF TypeOK
  <2>5. timers' \in [Loops -> [Fds -> [conn : Conns \cup {None},
                                      due : 0 .. (MaxNow + Timeout)]]]
    BY <2>3, <2>4 DEF TypeOK
  <2>6. armed' = armed \/ armed' = [armed EXCEPT ![c] = "IN"]
    BY <1>11 DEF OnConnect, c
  <2>7. last' = last \/ last' = [last EXCEPT ![c] = now]
    BY <1>11 DEF OnConnect, c
  <2>8. /\ armed' \in [Conns -> {"IN", "OUT", "off"}]
        /\ last' \in [Conns -> 0 .. MaxNow]
    <3>1. /\ armed \in [Conns -> {"IN", "OUT", "off"}]
          /\ last \in [Conns -> 0 .. MaxNow] /\ now \in 0 .. MaxNow
      BY DEF TypeOK
    <3>2. armed' \in [Conns -> {"IN", "OUT", "off"}]
      BY <2>6, <3>1
    <3>3. last' \in [Conns -> 0 .. MaxNow]
      BY <2>7, <3>1
    <3> QED BY <3>2, <3>3
  <2> QED BY <1>11, <2>1, <2>5, <2>8 DEF OnConnect, TypeOK, accepting
<1>12. ASSUME NEW c \in Conns, ClientSends(c) \/ ClientCloses(c) PROVE TypeOK'
  <2>1. peer' \in [Conns -> {"quiet", "data", "closed"}]
    <3>1. peer \in [Conns -> {"quiet", "data", "closed"}]
      BY DEF TypeOK
    <3>2. peer' = [peer EXCEPT ![c] = "data"] \/ peer' = [peer EXCEPT ![c] = "closed"]
      BY <1>12 DEF ClientSends, ClientCloses
    <3> QED BY <3>1, <3>2
  <2>2. UNCHANGED <<owner, armed, tick, now, object, connects, accepting, looping>>
    BY <1>12 DEF ClientSends, ClientCloses
  <2> QED BY <2>1, <2>2 DEF TypeOK, object, accepting, looping
<1>13. CASE Tick
  <2>1. now' \in 0 .. MaxNow /\ tick' \in [Loops -> BOOLEAN]
    BY <1>13, TcpServerAssumption DEF Tick, TypeOK
  <2> QED BY <1>13, <2>1 DEF Tick, TypeOK, object, accepting, looping
<1>14. CASE UNCHANGED vars
  BY <1>14 DEF vars, TypeOK, kernel, object, accepting, looping
<1> QED
  BY <1>1, <1>2, <1>3, <1>4, <1>5, <1>6, <1>7, <1>8, <1>9, <1>10, <1>11,
     <1>12, <1>13, <1>14 DEF Next, AcceptStep, LoopStep

-----------------------------------------------------------------------------
(* The steps of three kinds of handlers.                                   *)

(* Nothing that the invariant relates has changed.                         *)
LEMMA FrameKeepsLinks ==
  ASSUME Links,
         UNCHANGED <<owner, armed, alive, fd, loopOf, disconnected, context,
                     last, connects, apc, acur, lpc, cur, batch, tasks, timers>>
  PROVE  Links'
<1>1. \A c \in Conns : /\ Queued(c)' = Queued(c) /\ InBatch(c)' = InBatch(c)
                       /\ Referenced(c)' = Referenced(c)
  BY DEF Queued, InBatch, Referenced
<1>2. \A c \in Conns : Served(c)' = Served(c) /\ Started(c)' = Started(c)
  BY <1>1 DEF Served, Started
<1>3. (FdsAreOwned /\ ReferencesAreAlive /\ InHand /\ UntouchedBeforeStart)'
  BY <1>1, <1>2 DEF Links, FdsAreOwned, ReferencesAreAlive, InHand,
     UntouchedBeforeStart
<1>4. (TableEntries /\ QueuesAreExact /\ ClosingInOwnLoop)'
  BY DEF Links, TableEntries, QueuesAreExact, ClosingInOwnLoop
<1>5. (BatchInOwnLoop /\ TimersInOwnLoop)'
  BY <1>1 DEF Links, BatchInOwnLoop, TimersInOwnLoop
<1>6. (GuardedByOwnTimer /\ NeverDeaf)'
  BY <1>1, <1>2 DEF Links, GuardedByOwnTimer, NeverDeaf
<1> QED BY <1>3, <1>4, <1>5, <1>6 DEF Links

(* The loop goes on, having dropped at most events that concern no served  *)
(* connection.                                                             *)
LEMMA SkipKeepsLinks ==
  ASSUME Inv, NEW l \in Loops,
         UNCHANGED <<owner, armed, alive, fd, loopOf, disconnected, context,
                     last, connects, apc, acur, cur, tasks, timers>>,
         NEW to \in {"events", "timers", "tasks", "wait"},
         lpc[l] \in {"events", "timers", "tasks"},
         lpc' = [lpc EXCEPT ![l] = to],
         to \in {"tasks", "wait"} => batch'[l] = {},
         \A m \in Loops : m # l => batch'[m] = batch[m],
         \A e \in batch[l] : e \notin batch'[l] /\ e.conn \in Conns => ~Served(e.conn),
         batch'[l] \subseteq batch[l]
  PROVE  Links'
<1>1. \A c \in Conns : Queued(c)' = Queued(c) /\ Referenced(c)' = Referenced(c)
  BY DEF Queued, Referenced
<1>2. \A c \in Conns : Served(c)' = Served(c) /\ Started(c)' = Started(c)
  BY <1>1 DEF Served, Started
<1>3. (FdsAreOwned /\ ReferencesAreAlive /\ InHand /\ UntouchedBeforeStart)'
  BY <1>1, <1>2 DEF Inv, Links, FdsAreOwned, ReferencesAreAlive, InHand,
     UntouchedBeforeStart
<1>4. (TableEntries /\ QueuesAreExact)'
  BY DEF Inv, Links, TableEntries, QueuesAreExact
<1>5. ClosingInOwnLoop'
  BY DEF Inv, Links, ClosingInOwnLoop, TypeOK
<1>6. BatchInOwnLoop'
  BY <1>1 DEF Inv, Links, BatchInOwnLoop, TypeOK, Queued
<1>7. TimersInOwnLoop' /\ GuardedByOwnTimer'
  BY <1>1, <1>2 DEF Inv, Links, TimersInOwnLoop, GuardedByOwnTimer
<1>8. NeverDeaf'
  <2> SUFFICES ASSUME NEW c \in Conns, Served(c)'
               PROVE  armed'[c] # "off" \/ InBatch(c)'
    BY DEF NeverDeaf
  <2>1. armed[c] # "off" \/ InBatch(c)
    BY <1>2 DEF Inv, Links, NeverDeaf
  <2>2. ASSUME NEW m \in Loops, NEW e \in batch[m], e.conn = c
        PROVE  e \in batch'[m]
    BY <1>2, <2>2
  <2> QED BY <2>1, <2>2 DEF InBatch
<1> QED BY <1>3, <1>4, <1>5, <1>6, <1>7, <1>8 DEF Links

(* A handler in the loop of a served connection.                           *)
Serves(l, c) ==
  /\ lpc[l] \in {"events", "timers"}
  /\ Usable(c) /\ loopOf[c] = l /\ ~Queued(c)
  /\ UNCHANGED <<owner, alive, fd, loopOf, connects, apc, acur, tasks>>
  /\ \A m \in Loops : batch'[m] \subseteq batch[m]
  /\ \A m \in Loops : \A e \in batch[m] : e.conn # c => e \in batch'[m]
  /\ \A x \in Conns : x # c => last'[x] = last[x]

(* It begins to close the connection.                                      *)
LEMMA CloseKeepsLinks ==
  ASSUME Inv, NEW l \in Loops, NEW c \in Conns, Serves(l, c),
         NEW after \in {"erase", "eraseTimed"}, BeginClose(l, c, after),
         UNCHANGED context,
         \A m \in Loops, f \in Fds :
           timers'[m][f] = timers[m][f]
           \/ (timers'[m][f] = NoTimer /\ m = l /\ f = fd[c])
  PROVE  Links'
<1> USE DEF Inv, Links
<1>1. \A x \in Conns : Queued(x)' = Queued(x)
  BY DEF Queued, Serves
<1>2. \A x \in Conns : Started(x)' = Started(x)
  BY <1>1 DEF Started, Serves
<1>3. \A x \in Conns : disconnected'[x] = IF x = c THEN TRUE ELSE disconnected[x]
  BY DEF BeginClose, TypeOK
<1>4. \A x \in Conns : armed'[x] = IF x = c THEN "off" ELSE armed[x]
  BY DEF BeginClose, TypeOK
<1>5. \A m \in Loops : /\ cur'[m] = IF m = l THEN c ELSE cur[m]
                       /\ lpc'[m] = IF m = l THEN after ELSE lpc[m]
  BY DEF BeginClose, TypeOK
<1>6. c # None /\ cur[l] = None
  BY TcpServerAssumption DEF Serves, ClosingInOwnLoop
<1>7. \A x \in Conns : Served(x)' => Served(x) /\ x # c
  BY <1>1, <1>3 DEF Served, Serves
<1>8. FdsAreOwned' /\ InHand'
  BY DEF FdsAreOwned, InHand, Serves
<1>9. ReferencesAreAlive'
  BY <1>5 DEF ReferencesAreAlive, Referenced, Serves, Usable
<1>10. UntouchedBeforeStart'
  <2> SUFFICES ASSUME NEW x \in Conns, ~Started(x)
               PROVE  ~disconnected'[x] /\ ~context'[x] /\ armed'[x] = "off"
    BY <1>2 DEF UntouchedBeforeStart
  <2>1. ~disconnected[x] /\ ~context[x] /\ armed[x] = "off"
    BY DEF UntouchedBeforeStart
  <2>2. x # c
    BY NoneIsNothing DEF Serves, Started
  <2> QED BY <1>3, <1>4, <2>1, <2>2
<1>11. TableEntries' /\ QueuesAreExact'
  BY <1>3 DEF TableEntries, QueuesAreExact, Serves
<1>12. ClosingInOwnLoop'
  <2> SUFFICES ASSUME NEW m \in Loops
               PROVE  /\ cur'[m] # None
                           <=> lpc'[m] \in {"erase", "eraseTimed", "drop", "dropTimed"}
                      /\ cur'[m] # None => loopOf[cur'[m]] = m /\ disconnected'[cur'[m]]
    BY DEF ClosingInOwnLoop, Serves
  <2>1. CASE m = l
    BY <1>3, <1>5, <1>6, <2>1 DEF Serves
  <2>2. CASE m # l
    <3>1. cur'[m] = cur[m] /\ lpc'[m] = lpc[m]
      BY <1>5, <2>2
    <3>2. cur[m] # None => cur[m] \in Conns
      BY DEF TypeOK
    <3>3. /\ cur[m] # None
               <=> lpc[m] \in {"erase", "eraseTimed", "drop", "dropTimed"}
          /\ cur[m] # None => loopOf[cur[m]] = m /\ disconnected[cur[m]]
      BY DEF ClosingInOwnLoop
    <3>4. loopOf' = loopOf
      BY DEF Serves
    <3> QED BY <1>3, <3>1, <3>2, <3>3, <3>4
  <2> QED BY <2>1, <2>2
<1>13. BatchInOwnLoop'
  BY <1>1, <1>5 DEF BatchInOwnLoop, Serves
<1>14. TimersInOwnLoop'
  BY <1>1 DEF TimersInOwnLoop, Serves
<1>15. GuardedByOwnTimer'
  <2> SUFFICES ASSUME NEW x \in Conns, Served(x)'
               PROVE  timers'[loopOf[x]][fd[x]] = [conn |-> x, due |-> last[x] + Timeout]
                      /\ last'[x] = last[x]
    BY DEF GuardedByOwnTimer, Serves
  <2>1. Served(x) /\ x # c
    BY <1>7
  <2>2. alive[x] /\ alive[c] /\ fd[x] \in Fds /\ fd[x] # fd[c]
    BY <2>1 DEF Served, Serves, Usable, FdsAreOwned
  <2>3. loopOf[x] \in Loops
    BY <2>1, <2>2, TcpServerAssumption DEF TypeOK, Served, InHand
  <2> QED BY <2>1, <2>2, <2>3 DEF GuardedByOwnTimer, Serves
<1>16. NeverDeaf'
  BY <1>4, <1>7 DEF NeverDeaf, InBatch, Serves
<1> QED BY <1>8, <1>9, <1>10, <1>11, <1>12, <1>13, <1>14, <1>15, <1>16

(* It keeps the connection, arms it again and moves its timer.             *)
LEMMA ServeKeepsLinks ==
  ASSUME Inv, NEW l \in Loops, NEW c \in Conns, Serves(l, c),
         NEW events \in {"IN", "OUT"}, StayOpen(c, events),
         last' = [last EXCEPT ![c] = now],
         timers' = Adjusted(l, fd[c]),
         \A x \in Conns : x # c => context'[x] = context[x]
  PROVE  Links'
<1> USE DEF Inv, Links
<1>1. \A x \in Conns : Queued(x)' = Queued(x)
  BY DEF Queued, Serves
<1>2. \A x \in Conns : Started(x)' = Started(x) /\ Served(x)' = Served(x)
  BY <1>1 DEF Started, Served, Serves, StayOpen
<1>3. \A x \in Conns : armed'[x] = IF x = c THEN events ELSE armed[x]
  BY DEF StayOpen, TypeOK
<1>4. \A m \in Loops, f \in Fds :
        /\ timers'[m][f] # NoTimer => timers[m][f] # NoTimer
        /\ timers'[m][f].conn = timers[m][f].conn
        /\ m # l \/ f # fd[c] => timers'[m][f] = timers[m][f]
        /\ m = l /\ f = fd[c] /\ timers[m][f] # NoTimer =>
             timers'[m][f] = [conn |-> timers[m][f].conn, due |-> now + Timeout]
  <2>1. CASE timers[l][fd[c]] = NoTimer
    BY <2>1 DEF Adjusted
  <2>2. CASE timers[l][fd[c]] # NoTimer
    <3> DEFINE t == [timers[l][fd[c]] EXCEPT !.due = now + Timeout]
    <3>1. fd[c] \in Fds
      BY DEF Serves, Usable, FdsAreOwned
    <3>2. t = [conn |-> timers[l][fd[c]].conn, due |-> now + Timeout]
      <4>1. timers[l][fd[c]] \in [conn : Conns \cup {None},
                                 due : 0 .. (MaxNow + Timeout)]
        BY <3>1 DEF TypeOK
      <4> QED BY <4>1
    <3>3. t # NoTimer /\ t.conn = timers[l][fd[c]].conn
      BY <2>2, <3>1, <3>2, NoneIsNothing DEF TimersInOwnLoop, NoTimer
    <3>4. timers' = [timers EXCEPT ![l] = [timers[l] EXCEPT ![fd[c]] = t]]
      BY <2>2 DEF Adjusted
    <3> HIDE DEF t
    <3>5. \A m \in Loops, f \in Fds :
            timers'[m][f] = IF m = l /\ f = fd[c] THEN t ELSE timers[m][f]
      BY <3>4 DEF TypeOK
    <3> QED BY <2>2, <3>2, <3>3, <3>5
  <2> QED BY <2>1, <2>2
<1>5. FdsAreOwned' /\ InHand'
  BY DEF FdsAreOwned, InHand, Serves
<1>6. ReferencesAreAlive'
  BY DEF ReferencesAreAlive, Referenced, Serves, Usable, StayOpen
<1>7. UntouchedBeforeStart'
  BY <1>2, <1>3, NoneIsNothing DEF UntouchedBeforeStart, Serves, Started, StayOpen
<1>8. TableEntries' /\ QueuesAreExact'
  BY DEF TableEntries, QueuesAreExact, Serves, StayOpen
<1>9. ClosingInOwnLoop'
  BY DEF ClosingInOwnLoop, Serves, StayOpen
<1>10. BatchInOwnLoop'
  BY <1>1 DEF BatchInOwnLoop, Serves, StayOpen
<1>11. TimersInOwnLoop'
  <2>1. \A m \in Loops, f \in Fds :
          timers'[m][f] # NoTimer
            => LET x == timers'[m][f].conn IN
               x \in Conns /\ fd[x] = f /\ loopOf[x] = m /\ ~Queued(x)
    <3> TAKE m \in Loops, f \in Fds
    <3> HAVE timers'[m][f] # NoTimer
    <3>1. timers[m][f] # NoTimer /\ timers'[m][f].conn = timers[m][f].conn
      BY <1>4, Zenon
    <3>2. LET x == timers[m][f].conn IN
          x \in Conns /\ fd[x] = f /\ loopOf[x] = m /\ ~Queued(x)
      BY <3>1, Zenon DEF TimersInOwnLoop
    <3> QED BY <3>1, <3>2, Zenon
  <2>2. UNCHANGED <<loopOf, fd>>
    BY SMTT(30) DEF Serves
  <2> HIDE DEF Links
  <2> QED BY <1>1, <2>1, <2>2, SMTT(30) DEF TimersInOwnLoop, NoTimer
<1>12. GuardedByOwnTimer'
  <2> SUFFICES ASSUME NEW x \in Conns, Served(x)
               PROVE  timers'[loopOf[x]][fd[x]] = [conn |-> x, due |-> last'[x] + Timeout]
    BY <1>2 DEF GuardedByOwnTimer, Serves
  <2>1. timers[loopOf[x]][fd[x]] = [conn |-> x, due |-> last[x] + Timeout]
    BY DEF GuardedByOwnTimer
  <2>2. x # None /\ timers[loopOf[x]][fd[x]] # NoTimer
    BY <2>1, TcpServerAssumption DEF NoTimer
  <2>3. fd[x] \in Fds /\ owner[fd[x]] = x /\ owner[fd[c]] = c
    BY DEF Served, Serves, Usable, FdsAreOwned
  <2>4. loopOf[x] \in Loops
    BY <2>3, <2>2, TcpServerAssumption DEF TypeOK, Served, InHand
  <2>5. CASE x = c
    BY <1>4, <2>1, <2>2, <2>3, <2>4, <2>5 DEF Serves, TypeOK
  <2>6. CASE x # c
    BY <1>4, <2>1, <2>3, <2>4, <2>6 DEF TypeOK
  <2> QED BY <2>5, <2>6
<1>13. NeverDeaf'
  BY <1>2, <1>3 DEF NeverDeaf, InBatch, Serves
<1> QED BY <1>5, <1>6, <1>7, <1>8, <1>9, <1>10, <1>11, <1>12, <1>13

-----------------------------------------------------------------------------
(* The steps of a worker loop.                                             *)

LEMMA DispatchKeepsLinks ==
  ASSUME Inv, NEW l \in Loops, NEW e \in batch[l], Dispatch(l, e)
  PROVE  Links'
<1> DEFINE c == e.conn
<1>1. Took(l, e)
  BY DEF Dispatch, HandleConnectionClose, ReadFails, ReadAgain, ReadComplete,
     WriteStays, WriteCloses, HandleConnectionRead, HandleConnectionWrite,
     EventIgnored, EventOnFreedChannel, HandleTimeout
<1>2. lpc[l] = "events" /\ \A m \in Loops :
        batch'[m] = IF m = l THEN batch[l] \ {e} ELSE batch[m]
  BY <1>1 DEF Took, Inv, TypeOK
<1>3. e.kind # "TIMER" => c \in Conns /\ loopOf[c] = l /\ ~Queued(c)
  BY DEF Inv, Links, BatchInOwnLoop
<1>4. \A m \in Loops : /\ batch'[m] \subseteq batch[m]
                       /\ \A d \in batch[m] : d.conn # c => d \in batch'[m]
  BY <1>2
<1>5. CASE HandleConnectionClose(l, e) \/ ReadFails(l, e) \/ WriteCloses(l, e)
  <2>1. e.kind # "TIMER" /\ Usable(c)
    BY <1>5 DEF HandleConnectionClose, ReadFails, WriteCloses,
       HandleConnectionRead, HandleConnectionWrite
  <2>2. BeginClose(l, c, "erase") /\ UNCHANGED context
    BY <1>5 DEF HandleConnectionClose, ReadFails, WriteCloses
  <2>3. timers' = timers \/ timers' = [timers EXCEPT ![l][fd[c]] = NoTimer]
    BY <1>5 DEF HandleConnectionClose, ReadFails, WriteCloses
  <2>4. \A m \in Loops, f \in Fds :
          timers'[m][f] = timers[m][f]
          \/ (timers'[m][f] = NoTimer /\ m = l /\ f = fd[c])
    <3> DEFINE T == [conn : Conns \cup {None}, due : 0 .. (MaxNow + Timeout)]
               t == NoTimer
    <3>1. timers \in [Loops -> [Fds -> T]]
      BY DEF Inv, TypeOK
    <3>2. timers' = timers \/ timers' = [timers EXCEPT ![l] = [timers[l] EXCEPT ![fd[c]] = t]]
      BY <2>3
    <3> HIDE DEF T, t
    <3>3. \A m \in Loops, f \in Fds :
            timers'[m][f] = timers[m][f] \/ (timers'[m][f] = t /\ m = l /\ f = fd[c])
      BY <3>1, <3>2
    <3> QED BY <3>3 DEF t
  <2>5. last' = last \/ last' = [last EXCEPT ![c] = now]
    BY <1>5 DEF HandleConnectionClose, ReadFails, WriteCloses,
       HandleConnectionRead, HandleConnectionWrite
  <2>6. \A x \in Conns : x # c => last'[x] = last[x]
    BY <2>5 DEF Inv, TypeOK
  <2>7. UNCHANGED <<owner, alive, fd, loopOf, connects, apc, acur, tasks>>
    BY <1>5 DEF HandleConnectionClose, ReadFails, WriteCloses, accepting
  <2>8. Serves(l, c)
    BY <1>2, <1>3, <1>4, <2>1, <2>6, <2>7 DEF Serves
  <2> HIDE DEF c
  <2> QED BY <1>3, <2>1, <2>2, <2>4, <2>8, CloseKeepsLinks
<1>6. CASE ReadAgain(l, e) \/ ReadComplete(l, e) \/ WriteStays(l, e)
  <2>1. /\ e.kind # "TIMER" /\ Usable(c)
        /\ last' = [last EXCEPT ![c] = now]
        /\ timers' = Adjusted(l, fd[c])
    BY <1>6 DEF ReadAgain, ReadComplete, WriteStays, HandleConnectionRead,
       HandleConnectionWrite
  <2>2. PICK events \in {"IN", "OUT"} : StayOpen(c, events)
    BY <1>6 DEF ReadAgain, ReadComplete, WriteStays
  <2>3. \A x \in Conns : x # c => /\ context'[x] = context[x]
                                 /\ last'[x] = last[x]
    BY <1>6, <2>1 DEF ReadAgain, ReadComplete, WriteStays, Inv, TypeOK
  <2>4. UNCHANGED <<owner, alive, fd, loopOf, connects, apc, acur, tasks>>
    BY <1>6 DEF ReadAgain, ReadComplete, WriteStays, accepting
  <2>5. Serves(l, c)
    BY <1>2, <1>3, <1>4, <2>1, <2>3, <2>4 DEF Serves
  <2> HIDE DEF c
  <2> QED BY <1>3, <2>1, <2>2, <2>3, <2>5, ServeKeepsLinks
<1>7. ASSUME \/ EventIgnored(l, e) \/ EventOnFreedChannel(l, e)
             \/ HandleTimeout(l, e)
      PROVE  Links'
  <2>1. UNCHANGED <<owner, armed, alive, fd, loopOf, disconnected, context, last,
                    connects, apc, acur, cur, tasks, timers>>
    BY <1>7 DEF EventIgnored, EventOnFreedChannel, HandleTimeout, kernel,
       object, accepting
  <2>2. PICK to \in {"events", "timers"} : lpc' = [lpc EXCEPT ![l] = to]
    <3>1. lpc = [lpc EXCEPT ![l] = "events"]
      BY <1>2 DEF Inv, TypeOK
    <3> QED BY <1>7, <3>1 DEF EventIgnored, EventOnFreedChannel, HandleTimeout
  <2>3. c \in Conns => ~Served(c)
    <3>1. e.kind = "TIMER" => c = None
      BY DEF Inv, Links, BatchInOwnLoop
    <3> QED BY <1>7, <3>1, NoneIsNothing
            DEF EventIgnored, EventOnFreedChannel, HandleTimeout, Served
  <2> QED BY <1>2, <2>1, <2>2, <2>3, SkipKeepsLinks
<1> QED BY <1>5, <1>6, <1>7 DEF Dispatch

LEMMA EpollWaitKeepsLinks ==
  ASSUME Inv, NEW l \in Loops, EpollWait(l)
  PROVE  Links'
<1> USE DEF Inv, Links
<1> DEFINE R == ReadyConns(l)
<1>1. \A c \in R : c \in Conns /\ loopOf[c] = l /\ armed[c] # "off"
                   /\ EventOf(c) \in {"HUP", "IN", "OUT"}
  BY DEF ReadyConns, EventOf
<1>2. \A c \in R : Started(c)
  BY <1>1 DEF UntouchedBeforeStart
<1>3. /\ \A e \in batch'[l] : IF e.kind = "TIMER" THEN e.conn = None
                              ELSE e.conn \in R
      /\ \A c \in R : \E e \in batch'[l] : e.conn = c
      /\ \A m \in Loops : m # l => batch'[m] = batch[m]
  <2>1. batch'[l] = {[conn |-> c, kind |-> EventOf(c)] : c \in R}
                    \cup (IF tick[l] THEN {[conn |-> None, kind |-> "TIMER"]} ELSE {})
    BY DEF EpollWait, TypeOK
  <2>2. \A m \in Loops : m # l => batch'[m] = batch[m]
    BY DEF EpollWait, TypeOK
  <2>3. \A c \in R : [conn |-> c, kind |-> EventOf(c)] \in batch'[l]
    BY <2>1
  <2>4. \A e \in batch'[l] : e = [conn |-> None, kind |-> "TIMER"]
                             \/ \E c \in R : e = [conn |-> c, kind |-> EventOf(c)]
    BY <2>1
  <2>5. \A e \in batch'[l] : IF e.kind = "TIMER" THEN e.conn = None
                             ELSE e.conn \in R
    BY <1>1, <2>4
  <2>6. \A c \in R : \E e \in batch'[l] : e.conn = c
    <3> TAKE c \in R
    <3>1. [conn |-> c, kind |-> EventOf(c)].conn = c
      OBVIOUS
    <3> QED BY <2>3, <3>1
  <2> QED BY <2>2, <2>5, <2>6
<1>4. \A c \in Conns : armed'[c] = IF c \in R THEN "off" ELSE armed[c]
  BY DEF EpollWait
<1>5. \A m \in Loops : lpc'[m] = IF m = l THEN "events" ELSE lpc[m]
  BY DEF EpollWait, TypeOK
<1>6. /\ lpc[l] = "wait"
      /\ UNCHANGED <<owner, alive, fd, loopOf, disconnected, context, last,
                     connects, apc, acur, cur, tasks, timers>>
  BY DEF EpollWait, object, accepting
<1> HIDE DEF R
<1>7. \A c \in Conns : /\ Queued(c)' = Queued(c) /\ Referenced(c)' = Referenced(c)
                       /\ Served(c)' = Served(c) /\ Started(c)' = Started(c)
  BY <1>6 DEF Queued, Referenced, Served, Started
<1>8. (FdsAreOwned /\ ReferencesAreAlive /\ InHand)'
  BY <1>6, <1>7 DEF FdsAreOwned, ReferencesAreAlive, InHand
<1>9. UntouchedBeforeStart'
  BY <1>4, <1>6, <1>7 DEF UntouchedBeforeStart
<1>10. (TableEntries /\ QueuesAreExact /\ ClosingInOwnLoop)'
  BY <1>5, <1>6 DEF TableEntries, QueuesAreExact, ClosingInOwnLoop
<1>11. BatchInOwnLoop'
  <2>1. \A c \in R : loopOf[c] = l /\ ~Queued(c)
    BY <1>1, <1>2 DEF Started
  <2> SUFFICES ASSUME NEW m \in Loops
               PROVE  /\ lpc'[m] \in {"wait", "tasks"} => batch'[m] = {}
                      /\ \A e \in batch'[m] :
                           IF e.kind = "TIMER" THEN e.conn = None
                           ELSE /\ e.conn \in Conns /\ loopOf[e.conn] = m
                                /\ ~Queued(e.conn)
    BY <1>6, <1>7 DEF BatchInOwnLoop
  <2>2. CASE m = l
    BY <1>1, <1>3, <1>5, <2>1, <2>2
  <2>3. CASE m # l
    BY <1>3, <1>5, <2>3 DEF BatchInOwnLoop
  <2> QED BY <2>2, <2>3
<1>12. TimersInOwnLoop' /\ GuardedByOwnTimer'
  BY <1>6, <1>7 DEF TimersInOwnLoop, GuardedByOwnTimer
<1>13. NeverDeaf'
  <2> SUFFICES ASSUME NEW c \in Conns, Served(c)
               PROVE  armed'[c] # "off" \/ InBatch(c)'
    BY <1>7 DEF NeverDeaf
  <2>1. CASE c \in R
    BY <1>3, <2>1 DEF InBatch
  <2>2. CASE c \notin R /\ armed[c] # "off"
    BY <1>4, <2>2
  <2>3. CASE InBatch(c)
    <3>1. PICK m \in Loops : \E e \in batch[m] : e.conn = c
      BY <2>3 DEF InBatch
    <3>2. m # l
      BY <1>6, <3>1 DEF BatchInOwnLoop
    <3> QED BY <1>3, <3>1, <3>2 DEF InBatch
  <2> QED BY <2>1, <2>2, <2>3 DEF NeverDeaf
<1> QED BY <1>8, <1>9, <1>10, <1>11, <1>12, <1>13

LEMMA FireTimerKeepsLinks ==
  ASSUME Inv, NEW l \in Loops, NEW f \in Fds, FireTimer(l, f)
  PROVE  Links'
<1> DEFINE c == timers[l][f].conn
<1>1. /\ lpc[l] = "timers" /\ c \in Conns /\ fd[c] = f /\ loopOf[c] = l
      /\ ~Queued(c)
  BY DEF FireTimer, DueTimers, Inv, Links, TimersInOwnLoop
<1>2. \A m \in Loops, g \in Fds :
        timers'[m][g] = IF m = l /\ g = f THEN NoTimer ELSE timers[m][g]
  BY DEF FireTimer, Inv, TypeOK
<1>3. UNCHANGED <<owner, alive, fd, loopOf, context, last, connects, apc, acur,
                  batch, tasks>>
  BY DEF FireTimer, accepting
<1>4. CASE Usable(c)
  <2>1. BeginClose(l, c, "eraseTimed")
    BY <1>4 DEF FireTimer
  <2>2. Serves(l, c)
    BY <1>1, <1>3, <1>4 DEF Serves
  <2> HIDE DEF c
  <2> QED BY <1>1, <1>2, <1>3, <2>1, <2>2, CloseKeepsLinks
<1>5. CASE ~Usable(c)
  <2>1. UNCHANGED <<disconnected, armed, cur, lpc>>
    BY <1>5 DEF FireTimer
  <2>2. \A x \in Conns : /\ Queued(x)' = Queued(x) /\ InBatch(x)' = InBatch(x)
                         /\ Referenced(x)' = Referenced(x)
                         /\ Served(x)' = Served(x) /\ Started(x)' = Started(x)
    BY <1>3, <2>1 DEF Queued, InBatch, Referenced, Served, Started
  <2>3. (FdsAreOwned /\ ReferencesAreAlive /\ InHand /\ UntouchedBeforeStart)'
    BY <1>3, <2>1, <2>2 DEF Inv, Links, FdsAreOwned, ReferencesAreAlive, InHand,
       UntouchedBeforeStart
  <2>4. (TableEntries /\ QueuesAreExact /\ ClosingInOwnLoop)'
    BY <1>3, <2>1 DEF Inv, Links, TableEntries, QueuesAreExact, ClosingInOwnLoop
  <2>5. BatchInOwnLoop' /\ NeverDeaf'
    BY <1>3, <2>1, <2>2 DEF Inv, Links, BatchInOwnLoop, NeverDeaf
  <2>6. TimersInOwnLoop'
    <3> SUFFICES ASSUME NEW m \in Loops, NEW g \in Fds, timers'[m][g] # NoTimer
                 PROVE  LET x == timers'[m][g].conn IN
                        x \in Conns /\ fd[x] = g /\ loopOf[x] = m /\ ~Queued(x)
      BY <1>3, <2>2 DEF TimersInOwnLoop
    <3>1. timers'[m][g] = timers[m][g]
      BY <1>2
    <3> QED BY <3>1 DEF Inv, Links, TimersInOwnLoop
  <2>7. GuardedByOwnTimer'
    <3> SUFFICES ASSUME NEW x \in Conns, Served(x)
                 PROVE  timers'[loopOf[x]][fd[x]] = timers[loopOf[x]][fd[x]]
      BY <1>3, <2>2 DEF GuardedByOwnTimer, Inv, Links
    <3>1. timers[loopOf[x]][fd[x]].conn = x
      <4>1. timers[loopOf[x]][fd[x]] = [conn |-> x, due |-> last[x] + Timeout]
        BY DEF Inv, Links, GuardedByOwnTimer
      <4> QED BY <4>1
    <3>2. Usable(x) /\ fd[x] \in Fds /\ fd[x] # None
      BY NoneIsNothing DEF Inv, Links, Served, Usable, FdsAreOwned
    <3>3. loopOf[x] \in Loops
      BY <3>2 DEF Inv, Links, Served, TypeOK, InHand
    <3>4. ~(loopOf[x] = l /\ fd[x] = f)
      BY <1>5, <3>1, <3>2
    <3> QED BY <1>2, <3>2, <3>3, <3>4
  <2> QED BY <2>3, <2>4, <2>5, <2>6, <2>7 DEF Links
<1> QED BY <1>4, <1>5

(* The places of a queue after its head has gone.                          *)
LEMMA TailPlaces ==
  ASSUME NEW S, NEW q \in Seq(S), q # <<>>
  PROVE  /\ 1 \in DOMAIN q /\ Head(q) = q[1]
         /\ \A k \in DOMAIN Tail(q) : k + 1 \in DOMAIN q /\ Tail(q)[k] = q[k + 1]
                                      /\ k \in Nat \ {0}
         /\ \A k \in DOMAIN q : k # 1 => k - 1 \in DOMAIN Tail(q)
                                         /\ Tail(q)[k - 1] = q[k]
<1>1. Len(q) \in Nat \ {0} /\ DOMAIN q = 1 .. Len(q) /\ Head(q) = q[1]
  OBVIOUS
<1>2. /\ Tail(q) \in Seq(S) /\ Len(Tail(q)) = Len(q) - 1
      /\ \A k \in 1 .. (Len(q) - 1) : Tail(q)[k] = q[k + 1]
  BY <1>1
<1> DEFINE r == Tail(q)
<1>3. DOMAIN r = 1 .. (Len(q) - 1)
  BY <1>2
<1> HIDE DEF r
<1>4. \A k \in DOMAIN r : k + 1 \in DOMAIN q /\ r[k] = q[k + 1] /\ k \in Nat \ {0}
  BY <1>1, <1>2, <1>3 DEF r
<1>5. \A k \in DOMAIN q : k # 1 => k - 1 \in DOMAIN r /\ r[k - 1] = q[k]
  BY <1>1, <1>2, <1>3 DEF r
<1> QED BY <1>1, <1>4, <1>5 DEF r

LEMMA OnConnectKeepsLinks ==
  ASSUME Inv, NEW l \in Loops, OnConnect(l)
  PROVE  Links'
<1> USE DEF Inv, Links
<1> DEFINE c == Head(tasks[l])
           t == [conn |-> c, due |-> now + Timeout]
<1>1. tasks[l] \in Seq(Conns) /\ tasks[l] # <<>>
  BY DEF OnConnect, TypeOK
<1>2. /\ c \in Conns /\ c = tasks[l][1] /\ 1 \in DOMAIN tasks[l]
      /\ \A k \in DOMAIN Tail(tasks[l]) :
           /\ k + 1 \in DOMAIN tasks[l] /\ Tail(tasks[l])[k] = tasks[l][k + 1]
           /\ k \in Nat \ {0}
      /\ \A k \in DOMAIN tasks[l] : k # 1 =>
           k - 1 \in DOMAIN Tail(tasks[l]) /\ Tail(tasks[l])[k - 1] = tasks[l][k]
  BY <1>1, TailPlaces
<1>3. /\ alive[c] /\ loopOf[c] = l /\ Queued(c) /\ fd[c] \in Fds
      /\ ~disconnected[c] /\ acur # c
  BY <1>2, NoneIsNothing DEF QueuesAreExact, Queued, UntouchedBeforeStart,
     Started, FdsAreOwned, InHand
<1>4. /\ lpc[l] = "tasks"
      /\ tasks' = [tasks EXCEPT ![l] = Tail(tasks[l])]
      /\ armed' = [armed EXCEPT ![c] = "IN"]
      /\ timers' = [timers EXCEPT ![l][fd[c]] = t]
      /\ last' = [last EXCEPT ![c] = now]
      /\ UNCHANGED <<owner, alive, fd, loopOf, disconnected, context, connects,
                     apc, acur, lpc, cur, batch>>
  BY <1>3 DEF OnConnect, accepting
<1> HIDE DEF t, c
<1>5. /\ \A m \in Loops : tasks'[m] = IF m = l THEN Tail(tasks[l]) ELSE tasks[m]
      /\ \A x \in Conns : armed'[x] = IF x = c THEN "IN" ELSE armed[x]
      /\ \A x \in Conns : last'[x] = IF x = c THEN now ELSE last[x]
  BY <1>4 DEF TypeOK
<1>6. \A m \in Loops, f \in Fds :
        timers'[m][f] = IF m = l /\ f = fd[c] THEN t ELSE timers[m][f]
  BY <1>4 DEF TypeOK
<1>7. \A x \in Conns : Queued(x)' <=> Queued(x) /\ x # c
  <2> TAKE x \in Conns
  <2>1. ASSUME NEW m \in Loops, NEW k \in DOMAIN tasks'[m], tasks'[m][k] = x
        PROVE  Queued(x) /\ x # c
    <3>1. CASE m = l
      <4> DEFINE r == Tail(tasks[l])
      <4>1. k \in DOMAIN r /\ r[k] = x
        BY <1>5, <2>1, <3>1
      <4>2. /\ k + 1 \in DOMAIN tasks[l] /\ r[k] = tasks[l][k + 1]
            /\ k \in Nat \ {0}
        BY <1>2, <4>1
      <4>3. k + 1 \in DOMAIN tasks[l] /\ tasks[l][k + 1] = x /\ k + 1 # 1
        BY <4>1, <4>2
      <4> QED BY <1>2, <4>3 DEF Queued, QueuesAreExact
    <3>2. CASE m # l
      <4>1. k \in DOMAIN tasks[m] /\ tasks[m][k] = x
        BY <1>5, <2>1, <3>2
      <4> QED BY <1>3, <3>2, <4>1 DEF Queued, QueuesAreExact
    <3> QED BY <3>1, <3>2
  <2>2. ASSUME Queued(x), x # c PROVE Queued(x)'
    <3> PICK m \in Loops : \E k \in DOMAIN tasks[m] : tasks[m][k] = x
      BY <2>2 DEF Queued
    <3>1. PICK k \in DOMAIN tasks[m] : tasks[m][k] = x
      OBVIOUS
    <3>2. CASE m = l
      <4>1. k - 1 \in DOMAIN tasks'[l] /\ tasks'[l][k - 1] = x
        BY <1>2, <1>5, <2>2, <3>1, <3>2
      <4> QED BY <4>1 DEF Queued
    <3>3. CASE m # l
      BY <1>5, <3>1, <3>3 DEF Queued
    <3> QED BY <3>2, <3>3
  <2> QED BY <2>1, <2>2 DEF Queued
<1>8. \A x \in Conns : /\ Referenced(x)' = Referenced(x)
                       /\ InBatch(x)' = InBatch(x)
  BY <1>4 DEF Referenced, InBatch
<1>9. \A x \in Conns : /\ Served(x)' => Served(x) \/ x = c
                       /\ Started(x)' <=> Started(x) \/ x = c
  BY <1>3, <1>4, <1>7, NoneIsNothing DEF Served, Started
<1>10. (FdsAreOwned /\ ReferencesAreAlive /\ InHand)'
  BY <1>4, <1>8 DEF FdsAreOwned, ReferencesAreAlive, InHand
<1>11. UntouchedBeforeStart' /\ NeverDeaf'
  BY <1>4, <1>5, <1>8, <1>9 DEF UntouchedBeforeStart, NeverDeaf
<1>12. (TableEntries /\ ClosingInOwnLoop)'
  BY <1>4 DEF TableEntries, ClosingInOwnLoop
<1>13. QueuesAreExact'
  <2> SUFFICES ASSUME NEW m \in Loops
               PROVE  /\ \A k \in DOMAIN tasks'[m] :
                           loopOf[tasks'[m][k]] = m /\ alive[tasks'[m][k]]
                      /\ \A j, k \in DOMAIN tasks'[m] :
                           tasks'[m][j] = tasks'[m][k] => j = k
    BY <1>4 DEF QueuesAreExact
  <2>1. CASE m = l
    <3>1. \A k \in DOMAIN tasks'[l] :
            /\ k + 1 \in DOMAIN tasks[l] /\ tasks'[l][k] = tasks[l][k + 1]
            /\ k \in Nat
      BY <1>2, <1>5
    <3>2. \A j, k \in DOMAIN tasks'[l] :
            tasks'[l][j] = tasks'[l][k] => j + 1 = k + 1
      BY <3>1 DEF QueuesAreExact
    <3>3. \A k \in DOMAIN tasks'[l] :
            loopOf[tasks'[l][k]] = l /\ alive[tasks'[l][k]]
      BY <3>1 DEF QueuesAreExact
    <3> QED BY <2>1, <3>1, <3>2, <3>3
  <2>2. CASE m # l
    BY <1>5, <2>2 DEF QueuesAreExact
  <2> QED BY <2>1, <2>2
<1>14. BatchInOwnLoop'
  BY <1>4, <1>7 DEF BatchInOwnLoop
<1>15. TimersInOwnLoop'
  <2> SUFFICES ASSUME NEW m \in Loops, NEW f \in Fds, timers'[m][f] # NoTimer,
                      NEW x, x = timers'[m][f].conn
               PROVE  /\ x \in Conns /\ fd[x] = f /\ loopOf[x] = m
                      /\ ~(Queued(x) /\ x # c)
    BY <1>4, <1>7 DEF TimersInOwnLoop
  <2>1. CASE m = l /\ f = fd[c]
    <3>1. x = c
      BY <1>6, <2>1 DEF t
    <3> QED BY <1>2, <1>3, <2>1, <3>1
  <2>2. CASE ~(m = l /\ f = fd[c])
    <3>1. timers'[m][f] = timers[m][f]
      BY <1>6, <2>2
    <3> QED BY <3>1 DEF TimersInOwnLoop
  <2> QED BY <2>1, <2>2
<1>16. GuardedByOwnTimer'
  <2> SUFFICES ASSUME NEW x \in Conns, Served(x)'
               PROVE  timers'[loopOf[x]][fd[x]] =
                        [conn |-> x, due |-> last'[x] + Timeout]
    BY <1>4 DEF GuardedByOwnTimer
  <2>1. CASE x = c
    BY <1>3, <1>5, <1>6, <2>1 DEF t
  <2>2. CASE x # c
    <3>1. Served(x) /\ timers[loopOf[x]][fd[x]] = [conn |-> x, due |-> last[x] + Timeout]
      BY <1>9, <2>2 DEF GuardedByOwnTimer
    <3>2. fd[x] \in Fds /\ fd[x] # fd[c] /\ fd[x] # None
      <4>1. alive[x]
        BY <3>1 DEF Served
      <4>2. fd[x] \in Fds /\ owner[fd[x]] = x /\ owner[fd[c]] = c
        BY <1>2, <1>3, <4>1 DEF FdsAreOwned
      <4> QED BY <2>2, <4>2, NoneIsNothing
    <3>3. loopOf[x] \in Loops
      BY <3>1, <3>2 DEF Served, TypeOK, InHand
    <3> QED BY <1>5, <1>6, <2>2, <3>1, <3>2, <3>3
  <2> QED BY <2>1, <2>2
<1> QED BY <1>10, <1>11, <1>12, <1>13, <1>14, <1>15, <1>16

-----------------------------------------------------------------------------
(* The steps that change who refers to a connection.                       *)

(* What is destroyed and what stays, when a step makes no new references.  *)
LEMMA DestroyFacts ==
  ASSUME Inv, DestroyUnreferenced, UNCHANGED <<fd, disconnected>>,
         \A c \in Conns : Referenced(c)' => Referenced(c)
  PROVE  /\ FdsAreOwned' /\ ReferencesAreAlive'
         /\ \A c \in Conns : alive'[c] <=> alive[c] /\ Referenced(c)'
         /\ \A c \in Conns : alive'[c] => owner'[fd[c]] = c /\ armed'[c] = armed[c]
         /\ \A c \in Conns : ~alive'[c] => armed'[c] = "off"
<1>1. \A c \in Conns : /\ alive'[c] <=> alive[c] /\ Referenced(c)'
                       /\ armed'[c] = IF alive'[c] THEN armed[c] ELSE "off"
  BY DEF DestroyUnreferenced
<1>2. \A f \in Fds : owner'[f] = IF owner[f] # None /\ ~alive'[owner[f]]
                                   THEN None ELSE owner[f]
  BY DEF DestroyUnreferenced
<1>3. \A c \in Conns : alive'[c] => fd[c] \in Fds /\ owner[fd[c]] = c /\ owner'[fd[c]] = c
  BY <1>1, <1>2 DEF Inv, Links, FdsAreOwned
<1>4. \A f \in Fds : owner'[f] # None => alive'[owner'[f]] /\ fd[owner'[f]] = f
  BY <1>1, <1>2 DEF Inv, Links, FdsAreOwned, TypeOK
<1>5. FdsAreOwned'
  BY <1>3, <1>4 DEF FdsAreOwned
<1>6. ReferencesAreAlive'
  BY <1>1 DEF Inv, Links, ReferencesAreAlive
<1> QED BY <1>1, <1>3, <1>5, <1>6

LEMMA InsertKeepsLinks ==
  ASSUME Inv, InsertConnection
  PROVE  Links'
<1> USE DEF Inv, Links
<1> DEFINE c == acur
<1>1. /\ c \in Conns /\ alive[c] /\ fd[c] \in Fds /\ owner[fd[c]] = c
      /\ loopOf[c] = None /\ c # None
  <2>1. c \in Conns /\ c # None
    BY DEF InsertConnection, InHand, TypeOK
  <2> QED BY <2>1 DEF ReferencesAreAlive, Referenced, FdsAreOwned, InHand
<1>2. /\ apc = "table" /\ apc' = "hand"
      /\ DestroyUnreferenced
      /\ UNCHANGED <<fd, loopOf, disconnected, context, last, acur, lpc, cur,
                     batch, tasks, timers>>
  BY DEF InsertConnection
<1>3. \A f \in Fds : connects'[f] = IF f = fd[c] THEN c ELSE connects[f]
  BY DEF InsertConnection, TypeOK
(* The entry that is replaced, if any, is the connection's own.            *)
<1>4. connects[fd[c]] \in {None, c}
  <2> SUFFICES ASSUME connects[fd[c]] # None PROVE connects[fd[c]] = c
    OBVIOUS
  <2> DEFINE x == connects[fd[c]]
  <2>1. x \in Conns /\ alive[x] /\ fd[x] = fd[c]
    BY <1>1 DEF TypeOK, TableEntries, ReferencesAreAlive, Referenced
  <2> QED BY <1>1, <2>1 DEF FdsAreOwned
<1>5. \A x \in Conns : Referenced(x)' <=> Referenced(x)
  BY <1>1, <1>2, <1>3, <1>4, NoneIsNothing DEF Referenced
<1>6. /\ FdsAreOwned' /\ ReferencesAreAlive'
      /\ \A x \in Conns : alive'[x] => alive[x] /\ armed'[x] = armed[x]
      /\ \A x \in Conns : ~alive'[x] => armed'[x] = "off"
      /\ \A x \in Conns : alive'[x] <=> alive[x] /\ Referenced(x)
  BY <1>2, <1>5, DestroyFacts
<1>7. \A x \in Conns : /\ Queued(x)' = Queued(x) /\ InBatch(x)' = InBatch(x)
                       /\ Started(x)' = Started(x)
                       /\ Served(x)' => Served(x)
  BY <1>2, <1>6 DEF Queued, InBatch, Started, Served
<1>8. InHand' /\ UntouchedBeforeStart'
  BY <1>1, <1>2, <1>6, <1>7 DEF InHand, UntouchedBeforeStart
<1>9. TableEntries'
  <2>1. \A f \in Fds : connects'[f] # None => fd[connects'[f]] = f
    BY <1>3 DEF TableEntries
  <2>2. ASSUME NEW x \in Conns, alive'[x], ~disconnected[x]
        PROVE  connects'[fd[x]] = x
    <3>1. alive[x] /\ fd[x] \in Fds /\ owner[fd[x]] = x
      BY <1>6, <2>2 DEF FdsAreOwned
    <3>2. x # c => connects[fd[x]] = x
      BY <2>2, <3>1 DEF TableEntries
    <3> QED BY <1>1, <1>3, <3>1, <3>2
  <2> QED BY <1>2, <2>1, <2>2 DEF TableEntries
<1>10. QueuesAreExact'
  <2>1. ASSUME NEW x \in Conns, Queued(x) PROVE alive'[x]
    BY <1>6, <2>1, InTable DEF Referenced
  <2>2. \A l \in Loops : \A k \in DOMAIN tasks[l] :
          tasks[l][k] \in Conns /\ Queued(tasks[l][k])
    BY DEF TypeOK, Queued
  <2> QED BY <1>2, <2>1, <2>2 DEF QueuesAreExact
<1>11. (ClosingInOwnLoop /\ BatchInOwnLoop /\ TimersInOwnLoop)'
  BY <1>2, <1>7 DEF ClosingInOwnLoop, BatchInOwnLoop, TimersInOwnLoop
<1>12. GuardedByOwnTimer' /\ NeverDeaf'
  BY <1>2, <1>6, <1>7 DEF GuardedByOwnTimer, NeverDeaf, Served
<1> QED BY <1>6, <1>8, <1>9, <1>10, <1>11, <1>12

(* A closing handler erases its own entry and lets go of its connection:   *)
(* that is all that EraseConnection and DropConnection do.                 *)
LEMMA ReleaseKeepsLinks ==
  ASSUME Inv, NEW l \in Loops, NEW c \in Conns, cur[l] = c,
         DestroyUnreferenced,
         UNCHANGED <<fd, loopOf, disconnected, context, last, apc, acur, batch,
                     tasks, timers>>,
         \A f \in Fds : f # fd[c] => connects'[f] = connects[f],
         connects'[fd[c]] \in {None, connects[fd[c]]},
         \A m \in Loops : m # l => cur'[m] = cur[m] /\ lpc'[m] = lpc[m],
         cur'[l] \in {None, c},
         cur'[l] # None <=> lpc'[l] \in {"erase", "eraseTimed", "drop", "dropTimed"},
         lpc'[l] \notin {"wait", "tasks"}
  PROVE  Links'
<1> USE DEF Inv, Links
<1>1. /\ disconnected[c] /\ loopOf[c] = l /\ alive[c] /\ fd[c] \in Fds
      /\ owner[fd[c]] = c /\ c # None
  BY NoneIsNothing DEF ClosingInOwnLoop, ReferencesAreAlive, Referenced, FdsAreOwned
<1>2. \A x \in Conns : Referenced(x)' => Referenced(x)
  <2> TAKE x \in Conns
  <2>1. (\E f \in Fds : connects'[f] = x) => (\E f \in Fds : connects[f] = x)
    BY NoneIsNothing
  <2>2. (\E m \in Loops : cur'[m] = x) => (\E m \in Loops : cur[m] = x)
    BY NoneIsNothing
  <2> QED BY <2>1, <2>2 DEF Referenced
<1>3. /\ FdsAreOwned' /\ ReferencesAreAlive'
      /\ \A x \in Conns : alive'[x] => alive[x] /\ armed'[x] = armed[x]
      /\ \A x \in Conns : ~alive'[x] => armed'[x] = "off"
      /\ \A x \in Conns : alive'[x] <=> alive[x] /\ Referenced(x)'
  BY <1>2, DestroyFacts
<1>4. \A x \in Conns : /\ Queued(x)' = Queued(x) /\ InBatch(x)' = InBatch(x)
                       /\ Started(x)' = Started(x)
                       /\ Served(x)' => Served(x)
  <2> TAKE x \in Conns
  <2>1. Queued(x)' = Queued(x)
    BY DEF Queued
  <2>2. InBatch(x)' = InBatch(x)
    BY DEF InBatch
  <2>3. Started(x)' = Started(x)
    BY <2>1 DEF Started
  <2>4. Served(x)' => Served(x)
    BY <1>3, <2>1 DEF Served
  <2> QED BY <2>1, <2>2, <2>3, <2>4
(* The table loses no entry of a connection that is not disconnected.      *)
<1>5. ASSUME NEW x \in Conns, alive[x], ~disconnected[x]
      PROVE  fd[x] \in Fds /\ connects'[fd[x]] = connects[fd[x]]
  <2>1. fd[x] \in Fds /\ owner[fd[x]] = x
    BY <1>5, Zenon DEF FdsAreOwned
  <2>2. x # c
    BY <1>1, <1>5
  <2>3. fd[x] # fd[c]
    BY <1>1, <2>1, <2>2
  <2> QED BY <2>1, <2>3, Zenon
<1>6. InHand' /\ UntouchedBeforeStart'
  <2>1. InHand'
    BY DEF InHand
  <2>2. \A x \in Conns : armed'[x] = armed[x] \/ armed'[x] = "off"
    BY <1>3, SMTT(30)
  <2>3. UntouchedBeforeStart'
    BY <1>4, <2>2, SMTT(30) DEF UntouchedBeforeStart
  <2> QED BY <2>1, <2>3
<1>7. TableEntries'
  <2>1. \A f \in Fds : connects'[f] # None => fd[connects'[f]] = f
    BY <1>1 DEF TableEntries
  <2>2. \A x \in Conns : alive'[x] /\ ~disconnected[x] =>
          connects'[fd[x]] = x \/ (acur = x /\ apc = "table")
    BY <1>3, <1>5 DEF TableEntries
  <2> QED BY <2>1, <2>2 DEF TableEntries
<1>8. QueuesAreExact'
  <2>1. ASSUME NEW x \in Conns, Queued(x) PROVE alive'[x]
    <3>1. alive[x] /\ fd[x] \in Fds /\ connects'[fd[x]] = x
      BY <1>5, <2>1, InTable
    <3>2. Referenced(x)'
      BY <3>1 DEF Referenced
    <3> QED BY <1>3, <3>1, <3>2
  <2>2. \A m \in Loops : \A k \in DOMAIN tasks[m] :
          tasks[m][k] \in Conns /\ Queued(tasks[m][k])
    BY DEF TypeOK, Queued
  <2> QED BY <2>1, <2>2 DEF QueuesAreExact
<1>9. ClosingInOwnLoop'
  BY <1>1 DEF ClosingInOwnLoop
<1>10. (BatchInOwnLoop /\ TimersInOwnLoop)'
  BY <1>4 DEF BatchInOwnLoop, TimersInOwnLoop
<1>11. GuardedByOwnTimer' /\ NeverDeaf'
  BY <1>3, <1>4 DEF GuardedByOwnTimer, NeverDeaf, Served
<1> QED BY <1>3, <1>6, <1>7, <1>8, <1>9, <1>10, <1>11

LEMMA EraseKeepsLinks ==
  ASSUME Inv, NEW l \in Loops, EraseConnection(l)
  PROVE  Links'
<1> DEFINE c == cur[l]
<1>1. /\ lpc[l] \in {"erase", "eraseTimed"}
      /\ connects' = [connects EXCEPT ![fd[c]] = None]
      /\ lpc' = [lpc EXCEPT ![l] = IF @ = "erase" THEN "drop" ELSE "dropTimed"]
      /\ DestroyUnreferenced
      /\ UNCHANGED <<fd, loopOf, disconnected, context, last, apc, acur, cur,
                     batch, tasks, timers>>
  BY DEF EraseConnection
<1>2. c \in Conns /\ c # None
  BY <1>1 DEF Inv, Links, ClosingInOwnLoop, TypeOK
<1>3. fd[c] \in Fds
  BY <1>2 DEF Inv, Links, ReferencesAreAlive, Referenced, FdsAreOwned
<1>4. /\ connects'[fd[c]] = None
      /\ \A f \in Fds : f # fd[c] => connects'[f] = connects[f]
  BY <1>1, <1>3 DEF Inv, TypeOK
<1>5. /\ lpc'[l] \in {"drop", "dropTimed"}
      /\ \A m \in Loops : m # l => lpc'[m] = lpc[m]
  BY <1>1 DEF Inv, TypeOK
<1> HIDE DEF c
<1> QED BY <1>1, <1>2, <1>4, <1>5, ReleaseKeepsLinks DEF c

LEMMA DropKeepsLinks ==
  ASSUME Inv, NEW l \in Loops, DropConnection(l)
  PROVE  Links'
<1> DEFINE c == cur[l]
<1>1. /\ lpc[l] \in {"drop", "dropTimed"}
      /\ cur' = [cur EXCEPT ![l] = None]
      /\ lpc' = [lpc EXCEPT ![l] = IF @ = "drop" THEN "events" ELSE "timers"]
      /\ DestroyUnreferenced
      /\ UNCHANGED <<fd, loopOf, disconnected, context, last, connects, apc, acur,
                     batch, tasks, timers>>
  BY DEF DropConnection
<1>2. c \in Conns
  BY <1>1 DEF Inv, Links, ClosingInOwnLoop, TypeOK
<1>3. /\ lpc'[l] \in {"events", "timers"} /\ cur'[l] = None
      /\ \A m \in Loops : m # l => cur'[m] = cur[m] /\ lpc'[m] = lpc[m]
  BY <1>1 DEF Inv, TypeOK
<1> HIDE DEF c
<1> QED BY <1>1, <1>2, <1>3, ReleaseKeepsLinks DEF c

LEMMA HandOverKeepsLinks ==
  ASSUME Inv, HandOver
  PROVE  Links'
<1> USE DEF Inv, Links
<1> DEFINE c == acur
           l == next
<1>1. /\ c \in Conns /\ c # None /\ l \in Loops /\ loopOf[c] = None
      /\ alive[c] /\ ~disconnected[c] /\ ~context[c]
      /\ ~Queued(c) /\ fd[c] \in Fds /\ connects[fd[c]] = c
  <2>1. c \in Conns /\ c # None /\ l \in Loops /\ apc = "hand"
    BY DEF HandOver, InHand, TypeOK
  <2>2. alive[c] /\ loopOf[c] = None
    BY <2>1 DEF ReferencesAreAlive, Referenced, InHand
  <2>3. ~disconnected[c] /\ ~context[c]
    BY <2>1, <2>2 DEF UntouchedBeforeStart, Started
  <2>4. ~Queued(c)
    BY <2>1, InTable
  <2> QED BY <2>1, <2>2, <2>3, <2>4 DEF FdsAreOwned, TableEntries
<1>2. /\ loopOf' = [loopOf EXCEPT ![c] = l]
      /\ tasks' = [tasks EXCEPT ![l] = Append(tasks[l], c)]
      /\ acur' = None /\ apc' = "wait"
      /\ DestroyUnreferenced
      /\ UNCHANGED <<fd, disconnected, context, last, connects, lpc, cur, batch,
                     timers>>
  BY DEF HandOver
<1> HIDE DEF c, l
<1>3. /\ \A x \in Conns : loopOf'[x] = IF x = c THEN l ELSE loopOf[x]
      /\ \A m \in Loops : tasks'[m] = IF m = l THEN Append(tasks[l], c) ELSE tasks[m]
      /\ tasks[l] \in Seq(Conns)
  BY <1>1, <1>2 DEF TypeOK
<1>4. /\ DOMAIN tasks'[l] = DOMAIN tasks[l] \cup {Len(tasks[l]) + 1}
      /\ Len(tasks[l]) + 1 \notin DOMAIN tasks[l]
      /\ tasks'[l][Len(tasks[l]) + 1] = c
      /\ \A k \in DOMAIN tasks[l] : tasks'[l][k] = tasks[l][k]
  <2> DEFINE q == tasks[l]
             r == Append(q, c)
  <2>1. q \in Seq(Conns) /\ c \in Conns /\ tasks'[l] = r
    BY <1>1, <1>3
  <2> HIDE DEF q
  <2>2. /\ Len(q) \in Nat /\ DOMAIN q = 1 .. Len(q)
        /\ DOMAIN r = 1 .. (Len(q) + 1)
        /\ r[Len(q) + 1] = c
        /\ \A k \in 1 .. Len(q) : r[k] = q[k]
    BY <2>1
  <2> HIDE DEF r
  <2>3. /\ DOMAIN r = DOMAIN q \cup {Len(q) + 1}
        /\ Len(q) + 1 \notin DOMAIN q
    BY <2>2
  <2> QED BY <2>1, <2>2, <2>3 DEF q
<1>5. \A x \in Conns : Queued(x)' <=> Queued(x) \/ x = c
  <2> TAKE x \in Conns
  <2>1. ASSUME Queued(x)' PROVE Queued(x) \/ x = c
    <3> PICK m \in Loops : \E k \in DOMAIN tasks'[m] : tasks'[m][k] = x
      BY <2>1 DEF Queued
    <3> QED BY <1>3, <1>4 DEF Queued
  <2>2. ASSUME Queued(x) \/ x = c PROVE Queued(x)'
    BY <1>1, <1>3, <1>4, <2>2 DEF Queued
  <2> QED BY <2>1, <2>2
<1>6. \A x \in Conns : Referenced(x)' <=> Referenced(x)
  BY <1>1, <1>2, NoneIsNothing DEF Referenced, c
<1>7. /\ FdsAreOwned' /\ ReferencesAreAlive'
      /\ \A x \in Conns : alive'[x] => alive[x] /\ armed'[x] = armed[x]
      /\ \A x \in Conns : ~alive'[x] => armed'[x] = "off"
      /\ \A x \in Conns : alive'[x] <=> alive[x] /\ Referenced(x)
  BY <1>2, <1>6, DestroyFacts
<1>8. \A x \in Conns : /\ Started(x)' <=> Started(x)
                       /\ Served(x)' => Served(x) /\ x # c
                       /\ InBatch(x)' = InBatch(x)
  BY <1>1, <1>2, <1>3, <1>5, <1>7, NoneIsNothing DEF Started, Served, InBatch, c
<1>9. InHand'
  BY <1>1, <1>2, <1>3, NoneIsNothing DEF InHand, c
<1>10. UntouchedBeforeStart'
  BY <1>2, <1>7, <1>8 DEF UntouchedBeforeStart
<1>11. TableEntries'
  BY <1>1, <1>2, <1>7 DEF TableEntries, c
<1>12. QueuesAreExact'
  <2>1. ASSUME NEW m \in Loops, NEW k \in DOMAIN tasks[m]
        PROVE  /\ tasks[m][k] \in Conns /\ tasks[m][k] # c
               /\ loopOf'[tasks[m][k]] = m /\ alive'[tasks[m][k]]
    <3> DEFINE x == tasks[m][k]
    <3>1. x \in Conns /\ Queued(x) /\ loopOf[x] = m /\ alive[x]
      BY DEF TypeOK, Queued, QueuesAreExact
    <3> HIDE DEF x
    <3>2. Referenced(x) /\ x # c
      BY <1>1, <3>1, InTable DEF Referenced
    <3> QED BY <1>3, <1>7, <3>1, <3>2 DEF x
  <2>2. alive'[c] /\ loopOf'[c] = l
    BY <1>1, <1>3, <1>7 DEF Referenced
  <2> SUFFICES ASSUME NEW m \in Loops
               PROVE  /\ \A k \in DOMAIN tasks'[m] :
                           loopOf'[tasks'[m][k]] = m /\ alive'[tasks'[m][k]]
                      /\ \A j, k \in DOMAIN tasks'[m] :
                           tasks'[m][j] = tasks'[m][k] => j = k
    BY DEF QueuesAreExact
  <2>3. CASE m = l
    BY <1>4, <2>1, <2>2, <2>3 DEF QueuesAreExact
  <2>4. CASE m # l
    BY <1>3, <2>1, <2>4 DEF QueuesAreExact
  <2> QED BY <2>3, <2>4
<1>13. ClosingInOwnLoop'
  BY <1>1, <1>2, <1>3, NoneIsNothing DEF ClosingInOwnLoop, TypeOK
<1>14. BatchInOwnLoop'
  BY <1>1, <1>2, <1>3, <1>5, NoneIsNothing DEF BatchInOwnLoop
<1>15. TimersInOwnLoop'
  BY <1>1, <1>2, <1>3, <1>5, NoneIsNothing DEF TimersInOwnLoop
<1>16. GuardedByOwnTimer' /\ NeverDeaf'
  BY <1>2, <1>3, <1>7, <1>8 DEF GuardedByOwnTimer, NeverDeaf, Served
<1> QED BY <1>7, <1>9, <1>10, <1>11, <1>12, <1>13, <1>14, <1>15, <1>16

LEMMA AcceptKeepsLinks ==
  ASSUME Inv, NEW c \in Conns, NEW f \in Fds, Accept(c, f)
  PROVE  Links'
<1> USE DEF Inv, Links
<1>1. /\ fd[c] = None /\ owner[f] = None /\ acur = None /\ loopOf[c] = None
      /\ ~alive[c] /\ ~Referenced(c) /\ ~Queued(c) /\ c # None /\ f # None
  <2>1. fd[c] = None /\ owner[f] = None /\ acur = None
    BY DEF Accept, InHand
  <2>2. loopOf[c] = None /\ ~alive[c]
    BY <2>1, NoneIsNothing DEF InHand, FdsAreOwned
  <2> QED BY <2>1, <2>2, InTable, NoneIsNothing DEF ReferencesAreAlive
<1>2. /\ apc' = "table" /\ acur' = c
      /\ UNCHANGED <<armed, loopOf, disconnected, context, last, connects, lpc,
                     cur, batch, tasks, timers>>
  BY DEF Accept, looping
<1>3. /\ \A x \in Conns : /\ alive'[x] <=> alive[x] \/ x = c
                          /\ fd'[x] = IF x = c THEN f ELSE fd[x]
      /\ \A g \in Fds : owner'[g] = IF g = f THEN c ELSE owner[g]
  BY DEF Accept, TypeOK
<1>4. \A x \in Conns : Referenced(x)' <=> Referenced(x) \/ x = c
  BY <1>1, <1>2, NoneIsNothing DEF Referenced
<1>5. \A x \in Conns : /\ Queued(x)' = Queued(x) /\ InBatch(x)' = InBatch(x)
                       /\ Started(x)' = Started(x)
                       /\ Served(x)' => Served(x) /\ x # c
  BY <1>1, <1>2, <1>3, NoneIsNothing DEF Queued, InBatch, Started, Served
<1>6. FdsAreOwned' /\ ReferencesAreAlive'
  <2>1. \A x \in Conns : alive'[x] => fd'[x] \in Fds /\ owner'[fd'[x]] = x
    BY <1>1, <1>3, NoneIsNothing DEF FdsAreOwned
  <2>2. \A g \in Fds : owner'[g] # None => alive'[owner'[g]] /\ fd'[owner'[g]] = g
    <3> TAKE g \in Fds
    <3>1. CASE g = f
      BY <1>1, <1>3, <3>1
    <3>2. CASE g # f
      <4>1. owner'[g] = owner[g] /\ (owner[g] # None => owner[g] \in Conns)
        BY <1>3, <3>2 DEF TypeOK
      <4>2. owner[g] # None => alive[owner[g]] /\ fd[owner[g]] = g
        BY DEF FdsAreOwned
      <4> QED BY <1>1, <1>3, <4>1, <4>2
    <3> QED BY <3>1, <3>2
  <2>3. ReferencesAreAlive'
    BY <1>3, <1>4 DEF ReferencesAreAlive
  <2> QED BY <2>1, <2>2, <2>3 DEF FdsAreOwned
<1>7. InHand' /\ UntouchedBeforeStart'
  <2>1. \A x \in Conns : loopOf[x] = None <=> fd'[x] = None \/ c = x
    BY <1>1, <1>3, NoneIsNothing DEF InHand
  <2> QED BY <1>1, <1>2, <1>5, <2>1 DEF InHand, UntouchedBeforeStart
<1>8. TableEntries'
  <2>1. ASSUME NEW g \in Fds, connects[g] # None
        PROVE  fd'[connects[g]] = g
    <3>1. connects[g] \in Conns /\ fd[connects[g]] = g /\ connects[g] # c
      BY <1>1, <2>1 DEF TableEntries, TypeOK, Referenced
    <3> QED BY <1>3, <3>1
  <2>2. ASSUME NEW x \in Conns, alive'[x], ~disconnected[x]
        PROVE  connects[fd'[x]] = x \/ (acur' = x /\ apc' = "table")
    <3>1. CASE x = c
      BY <1>2, <3>1
    <3>2. CASE x # c
      BY <1>1, <1>3, <2>2, <3>2, NoneIsNothing DEF TableEntries
    <3> QED BY <3>1, <3>2
  <2> QED BY <1>2, <2>1, <2>2 DEF TableEntries
<1>9. QueuesAreExact'
  <2>1. \A l \in Loops : \A k \in DOMAIN tasks[l] : tasks[l][k] \in Conns
    BY DEF TypeOK
  <2> QED BY <1>2, <1>3, <2>1 DEF QueuesAreExact
<1>10. (ClosingInOwnLoop /\ BatchInOwnLoop)'
  BY <1>2, <1>5 DEF ClosingInOwnLoop, BatchInOwnLoop
<1>11. TimersInOwnLoop'
  BY <1>1, <1>2, <1>3, <1>5, NoneIsNothing DEF TimersInOwnLoop
<1>12. GuardedByOwnTimer' /\ NeverDeaf'
  BY <1>2, <1>3, <1>5 DEF GuardedByOwnTimer, NeverDeaf
<1> QED BY <1>6, <1>7, <1>8, <1>9, <1>10, <1>11, <1>12

-----------------------------------------------------------------------------
(* The invariant and what follows from it.                                 *)

LEMMA InitInv == Init => Inv
<1> SUFFICES ASSUME Init PROVE Inv
  OBVIOUS
<1>1. TypeOK
  BY InitType
<1>2. \A c \in Conns : ~Referenced(c) /\ ~Queued(c) /\ ~alive[c]
  BY NoneIsNothing DEF Init, Referenced, Queued
<1>3. FdsAreOwned /\ ReferencesAreAlive /\ InHand /\ UntouchedBeforeStart
  BY <1>2, NoneIsNothing DEF Init, FdsAreOwned, ReferencesAreAlive, InHand,
     UntouchedBeforeStart
<1>4. TableEntries /\ QueuesAreExact /\ ClosingInOwnLoop
  BY <1>2, NoneIsNothing DEF Init, TableEntries, QueuesAreExact, ClosingInOwnLoop
<1>5. BatchInOwnLoop /\ TimersInOwnLoop
  BY DEF Init, BatchInOwnLoop, TimersInOwnLoop
<1>6. GuardedByOwnTimer /\ NeverDeaf
  BY <1>2 DEF GuardedByOwnTimer, NeverDeaf, Served
<1> QED BY <1>1, <1>3, <1>4, <1>5, <1>6 DEF Inv, Links

LEMMA NextInv == Inv /\ [Next]_vars => Inv'
<1> SUFFICES ASSUME Inv, [Next]_vars PROVE Inv'
  OBVIOUS
<1>1. TypeOK'
  BY NextType DEF Inv, Links
<1> SUFFICES Links'
  BY <1>1 DEF Inv
<1>2. ASSUME NEW c \in Conns, NEW f \in Fds, Accept(c, f) PROVE Links'
  BY <1>2, AcceptKeepsLinks
<1>3. CASE AcceptStep
  <2>1. CASE InsertConnection
    BY <2>1, InsertKeepsLinks
  <2>2. CASE HandOver
    BY <2>2, HandOverKeepsLinks
  <2> QED BY <1>3, <2>1, <2>2 DEF AcceptStep
<1>4. ASSUME NEW l \in Loops, LoopStep(l) PROVE Links'
  <2>1. CASE EpollWait(l)
    BY <2>1, EpollWaitKeepsLinks
  <2>2. ASSUME NEW e \in batch[l], Dispatch(l, e) PROVE Links'
    BY <2>2, DispatchKeepsLinks
  <2>3. ASSUME NEW f \in Fds, FireTimer(l, f) PROVE Links'
    BY <2>3, FireTimerKeepsLinks
  <2>4. CASE TimeoutReturns(l) \/ BatchDone(l) \/ TasksDone(l)
    <3>1. PICK to \in {"events", "tasks", "wait"} : lpc' = [lpc EXCEPT ![l] = to]
      BY <2>4 DEF TimeoutReturns, BatchDone, TasksDone
    <3>2. /\ lpc[l] \in {"events", "timers", "tasks"}
          /\ UNCHANGED <<owner, armed, alive, fd, loopOf, disconnected, context,
                         last, connects, apc, acur, cur, batch, tasks, timers>>
      BY <2>4 DEF TimeoutReturns, BatchDone, TasksDone, kernel, object, accepting
    <3>3. to \in {"tasks", "wait"} => batch[l] = {}
      <4>1. CASE TimeoutReturns(l)
        BY <3>1, <4>1 DEF TimeoutReturns, Inv, TypeOK
      <4>2. CASE BatchDone(l)
        BY <4>2 DEF BatchDone
      <4>3. CASE TasksDone(l)
        BY <4>3 DEF TasksDone, Inv, Links, BatchInOwnLoop
      <4> QED BY <2>4, <4>1, <4>2, <4>3
    <3> QED BY <3>1, <3>2, <3>3, SkipKeepsLinks
  <2>5. CASE EraseConnection(l) \/ DropConnection(l)
    BY <2>5, EraseKeepsLinks, DropKeepsLinks
  <2>6. CASE OnConnect(l)
    BY <2>6, OnConnectKeepsLinks
  <2> QED BY <1>4, <2>1, <2>2, <2>3, <2>4, <2>5, <2>6 DEF LoopStep
<1>5. ASSUME NEW c \in Conns, ClientSends(c) \/ ClientCloses(c) PROVE Links'
  <2>1. UNCHANGED <<owner, armed, alive, fd, loopOf, disconnected, context, last,
                    connects, apc, acur, lpc, cur, batch, tasks, timers>>
    BY <1>5 DEF ClientSends, ClientCloses, object, accepting, looping
  <2> QED BY <2>1, FrameKeepsLinks DEF Inv
<1>6. CASE Tick \/ UNCHANGED vars
  <2>1. UNCHANGED <<owner, armed, alive, fd, loopOf, disconnected, context, last,
                    connects, apc, acur, lpc, cur, batch, tasks, timers>>
    BY <1>6 DEF Tick, vars, kernel, object, accepting, looping
  <2> QED BY <2>1, FrameKeepsLinks DEF Inv
<1> QED BY <1>2, <1>3, <1>4, <1>5, <1>6 DEF Next

LEMMA InvAlways == Spec => []Inv
BY InitInv, NextInv, PTL DEF Spec

(* Every variable stays within its type, for any connections, fds and      *)
(* loops: the index of getNextLoop is always that of a loop, and the due   *)
(* time of a timer is never further away than connTimeOut_.                *)
THEOREM TypeAlways == Spec => []TypeOK
BY InvAlways, PTL DEF Inv

(* connects_ never names a connection under an fd that is not its own, nor *)
(* one that is gone, and it names every connection that waits for          *)
(* onConnect or is being served, however accepts, closes and the reuse of  *)
(* fds interleave.                                                         *)
THEOREM TableAlwaysExact == Spec => []TableIsExact
<1>1. Inv => TableIsExact
  <2> SUFFICES ASSUME Inv PROVE TableIsExact
    OBVIOUS
  <2>1. ASSUME NEW f \in Fds, connects[f] # None
        PROVE  alive[connects[f]] /\ fd[connects[f]] = f /\ owner[f] = connects[f]
    <3>1. connects[f] \in Conns
      BY <2>1 DEF Inv, TypeOK
    <3>2. alive[connects[f]] /\ fd[connects[f]] = f
      BY <2>1, <3>1 DEF Inv, Links, TableEntries, ReferencesAreAlive, Referenced
    <3> QED BY <3>1, <3>2 DEF Inv, Links, FdsAreOwned
  <2> QED BY <2>1, InTable DEF TableIsExact
<1> QED BY <1>1, InvAlways, PTL DEF Inv

(* A handler, a task or a timer only ever touches connections of its own   *)
(* loop; two loops never hold the same connection.                         *)
THEOREM HandlersStayInTheirLoop == Spec => []OwnLoopOnly
<1>1. Inv => OwnLoopOnly
  BY DEF Inv, Links, OwnLoopOnly, ClosingInOwnLoop, QueuesAreExact
<1> QED BY <1>1, InvAlways, PTL

(* The timer under the fd of a served connection is its own, due           *)
(* connTimeOut_ after its last activity, although closing leaves timers    *)
(* behind and the fd is used again.                                        *)
THEOREM AlwaysGuarded == Spec => []GuardedByOwnTimer
BY InvAlways, PTL DEF Inv, Links

(* No path through the handlers leaves a served connection disarmed.       *)
THEOREM NeverGoesDeaf == Spec => []NeverDeaf
BY InvAlways, PTL DEF Inv, Links

-----------------------------------------------------------------------------
(* Release.  A connection that nothing refers to is gone at once; a closed *)
(* connection leaves the table in the handler that closes it.              *)
AliveWhileHeld == \A c \in Conns : alive[c] => Referenced(c)

EntryUntilErased ==
  \A f \in Fds : connects[f] # None /\ disconnected[connects[f]] =>
    \E l \in Loops : cur[l] = connects[f] /\ lpc[l] \in {"erase", "eraseTimed"}

LEMMA InitRelease == Init => AliveWhileHeld /\ EntryUntilErased
BY DEF Init, AliveWhileHeld, EntryUntilErased

LEMMA NextRelease ==
  ASSUME Inv, AliveWhileHeld, EntryUntilErased, [Next]_vars
  PROVE  AliveWhileHeld' /\ EntryUntilErased'
<1> USE DEF AliveWhileHeld, EntryUntilErased
<1>1. ASSUME NEW c \in Conns, NEW f \in Fds, Accept(c, f)
      PROVE  AliveWhileHeld' /\ EntryUntilErased'
  <2>1. /\ acur = None /\ acur' = c
        /\ \A x \in Conns : alive'[x] <=> alive[x] \/ x = c
        /\ UNCHANGED <<context, connects, cur, disconnected, lpc>>
    BY <1>1 DEF Accept, looping, Inv, Links, InHand, TypeOK
  <2>2. \A x \in Conns : Referenced(x)' <=> Referenced(x) \/ x = c
    BY <2>1, NoneIsNothing DEF Referenced
  <2> QED BY <2>1, <2>2
<1>2. CASE InsertConnection
  <2>1. /\ acur \in Conns /\ ~disconnected[acur]
        /\ UNCHANGED <<context, disconnected, cur, lpc>>
    BY <1>2 DEF InsertConnection, Inv, Links, InHand, UntouchedBeforeStart, Started,
       TypeOK
  <2>2. \A f \in Fds : connects'[f] = connects[f] \/ connects'[f] = acur
    BY <1>2 DEF InsertConnection, Inv, TypeOK
  <2>3. AliveWhileHeld'
    BY <1>2, <2>1 DEF InsertConnection, DestroyUnreferenced
  <2>4. EntryUntilErased'
    BY <2>1, <2>2
  <2> QED BY <2>3, <2>4
<1>3. CASE HandOver
  BY <1>3 DEF HandOver, DestroyUnreferenced
<1>4. ASSUME NEW l \in Loops, EraseConnection(l)
      PROVE  AliveWhileHeld' /\ EntryUntilErased'
  <2> DEFINE c == cur[l]
  <2>1. c \in Conns /\ fd[c] \in Fds
    BY <1>4 DEF EraseConnection, Inv, Links, ClosingInOwnLoop, TypeOK,
       ReferencesAreAlive, Referenced, FdsAreOwned
  <2>2. /\ \A f \in Fds : connects'[f] = IF f = fd[c] THEN None ELSE connects[f]
        /\ \A m \in Loops : m # l => lpc'[m] = lpc[m]
        /\ UNCHANGED <<cur, disconnected, context>>
    BY <1>4, <2>1 DEF EraseConnection, Inv, TypeOK
  <2>3. AliveWhileHeld'
    BY <1>4, <2>2 DEF EraseConnection, DestroyUnreferenced
  <2>4. ASSUME NEW f \in Fds, connects'[f] # None, disconnected[connects'[f]]
        PROVE  \E m \in Loops : cur[m] = connects'[f] /\ lpc'[m] \in {"erase", "eraseTimed"}
    <3>1. f # fd[c] /\ connects'[f] = connects[f]
      BY <2>2, <2>4
    <3>2. PICK m \in Loops : cur[m] = connects[f] /\ lpc[m] \in {"erase", "eraseTimed"}
      BY <2>4, <3>1
    <3>3. fd[connects[f]] = f
      BY <2>4, <3>1 DEF Inv, Links, TableEntries
    <3> QED BY <2>2, <3>1, <3>2, <3>3
  <2> QED BY <2>2, <2>3, <2>4
<1>5. ASSUME NEW l \in Loops, DropConnection(l)
      PROVE  AliveWhileHeld' /\ EntryUntilErased'
  <2>1. /\ lpc[l] \in {"drop", "dropTimed"}
        /\ \A m \in Loops : m # l => cur'[m] = cur[m] /\ lpc'[m] = lpc[m]
        /\ UNCHANGED <<connects, disconnected, context>>
    BY <1>5 DEF DropConnection, Inv, TypeOK
  <2>2. AliveWhileHeld'
    BY <1>5, <2>1 DEF DropConnection, DestroyUnreferenced
  <2> QED BY <2>1, <2>2
(* The other steps destroy nothing, and drop no reference but the context  *)
(* of a connection that is in the table.                                   *)
<1>6. ASSUME NEW l \in Loops, NEW c \in Conns,
             NEW after \in {"erase", "eraseTimed"}, BeginClose(l, c, after),
             lpc[l] \in {"events", "timers"}, Usable(c),
             UNCHANGED <<alive, connects, acur, context>>
      PROVE  AliveWhileHeld' /\ EntryUntilErased'
  <2>1. cur[l] = None
    BY <1>6 DEF Inv, Links, ClosingInOwnLoop
  <2>2. /\ cur'[l] = c /\ lpc'[l] = after
        /\ \A m \in Loops : m # l => cur'[m] = cur[m] /\ lpc'[m] = lpc[m]
        /\ \A x \in Conns : x # c => disconnected'[x] = disconnected[x]
    BY <1>6 DEF BeginClose, Inv, TypeOK
  <2>3. \A x \in Conns : Referenced(x) => Referenced(x)'
    BY <1>6, <2>1, <2>2, NoneIsNothing DEF Referenced
  <2>4. ASSUME NEW f \in Fds, connects[f] # None, disconnected'[connects[f]]
        PROVE  \E m \in Loops : cur'[m] = connects[f] /\ lpc'[m] \in {"erase", "eraseTimed"}
    <3>1. CASE connects[f] = c
      BY <2>2, <3>1
    <3>2. CASE connects[f] # c
      <4>1. disconnected[connects[f]]
        BY <2>2, <2>4, <3>2 DEF Inv, TypeOK
      <4>2. PICK m \in Loops : cur[m] = connects[f] /\ lpc[m] \in {"erase", "eraseTimed"}
        BY <2>4, <4>1
      <4> QED BY <1>6, <2>2, <4>2
    <3> QED BY <3>1, <3>2
  <2> QED BY <1>6, <2>3, <2>4
<1>7. ASSUME UNCHANGED <<alive, disconnected, connects, acur, cur>>,
             \A x \in Conns : context[x] => context'[x] \/ \E f \in Fds : connects[f] = x,
             \A m \in Loops : lpc[m] \in {"erase", "eraseTimed"} => lpc'[m] = lpc[m]
      PROVE  AliveWhileHeld' /\ EntryUntilErased'
  BY <1>7 DEF Referenced
<1>8. ASSUME NEW l \in Loops, NEW e \in batch[l], Dispatch(l, e)
      PROVE  AliveWhileHeld' /\ EntryUntilErased'
  <2>1. CASE HandleConnectionClose(l, e) \/ ReadFails(l, e) \/ WriteCloses(l, e)
    <3>1. /\ lpc[l] = "events" /\ e.kind # "TIMER" /\ Usable(e.conn)
          /\ BeginClose(l, e.conn, "erase")
          /\ UNCHANGED <<alive, connects, acur, context>>
      BY <2>1 DEF HandleConnectionClose, ReadFails, WriteCloses, accepting, Took,
         HandleConnectionRead, HandleConnectionWrite
    <3>2. e.conn \in Conns
      BY <3>1 DEF Inv, Links, BatchInOwnLoop
    <3> QED BY <1>6, <3>1, <3>2
  <2>2. CASE ReadComplete(l, e) \/ WriteStays(l, e)
    <3>1. UNCHANGED <<alive, disconnected, connects, acur, cur, lpc>>
      BY <2>2 DEF ReadComplete, WriteStays, StayOpen, accepting
    <3>2. /\ e.conn \in Conns => Usable(e.conn)
          /\ context' = context \/ context' = [context EXCEPT ![e.conn] = FALSE]
          /\ e.kind # "TIMER"
      BY <2>2 DEF ReadComplete, WriteStays, HandleConnectionRead, HandleConnectionWrite
    <3>3. e.conn \in Conns /\ loopOf[e.conn] # None /\ ~Queued(e.conn)
      BY <3>2, NoneIsNothing DEF Inv, Links, BatchInOwnLoop
    <3>4. Served(e.conn)
      BY <3>2, <3>3 DEF Served, Usable, Inv, Links, InHand
    <3>5. fd[e.conn] \in Fds /\ connects[fd[e.conn]] = e.conn
      BY <3>3, <3>4, InTable
    <3>6. \A x \in Conns : x # e.conn => context'[x] = context[x]
      BY <3>2 DEF Inv, TypeOK
    <3> QED BY <1>7, <3>1, <3>5, <3>6
  <2>3. CASE ReadAgain(l, e)
    <3>1. UNCHANGED <<alive, disconnected, connects, acur, cur, lpc>>
      BY <2>3 DEF ReadAgain, StayOpen, accepting
    <3>2. context' = [context EXCEPT ![e.conn] = TRUE]
      BY <2>3 DEF ReadAgain
    <3>3. \A x \in Conns : context[x] => context'[x]
      BY <3>2 DEF Inv, TypeOK
    <3> QED BY <1>7, <3>1, <3>3
  <2>4. CASE \/ EventIgnored(l, e) \/ EventOnFreedChannel(l, e)
             \/ HandleTimeout(l, e)
    <3>1. /\ lpc[l] = "events" /\ (lpc' = lpc \/ lpc' = [lpc EXCEPT ![l] = "timers"])
          /\ UNCHANGED <<alive, disconnected, connects, acur, cur, context>>
      BY <2>4 DEF EventIgnored, EventOnFreedChannel, HandleTimeout, Took, object,
         accepting
    <3> QED BY <1>7, <3>1 DEF Inv, TypeOK
  <2> QED BY <1>8, <2>1, <2>2, <2>3, <2>4 DEF Dispatch
<1>9. ASSUME NEW l \in Loops, NEW f \in Fds, FireTimer(l, f)
      PROVE  AliveWhileHeld' /\ EntryUntilErased'
  <2>1. lpc[l] = "timers" /\ UNCHANGED <<alive, connects, acur, context>>
    BY <1>9 DEF FireTimer, accepting
  <2>2. timers[l][f].conn \in Conns
    BY <1>9 DEF FireTimer, DueTimers, Inv, Links, TimersInOwnLoop
  <2>3. CASE Usable(timers[l][f].conn)
    <3>1. BeginClose(l, timers[l][f].conn, "eraseTimed")
      BY <1>9, <2>3 DEF FireTimer
    <3> QED BY <1>6, <2>1, <2>2, <2>3, <3>1
  <2>4. CASE ~Usable(timers[l][f].conn)
    <3>1. UNCHANGED <<disconnected, cur, lpc>>
      BY <1>9, <2>4 DEF FireTimer
    <3> QED BY <1>7, <2>1, <3>1
  <2> QED BY <2>3, <2>4
<1>10. ASSUME NEW l \in Loops,
              \/ EpollWait(l) \/ TimeoutReturns(l) \/ BatchDone(l) \/ OnConnect(l)
              \/ TasksDone(l)
       PROVE  AliveWhileHeld' /\ EntryUntilErased'
  <2>1. UNCHANGED <<alive, disconnected, connects, acur, cur, context>>
    BY <1>10 DEF EpollWait, TimeoutReturns, BatchDone, OnConnect, TasksDone, kernel,
       object, accepting
  <2>2. PICK to : /\ lpc[l] \notin {"erase", "eraseTimed"}
                  /\ lpc' = lpc \/ lpc' = [lpc EXCEPT ![l] = to]
    BY <1>10 DEF EpollWait, TimeoutReturns, BatchDone, OnConnect, TasksDone
  <2> QED BY <1>7, <2>1, <2>2 DEF Inv, TypeOK
<1>11. CASE (\E c \in Conns : ClientSends(c) \/ ClientCloses(c)) \/ Tick
            \/ UNCHANGED vars
  <2>1. UNCHANGED <<alive, disconnected, connects, acur, cur, context, lpc>>
    BY <1>11 DEF ClientSends, ClientCloses, Tick, vars, kernel, object, accepting,
       looping
  <2> QED BY <1>7, <2>1
<1> QED BY <1>1, <1>2, <1>3, <1>4, <1>5, <1>8, <1>9, <1>10, <1>11
        DEF Next, AcceptStep, LoopStep

Releasing == Inv /\ AliveWhileHeld /\ EntryUntilErased

LEMMA ReleasingAlways == Spec => []Releasing
<1>1. Init => Releasing
  BY InitInv, InitRelease DEF Releasing
<1>2. Releasing /\ [Next]_vars => Releasing'
  BY NextInv, NextRelease DEF Releasing
<1> QED BY <1>1, <1>2, PTL DEF Spec

LEMMA NothingElseKeeps == Releasing => OnlyTheContextKeeps
<1> SUFFICES ASSUME Releasing, NEW c \in Conns, disconnected[c], ~context[c],
                    \A l \in Loops : cur[l] # c
             PROVE  ~alive[c] /\ owner[fd[c]] # c
  BY DEF OnlyTheContextKeeps
<1> USE DEF Releasing
<1>1. acur # c
  BY DEF Inv, Links, UntouchedBeforeStart, InHand, Started
<1>2. \A f \in Fds : connects[f] # c
  BY NoneIsNothing DEF EntryUntilErased
<1>3. ~alive[c]
  BY <1>1, <1>2 DEF AliveWhileHeld, Referenced
<1>4. fd[c] \in Fds
  BY NoneIsNothing DEF Inv, Links, UntouchedBeforeStart, Started, InHand, TypeOK
<1> QED BY <1>3, <1>4, NoneIsNothing DEF Inv, Links, FdsAreOwned

(* The context of an unfinished request is the only thing that keeps a     *)
(* closed connection once its handler has returned: whatever the order of  *)
(* closes, accepts, timers and events, table, tasks and loops let it go.   *)
THEOREM OnlyTheContextLeaks == Spec => []OnlyTheContextKeeps
BY ReleasingAlways, NothingElseKeeps, PTL

(* Without HttpServer's onMessage no context is ever set.                  *)
NoContext == \A c \in Conns : ~context[c]

LEMMA NextContext ==
  ASSUME ~Http, TypeOK, NoContext, [Next]_vars
  PROVE  NoContext'
<1>1. UNCHANGED context \/ \E c \in Conns \cup {None} : context' = [context EXCEPT ![c] = FALSE]
  <2>1. ASSUME NEW l \in Loops, NEW e \in batch[l], Dispatch(l, e)
        PROVE  UNCHANGED context \/ context' = [context EXCEPT ![e.conn] = FALSE]
    <3>1. ~ReadAgain(l, e)
      BY DEF ReadAgain
    <3>2. ReadComplete(l, e) => context' = [context EXCEPT ![e.conn] = FALSE]
      BY DEF ReadComplete
    <3>3. HandleConnectionClose(l, e) \/ ReadFails(l, e) \/ WriteStays(l, e)
          \/ WriteCloses(l, e) => UNCHANGED context
      BY DEF HandleConnectionClose, ReadFails, WriteStays, WriteCloses
    <3>4. EventIgnored(l, e) \/ EventOnFreedChannel(l, e) \/ HandleTimeout(l, e)
            => UNCHANGED context
      BY DEF EventIgnored, EventOnFreedChannel, HandleTimeout, object
    <3> QED BY <2>1, <3>1, <3>2, <3>3, <3>4 DEF Dispatch
  <2>2. ASSUME NEW l \in Loops, NEW e \in batch[l] PROVE e.conn \in Conns \cup {None}
    BY DEF TypeOK
  <2>3. ASSUME NEW l \in Loops, NEW f \in Fds, FireTimer(l, f) PROVE UNCHANGED context
    BY <2>3 DEF FireTimer
  <2>4. ASSUME NEW l \in Loops,
               \/ EpollWait(l) \/ TimeoutReturns(l) \/ EraseConnection(l)
               \/ DropConnection(l) \/ BatchDone(l) \/ OnConnect(l) \/ TasksDone(l)
        PROVE  UNCHANGED context
    BY <2>4 DEF EpollWait, TimeoutReturns, EraseConnection, DropConnection, BatchDone,
       OnConnect, TasksDone, object
  <2>5. ASSUME NEW c \in Conns, NEW f \in Fds, Accept(c, f) PROVE UNCHANGED context
    BY <2>5 DEF Accept
  <2>6. ASSUME AcceptStep PROVE UNCHANGED context
    BY <2>6 DEF AcceptStep, InsertConnection, HandOver
  <2>7. ASSUME (\E c \in Conns : ClientSends(c) \/ ClientCloses(c)) \/ Tick \/ UNCHANGED vars
        PROVE  UNCHANGED context
    BY <2>7 DEF ClientSends, ClientCloses, Tick, vars, object
  <2> QED BY <2>1, <2>2, <2>3, <2>4, <2>5, <2>6, <2>7, SMTT(30) DEF Next, LoopStep
<1> QED BY <1>1 DEF NoContext, TypeOK

(* With an onMessage that keeps no context, a closed connection is gone,   *)
(* its fd free, as soon as its handler has returned (ClosedIsReleased      *)
(* fails with HttpServer's).                                               *)
THEOREM ReleasedWithoutContext ==
  ASSUME ~Http
  PROVE  Spec => []ClosedIsReleased
<1>1. Init => NoContext
  BY DEF Init, NoContext
<1>2. Inv /\ NoContext /\ [Next]_vars => NoContext'
  BY NextContext DEF Inv
<1>3. OnlyTheContextKeeps /\ NoContext => ClosedIsReleased
  BY DEF OnlyTheContextKeeps, NoContext, ClosedIsReleased
<1> QED BY <1>1, <1>2, <1>3, InvAlways, OnlyTheContextLeaks, PTL DEF Spec

=============================================================================
