----------------------------- MODULE TcpServer -----------------------------
(***************************************************************************)
(* The life of TCP connections: the main loop's thread that accepts them,  *)
(* the worker loops that serve them, and what they share (net/TcpServer,   *)
(* net/TcpConnection, net/Channel, net/Epoller).                           *)
(*                                                                         *)
(* A connection is an object with reference counting: it exists while the  *)
(* table connects_, a handler's local variable or its own context (the     *)
(* HttpRequest of an unfinished request, which holds the connection)       *)
(* refers to it.  Its destruction closes the fd, which the kernel may then *)
(* give to the next connection, and frees the Channel that epoll knows by  *)
(* a raw pointer.                                                          *)
(*                                                                         *)
(* Two parts are used by their abstract specifications: the task queue of  *)
(* a loop (SerialExecutor, implemented by EventLoop) and its timers        *)
(* (Timers, implemented by TimerQueue).  Steps that only the loop's own    *)
(* thread can observe are taken together; what other threads see (the      *)
(* table, the fds) changes in steps of its own.                            *)
(***************************************************************************)
EXTENDS Integers, Sequences, FiniteSets

CONSTANTS
  Conns,      \* connections, in the order of nothing in particular
  Fds,        \* the fds the kernel may give to them
  NLoops,     \* number of worker loops (EventLoopThreadPool.threadNum)
  Timeout,    \* connTimeOut_
  MaxNow,     \* bound on the clock
  Http,       \* TRUE: onMessage is HttpServer's, which keeps a context
  KeepAlive,  \* TRUE: onMessage may call setKeepAlive(true)
  None

ASSUME TcpServerAssumption ==
  /\ NLoops \in Nat \ {0} /\ Timeout \in Nat \ {0} /\ MaxNow \in Nat
  /\ Http \in BOOLEAN /\ KeepAlive \in BOOLEAN
  /\ None \notin Conns \cup Fds \cup Int

(* EventLoopThreadPool::start makes them.                                  *)
Loops == 0 .. (NLoops - 1)

VARIABLES
  (* the kernel *)
  owner,        \* per fd, the connection whose socket it is, or None
  peer,         \* what the client has done: "quiet", "data", "closed"
  armed,        \* per connection, the events epoll waits for: IN, OUT, off
  tick,         \* per loop, its timerfd has expired
  now,          \* the clock
  (* the connections *)
  alive,        \* the TcpConnection (and its Channel) exists
  fd,           \* its socket
  loopOf,       \* the loop of its Channel
  disconnected, \* disconnected_
  context,      \* context_ holds the request of an unfinished message
  keep,         \* keepAlive_
  last,         \* when a handler last saw activity (not in the code)
  (* the server *)
  connects,     \* connects_
  next,         \* next_ of the loop pool
  apc, acur,    \* the accepting thread: where it is, the connection in hand
  (* the worker loops *)
  lpc, cur,     \* where each is, the connection a closing handler holds
  batch,        \* the events of the last epoll_wait not dispatched yet
  tasks,        \* connections whose onConnect is queued
  timers,       \* the timers, per fd
  deadline,     \* now of the handleTimeout under way
  ub            \* an event reached a freed Channel: "none", "ignored", "halted"

kernel == <<owner, peer, armed, tick, now>>
object == <<alive, fd, loopOf, disconnected, context, keep, last>>
accepting == <<next, apc, acur>>
looping == <<lpc, cur, batch, tasks, timers, deadline, ub>>
vars == <<kernel, object, connects, accepting, looping>>

NoTimer == [conn |-> None, due |-> 0]

Init ==
  /\ owner = [f \in Fds |-> None]
  /\ peer = [c \in Conns |-> "quiet"]
  /\ armed = [c \in Conns |-> "off"]
  /\ tick = [l \in Loops |-> FALSE]
  /\ now = 0
  /\ alive = [c \in Conns |-> FALSE]
  /\ fd = [c \in Conns |-> None]
  /\ loopOf = [c \in Conns |-> None]
  /\ disconnected = [c \in Conns |-> FALSE]
  /\ context = [c \in Conns |-> FALSE]
  /\ keep = [c \in Conns |-> FALSE]
  /\ last = [c \in Conns |-> 0]
  /\ connects = [f \in Fds |-> None]
  /\ next = 0
  /\ apc = "wait" /\ acur = None
  /\ lpc = [l \in Loops |-> "wait"]
  /\ cur = [l \in Loops |-> None]
  /\ batch = [l \in Loops |-> {}]
  /\ tasks = [l \in Loops |-> <<>>]
  /\ timers = [l \in Loops |-> [f \in Fds |-> NoTimer]]
  /\ deadline = [l \in Loops |-> 0]
  /\ ub = "none"

-----------------------------------------------------------------------------
(* Reference counting.                                                     *)
Referenced(c) ==
  \/ \E f \in Fds : connects[f] = c
  \/ acur = c
  \/ \E l \in Loops : cur[l] = c
  \/ context[c]

\* Mutant: the socket is closed as soon as the connection is marked.
CloseWhenDisconnected ==
  /\ alive' = [c \in Conns |-> alive[c] /\ Referenced(c)']
  /\ owner' = [f \in Fds |-> IF owner[f] # None
                                /\ (~alive'[owner[f]] \/ disconnected[owner[f]])
                               THEN None ELSE owner[f]]
  /\ armed' = [c \in Conns |-> IF alive'[c] THEN armed[c] ELSE "off"]

(* The end of a step that drops references: what nothing refers to any     *)
(* more is destroyed, and ~Socket closes the fd (epoll forgets it).        *)
DestroyUnreferenced ==
  /\ alive' = [c \in Conns |-> alive[c] /\ Referenced(c)']
  /\ owner' = [f \in Fds |-> IF owner[f] # None /\ ~alive'[owner[f]]
                               THEN None ELSE owner[f]]
  /\ armed' = [c \in Conns |-> IF alive'[c] THEN armed[c] ELSE "off"]

-----------------------------------------------------------------------------
(* The accepting thread: handleServerAccept.                               *)

(* accept gives a free fd; the connection object is made.                  *)
Accept(c, f) ==
  /\ apc = "wait"
  /\ fd[c] = None
  /\ owner[f] = None
  /\ owner' = [owner EXCEPT ![f] = c]
  /\ fd' = [fd EXCEPT ![c] = f]
  /\ alive' = [alive EXCEPT ![c] = TRUE]
  /\ acur' = c
  /\ apc' = "table"
  /\ UNCHANGED <<peer, armed, tick, now, loopOf, disconnected, context, keep,
                 last, connects, next, looping>>

(* connects_[connfd] = conn under connMtx_.                                *)
InsertConnection ==
  /\ apc = "table"
  /\ connects' = [connects EXCEPT ![fd[acur]] = acur]
  /\ apc' = "hand"
  /\ UNCHANGED <<acur, cur, context>>
  /\ DestroyUnreferenced
  /\ UNCHANGED <<peer, tick, now, fd, loopOf, disconnected, keep, last, next,
                 lpc, batch, tasks, timers, deadline, ub>>

\* Mutant: next_ grows without the modulus.
HandOverNoWrap ==
  /\ apc = "hand"
  /\ loopOf' = [loopOf EXCEPT ![acur] = next]
  /\ next' = next + 1
  /\ tasks' = [tasks EXCEPT ![next] = Append(@, acur)]
  /\ acur' = None
  /\ apc' = "wait"
  /\ UNCHANGED <<connects, cur, context>>
  /\ DestroyUnreferenced
  /\ UNCHANGED <<peer, tick, now, fd, disconnected, keep, last, lpc, batch,
                 timers, deadline, ub>>

\* Mutant: getNextLoop is called again for runInLoop.
HandOverElsewhere ==
  /\ apc = "hand"
  /\ loopOf' = [loopOf EXCEPT ![acur] = next]
  /\ next' = (next + 2) % NLoops
  /\ tasks' = [tasks EXCEPT ![(next + 1) % NLoops] = Append(@, acur)]
  /\ acur' = None
  /\ apc' = "wait"
  /\ UNCHANGED <<connects, cur, context>>
  /\ DestroyUnreferenced
  /\ UNCHANGED <<peer, tick, now, fd, disconnected, keep, last, lpc, batch,
                 timers, deadline, ub>>

(* getNextLoop.                                                            *)
NextLoop == (next + 1) % NLoops

(* getNextLoop, the Channel, and runInLoop(onConnect): queued.             *)
HandOver ==
  /\ apc = "hand"
  /\ loopOf' = [loopOf EXCEPT ![acur] = next]
  /\ next' = NextLoop
  /\ tasks' = [tasks EXCEPT ![next] = Append(@, acur)]
  /\ acur' = None
  /\ apc' = "wait"
  /\ UNCHANGED <<connects, cur, context>>
  /\ DestroyUnreferenced
  /\ UNCHANGED <<peer, tick, now, fd, disconnected, keep, last, lpc, batch,
                 timers, deadline, ub>>

-----------------------------------------------------------------------------
(* A worker loop.                                                          *)

(* What epoll reports of a connection: RDHUP wins over IN and OUT.         *)
EventOf(c) ==
  IF peer[c] = "closed" THEN "HUP"
  ELSE IF armed[c] = "IN" THEN (IF peer[c] = "data" THEN "IN" ELSE "none")
  ELSE "OUT"

ReadyConns(l) ==
  {c \in Conns : loopOf[c] = l /\ armed[c] # "off" /\ EventOf(c) # "none"}

(* epoll_wait returns every event that is ready, in an order of its own;   *)
(* EPOLLONESHOT disarms the connections it reports.                        *)
EpollWait(l) ==
  /\ lpc[l] = "wait"
  /\ ReadyConns(l) # {} \/ tick[l] \/ tasks[l] # <<>>
  /\ batch' = [batch EXCEPT ![l] =
                 {[conn |-> c, kind |-> EventOf(c)] : c \in ReadyConns(l)}
                 \cup (IF tick[l] THEN {[conn |-> None, kind |-> "TIMER"]} ELSE {})]
  /\ armed' = [c \in Conns |-> IF c \in ReadyConns(l) THEN "off" ELSE armed[c]]
  /\ tick' = [tick EXCEPT ![l] = FALSE]
  /\ lpc' = [lpc EXCEPT ![l] = "events"]
  /\ UNCHANGED <<owner, peer, now, object, connects, accepting, cur, tasks,
                 timers, deadline, ub>>

Took(l, e) ==
  /\ lpc[l] = "events"
  /\ e \in batch[l]
  /\ batch' = [batch EXCEPT ![l] = @ \ {e}]

(* The lock of the weak pointer and the early returns of the handlers.     *)
Usable(c) == alive[c] /\ ~disconnected[c]

\* Mutant: activity does not move the timer.
NotAdjusted(l, f) == timers

(* adjustTimer(fd, now + connTimeOut_): the timer under that fd, if any.   *)
Adjusted(l, f) ==
  IF timers[l][f] = NoTimer THEN timers
  ELSE [timers EXCEPT ![l][f].due = now + Timeout]

(* handleConnectionClose up to connMtx_: the channel leaves epoll, the     *)
(* connection is marked; the handler holds it while it waits for the lock. *)
BeginClose(l, c, after) ==
  /\ disconnected' = [disconnected EXCEPT ![c] = TRUE]
  /\ armed' = [armed EXCEPT ![c] = "off"]
  /\ cur' = [cur EXCEPT ![l] = c]
  /\ lpc' = [lpc EXCEPT ![l] = after]

\* Mutant: setEvents without modChannel.
StayOpenUnarmed(c, events) == UNCHANGED <<armed, disconnected, cur, lpc>>

StayOpen(c, events) ==
  /\ armed' = [armed EXCEPT ![c] = events]
  /\ UNCHANGED <<disconnected, cur, lpc>>

(* The close callback (ERR, RDHUP or HUP).  The timer stays in the heap.   *)
HandleConnectionClose(l, e) ==
  /\ Took(l, e)
  /\ e.kind = "HUP"
  /\ Usable(e.conn)
  /\ BeginClose(l, e.conn, "erase")
  /\ UNCHANGED <<owner, peer, tick, now, alive, fd, loopOf, context, keep,
                 last, connects, accepting, tasks, timers, deadline, ub>>

(* handleConnectionRead: activity, and onRecv, which runs at once.         *)
HandleConnectionRead(l, e) ==
  /\ Took(l, e)
  /\ e.kind = "IN"
  /\ Usable(e.conn)
  /\ last' = [last EXCEPT ![e.conn] = now]

(* handleConnectionWrite: the same with onSend.                            *)
HandleConnectionWrite(l, e) ==
  /\ Took(l, e)
  /\ e.kind = "OUT"
  /\ Usable(e.conn)
  /\ last' = [last EXCEPT ![e.conn] = now]

(* onRecv: CLOSED or ERROR ends the connection.                            *)
ReadFails(l, e) ==
  LET c == e.conn IN
  /\ HandleConnectionRead(l, e)
  /\ peer[c] = "closed"
  /\ timers' = [timers EXCEPT ![l][fd[c]] = NoTimer]
  /\ BeginClose(l, c, "erase")
  /\ UNCHANGED <<owner, peer, tick, now, alive, fd, loopOf, context, keep,
                 connects, accepting, tasks, deadline, ub>>

(* onRecv when onMessage wants more: HttpServer keeps the request.         *)
ReadAgain(l, e) ==
  LET c == e.conn IN
  /\ HandleConnectionRead(l, e)
  /\ peer[c] = "data"
  /\ Http
  /\ timers' = Adjusted(l, fd[c])
  /\ peer' = [peer EXCEPT ![c] = "quiet"]
  /\ context' = [context EXCEPT ![c] = TRUE]
  /\ StayOpen(c, "IN")
  /\ UNCHANGED <<owner, tick, now, alive, fd, loopOf, keep, connects,
                 accepting, tasks, deadline, ub>>

(* onRecv when onMessage is done: the response waits for EPOLLOUT.  What   *)
(* onMessage says of keep-alive is the application's (HttpServer::onMessage*)
(* clears it for a bad request).                                           *)
ReadComplete(l, e) ==
  LET c == e.conn IN
  /\ HandleConnectionRead(l, e)
  /\ peer[c] = "data"
  /\ timers' = Adjusted(l, fd[c])
  /\ peer' = [peer EXCEPT ![c] = "quiet"]
  /\ context' = [context EXCEPT ![c] = FALSE]
  /\ \E k \in {keep[c], KeepAlive, FALSE} : keep' = [keep EXCEPT ![c] = k]
  /\ StayOpen(c, "OUT")
  /\ UNCHANGED <<owner, tick, now, alive, fd, loopOf, connects,
                 accepting, tasks, deadline, ub>>

(* onSend: AGAIN waits for EPOLLOUT again, a completed response of a kept  *)
(* connection for the next request.                                        *)
WriteStays(l, e) ==
  LET c == e.conn IN
  /\ HandleConnectionWrite(l, e)
  /\ timers' = Adjusted(l, fd[c])
  /\ StayOpen(c, "OUT") \/ (keep[c] /\ StayOpen(c, "IN"))
  /\ UNCHANGED <<owner, peer, tick, now, alive, fd, loopOf, context, keep,
                 connects, accepting, tasks, deadline, ub>>

(* COMPLETED without keep-alive, CLOSED or ERROR.                          *)
WriteCloses(l, e) ==
  LET c == e.conn IN
  /\ HandleConnectionWrite(l, e)
  /\ timers' = [timers EXCEPT ![l][fd[c]] = NoTimer]
  /\ BeginClose(l, c, "erase")
  /\ UNCHANGED <<owner, peer, tick, now, alive, fd, loopOf, context, keep,
                 connects, accepting, tasks, deadline, ub>>

(* The Channel exists but its connection is disconnected: return early.    *)
EventIgnored(l, e) ==
  /\ Took(l, e)
  /\ e.kind # "TIMER"
  /\ alive[e.conn] /\ disconnected[e.conn]
  /\ UNCHANGED <<kernel, object, connects, accepting, lpc, cur, tasks, timers,
                 deadline, ub>>

(* The Channel was freed earlier in this batch and handleEvents is called  *)
(* on it: undefined.  The memory may still hold the callback with its      *)
(* expired weak pointer, and nothing happens, or the process dies.         *)
EventOnFreedChannel(l, e) ==
  /\ Took(l, e)
  /\ e.kind # "TIMER"
  /\ ~alive[e.conn]
  /\ ub' \in {"ignored", "halted"}
  /\ UNCHANGED <<kernel, object, connects, accepting, lpc, cur, tasks, timers,
                 deadline>>

(* The timerfd: handleTimeout reads the clock and looks at the timers.     *)
HandleTimeout(l, e) ==
  /\ Took(l, e)
  /\ e.kind = "TIMER"
  /\ deadline' = [deadline EXCEPT ![l] = now]
  /\ lpc' = [lpc EXCEPT ![l] = "timers"]
  /\ UNCHANGED <<kernel, object, connects, accepting, cur, tasks, timers, ub>>

DueTimers(l) ==
  {f \in Fds : timers[l][f] # NoTimer /\ timers[l][f].due <= deadline[l]}

(* The callback of an earliest due timer, handleConnectionClose of the     *)
(* connection it was made for, and the pop of the timer.                   *)
FireTimer(l, f) ==
  LET c == timers[l][f].conn IN
  /\ lpc[l] = "timers"
  /\ f \in DueTimers(l)
  /\ \A g \in DueTimers(l) : timers[l][f].due <= timers[l][g].due
  /\ timers' = [timers EXCEPT ![l][f] = NoTimer]
  /\ IF Usable(c) THEN BeginClose(l, c, "eraseTimed")
                  ELSE UNCHANGED <<disconnected, armed, cur, lpc>>
  /\ UNCHANGED <<owner, peer, tick, now, alive, fd, loopOf, context, keep, last,
                 connects, accepting, batch, tasks, deadline, ub>>

TimeoutReturns(l) ==
  /\ lpc[l] = "timers"
  /\ DueTimers(l) = {}
  /\ lpc' = [lpc EXCEPT ![l] = "events"]
  /\ deadline' = [deadline EXCEPT ![l] = 0]
  /\ UNCHANGED <<kernel, object, connects, accepting, cur, batch, tasks, timers,
                 ub>>

\* Mutant: the entry stays.
EraseNothing(l) ==
  /\ lpc[l] \in {"erase", "eraseTimed"}
  /\ lpc' = [lpc EXCEPT ![l] = IF @ = "erase" THEN "drop" ELSE "dropTimed"]
  /\ UNCHANGED <<connects, acur, cur, context>>
  /\ DestroyUnreferenced
  /\ UNCHANGED <<peer, tick, now, fd, loopOf, disconnected, keep, last, next,
                 apc, batch, tasks, timers, deadline, ub>>

(* The critical section of handleConnectionClose: whatever the table holds *)
(* under the connection's fd is erased.                                    *)
EraseConnection(l) ==
  /\ lpc[l] \in {"erase", "eraseTimed"}
  /\ connects' = [connects EXCEPT ![fd[cur[l]]] = None]
  /\ lpc' = [lpc EXCEPT ![l] = IF @ = "erase" THEN "drop" ELSE "dropTimed"]
  /\ UNCHANGED <<acur, cur, context>>
  /\ DestroyUnreferenced
  /\ UNCHANGED <<peer, tick, now, fd, loopOf, disconnected, keep, last, next,
                 apc, batch, tasks, timers, deadline, ub>>

(* The handler returns and its shared pointer goes.                        *)
DropConnection(l) ==
  /\ lpc[l] \in {"drop", "dropTimed"}
  /\ cur' = [cur EXCEPT ![l] = None]
  /\ lpc' = [lpc EXCEPT ![l] = IF @ = "drop" THEN "events" ELSE "timers"]
  /\ UNCHANGED <<connects, acur, context>>
  /\ DestroyUnreferenced
  /\ UNCHANGED <<peer, tick, now, fd, loopOf, disconnected, keep, last, next,
                 apc, batch, tasks, timers, deadline, ub>>

BatchDone(l) ==
  /\ lpc[l] = "events"
  /\ batch[l] = {}
  /\ lpc' = [lpc EXCEPT ![l] = "tasks"]
  /\ UNCHANGED <<kernel, object, connects, accepting, cur, batch, tasks, timers,
                 deadline, ub>>

\* Mutant: a timer that is already under the fd stays.
OnConnectKeepsTimer(l) ==
  LET c == Head(tasks[l]) IN
  /\ lpc[l] = "tasks"
  /\ tasks[l] # <<>>
  /\ tasks' = [tasks EXCEPT ![l] = Tail(@)]
  /\ IF alive[c]
       THEN /\ armed' = [armed EXCEPT ![c] = "IN"]
            /\ IF timers[l][fd[c]] = NoTimer
                 THEN timers' = [timers EXCEPT ![l][fd[c]] =
                                   [conn |-> c, due |-> now + Timeout]]
                 ELSE UNCHANGED timers
            /\ last' = [last EXCEPT ![c] = now]
       ELSE UNCHANGED <<armed, timers, last>>
  /\ UNCHANGED <<owner, peer, tick, now, alive, fd, loopOf, disconnected,
                 context, keep, connects, accepting, lpc, cur, batch, deadline,
                 ub>>

(* onConnect: the channel joins epoll and the connection gets its timer,   *)
(* in place of one that an earlier connection left under the same fd.      *)
OnConnect(l) ==
  LET c == Head(tasks[l]) IN
  /\ lpc[l] = "tasks"
  /\ tasks[l] # <<>>
  /\ tasks' = [tasks EXCEPT ![l] = Tail(@)]
  /\ IF alive[c]
       THEN /\ armed' = [armed EXCEPT ![c] = "IN"]
            /\ timers' = [timers EXCEPT ![l][fd[c]] =
                            [conn |-> c, due |-> now + Timeout]]
            /\ last' = [last EXCEPT ![c] = now]
       ELSE UNCHANGED <<armed, timers, last>>
  /\ UNCHANGED <<owner, peer, tick, now, alive, fd, loopOf, disconnected,
                 context, keep, connects, accepting, lpc, cur, batch, deadline,
                 ub>>

TasksDone(l) ==
  /\ lpc[l] = "tasks"
  /\ tasks[l] = <<>>
  /\ lpc' = [lpc EXCEPT ![l] = "wait"]
  /\ UNCHANGED <<kernel, object, connects, accepting, cur, batch, tasks, timers,
                 deadline, ub>>

-----------------------------------------------------------------------------
(* The clients and the clock.  The timerfds are periodic: each unit of     *)
(* time makes them all readable.                                           *)
ClientSends(c) ==
  /\ alive[c]
  /\ peer[c] = "quiet"
  /\ peer' = [peer EXCEPT ![c] = "data"]
  /\ UNCHANGED <<owner, armed, tick, now, object, connects, accepting, looping>>

ClientCloses(c) ==
  /\ alive[c]
  /\ peer[c] # "closed"
  /\ peer' = [peer EXCEPT ![c] = "closed"]
  /\ UNCHANGED <<owner, armed, tick, now, object, connects, accepting, looping>>

Tick ==
  /\ now < MaxNow
  /\ now' = now + 1
  /\ tick' = [l \in Loops |-> TRUE]
  /\ UNCHANGED <<owner, peer, armed, object, connects, accepting, looping>>

Dispatch(l, e) ==
  \/ HandleConnectionClose(l, e)
  \/ ReadFails(l, e) \/ ReadAgain(l, e) \/ ReadComplete(l, e)
  \/ WriteStays(l, e) \/ WriteCloses(l, e)
  \/ EventIgnored(l, e) \/ EventOnFreedChannel(l, e)
  \/ HandleTimeout(l, e)

LoopStep(l) ==
  \/ EpollWait(l)
  \/ \E e \in batch[l] : Dispatch(l, e)
  \/ \E f \in Fds : FireTimer(l, f)
  \/ TimeoutReturns(l)
  \/ EraseConnection(l) \/ DropConnection(l)
  \/ BatchDone(l) \/ OnConnect(l) \/ TasksDone(l)

AcceptStep == InsertConnection \/ HandOver

Next ==
  /\ ub # "halted"
  /\ \/ \E c \in Conns, f \in Fds : Accept(c, f)
     \/ AcceptStep
     \/ \E l \in Loops : LoopStep(l)
     \/ \E c \in Conns : ClientSends(c) \/ ClientCloses(c)
     \/ Tick

(* The scheduler runs each thread that can run.  Clients and the clock owe *)
(* nothing.                                                                *)
Fairness ==
  /\ WF_vars(ub # "halted" /\ AcceptStep)
  /\ \A l \in Loops : WF_vars(ub # "halted" /\ LoopStep(l))

Spec == Init /\ [][Next]_vars /\ Fairness

-----------------------------------------------------------------------------
(* Correctness.                                                            *)

(* The type of every variable.                                             *)
TypeOK ==
  /\ owner \in [Fds -> Conns \cup {None}]
  /\ peer \in [Conns -> {"quiet", "data", "closed"}]
  /\ armed \in [Conns -> {"IN", "OUT", "off"}]
  /\ tick \in [Loops -> BOOLEAN]
  /\ now \in 0 .. MaxNow
  /\ alive \in [Conns -> BOOLEAN]
  /\ fd \in [Conns -> Fds \cup {None}]
  /\ loopOf \in [Conns -> Loops \cup {None}]
  /\ disconnected \in [Conns -> BOOLEAN]
  /\ context \in [Conns -> BOOLEAN]
  /\ keep \in [Conns -> BOOLEAN]
  /\ last \in [Conns -> 0 .. MaxNow]
  /\ connects \in [Fds -> Conns \cup {None}]
  /\ next \in Loops
  /\ apc \in {"wait", "table", "hand"}
  /\ acur \in Conns \cup {None}
  /\ lpc \in [Loops -> {"wait", "events", "timers", "tasks", "erase", "drop",
                       "eraseTimed", "dropTimed"}]
  /\ cur \in [Loops -> Conns \cup {None}]
  /\ batch \in [Loops -> SUBSET [conn : Conns \cup {None},
                                kind : {"IN", "OUT", "HUP", "TIMER"}]]
  /\ tasks \in [Loops -> Seq(Conns)]
  /\ timers \in [Loops -> [Fds -> [conn : Conns \cup {None},
                                 due : 0 .. (MaxNow + Timeout)]]]
  /\ deadline \in [Loops -> 0 .. MaxNow]
  /\ ub \in {"none", "ignored", "halted"}

Queued(c) == \E l \in Loops : \E i \in DOMAIN tasks[l] : tasks[l][i] = c
InBatch(c) == \E l \in Loops : \E e \in batch[l] : e.conn = c

(* Being served: onConnect has run and no handler has closed it.           *)
Served(c) == /\ alive[c] /\ ~disconnected[c]
             /\ acur # c /\ ~Queued(c)

(* connects_ (TcpServer.cpp:72-75, 160-167) is exact although two threads  *)
(* write it and fds are reused: an entry under an fd is the live           *)
(* connection that owns this fd, and every connection that is being served *)
(* has its entry.  An erase that came after the fd was closed would remove *)
(* the entry of the next connection.                                       *)
TableIsExact ==
  /\ \A f \in Fds : connects[f] # None =>
        alive[connects[f]] /\ fd[connects[f]] = f /\ owner[f] = connects[f]
  /\ \A c \in Conns : Served(c) \/ Queued(c) => connects[fd[c]] = c

(* What is done to a connection is done in its own loop, whichever task,   *)
(* event or timer starts it (assertInLoopThread, TcpServer.cpp:103, 128,   *)
(* 154, 182, 205, 243), so that two handlers never hold the same one.      *)
OwnLoopOnly ==
  \A l \in Loops :
    /\ cur[l] # None => loopOf[cur[l]] = l
    /\ \A k \in DOMAIN tasks[l] : loopOf[tasks[l][k]] = l

(* A served connection has, in its own loop and under its fd, the timer    *)
(* that closes it connTimeOut_ after its last activity (TcpServer.cpp:     *)
(* 105-109, 187-191): the timer that a closed connection left under the    *)
(* same fd (handleConnectionClose removes none) must not stay in its place.*)
GuardedByOwnTimer ==
  \A c \in Conns : Served(c) =>
    timers[loopOf[c]][fd[c]] = [conn |-> c, due |-> last[c] + Timeout]

(* EPOLLONESHOT: a served connection is either armed in epoll or its event *)
(* is still to be dispatched; no path through the handlers leaves it deaf  *)
(* (TcpServer.cpp:219-228, 245-272).                                       *)
NeverDeaf ==
  \A c \in Conns : Served(c) => armed[c] # "off" \/ InBatch(c)

(* Nothing but the handlers keeps a closed connection: once its handler    *)
(* has returned the object is gone and its fd is free (TcpServer.h:53).    *)
ClosedIsReleased ==
  \A c \in Conns :
    disconnected[c] /\ (\A l \in Loops : cur[l] # c)
      => ~alive[c] /\ owner[fd[c]] # c

(* The context of an unfinished request (HttpServer.cpp:15) is the only     *)
(* thing that can keep a closed connection: table, tasks, timers and the   *)
(* other loops let go of it, in whatever order they close and accept.      *)
OnlyTheContextKeeps ==
  \A c \in Conns :
    disconnected[c] /\ ~context[c] /\ (\A l \in Loops : cur[l] # c)
      => ~alive[c] /\ owner[fd[c]] # c

(* A handler is never called on the Channel of a destroyed connection: the *)
(* check of TcpServer.cpp:94-98 is made by the callback that the freed     *)
(* Channel stores.                                                         *)
NoEventOnFreedChannel == ub = "none"

(* A connection whose client has gone is closed and released.              *)
HangupsAreReleased ==
  \A c \in Conns :
    (alive[c] /\ peer[c] = "closed") ~> (~alive[c] \/ ub = "halted")

(* A connection that was idle for connTimeOut_ is closed and released.     *)
IdleConnectionsClose ==
  \A c \in Conns :
    (Served(c) /\ last[c] + Timeout <= now)
      ~> (~alive[c] \/ last[c] + Timeout > now \/ ub = "halted")

=============================================================================
