----------------------------- MODULE TimerQueue -----------------------------
(***************************************************************************)
(* The timers of one event loop: TimerQueue on top of TimerHeap            *)
(* (net/TimerQueue.cpp), as the loop's thread uses it through addTimer,    *)
(* adjustTimer, delTimer and the timerfd's handler.                        *)
(*                                                                         *)
(* now is gettimeofday.  It moves at any moment, also while an operation   *)
(* is under way, but only forwards here (TimerHeap says what happens when  *)
(* an expiry moves backwards); handleTimeout reads it once.  Every caller arms a timer   *)
(* at now plus a delay that is fixed for the fd (the connection timeout,   *)
(* or the session's maximal inactive interval).                            *)
(***************************************************************************)
EXTENDS TimerHeap

CONSTANTS
  Delay,    \* the delay, per fd
  MaxNow    \* bound on the clock

ASSUME DelayAssumption ==
  /\ Delay \in [Fds -> Nat]
  /\ MaxNow \in Nat
  /\ \A f \in Fds, t \in 0 .. MaxNow : t + Delay[f] \in Times

VARIABLES
  now,        \* TimeStamp::now()
  inTimeout,  \* the thread is in handleTimeout
  deadline,   \* its local variable now
  fired       \* the timer whose callback ran last

queueVars == <<now, inTimeout, deadline, fired>>
allVars == <<vars, queueVars>>

QInit ==
  /\ Init
  /\ now = 0
  /\ inTimeout = FALSE
  /\ deadline = 0
  /\ fired \in [fd : Fds, expire : {0}]

Armed(f) == [fd |-> f, expire |-> now + Delay[f]]

Push(f) ==
  /\ ~inTimeout
  /\ PushNew(Armed(f)) \/ PushExisting(Armed(f))
  /\ UNCHANGED queueVars

AdjustTimer(f) ==
  /\ ~inTimeout
  /\ Adjust(Armed(f))
  /\ UNCHANGED queueVars

RemoveTimer(f) ==
  /\ ~inTimeout
  /\ Remove(f)
  /\ UNCHANGED queueVars

HandleTimeout ==
  /\ ~inTimeout
  /\ pc = "idle"
  /\ inTimeout' = TRUE
  /\ deadline' = now
  /\ UNCHANGED <<vars, now, fired>>

\* Mutant: a timer due right at the deadline waits.
FireTopStrict ==
  /\ inTimeout
  /\ pc = "idle"
  /\ size > 0
  /\ heap[0].expire < deadline
  /\ fired' = heap[0]
  /\ Pop
  /\ UNCHANGED <<now, inTimeout, deadline>>

(* One iteration: the callback of top(), then pop().  The callbacks of the *)
(* server (handleConnectionClose, handleSessionTimeout) leave the timers   *)
(* of the loop alone.                                                      *)
FireTop ==
  /\ inTimeout
  /\ pc = "idle"
  /\ size > 0
  /\ heap[0].expire <= deadline
  /\ fired' = heap[0]
  /\ Pop
  /\ UNCHANGED <<now, inTimeout, deadline>>

TimeoutReturns ==
  /\ inTimeout
  /\ pc = "idle"
  /\ size > 0 => heap[0].expire > deadline
  /\ inTimeout' = FALSE
  /\ UNCHANGED <<vars, now, deadline, fired>>

HeapStep == Step /\ UNCHANGED queueVars

Tick ==
  /\ now < MaxNow
  /\ now' = now + 1
  /\ UNCHANGED <<vars, inTimeout, deadline, fired>>

QNext ==
  \/ \E f \in Fds : Push(f) \/ AdjustTimer(f) \/ RemoveTimer(f)
  \/ HandleTimeout \/ FireTop \/ TimeoutReturns
  \/ HeapStep
  \/ Tick

(* The thread finishes what it began, and the timerfd is periodic and      *)
(* level with the loop: every iteration of the loop that finds it readable *)
(* runs handleTimeout, however busy the loop is with other events.         *)
QSpec ==
  /\ QInit /\ [][QNext]_allVars
  /\ WF_allVars(HeapStep) /\ WF_allVars(FireTop \/ TimeoutReturns)
  /\ SF_allVars(HandleTimeout)

-----------------------------------------------------------------------------
QTypeOK ==
  /\ TypeOK
  /\ now \in Nat /\ deadline \in Nat
  /\ inTimeout \in BOOLEAN
  /\ fired \in Timer

(* handleTimeout returns only when no timer that was due when it started   *)
(* is left, although it looks at the root only.                            *)
NoneLeftBehind ==
  [][inTimeout /\ ~inTimeout' =>
       \A k \in Positions : heap[k].expire > deadline]_allVars

(* A timer that is due does not stay: it fires, or its connection is       *)
(* active or closed before.                                                *)
DueTimersGo ==
  \A f \in Fds :
    (f \in DOMAIN ref /\ heap[ref[f]].expire <= now)
      ~> (f \notin DOMAIN ref \/ heap[ref[f]].expire > now)

(* The abstract state: the fds that have a timer and when it is due.  The  *)
(* node that del_ has moved to the end has already left.                   *)
Due ==
  [f \in {heap[k].fd : k \in 0 .. (Kept - 1)} |-> heap[ref[f]].expire]

Abs == INSTANCE Timers WITH due <- Due, running <- inTimeout

(* The heap and handleTimeout implement the abstract timers: a push,       *)
(* adjustment or removal changes the timer of its own fd only, callbacks   *)
(* run earliest first, and every timer due by the deadline has run when    *)
(* handleTimeout returns.                                                  *)
ImplementsTimers == Abs!Spec

=============================================================================
