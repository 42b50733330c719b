----------------------------- MODULE TimerHeap -----------------------------
(***************************************************************************)
(* The min-heap of timers of one event loop (net/TimerHeap.h and .cpp).    *)
(* heap_ is a vector of timers ordered by expiry and ref_ maps the fd of   *)
(* a timer to its position in heap_.  Only the loop's own thread touches   *)
(* the heap (every entry point starts with assertInLoopThread), so the     *)
(* operations do not interleave.  Each iteration of the sifting loops is   *)
(* a step of its own, because what has to be right about them is the       *)
(* relation that every SwapNode_ preserves.                                *)
(*                                                                         *)
(* A timer is reduced to its fd and its expiry; the callback it carries is *)
(* modelled where it matters, in TcpServer.                                *)
(***************************************************************************)
EXTENDS Integers

CONSTANTS
  Fds,     \* the fds timers are registered under
  Times,   \* the expiry times that callers may ask for
  ClockMayStepBack   \* TRUE if gettimeofday may be set back while running

ASSUME ConstantsAssumption ==
  /\ Times \subseteq Nat
  /\ ClockMayStepBack \in BOOLEAN

VARIABLES
  heap,      \* heap_, as a function on 0 .. size-1
  size,      \* heap_.size()
  ref,       \* ref_, a function from the fds that have a timer to positions
  pc,        \* where the operation under way is
  i,         \* the position being sifted (i in siftup_ and siftdown_)
  start,     \* the index siftdown_ was called with
  limit,     \* the n siftdown_ was called with
  thenUp,    \* the caller runs siftup_ when siftdown_ did not move the timer
  deleting   \* the operation under way is del_

vars == <<heap, size, ref, pc, i, start, limit, thenUp, deleting>>
control == <<i, start, limit, thenUp, deleting>>

Timer == [fd : Fds, expire : Nat]
Positions == 0 .. (size - 1)

\* Mutant: with a signed i the division rounds towards zero.
ParentRounded(k) == IF k = 0 THEN 0 ELSE (k - 1) \div 2

\* (i - 1) / 2 of a size_t assigned to an int: for i = 0 it is -1.
Parent(k) == (k - 1) \div 2

Less(a, b) == heap[a].expire < heap[b].expire

Init ==
  /\ heap = [k \in {} |-> 0]
  /\ size = 0
  /\ ref = [f \in {} |-> 0]
  /\ pc = "idle"
  /\ i = 0 /\ start = 0 /\ limit = 0
  /\ thenUp = FALSE /\ deleting = FALSE

-----------------------------------------------------------------------------
\* Mutant: only the node that comes to a is registered.
SwapNodeOneSided(a, b) ==
  /\ heap' = [heap EXCEPT ![a] = heap[b], ![b] = heap[a]]
  /\ ref'  = [ref EXCEPT ![heap[b].fd] = a]

(* Swapping two nodes and adjusting what ref_ says of both.                *)
SwapNode(a, b) ==
  /\ heap' = [heap EXCEPT ![a] = heap[b], ![b] = heap[a]]
  /\ ref'  = [ref EXCEPT ![heap[b].fd] = a, ![heap[a].fd] = b]

(* The calls of the sifting loops, from the operation that makes them.     *)
(* Local variables are 0 when they are out of scope.                       *)
CallSiftUp(k) ==
  /\ pc' = "up"
  /\ i' = k /\ start' = 0 /\ limit' = 0
  /\ thenUp' = FALSE

CallSiftDown(k, n, up) ==
  /\ pc' = "down"
  /\ i' = k /\ start' = k /\ limit' = n
  /\ thenUp' = up

(* The sifting is over: del_ goes on to drop the last node, the other      *)
(* operations return.                                                      *)
Sifted ==
  /\ pc' = IF deleting THEN "erase" ELSE "idle"
  /\ i' = 0 /\ start' = 0 /\ limit' = 0
  /\ thenUp' = FALSE
  /\ UNCHANGED <<heap, ref, size, deleting>>

-----------------------------------------------------------------------------
\* Mutant: appended without siftup_.
PushNewUnsifted(t) ==
  /\ pc = "idle"
  /\ t.fd \notin DOMAIN ref
  /\ ref' = [f \in DOMAIN ref \cup {t.fd} |-> IF f = t.fd THEN size ELSE ref[f]]
  /\ heap' = [k \in 0 .. size |-> IF k = size THEN t ELSE heap[k]]
  /\ size' = size + 1
  /\ UNCHANGED <<pc, control>>

(* push of a timer whose fd has none yet.                                  *)
PushNew(t) ==
  /\ pc = "idle"
  /\ t.fd \notin DOMAIN ref
  /\ ref' = [f \in DOMAIN ref \cup {t.fd} |-> IF f = t.fd THEN size ELSE ref[f]]
  /\ heap' = [k \in 0 .. size |-> IF k = size THEN t ELSE heap[k]]
  /\ size' = size + 1
  /\ CallSiftUp(size)
  /\ UNCHANGED deleting

(* push of a timer whose fd has one: the new timer takes its place.        *)
PushExisting(t) ==
  /\ pc = "idle"
  /\ t.fd \in DOMAIN ref
  /\ heap' = [heap EXCEPT ![ref[t.fd]] = t]
  /\ CallSiftDown(ref[t.fd], size, TRUE)
  /\ UNCHANGED <<ref, size, deleting>>

(* adjust sets the expiry and only sifts down.  Its callers pass the       *)
(* current time plus a constant, so the expiry grows unless the clock is   *)
(* set back.  The timer of an fd that is not in the heap is ignored.       *)
Adjust(t) ==
  /\ pc = "idle"
  /\ t.fd \in DOMAIN ref
  /\ ClockMayStepBack \/ heap[ref[t.fd]].expire <= t.expire
  /\ heap' = [heap EXCEPT ![ref[t.fd]] =
                [fd |-> heap[ref[t.fd]].fd, expire |-> t.expire]]
  /\ CallSiftDown(ref[t.fd], size, FALSE)
  /\ UNCHANGED <<ref, size, deleting>>

(* del_: the node goes to the end and the one that took its place is       *)
(* sifted among the first size-1.                                          *)
Del(k) ==
  /\ IF k < size - 1
       THEN /\ SwapNode(k, size - 1)
            /\ CallSiftDown(k, size - 1, TRUE)
       ELSE /\ pc' = "erase"
            /\ UNCHANGED <<heap, ref, i, start, limit, thenUp>>
  /\ deleting' = TRUE
  /\ UNCHANGED size

Remove(f) ==
  /\ pc = "idle"
  /\ f \in DOMAIN ref
  /\ Del(ref[f])

Pop ==
  /\ pc = "idle"
  /\ size > 0
  /\ Del(0)

Clear ==
  /\ pc = "idle"
  /\ heap' = [k \in {} |-> 0]
  /\ ref' = [f \in {} |-> 0]
  /\ size' = 0
  /\ UNCHANGED <<pc, control>>

-----------------------------------------------------------------------------
\* Mutant: the larger child.
ChildLarger ==
  LET j == 2 * i + 1
  IN IF j + 1 < limit /\ Less(j, j + 1) THEN j + 1 ELSE j

(* The smaller child of i among the first limit nodes.                     *)
Child ==
  LET j == 2 * i + 1
  IN IF j + 1 < limit /\ Less(j + 1, j) THEN j + 1 ELSE j

(* One iteration of siftdown_ that swaps (on equal expiries too).          *)
SiftDownSwap ==
  /\ pc = "down"
  /\ 2 * i + 1 < limit
  /\ ~ Less(i, Child)
  /\ SwapNode(i, Child)
  /\ i' = Child
  /\ UNCHANGED <<size, pc, start, limit, thenUp, deleting>>

(* siftdown_ ends, and its caller looks at whether the node moved.         *)
SiftDownExit ==
  /\ pc = "down"
  /\ 2 * i + 1 < limit => Less(i, Child)
  /\ IF thenUp /\ i <= start
       THEN /\ CallSiftUp(start)
            /\ UNCHANGED <<heap, ref, size, deleting>>
       ELSE Sifted

(* One iteration of siftup_ that swaps.                                    *)
SiftUpSwap ==
  /\ pc = "up"
  /\ Parent(i) >= 0
  /\ ~ Less(Parent(i), i)
  /\ SwapNode(i, Parent(i))
  /\ i' = Parent(i)
  /\ UNCHANGED <<size, pc, start, limit, thenUp, deleting>>

SiftUpExit ==
  /\ pc = "up"
  /\ Parent(i) >= 0 => Less(Parent(i), i)
  /\ Sifted

(* The end of del_: the last node leaves ref_ and heap_.                   *)
Erase ==
  /\ pc = "erase"
  /\ ref' = [f \in DOMAIN ref \ {heap[size - 1].fd} |-> ref[f]]
  /\ heap' = [k \in 0 .. (size - 2) |-> heap[k]]
  /\ size' = size - 1
  /\ pc' = "idle"
  /\ deleting' = FALSE
  /\ UNCHANGED <<i, start, limit, thenUp>>

-----------------------------------------------------------------------------
Input == [fd : Fds, expire : Times]

Call ==
  \/ \E t \in Input : PushNew(t) \/ PushExisting(t) \/ Adjust(t)
  \/ \E f \in Fds : Remove(f)
  \/ Pop
  \/ Clear

Step ==
  SiftDownSwap \/ SiftDownExit \/ SiftUpSwap \/ SiftUpExit \/ Erase

Next == Call \/ Step

(* An operation that has been called runs to its end: the loop's thread    *)
(* does nothing else meanwhile.                                            *)
Spec == Init /\ [][Next]_vars /\ WF_vars(Step)

-----------------------------------------------------------------------------
(* Types: positions stay inside the vector, so that no assert of           *)
(* SwapNode_, siftup_, siftdown_ or del_ fails.                            *)
TypeOK ==
  /\ size \in Nat
  /\ heap \in [Positions -> Timer]
  /\ DOMAIN ref \subseteq Fds
  /\ ref \in [DOMAIN ref -> Positions]
  /\ pc \in {"idle", "down", "up", "erase"}
  /\ i \in Nat /\ start \in Nat /\ limit \in Nat
  /\ thenUp \in BOOLEAN /\ deleting \in BOOLEAN

(* ref_ is the exact inverse of heap_, in every intermediate state: each   *)
(* registered fd has one node and each node is found under its fd.  A      *)
(* SwapNode_ that updated one side only, or an erase of the wrong fd,      *)
(* would make adjust and remove act on another connection's timer.         *)
RefIsInverse ==
  /\ \A k \in Positions : heap[k].fd \in DOMAIN ref /\ ref[heap[k].fd] = k
  /\ \A f \in DOMAIN ref : heap[ref[f]].fd = f

(* The nodes that stay once the operation under way is over.               *)
Kept == IF deleting THEN size - 1 ELSE size

InOrder(k) == heap[Parent(k)].expire <= heap[k].expire

(* While a node is sifted the heap is ordered everywhere but around it,    *)
(* and the children of the hole are not before its parent: the order that  *)
(* siftdown_ and siftup_ rely on.  siftdown_ alone is enough after adjust, *)
(* and once it has moved the node, because the node is then not before     *)
(* its parent.                                                             *)
OrderedAround ==
  /\ \A k \in 1 .. (Kept - 1) : k # i /\ Parent(k) # i => InOrder(k)
  /\ \A k \in 1 .. (Kept - 1) :
       Parent(k) = i /\ i > 0 => heap[Parent(i)].expire <= heap[k].expire

SiftOrder ==
  /\ pc \in {"idle", "erase"} => \A k \in 1 .. (Kept - 1) : InOrder(k)
  /\ pc \in {"down", "up"} => OrderedAround
  /\ pc = "down" /\ i > 0 /\ (i > start \/ ~thenUp) => InOrder(i)
  /\ pc = "up" => \A k \in 1 .. (Kept - 1) : Parent(k) = i => InOrder(k)

(* What the sifting loops know of their own counters.                      *)
SiftBounds ==
  /\ pc \in {"down", "up"} => i < Kept
  /\ pc = "down" => start <= i /\ limit = Kept
  /\ pc = "idle" => ~deleting
  /\ pc = "erase" => deleting
  /\ deleting => size > 0

(* Between operations top() is a timer that no other timer precedes: the   *)
(* while loop of TimerQueue::handleTimeout stops at the first timer that   *)
(* is not due, so one that is due and hidden below would be skipped.       *)
RootIsMinimum ==
  pc = "idle" => \A k \in Positions : heap[0].expire <= heap[k].expire

(* Every operation ends: both sifting loops terminate.                     *)
OperationsEnd == pc # "idle" ~> pc = "idle"

=============================================================================
