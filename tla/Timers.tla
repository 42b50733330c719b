------------------------------- MODULE Timers -------------------------------
(***************************************************************************)
(* What the timers of an event loop promise, whatever structure holds      *)
(* them: each fd has at most one timer; setting or dropping the timer of   *)
(* one fd leaves the others alone; a timeout takes a deadline and runs the *)
(* callbacks of the timers due by then, an earliest one first, and returns *)
(* only when no timer due by the deadline is left.                         *)
(***************************************************************************)
EXTENDS Naturals

CONSTANT Fds

VARIABLES
  due,       \* function from the fds that have a timer to expiry times
  running,   \* a timeout is being handled
  deadline,  \* its deadline
  fired      \* the timer whose callback ran last

Init ==
  /\ due = [f \in {} |-> 0]
  /\ running = FALSE
  /\ deadline = 0
  /\ fired \in [fd : Fds, expire : {0}]

Set(f, e) ==
  /\ ~running
  /\ due' = [g \in DOMAIN due \cup {f} |-> IF g = f THEN e ELSE due[g]]
  /\ UNCHANGED <<running, deadline, fired>>

Drop(f) == due' = [g \in DOMAIN due \ {f} |-> due[g]]

Cancel(f) ==
  /\ ~running
  /\ f \in DOMAIN due
  /\ Drop(f)
  /\ UNCHANGED <<running, deadline, fired>>

Begin(t) ==
  /\ ~running
  /\ running' = TRUE
  /\ deadline' = t
  /\ UNCHANGED <<due, fired>>

Fire(f) ==
  /\ running
  /\ f \in DOMAIN due
  /\ due[f] <= deadline
  /\ \A g \in DOMAIN due : due[f] <= due[g]
  /\ Drop(f)
  /\ fired' = [fd |-> f, expire |-> due[f]]
  /\ UNCHANGED <<running, deadline>>

Return ==
  /\ running
  /\ \A f \in DOMAIN due : due[f] > deadline
  /\ running' = FALSE
  /\ UNCHANGED <<due, deadline, fired>>

(* The expiry that Set gives and the deadline of Begin are the caller's.   *)
Next ==
  \/ \E f \in Fds : f \in DOMAIN due' /\ Set(f, due'[f])
  \/ \E f \in Fds : Cancel(f) \/ Fire(f)
  \/ Begin(deadline')
  \/ Return

Spec == Init /\ [][Next]_<<due, running, deadline, fired>>

=============================================================================
