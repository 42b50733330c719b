---------------------------- MODULE MCTimerQueue ----------------------------
(* Bounds for TimerQueue: four fds, of which one has a shorter delay, so   *)
(* that a later push may expire earlier.                                   *)
EXTENDS TimerQueue

MCFds == 1 .. 4
MCDelay == [f \in MCFds |-> IF f = 2 THEN 1 ELSE 2]
MCTimes == 0 .. 5

=============================================================================
