---------------------------- MODULE MCEventLoop ----------------------------
(* Two threads that submit tasks, one of which also destroys the loop.     *)
EXTENDS EventLoop
=============================================================================
