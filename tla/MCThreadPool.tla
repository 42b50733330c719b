---------------------------- MODULE MCThreadPool ----------------------------
(* Three workers, so that one may sleep while two compete for a task.      *)
EXTENDS ThreadPool
=============================================================================
