---------------------------- MODULE MCTcpServer ----------------------------
(* Model values for TcpServer.  The loops are not interchangeable (next_   *)
(* starts at 0); connections and fds are.                                  *)
EXTENDS TcpServer, TLC

ConnFdSymmetry == Permutations(Conns) \cup Permutations(Fds)

=============================================================================
