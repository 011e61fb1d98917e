---------------------------- MODULE MCTcpServer ----------------------------
(***************************************************************************)
(* Instances of TcpServer for TLC; the connections are interchangeable.    *)
(***************************************************************************)
EXTENDS TcpServer, TLC

Symmetry == Permutations(Conns)
=============================================================================
