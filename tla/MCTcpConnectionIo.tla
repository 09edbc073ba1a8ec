-------------------------- MODULE MCTcpConnectionIo -------------------------
(* Small instance of TcpConnectionIo.                                      *)
EXTENDS TcpConnectionIo, TLC

ObjectSymmetry == Permutations(Object)
=============================================================================
