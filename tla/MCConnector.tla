---------------------------- MODULE MCConnector -----------------------------
(* Small instance of Connector: three nodes with up to two vnodes, where   *)
(* a point of n1 and a point of n2 collide; one connector beside node n1   *)
(* and one pure client.                                                    *)
EXTENDS Connector, TLC

CONSTANTS n1, n2, n3, c1, c2

MCPointHash ==
  LET Labels(a, b) == [v \in 0 .. MaxVnodes |-> IF v = 0 THEN a ELSE b]
  IN  n1 :> Labels(1, 5) @@ n2 :> Labels(3, 1) @@ n3 :> Labels(4, 0)
MCSelfNode == c1 :> n1 @@ c2 :> NoNode
MCHash == 0 .. 5
=============================================================================
