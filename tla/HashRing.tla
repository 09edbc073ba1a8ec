------------------------------ MODULE HashRing ------------------------------
(***************************************************************************)
(* The consistent-hash ring: a pure function of a shard map.  The hash of  *)
(* a vnode label "node#v" is any function into the hash values; labels may *)
(* collide.                                                                *)
(***************************************************************************)
EXTENDS Naturals, Sequences, FiniteSets

CONSTANTS
  NodeId,      \* non-empty node ids
  NoNode,      \* no owner: the ring is empty
  MaxVnodes,   \* bound: vnodes of a node
  VnodeCount,  \* vnode_count of a registering node
  PointHash,   \* PointHash[n][v]: the hash of the label n#v
  Hash         \* the hash values

ASSUME RingAssumption ==
  /\ NoNode \notin NodeId
  /\ MaxVnodes \in Nat /\ VnodeCount \subseteq 0 .. MaxVnodes
  /\ Hash \subseteq Nat
  /\ PointHash \in [NodeId -> [0 .. MaxVnodes -> Hash]]

NodeInfo == [id : NodeId, vnode_count : VnodeCount, alive : BOOLEAN]

Vnodes(node) == IF node.vnode_count > 0 THEN node.vnode_count ELSE 1

(* Mutant: a node with the default vnode_count of 0 gets no point.         *)
ClaimsNoDefault(node, p) ==
  /\ node.alive
  /\ \E v \in 0 .. (node.vnode_count - 1) : PointHash[node.id][v] = p

(* The point is written by this node.                                      *)
Claims(node, p) ==
  node.alive /\ \E v \in 0 .. (Vnodes(node) - 1) : PointHash[node.id][v] = p

-----------------------------------------------------------------------------
(* A later node overwrites a point it shares with an earlier one.          *)
LastClaimer(nodes, p) ==
  CHOOSE i \in DOMAIN nodes :
    /\ Claims(nodes[i], p)
    /\ \A j \in DOMAIN nodes : Claims(nodes[j], p) => j <= i

Points(nodes) == {p \in Hash : \E i \in DOMAIN nodes : Claims(nodes[i], p)}

Ring(nodes) == [p \in Points(nodes) |-> nodes[LastClaimer(nodes, p)].id]

Rebuild(map) == [version |-> map.version, ring |-> Ring(map.nodes)]

EmptyRing == [version |-> 0, ring |-> Ring(<<>>)]

(* The first point at or clockwise after h.                                *)
IsSuccessor(points, p, h) ==
  /\ p \in points
  /\ \/ p >= h /\ \A q \in points : q >= h => p <= q
     \/ \A q \in points : q < h /\ p <= q

(* Mutant: the hash is reduced modulo the number of points.                *)
OwnerModulo(ring, h) ==
  LET Below(p) == {q \in DOMAIN ring : q < p}
  IN  IF DOMAIN ring = {} THEN NoNode
      ELSE ring[CHOOSE p \in DOMAIN ring :
                  Cardinality(Below(p)) = h % Cardinality(DOMAIN ring)]

Owner(ring, h) ==
  IF DOMAIN ring = {} THEN NoNode
  ELSE ring[CHOOSE p \in DOMAIN ring : IsSuccessor(DOMAIN ring, p, h)]
=============================================================================
