----------------------------- MODULE Coordinator ----------------------------
(***************************************************************************)
(* SingleNodeCoordinator: the versioned shard map.  Each operation holds   *)
(* the mutex throughout, so it is one step.                                *)
(***************************************************************************)
EXTENDS HashRing

CONSTANT MaxVersion   \* bound: membership changes

VARIABLE shardMap     \* map_

CoordinatorInit == shardMap = [version |-> 0, nodes |-> <<>>]

(* FindNode: the first entry of the node, if it has one.                   *)
Entries(nodes, id) == {i \in DOMAIN nodes : nodes[i].id = id}
IsFirst(nodes, id, i) ==
  i \in Entries(nodes, id) /\ \A j \in Entries(nodes, id) : i <= j

(* Mutant: the version moves only when a node joins.                       *)
RegisterNodeQuietly(node) ==
  /\ shardMap.version < MaxVersion
  /\ shardMap' =
       IF Entries(shardMap.nodes, node.id) = {}
       THEN [version |-> shardMap.version + 1, nodes |-> Append(shardMap.nodes, node)]
       ELSE [shardMap EXCEPT !.nodes =
               [i \in DOMAIN @ |-> IF IsFirst(@, node.id, i) THEN node ELSE @[i]]]

RegisterNode(node) ==
  /\ shardMap.version < MaxVersion
  /\ shardMap' =
       [version |-> shardMap.version + 1,
        nodes   |-> IF Entries(shardMap.nodes, node.id) = {}
                    THEN Append(shardMap.nodes, node)
                    ELSE [i \in DOMAIN shardMap.nodes |->
                            IF IsFirst(shardMap.nodes, node.id, i)
                            THEN node ELSE shardMap.nodes[i]]]

(* GetShardMap returns a copy.  Heartbeat returns the version, or NotFound *)
(* for a node that has no entry; neither changes the map.                  *)
GetShardMap == shardMap
=============================================================================
