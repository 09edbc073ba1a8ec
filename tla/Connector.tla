------------------------------ MODULE Connector -----------------------------
(***************************************************************************)
(* Connectors that route requests by their cached ring, interleaved with   *)
(* membership changes at the coordinator.  A connector serves one request  *)
(* at a time.                                                              *)
(***************************************************************************)
EXTENDS Coordinator

CONSTANTS
  Client,       \* connectors
  KeyHash,      \* prefix_hash of the requested keys
  SelfNode,     \* self_node_ of a connector with a local node, or NoNode
  MaxRefreshes  \* options_.max_shardmap_refreshes

ASSUME ConnectorAssumption ==
  /\ KeyHash \subseteq Hash
  /\ SelfNode \in [Client -> NodeId \cup {NoNode}]
  /\ MaxRefreshes \in Nat

VARIABLES
  cache,   \* ring_ of each connector
  call,    \* the request of each connector
  steady   \* history: the map had a live node since the request began

vars == <<shardMap, cache, call, steady>>

NoCall == [pc |-> "idle", hash |-> 0, i |-> 0]

HasLiveNode(nodes) == \E i \in DOMAIN nodes : nodes[i].alive

ConnectorInit ==
  /\ CoordinatorInit
  /\ cache = [c \in Client |-> EmptyRing]
  /\ call = [c \in Client |-> NoCall]
  /\ steady = {}

IsEmpty(c) == DOMAIN cache[c].ring = {}

(* Get and Put start with ResolveOwner.                                    *)
Begin(c, h) ==
  /\ call[c].pc = "idle"
  /\ call' = [call EXCEPT ![c] = [NoCall EXCEPT
                !.pc = IF IsEmpty(c) THEN "refresh" ELSE "owner", !.hash = h]]
  /\ steady' = IF HasLiveNode(shardMap.nodes) THEN steady \cup {c} ELSE steady \ {c}
  /\ UNCHANGED <<shardMap, cache>>

RefreshShardMap(c) ==
  /\ call[c].pc = "refresh"
  /\ cache' = [cache EXCEPT ![c] = Rebuild(GetShardMap)]
  /\ call' = [call EXCEPT ![c].pc = "owner"]
  /\ UNCHANGED <<shardMap, steady>>

(* Mutant: a retry does not use up the budget.                             *)
RetryForever(c) ==
  /\ call[c].pc = "owner"
  /\ Owner(cache[c].ring, call[c].hash) = NoNode
  /\ call[c].i < MaxRefreshes
  /\ call' = [call EXCEPT ![c].pc = "refresh"]
  /\ UNCHANGED <<shardMap, cache, steady>>

Retry(c) ==
  /\ call[c].pc = "owner"
  /\ Owner(cache[c].ring, call[c].hash) = NoNode
  /\ call[c].i < MaxRefreshes
  /\ call' = [call EXCEPT ![c].pc = "refresh", ![c].i = @ + 1]
  /\ UNCHANGED <<shardMap, cache, steady>>

Return(c) == call' = [call EXCEPT ![c] = NoCall]

GivesUp(c) ==
  /\ call[c].pc = "owner"
  /\ Owner(cache[c].ring, call[c].hash) = NoNode
  /\ call[c].i >= MaxRefreshes
  /\ Return(c)
  /\ UNCHANGED <<shardMap, cache, steady>>

-----------------------------------------------------------------------------
(* What the local StorageNode's Get and Put answer.                        *)
Answer == {"Ok", "NotFound", "Unavailable"}

(* The owner is the local node, which answers with `status`: Unavailable   *)
(* while it is not open.                                                   *)
ServeLocal(c, status) ==
  /\ status \in Answer
  /\ call[c].pc = "owner"
  /\ Owner(cache[c].ring, call[c].hash) = SelfNode[c] /\ SelfNode[c] # NoNode
  /\ Return(c)
  /\ UNCHANGED <<shardMap, cache, steady>>

(* Otherwise the request goes to the transport, whose ReadRemote and       *)
(* WriteRemote are not implemented.                                        *)
ServeRemote(c) ==
  /\ call[c].pc = "owner"
  /\ Owner(cache[c].ring, call[c].hash) \notin {NoNode, SelfNode[c]}
  /\ Return(c)
  /\ UNCHANGED <<shardMap, cache, steady>>

(* A storage node registers or re-registers.                               *)
Register(node) ==
  /\ RegisterNode(node)
  /\ steady' = IF HasLiveNode(shardMap'.nodes) THEN steady ELSE {}
  /\ UNCHANGED <<cache, call>>

Progress(c) ==
  \/ RefreshShardMap(c) \/ Retry(c) \/ GivesUp(c)
  \/ ServeRemote(c) \/ \E s \in Answer : ServeLocal(c, s)

Next ==
  \/ \E c \in Client : Progress(c) \/ \E h \in KeyHash : Begin(c, h)
  \/ \E node \in NodeInfo : Register(node)

RoutingSpec == ConnectorInit /\ [][Next]_vars

(* A thread inside Get or Put keeps running.                               *)
RoutingFairSpec == RoutingSpec /\ \A c \in Client : WF_vars(Progress(c))

-----------------------------------------------------------------------------
(* Views of the cluster with the same version route every key alike: two   *)
(* connectors, or a connector and the coordinator ("equal version means    *)
(* your routing is current"), however their refreshes interleaved with     *)
(* registrations.                                                          *)
RoutersAgree ==
  \A c \in Client :
    /\ cache[c].version = shardMap.version => cache[c] = Rebuild(shardMap)
    /\ \A d \in Client : cache[c].version = cache[d].version => cache[c] = cache[d]

(* A registration moves keys only to or from the node that registers, with *)
(* colliding points, changed vnode counts and dead nodes included: the     *)
(* keys of the other nodes stay where they are.                            *)
MinimalRemap ==
  [][\A node \in NodeInfo : Register(node) =>
       \A before \in {Ring(shardMap.nodes)}, after \in {Ring(shardMap'.nodes)}, h \in Hash :
         \/ Owner(before, h) = Owner(after, h)
         \/ node.id \in {Owner(before, h), Owner(after, h)}]_vars

(* ResolveOwner gives up only if the map was without a live node at some   *)
(* moment of the request: an empty ring of a cluster that has a live node  *)
(* throughout is always filled by the refreshes of the request.            *)
NoFalseUnavailable == [][\A c \in Client : GivesUp(c) => c \notin steady]_vars

(* Every request returns, also while nodes register for ever: the refresh  *)
(* budget bounds the retries of ResolveOwner.                              *)
EveryRequestReturns == \A c \in Client : []<>(call[c].pc = "idle")

(* "How many times to refresh the ShardMap + retry on kUnavailable before  *)
(* giving up on a request" (connector.h:26-28): a request that ends with   *)
(* Unavailable has used its refreshes, or its ring is current anyway.      *)
GivesUpAfterRefreshing ==
  [][\A c \in Client :
       GivesUp(c) \/ ServeLocal(c, "Unavailable") =>
         call[c].i = MaxRefreshes \/ cache[c].version = shardMap.version]_vars
=============================================================================
