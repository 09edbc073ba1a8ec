---------------------------- MODULE RoutingProofs ---------------------------
(***************************************************************************)
(* Proofs about Connector, for every value of the constants.               *)
(***************************************************************************)
EXTENDS Connector, SequenceTheorems, WellFoundedInduction, TLAPS

(* Every non-empty set of naturals has a least element.                    *)
LEMMA LeastNatural ==
  ASSUME NEW T, T \subseteq Nat, T # {}
  PROVE  \E x \in T : \A y \in T : x <= y
<1> DEFINE Less == {ss \in Nat \X Nat : ss[1] < ss[2]}
<1>1. IsWellFoundedOn(Less, Nat)
  BY NatLessThanWellFounded DEF OpToRel
<1>2. PICK x \in T : \A y \in T : ~ (<<y, x>> \in Less)
  <2> HIDE DEF Less
  <2> QED BY <1>1, WFMin
<1>3. ASSUME NEW y \in T PROVE x <= y
  <2>1. ~ (<<y, x>> \in Less) BY <1>2
  <2> QED BY <2>1
<1> QED BY <1>2, <1>3

(* A point that some node claims has a last claimer: the node whose write  *)
(* the loop of Rebuild leaves in the map.                                  *)
LEMMA LastClaimerIsLast ==
  ASSUME NEW nodes \in Seq(NodeInfo), NEW p,
         \E k \in DOMAIN nodes : Claims(nodes[k], p)
  PROVE  /\ LastClaimer(nodes, p) \in DOMAIN nodes
         /\ Claims(nodes[LastClaimer(nodes, p)], p)
         /\ \A j \in DOMAIN nodes : Claims(nodes[j], p) => j <= LastClaimer(nodes, p)
<1> DEFINE Claimers == {i \in DOMAIN nodes : Claims(nodes[i], p)}
<1> DEFINE Gaps == {Len(nodes) - i : i \in Claimers}
<1>1. Len(nodes) \in Nat /\ DOMAIN nodes = 1 .. Len(nodes)
  OBVIOUS
<1>2. Gaps \subseteq Nat /\ Gaps # {}
  BY <1>1
<1>3. PICK g \in Gaps : \A y \in Gaps : g <= y
  <2> HIDE DEF Gaps
  <2> QED BY <1>2, LeastNatural
<1>4. PICK i \in Claimers : g = Len(nodes) - i
  OBVIOUS
<1>5. ASSUME NEW j \in Claimers PROVE j <= i
  <2>1. g <= Len(nodes) - j BY <1>3
  <2> QED BY <1>1, <1>4, <2>1
<1> QED BY <1>4, <1>5 DEF LastClaimer

(* The ring has a point for every live node, and its values are node ids.  *)
LEMMA RingTyped ==
  ASSUME NEW nodes \in Seq(NodeInfo)
  PROVE  /\ DOMAIN Ring(nodes) \subseteq Nat
         /\ \A p \in DOMAIN Ring(nodes) : Ring(nodes)[p] \in NodeId
         /\ HasLiveNode(nodes) => DOMAIN Ring(nodes) # {}
<1>1. DOMAIN Ring(nodes) = Points(nodes)
  BY DEF Ring
<1>2. Points(nodes) \subseteq Nat
  BY RingAssumption DEF Points
<1>3. ASSUME NEW p \in Points(nodes) PROVE Ring(nodes)[p] \in NodeId
  <2>1. LastClaimer(nodes, p) \in DOMAIN nodes
    BY LastClaimerIsLast DEF Points
  <2>2. nodes[LastClaimer(nodes, p)] \in NodeInfo
    BY <2>1
  <2> QED BY <2>2 DEF Ring, NodeInfo
<1>4. ASSUME HasLiveNode(nodes) PROVE Points(nodes) # {}
  <2>1. PICK i \in DOMAIN nodes : nodes[i].alive
    BY <1>4 DEF HasLiveNode
  <2>2. nodes[i] \in NodeInfo
    OBVIOUS
  <2>3. nodes[i].id \in NodeId /\ nodes[i].vnode_count \in Nat
    BY <2>2, RingAssumption DEF NodeInfo
  <2>4. 0 \in 0 .. (Vnodes(nodes[i]) - 1)
    BY <2>3 DEF Vnodes
  <2>5. PointHash[nodes[i].id][0] \in Hash
    BY <2>3, RingAssumption
  <2>6. Claims(nodes[i], PointHash[nodes[i].id][0])
    BY <2>1, <2>4 DEF Claims
  <2> QED BY <2>5, <2>6 DEF Points
<1> QED BY <1>1, <1>2, <1>3, <1>4

-----------------------------------------------------------------------------
(* Walking clockwise from any hash meets a point of a non-empty ring.      *)
LEMMA SuccessorExists ==
  ASSUME NEW T, T \subseteq Nat, T # {}, NEW h \in Nat
  PROVE  \E p \in T : IsSuccessor(T, p, h)
<1> DEFINE Ahead == {q \in T : q >= h}
<1>1. CASE Ahead # {}
  <2>1. PICK p \in Ahead : \A q \in Ahead : p <= q
    BY <1>1, LeastNatural
  <2> QED BY <2>1 DEF IsSuccessor
<1>2. CASE Ahead = {}
  <2>1. PICK p \in T : \A q \in T : p <= q
    BY LeastNatural
  <2>2. \A q \in T : q < h
    BY <1>2
  <2> QED BY <2>1, <2>2 DEF IsSuccessor
<1> QED BY <1>1, <1>2

(* The owner is the node at such a point.                                  *)
LEMMA OwnerAtSuccessor ==
  ASSUME NEW ring, DOMAIN ring \subseteq Nat, DOMAIN ring # {}, NEW h \in Nat
  PROVE  \E p \in DOMAIN ring : /\ IsSuccessor(DOMAIN ring, p, h)
                                /\ Owner(ring, h) = ring[p]
<1>1. \E p \in DOMAIN ring : IsSuccessor(DOMAIN ring, p, h)
  BY SuccessorExists
<1> QED BY <1>1 DEF Owner

(* A step between two rings that disturbs only points of node n.           *)
Keeps(r, s, n) ==
  \A p \in DOMAIN r : r[p] # n => p \in DOMAIN s /\ s[p] \in {r[p], n}

(* Consistent hashing: two rings that differ in points of one node only    *)
(* give every hash the same owner, or that node owns it in one of them.    *)
LEMMA OwnerMovesWithNode ==
  ASSUME NEW r, NEW s, NEW n, NEW h \in Nat,
         DOMAIN r \subseteq Nat, DOMAIN s \subseteq Nat,
         Keeps(r, s, n), Keeps(s, r, n)
  PROVE  Owner(r, h) = Owner(s, h) \/ n \in {Owner(r, h), Owner(s, h)}
<1>1. CASE DOMAIN r = {} /\ DOMAIN s = {}
  BY <1>1 DEF Owner
<1>2. CASE DOMAIN r = {} /\ DOMAIN s # {}
  <2>1. PICK q \in DOMAIN s : Owner(s, h) = s[q]
    BY <1>2, OwnerAtSuccessor
  <2> QED BY <1>2, <2>1 DEF Keeps
<1>3. CASE DOMAIN r # {} /\ DOMAIN s = {}
  <2>1. PICK p \in DOMAIN r : Owner(r, h) = r[p]
    BY <1>3, OwnerAtSuccessor
  <2> QED BY <1>3, <2>1 DEF Keeps
<1>4. CASE DOMAIN r # {} /\ DOMAIN s # {}
  <2>1. PICK p \in DOMAIN r : IsSuccessor(DOMAIN r, p, h) /\ Owner(r, h) = r[p]
    BY <1>4, OwnerAtSuccessor
  <2>2. PICK q \in DOMAIN s : IsSuccessor(DOMAIN s, q, h) /\ Owner(s, h) = s[q]
    BY <1>4, OwnerAtSuccessor
  <2>3. SUFFICES ASSUME r[p] # n, s[q] # n PROVE r[p] = s[q]
    BY <2>1, <2>2
  <2>4. p \in DOMAIN s /\ s[p] \in {r[p], n} /\ q \in DOMAIN r
    BY <2>3 DEF Keeps
  <2>5. p \in Nat /\ q \in Nat
    OBVIOUS
  <2>6. p = q
    BY <2>1, <2>2, <2>4, <2>5 DEF IsSuccessor
  <2> QED BY <2>3, <2>4, <2>6
<1> QED BY <1>1, <1>2, <1>3, <1>4

-----------------------------------------------------------------------------
(* Every entry of a for another node than n is also in b, in its place.    *)
SameOthers(a, b, n) ==
  \A j \in DOMAIN a : a[j].id # n => j \in DOMAIN b /\ b[j] = a[j]

(* Lists of nodes that differ in entries of n give rings that differ in    *)
(* points of n, although nodes overwrite each other's points.              *)
LEMMA RingKeeps ==
  ASSUME NEW a \in Seq(NodeInfo), NEW b \in Seq(NodeInfo), NEW n,
         SameOthers(a, b, n), SameOthers(b, a, n)
  PROVE  Keeps(Ring(a), Ring(b), n)
<1> SUFFICES ASSUME NEW p \in Points(a), Ring(a)[p] # n
             PROVE  p \in Points(b) /\ Ring(b)[p] \in {Ring(a)[p], n}
  BY DEF Keeps, Ring
<1> DEFINE i == LastClaimer(a, p)
           k == LastClaimer(b, p)
<1>1. /\ i \in DOMAIN a /\ Claims(a[i], p)
      /\ \A j \in DOMAIN a : Claims(a[j], p) => j <= i
  BY LastClaimerIsLast DEF Points
<1>2. Ring(a)[p] = a[i].id
  BY DEF Ring
<1>3. i \in DOMAIN b /\ b[i] = a[i]
  BY <1>1, <1>2 DEF SameOthers
<1>4. p \in Points(b)
  BY <1>1, <1>3 DEF Points
<1>5. /\ k \in DOMAIN b /\ Claims(b[k], p)
      /\ \A j \in DOMAIN b : Claims(b[j], p) => j <= k
  BY <1>4, LastClaimerIsLast DEF Points
<1>6. Ring(b)[p] = b[k].id
  BY <1>4 DEF Ring
<1>7. CASE b[k].id # n
  <2>1. k \in DOMAIN a /\ a[k] = b[k]
    BY <1>5, <1>7 DEF SameOthers
  <2>2. k <= i /\ i <= k
    BY <1>1, <1>3, <1>5, <2>1
  <2>3. k = i
    <3> HIDE DEF i, k
    <3> QED BY <1>1, <1>5, <2>2
  <2> QED BY <1>2, <1>4, <1>6, <2>1, <2>3
<1> QED BY <1>4, <1>6, <1>7

(* RegisterNode changes the version by one and only the node's own entry.  *)
LEMMA RegisterChangesOne ==
  ASSUME NEW node \in NodeInfo, RegisterNode(node),
         shardMap \in [version : Nat, nodes : Seq(NodeInfo)]
  PROVE  /\ shardMap' \in [version : Nat, nodes : Seq(NodeInfo)]
         /\ shardMap'.version = shardMap.version + 1
         /\ SameOthers(shardMap.nodes, shardMap'.nodes, node.id)
         /\ SameOthers(shardMap'.nodes, shardMap.nodes, node.id)
<1> DEFINE a == shardMap.nodes
           b == shardMap'.nodes
<1>1. a \in Seq(NodeInfo) /\ shardMap.version \in Nat
  OBVIOUS
<1>2. shardMap' = [version |-> shardMap.version + 1, nodes |-> b]
  BY DEF RegisterNode
<1>3. CASE Entries(a, node.id) = {}
  <2>1. b = Append(a, node)
    BY <1>3 DEF RegisterNode
  <2> HIDE DEF a, b
  <2>2. b \in Seq(NodeInfo) /\ SameOthers(a, b, node.id) /\ SameOthers(b, a, node.id)
    BY <1>1, <2>1 DEF SameOthers
  <2> QED BY <1>1, <1>2, <2>2 DEF a, b
<1>4. CASE Entries(a, node.id) # {}
  <2>1. b = [i \in DOMAIN a |-> IF IsFirst(a, node.id, i) THEN node ELSE a[i]]
    BY <1>4 DEF RegisterNode
  <2> HIDE DEF a, b
  <2>2. b \in Seq(NodeInfo)
    <3>1. Len(a) \in Nat /\ DOMAIN a = 1 .. Len(a)
      BY <1>1
    <3>2. b \in [1 .. Len(a) -> NodeInfo]
      BY <1>1, <2>1, <3>1
    <3> QED BY <3>1, <3>2, SeqDef
  <2>3. SameOthers(a, b, node.id) /\ SameOthers(b, a, node.id)
    BY <1>1, <2>1 DEF SameOthers, IsFirst, Entries
  <2> QED BY <1>1, <1>2, <2>2, <2>3 DEF a, b
<1> QED BY <1>3, <1>4

-----------------------------------------------------------------------------
(* The map is typed; no cache is ahead of it; caches of one version agree; *)
(* a cache is a ring of node ids; and a request of a cluster with a live   *)
(* node throughout has a non-empty ring when it computes the owner.        *)
RoutingInv ==
  /\ shardMap \in [version : Nat, nodes : Seq(NodeInfo)]
  /\ DOMAIN cache = Client /\ DOMAIN call = Client
  /\ \A c \in Client :
       /\ cache[c].version \in Nat /\ cache[c].version <= shardMap.version
       /\ DOMAIN cache[c].ring \subseteq Nat
       /\ \A p \in DOMAIN cache[c].ring : cache[c].ring[p] \in NodeId
       /\ call[c].hash \in Nat
       /\ c \in steady => HasLiveNode(shardMap.nodes)
       /\ call[c].pc = "owner" /\ c \in steady => DOMAIN cache[c].ring # {}
  /\ RoutersAgree

(* The connectors start with empty rings and no call.                      *)
LEMMA RoutingInvInit == ConnectorInit => RoutingInv
<1> SUFFICES ASSUME ConnectorInit PROVE RoutingInv
  OBVIOUS
<1>1. <<>> \in Seq(NodeInfo)
  OBVIOUS
<1>2. shardMap \in [version : Nat, nodes : Seq(NodeInfo)]
  BY <1>1 DEF ConnectorInit, CoordinatorInit
<1>3. EmptyRing = Rebuild(shardMap)
  BY DEF ConnectorInit, CoordinatorInit, EmptyRing, Rebuild
<1>4. /\ DOMAIN EmptyRing.ring \subseteq Nat
      /\ \A p \in DOMAIN EmptyRing.ring : EmptyRing.ring[p] \in NodeId
  BY <1>1, RingTyped DEF EmptyRing
<1>5. EmptyRing.version = 0 /\ shardMap.version = 0
  BY DEF EmptyRing, ConnectorInit, CoordinatorInit
<1> QED BY <1>2, <1>3, <1>4, <1>5 DEF RoutingInv, RoutersAgree, ConnectorInit, NoCall

(* RefreshShardMap installs a ring of the current version.                 *)
LEMMA RefreshKeepsInv ==
  ASSUME RoutingInv, NEW c \in Client, RefreshShardMap(c)
  PROVE  RoutingInv'
<1>1. /\ cache' = [cache EXCEPT ![c] = Rebuild(shardMap)]
      /\ call' = [call EXCEPT ![c].pc = "owner"]
      /\ UNCHANGED <<shardMap, steady>>
  BY DEF RefreshShardMap, GetShardMap
<1>2. /\ Rebuild(shardMap).version = shardMap.version
      /\ Rebuild(shardMap).ring = Ring(shardMap.nodes)
  BY DEF Rebuild
<1>3. /\ DOMAIN Ring(shardMap.nodes) \subseteq Nat
      /\ \A p \in DOMAIN Ring(shardMap.nodes) : Ring(shardMap.nodes)[p] \in NodeId
      /\ HasLiveNode(shardMap.nodes) => DOMAIN Ring(shardMap.nodes) # {}
  BY RingTyped DEF RoutingInv
<1>4. /\ cache'[c] = Rebuild(shardMap)
      /\ \A d \in Client : d # c => cache'[d] = cache[d]
  BY <1>1 DEF RoutingInv
<1>5. Rebuild(shardMap)' = Rebuild(shardMap)
  BY <1>1 DEF Rebuild
<1>6. RoutersAgree'
  <2> SUFFICES ASSUME NEW d \in Client
               PROVE  /\ cache'[d].version = shardMap.version =>
                           cache'[d] = Rebuild(shardMap)
                      /\ \A e \in Client : cache'[d].version = cache'[e].version =>
                                             cache'[d] = cache'[e]
    BY <1>1, <1>5 DEF RoutersAgree
  <2> QED BY <1>2, <1>4 DEF RoutingInv, RoutersAgree
<1>7. ASSUME NEW d \in Client
      PROVE  /\ cache'[d].version \in Nat /\ cache'[d].version <= shardMap.version
             /\ DOMAIN cache'[d].ring \subseteq Nat
             /\ \A p \in DOMAIN cache'[d].ring : cache'[d].ring[p] \in NodeId
             /\ call'[d].hash \in Nat
             /\ call'[d].pc = "owner" /\ d \in steady => DOMAIN cache'[d].ring # {}
  <2>1. CASE d = c
    BY <1>1, <1>2, <1>3, <1>4, <2>1 DEF RoutingInv
  <2>2. CASE d # c
    BY <1>1, <1>4, <2>2 DEF RoutingInv
  <2> QED BY <2>1, <2>2
<1> QED BY <1>1, <1>6, <1>7 DEF RoutingInv

(* Register moves the version past every cache.                            *)
LEMMA RegisterKeepsInv ==
  ASSUME RoutingInv, NEW node \in NodeInfo, Register(node)
  PROVE  RoutingInv'
<1>1. /\ shardMap' \in [version : Nat, nodes : Seq(NodeInfo)]
      /\ shardMap'.version = shardMap.version + 1
  BY RegisterChangesOne DEF Register, RoutingInv
<1>2. /\ UNCHANGED <<cache, call>>
      /\ steady' = IF HasLiveNode(shardMap'.nodes) THEN steady ELSE {}
  BY DEF Register
<1>3. \A c \in Client : cache'[c].version # shardMap'.version
  BY <1>1, <1>2 DEF RoutingInv
<1>4. RoutersAgree'
  BY <1>2, <1>3 DEF RoutersAgree, RoutingInv
<1>5. \A c \in Client : c \in steady' => HasLiveNode(shardMap'.nodes)
  BY <1>2
<1>6. HasLiveNode(shardMap.nodes)' = HasLiveNode(shardMap'.nodes)
  BY DEF HasLiveNode
<1>7. \A c \in Client : cache[c].version <= shardMap'.version
  BY <1>1 DEF RoutingInv
<1> QED BY <1>1, <1>2, <1>4, <1>5, <1>6, <1>7 DEF RoutingInv

(* The steps of a request that touch neither the map nor a cache.          *)
LEMMA CallKeepsInv ==
  ASSUME RoutingInv, NEW c \in Client, UNCHANGED <<shardMap, cache>>,
         \/ \E h \in KeyHash : Begin(c, h)
         \/ Retry(c) \/ GivesUp(c) \/ ServeRemote(c)
         \/ \E s \in Answer : ServeLocal(c, s)
  PROVE  RoutingInv'
<1>1. RoutersAgree'
  BY DEF RoutersAgree, RoutingInv, Rebuild
<1>2. KeyHash \subseteq Nat
  BY RingAssumption, ConnectorAssumption
<1>3. CASE \E h \in KeyHash : Begin(c, h)
  <2>1. PICK h \in KeyHash : Begin(c, h)
    BY <1>3
  <2>2. /\ DOMAIN call' = Client /\ \A d \in Client : d # c => call'[d] = call[d]
        /\ call'[c].hash = h
        /\ call'[c].pc = "owner" => DOMAIN cache[c].ring # {}
    BY <2>1 DEF Begin, RoutingInv, NoCall, IsEmpty
  <2>3. steady' = IF HasLiveNode(shardMap.nodes) THEN steady \cup {c} ELSE steady \ {c}
    BY <2>1 DEF Begin
  <2> QED BY <1>1, <1>2, <2>2, <2>3 DEF RoutingInv, HasLiveNode
<1>4. CASE Retry(c)
  <2>1. /\ DOMAIN call' = Client /\ \A d \in Client : d # c => call'[d] = call[d]
        /\ call'[c].hash = call[c].hash /\ call'[c].pc = "refresh"
        /\ UNCHANGED steady
    BY <1>4 DEF Retry, RoutingInv
  <2> QED BY <1>1, <2>1 DEF RoutingInv, HasLiveNode
<1>5. CASE GivesUp(c) \/ ServeRemote(c) \/ \E s \in Answer : ServeLocal(c, s)
  <2>1. call' = [call EXCEPT ![c] = NoCall] /\ UNCHANGED steady
    BY <1>5 DEF GivesUp, ServeRemote, ServeLocal, Return
  <2> QED BY <1>1, <2>1 DEF RoutingInv, NoCall, HasLiveNode
<1> QED BY <1>3, <1>4, <1>5

(* Every action keeps the invariant.                                       *)
LEMMA RoutingInvStep == RoutingInv /\ [Next]_vars => RoutingInv'
<1> SUFFICES ASSUME RoutingInv, [Next]_vars PROVE RoutingInv'
  OBVIOUS
<1>1. CASE UNCHANGED vars
  BY <1>1 DEF vars, RoutingInv, RoutersAgree, Rebuild
<1>2. ASSUME NEW c \in Client, NEW h \in KeyHash, Begin(c, h) PROVE RoutingInv'
  BY <1>2, CallKeepsInv DEF Begin
<1>3. ASSUME NEW c \in Client, Progress(c) PROVE RoutingInv'
  <2>1. CASE RefreshShardMap(c)
    BY <2>1, RefreshKeepsInv
  <2>2. CASE Retry(c)
    BY <2>2, CallKeepsInv DEF Retry
  <2>3. CASE GivesUp(c)
    BY <2>3, CallKeepsInv DEF GivesUp
  <2>4. CASE ServeRemote(c)
    BY <2>4, CallKeepsInv DEF ServeRemote
  <2>5. CASE \E s \in Answer : ServeLocal(c, s)
    BY <2>5, CallKeepsInv DEF ServeLocal
  <2> QED BY <1>3, <2>1, <2>2, <2>3, <2>4, <2>5 DEF Progress
<1>4. ASSUME NEW node \in NodeInfo, Register(node) PROVE RoutingInv'
  BY <1>4, RegisterKeepsInv
<1> QED BY <1>1, <1>2, <1>3, <1>4 DEF Next

(* RoutingInv holds of every cluster: any number of connectors, nodes and  *)
(* points, whatever the hash functions.                                    *)
THEOREM RoutingInvariant == RoutingSpec => []RoutingInv
BY RoutingInvInit, RoutingInvStep, PTL DEF RoutingSpec

(* Equal versions of the shard map mean equal routing, for any number of   *)
(* connectors, nodes and vnodes and any point hash.                        *)
THEOREM RoutersAgreeAlways == RoutingSpec => []RoutersAgree
<1>1. RoutingInv => RoutersAgree
  BY DEF RoutingInv
<1> QED BY <1>1, RoutingInvariant, PTL

(* Consistent hashing: RegisterNode moves keys only to or from the node it *)
(* registers, whatever the hash function and however points collide.       *)
THEOREM RegistrationRemapsMinimally == RoutingSpec => MinimalRemap
<1> DEFINE Moves(node) ==
      \A before \in {Ring(shardMap.nodes)}, after \in {Ring(shardMap'.nodes)}, h \in Hash :
        \/ Owner(before, h) = Owner(after, h)
        \/ node.id \in {Owner(before, h), Owner(after, h)}
<1>1. ASSUME RoutingInv, NEW node \in NodeInfo, Register(node) PROVE Moves(node)
  <2> DEFINE a == shardMap.nodes
             b == shardMap'.nodes
  <2>1. a \in Seq(NodeInfo)
    BY <1>1 DEF RoutingInv
  <2>2. /\ b \in Seq(NodeInfo)
        /\ SameOthers(a, b, node.id) /\ SameOthers(b, a, node.id)
    BY <1>1, RegisterChangesOne DEF Register, RoutingInv
  <2> HIDE DEF a, b
  <2>3. Keeps(Ring(a), Ring(b), node.id) /\ Keeps(Ring(b), Ring(a), node.id)
    BY <2>1, <2>2, RingKeeps
  <2>4. DOMAIN Ring(a) \subseteq Nat /\ DOMAIN Ring(b) \subseteq Nat
    BY <2>1, <2>2, RingTyped
  <2>5. Hash \subseteq Nat
    BY RingAssumption
  <2>6. ASSUME NEW h \in Hash
        PROVE  \/ Owner(Ring(a), h) = Owner(Ring(b), h)
               \/ node.id \in {Owner(Ring(a), h), Owner(Ring(b), h)}
    BY <2>3, <2>4, <2>5, OwnerMovesWithNode
  <2> QED BY <2>6 DEF a, b
<1>2. RoutingInv => [\A node \in NodeInfo : Register(node) => Moves(node)]_vars
  <2> HIDE DEF Moves
  <2> QED BY <1>1
<1> QED BY <1>2, RoutingInvariant, PTL DEF RoutingSpec, MinimalRemap

(* A request of a cluster that keeps a live node is always routed.         *)
THEOREM LiveClusterRoutes == RoutingSpec => NoFalseUnavailable
<1>1. ASSUME RoutingInv, NEW c \in Client, GivesUp(c) PROVE c \notin steady
  <2> SUFFICES ASSUME c \in steady PROVE FALSE
    OBVIOUS
  <2> DEFINE r == cache[c].ring
  <2>1. DOMAIN r # {} /\ DOMAIN r \subseteq Nat /\ call[c].hash \in Nat
    BY <1>1 DEF GivesUp, RoutingInv
  <2>2. \A p \in DOMAIN r : r[p] \in NodeId
    BY <1>1 DEF RoutingInv
  <2>3. Owner(r, call[c].hash) = NoNode
    BY <1>1 DEF GivesUp
  <2> HIDE DEF r
  <2>4. PICK p \in DOMAIN r : Owner(r, call[c].hash) = r[p]
    BY <2>1, OwnerAtSuccessor
  <2> QED BY <2>2, <2>3, <2>4, RingAssumption
<1>2. RoutingInv => [\A c \in Client : GivesUp(c) => c \notin steady]_vars
  BY <1>1
<1> QED BY <1>2, RoutingInvariant, PTL DEF RoutingSpec, NoFalseUnavailable
=============================================================================
