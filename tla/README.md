# TidePool: a TLA+ verification project

TidePool keeps KV-cache blocks in a pool of storage nodes. A storage node holds
blocks in DRAM over SSD (LevelDB); clients reach nodes over TCP. This directory
holds TLA+ models of that code, the TLC configurations that check them on small
instances, and TLAPS proofs of the properties that matter most. It has three
groups of modules: the storage node with its tiers and policies, the TCP client
with its connection, and the routing of requests to nodes.

Paths below are relative to the repository root. `PROJECT.json` maps every
definition to the lines it models and lists the hazards each property is for.

## Inventory

| Part | Code | Modelled by |
|---|---|---|
| Storage node | `src/store/storage_node.cpp` | `StorageNode`, `BlockPool`, `StorageNodeRefinement` |
| DRAM tier | `src/store/tier/dram/` | `DramTier`, `Blocks` |
| SSD tier | `src/store/tier/ssd/` | `SsdTier` (blocks), `SsdRecords` (bytes) |
| Block and key codecs | `src/api/block_codec.cpp`, `block_key.cpp` | `BlockCodec` (not the hash of `FromTokenPrefix`) |
| Local index | `src/store/index/` | `LocalIndex` |
| Eviction policy interface | `include/tidepool/store/eviction_policy.h` | `EvictionPolicy` |
| LRU, ARC | `src/store/eviction/` | `RecencyList`, `LruEviction`, `ArcEviction`, `ArcNode` |
| TCP connection | `src/transport/tcp/tcp_connection.cpp` | `TcpConnectionIo`; `TcpConnection` is the stream the RPC client sees |
| Wire framing | `src/transport/tcp/wire_framing.cpp` | `TcpConnector` (`WriteSome`, `ReadSome`), `WireFrames` |
| TCP connector (RPC client) | `src/rpc/` | `TcpConnector`, `RemoteCall` |
| Client connector | `src/client/` | `Connector` |
| Hash ring | `src/hashring/` | `HashRing` |
| Coordinator | `src/coordinator/` | `Coordinator` |
| Wire codec | `src/protocol/` | `WireFrames` (validation; not the byte layout) |
| Cost-aware eviction, RDMA, TCP `Transport`, vLLM adapter | | stubs, nothing to model |
| Benchmark | `bench/` | a driver, not modelled |

The server applications that the repository's README and `storage_node.h` name
(`apps/`) are not in the tree.

## How the parts interact

Every call of a storage node runs under one mutex. A Put goes to DRAM if the
block fits; the node first makes room by demoting victims chosen by the policy,
each written to SSD, erased from DRAM, relocated in the index and committed in
the policy, in this order. A Get served by SSD copies the block into DRAM and
leaves the SSD record (an inclusive cache). Oversized blocks go straight to SSD.
Open rebuilds the index from the tiers, hottest first.

A `TcpConnector` makes one call at a time, also under a mutex, over at most one
connection. It writes one request frame and reads one response frame. Whenever
it cannot know that the stream is at the boundary of a frame it drops the
connection, and the next call opens a new one. It never repeats a request.

A `TcpConnection` owns one descriptor. One thread connects, reads, writes, moves
and closes; another may call `Shutdown` at any time. Each call has one deadline
and polls as often as it must. A call that fails marks the connection broken.

A `Connector` sends a request to the node that its cached hash ring names. It
asks the coordinator for the shard map only while that ring is empty. The
coordinator raises the version of the map with every registration.

## Modules

* `Keys`, `Blocks`: keys; a block is its payload, its size and whether its
  metadata passes `ValidateMetadata`. Byte totals are the cardinality of a set
  of cells, which makes the accounting provable without induction.
* `DramTier`, `SsdTier`, `LocalIndex`: the operations of each part as actions on
  its own variables. Counters are 64-bit, with `MaxU64` as a constant.
* `EvictionPolicy`: what the node relies on: a set of residents and at most one
  reserved victim. `LruEviction` and `ArcEviction` implement it, over the lists
  of `RecencyList`. ARC's `p` is kept in units of `1/PUnit`; 12 makes every ratio
  of the instances exact. The proofs hold for every `PUnit`, that is for any
  rounding of the ratios: `p` only decides which list a victim comes from.
* `StorageNode`: a call is cut into the steps between which a crash or an error
  can leave something half done. `op` is the call that holds the mutex, and its
  `phase` says where it stands. An injected failure (I/O error, bad_alloc) is
  possible wherever the code can meet one, and `reply.fault` records it.
* `BlockPool`: the abstract specification: one map of newest blocks in front of
  a durable one, with atomic calls. `StorageNodeRefinement` maps onto it: a Put
  takes effect when the index names it (`Publish`), when the DRAM overwrite
  happens (`PutOverwrite`), or with the SSD write (`DirectStore`).
* `ArcNode`: a storage node joined with ARC step by step.
* `WireFrames`: frames and what `DecodeHeader` refuses. Lengths are counted in
  units: a key is one, a header is `HeaderUnits`.
* `TcpConnection`: sessions, each with a stream of units in each direction. The
  peer and the network are external: the peer may close or die at any moment,
  and what the client sent before it hung up may still arrive.
* `TcpConnector`: a call from `ExecuteLocked` on, unit by unit, with a failure
  possible at each one. `results` and `log` record what callers were told and
  what the peer executed; the `call` field of a frame is such a record too, and
  is not on the wire. One session per call is enough, since a call connects at
  most once.
* `RemoteCall`: the abstract specification of a call: executed at most once,
  perhaps after it was reported as failed, and answered with its own answer.
* `BlockCodec`: the text of a key and the blob of a block, with the code's
  offsets and widths. Only the byte is scaled: a hex digit has `HexBase` values
  and a byte has their square. The run takes 2 for `HexBase`; the proofs hold for
  2 to 16, the code's 16 included.
* `SsdRecords`: the SSD tier over LevelDB's texts and blobs. It may find any
  database: its own, a damaged one, a foreign one. Its steps are steps of
  `SsdTier` on what the records decode to (`StepsOfSsdTier`). `Footprint` counts
  the bytes of all blobs, and `Fits` says that a `uint64_t` holds their number:
  nothing in Put enforces this, and `used_bytes` wraps without it.
* `TcpConnectionIo`: connection objects, the kernel's table of sockets, the
  running call `io` with its clock, and the threads in `Shutdown`. `broken_` and
  the socket are changed in two steps, as in the code. The clock has
  `TicksPerMs` ticks in a millisecond, so that rounding shows. A call that
  returns at once because of its arguments or a closed connection changes
  nothing and has no action. The kernel, the clock and the peer are external;
  the peer acts on the socket of the running call.
* `HashRing`, `Coordinator`, `Connector`: the ring as a function of the shard
  map, registration, and requests. The hash of a vnode label is a constant
  function, so labels may collide. A request refreshes and looks up in separate
  steps, between which nodes register. `Heartbeat` only reads. A connector
  without a coordinator, which always answers Internal, has no action.
* `MC*`: instances. `*Proofs`: theorems.

Left out: statistics, opaque handles, log messages, `BlockView` buffers.
Assumed of LevelDB: a write is atomic, one that returns an error leaves no
record, and what was written survives the death of the process. The code does
not ask for `sync`, so a crash of the machine may undo the last writes. The
database it leaves is one that an earlier death of the process would have left,
and so is one that `records` reopens.

## Runs

| Run | Question |
|---|---|
| `two_tier` | Do index, policy, counters and what clients see agree over all failures, crashes and reopenings? |
| `dram_only` | The same without an SSD, with counters so narrow that projections overflow. |
| `every_call_returns` | Does the room loop end, with empty blocks whose demotion frees no byte? |
| `records` | Does Open accept exactly what Put writes, do the counters match the bytes through Evict and reopening, and is a block read back unchanged? |
| `lru` | Is LRU's list the order of uses, and its victim the least recent? |
| `arc` | Does ARC keep its lists disjoint and a reserved victim committable, and find a victim whenever there is one? |
| `arc_node` | Do ARC's residents match DRAM, also when an oversized Put takes a key out of it, and do its ghost bounds hold? |
| `arc_small_blocks` | Expected violation, see below. |
| `rpc` | Is an idle connection in step after any failure, is nothing sent twice, does an answer belong to its call when the peer answers twice or with the malformed frames of `tcp_connector_test.cpp`, and does every call return? |
| `connection` | Does a descriptor have one owner, does each byte move once, does one deadline cover a call, and does a failed or shut down connection stay dead? |
| `routing` | Do equal versions route alike, does a registration move only its own node's keys, and does every request return, refused only for want of a live node? |
| `stale_routing` | Expected violation, see below. |

Bounds. Three keys: one being written, one victim, one bystander. Blocks of
sizes 1, 2 and 3 over a DRAM capacity of 2: below, at and above it, so that
one Put may need two demotions; one block with metadata the SSD refuses; two
payloads, so that a stale copy differs from a fresh one. ARC runs use one-byte
blocks, `c = 2` and up to five keys, enough for every ghost list to fill.
Unlimited DRAM (`capacity_bytes = 0`), a node without DRAM and one without a
policy are covered by the proofs, not by a run.
Safety runs use key symmetry; the liveness run does not.
The RPC run makes three calls: one that fails or is answered improperly, one that
could meet what it left behind, and one after the request id has wrapped
(`FirstId = 2`, `MaxId = 3`). A header of two units can be cut in the middle. An
id that comes back after 2^64 requests identifies no call, and no property is
claimed for a peer that misbehaves in that case: only the first call has an unruly
peer.
`records` has three keys, two of which differ in the model fingerprint only, and
starts from blobs that are cut, extended or changed in one byte and from texts
that are other spellings of a key. Its numbers reach the largest value of their
width. `connection` has two objects and two descriptors, so that a number is
reused at once; reads and writes of up to two units through a window of one;
timeouts of zero, of one and of more than `IntMax` milliseconds; and a clock
(`MaxNow`) that passes every deadline that matters. One thread calls `Shutdown`;
the proofs allow any number. `routing` has three nodes, a shared point, default
and explicit vnode counts, and three registrations (`MaxVersion`): a join, a
change and a death.

Fairness. `FairSpec` asks only that the thread holding the mutex keeps running
(`WF_vars(Continue)`). Nothing is assumed of clients, of failures or of crashes.
`RpcFairSpec` asks the same of the thread that holds the connector's mutex. Its
waits end because `PollReady` has a deadline for the whole operation, so
`IoFails` is enabled wherever it waits; name resolution is assumed to return.
Nothing is assumed of the peer.
`RoutingFairSpec` asks that a thread inside Get or Put keeps running
(`WF_vars(Progress(c))` for each connector), and nothing of registrations.

Findings. `arc_small_blocks` refutes the bound that the comment in
`GhostToTrimForInsert` states ("|L1| <= c, total <= 2c"). ARC counts blocks
while the node evicts by bytes. When DRAM holds more than `c` small blocks,
`|T1| + |B1|` passes `c`, neither branch trims, and `B1` keeps growing.
`arc_node` shows the bounds hold when DRAM has room for `c` blocks, and
`GhostsStayBounded` proves it for every such configuration.

`stale_routing` refutes what `connector.h:26-27` says of
`max_shardmap_refreshes` ("How many times to refresh the ShardMap + retry on
kUnavailable before giving up on a request"). A connector refreshes only while
its ring is empty. When a stale ring names the local node and that node answers
Unavailable, the request fails without a refresh.

## Proofs

**Storage node.** `StorageNodeProofs` proves `NodeInv` inductive for every set
of keys and blocks, every capacity and every configuration. It is the
conjunction of the type invariant, the checked safety invariants,
`TiersAsConfigured`, and `CallStillValid`: what a call found out before the room
loop is still true after it. Without the last, `PutOverwrite` and `DemoteCommit`
could not be shown to find what they relocate. There is one lemma per action.
From `Invariant` follow `TypeCorrect`, `IndexCorrect`, `PolicyCorrect`,
`CapacityRespected`, `PreflightSuffices`, `RecordsReadable` and
`CallRemainsValid`. The lemmas on byte totals come first.

`SsdTierCounts` (in the same module) and `NodeSsdCounts` (in `NodeClientProofs`)
are about the counters of the SSD. They are exact only of a database below 2^64
bytes, a bound that nothing in Put enforces, and exactness is not inductive
without it. `CountsModulo` is: `num_blocks` is exact and `used_bytes` is the
footprint up to a multiple of 2^64, which additions and subtractions that wrap
keep. So the counters are exact in every state whose records fit, whatever came
before. The tier's theorem covers `Evict`, which the node never calls.

`NodeClientProofs` proves from `Invariant` what a client sees.
`NodeImplementsPool`: the node implements `BlockPool`. One lemma per action or
group of actions says which pool step it is: `Publish`, `PutOverwrite` and
`DirectStore` are the `Write` of a Put, `DemotePersist` is `WriteBack`, the other
steps inside a call show nothing, and the step that gives up is `Refuse` for a
Put and `Read` for a promotion. `CallStillValid` is what makes the last a `Read`:
the block that was copied out is still the newest. `HealthyNodeAccepts`: if no
victim is left but the block that is overwritten, DRAM holds the bytes of that
block alone, so a block that fits has room. Assumptions of both modules:
`KeysAssumption`, `BlocksAssumption`, `NodeAssumption`.

**Records.** `SsdRecordsProofs` is about the SSD tier on bytes. Its first part is
the codecs. The provers cannot instantiate an induction theorem with an operator,
so induction is stated for a set of naturals (`InductionSet`, from the
well-foundedness of `<`), and `ApproximationExists` shows with it that a function
defined by recursion on the naturals exists. On these rest what `Number`, `Digits`
and `Decimal` compute, that the first two undo each other, and that `n` digits
reach exactly the numbers below the largest. Then a text or blob is taken apart at
its offsets. Four theorems say that each codec is complete (`KeyTextReads`,
`BlobReads`) and strict (`KeyTextIsCanonical`, `BlobIsCanonical`): encoding and
decoding are inverse to each other on what is accepted, so no two keys share a text
and no two texts a key. `AcceptedIsWritten` puts them together for the scan of Open.

The second part is the tier. `RecordsInv` says that a database which holds anything
but records of Put is one that was found and never opened, and that the counters of
an open tier are its footprint modulo 2^64. The first is needed because `Open` may
meet any database; the second because exactness alone is not inductive, as above.
From it follow `OnlyWrittenRecordsOpen` and `CountersAreFootprint`;
`WrittenRecordsReopen` needs the codecs only. `BytesImplementBlocks` is the
refinement of `SsdTier`, one lemma per action: Put and Evict change what one key
decodes to and no other, and for Open the bytes of the database correspond one to
one to the cells that `SsdTier` counts. `FreshTierImplements` adds the initial state
of a new database, `DecodedBlocksAssumption` that the assumptions of `Blocks` hold,
so that `SsdTierCounts` applies. Assumptions: `CodecAssumption`; `NoneAssumption`
and the third conjunct of `RecordsAssumption`, which keep the values that stand for
"none" apart; and that a blob has a `size_t` length. The last conjunct of
`RecordsAssumption`, that an accepted database holds keys of `Keys` and blocks of
`Blocks`, is no restriction: by `AcceptedIsWritten` it holds of every database when
`Keys` has all keys and `Blocks` all blocks that fit.

**Eviction.** `EvictionProofs` first shows what the operations of a list do to
its set of keys and to the order of the others. `LruInv` adds types to
`OrderIsRecency`, and that the reserved key is listed; from it follow `LruOrder`,
`LruVictimIsLeastRecent` and the refinement `LruKeepsContract`. `ArcGood` says
that each key is in one place, that the victim is in the list it was chosen from,
and that `p` is in range. There is one lemma per operation, which also says what
becomes of the residents and of the reservation; this gives `ArcStaysConsistent`,
`ArcAlwaysFindsVictim` and the refinement `ArcKeepsContract`. Assumptions:
`KeysAssumption`, `ArcAssumption`.

`ArcNodeProofs` joins this with `NodeInv`. `ArcNodeSpec` implies `Spec`, so that
every theorem about the node holds with ARC. `ArcInStepWithNode`: the calls the
node makes keep T1 and T2 equal to DRAM; an access reaches ARC only for a key in
DRAM, and an insert only for one just stored there. `ArcServesNode`: ARC has a
victim whenever the node looks for one, so the join blocks no step.
`GhostsStayBounded` assumes that DRAM is limited and has fewer bytes than `c + 1`
of the smallest blocks take. The number of blocks in DRAM is then at most `c`,
which is what `OnInsert` needs in order to trim a ghost in time.
`arc_small_blocks` shows that the assumption is needed. All three assume that the
node has a policy.

**Connection.** `TcpConnectionIoProofs` states `IoInv`, proves that the kinds of
steps within a call, of `Shutdown`, and those that pass descriptors on keep it, and
applies these lemmas to the actions. The checked properties alone are not inductive:
`CallFits`
says that a running exchange uses the descriptor of its object, `StopFits` that
the object of a thread in `Shutdown` is open and broken, `ShutSeen` that a broken
connection is shut or has a thread about to shut it, `FailedDead` that a failed
stream is marked broken or about to be. From `IoInvariant`
follow `OneOwnerAlways`, `ShutdownWakesAlways` and `FailedStreamStaysDead`.
The arithmetic is proved apart: `ClockInv` fixes the deadline of a call, from which `OneDeadlinePerCall` and `TimeoutsAreNotEarly` follow for
any resolution of the clock. Assumption: `IoAssumption`, whose last conjunct says
that INT_MAX milliseconds are less than the clock's range. A timeout of more
than INT_MAX milliseconds does time out early, in poll; `NoEarlyTimeout` excepts
it. `TransfersExact` needs only `PrefixInv`: no part of a transfer exceeds what is
left of the request, and each goes right behind the one before it.

**RPC client.** `RpcProofs` proves `RpcInv` inductive, with one lemma per action
or group of actions. `RequestsFit`: at most one request is on its way in each
session, no call has two, and none of them was executed. `AnswersFit`: the id of an
answer to call `c` was given out at most `calls - c + 1` ids ago, so a new id
is none that an answer still carries until `MaxId` calls were made. `StreamFits`:
with a peer that answers each request once, what was read and what can be read
are the start of one answer to the running request, and there is none before the
request is executed. `RpcSound` says when `RpcInv` holds: while every answer was a
proper one, and always if there are at most `MaxId` calls. From `RpcStaysSound`
follow `ConnectionInStep`, `NeverAccused` and the refinement of `RemoteCall`, in two
forms: `ClientImplementsRemoteCall` for any peer and at most `MaxId` (2^64 - 1)
calls, `HonestPeerImplementsRemoteCall` for any number of calls and a peer that
answers each request once. One of the two conditions is needed: an
answer that an unruly peer sent twice is taken for the answer to a later call once
its id comes back. `NeverAccused` assumes `MaxPayload >= 1`. The code only asks that
`max_frame_bytes` holds a header; with no room for a payload, `DecodeHeader`
refuses the error message of a proper peer. Assumptions: `FramesAssumption`,
`SessionAssumption` and the `ConnectorAssumption` of `TcpConnector`.

**Routing.** `RoutingProofs` proves, for any hash function and any number of
nodes and connectors, that a ring has one successor of every hash, that a node's
re-registration leaves the order of the others alone, and with this
`RegistrationRemapsMinimally`. `RoutingInv` strengthens `RoutersAgree` with:
no cache is ahead of the coordinator, and a request that looks up its owner in a
cluster that had a live node throughout has a ring with points. From it follow
`RoutersAgreeAlways` and `LiveClusterRoutes`. Assumptions: `RingAssumption`,
`ConnectorAssumption`.

Only model-checked: liveness (`EveryCallReturns`, `EveryRpcReturns`,
`EveryRequestReturns`), which is out of the prover's reach. Every invariant and
every action property of a passing run has a theorem.

## Not modelled

A Put that timed out may be executed after a later Put of the same key went over
a new connection. `RemoteCall` allows this: the protocol does not order requests
of different connections, and the server is not in the tree.

* Cost-aware eviction, the RDMA and TCP `Transport`, the vLLM adapter, and the
  connector's `Lookup`, `Prefetch` and remote transfer are stubs that answer
  NotImplemented.
* `FromTokenPrefix` and the handles of locations are hashes; no other part
  depends on which.
* The byte layout of wire frames: `WireFrames` keeps lengths and refusals only.
* Status, locations and buffers are plain values. The benchmark is a driver.

## Plan

The byte layout of wire frames, and remote transfers once they exist.
