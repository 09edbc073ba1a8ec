----------------------------- MODULE StorageNode ----------------------------
(***************************************************************************)
(* One storage node: DRAM over SSD, the index of primary copies and the    *)
(* eviction policy, all under the node-wide mutex lifecycle_mu_.           *)
(*                                                                         *)
(* `op` is the call that holds the mutex.  A call is cut into the steps    *)
(* between which a crash or an error can leave something half done; no     *)
(* other call starts before it returns.  Phases of a call:                 *)
(*   room      in the loop of MakeDramRoomForLocked                        *)
(*   demote    a victim is reserved, nothing written yet                   *)
(*   commit    the victim is on SSD, not yet erased from DRAM              *)
(*   stored    the block is in DRAM, the policy does not know it           *)
(*   inserted  the policy knows it, the index does not                     *)
(*   direct    a Put that goes to SSD has reserved its index entry         *)
(***************************************************************************)
EXTENDS DramTier, SsdTier, LocalIndex, EvictionPolicy

CONSTANTS
  HasDram, HasSsd,   \* configured tiers, hottest first
  HasPolicy,         \* an EvictionPolicy was supplied
  DramCapacity,      \* capacity_bytes of the DRAM tier, 0 = unlimited
  BufferCapacity     \* capacities of the buffers clients read into

ASSUME NodeAssumption ==
  /\ HasDram \in BOOLEAN /\ HasSsd \in BOOLEAN /\ HasPolicy \in BOOLEAN
  /\ HasDram \/ HasSsd
  /\ DramCapacity \in 0 .. MaxU64
  /\ BufferCapacity \subseteq Nat

VARIABLES
  ready,    \* ready_
  op,       \* the call holding lifecycle_mu_
  reply,    \* what the last call returned
  aborted   \* std::terminate was reached

nodeVars == <<ready, op, reply, aborted>>
vars == <<dramVars, ssdVars, index, policyVars, nodeVars>>

Phase == {"idle", "room", "demote", "commit", "stored", "inserted", "direct"}

IdleOp == [phase |-> "idle", call |-> "none", key |-> NoKey, block |-> NoBlock,
           old |-> "absent", replaced |-> 0]

(* `block` is the block a successful call read or wrote; `fault` records   *)
(* that an injected failure decided the status.                            *)
Reply(call, k, status, b, fault) ==
  [call |-> call, key |-> k, status |-> status, block |-> b, fault |-> fault]

Init ==
  /\ DramInit /\ SsdInit /\ PolicyInit
  /\ index = EmptyIndex
  /\ ready = FALSE
  /\ op = IdleOp
  /\ reply = Reply("none", NoKey, "Ok", NoBlock, FALSE)
  /\ aborted = FALSE

Return(call, k, status, b, fault) ==
  /\ reply' = Reply(call, k, status, b, fault)
  /\ op' = IdleOp

Enter(phase) == op' = [op EXCEPT !.phase = phase] /\ UNCHANGED reply

(* std::terminate unless every precondition of a noexcept commit holds.    *)
Require(precondition) == aborted' = (aborted \/ ~precondition)

Idle == op.phase = "idle"

-----------------------------------------------------------------------------
(* Lifecycle.                                                              *)

(* Mutant: the index is rebuilt from the coldest tier first.               *)
RecoveredColdFirst ==
  InsertIfAbsent(InsertIfAbsent(EmptyIndex, KeysOf(ssd), "ssd"), KeysOf(dram), "dram")

Recovered ==
  InsertIfAbsent(InsertIfAbsent(EmptyIndex, KeysOf(dram), "dram"), KeysOf(ssd), "ssd")

Open ==
  /\ Idle
  /\ Return("Open", NoKey, "Ok", NoBlock, FALSE)
  /\ ready' = TRUE
  /\ index' = IF ready THEN index ELSE Recovered
  /\ IF HasSsd /\ ~ready THEN SsdOpened ELSE UNCHANGED ssdVars
  /\ UNCHANGED <<dramVars, policyVars, aborted>>

(* A tier that does not open, or an index that cannot be rebuilt: what was *)
(* opened is closed again and the previous index stays.                    *)
OpenFails ==
  /\ Idle
  /\ ~ready
  /\ \/ /\ HasSsd
        /\ \E e \in SsdScanErrors : Return("Open", NoKey, e, NoBlock, e \in Faults)
        /\ UNCHANGED ssdVars
     \/ /\ \E e \in IF HasSsd THEN Faults ELSE {"OutOfCapacity"} :
             Return("Open", NoKey, e, NoBlock, TRUE)
        /\ IF HasSsd THEN SsdScanned /\ ssdOpen' = FALSE ELSE UNCHANGED ssdVars
  /\ UNCHANGED <<dramVars, index, policyVars, ready, aborted>>

(* DRAM contents, policy and index outlive Close.                          *)
Close ==
  /\ Idle
  /\ Return("Close", NoKey, "Ok", NoBlock, FALSE)
  /\ ready' = FALSE
  /\ SsdClose
  /\ UNCHANGED <<dramVars, index, policyVars, aborted>>

(* The process dies at any step and is replaced by a fresh node over the   *)
(* same database.                                                          *)
Crash ==
  /\ DramLost /\ SsdLost
  /\ index' = EmptyIndex
  /\ resident' = {} /\ reserved' = NoKey
  /\ ready' = FALSE
  /\ Return("none", NoKey, "Ok", NoBlock, FALSE)
  /\ UNCHANGED aborted

-----------------------------------------------------------------------------
(* Read-only calls, and every call on a node that is not open.             *)

Unavailable(call, k) ==
  /\ Idle /\ ~ready
  /\ Return(call, k, "Unavailable", NoBlock, FALSE)
  /\ UNCHANGED <<dramVars, ssdVars, index, policyVars, ready, aborted>>

(* Contains, where NotFound stands for `false`, and Locate.                *)
Contains(k) ==
  /\ Idle /\ ready
  /\ Return("Contains", k, IF index[k] = "absent" THEN "NotFound" ELSE "Ok", NoBlock, FALSE)
  /\ UNCHANGED <<dramVars, ssdVars, index, policyVars, ready, aborted>>

(* What the primary tier's Get may return instead of Ok.                   *)
GetErrors(k, capacity) ==
  CASE index[k] = "absent" -> {"NotFound"}
    [] index[k] = "dram" -> IF dram[k] = NoBlock THEN {"NotFound"}
                            ELSE IF dram[k].size > capacity THEN {"OutOfCapacity"} ELSE {}
    [] index[k] = "ssd" -> IF HasSsd THEN SsdGetErrors(k, capacity) ELSE {"Internal"}

(* Reads the metadata of the primary copy; no access, no promotion.        *)
Probe(k) ==
  /\ Idle /\ ready
  /\ \/ \E e \in GetErrors(k, MaxU64) :
          Return("Probe", k, e, NoBlock, index[k] = "ssd" /\ e \in Faults)
     \/ /\ index[k] = "dram" /\ dram[k] # NoBlock
        /\ Return("Probe", k, "Ok", dram[k], FALSE)
     \/ /\ HasSsd /\ index[k] = "ssd" /\ SsdGetOk(k, MaxU64)
        /\ Return("Probe", k, "Ok", ssd[k], FALSE)
  /\ UNCHANGED <<dramVars, ssdVars, index, policyVars, ready, aborted>>

GetFails(k, capacity) ==
  /\ Idle /\ ready
  /\ \E e \in GetErrors(k, capacity) :
       Return("Get", k, e, NoBlock, index[k] = "ssd" /\ e \in Faults)
  /\ UNCHANGED <<dramVars, ssdVars, index, policyVars, ready, aborted>>

Used(k) == IF HasPolicy THEN OnAccess(k) ELSE UNCHANGED policyVars

GetDramHit(k, capacity) ==
  /\ Idle /\ ready
  /\ index[k] = "dram" /\ dram[k] # NoBlock /\ dram[k].size <= capacity
  /\ Return("Get", k, "Ok", dram[k], FALSE)
  /\ Used(k)
  /\ UNCHANGED <<dramVars, ssdVars, index, ready, aborted>>

(* The early returns of TryPromoteToDramLocked.                            *)
MayPromote(k) ==
  /\ HasDram /\ HasPolicy
  /\ DramCapacity = 0 \/ ssd[k].size <= DramCapacity
  /\ ValidateRelocate(k, "ssd")
  /\ dram[k] = NoBlock

(* An SSD hit: the block is copied out; promotion goes on under the lock,  *)
(* or is given up (not possible, or no memory for the copy).               *)
GetSsdHit(k, capacity) ==
  /\ Idle /\ ready
  /\ HasSsd /\ index[k] = "ssd" /\ SsdGetOk(k, capacity)
  /\ \/ Return("Get", k, "Ok", ssd[k], FALSE)
     \/ /\ MayPromote(k)
        /\ op' = [phase |-> "room", call |-> "Get", key |-> k, block |-> ssd[k],
                  old |-> "ssd", replaced |-> 0]
        /\ UNCHANGED reply
  /\ UNCHANGED <<dramVars, ssdVars, index, policyVars, ready, aborted>>

-----------------------------------------------------------------------------
(* Put: choice of the path.                                                *)

Oversized(b) == DramCapacity # 0 /\ b.size > DramCapacity

(* Mutant: the bytes of the replaced block are not discounted.             *)
PutOpNoDiscount(phase, k, b) ==
  [phase |-> phase, call |-> "Put", key |-> k, block |-> b, old |-> index[k], replaced |-> 0]

PutOp(phase, k, b) ==
  [phase |-> phase, call |-> "Put", key |-> k, block |-> b, old |-> index[k],
   replaced |-> IF phase = "room" /\ index[k] = "dram" THEN dram[k].size ELSE 0]

(* Into DRAM.  replaced is probed before the loop.                         *)
PutBegin(k, b) ==
  /\ Idle /\ ready
  /\ HasDram /\ ~Oversized(b)
  /\ IF index[k] = "dram" /\ dram[k] = NoBlock
     THEN Return("Put", k, "NotFound", NoBlock, FALSE)
     ELSE op' = PutOp("room", k, b) /\ UNCHANGED reply
  /\ UNCHANGED <<dramVars, ssdVars, index, policyVars, ready, aborted>>

PutTooLarge(k, b) ==
  /\ Idle /\ ready
  /\ HasDram /\ Oversized(b) /\ ~HasSsd
  /\ Return("Put", k, "OutOfCapacity", NoBlock, FALSE)
  /\ UNCHANGED <<dramVars, ssdVars, index, policyVars, ready, aborted>>

(* Straight to SSD: PutWithoutDramLocked and PutOversizedLocked reserve an *)
(* index entry first, unless the key has one.                              *)
DirectBegin(k, b) ==
  /\ Idle /\ ready
  /\ HasSsd /\ (~HasDram \/ Oversized(b))
  /\ IF index[k] = "dram" /\ dram[k] = NoBlock
     THEN Return("Put", k, "Internal", NoBlock, FALSE) /\ UNCHANGED index
     ELSE \/ /\ op' = PutOp("direct", k, b)
             /\ IF index[k] = "absent" THEN SetTier(k, "ssd") ELSE UNCHANGED index
             /\ UNCHANGED reply
          \/ /\ index[k] = "absent"
             /\ Return("Put", k, "OutOfCapacity", NoBlock, TRUE)
             /\ UNCHANGED index
  /\ UNCHANGED <<dramVars, ssdVars, policyVars, ready, aborted>>

(* Mutant: the policy is not told that the DRAM copy went.                 *)
DirectStoreNoRemove ==
  /\ op.phase = "direct"
  /\ SsdPut(op.key, op.block)
  /\ IF op.old = "dram" THEN DramErase(op.key) ELSE UNCHANGED dramVars
  /\ SetTier(op.key, "ssd")
  /\ Return("Put", op.key, "Ok", op.block, FALSE)
  /\ UNCHANGED <<policyVars, ready, aborted>>

DirectStore ==
  /\ op.phase = "direct"
  /\ SsdPut(op.key, op.block)
  /\ IF op.old = "dram"
     THEN /\ DramErase(op.key)
          /\ IF HasPolicy THEN OnRemove(op.key) ELSE UNCHANGED policyVars
     ELSE UNCHANGED <<dramVars, policyVars>>
  /\ Require(/\ ValidateRelocate(op.key, IF op.old = "absent" THEN "ssd" ELSE op.old)
             /\ op.old = "dram" => dram[op.key] # NoBlock)
  /\ SetTier(op.key, "ssd")
  /\ Return("Put", op.key, "Ok", op.block, FALSE)
  /\ UNCHANGED ready

DirectFails ==
  /\ op.phase = "direct"
  /\ \E e \in SsdPutErrors(op.block) : Return("Put", op.key, e, NoBlock, e \in Faults)
  /\ IF op.old = "absent"
     THEN Require(index[op.key] # "absent") /\ SetTier(op.key, "absent")
     ELSE UNCHANGED <<index, aborted>>
  /\ UNCHANGED <<dramVars, ssdVars, policyVars, ready>>

-----------------------------------------------------------------------------
(* MakeDramRoomForLocked and DemoteOneVictimLocked, for a Put or a         *)
(* promotion.  A failed promotion does not change the result of its Get.   *)

GiveUp(status, fault) ==
  IF op.call = "Put" THEN Return("Put", op.key, status, NoBlock, fault)
  ELSE Return("Get", op.key, "Ok", op.block, FALSE)

(* ProjectedBytes fails.                                                   *)
ProjectionOverflows ==
  \/ dramStats.bytes < op.replaced
  \/ op.block.size > MaxU64 - (dramStats.bytes - op.replaced)

(* Mutant: room is checked without the incoming block.                     *)
RoomAvailableNow == DramCapacity = 0 \/ dramStats.bytes <= DramCapacity

RoomAvailable ==
  \/ DramCapacity = 0
  \/ ~ProjectionOverflows /\ dramStats.bytes - op.replaced + op.block.size <= DramCapacity

(* Mutant: an overwrite may demote the block it overwrites.                *)
ExcludedNone == NoKey

Excluded == IF op.call = "Put" /\ op.old = "dram" THEN op.key ELSE NoKey

MayDemote == ~ProjectionOverflows /\ HasPolicy /\ HasSsd

(* SelectVictim finds a victim.                                            *)
HasVictim == reserved = NoKey /\ resident \ {Excluded} # {}

RoomRefused ==
  /\ op.phase = "room" /\ ~RoomAvailable /\ ~(MayDemote /\ HasVictim)
  /\ GiveUp(IF MayDemote /\ reserved # NoKey THEN "AlreadyExists" ELSE "OutOfCapacity", FALSE)
  /\ UNCHANGED <<dramVars, ssdVars, index, policyVars, ready, aborted>>

DemoteSelect ==
  /\ op.phase = "room" /\ ~RoomAvailable /\ MayDemote /\ HasVictim
  /\ SelectVictim(Excluded)
  /\ Enter("demote")
  /\ UNCHANGED <<dramVars, ssdVars, index, ready, aborted>>

DemotePreflight ==
  /\ ValidateRelocate(reserved, "dram")
  /\ dram[reserved] # NoBlock
  /\ ValidateVictimCommit(reserved)

(* Mutant: a victim with an SSD copy is not written again.                 *)
DemotePersistIfAbsent ==
  /\ op.phase = "demote" /\ DemotePreflight
  /\ IF ssd[reserved] = NoBlock THEN SsdPut(reserved, dram[reserved]) ELSE UNCHANGED ssdVars
  /\ Enter("commit")
  /\ UNCHANGED <<dramVars, index, policyVars, ready, aborted>>

(* Every preflight check passes and the SSD accepts the victim: the        *)
(* persistence commit point.                                               *)
DemotePersist ==
  /\ op.phase = "demote" /\ DemotePreflight
  /\ SsdPut(reserved, dram[reserved])
  /\ Enter("commit")
  /\ UNCHANGED <<dramVars, index, policyVars, ready, aborted>>

(* NotFound from a demotion is turned into OutOfCapacity.                  *)
DemoteErrors ==
  IF index[reserved] = "absent" THEN {"OutOfCapacity"}
  ELSE IF index[reserved] # "dram" THEN {"Internal"}
  ELSE IF dram[reserved] = NoBlock THEN {"OutOfCapacity"}
  ELSE IF ~ValidateVictimCommit(reserved) THEN {"Internal"}
  ELSE {"OutOfCapacity"} \cup SsdPutErrors(dram[reserved])

(* Mutant: a failed demotion is tried again.                               *)
DemoteFailsRetry ==
  /\ op.phase = "demote" /\ DemoteErrors # {}
  /\ Enter("room")
  /\ CancelVictim(reserved)
  /\ UNCHANGED <<dramVars, ssdVars, index, ready, aborted>>

(* The victim goes back to the policy, and the whole call gives up.        *)
DemoteFails ==
  /\ op.phase = "demote"
  /\ \E e \in DemoteErrors : GiveUp(e, DemotePreflight /\ e \in Faults)
  /\ CancelVictim(reserved)
  /\ UNCHANGED <<dramVars, ssdVars, index, ready, aborted>>

(* Erase, relocate, commit: allocation-free.  The erase lowers num_blocks, *)
(* so the no-progress return of the loop is not taken.                     *)
DemoteCommit ==
  /\ op.phase = "commit"
  /\ Require(DemotePreflight)
  /\ DramErase(reserved)
  /\ SetTier(reserved, "ssd")
  /\ CommitVictim(reserved)
  /\ Enter("room")
  /\ UNCHANGED <<ssdVars, ready>>

-----------------------------------------------------------------------------
(* The block goes into DRAM.                                               *)

(* Overwrite of a block whose primary is in DRAM: nothing can fail after   *)
(* the DRAM write.                                                         *)
PutOverwrite ==
  /\ op.phase = "room" /\ RoomAvailable
  /\ op.call = "Put" /\ op.old = "dram"
  /\ IF ValidateRelocate(op.key, "dram")
     THEN /\ DramPut(op.key, op.block)
          /\ SetTier(op.key, "dram")
          /\ Used(op.key)
          /\ Return("Put", op.key, "Ok", op.block, FALSE)
     ELSE /\ Return("Put", op.key, "Internal", NoBlock, FALSE)
          /\ UNCHANGED <<dramVars, index, policyVars>>
  /\ UNCHANGED <<ssdVars, ready, aborted>>

(* A key whose primary is not in DRAM: the DRAM write, then policy, index. *)
DramStore ==
  /\ op.phase = "room" /\ RoomAvailable
  /\ op.old # "dram"
  /\ IF op.call = "Get" \/ op.old = "absent" \/ ValidateRelocate(op.key, op.old)
     THEN DramPut(op.key, op.block) /\ Enter("stored")
     ELSE GiveUp("Internal", FALSE) /\ UNCHANGED dramVars
  /\ UNCHANGED <<ssdVars, index, policyVars, ready, aborted>>

(* bad_alloc in DramTier::Put.                                             *)
DramStoreFails ==
  /\ op.phase = "room" /\ RoomAvailable
  /\ GiveUp("OutOfCapacity", TRUE)
  /\ UNCHANGED <<dramVars, ssdVars, index, policyVars, ready, aborted>>

PolicyInsert ==
  /\ op.phase = "stored"
  /\ IF HasPolicy THEN OnInsert(op.key) ELSE UNCHANGED policyVars
  /\ Enter("inserted")
  /\ UNCHANGED <<dramVars, ssdVars, index, ready, aborted>>

(* Mutant: the DRAM copy stays when the policy refuses the key.            *)
PolicyInsertFailsKeepsCopy ==
  /\ op.phase = "stored" /\ HasPolicy
  /\ GiveUp("OutOfCapacity", TRUE)
  /\ UNCHANGED <<dramVars, ssdVars, index, policyVars, ready, aborted>>

(* OnInsert or OnPromotionCommitted fails: the DRAM copy is taken back.    *)
PolicyInsertFails ==
  /\ op.phase = "stored" /\ HasPolicy
  /\ Require(dram[op.key] # NoBlock)
  /\ DramErase(op.key)
  /\ GiveUp("OutOfCapacity", TRUE)
  /\ UNCHANGED <<ssdVars, index, policyVars, ready>>

(* The index names the DRAM copy: the Put, or the promotion, takes effect. *)
Publish ==
  /\ op.phase = "inserted"
  /\ Require(op.old = "absent" \/ ValidateRelocate(op.key, op.old))
  /\ SetTier(op.key, "dram")
  /\ Return(op.call, op.key, "Ok", op.block, FALSE)
  /\ UNCHANGED <<dramVars, ssdVars, policyVars, ready>>

(* Only the insertion of a new index entry allocates.                      *)
PublishFails ==
  /\ op.phase = "inserted" /\ op.old = "absent"
  /\ IF HasPolicy THEN OnRemove(op.key) ELSE UNCHANGED policyVars
  /\ Require(dram[op.key] # NoBlock)
  /\ DramErase(op.key)
  /\ GiveUp("OutOfCapacity", TRUE)
  /\ UNCHANGED <<ssdVars, index, ready>>

-----------------------------------------------------------------------------
(* Steps of the thread that holds the mutex.                               *)
Continue ==
  \/ DirectStore \/ DirectFails
  \/ RoomRefused \/ DemoteSelect \/ DemotePersist \/ DemoteFails \/ DemoteCommit
  \/ PutOverwrite \/ DramStore \/ DramStoreFails
  \/ PolicyInsert \/ PolicyInsertFails \/ Publish \/ PublishFails

Begin ==
  \/ Open \/ OpenFails \/ Close
  \/ \E k \in Key : Contains(k) \/ Probe(k) \/ \E c \in {"Put", "Get"} : Unavailable(c, k)
  \/ \E k \in Key, n \in BufferCapacity :
       GetFails(k, n) \/ GetDramHit(k, n) \/ GetSsdHit(k, n)
  \/ \E k \in Key, b \in Block : PutBegin(k, b) \/ PutTooLarge(k, b) \/ DirectBegin(k, b)

Next == Begin \/ Continue \/ Crash

Spec == Init /\ [][Next]_vars

(* The thread that holds the mutex keeps running.                          *)
FairSpec == Spec /\ WF_vars(Continue)

-----------------------------------------------------------------------------
(* Properties.                                                             *)

Status == {"Ok", "Unavailable", "NotFound", "OutOfCapacity", "AlreadyExists",
           "InvalidArgument", "IoError", "Internal", "Corruption"}

StatsType == [blocks : Int, bytes : 0 .. MaxU64]

OpType == [phase : Phase, call : {"none", "Put", "Get"}, key : Key \cup {NoKey},
           block : Block \cup {NoBlock}, old : Tier, replaced : Nat]

ReplyType == [call : {"none", "Open", "Close", "Put", "Get", "Contains", "Probe"},
              key : Key \cup {NoKey}, status : Status,
              block : Block \cup {NoBlock}, fault : BOOLEAN]

(* Every variable of the node has its type; the byte counters stay within  *)
(* uint64_t.                                                               *)
TypeOK ==
  /\ dram \in Store /\ dramStats \in StatsType
  /\ ssd \in Store /\ ssdStats \in StatsType /\ ssdOpen \in BOOLEAN
  /\ index \in [Key -> Tier]
  /\ resident \subseteq Key /\ reserved \in Key \cup {NoKey}
  /\ ready \in BOOLEAN /\ aborted \in BOOLEAN
  /\ op \in OpType /\ reply \in ReplyType

(* The tier that holds the newest copy of a key.                           *)
PrimaryTier(k) ==
  IF dram[k] # NoBlock THEN "dram" ELSE IF ssd[k] # NoBlock THEN "ssd" ELSE "absent"

(* The key of a Put or promotion whose index entry is not settled yet.     *)
Unsettled(k) == k = op.key /\ op.phase \in {"stored", "inserted", "direct"}

(* While the node is open the index names, for every key, the tier of the  *)
(* newest copy: DRAM over an inclusive SSD copy, through Put, demotion,    *)
(* promotion, their failures, Close and Open, and recovery after a crash.  *)
IndexNamesPrimary ==
  ready => \A k \in Key : ~Unsettled(k) => index[k] = PrimaryTier(k)

(* The policy's residents are exactly the blocks in DRAM (but for one just *)
(* stored, before OnInsert), and a victim is reserved only inside          *)
(* DemoteOneVictimLocked: every failure path cancels it.                   *)
PolicyTracksDram ==
  HasPolicy =>
    /\ resident = KeysOf(dram) \ (IF op.phase = "stored" THEN {op.key} ELSE {})
    /\ reserved # NoKey <=> op.phase \in {"demote", "commit"}

(* DRAM with a capacity: its counters are the exact number and size of its *)
(* blocks, and the bytes never exceed capacity_bytes, not even inside a    *)
(* Put or a promotion, although DramTier::Put itself checks nothing.       *)
DramWithinCapacity ==
  DramCapacity # 0 => /\ dramStats = StatsOf(dram, 0)
                      /\ dramStats.bytes <= DramCapacity

(* No std::terminate is reached and no call returns Internal or, but for   *)
(* an Open of a database of 2^64 bytes, Corruption: under the mutex the    *)
(* preflight checks of storage_node.cpp never fail and the noexcept        *)
(* commits find what they need.                                            *)
DefensiveChecksHold ==
  /\ ~aborted
  /\ reply.status # "Internal"
  /\ reply.status = "Corruption" => reply.call = "Open"

(* A Put on an open two-tier node with a policy is refused only for an I/O *)
(* or allocation failure, for its own metadata, or because a DRAM block    *)
(* with metadata that SSD rejects came up as a victim: the room loop never *)
(* runs out of victims for a block that fits.                              *)
HealthyPutAccepted ==
  [][ (/\ HasDram /\ HasSsd /\ HasPolicy /\ 2 * DramCapacity <= MaxU64
       /\ op.call = "Put" /\ Continue /\ op'.phase = "idle" /\ reply'.status # "Ok")
      => \/ reply'.fault
         \/ op.phase = "direct" /\ ~op.block.valid
         \/ \E k \in KeysOf(dram) : ~dram[k].valid ]_vars

(* Every call returns: the room loop of MakeDramRoomForLocked ends.        *)
EveryCallReturns == op.phase # "idle" ~> op.phase = "idle"

-----------------------------------------------------------------------------
(* The inductive invariant.                                                *)

(* A tier that is not configured is empty, and an open node has opened its *)
(* SSD.                                                                    *)
TiersAsConfigured ==
  /\ ~HasDram => \A k \in Key : dram[k] = NoBlock
  /\ ~HasSsd => \A k \in Key : ssd[k] = NoBlock
  /\ HasSsd /\ ready => ssdOpen
  /\ ~HasPolicy => reserved = NoKey

(* What the call in progress found out when it started is still true.      *)
CallStillValid ==
  op.phase # "idle" =>
    /\ ready /\ op.key \in Key /\ op.block \in Block /\ op.call # "none"
    /\ op.call = "Get" =>
         op.phase # "direct" /\ op.old = "ssd" /\ op.block = ssd[op.key]
    /\ op.phase = "direct" =>
         /\ HasSsd /\ PrimaryTier(op.key) = op.old
         /\ index[op.key] = IF op.old = "absent" THEN "ssd" ELSE op.old
    /\ op.phase # "direct" =>
         HasDram /\ ~Oversized(op.block) /\ index[op.key] = op.old
    /\ op.phase \in {"room", "demote", "commit"} =>
         op.replaced = IF op.old = "dram" THEN dram[op.key].size ELSE 0
    /\ op.phase \in {"stored", "inserted"} =>
         /\ op.old # "dram" /\ dram[op.key] = op.block
         /\ op.old = "absent" <=> ssd[op.key] = NoBlock
    /\ op.phase \in {"demote", "commit"} =>
         HasPolicy /\ HasSsd /\ reserved \in resident \ {op.key}
    /\ op.phase = "commit" => ssd[reserved] = dram[reserved]

(* The state between any two steps, from which every step of               *)
(* storage_node.cpp re-establishes it.                                     *)
NodeInv ==
  /\ TypeOK
  /\ TiersAsConfigured
  /\ IndexNamesPrimary
  /\ PolicyTracksDram
  /\ DramWithinCapacity
  /\ RecordsDecode
  /\ DefensiveChecksHold
  /\ CallStillValid
=============================================================================
