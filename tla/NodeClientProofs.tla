-------------------------- MODULE NodeClientProofs --------------------------
(***************************************************************************)
(* What clients of a storage node may rely on, for every set of keys and   *)
(* blocks, every capacity and every configuration of tiers and policy:     *)
(* StorageNode implements BlockPool, every step of a call being a step of  *)
(* the pool or leaving it alone; a two-tier node with a policy refuses a   *)
(* Put only for a failure or for metadata; and the SSD counters that it    *)
(* reports are exact.                                                      *)
(***************************************************************************)
EXTENDS StorageNodeRefinement, StorageNodeProofs

-----------------------------------------------------------------------------
(* Which Puts an open node refuses.                                        *)

(* What a call that returns leaves in reply.                               *)
LEMMA ReplyFields ==
  ASSUME NEW call, NEW k, NEW status, NEW b, NEW fault, Return(call, k, status, b, fault)
  PROVE  reply'.status = status /\ reply'.fault = fault
BY DEF Return, Reply

(* The room loop of a block that fits never runs out of victims: with none *)
(* left but the block that is overwritten, there is room.                  *)
LEMMA VictimOrRoom ==
  ASSUME NodeInv, op.phase = "room", op.call = "Put", 2 * DramCapacity <= MaxU64,
         HasPolicy, HasSsd
  PROVE  RoomAvailable \/ (MayDemote /\ HasVictim)
<1> SUFFICES ASSUME DramCapacity # 0, ~RoomAvailable
             PROVE  MayDemote /\ HasVictim
  BY DEF RoomAvailable
<1>1. /\ dram \in Store /\ dramStats.bytes \in Nat /\ dramStats.bytes <= DramCapacity
      /\ dramStats.bytes = Cardinality(Cells(dram, 0))
  BY DEF NodeInv, TypeOK, StatsType, DramWithinCapacity, StatsOf
<1>2. /\ op.key \in Key /\ op.block \in Block /\ ready
      /\ index[op.key] = op.old /\ op.block.size <= DramCapacity
      /\ op.replaced = IF op.old = "dram" THEN dram[op.key].size ELSE 0
  BY NodeAssumption, SizeType DEF NodeInv, CallStillValid, Oversized
<1>3. op.block.size \in Nat /\ DramCapacity \in Nat /\ MaxU64 \in Nat
  BY <1>2, SizeType, BlocksAssumption, NodeAssumption
<1>4. op.old = "dram" <=> dram[op.key] # NoBlock
  BY <1>2 DEF NodeInv, IndexNamesPrimary, Unsettled, PrimaryTier
<1>5. op.replaced \in Nat /\ op.replaced <= dramStats.bytes
  <2>1. CASE op.old = "dram"
    <3> DEFINE none == [dram EXCEPT ![op.key] = NoBlock]
    <3>1. /\ none \in Store
          /\ Cardinality(Cells(dram, 0)) = Cardinality(Cells(none, 0)) + dram[op.key].size + 0
      BY <1>1, <1>2, <1>4, <2>1, StoreErase, BlocksAssumption
    <3> HIDE DEF none
    <3>2. Cardinality(Cells(none, 0)) \in Nat
      BY <3>1, StoreFinite, BlocksAssumption
    <3>3. dram[op.key].size \in Nat
      BY <1>1, <1>2, <1>4, <2>1, SizeType DEF Store
    <3> QED BY <1>1, <1>2, <2>1, <3>1, <3>2, <3>3
  <2>2. CASE op.old # "dram"
    BY <1>1, <1>2, <2>2
  <2> QED BY <2>1, <2>2
<1>6. ~ProjectionOverflows
  BY <1>1, <1>2, <1>3, <1>5 DEF ProjectionOverflows
<1>7. reserved = NoKey /\ resident = KeysOf(dram)
  BY DEF NodeInv, PolicyTracksDram
<1>8. resident \ {Excluded} # {}
  <2> SUFFICES ASSUME resident \ {Excluded} = {} PROVE FALSE
    OBVIOUS
  <2>1. KeysOf(dram) \subseteq {op.key}
    <3>1. NoKey \notin KeysOf(dram)
      BY KeysAssumption DEF KeysOf
    <3> QED BY <1>7, <3>1 DEF Excluded
  <2>2. dramStats.bytes = op.replaced
    BY <1>1, <1>2, <1>4, <2>1, OneBlockCells
  <2>3. dramStats.bytes - op.replaced + op.block.size <= DramCapacity
    BY <1>1, <1>2, <1>3, <2>2
  <2> QED BY <1>6, <2>3 DEF RoomAvailable
<1> QED BY <1>6, <1>7, <1>8 DEF MayDemote, HasVictim

(* A Put that gives up returns the status it was given.                    *)
LEMMA PutGivesUp ==
  ASSUME NEW status, NEW fault, op.call = "Put", GiveUp(status, fault)
  PROVE  reply'.status = status /\ reply'.fault = fault
BY ReplyFields DEF GiveUp

(* The steps that refuse a Put, and why.                                   *)
LEMMA RefusalExplained ==
  ASSUME NodeInv, NodeInv', HasSsd, HasPolicy, 2 * DramCapacity <= MaxU64,
         op.call = "Put", Continue, op'.phase = "idle", reply'.status # "Ok"
  PROVE  \/ reply'.fault
         \/ op.phase = "direct" /\ ~op.block.valid
         \/ \E k \in KeysOf(dram) : ~dram[k].valid
<1>1. reply'.status # "Internal" /\ op \in OpType
  BY DEF NodeInv, DefensiveChecksHold, TypeOK
<1>2. CASE DirectStore \/ Publish \/ PutOverwrite
  <2>1. \/ Return("Put", op.key, "Ok", op.block, FALSE)
        \/ Return("Put", op.key, "Internal", NoBlock, FALSE)
    BY <1>2 DEF DirectStore, Publish, PutOverwrite
  <2> QED BY <1>1, <2>1, ReplyFields
<1>3. CASE DemoteSelect \/ DemotePersist \/ DemoteCommit \/ PolicyInsert
  <2>1. PICK phase \in {"room", "demote", "commit", "inserted"} :
          op' = [op EXCEPT !.phase = phase]
    BY <1>3 DEF DemoteSelect, DemotePersist, DemoteCommit, PolicyInsert, Enter
  <2> QED BY <1>1, <2>1 DEF OpType
<1>4. CASE DramStore
  <2>1. op' = [op EXCEPT !.phase = "stored"] \/ GiveUp("Internal", FALSE)
    BY <1>4 DEF DramStore, Enter
  <2> QED BY <1>1, <2>1, PutGivesUp DEF OpType
<1>5. CASE DramStoreFails \/ PolicyInsertFails \/ PublishFails
  <2>1. GiveUp("OutOfCapacity", TRUE)
    BY <1>5 DEF DramStoreFails, PolicyInsertFails, PublishFails
  <2> QED BY <2>1, PutGivesUp
<1>6. CASE RoomRefused
  <2>1. op.phase = "room" /\ ~RoomAvailable /\ ~(MayDemote /\ HasVictim)
    BY <1>6 DEF RoomRefused
  <2> QED BY <2>1, VictimOrRoom
<1>7. CASE DirectFails
  <2>1. PICK e \in SsdPutErrors(op.block) : Return("Put", op.key, e, NoBlock, e \in Faults)
    BY <1>7, Zenon DEF DirectFails
  <2>2. reply'.fault = (e \in Faults)
    BY <2>1, ReplyFields, Zenon
  <2>3. op.phase = "direct" /\ ssdOpen
    BY <1>7 DEF DirectFails, NodeInv, CallStillValid, TiersAsConfigured
  <2>4. e \in Faults \/ ~op.block.valid
    BY <2>3 DEF SsdPutErrors
  <2> QED BY <2>2, <2>3, <2>4, Zenon
<1>8. CASE DemoteFails
  <2>1. PICK e \in DemoteErrors : GiveUp(e, DemotePreflight /\ e \in Faults)
    BY <1>8, Zenon DEF DemoteFails
  <2>2. reply'.fault = (DemotePreflight /\ e \in Faults)
    BY <2>1, PutGivesUp, Zenon
  <2>3. /\ op.phase = "demote" /\ ready /\ ssdOpen
        /\ reserved \in KeysOf(dram) /\ reserved # op.key /\ reserved \in resident
    BY <1>8 DEF DemoteFails, NodeInv, CallStillValid, TiersAsConfigured, PolicyTracksDram
  <2>4. reserved \in Key /\ dram[reserved] # NoBlock
    BY <2>3 DEF KeysOf
  <2>5. index[reserved] = "dram"
    BY <2>3, <2>4 DEF NodeInv, IndexNamesPrimary, Unsettled, PrimaryTier
  <2>6. DemotePreflight
    BY <2>3, <2>4, <2>5 DEF DemotePreflight, ValidateRelocate, ValidateVictimCommit
  <2>7. e \in Faults \/ ~dram[reserved].valid
    BY <2>3, <2>4, <2>5 DEF DemoteErrors, SsdPutErrors, ValidateVictimCommit, Faults
  <2> QED BY <2>2, <2>3, <2>6, <2>7, Zenon
<1> QED BY <1>2, <1>3, <1>4, <1>5, <1>6, <1>7, <1>8 DEF Continue

(* An open two-tier node with a policy refuses a Put only for a failure of *)
(* the environment, for the metadata of its block, or for the metadata of  *)
(* a block in DRAM: MakeDramRoomForLocked never runs out of victims.       *)
THEOREM HealthyNodeAccepts == Spec => HealthyPutAccepted
<1>1. ASSUME NodeInv, NodeInv', [Next]_vars
      PROVE  [ (/\ HasDram /\ HasSsd /\ HasPolicy /\ 2 * DramCapacity <= MaxU64
                /\ op.call = "Put" /\ Continue /\ op'.phase = "idle" /\ reply'.status # "Ok")
               => \/ reply'.fault
                  \/ op.phase = "direct" /\ ~op.block.valid
                  \/ \E k \in KeysOf(dram) : ~dram[k].valid ]_vars
  BY <1>1, RefusalExplained
<1> QED BY <1>1, Invariant, PTL DEF Spec, HealthyPutAccepted

-----------------------------------------------------------------------------
(* Refinement.                                                             *)

(* The pool that a state of the node shows.                                *)
Contents == [k \in Key |-> Visible(k)]
Shown == [call |-> reply.call, key |-> reply.key,
          status |-> reply.status, block |-> reply.block]

-----------------------------------------------------------------------------
(* Steps of the pool, by what changes in the node.                         *)

(* A step that shows nothing: promotion, the erase of a demotion.          *)
LEMMA ShowsNothing ==
  ASSUME Contents' = Contents, ssd' = ssd, ready' = ready, reply' = reply
  PROVE  UNCHANGED Pool!poolVars
BY DEF Contents, Pool!poolVars

(* A Put that succeeds.                                                    *)
LEMMA ShowsWrite ==
  ASSUME NEW k \in Key, NEW b \in Block,
         ready, ready' = ready, Contents' = [Contents EXCEPT ![k] = b],
         ssd' = ssd \/ ssd' = [ssd EXCEPT ![k] = b],
         Shown' = [call |-> "Put", key |-> k, status |-> "Ok", block |-> b]
  PROVE  Pool!PoolNext
<1>1. Pool!Write(k, b)
  BY DEF Pool!Write, Pool!Answer, Contents, Shown
<1> QED BY <1>1 DEF Pool!PoolNext

(* A Get, Probe or Contains that succeeds.                                 *)
LEMMA ShowsRead ==
  ASSUME NEW k \in Key, NEW call \in {"Get", "Probe", "Contains"}, NEW b,
         ready, ready' = ready, Contents' = Contents, ssd' = ssd,
         Visible(k) # NoBlock, b = IF call = "Contains" THEN NoBlock ELSE Visible(k),
         Shown' = [call |-> call, key |-> k, status |-> "Ok", block |-> b]
  PROVE  Pool!PoolNext
<1>1. Contents[k] = Visible(k)
  BY DEF Contents
<1>2. Pool!Read(k)
  BY <1>1 DEF Pool!Read, Pool!Answer, Contents, Shown
<1> QED BY <1>2 DEF Pool!PoolNext

(* A call that fails.                                                      *)
LEMMA ShowsRefusal ==
  ASSUME NEW k \in Key, NEW call \in {"Put", "Get", "Contains", "Probe"},
         NEW status \in Pool!PoolStatus,
         ready <=> status # "Unavailable",
         status = "NotFound" => call # "Put" /\ Visible(k) = NoBlock,
         ready' = ready, Contents' = Contents, ssd' = ssd,
         Shown' = [call |-> call, key |-> k, status |-> status, block |-> NoBlock]
  PROVE  Pool!PoolNext
<1>1. Contents[k] = Visible(k) /\ status # "Ok"
  BY DEF Contents, Pool!PoolStatus
<1>2. Pool!Refuse(call, k, status)
  BY <1>1 DEF Pool!Refuse, Pool!Answer, Contents, Shown
<1> QED BY <1>2 DEF Pool!PoolNext

(* Steps that touch neither tier, outside the phases in which a block in   *)
(* DRAM is not in the index yet.                                           *)
LEMMA SameContents ==
  ASSUME dram' = dram, ssd' = ssd,
         op.phase \notin {"stored", "inserted"}, op'.phase \notin {"stored", "inserted"}
  PROVE  Contents' = Contents
BY DEF Contents, Visible, Unpublished

(* A call that returns leaves no block unpublished.                        *)
LEMMA Returned ==
  ASSUME NEW call, NEW k, NEW status, NEW b, NEW fault, Return(call, k, status, b, fault)
  PROVE  /\ op'.phase = "idle"
         /\ Shown' = [call |-> call, key |-> k, status |-> status, block |-> b]
BY DEF Return, IdleOp, Reply, Shown

-----------------------------------------------------------------------------
(* Lifecycle.                                                              *)

(* A fresh node shows an empty pool.                                       *)
LEMMA InitShows == Init => Pool!PoolInit
<1> SUFFICES ASSUME Init PROVE Pool!PoolInit
  OBVIOUS
<1>1. Contents = EmptyStore
  BY DEF Init, DramInit, SsdInit, Contents, Visible, EmptyStore
<1>2. Shown = [call |-> "none", key |-> NoKey, status |-> "Ok", block |-> NoBlock]
  BY DEF Init, Shown, Reply
<1> QED BY <1>1, <1>2 DEF Init, SsdInit, EmptyStore, Contents, Shown, Pool!PoolInit, Pool!PoolEmpty

(* Open keeps the contents.                                                *)
LEMMA OpenShows == ASSUME Open PROVE Pool!PoolNext
<1>1. dram' = dram /\ ssd' = ssd /\ op.phase = "idle"
  BY DEF Open, Idle, dramVars, ssdVars, SsdOpened, SsdScanned
<1>2. /\ op'.phase = "idle"
      /\ Shown' = [call |-> "Open", key |-> NoKey, status |-> "Ok", block |-> NoBlock]
  BY Returned DEF Open
<1>3. Contents' = Contents
  BY <1>1, <1>2, SameContents
<1>4. Pool!Start
  BY <1>1, <1>2, <1>3 DEF Open, Pool!Start, Pool!Answer, Contents, Shown
<1> QED BY <1>4 DEF Pool!PoolNext

(* An Open that fails changes nothing that a client can see.               *)
LEMMA OpenFailsShows == ASSUME OpenFails PROVE Pool!PoolNext
<1>1. /\ dram' = dram /\ ssd' = ssd /\ op.phase = "idle"
      /\ ~ready /\ ready' = ready
  BY DEF OpenFails, Idle, dramVars, ssdVars, SsdScanned
<1>2. PICK e \in Faults \cup {"Corruption"} :
        /\ op'.phase = "idle"
        /\ Shown' = [call |-> "Open", key |-> NoKey, status |-> e, block |-> NoBlock]
  <2>1. CASE \E e \in SsdScanErrors : Return("Open", NoKey, e, NoBlock, e \in Faults)
    <3>1. PICK e \in SsdScanErrors : Return("Open", NoKey, e, NoBlock, e \in Faults)
      BY <2>1, Zenon
    <3>2. /\ op'.phase = "idle"
          /\ Shown' = [call |-> "Open", key |-> NoKey, status |-> e, block |-> NoBlock]
      BY <3>1, Returned, Zenon
    <3>3. e \in Faults \cup {"Corruption"}
      BY DEF SsdScanErrors
    <3> QED BY <3>2, <3>3
  <2>2. CASE \E e \in IF HasSsd THEN Faults ELSE {"OutOfCapacity"} :
               Return("Open", NoKey, e, NoBlock, TRUE)
    <3>1. PICK e \in Faults : Return("Open", NoKey, e, NoBlock, TRUE)
      BY <2>2 DEF Faults
    <3> QED BY <3>1, Returned
  <2> QED BY <2>1, <2>2 DEF OpenFails
<1>3. Contents' = Contents
  BY <1>1, <1>2, SameContents
<1>4. e # "Ok" /\ e \in Pool!PoolStatus \cup {"Corruption"}
  BY DEF Faults, Pool!PoolStatus
<1>5. Pool!StartFails(e)
  BY <1>1, <1>2, <1>3, <1>4 DEF Pool!StartFails, Pool!Answer, Contents, Shown
<1> QED BY <1>4, <1>5 DEF Pool!PoolNext

(* Close keeps the contents.                                               *)
LEMMA CloseShows == ASSUME Close PROVE Pool!PoolNext
<1>1. dram' = dram /\ ssd' = ssd /\ op.phase = "idle" /\ ready' = FALSE
  BY DEF Close, Idle, dramVars, SsdClose
<1>2. /\ op'.phase = "idle"
      /\ Shown' = [call |-> "Close", key |-> NoKey, status |-> "Ok", block |-> NoBlock]
  BY Returned DEF Close
<1>3. Contents' = Contents
  BY <1>1, <1>2, SameContents
<1>4. Pool!Stop
  BY <1>1, <1>2, <1>3 DEF Pool!Stop, Pool!Answer, Contents, Shown
<1> QED BY <1>4 DEF Pool!PoolNext

(* The death of the process takes every key back to its SSD record.        *)
LEMMA CrashShows == ASSUME TypeOK, Crash PROVE Pool!PoolNext
<1>1. dram' = EmptyStore /\ ssd' = ssd /\ ready' = FALSE /\ ssd \in Store
  BY DEF Crash, DramLost, SsdLost, TypeOK
<1>2. /\ op'.phase = "idle"
      /\ Shown' = [call |-> "none", key |-> NoKey, status |-> "Ok", block |-> NoBlock]
  BY Returned DEF Crash
<1>3. Contents' = ssd
  BY <1>1 DEF Contents, Visible, EmptyStore, Store
<1>4. Pool!Lose
  BY <1>1, <1>2, <1>3 DEF Pool!Lose, Pool!Answer, Contents, Shown
<1> QED BY <1>4 DEF Pool!PoolNext

-----------------------------------------------------------------------------
(* Calls that touch no tier.                                               *)

(* Between calls the index of an open node tells what is visible.          *)
LEMMA IdleVisible ==
  ASSUME NodeInv, Idle, ready, NEW k \in Key
  PROVE  /\ Visible(k) = IF dram[k] # NoBlock THEN dram[k] ELSE ssd[k]
         /\ index[k] = PrimaryTier(k)
BY DEF NodeInv, IndexNamesPrimary, Unsettled, Visible, Unpublished, Idle

(* A call on a node that is not open.                                      *)
LEMMA UnavailableShows ==
  ASSUME NEW k \in Key, NEW c \in {"Put", "Get"}, Unavailable(c, k)
  PROVE  Pool!PoolNext
<1>1. /\ dram' = dram /\ ssd' = ssd /\ op.phase = "idle"
      /\ ~ready /\ ready' = ready
  BY DEF Unavailable, Idle, dramVars, ssdVars
<1>2. /\ op'.phase = "idle"
      /\ Shown' = [call |-> c, key |-> k, status |-> "Unavailable", block |-> NoBlock]
  BY Returned DEF Unavailable
<1>3. Contents' = Contents
  BY <1>1, <1>2, SameContents
<1>4. "Unavailable" \in Pool!PoolStatus
  BY DEF Pool!PoolStatus
<1> QED BY <1>1, <1>2, <1>3, <1>4, ShowsRefusal

(* Contains says NotFound exactly for the keys a Get would not find.       *)
LEMMA ContainsShows ==
  ASSUME NodeInv, NEW k \in Key, Contains(k)
  PROVE  Pool!PoolNext
<1>1. dram' = dram /\ ssd' = ssd /\ Idle /\ ready /\ ready' = ready
  BY DEF Contains, dramVars, ssdVars
<1> DEFINE status == IF index[k] = "absent" THEN "NotFound" ELSE "Ok"
<1>2. /\ op'.phase = "idle"
      /\ Shown' = [call |-> "Contains", key |-> k, status |-> status, block |-> NoBlock]
  BY Returned DEF Contains
<1>3. Contents' = Contents
  BY <1>1, <1>2, SameContents DEF Idle
<1>4. index[k] = "absent" <=> Visible(k) = NoBlock
  BY <1>1, IdleVisible DEF PrimaryTier
<1>5. CASE index[k] = "absent"
  <2>1. "NotFound" \in Pool!PoolStatus
    BY DEF Pool!PoolStatus
  <2> QED BY <1>1, <1>2, <1>3, <1>4, <1>5, <2>1, ShowsRefusal
<1>6. CASE index[k] # "absent"
  BY <1>1, <1>2, <1>3, <1>4, <1>6, ShowsRead
<1> QED BY <1>5, <1>6

(* What Get and Probe of an open node return instead of Ok.                *)
LEMMA GetErrorsShown ==
  ASSUME NodeInv, Idle, ready, NEW k \in Key, NEW n, NEW e \in GetErrors(k, n)
  PROVE  /\ e \in Pool!PoolStatus /\ e # "Unavailable"
         /\ e = "NotFound" => Visible(k) = NoBlock
<1>1. /\ Visible(k) = IF dram[k] # NoBlock THEN dram[k] ELSE ssd[k]
      /\ index[k] = PrimaryTier(k)
  BY IdleVisible
<1>2. index[k] = "ssd" => HasSsd /\ ssdOpen /\ ssd[k] # NoBlock /\ ssd[k].valid
  BY <1>1 DEF PrimaryTier, NodeInv, TiersAsConfigured, RecordsDecode, KeysOf
<1>3. index[k] \in Tier
  BY DEF NodeInv, TypeOK
<1> QED BY <1>1, <1>2, <1>3
        DEF GetErrors, SsdGetErrors, Faults, Tier, PrimaryTier, Pool!PoolStatus

(* A Get or Probe that fails changes nothing.                              *)
LEMMA ReadErrorShows ==
  ASSUME NodeInv, Idle, ready, NEW k \in Key, NEW n, NEW call \in {"Get", "Probe"},
         \E e \in GetErrors(k, n) :
           Return(call, k, e, NoBlock, index[k] = "ssd" /\ e \in Faults),
         dram' = dram, ssd' = ssd, ready' = ready
  PROVE  Pool!PoolNext
<1>1. PICK e \in GetErrors(k, n) :
        Return(call, k, e, NoBlock, index[k] = "ssd" /\ e \in Faults)
  BY Zenon
<1>2. /\ op'.phase = "idle"
      /\ Shown' = [call |-> call, key |-> k, status |-> e, block |-> NoBlock]
  BY <1>1, Returned, Zenon
<1>3. /\ e \in Pool!PoolStatus /\ e # "Unavailable"
      /\ e = "NotFound" => Visible(k) = NoBlock
  BY GetErrorsShown
<1>4. Contents' = Contents
  BY <1>2, SameContents DEF Idle
<1> HIDE DEF Idle
<1> QED BY <1>2, <1>3, <1>4, ShowsRefusal

(* A Get or Probe that succeeds returns the visible block.                 *)
LEMMA ReadOkShows ==
  ASSUME NodeInv, Idle, ready, NEW k \in Key, NEW call \in {"Get", "Probe"}, NEW b,
         \/ index[k] = "dram" /\ dram[k] # NoBlock /\ b = dram[k]
         \/ index[k] = "ssd" /\ ssd[k] # NoBlock /\ b = ssd[k],
         Return(call, k, "Ok", b, FALSE),
         dram' = dram, ssd' = ssd, ready' = ready
  PROVE  Pool!PoolNext
<1>1. b = Visible(k) /\ Visible(k) # NoBlock
  BY IdleVisible DEF PrimaryTier
<1>2. /\ op'.phase = "idle"
      /\ Shown' = [call |-> call, key |-> k, status |-> "Ok", block |-> b]
  BY Returned
<1>3. Contents' = Contents
  BY <1>2, SameContents DEF Idle
<1> QED BY <1>1, <1>2, <1>3, ShowsRead

(* Probe.                                                                  *)
LEMMA ProbeShows ==
  ASSUME NodeInv, NEW k \in Key, Probe(k)
  PROVE  Pool!PoolNext
<1>1. dram' = dram /\ ssd' = ssd /\ Idle /\ ready /\ ready' = ready
  BY DEF Probe, dramVars, ssdVars
<1>2. CASE \E e \in GetErrors(k, MaxU64) :
             Return("Probe", k, e, NoBlock, index[k] = "ssd" /\ e \in Faults)
  <2>1. "Probe" \in {"Get", "Probe"}
    OBVIOUS
  <2> QED BY ONLY NodeInv, k \in Key, <1>1, <1>2, <2>1, ReadErrorShows, Zenon
<1>3. CASE index[k] = "dram" /\ dram[k] # NoBlock /\ Return("Probe", k, "Ok", dram[k], FALSE)
  BY <1>1, <1>3, ReadOkShows
<1>4. CASE /\ index[k] = "ssd" /\ SsdGetOk(k, MaxU64)
           /\ Return("Probe", k, "Ok", ssd[k], FALSE)
  BY <1>1, <1>4, ReadOkShows DEF SsdGetOk
<1> QED BY <1>2, <1>3, <1>4, Zenon DEF Probe

(* Get, up to the copy into the client's buffer.  A promotion that starts  *)
(* shows nothing yet.                                                      *)
LEMMA GetShows ==
  ASSUME NodeInv, NEW k \in Key, NEW n \in BufferCapacity,
         GetFails(k, n) \/ GetDramHit(k, n) \/ GetSsdHit(k, n)
  PROVE  Pool!PoolNext \/ UNCHANGED Pool!poolVars
<1>1. dram' = dram /\ ssd' = ssd /\ Idle /\ ready /\ ready' = ready
  BY DEF GetFails, GetDramHit, GetSsdHit, dramVars, ssdVars
<1>2. CASE GetFails(k, n)
  <2>1. "Get" \in {"Get", "Probe"}
    OBVIOUS
  <2>2. \E e \in GetErrors(k, n) :
          Return("Get", k, e, NoBlock, index[k] = "ssd" /\ e \in Faults)
    BY <1>2, Zenon DEF GetFails
  <2> QED BY ONLY NodeInv, k \in Key, <1>1, <2>1, <2>2, ReadErrorShows, Zenon
<1>3. CASE GetDramHit(k, n)
  BY <1>1, <1>3, ReadOkShows DEF GetDramHit
<1>4. CASE GetSsdHit(k, n)
  <2>1. index[k] = "ssd" /\ ssd[k] # NoBlock
    BY <1>4 DEF GetSsdHit, SsdGetOk
  <2>2. CASE Return("Get", k, "Ok", ssd[k], FALSE)
    BY <1>1, <2>1, <2>2, ReadOkShows
  <2>3. CASE /\ op' = [phase |-> "room", call |-> "Get", key |-> k, block |-> ssd[k],
                       old |-> "ssd", replaced |-> 0]
             /\ reply' = reply
    <3>1. op'.phase = "room"
      BY <2>3
    <3> QED BY <1>1, <2>3, <3>1, SameContents, ShowsNothing DEF Idle
  <2> QED BY <1>4, <2>2, <2>3, Zenon DEF GetSsdHit
<1> QED BY <1>2, <1>3, <1>4

(* The start of a Put: it shows nothing, or refuses.                       *)
LEMMA PutBeginShows ==
  ASSUME NodeInv, NodeInv', NEW k \in Key, NEW b \in Block,
         PutBegin(k, b) \/ PutTooLarge(k, b) \/ DirectBegin(k, b)
  PROVE  Pool!PoolNext \/ UNCHANGED Pool!poolVars
<1>1. dram' = dram /\ ssd' = ssd /\ Idle /\ ready /\ ready' = ready
  BY DEF PutBegin, PutTooLarge, DirectBegin, dramVars, ssdVars
<1>2. ~(index[k] = "dram" /\ dram[k] = NoBlock)
  BY <1>1, IdleVisible DEF PrimaryTier
<1>3. CASE op'.phase \in {"room", "direct"} /\ reply' = reply
  BY <1>1, <1>3, SameContents, ShowsNothing DEF Idle
<1>4. CASE \E fault \in BOOLEAN : Return("Put", k, "OutOfCapacity", NoBlock, fault)
  <2>1. /\ op'.phase = "idle"
        /\ Shown' = [call |-> "Put", key |-> k, status |-> "OutOfCapacity", block |-> NoBlock]
    BY <1>4, Returned
  <2>2. "OutOfCapacity" \in Pool!PoolStatus
    BY DEF Pool!PoolStatus
  <2>3. Contents' = Contents
    BY <1>1, <2>1, SameContents DEF Idle
  <2> QED BY <1>1, <2>1, <2>2, <2>3, ShowsRefusal
<1>5. \/ op' = PutOp("room", k, b) /\ reply' = reply
      \/ op' = PutOp("direct", k, b) /\ reply' = reply
      \/ \E fault \in BOOLEAN : Return("Put", k, "OutOfCapacity", NoBlock, fault)
  <2>1. CASE PutBegin(k, b)
    BY <1>2, <2>1 DEF PutBegin
  <2>2. CASE PutTooLarge(k, b)
    BY <2>2 DEF PutTooLarge
  <2>3. CASE DirectBegin(k, b)
    BY <1>2, <2>3 DEF DirectBegin
  <2> QED BY <2>1, <2>2, <2>3
<1>6. PutOp("room", k, b).phase = "room" /\ PutOp("direct", k, b).phase = "direct"
  BY DEF PutOp
<1> QED BY <1>3, <1>4, <1>5, <1>6

-----------------------------------------------------------------------------
(* The thread that holds the mutex.                                        *)

(* What a call in progress knows of the node.                              *)
LEMMA InProgress ==
  ASSUME NodeInv, op.phase # "idle"
  PROVE  /\ ready /\ op.key \in Key /\ op.block \in Block /\ op.block # NoBlock
         /\ op.call \in {"Put", "Get"} /\ dram \in Store /\ ssd \in Store
         /\ op.call = "Get" => op.block = ssd[op.key] /\ op.old = "ssd"
BY BlocksAssumption DEF NodeInv, CallStillValid, TypeOK, OpType

(* Until it stores the block, a call for a key whose primary is not in     *)
(* DRAM sees no DRAM copy of it.                                           *)
LEMMA NoDramCopy ==
  ASSUME NodeInv, op.phase \in {"room", "demote"}, op.old # "dram"
  PROVE  dram[op.key] = NoBlock /\ Visible(op.key) = ssd[op.key]
<1>1. ready /\ op.key \in Key
  BY InProgress
<1>2. index[op.key] = op.old /\ index[op.key] = PrimaryTier(op.key)
  BY <1>1 DEF NodeInv, CallStillValid, IndexNamesPrimary, Unsettled
<1> QED BY <1>2 DEF PrimaryTier, Visible

(* Giving up ends the call.                                                *)
LEMMA GiveUpIdle ==
  ASSUME NEW status, NEW fault, GiveUp(status, fault)
  PROVE  /\ op'.phase = "idle"
         /\ Shown' = IF op.call = "Put"
                     THEN [call |-> "Put", key |-> op.key, status |-> status, block |-> NoBlock]
                     ELSE [call |-> "Get", key |-> op.key, status |-> "Ok", block |-> op.block]
<1>1. CASE op.call = "Put"
  <2>1. Return("Put", op.key, status, NoBlock, fault)
    BY <1>1 DEF GiveUp
  <2> QED BY <1>1, <2>1, Returned
<1>2. CASE op.call # "Put"
  <2>1. Return("Get", op.key, "Ok", op.block, FALSE)
    BY <1>2 DEF GiveUp
  <2> QED BY <1>2, <2>1, Returned
<1> QED BY <1>1, <1>2

(* A Put that gives up is refused; a promotion that gives up leaves a Get  *)
(* that returned the newest block.                                         *)
LEMMA GiveUpShows ==
  ASSUME NodeInv, op.phase # "idle", NEW status,
         Shown' = IF op.call = "Put"
                  THEN [call |-> "Put", key |-> op.key, status |-> status, block |-> NoBlock]
                  ELSE [call |-> "Get", key |-> op.key, status |-> "Ok", block |-> op.block],
         op.call = "Put" => status \in Pool!PoolStatus \ {"Unavailable", "NotFound"},
         op.call = "Get" => Visible(op.key) = ssd[op.key],
         Contents' = Contents, ssd' = ssd, ready' = ready
  PROVE  Pool!PoolNext
<1>1. CASE op.call = "Put"
  BY <1>1, InProgress, ShowsRefusal
<1>2. CASE op.call = "Get"
  <2>1. op.block = Visible(op.key) /\ Visible(op.key) # NoBlock
    BY <1>2, InProgress
  <2> QED BY <1>2, <2>1, InProgress, ShowsRead
<1> QED BY <1>1, <1>2, InProgress

(* No room, or no memory for the DRAM copy.                                *)
LEMMA RoomFailureShows ==
  ASSUME NodeInv, NodeInv', RoomRefused \/ DramStoreFails
  PROVE  Pool!PoolNext
<1>1. op.phase = "room" /\ dram' = dram /\ ssd' = ssd /\ ready' = ready
  BY DEF RoomRefused, DramStoreFails, dramVars, ssdVars
<1>2. MayDemote => reserved = NoKey
  BY <1>1 DEF NodeInv, PolicyTracksDram, MayDemote
<1>3. PICK fault \in BOOLEAN : GiveUp("OutOfCapacity", fault)
  BY <1>2 DEF RoomRefused, DramStoreFails
<1>4. Contents' = Contents
  BY <1>1, <1>3, GiveUpIdle, SameContents
<1>5. op.call = "Get" => Visible(op.key) = ssd[op.key]
  BY <1>1, InProgress, NoDramCopy
<1>6. "OutOfCapacity" \in Pool!PoolStatus \ {"Unavailable", "NotFound"}
  BY DEF Pool!PoolStatus
<1> QED BY <1>1, <1>3, <1>4, <1>5, <1>6, GiveUpIdle, GiveUpShows

(* A demotion that fails before the SSD write.                             *)
LEMMA DemoteFailsShows ==
  ASSUME NodeInv, DemoteFails
  PROVE  Pool!PoolNext
<1>1. op.phase = "demote" /\ dram' = dram /\ ssd' = ssd /\ ready' = ready
  BY DEF DemoteFails, dramVars, ssdVars
<1>2. PICK e \in DemoteErrors : GiveUp(e, DemotePreflight /\ e \in Faults)
  BY Zenon DEF DemoteFails
<1>3. /\ op'.phase = "idle"
      /\ Shown' = IF op.call = "Put"
                  THEN [call |-> "Put", key |-> op.key, status |-> e, block |-> NoBlock]
                  ELSE [call |-> "Get", key |-> op.key, status |-> "Ok", block |-> op.block]
  BY <1>2, GiveUpIdle, Zenon
<1>4. Contents' = Contents
  BY <1>1, <1>3, SameContents
<1>5. op.call = "Get" => Visible(op.key) = ssd[op.key]
  BY <1>1, InProgress, NoDramCopy
<1>6. e \in Pool!PoolStatus \ {"Unavailable", "NotFound"}
  <2>1. /\ ready /\ HasPolicy /\ HasSsd /\ ssdOpen
        /\ reserved \in Key \ {op.key} /\ dram[reserved] # NoBlock
    BY <1>1 DEF NodeInv, CallStillValid, TiersAsConfigured, PolicyTracksDram, KeysOf, TypeOK
  <2>2. index[reserved] = "dram"
    BY <2>1 DEF NodeInv, IndexNamesPrimary, Unsettled, PrimaryTier
  <2>3. ValidateVictimCommit(reserved)
    BY <1>1, <2>1 DEF NodeInv, CallStillValid, ValidateVictimCommit
  <2> QED BY <2>1, <2>2, <2>3 DEF DemoteErrors, SsdPutErrors, Faults, Pool!PoolStatus
<1> QED BY <1>1, <1>3, <1>4, <1>5, <1>6, GiveUpShows

(* A Put to SSD: durable at once, and the DRAM copy it shadows is erased.  *)
LEMMA DirectStoreShows ==
  ASSUME NodeInv, DirectStore
  PROVE  Pool!PoolNext
<1>1. /\ op.phase = "direct" /\ ready' = ready
      /\ ssd' = [ssd EXCEPT ![op.key] = op.block]
  BY DEF DirectStore, SsdPut, SsdWrite
<1>2. PrimaryTier(op.key) = op.old
  BY <1>1 DEF NodeInv, CallStillValid
<1>3. dram'[op.key] = NoBlock /\ \A k \in Key \ {op.key} : dram'[k] = dram[k]
  <2>1. CASE op.old = "dram"
    <3>1. dram' = [dram EXCEPT ![op.key] = NoBlock]
      BY <1>2, <2>1 DEF DirectStore, DramErase, PrimaryTier
    <3> QED BY <1>1, <3>1, InProgress DEF Store
  <2>2. CASE op.old # "dram"
    BY <1>2, <2>2 DEF DirectStore, dramVars, PrimaryTier
  <2> QED BY <2>1, <2>2
<1>4. /\ op'.phase = "idle"
      /\ Shown' = [call |-> "Put", key |-> op.key, status |-> "Ok", block |-> op.block]
  BY Returned DEF DirectStore
<1>5. Contents' = [Contents EXCEPT ![op.key] = op.block]
  BY <1>1, <1>3, <1>4, InProgress DEF Contents, Visible, Unpublished, Store
<1> QED BY <1>1, <1>4, <1>5, InProgress, ShowsWrite

(* A Put that SSD refuses leaves both tiers alone.                         *)
LEMMA DirectFailsShows ==
  ASSUME NodeInv, DirectFails
  PROVE  Pool!PoolNext
<1>1. op.phase = "direct" /\ dram' = dram /\ ssd' = ssd /\ ready' = ready
  BY DEF DirectFails, dramVars, ssdVars
<1>2. PICK e \in SsdPutErrors(op.block) : Return("Put", op.key, e, NoBlock, e \in Faults)
  BY Zenon DEF DirectFails
<1>3. /\ op'.phase = "idle"
      /\ Shown' = [call |-> "Put", key |-> op.key, status |-> e, block |-> NoBlock]
  BY <1>2, Returned, Zenon
<1>4. Contents' = Contents
  BY <1>1, <1>3, SameContents
<1>5. HasSsd /\ ssdOpen
  BY <1>1 DEF NodeInv, CallStillValid, TiersAsConfigured
<1>6. e \in Pool!PoolStatus \ {"Unavailable", "NotFound"}
  BY <1>5 DEF SsdPutErrors, Faults, Pool!PoolStatus
<1> QED BY <1>1, <1>3, <1>4, <1>6, InProgress, ShowsRefusal

(* The victim of a demotion is another key, with its primary in DRAM.      *)
LEMMA VictimInDram ==
  ASSUME NodeInv, op.phase \in {"demote", "commit"}
  PROVE  reserved \in Key /\ reserved # op.key /\ dram[reserved] # NoBlock
BY DEF NodeInv, CallStillValid, PolicyTracksDram, KeysOf, TypeOK

(* A demotion makes the victim durable and changes what no Get returns.    *)
LEMMA DemoteShows ==
  ASSUME NodeInv, DemoteSelect \/ DemotePersist \/ DemoteCommit
  PROVE  Pool!PoolNext \/ UNCHANGED Pool!poolVars
<1>1. op.phase \in {"room", "demote", "commit"} /\ ready' = ready /\ reply' = reply
  BY DEF DemoteSelect, DemotePersist, DemoteCommit, Enter
<1>2. op'.phase \in {"room", "demote", "commit"}
  BY DEF DemoteSelect, DemotePersist, DemoteCommit, Enter, NodeInv, TypeOK, OpType
<1>3. dram \in Store /\ ssd \in Store
  BY DEF NodeInv, TypeOK
<1>4. CASE DemoteSelect
  <2>1. dram' = dram /\ ssd' = ssd
    BY <1>4 DEF DemoteSelect, dramVars, ssdVars
  <2> QED BY <1>1, <1>2, <2>1, SameContents, ShowsNothing
<1>5. CASE DemotePersist
  <2>1. /\ op.phase = "demote" /\ dram' = dram
        /\ ssd' = [ssd EXCEPT ![reserved] = dram[reserved]]
    BY <1>5 DEF DemotePersist, dramVars, SsdPut, SsdWrite
  <2>2. reserved \in Key /\ dram[reserved] # NoBlock
    BY <2>1, VictimInDram
  <2>3. Contents' = Contents /\ Contents[reserved] = dram[reserved]
    BY <1>2, <1>3, <2>1, <2>2 DEF Contents, Visible, Unpublished, Store
  <2>4. Pool!WriteBack(reserved)
    BY <1>1, <2>1, <2>2, <2>3 DEF Pool!WriteBack, Contents
  <2> QED BY <2>2, <2>4 DEF Pool!PoolNext
<1>6. CASE DemoteCommit
  <2>1. op.phase = "commit" /\ ssd' = ssd /\ ssd[reserved] = dram[reserved]
    BY <1>6 DEF DemoteCommit, ssdVars, NodeInv, CallStillValid
  <2>2. reserved \in Key /\ dram[reserved] # NoBlock
    BY <2>1, VictimInDram
  <2>3. dram' = [dram EXCEPT ![reserved] = NoBlock]
    BY <1>6, <2>2 DEF DemoteCommit, DramErase
  <2>4. Contents' = Contents
    BY <1>2, <1>3, <2>1, <2>2, <2>3 DEF Contents, Visible, Unpublished, Store
  <2> QED BY <1>1, <2>1, <2>4, ShowsNothing
<1> QED BY <1>4, <1>5, <1>6

(* An overwrite in DRAM takes effect at the DRAM write.                    *)
LEMMA PutOverwriteShows ==
  ASSUME NodeInv, PutOverwrite
  PROVE  Pool!PoolNext
<1>1. op.phase = "room" /\ op.old = "dram" /\ ssd' = ssd /\ ready' = ready
  BY DEF PutOverwrite, ssdVars
<1>2. ValidateRelocate(op.key, "dram")
  BY <1>1 DEF NodeInv, CallStillValid, ValidateRelocate
<1>3. dram' = [dram EXCEPT ![op.key] = op.block]
  BY <1>2 DEF PutOverwrite, DramPut
<1>4. /\ op'.phase = "idle"
      /\ Shown' = [call |-> "Put", key |-> op.key, status |-> "Ok", block |-> op.block]
  BY <1>2, Returned DEF PutOverwrite
<1>5. Contents' = [Contents EXCEPT ![op.key] = op.block]
  BY <1>1, <1>3, <1>4, InProgress DEF Contents, Visible, Unpublished, Store
<1> QED BY <1>1, <1>4, <1>5, InProgress, ShowsWrite

(* A block that is in DRAM but not in the index is not visible yet.        *)
LEMMA StoreShows ==
  ASSUME NodeInv, DramStore \/ PolicyInsert
  PROVE  UNCHANGED Pool!poolVars
<1>1. CASE DramStore
  <2>1. /\ op.phase = "room" /\ op.old # "dram"
        /\ ssd' = ssd /\ ready' = ready /\ op \in OpType
    BY <1>1 DEF DramStore, ssdVars, NodeInv, TypeOK
  <2>2. op.old = "absent" \/ ValidateRelocate(op.key, op.old)
    BY <2>1 DEF NodeInv, CallStillValid, ValidateRelocate
  <2>3. /\ dram' = [dram EXCEPT ![op.key] = op.block] /\ reply' = reply
        /\ op' = [op EXCEPT !.phase = "stored"]
    BY <1>1, <2>2 DEF DramStore, DramPut, Enter
  <2>4. op'.phase = "stored" /\ op'.key = op.key
    BY <2>1, <2>3 DEF OpType
  <2>5. dram[op.key] = NoBlock
    BY <2>1, NoDramCopy
  <2>6. Contents' = Contents
    BY <2>1, <2>3, <2>4, <2>5, InProgress DEF Contents, Visible, Unpublished, Store
  <2> QED BY <2>1, <2>3, <2>6, ShowsNothing
<1>2. CASE PolicyInsert
  <2>1. /\ op.phase = "stored" /\ dram' = dram /\ ssd' = ssd
        /\ ready' = ready /\ reply' = reply
        /\ op' = [op EXCEPT !.phase = "inserted"] /\ op \in OpType
    BY <1>2 DEF PolicyInsert, Enter, dramVars, ssdVars, NodeInv, TypeOK
  <2>2. op'.phase = "inserted" /\ op'.key = op.key
    BY <2>1 DEF OpType
  <2>3. Contents' = Contents
    BY <2>1, <2>2 DEF Contents, Visible, Unpublished
  <2> QED BY <2>1, <2>3, ShowsNothing
<1> QED BY <1>1, <1>2

(* While a block is unpublished, its key shows the SSD record.             *)
LEMMA UnpublishedShown ==
  ASSUME NodeInv, op.phase \in {"stored", "inserted"}
  PROVE  /\ Visible(op.key) = ssd[op.key]
         /\ dram[op.key] = op.block
BY DEF Visible, Unpublished, NodeInv, CallStillValid

(* The index or the policy has no memory: the unpublished copy goes.       *)
LEMMA TakeBackShows ==
  ASSUME NodeInv, PolicyInsertFails \/ PublishFails
  PROVE  Pool!PoolNext
<1>1. op.phase \in {"stored", "inserted"} /\ ssd' = ssd /\ ready' = ready
  BY DEF PolicyInsertFails, PublishFails, ssdVars
<1>2. GiveUp("OutOfCapacity", TRUE) /\ DramErase(op.key)
  BY DEF PolicyInsertFails, PublishFails
<1>3. dram' = [dram EXCEPT ![op.key] = NoBlock]
  BY <1>1, <1>2, InProgress, UnpublishedShown DEF DramErase
<1>4. Contents' = Contents
  <2>1. op'.phase = "idle"
    BY <1>2, GiveUpIdle
  <2> QED BY <1>1, <1>3, <2>1, InProgress DEF Contents, Visible, Unpublished, Store
<1>5. "OutOfCapacity" \in Pool!PoolStatus \ {"Unavailable", "NotFound"}
  BY DEF Pool!PoolStatus
<1> QED BY <1>1, <1>2, <1>4, <1>5, UnpublishedShown, GiveUpIdle, GiveUpShows

(* The index entry is the step at which a Put takes effect; a promotion    *)
(* shows the block that SSD already showed.                                *)
LEMMA PublishShows ==
  ASSUME NodeInv, Publish
  PROVE  Pool!PoolNext
<1>1. op.phase = "inserted" /\ dram' = dram /\ ssd' = ssd /\ ready' = ready
  BY DEF Publish, dramVars, ssdVars
<1>2. /\ op'.phase = "idle"
      /\ Shown' = [call |-> op.call, key |-> op.key, status |-> "Ok", block |-> op.block]
  BY Returned DEF Publish
<1>3. Contents' = [Contents EXCEPT ![op.key] = op.block]
  BY <1>1, <1>2, InProgress, UnpublishedShown DEF Contents, Visible, Unpublished, Store
<1>4. CASE op.call = "Put"
  BY <1>1, <1>2, <1>3, <1>4, InProgress, ShowsWrite
<1>5. CASE op.call = "Get"
  <2>1. op.block = Visible(op.key) /\ Visible(op.key) # NoBlock
    BY <1>1, <1>5, InProgress, UnpublishedShown
  <2>2. Contents' = Contents
    BY <1>1, <1>3, <2>1, InProgress DEF Contents
  <2> QED BY <1>1, <1>2, <1>5, <2>1, <2>2, InProgress, ShowsRead
<1> QED BY <1>1, <1>4, <1>5, InProgress

-----------------------------------------------------------------------------
(* Every step of the node is a step of the pool, or shows nothing.         *)
LEMMA StepShows ==
  ASSUME NodeInv, NodeInv', [Next]_vars
  PROVE  [Pool!PoolNext]_(Pool!poolVars)
<1>1. CASE UNCHANGED vars
  <2>1. /\ dram' = dram /\ ssd' = ssd /\ ready' = ready
        /\ reply' = reply /\ op' = op
    BY <1>1 DEF vars, dramVars, ssdVars, nodeVars
  <2>2. Contents' = Contents
    BY <2>1 DEF Contents, Visible, Unpublished
  <2> QED BY <2>1, <2>2, ShowsNothing
<1>2. CASE Begin
  <2>1. CASE Open \/ OpenFails \/ Close
    BY <2>1, OpenShows, OpenFailsShows, CloseShows
  <2>2. CASE \E k \in Key : \/ Contains(k) \/ Probe(k)
                          \/ \E c \in {"Put", "Get"} : Unavailable(c, k)
    BY <2>2, ContainsShows, ProbeShows, UnavailableShows
  <2>3. CASE \E k \in Key, n \in BufferCapacity :
               GetFails(k, n) \/ GetDramHit(k, n) \/ GetSsdHit(k, n)
    BY <2>3, GetShows
  <2>4. CASE \E k \in Key, b \in Block :
               PutBegin(k, b) \/ PutTooLarge(k, b) \/ DirectBegin(k, b)
    BY <2>4, PutBeginShows
  <2> QED BY <1>2, <2>1, <2>2, <2>3, <2>4 DEF Begin
<1>3. CASE Continue
  BY <1>3, DirectStoreShows, DirectFailsShows, RoomFailureShows, DemoteFailsShows,
     DemoteShows, PutOverwriteShows, StoreShows, TakeBackShows, PublishShows
     DEF Continue
<1>4. CASE Crash
  BY <1>4, CrashShows DEF NodeInv
<1> QED BY <1>1, <1>2, <1>3, <1>4 DEF Next

(* Put, Get, Probe, Contains, Open and Close of storage_node.cpp behave as *)
(* atomic calls on one write-back map, whatever the tiers, the capacity    *)
(* and the policy: a demotion, a promotion or a call that fails part way   *)
(* never changes what a later Get returns, and a crash takes a key back to *)
(* the last block that reached SSD.                                        *)
THEOREM NodeImplementsPool == Spec => ImplementsPool
<1>1. Init => Pool!PoolInit
  BY InitShows
<1>2. NodeInv /\ NodeInv' /\ [Next]_vars => [Pool!PoolNext]_(Pool!poolVars)
  BY StepShows
<1>3. Spec => []NodeInv
  BY Invariant
<1> QED BY <1>1, <1>2, <1>3, PTL DEF Spec, ImplementsPool, Pool!PoolSpec

-----------------------------------------------------------------------------
(* The counters of the node's SSD tier.                                    *)

(* What a step of the node does to the tier: it opens it, writes one       *)
(* record, leaves it closed, or leaves it alone.                           *)
LEMMA NodeSsdStep ==
  ASSUME NodeInv, [Next]_vars
  PROVE  \/ UNCHANGED ssdVars
         \/ SsdOpened
         \/ ~ssdOpen'
         \/ \E k \in Key, b \in Block : SsdPut(k, b)
<1>1. CASE UNCHANGED vars
  BY <1>1 DEF vars
<1>2. CASE Open \/ OpenFails \/ Close \/ Crash
  BY <1>2, Zenon DEF Open, OpenFails, Close, SsdClose, Crash, SsdLost
<1>3. ASSUME NEW k \in Key, NEW c, Contains(k) \/ Probe(k) \/ Unavailable(c, k)
      PROVE  UNCHANGED ssdVars
  BY <1>3, Zenon DEF Contains, Probe, Unavailable
<1>4. ASSUME NEW k \in Key, NEW n, GetFails(k, n) \/ GetDramHit(k, n) \/ GetSsdHit(k, n)
      PROVE  UNCHANGED ssdVars
  BY <1>4, Zenon DEF GetFails, GetDramHit, GetSsdHit
<1>5. ASSUME NEW k \in Key, NEW b \in Block,
             PutBegin(k, b) \/ PutTooLarge(k, b) \/ DirectBegin(k, b)
      PROVE  UNCHANGED ssdVars
  BY <1>5, Zenon DEF PutBegin, PutTooLarge, DirectBegin
<1>6. CASE DirectStore
  <2>1. op.key \in Key /\ op.block \in Block
    BY <1>6 DEF DirectStore, NodeInv, CallStillValid
  <2> QED BY <1>6, <2>1 DEF DirectStore
<1>7. CASE DemotePersist
  <2>1. reserved \in Key /\ dram[reserved] \in Block
    BY <1>7, VictimIsPrimary DEF DemotePersist
  <2> QED BY <1>7, <2>1 DEF DemotePersist
<1>8. CASE \/ DirectFails \/ RoomRefused \/ DemoteSelect \/ DemoteFails \/ DemoteCommit
           \/ PutOverwrite \/ DramStore \/ DramStoreFails
           \/ PolicyInsert \/ PolicyInsertFails \/ Publish \/ PublishFails
  <2>1. UNCHANGED ssdVars
    BY <1>8, Zenon DEF DirectFails, RoomRefused, DemoteSelect, DemoteFails, DemoteCommit,
                       PutOverwrite, DramStore, DramStoreFails, PolicyInsert,
                       PolicyInsertFails, Publish, PublishFails
  <2> QED BY <2>1
<1> QED BY <1>1, <1>2, <1>3, <1>4, <1>5, <1>6, <1>7, <1>8 DEF Next, Begin, Continue

(* No step of the node takes the counters away from the records.           *)
LEMMA NodeCountsStep ==
  ASSUME NodeInv, NodeInv', CountsModulo, [Next]_vars
  PROVE  CountsModulo'
<1>1. SsdTyped
  BY DEF NodeInv, TypeOK, StatsType, SsdTyped
<1>2. CASE UNCHANGED ssdVars
  BY <1>2 DEF ssdVars, CountsModulo
<1>3. CASE SsdOpened
  BY <1>1, <1>3, SsdOpenedCounts
<1>4. CASE ~ssdOpen'
  BY <1>4 DEF CountsModulo
<1>5. ASSUME NEW k \in Key, NEW b \in Block, SsdPut(k, b) PROVE CountsModulo'
  BY <1>1, <1>5, SsdPutCounts
<1> QED BY <1>2, <1>3, <1>4, <1>5, NodeSsdStep

(* While a node's SSD is open and its records fit a uint64_t, num_blocks   *)
(* and used_bytes of the tier are exact, over overwrites, demotions,       *)
(* restarts and opens that fail after the scan.                            *)
THEOREM NodeSsdCounts ==
  Spec => [](Cardinality(Cells(ssd, HeaderBytes)) <= MaxU64 => SsdCountersExact)
<1>1. Init => CountsModulo
  BY DEF Init, SsdInit, CountsModulo
<1>2. NodeInv /\ NodeInv' /\ CountsModulo /\ [Next]_vars => CountsModulo'
  BY NodeCountsStep
<1>3. NodeInv /\ CountsModulo
      => (Cardinality(Cells(ssd, HeaderBytes)) <= MaxU64 => SsdCountersExact)
  <2>1. NodeInv => SsdTyped
    BY DEF NodeInv, TypeOK, StatsType, SsdTyped
  <2> QED BY <2>1, CountsExact
<1> QED BY <1>1, <1>2, <1>3, Invariant, PTL DEF Spec
=============================================================================
