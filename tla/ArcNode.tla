------------------------------- MODULE ArcNode ------------------------------
(***************************************************************************)
(* A storage node with the ARC policy: each step of StorageNode that calls *)
(* the policy is joined with the ArcEviction operation it calls.           *)
(***************************************************************************)
EXTENDS StorageNode, ArcEviction

arcNodeVars == <<vars, arc>>

ArcNodeInit == Init /\ ArcInit

(* Calls that hold the mutex without a call to the policy.                 *)
NoPolicyCall ==
  \/ Open \/ OpenFails \/ Close
  \/ \E k \in Key : Contains(k) \/ Probe(k) \/ \E call \in {"Put", "Get"} : Unavailable(call, k)
  \/ \E k \in Key, n \in BufferCapacity : GetFails(k, n) \/ GetSsdHit(k, n)
  \/ \E k \in Key, b \in Block : PutBegin(k, b) \/ PutTooLarge(k, b) \/ DirectBegin(k, b)
  \/ DirectFails \/ RoomRefused \/ DemotePersist
  \/ DramStore \/ DramStoreFails \/ PolicyInsertFails \/ Publish

ArcNodeNext ==
  \/ NoPolicyCall /\ UNCHANGED arc
  \/ \E k \in Key, n \in BufferCapacity : GetDramHit(k, n) /\ arc' = ArcOnAccess(arc, k)
  \/ PutOverwrite /\ arc' = ArcOnAccess(arc, op.key)
  \/ DirectStore /\ arc' = IF op.old = "dram" THEN ArcOnRemove(arc, op.key) ELSE arc
  \/ /\ DemoteSelect
     /\ reserved' = ArcVictim(arc, Excluded).key
     /\ arc' = ArcSelect(arc, Excluded)
  \/ DemoteFails /\ arc' = ArcRelease(arc)
  \/ DemoteCommit /\ arc' = ArcCommit(arc, reserved)
  \/ PolicyInsert /\ arc' = ArcOnInsert(arc, op.key)
  \/ PublishFails /\ arc' = ArcOnRemove(arc, op.key)
  \/ Crash /\ arc' = ArcEmpty

ArcNodeSpec == ArcNodeInit /\ [][ArcNodeNext]_arcNodeVars

-----------------------------------------------------------------------------
(* ARC's T1 and T2 hold exactly the keys the node has in DRAM: OnAccess is *)
(* called only after a DRAM read, so no ghost becomes a false resident.    *)
ArcTracksDram ==
  /\ ArcResident(arc) = resident
  /\ arc.reserved = reserved

Size(l) == Len(arc[l])
KnownKeys == Size("t1") + Size("t2") + Size("b1") + Size("b2")

(* The comment at GhostToTrimForInsert: ARC remembers at most 2c keys.     *)
TotalBounded == KnownKeys <= 2 * c

(* With as many DRAM bytes as c blocks take, the bounds of arc_eviction.h  *)
(* and GhostToTrimForInsert hold at every step, although residents leave   *)
(* at CommitVictim and ghosts only at the next insert: |T1| + |T2| <= c,   *)
(* |L1| = |T1| + |B1| <= c, and at most 2c keys in all.                    *)
GhostsBounded ==
  /\ Size("t1") + Size("t2") <= c
  /\ Size("t1") + Size("b1") <= c
  /\ TotalBounded
=============================================================================
