---------------------------- MODULE ArcNodeProofs ---------------------------
(***************************************************************************)
(* Proofs about ArcNode: the node and its ARC policy stay in step.         *)
(***************************************************************************)
EXTENDS ArcNode, EvictionProofs, StorageNodeProofs

(* Node and policy agree, and the policy's lists are well formed.          *)
ArcInStep == ArcGood(arc) /\ ArcTracksDram

(* The calls listed in NoPolicyCall leave the policy alone.                *)
LEMMA NoPolicyCallIs == NoPolicyCall => resident' = resident /\ reserved' = reserved
<1> USE DEF policyVars
<1>1. Open \/ OpenFails \/ Close => UNCHANGED policyVars
  BY DEF Open, OpenFails, Close
<1>2. ASSUME NEW k \in Key,
             Contains(k) \/ Probe(k) \/ \E call \in {"Put", "Get"} : Unavailable(call, k)
      PROVE  UNCHANGED policyVars
  BY <1>2 DEF Contains, Probe, Unavailable
<1>3. ASSUME NEW k \in Key, NEW n \in BufferCapacity, GetFails(k, n) \/ GetSsdHit(k, n)
      PROVE  UNCHANGED policyVars
  BY <1>3 DEF GetFails, GetSsdHit
<1>4. ASSUME NEW k \in Key, NEW b \in Block,
             PutBegin(k, b) \/ PutTooLarge(k, b) \/ DirectBegin(k, b)
      PROVE  UNCHANGED policyVars
  BY <1>4 DEF PutBegin, PutTooLarge, DirectBegin
<1>5. DirectFails \/ RoomRefused \/ DemotePersist \/ DramStore \/ DramStoreFails
        \/ PolicyInsertFails \/ Publish
      => UNCHANGED policyVars
  BY DEF DirectFails, RoomRefused, DemotePersist, DramStore, DramStoreFails,
         PolicyInsertFails, Publish
<1> QED BY <1>1, <1>2, <1>3, <1>4, <1>5 DEF NoPolicyCall

(* An access the node reports is to a resident key, so it changes no       *)
(* residency: the ghost of arc_eviction.h that OnAccess would revive is    *)
(* never accessed.                                                         *)
LEMMA AccessInStep ==
  ASSUME HasPolicy, ArcInStep, NEW k \in resident, k \in Key,
         OnAccess(k) \/ UNCHANGED policyVars, arc' = ArcOnAccess(arc, k)
  PROVE  ArcInStep'
<1>1. resident' = resident /\ reserved' = reserved
  BY DEF OnAccess, policyVars
<1>2. /\ ArcGood(arc') /\ arc'.reserved = arc.reserved
      /\ ArcResident(arc') \in {ArcResident(arc), ArcResident(arc) \cup {k}}
  BY AccessIs DEF ArcInStep
<1> QED BY <1>1, <1>2 DEF ArcInStep, ArcTracksDram

(* A removal the node reports.                                             *)
LEMMA RemoveInStep ==
  ASSUME ArcInStep, NEW k \in Key, OnRemove(k), arc' = ArcOnRemove(arc, k)
  PROVE  ArcInStep'
<1>1. /\ ArcGood(arc')
      /\ arc'.reserved = IF arc.reserved = k THEN NoKey ELSE arc.reserved
      /\ ArcResident(arc') = ArcResident(arc) \ {k}
  BY RemoveIs DEF ArcInStep
<1> QED BY <1>1 DEF OnRemove, ArcInStep, ArcTracksDram

(* Every step of a node with a policy keeps node and ARC in step.          *)
LEMMA ArcNodeStep ==
  ASSUME HasPolicy, NodeInv, ArcInStep, [ArcNodeNext]_arcNodeVars
  PROVE  ArcInStep'
<1>1. /\ CallStillValid /\ PolicyTracksDram /\ IndexNamesPrimary
      /\ resident \subseteq Key /\ dram \in Store /\ index \in [Key -> Tier]
  BY DEF NodeInv, TypeOK
<1>2. CASE UNCHANGED arcNodeVars
  BY <1>2 DEF arcNodeVars, vars, policyVars, ArcInStep, ArcTracksDram
<1>3. CASE NoPolicyCall /\ UNCHANGED arc
  BY <1>3, NoPolicyCallIs DEF ArcInStep, ArcTracksDram
<1>4. ASSUME NEW k \in Key, NEW n \in BufferCapacity, GetDramHit(k, n),
             arc' = ArcOnAccess(arc, k)
      PROVE  ArcInStep'
  <2>1. k \in resident
    BY <1>1, <1>4 DEF GetDramHit, Idle, PolicyTracksDram, KeysOf
  <2>2. OnAccess(k)
    BY <1>4 DEF GetDramHit, Used
  <2> QED BY <1>4, <2>1, <2>2, AccessInStep
<1>5. CASE PutOverwrite /\ arc' = ArcOnAccess(arc, op.key)
  <2>1. op.phase = "room" /\ op.old = "dram" /\ op.key \in Key /\ ready
        /\ index[op.key] = "dram"
    BY <1>1, <1>5 DEF PutOverwrite, CallStillValid
  <2>2. op.key \in resident
    <3>1. PrimaryTier(op.key) = "dram"
      BY <1>1, <2>1 DEF IndexNamesPrimary, Unsettled
    <3>2. dram[op.key] # NoBlock
      BY <3>1 DEF PrimaryTier
    <3> QED BY <1>1, <2>1, <3>2 DEF PolicyTracksDram, KeysOf
  <2>3. OnAccess(op.key) \/ UNCHANGED policyVars
    BY <1>5 DEF PutOverwrite, Used
  <2> QED BY <1>5, <2>1, <2>2, <2>3, AccessInStep
<1>6. CASE DirectStore /\ arc' = IF op.old = "dram" THEN ArcOnRemove(arc, op.key) ELSE arc
  <2>1. op.key \in Key
    BY <1>1, <1>6 DEF DirectStore, CallStillValid
  <2>2. CASE op.old = "dram"
    BY <1>6, <2>1, <2>2, RemoveInStep DEF DirectStore
  <2>3. CASE op.old # "dram"
    BY <1>6, <2>3 DEF DirectStore, policyVars, ArcInStep, ArcTracksDram
  <2> QED BY <2>2, <2>3
<1>7. CASE /\ DemoteSelect
           /\ reserved' = ArcVictim(arc, Excluded).key
           /\ arc' = ArcSelect(arc, Excluded)
  <2>1. reserved' \in resident /\ resident' = resident
    BY <1>7 DEF DemoteSelect, SelectVictim
  <2>2. ArcVictim(arc, Excluded).key # NoKey
    BY <1>1, <1>7, <2>1, KeysAssumption
  <2>3. /\ ArcGood(arc') /\ ArcResident(arc') = ArcResident(arc)
        /\ arc'.reserved = ArcVictim(arc, Excluded).key
    BY <1>7, <2>2, SelectIs DEF ArcInStep
  <2> QED BY <1>7, <2>1, <2>3 DEF ArcInStep, ArcTracksDram
<1>8. CASE DemoteFails /\ arc' = ArcRelease(arc)
  <2>1. ArcGood(arc') /\ ArcResident(arc') = ArcResident(arc) /\ arc'.reserved = NoKey
    BY <1>8, ReleaseIs DEF ArcInStep
  <2> QED BY <1>8, <2>1 DEF DemoteFails, CancelVictim, ArcInStep, ArcTracksDram
<1>9. CASE DemoteCommit /\ arc' = ArcCommit(arc, reserved)
  <2>1. reserved \in Key /\ arc.reserved = reserved
    BY <1>1, <1>9 DEF DemoteCommit, CallStillValid, ArcInStep, ArcTracksDram
  <2>2. /\ ArcGood(arc') /\ arc'.reserved = NoKey
        /\ ArcResident(arc') = ArcResident(arc) \ {reserved}
    BY <1>9, <2>1, CommitIs DEF ArcInStep
  <2> QED BY <1>9, <2>2 DEF DemoteCommit, CommitVictim, ArcInStep, ArcTracksDram
<1>10. CASE PolicyInsert /\ arc' = ArcOnInsert(arc, op.key)
  <2>1. op.key \in Key /\ OnInsert(op.key)
    BY <1>1, <1>10 DEF PolicyInsert, CallStillValid
  <2>2. op.key # arc.reserved
    BY <2>1 DEF OnInsert, ArcInStep, ArcTracksDram
  <2>3. /\ ArcGood(arc') /\ arc'.reserved = arc.reserved
        /\ ArcResident(arc') = ArcResident(arc) \cup {op.key}
    BY <1>10, <2>1, <2>2, InsertIs DEF ArcInStep
  <2> QED BY <2>1, <2>3 DEF OnInsert, ArcInStep, ArcTracksDram
<1>11. CASE PublishFails /\ arc' = ArcOnRemove(arc, op.key)
  <2>1. op.key \in Key /\ OnRemove(op.key)
    BY <1>1, <1>11 DEF PublishFails, CallStillValid
  <2> QED BY <1>11, <2>1, RemoveInStep
<1>12. CASE Crash /\ arc' = ArcEmpty
  BY <1>12, EmptyGood DEF Crash, ArcInStep, ArcTracksDram
<1> QED
  BY <1>2, <1>3, <1>4, <1>5, <1>6, <1>7, <1>8, <1>9, <1>10, <1>11, <1>12 DEF ArcNodeNext

(* A node with ARC is a node: its steps are steps of StorageNode.          *)
LEMMA ArcNodeIsNode == ArcNodeSpec => Spec
<1>1. ArcNodeInit => Init
  BY DEF ArcNodeInit
<1>2. [ArcNodeNext]_arcNodeVars => [Next]_vars
  BY DEF ArcNodeNext, NoPolicyCall, arcNodeVars, Next, Begin, Continue
<1> QED BY <1>1, <1>2, PTL DEF ArcNodeSpec, Spec

(* Node and policy are in step in every reachable state.                   *)
LEMMA InStepInvariant ==
  ASSUME HasPolicy PROVE ArcNodeSpec => [](NodeInv /\ ArcInStep)
<1>1. ArcNodeInit => ArcInStep
  BY EmptyGood DEF ArcNodeInit, Init, PolicyInit, ArcInit, ArcInStep, ArcTracksDram
<1>2. NodeInv /\ ArcInStep /\ [ArcNodeNext]_arcNodeVars => ArcInStep'
  BY ArcNodeStep
<1>3. ArcNodeSpec => []NodeInv
  BY ArcNodeIsNode, Invariant, PTL
<1> QED BY <1>1, <1>2, <1>3, PTL DEF ArcNodeSpec

(* T1 and T2 are exactly what the node has in DRAM, for any keys, blocks   *)
(* and capacities: no sequence of hits, overwrites, demotions, failures    *)
(* and crashes turns a ghost into a false resident.                        *)
THEOREM ArcInStepWithNode == ASSUME HasPolicy PROVE ArcNodeSpec => []ArcTracksDram
<1>1. ArcInStep => ArcTracksDram
  BY DEF ArcInStep
<1> QED BY <1>1, InStepInvariant, PTL

(* ARC never stops a demotion the node may make: while the node has a      *)
(* victim to choose from, ARC finds one among the residents it may take.   *)
THEOREM ArcServesNode ==
  ASSUME HasPolicy
  PROVE  ArcNodeSpec => [](HasVictim => ArcVictim(arc, Excluded).key \in resident \ {Excluded})
<1>1. ArcInStep => (HasVictim => ArcVictim(arc, Excluded).key \in resident \ {Excluded})
  <2> SUFFICES ASSUME ArcInStep, HasVictim
               PROVE  ArcVictim(arc, Excluded).key \in resident \ {Excluded}
    OBVIOUS
  <2>1. ArcResident(arc) = resident /\ ~(resident \subseteq {Excluded})
    BY DEF ArcInStep, ArcTracksDram, HasVictim
  <2>2. ArcVictim(arc, Excluded).key \in ArcResident(arc) \ {Excluded}
    <3> DEFINE e == Excluded
    <3>1. ~(ArcResident(arc) \subseteq {e})
      BY <2>1
    <3> HIDE DEF e
    <3>2. ArcVictim(arc, e).key \in ArcResident(arc) \ {e}
      BY <3>1, ArcVictimIs DEF ArcInStep
    <3> QED BY <3>2 DEF e
  <2> QED BY <2>1, <2>2
<1> QED BY <1>1, InStepInvariant, PTL

-----------------------------------------------------------------------------
(* How long the lists are.                                                 *)

(* |L1| <= c and at most 2c keys in all, by the lengths of the lists.      *)
Within(t1, t2, b1, b2) == t1 + b1 <= c /\ t1 + t2 + b1 + b2 <= 2 * c

(* The same of a state of the policy.                                      *)
Bounded(a) == Within(Len(a["t1"]), Len(a["t2"]), Len(a["b1"]), Len(a["b2"]))

(* The lengths of well-formed lists.                                       *)
LEMMA LengthsTyped ==
  ASSUME NEW a, ArcShape(a)
  PROVE  /\ \A l \in Lists : a[l] \in Seq(Key) /\ Len(a[l]) \in Nat
         /\ Len(a["t1"]) \in Nat /\ Len(a["t2"]) \in Nat
         /\ Len(a["b1"]) \in Nat /\ Len(a["b2"]) \in Nat
<1>1. \A l \in Lists : a[l] \in Seq(Key) /\ Len(a[l]) \in Nat
  BY DEF ArcShape
<1> QED BY <1>1 DEF Lists

(* A policy that knows no key is within the bounds.                        *)
LEMMA EmptyBounded == Bounded(ArcEmpty)
<1>1. /\ ArcEmpty["t1"] = <<>> /\ ArcEmpty["t2"] = <<>>
      /\ ArcEmpty["b1"] = <<>> /\ ArcEmpty["b2"] = <<>> /\ Len(<<>>) = 0
  BY DEF ArcEmpty
<1>2. Within(0, 0, 0, 0)
  BY ArcAssumption DEF Within
<1> QED BY <1>1, <1>2 DEF Bounded

(* PushFront adds one element.                                             *)
LEMMA PushedLength ==
  ASSUME NEW s \in Seq(Key), NEW k \in Key
  PROVE  Len(PushFront(s, k)) = Len(s) + 1
BY PushFrontIs

(* One element fewer in src and one more in dst.                           *)
Shifted(a, b, src, dst) ==
  /\ src = dst => \A l \in Lists : Len(b[l]) = Len(a[l])
  /\ src # dst => /\ Len(b[src]) = Len(a[src]) - 1
                  /\ Len(b[dst]) = Len(a[dst]) + 1
                  /\ \A l \in Lists \ {src, dst} : Len(b[l]) = Len(a[l])

(* Relink takes one element from the list of the key and adds one to its   *)
(* destination.                                                            *)
LEMMA RelinkLengths ==
  ASSUME NEW a, ArcShape(a), Apart(a), NEW src \in Lists, NEW k \in Range(a[src]),
         NEW dst \in Lists, NEW b, b = Relink(a, k, dst)
  PROVE  Shifted(a, b, src, dst)
<1> DEFINE taken == [a EXCEPT ![src] = Without(a[src], k)]
<1>1. ListOf(a, k) = src /\ k \in Key
  BY ListOfIs DEF ArcShape, Range
<1>2. DOMAIN a = ArcFields /\ Lists \subseteq ArcFields
  BY DEF ArcShape, Lists, ArcFields
<1>3. b = [taken EXCEPT ![dst] = PushFront(taken[dst], k)]
  BY <1>1 DEF Relink
<1>4. DOMAIN taken = ArcFields /\ taken[src] = Without(a[src], k)
      /\ \A l \in Lists \ {src} : taken[l] = a[l]
  BY <1>2
<1>5. Without(a[src], k) \in Seq(Key) /\ Len(Without(a[src], k)) = Len(a[src]) - 1
  BY WithoutKeeps DEF ArcShape, Apart
<1> HIDE DEF taken
<1>6. b[dst] = PushFront(taken[dst], k) /\ \A l \in Lists \ {dst} : b[l] = taken[l]
  BY <1>2, <1>3, <1>4
<1>7. taken[dst] \in Seq(Key)
  BY <1>4, <1>5 DEF ArcShape
<1>8. Len(b[dst]) = Len(taken[dst]) + 1
  BY <1>1, <1>6, <1>7, PushedLength
<1>9. \A l \in Lists : Len(a[l]) \in Nat
  BY LengthsTyped
<1>10. CASE src = dst
  <2>1. Len(b[dst]) = Len(a[dst])
    BY <1>4, <1>5, <1>8, <1>9, <1>10
  <2> QED BY <1>4, <1>6, <1>10, <2>1 DEF Shifted
<1>11. CASE src # dst
  BY <1>4, <1>5, <1>6, <1>8, <1>11 DEF Shifted
<1> QED BY <1>10, <1>11

(* A hit does not lengthen L1, nor all lists together.                     *)
LEMMA HitBounded ==
  ASSUME NEW a, ArcGood(a), Bounded(a), NEW k \in KeysIn(a, Lists)
  PROVE  Bounded(ArcHit(a, k))
<1> DEFINE b == ArcHit(a, k)
<1>1. PICK d : SameLists(a, d) /\ b = Relink(d, k, "t2")
  BY HitIs
<1> HIDE DEF b
<1>2. ArcGood(d) /\ \A l \in Lists : d[l] = a[l]
  BY <1>1, SameListsGood
<1>3. PICK src \in Lists : k \in Range(d[src])
  BY <1>2 DEF KeysIn
<1>4. ArcShape(d) /\ Apart(d) /\ "t2" \in Lists
  BY <1>2 DEF ArcGood, Lists
<1>5. Shifted(d, b, src, "t2")
  BY <1>1, <1>3, <1>4, RelinkLengths
<1> DEFINE n1 == Len(d["t1"])
           n2 == Len(d["t2"])
           m1 == Len(d["b1"])
           m2 == Len(d["b2"])
<1>6. n1 \in Nat /\ n2 \in Nat /\ m1 \in Nat /\ m2 \in Nat
  BY <1>4, LengthsTyped
<1>7. Within(n1, n2, m1, m2) /\ c \in Nat
  BY <1>2, ArcAssumption DEF Bounded, Lists
<1>8. /\ Len(b["t1"]) = IF src = "t1" THEN n1 - 1 ELSE n1
      /\ Len(b["t2"]) = IF src = "t2" THEN n2 ELSE n2 + 1
      /\ Len(b["b1"]) = IF src = "b1" THEN m1 - 1 ELSE m1
      /\ Len(b["b2"]) = IF src = "b2" THEN m2 - 1 ELSE m2
  BY <1>5 DEF Lists, Shifted
<1> HIDE DEF n1, n2, m1, m2
<1>9. Within(Len(b["t1"]), Len(b["t2"]), Len(b["b1"]), Len(b["b2"]))
  <2>1. src \in {"t1", "t2", "b1", "b2"}
    BY DEF Lists
  <2> QED BY <1>6, <1>7, <1>8, <2>1 DEF Within
<1> QED BY <1>9 DEF b, Bounded

(* GhostToTrimForInsert makes up for one more key in T1, as long as the    *)
(* residents leave room for it.                                            *)
LEMMA TrimSuffices ==
  ASSUME NEW t1 \in Nat, NEW t2 \in Nat, NEW b1 \in Nat, NEW b2 \in Nat,
         Within(t1, t2, b1, b2), t1 + t2 < c
  PROVE  LET l1 == t1 + b1
             total == l1 + t2 + b2
         IN  IF l1 = c /\ t1 < c THEN b1 > 0 /\ Within(t1 + 1, t2, b1 - 1, b2)
             ELSE IF l1 < c /\ total >= 2 * c THEN b2 > 0 /\ Within(t1 + 1, t2, b1, b2 - 1)
             ELSE Within(t1 + 1, t2, b1, b2)
BY ArcAssumption DEF Within

(* OnInsert of a key ARC does not know, with room for one more resident.   *)
LEMMA InsertBounded ==
  ASSUME NEW a, ArcGood(a), Bounded(a), NEW k \in Key, k \notin KeysIn(a, Lists),
         Len(a["t1"]) + Len(a["t2"]) < c
  PROVE  Bounded(ArcOnInsert(a, k))
<1> DEFINE b == ArcOnInsert(a, k)
           g == GhostToTrimForInsert(a)
           d == [a EXCEPT !.t1 = PushFront(@, k), !.lastHitInB2 = FALSE]
           t1 == Len(a["t1"])
           t2 == Len(a["t2"])
           b1 == Len(a["b1"])
           b2 == Len(a["b2"])
           l1 == t1 + b1
           total == l1 + t2 + b2
<1>1. b = EraseLru(d, g)
  BY DEF ArcOnInsert
<1>2. ArcShape(a) /\ DOMAIN a = ArcFields
  BY DEF ArcGood, ArcShape
<1>3. /\ DOMAIN d = ArcFields /\ d["t1"] = PushFront(a["t1"], k)
      /\ d["t2"] = a["t2"] /\ d["b1"] = a["b1"] /\ d["b2"] = a["b2"]
  BY <1>2 DEF ArcFields
<1> HIDE DEF d
<1>4. /\ t1 \in Nat /\ t2 \in Nat /\ b1 \in Nat /\ b2 \in Nat
      /\ \A l \in Lists : a[l] \in Seq(Key)
  BY <1>2, LengthsTyped
<1>5. Len(d["t1"]) = t1 + 1
  BY <1>3, <1>4, PushedLength DEF Lists
<1>6. ASSUME NEW l \in {"b1", "b2"}, g = l, Len(a[l]) > 0
      PROVE  /\ Len(b[l]) = Len(a[l]) - 1
             /\ \A m \in Lists \ {l} : b[m] = d[m]
  <2>1. a[l] \in Seq(Key) /\ d[l] = a[l] /\ l # "none"
    BY <1>3, <1>4 DEF Lists
  <2>2. a[l] # <<>>
    BY <1>6
  <2>3. b = [d EXCEPT ![l] = PopBack(a[l])]
    BY <1>1, <1>6, <2>1, <2>2 DEF EraseLru
  <2>4. Len(PopBack(a[l])) = Len(a[l]) - 1
    BY <2>1, <2>2, FrontIs
  <2> HIDE DEF b, g
  <2> QED BY <1>3, <2>3, <2>4 DEF Lists, ArcFields
<1>7. ASSUME g = "none" PROVE b = d
  BY <1>1, <1>7 DEF EraseLru
<1>8. g = IF l1 = c /\ t1 < c THEN "b1"
          ELSE IF l1 < c /\ total >= 2 * c THEN "b2" ELSE "none"
  BY DEF GhostToTrimForInsert
<1>9. Within(t1, t2, b1, b2) /\ t1 + t2 < c
  BY DEF Bounded
<1>10. IF l1 = c /\ t1 < c THEN b1 > 0 /\ Within(t1 + 1, t2, b1 - 1, b2)
       ELSE IF l1 < c /\ total >= 2 * c THEN b2 > 0 /\ Within(t1 + 1, t2, b1, b2 - 1)
       ELSE Within(t1 + 1, t2, b1, b2)
  <2> HIDE DEF t1, t2, b1, b2
  <2> QED BY <1>4, <1>9, TrimSuffices
<1> DEFINE TrimB1 == l1 = c /\ t1 < c
           TrimB2 == ~TrimB1 /\ l1 < c /\ total >= 2 * c
<1>11. /\ TrimB1 => g = "b1" /\ b1 > 0 /\ Within(t1 + 1, t2, b1 - 1, b2)
       /\ TrimB2 => g = "b2" /\ b2 > 0 /\ Within(t1 + 1, t2, b1, b2 - 1)
       /\ ~TrimB1 /\ ~TrimB2 => g = "none" /\ Within(t1 + 1, t2, b1, b2)
  <2> HIDE DEF t1, t2, b1, b2, g
  <2> QED BY <1>8, <1>10
<1> HIDE DEF b, g, TrimB1, TrimB2
<1>12. CASE TrimB1
  <2>1. Len(b["b1"]) = b1 - 1 /\ \A m \in Lists \ {"b1"} : b[m] = d[m]
    BY <1>6, <1>11, <1>12
  <2>2. Len(b["t1"]) = t1 + 1 /\ Len(b["t2"]) = t2 /\ Len(b["b2"]) = b2
    BY <1>3, <1>5, <2>1 DEF Lists
  <2> QED BY <1>11, <1>12, <2>1, <2>2 DEF Bounded, b
<1>13. CASE TrimB2
  <2>1. Len(b["b2"]) = b2 - 1 /\ \A m \in Lists \ {"b2"} : b[m] = d[m]
    BY <1>6, <1>11, <1>13
  <2>2. Len(b["t1"]) = t1 + 1 /\ Len(b["t2"]) = t2 /\ Len(b["b1"]) = b1
    BY <1>3, <1>5, <2>1 DEF Lists
  <2> QED BY <1>11, <1>13, <2>1, <2>2 DEF Bounded, b
<1>14. CASE ~TrimB1 /\ ~TrimB2
  <2>1. b = d
    BY <1>7, <1>11, <1>14
  <2>2. /\ Len(b["t1"]) = t1 + 1 /\ Len(b["t2"]) = t2
        /\ Len(b["b1"]) = b1 /\ Len(b["b2"]) = b2
    BY <1>3, <1>5, <2>1
  <2> QED BY <1>11, <1>14, <2>2 DEF Bounded, b
<1> QED BY <1>12, <1>13, <1>14

(* An explicit removal lengthens no list.                                  *)
LEMMA RemoveBounded ==
  ASSUME NEW a, ArcGood(a), Bounded(a), NEW k \in Key
  PROVE  Bounded(ArcOnRemove(a, k))
<1> DEFINE b == ArcOnRemove(a, k)
<1>1. DOMAIN a = ArcFields /\ Lists \subseteq ArcFields
  BY DEF ArcGood, ArcShape, Lists, ArcFields
<1>2. \A l \in Lists : b[l] = Without(a[l], k)
  BY <1>1 DEF ArcOnRemove
<1> HIDE DEF b
<1>3. ASSUME NEW l \in Lists
      PROVE  Len(a[l]) \in Nat /\ Len(b[l]) \in Nat /\ Len(b[l]) <= Len(a[l])
  <2>1. a[l] \in Seq(Key) /\ Distinct(a[l])
    BY DEF ArcGood, ArcShape, Apart
  <2>2. /\ b[l] \in Seq(Key)
        /\ Len(b[l]) = IF k \in Range(a[l]) THEN Len(a[l]) - 1 ELSE Len(a[l])
    BY <1>2, <2>1, WithoutKeeps
  <2> QED BY <2>1, <2>2
<1>4. "t1" \in Lists /\ "t2" \in Lists /\ "b1" \in Lists /\ "b2" \in Lists
  BY DEF Lists
<1> DEFINE n(l) == Len(a[l])
           m(l) == Len(b[l])
<1>5. /\ n("t1") \in Nat /\ m("t1") \in Nat /\ m("t1") <= n("t1")
      /\ n("t2") \in Nat /\ m("t2") \in Nat /\ m("t2") <= n("t2")
      /\ n("b1") \in Nat /\ m("b1") \in Nat /\ m("b1") <= n("b1")
      /\ n("b2") \in Nat /\ m("b2") \in Nat /\ m("b2") <= n("b2")
  BY <1>3, <1>4
<1>6. Within(n("t1"), n("t2"), n("b1"), n("b2"))
  BY DEF Bounded
<1> HIDE DEF n, m
<1>7. Within(m("t1"), m("t2"), m("b1"), m("b2"))
  BY <1>5, <1>6, ArcAssumption DEF Within
<1> QED BY <1>7 DEF Bounded, b, m

(* A committed victim goes from T1 to B1 or from T2 to B2.                 *)
LEMMA CommitBounded ==
  ASSUME NEW a, ArcGood(a), Bounded(a), NEW k \in Key, a.reserved = k
  PROVE  Bounded(ArcCommit(a, k))
<1> DEFINE dst == IF a.source = "t1" THEN "b1" ELSE "b2"
           src == a.source
           d == Relink(a, k, dst)
           b == ArcCommit(a, k)
<1>1. ArcShape(a) /\ Apart(a) /\ src \in {"t1", "t2"} /\ k \in Range(a[src])
  BY KeysAssumption DEF ArcGood, VictimInSource
<1>2. src \in Lists /\ dst \in Lists
  BY <1>1 DEF Lists
<1>3. Shifted(a, d, src, dst)
  <2> HIDE DEF src, dst
  <2> QED BY <1>1, <1>2, RelinkLengths
<1>4. ArcShape(d)
  <2>1. k \in KeysIn(a, Lists)
    BY <1>1, <1>2 DEF KeysIn
  <2> HIDE DEF dst
  <2> QED BY <1>1, <1>2, <2>1, Relinked
<1>5. b = ArcRelease([d EXCEPT !.lastHitInB2 = FALSE])
  BY DEF ArcCommit
<1> HIDE DEF d
<1>6. b["t1"] = d["t1"] /\ b["t2"] = d["t2"] /\ b["b1"] = d["b1"] /\ b["b2"] = d["b2"]
  BY <1>4, <1>5 DEF ArcRelease, ArcShape, ArcFields
<1> HIDE DEF b
<1> DEFINE n1 == Len(a["t1"])
           n2 == Len(a["t2"])
           m1 == Len(a["b1"])
           m2 == Len(a["b2"])
<1>7. n1 \in Nat /\ n2 \in Nat /\ m1 \in Nat /\ m2 \in Nat
  BY <1>1, LengthsTyped
<1>8. Within(n1, n2, m1, m2) /\ c \in Nat
  BY ArcAssumption DEF Bounded
<1>9. /\ Len(b["t1"]) = IF src = "t1" THEN n1 - 1 ELSE n1
      /\ Len(b["t2"]) = IF src = "t1" THEN n2 ELSE n2 - 1
      /\ Len(b["b1"]) = IF src = "t1" THEN m1 + 1 ELSE m1
      /\ Len(b["b2"]) = IF src = "t1" THEN m2 ELSE m2 + 1
  BY <1>1, <1>3, <1>6 DEF Lists, Shifted
<1> HIDE DEF n1, n2, m1, m2
<1>10. Within(Len(b["t1"]), Len(b["t2"]), Len(b["b1"]), Len(b["b2"]))
  BY <1>7, <1>8, <1>9 DEF Within
<1> QED BY <1>10 DEF Bounded, b

(* A use lengthens neither L1 nor all lists together.                      *)
LEMMA AccessBounded ==
  ASSUME NEW a, ArcGood(a), Bounded(a), NEW k \in Key
  PROVE  Bounded(ArcOnAccess(a, k))
<1>1. CASE k \notin KeysIn(a, Lists)
  <2> DEFINE b == ArcOnAccess(a, k)
  <2>1. b = [a EXCEPT !.lastHitInB2 = FALSE]
    BY <1>1 DEF ArcOnAccess
  <2>2. b["t1"] = a["t1"] /\ b["t2"] = a["t2"] /\ b["b1"] = a["b1"] /\ b["b2"] = a["b2"]
    BY <2>1 DEF ArcGood, ArcShape, ArcFields
  <2> HIDE DEF b
  <2>3. Bounded(b)
    BY <2>2 DEF Bounded
  <2> QED BY <2>3 DEF b
<1>2. CASE k \in KeysIn(a, Lists) /\ k = a.reserved
  BY <1>2 DEF ArcOnAccess
<1>3. CASE k \in KeysIn(a, Lists) /\ k # a.reserved
  BY <1>3, HitBounded DEF ArcOnAccess
<1> QED BY <1>1, <1>2, <1>3

(* A list without repetition has as many elements as places.               *)
LEMMA RangeCount ==
  ASSUME NEW s \in Seq(Key), Distinct(s)
  PROVE  IsFiniteSet(Range(s)) /\ Cardinality(Range(s)) = Len(s)
<1> DEFINE n == Len(s)
<1>1. n \in Nat /\ DOMAIN s = 1 .. n
  OBVIOUS
<1>2. s \in Bijection(1 .. n, Range(s))
  <2>1. s \in [1 .. n -> Range(s)]
    BY <1>1 DEF Range
  <2>2. \A i, j \in 1 .. n : s[i] = s[j] => i = j
    BY <1>1 DEF Distinct
  <2>3. \A k \in Range(s) : \E i \in 1 .. n : s[i] = k
    BY <1>1 DEF Range
  <2> HIDE DEF n
  <2> QED BY <2>1, <2>2, <2>3 DEF Bijection, Injection, Surjection, IsInjective
<1> HIDE DEF n
<1>3. ExistsBijection(1 .. n, Range(s))
  BY <1>2 DEF ExistsBijection
<1>4. IsFiniteSet(1 .. n) /\ Cardinality(1 .. n) = n
  <2>1. 1 \in Int /\ n \in Int
    BY <1>1
  <2>2. IsFiniteSet(1 .. n) /\ Cardinality(1 .. n) = IF 1 > n THEN 0 ELSE n - 1 + 1
    BY <2>1, FS_Interval, Zenon
  <2> QED BY <1>1, <2>2
<1> QED BY <1>3, <1>4, FS_Bijection DEF n

(* T1 and T2 have as many places as there are residents.                   *)
LEMMA ResidentCount ==
  ASSUME NEW a, ArcGood(a)
  PROVE  /\ IsFiniteSet(ArcResident(a))
         /\ Cardinality(ArcResident(a)) = Len(a["t1"]) + Len(a["t2"])
<1> DEFINE x == Range(a["t1"])
           y == Range(a["t2"])
<1>1. /\ "t1" \in Lists /\ "t2" \in Lists
      /\ \A l \in Lists : a[l] \in Seq(Key) /\ Distinct(a[l])
      /\ x \cap y = {}
  BY DEF Lists, ArcGood, ArcShape, Apart
<1>2. /\ IsFiniteSet(x) /\ Cardinality(x) = Len(a["t1"])
      /\ IsFiniteSet(y) /\ Cardinality(y) = Len(a["t2"])
  BY <1>1, RangeCount
<1>3. ArcResident(a) = x \cup y
  BY DEF ArcResident, KeysIn
<1>4. Len(a["t1"]) \in Nat /\ Len(a["t2"]) \in Nat
  BY <1>1
<1> HIDE DEF x, y
<1>5. /\ IsFiniteSet(x \cup y)
      /\ Cardinality(x \cup y) = Cardinality(x) + Cardinality(y) - Cardinality(x \cap y)
  BY <1>2, FS_Union
<1>6. Cardinality(x \cap y) = 0
  BY <1>1, FS_EmptySet
<1> QED BY <1>2, <1>3, <1>4, <1>5, <1>6

(* Blocks take at least u bytes, and DRAM has no room for c + 1 of them.   *)
CapacityInBlocks(u) ==
  /\ u \in Nat \ {0} /\ \A b \in Block : b.size >= u
  /\ DramCapacity # 0 /\ DramCapacity < (c + 1) * u

(* Then DRAM holds at most c blocks.                                       *)
LEMMA DramCount ==
  ASSUME NodeInv, NEW u, CapacityInBlocks(u)
  PROVE  IsFiniteSet(KeysOf(dram)) /\ Cardinality(KeysOf(dram)) \in 0 .. c
<1> DEFINE n == Cardinality(KeysOf(dram))
           m == Cardinality(Cells(dram, 0))
<1>1. dram \in Store /\ 0 \in 0 .. HeaderBytes
  BY BlocksAssumption DEF NodeInv, TypeOK
<1>2. /\ IsFiniteSet(KeysOf(dram)) /\ n \in Nat
      /\ IsFiniteSet(Cells(dram, 0)) /\ m \in Nat
  BY <1>1, StoreFinite
<1>3. m <= DramCapacity
  BY DEF NodeInv, DramWithinCapacity, StatsOf, CapacityInBlocks
<1>4. u \in Nat /\ u > 0 /\ c \in Nat /\ DramCapacity \in Nat /\ DramCapacity < (c + 1) * u
  BY ArcAssumption, NodeAssumption, BlocksAssumption DEF CapacityInBlocks
<1>5. KeysOf(dram) \X (1 .. u) \in SUBSET Cells(dram, 0)
  <2> SUFFICES ASSUME NEW k \in KeysOf(dram), NEW i \in 1 .. u
               PROVE  <<k, i>> \in Cells(dram, 0)
    OBVIOUS
  <2>1. dram[k] \in Block /\ k \in Key
    BY <1>1 DEF KeysOf, Store
  <2>2. dram[k].size >= u /\ dram[k].size \in Nat
    BY <2>1, BlocksAssumption DEF CapacityInBlocks
  <2>3. i \in 1 .. (dram[k].size + 0)
    BY <1>4, <2>2
  <2>4. <<k, i>> \in {k} \X (1 .. (dram[k].size + 0))
    BY <2>3
  <2> QED BY <2>4 DEF Cells
<1>6. IsFiniteSet(1 .. u) /\ Cardinality(1 .. u) = u
  <2>1. 1 \in Int /\ u \in Int
    BY <1>4
  <2>2. IsFiniteSet(1 .. u) /\ Cardinality(1 .. u) = IF 1 > u THEN 0 ELSE u - 1 + 1
    BY <2>1, FS_Interval, Zenon
  <2> QED BY <1>4, <2>2
<1>7. Cardinality(KeysOf(dram) \X (1 .. u)) = n * u
  BY <1>2, <1>6, FS_Product
<1>8. n * u <= m
  <2>1. Cardinality(KeysOf(dram) \X (1 .. u)) <= m
    BY <1>2, <1>5, FS_Subset
  <2> QED BY <1>7, <2>1
<1> HIDE DEF n, m
<1>9. n <= c
  <2> SUFFICES ASSUME n >= c + 1 PROVE FALSE
    BY <1>2, <1>4
  <2>1. n * u >= (c + 1) * u
    BY <1>2, <1>4
  <2>2. n * u \in Nat /\ (c + 1) * u \in Nat
    BY <1>2, <1>4
  <2> QED BY <1>2, <1>3, <1>4, <1>8, <2>1, <2>2
<1> QED BY <1>2, <1>4, <1>9 DEF n

(* The residents of a node in step fit c; while a block is in DRAM and not *)
(* yet a resident there is room for one more.                              *)
LEMMA ResidentsFit ==
  ASSUME HasPolicy, NodeInv, ArcInStep, NEW u, CapacityInBlocks(u)
  PROVE  /\ Len(arc["t1"]) + Len(arc["t2"]) <= c
         /\ op.phase = "stored" => Len(arc["t1"]) + Len(arc["t2"]) < c
<1> DEFINE n == Cardinality(KeysOf(dram))
           m == Len(arc["t1"]) + Len(arc["t2"])
<1>1. IsFiniteSet(KeysOf(dram)) /\ n \in 0 .. c
  BY DramCount
<1>2. Cardinality(resident) = m
  BY ResidentCount DEF ArcInStep, ArcTracksDram
<1>3. resident = KeysOf(dram) \ (IF op.phase = "stored" THEN {op.key} ELSE {})
  BY DEF NodeInv, PolicyTracksDram
<1>4. c \in Nat
  BY ArcAssumption
<1> SUFFICES m <= c /\ (op.phase = "stored" => m < c)
  OBVIOUS
<1> HIDE DEF m
<1>5. CASE op.phase = "stored"
  <2>1. op.key \in KeysOf(dram)
    BY <1>5, BlocksAssumption DEF NodeInv, CallStillValid, KeysOf
  <2>2. resident = KeysOf(dram) \ {op.key}
    BY <1>3, <1>5
  <2>3. Cardinality(resident) = n - 1
    BY <1>1, <2>1, <2>2, FS_RemoveElement
  <2> HIDE DEF n
  <2> QED BY <1>1, <1>2, <1>4, <2>3
<1>6. CASE op.phase # "stored"
  <2>1. Cardinality(resident) = n
    BY <1>3, <1>6
  <2> HIDE DEF n
  <2> QED BY <1>1, <1>2, <1>4, <1>6, <2>1
<1> QED BY <1>5, <1>6

(* Every step keeps the bounds on L1 and on all keys.                      *)
LEMMA BoundedStep ==
  ASSUME HasPolicy, NodeInv, ArcInStep, NEW u, CapacityInBlocks(u), Bounded(arc),
         [ArcNodeNext]_arcNodeVars
  PROVE  Bounded(arc')
<1>1. ArcGood(arc) /\ CallStillValid
  BY DEF NodeInv, ArcInStep
<1>2. CASE UNCHANGED arc
  BY <1>2
<1>3. ASSUME NEW k \in Key, arc' = ArcOnAccess(arc, k) PROVE Bounded(arc')
  BY <1>1, <1>3, AccessBounded
<1>4. ASSUME NEW k \in Key, arc' = ArcOnRemove(arc, k) PROVE Bounded(arc')
  BY <1>1, <1>4, RemoveBounded
<1>5. CASE PutOverwrite /\ arc' = ArcOnAccess(arc, op.key)
  <2>1. op.key \in Key
    BY <1>1, <1>5 DEF PutOverwrite, CallStillValid
  <2> QED BY <1>3, <1>5, <2>1
<1>6. CASE DirectStore /\ arc' = IF op.old = "dram" THEN ArcOnRemove(arc, op.key) ELSE arc
  <2>1. op.key \in Key
    BY <1>1, <1>6 DEF DirectStore, CallStillValid
  <2> QED BY <1>2, <1>4, <1>6, <2>1
<1>7. CASE arc' = ArcSelect(arc, Excluded)
  <2>1. /\ arc'["t1"] = arc["t1"] /\ arc'["t2"] = arc["t2"]
        /\ arc'["b1"] = arc["b1"] /\ arc'["b2"] = arc["b2"]
    BY <1>1, <1>7 DEF ArcSelect, ArcGood, ArcShape, ArcFields
  <2> QED BY <2>1 DEF Bounded
<1>8. CASE arc' = ArcRelease(arc)
  <2>1. \A l \in Lists : arc'[l] = arc[l]
    BY <1>1, <1>8, ReleaseIs
  <2> QED BY <2>1 DEF Bounded, Lists
<1>9. CASE DemoteCommit /\ arc' = ArcCommit(arc, reserved)
  <2>1. reserved \in Key /\ arc.reserved = reserved
    BY <1>9 DEF DemoteCommit, CallStillValid, ArcInStep, ArcTracksDram, NodeInv, TypeOK
  <2> QED BY <1>1, <1>9, <2>1, CommitBounded
<1>10. CASE PolicyInsert /\ arc' = ArcOnInsert(arc, op.key)
  <2>1. op.key \in Key /\ op.phase = "stored"
    BY <1>1, <1>10 DEF PolicyInsert, CallStillValid
  <2>2. CASE op.key \in KeysIn(arc, Lists)
    BY <1>1, <1>10, <2>2, HitBounded DEF ArcOnInsert
  <2>3. CASE op.key \notin KeysIn(arc, Lists)
    <3>1. Len(arc["t1"]) + Len(arc["t2"]) < c
      BY <2>1, ResidentsFit
    <3> QED BY <1>1, <1>10, <2>1, <2>3, <3>1, InsertBounded
  <2> QED BY <2>2, <2>3
<1>11. CASE PublishFails /\ arc' = ArcOnRemove(arc, op.key)
  <2>1. op.key \in Key
    BY <1>1, <1>11 DEF PublishFails, CallStillValid
  <2> QED BY <1>4, <1>11, <2>1
<1>12. CASE arc' = ArcEmpty
  BY <1>12, EmptyBounded
<1> QED
  BY <1>2, <1>3, <1>5, <1>6, <1>7, <1>8, <1>9, <1>10, <1>11, <1>12
  DEF ArcNodeNext, arcNodeVars

(* The comment at GhostToTrimForInsert, for every c: when DRAM has room    *)
(* for at most c blocks, whatever their sizes, |T1| + |T2| <= c, |L1| <= c *)
(* and ARC remembers at most 2c keys, at every step of every call, through *)
(* failures and crashes.  arc_small_blocks shows that the hypothesis is    *)
(* needed.                                                                 *)
THEOREM GhostsStayBounded ==
  ASSUME HasPolicy, NEW u, CapacityInBlocks(u)
  PROVE  ArcNodeSpec => []GhostsBounded
<1>1. ArcNodeInit => Bounded(arc)
  BY EmptyBounded DEF ArcNodeInit, ArcInit
<1>2. NodeInv /\ ArcInStep /\ Bounded(arc) /\ [ArcNodeNext]_arcNodeVars => Bounded(arc)'
  BY BoundedStep
<1>3. NodeInv /\ ArcInStep /\ Bounded(arc) => GhostsBounded
  <2> SUFFICES ASSUME NodeInv, ArcInStep, Bounded(arc) PROVE GhostsBounded
    OBVIOUS
  <2>1. Len(arc["t1"]) + Len(arc["t2"]) <= c
    BY ResidentsFit
  <2> QED BY <2>1 DEF GhostsBounded, TotalBounded, KnownKeys, Size, Bounded, Within
<1>4. ArcNodeSpec => [](NodeInv /\ ArcInStep)
  BY InStepInvariant
<1> QED BY <1>1, <1>2, <1>3, <1>4, PTL DEF ArcNodeSpec
=============================================================================
