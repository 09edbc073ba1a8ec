----------------------------- MODULE ArcEviction ----------------------------
(***************************************************************************)
(* The ARC policy: T1, T2 resident, B1, B2 ghosts, most recent first.      *)
(* pos_ is derived from the lists.  p_ is a double: `p` counts PUnit-ths   *)
(* of a block, exact as long as |B1| and |B2| divide PUnit when a ghost is *)
(* hit.  Operators map a policy state to the next one.                     *)
(***************************************************************************)
EXTENDS RecencyList

CONSTANTS
  c,      \* c_, the capacity in blocks
  PUnit   \* resolution of p

ASSUME ArcAssumption == c \in Nat \ {0} /\ PUnit \in Nat \ {0}

VARIABLE arc

ArcEmpty == [t1 |-> <<>>, t2 |-> <<>>, b1 |-> <<>>, b2 |-> <<>>, p |-> 0,
             lastHitInB2 |-> FALSE, reserved |-> NoKey, source |-> "none"]

Lists == {"t1", "t2", "b1", "b2"}

KeysIn(a, lists) == UNION {Range(a[l]) : l \in lists}
ArcResident(a) == KeysIn(a, {"t1", "t2"})

(* The list of a known key (pos_).                                         *)
ListOf(a, k) == CHOOSE l \in Lists : k \in Range(a[l])

Relink(a, k, dst) ==
  LET taken == [a EXCEPT ![ListOf(a, k)] = Without(@, k)]
  IN  [taken EXCEPT ![dst] = PushFront(@, k)]

Ratio(num, den) == Max({PUnit, (PUnit * Len(num)) \div Len(den)})

AdaptUp(a) == [a EXCEPT !.p = Min({PUnit * c, @ + Ratio(a.b2, a.b1)})]
AdaptDown(a) == [a EXCEPT !.p = Max({0, @ - Ratio(a.b1, a.b2)})]

(* Cases I to III, shared by OnAccess and OnInsert.                        *)
ArcHit(a, k) ==
  CASE ListOf(a, k) \in {"t1", "t2"} -> Relink(a, k, "t2")
    [] ListOf(a, k) = "b1" -> Relink([AdaptUp(a) EXCEPT !.lastHitInB2 = FALSE], k, "t2")
    [] ListOf(a, k) = "b2" -> Relink([AdaptDown(a) EXCEPT !.lastHitInB2 = TRUE], k, "t2")

(* Mutant: a use moves the reserved victim.                                *)
ArcOnAccessAny(a, k) ==
  IF k \in KeysIn(a, Lists) THEN ArcHit(a, k) ELSE [a EXCEPT !.lastHitInB2 = FALSE]

ArcOnAccess(a, k) ==
  IF k \notin KeysIn(a, Lists) THEN [a EXCEPT !.lastHitInB2 = FALSE]
  ELSE IF k = a.reserved THEN a ELSE ArcHit(a, k)

(* Mutant: L1 is trimmed one key late.                                     *)
GhostToTrimLate(a) ==
  IF Len(a.t1) + Len(a.b1) > c /\ Len(a.t1) < c THEN "b1" ELSE "none"

(* Mutant: textbook ARC, which also evicts when T1 alone fills the cache.  *)
GhostToTrimResident(a) ==
  LET l1 == Len(a.t1) + Len(a.b1)
      total == l1 + Len(a.t2) + Len(a.b2)
  IN IF l1 = c THEN (IF Len(a.t1) < c THEN "b1" ELSE "t1")
     ELSE IF l1 < c /\ total >= 2 * c THEN "b2" ELSE "none"

GhostToTrimForInsert(a) ==
  LET l1 == Len(a.t1) + Len(a.b1)
      total == l1 + Len(a.t2) + Len(a.b2)
  IN IF l1 = c /\ Len(a.t1) < c THEN "b1"
     ELSE IF l1 < c /\ total >= 2 * c THEN "b2" ELSE "none"

EraseLru(a, l) ==
  IF l = "none" \/ a[l] = <<>> THEN a ELSE [a EXCEPT ![l] = PopBack(@)]

(* OnInsert and OnPromotionCommitted, when they succeed.                   *)
ArcOnInsert(a, k) ==
  IF k \in KeysIn(a, Lists) THEN ArcHit(a, k)
  ELSE EraseLru([a EXCEPT !.t1 = PushFront(@, k), !.lastHitInB2 = FALSE],
                GhostToTrimForInsert(a))

(* Mutant: a removed key is looked for in T1 only.                         *)
ArcOnRemoveT1(a, k) == [a EXCEPT !.t1 = Without(@, k)]

ArcOnRemove(a, k) ==
  [l \in DOMAIN a |->
     IF l \in Lists THEN Without(a[l], k)
     ELSE IF a.reserved = k /\ l = "reserved" THEN NoKey
     ELSE IF a.reserved = k /\ l = "source" THEN "none" ELSE a[l]]

(* REPLACE: T1 gives the victim when it is over its target p.              *)
UseT1(a) ==
  /\ a.t1 # <<>>
  /\ \/ a.t2 = <<>>
     \/ PUnit * Len(a.t1) > a.p
     \/ a.lastHitInB2 /\ PUnit * Len(a.t1) = a.p

(* Mutant: only the list REPLACE prefers is searched.                      *)
ArcVictimOneList(a, excluded) ==
  LET l == IF UseT1(a) THEN "t1" ELSE "t2"
  IN [key |-> Oldest(a[l], excluded), source |-> l]

ArcVictim(a, excluded) ==
  LET first == IF UseT1(a) THEN "t1" ELSE "t2"
      other == IF UseT1(a) THEN "t2" ELSE "t1"
  IN IF Oldest(a[first], excluded) # NoKey
     THEN [key |-> Oldest(a[first], excluded), source |-> first]
     ELSE [key |-> Oldest(a[other], excluded), source |-> other]

ArcSelect(a, excluded) ==
  [a EXCEPT !.reserved = ArcVictim(a, excluded).key,
            !.source = ArcVictim(a, excluded).source]

ArcRelease(a) == [a EXCEPT !.reserved = NoKey, !.source = "none"]

ArcMayCommit(a, k) == a.reserved = k /\ k \in Range(a[a.source])

ArcCommit(a, k) ==
  ArcRelease([Relink(a, k, IF a.source = "t1" THEN "b1" ELSE "b2")
                EXCEPT !.lastHitInB2 = FALSE])

-----------------------------------------------------------------------------
(* The policy under any legal sequence of calls.                           *)
ArcInit == arc = ArcEmpty

ArcNext ==
  \/ \E k \in Key : arc' = ArcOnAccess(arc, k)
  \/ \E k \in Key \ {arc.reserved} : arc' = ArcOnInsert(arc, k)
  \/ \E k \in Key : arc' = ArcOnRemove(arc, k)
  \/ \E excluded \in Key \cup {NoKey} :
       /\ arc.reserved = NoKey /\ ArcVictim(arc, excluded).key # NoKey
       /\ arc' = ArcSelect(arc, excluded)
  \/ \E k \in Key : arc.reserved = k /\ arc' = ArcCommit(arc, k)
  \/ \E k \in Key : arc.reserved = k /\ arc' = ArcRelease(arc)

ArcSpec == ArcInit /\ [][ArcNext]_arc

-----------------------------------------------------------------------------
ArcPolicy == INSTANCE EvictionPolicy WITH
  resident <- ArcResident(arc), reserved <- arc.reserved

(* ArcEviction keeps the contract of eviction_policy.h, ghosts and         *)
(* adaptation notwithstanding.                                             *)
ArcImplementsPolicy == ArcPolicy!PolicySpec

(* SelectVictim finds a resident that is not excluded whenever there is    *)
(* one, whichever list the adaptation of p prefers: a Put that overwrites  *)
(* the last key of a list is not refused for want of a victim.             *)
ArcVictimFound ==
  \A excluded \in Key \cup {NoKey} :
    LET v == ArcVictim(arc, excluded).key
    IN IF ArcResident(arc) \subseteq {excluded} THEN v = NoKey
       ELSE v \in ArcResident(arc) \ {excluded}

(* A key is in one list at most and once, p stays in [0, c], and the       *)
(* reserved victim stays in the list it was chosen from, whatever is       *)
(* called before Commit or Cancel: CommitVictim never terminates.          *)
ArcConsistent ==
  /\ \A l, m \in Lists : \A i \in DOMAIN arc[l], j \in DOMAIN arc[m] :
       arc[l][i] = arc[m][j] => l = m /\ i = j
  /\ arc.p \in 0 .. PUnit * c
  /\ arc.reserved # NoKey => ArcMayCommit(arc, arc.reserved) /\ arc.source \in {"t1", "t2"}
=============================================================================
