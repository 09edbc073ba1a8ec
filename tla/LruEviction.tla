----------------------------- MODULE LruEviction ----------------------------
(***************************************************************************)
(* The least-recently-used policy.  pos_ is derived from order_, most      *)
(* recent first.  Operators map a policy state to the next one.            *)
(***************************************************************************)
EXTENDS RecencyList

VARIABLE lru   \* [order |-> order_, reserved |-> reserved_]

LruEmpty == [order |-> <<>>, reserved |-> NoKey]

LruKnows(s, k) == k \in Range(s.order)

(* Mutant: a used key goes to the wrong end.                               *)
MoveToBack(s, k) == [s EXCEPT !.order = Append(Without(@, k), k)]

MoveToFront(s, k) == [s EXCEPT !.order = PushFront(Without(@, k), k)]

LruOnAccess(s, k) == IF LruKnows(s, k) /\ k # s.reserved THEN MoveToFront(s, k) ELSE s

(* OnInsert and OnPromotionCommitted, when they succeed.                   *)
LruOnInsert(s, k) == MoveToFront(s, k)

(* Mutant: the reservation outlives the key.                               *)
LruOnRemoveOnly(s, k) == [s EXCEPT !.order = Without(@, k)]

LruOnRemove(s, k) ==
  [order |-> Without(s.order, k),
   reserved |-> IF s.reserved = k THEN NoKey ELSE s.reserved]

(* Mutant: victims are taken from the front.                               *)
LruVictimFront(s, excluded) ==
  LET others == {i \in DOMAIN s.order : s.order[i] # excluded}
  IN  IF others = {} THEN NoKey ELSE s.order[Min(others)]

LruVictim(s, excluded) == Oldest(s.order, excluded)

LruMayCommit(s, k) == s.reserved = k /\ LruKnows(s, k)

LruCommit(s, k) == [order |-> Without(s.order, k), reserved |-> NoKey]

-----------------------------------------------------------------------------
(* `newer` is a history variable: <<a, b>> is in it when a was used after  *)
(* b.  It is what the order is meant to represent.                         *)
VARIABLE newer

lruVars == <<lru, newer>>

LruInit == lru = LruEmpty /\ newer = {}

UsedNow(k) ==
  newer' = {e \in newer : e[1] # k} \cup ({k} \X (Range(lru'.order) \ {k}))

Forget(k) == newer' = {e \in newer : k \notin {e[1], e[2]}}

Access(k) ==
  /\ lru' = LruOnAccess(lru, k)
  /\ IF LruKnows(lru, k) /\ k # lru.reserved THEN UsedNow(k) ELSE UNCHANGED newer

Insert(k) == k # lru.reserved /\ lru' = LruOnInsert(lru, k) /\ UsedNow(k)

RemoveKey(k) == lru' = LruOnRemove(lru, k) /\ Forget(k)

Select(excluded) ==
  /\ lru.reserved = NoKey
  /\ LruVictim(lru, excluded) # NoKey
  /\ lru' = [lru EXCEPT !.reserved = LruVictim(lru, excluded)]
  /\ UNCHANGED newer

Commit(k) == LruMayCommit(lru, k) /\ lru' = LruCommit(lru, k) /\ Forget(k)

Cancel(k) == lru.reserved = k /\ lru' = [lru EXCEPT !.reserved = NoKey] /\ UNCHANGED newer

LruNext ==
  \/ \E k \in Key : Access(k) \/ Insert(k) \/ RemoveKey(k) \/ Commit(k) \/ Cancel(k)
  \/ \E excluded \in Key \cup {NoKey} : Select(excluded)

LruSpec == LruInit /\ [][LruNext]_lruVars

-----------------------------------------------------------------------------
LruPolicy == INSTANCE EvictionPolicy WITH
  resident <- Range(lru.order), reserved <- lru.reserved

(* LruEviction keeps the contract of eviction_policy.h: one reservation at *)
(* a time, the victim resident until CommitVictim, Cancel without effect   *)
(* on residency.                                                           *)
LruImplementsPolicy == LruPolicy!PolicySpec

(* order_ lists every resident once, sorted by last use: pos_ and order_   *)
(* agree, and neither a reservation nor its cancellation reorders it.      *)
OrderIsRecency ==
  \A i, j \in DOMAIN lru.order :
    i < j => lru.order[i] # lru.order[j] /\ <<lru.order[i], lru.order[j]>> \in newer

(* SelectVictim reserves the resident that was not used for the longest    *)
(* time, the excluded key aside.                                           *)
VictimIsLeastRecent ==
  [][ \A excluded \in Key \cup {NoKey} : Select(excluded) =>
        \A k \in Range(lru.order) \ {excluded, lru'.reserved} :
          <<k, lru'.reserved>> \in newer ]_lruVars
=============================================================================
