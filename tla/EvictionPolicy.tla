--------------------------- MODULE EvictionPolicy ---------------------------
(***************************************************************************)
(* What StorageNode may assume of any EvictionPolicy: which keys it counts *)
(* as resident in DRAM, and the two-phase choice of a victim.  The order   *)
(* in which an implementation picks victims is left open; LruEviction and  *)
(* ArcEviction are shown to implement this module.                         *)
(***************************************************************************)
EXTENDS Keys

VARIABLES
  resident,   \* keys with resident bookkeeping
  reserved    \* the selected victim, NoKey when there is none

policyVars == <<resident, reserved>>

PolicyInit == resident = {} /\ reserved = NoKey

(* A use of a resident key changes no residency.  A use of a key that is   *)
(* not resident may be ignored or may turn it into a resident (ARC does so *)
(* for a ghost): the caller must avoid it.                                 *)
OnAccess(k) ==
  /\ resident' \in IF k \in resident THEN {resident} ELSE {resident, resident \cup {k}}
  /\ UNCHANGED reserved

(* Insertion and promotion commit.  The reserved victim is refused.        *)
OnInsert(k) ==
  /\ k # reserved
  /\ resident' = resident \cup {k}
  /\ UNCHANGED reserved

(* Explicit removal; drops the reservation of the removed key.             *)
OnRemove(k) ==
  /\ resident' = resident \ {k}
  /\ reserved' = IF reserved = k THEN NoKey ELSE reserved

SelectVictim(excluded) ==
  /\ reserved = NoKey
  /\ reserved' \in resident \ {excluded}
  /\ UNCHANGED resident

ValidateVictimCommit(k) == reserved = k /\ k \in resident

(* Terminates the process unless ValidateVictimCommit holds.               *)
CommitVictim(k) ==
  /\ resident' = resident \ {k}
  /\ reserved' = NoKey

CancelVictim(k) ==
  /\ reserved = k
  /\ reserved' = NoKey
  /\ UNCHANGED resident

PolicyNext ==
  \/ \E k \in Key : OnAccess(k) \/ OnInsert(k) \/ OnRemove(k)
  \/ \E k \in Key : (ValidateVictimCommit(k) /\ CommitVictim(k)) \/ CancelVictim(k)
  \/ \E excluded \in Key \cup {NoKey} : SelectVictim(excluded)

PolicySpec == PolicyInit /\ [][PolicyNext]_policyVars
=============================================================================
