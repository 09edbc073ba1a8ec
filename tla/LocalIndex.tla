----------------------------- MODULE LocalIndex -----------------------------
(***************************************************************************)
(* The node's index: for each key the tier of its primary copy.  Handles   *)
(* are opaque tokens that no path of the node reads back; they are left    *)
(* out.                                                                    *)
(***************************************************************************)
EXTENDS Keys

VARIABLE index

Tier == {"absent", "dram", "ssd"}

EmptyIndex == [k \in Key |-> "absent"]

(* InsertIfAbsent for every key a tier's VisitEntries reports.             *)
InsertIfAbsent(table, keys, tier) ==
  [k \in Key |-> IF table[k] = "absent" /\ k \in keys THEN tier ELSE table[k]]

ValidateRelocate(k, expected) == index[k] # "absent" /\ index[k] = expected

(* Upsert and RelocateExisting set the tier of one key.  RelocateExisting  *)
(* terminates the process unless ValidateRelocate holds.                   *)
SetTier(k, tier) == index' = [index EXCEPT ![k] = tier]
=============================================================================
