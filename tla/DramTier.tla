------------------------------ MODULE DramTier ------------------------------
(***************************************************************************)
(* The in-memory tier: the table store_ and its occupancy counters.  Open  *)
(* and Close are the no-ops of the Tier base class, so the contents live   *)
(* as long as the process.  The tier itself enforces no capacity.          *)
(***************************************************************************)
EXTENDS Blocks

VARIABLES
  dram,       \* store_
  dramStats   \* stats_.num_blocks, stats_.used_bytes

dramVars == <<dram, dramStats>>

DramInit == dram = EmptyStore /\ dramStats = ZeroStats

(* Mutant: the table keeps the serialized record, header included.         *)
DramPutRecord(k, b) ==
  /\ dram' = [dram EXCEPT ![k] = [b EXCEPT !.size = @ + HeaderBytes]]
  /\ dramStats' = [blocks |-> dramStats.blocks + (IF dram[k] = NoBlock THEN 1 ELSE 0),
                   bytes  |-> U64Add(dramStats.bytes, b.size)]

(* used_bytes after an overwrite moves by the difference of the sizes.     *)
DramPut(k, b) ==
  /\ dram' = [dram EXCEPT ![k] = b]
  /\ dramStats' =
       IF dram[k] = NoBlock
       THEN [blocks |-> dramStats.blocks + 1,
             bytes  |-> U64Add(dramStats.bytes, b.size)]
       ELSE [dramStats EXCEPT !.bytes =
               IF b.size >= dram[k].size
               THEN U64Add(@, b.size - dram[k].size)
               ELSE U64Sub(@, dram[k].size - b.size)]

(* EraseExisting and Evict.  On an absent key EraseExisting terminates the *)
(* process, Evict returns NotFound; neither changes the table.             *)
DramErase(k) ==
  IF dram[k] = NoBlock THEN UNCHANGED dramVars
  ELSE /\ dram' = [dram EXCEPT ![k] = NoBlock]
       /\ dramStats' = [blocks |-> dramStats.blocks - 1,
                        bytes  |-> U64Sub(dramStats.bytes, dram[k].size)]

(* The process dies.                                                       *)
DramLost == dram' = EmptyStore /\ dramStats' = ZeroStats
=============================================================================
