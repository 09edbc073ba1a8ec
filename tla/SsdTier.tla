------------------------------- MODULE SsdTier ------------------------------
(***************************************************************************)
(* The LevelDB tier.  `ssd` is the persistent database: it survives Close  *)
(* and a crash of the process.  A LevelDB write is atomic: a Put that      *)
(* returns an error leaves no record (assumption on the external library). *)
(***************************************************************************)
EXTENDS Blocks

VARIABLES
  ssd,        \* the records of the database
  ssdOpen,    \* db_ != nullptr
  ssdStats    \* stats_.num_blocks, stats_.used_bytes

ssdVars == <<ssd, ssdOpen, ssdStats>>

SsdInit == ssd = EmptyStore /\ ssdOpen = FALSE /\ ssdStats = ZeroStats

(* Failures the environment injects: LevelDB I/O errors, bad_alloc.        *)
Faults == {"IoError", "OutOfCapacity"}

(* The opening scan decodes every record and rebuilds the counters.        *)
SsdScanErrors ==
  Faults \cup
  (IF \/ \E k \in KeysOf(ssd) : ~ssd[k].valid
      \/ Cardinality(Cells(ssd, HeaderBytes)) > MaxU64
   THEN {"Corruption"} ELSE {})

SsdScanned ==
  /\ \A k \in KeysOf(ssd) : ssd[k].valid
  /\ Cardinality(Cells(ssd, HeaderBytes)) <= MaxU64
  /\ ssdStats' = StatsOf(ssd, HeaderBytes)
  /\ UNCHANGED ssd

SsdOpened ==
  IF ssdOpen THEN UNCHANGED ssdVars ELSE SsdScanned /\ ssdOpen' = TRUE

SsdClose == ssdOpen' = FALSE /\ UNCHANGED <<ssd, ssdStats>>

(* What Put(k, b) may return instead of Ok.                                *)
SsdPutErrors(b) ==
  IF ~ssdOpen THEN {"Unavailable"}
  ELSE IF ~b.valid THEN {"InvalidArgument"}
  ELSE Faults

(* Mutant: an overwrite is counted as a new record.                        *)
SsdWriteNoProbe(k, b) ==
  /\ ssd' = [ssd EXCEPT ![k] = b]
  /\ ssdStats' = [blocks |-> ssdStats.blocks + 1,
                  bytes  |-> U64Add(ssdStats.bytes, b.size + HeaderBytes)]
  /\ UNCHANGED ssdOpen

(* The LevelDB write and the counters, once the old record is read.        *)
SsdWrite(k, b) ==
  /\ ssd' = [ssd EXCEPT ![k] = b]
  /\ ssdStats' =
       IF ssd[k] = NoBlock
       THEN [blocks |-> ssdStats.blocks + 1,
             bytes  |-> U64Add(ssdStats.bytes, b.size + HeaderBytes)]
       ELSE [ssdStats EXCEPT !.bytes =
               U64Add(U64Sub(@, ssd[k].size + HeaderBytes), b.size + HeaderBytes)]
  /\ UNCHANGED ssdOpen

(* Mutant: metadata is not validated.                                      *)
SsdPutUnchecked(k, b) == ssdOpen /\ SsdWrite(k, b)

SsdPut(k, b) == ssdOpen /\ b.valid /\ SsdWrite(k, b)

(* What Get(k, dst) may return instead of Ok.                              *)
SsdGetErrors(k, capacity) ==
  IF ~ssdOpen THEN {"Unavailable"}
  ELSE Faults \cup
       (IF ssd[k] = NoBlock THEN {"NotFound"}
        ELSE IF ~ssd[k].valid THEN {"Corruption"}
        ELSE IF ssd[k].size > capacity THEN {"OutOfCapacity"} ELSE {})

SsdGetOk(k, capacity) ==
  ssdOpen /\ ssd[k] # NoBlock /\ ssd[k].valid /\ ssd[k].size <= capacity

(* Evict: part of the tier's interface; StorageNode never calls it.        *)
SsdEvict(k) ==
  /\ ssdOpen
  /\ ssd[k] # NoBlock
  /\ ssd' = [ssd EXCEPT ![k] = NoBlock]
  /\ ssdStats' = [blocks |-> IF ssdStats.blocks > 0 THEN ssdStats.blocks - 1 ELSE 0,
                  bytes  |-> U64Sub(ssdStats.bytes, ssd[k].size + HeaderBytes)]
  /\ UNCHANGED ssdOpen

(* The process dies; a new one has a closed tier with zero counters.       *)
SsdLost == ssdOpen' = FALSE /\ ssdStats' = ZeroStats /\ UNCHANGED ssd

-----------------------------------------------------------------------------
(* The tier on its own: every operation of its interface in any order,     *)
(* with restarts.                                                          *)
SsdNext ==
  \/ SsdOpened \/ SsdClose \/ SsdLost
  \/ \E k \in Key : SsdEvict(k) \/ \E b \in Block : SsdPut(k, b)

(* While the SSD is open its counters are the exact number and size of the *)
(* records, over overwrites, evictions, demotions, restarts and failed     *)
(* opens: the subtractions in Put and Evict never underflow.               *)
SsdCountersExact == ssdOpen => ssdStats = StatsOf(ssd, HeaderBytes)

(* Every record on SSD passes ValidateMetadata, although DRAM accepts any  *)
(* metadata: the scan of SsdTier::Open never refuses the node's own data.  *)
RecordsDecode == \A k \in KeysOf(ssd) : ssd[k].valid
=============================================================================
