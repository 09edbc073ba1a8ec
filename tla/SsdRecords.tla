----------------------------- MODULE SsdRecords -----------------------------
(***************************************************************************)
(* The SSD tier over the bytes LevelDB holds: texts of keys mapped to      *)
(* blobs.  The database that Open finds may be damaged, or not be the      *)
(* tier's own.  SsdTier is its abstraction: what the bytes decode to.      *)
(***************************************************************************)
EXTENDS BlockCodec

CONSTANTS
  Keys,    \* BlockKeys of clients
  Blocks,  \* Blocks of clients
  Found    \* databases that may be found at db_path_

VARIABLES
  db,      \* the LevelDB database
  isOpen,  \* db_ != nullptr
  stats    \* stats_.num_blocks, stats_.used_bytes

recordVars == <<db, isOpen, stats>>

U64Values == MaxUnsigned(8) + 1

(* A database is finite and holds texts and blobs of any bytes; character  *)
(* codes are 0 to 15 for the digits and 16 for the colon.                  *)
IsDatabase(d) ==
  IsFiniteSet(DOMAIN d) /\ DOMAIN d \subseteq Seq(Nat) /\ d \in [DOMAIN d -> Seq(Byte)]

RecordsInit == db \in Found /\ isOpen = FALSE /\ stats = [blocks |-> 0, bytes |-> 0]

ValidMetadata(key, metadata) ==
  /\ metadata.model_fingerprint = key.model_fingerprint
  /\ metadata.num_tokens \in {0, key.prefix_len}

DecodesAs(key, blob) ==
  Deserialize(blob) # NoBlock /\ ValidMetadata(key, Deserialize(blob).metadata)

Footprint(d) ==
  [blocks |-> Cardinality(DOMAIN d),
   bytes  |-> Cardinality(UNION {{t} \X (1 .. Len(d[t])) : t \in DOMAIN d})]

(* The scan of Open accepts the database.                                  *)
ScanAccepts(d) ==
  /\ \A t \in DOMAIN d : KeyFromString(t) # NoKey /\ DecodesAs(KeyFromString(t), d[t])
  /\ Footprint(d).bytes <= MaxUnsigned(8)

Open ==
  /\ ~isOpen
  /\ ScanAccepts(db)
  /\ isOpen' = TRUE /\ stats' = Footprint(db)
  /\ UNCHANGED db

(* A refused or failed Open, and Open of an open tier, change nothing.     *)
Close == isOpen /\ isOpen' = FALSE /\ UNCHANGED <<db, stats>>

(* The process dies.                                                       *)
Lost == isOpen' = FALSE /\ stats' = [blocks |-> 0, bytes |-> 0] /\ UNCHANGED db

(* Mutant: the size of an overwritten record is not subtracted.            *)
PutRecordOnTop(key, block) ==
  /\ isOpen
  /\ ValidMetadata(key, block.metadata)
  /\ LET t == KeyToString(key)
         blob == SerializeBlock(block)
     IN  /\ db' = [u \in DOMAIN db \cup {t} |-> IF u = t THEN blob ELSE db[u]]
         /\ stats' = [blocks |-> IF t \in DOMAIN db THEN stats.blocks ELSE stats.blocks + 1,
                      bytes  |-> (stats.bytes + Len(blob)) % U64Values]
  /\ UNCHANGED isOpen

PutRecord(key, block) ==
  /\ isOpen
  /\ ValidMetadata(key, block.metadata)
  /\ LET t == KeyToString(key)
         blob == SerializeBlock(block)
         old == IF t \in DOMAIN db THEN Len(db[t]) ELSE 0
     IN  /\ db' = [u \in DOMAIN db \cup {t} |-> IF u = t THEN blob ELSE db[u]]
         /\ stats' = [blocks |-> IF t \in DOMAIN db THEN stats.blocks ELSE stats.blocks + 1,
                      bytes  |-> (stats.bytes + U64Values - old + Len(blob)) % U64Values]
  /\ UNCHANGED isOpen

Evict(key) ==
  LET t == KeyToString(key)
  IN  /\ isOpen
      /\ t \in DOMAIN db
      /\ db' = [u \in DOMAIN db \ {t} |-> db[u]]
      /\ stats' = [blocks |-> IF stats.blocks > 0 THEN stats.blocks - 1 ELSE 0,
                   bytes  |-> (stats.bytes + U64Values - Len(db[t])) % U64Values]
      /\ UNCHANGED isOpen

RecordsNext ==
  \/ Open \/ Close \/ Lost
  \/ \E k \in Keys : Evict(k) \/ \E b \in Blocks : PutRecord(k, b)

RecordsSpec == RecordsInit /\ [][RecordsNext]_recordVars

-----------------------------------------------------------------------------
(* A blob has a size_t length.  Keys and Blocks are the clients' of every  *)
(* process that used the database: what an accepted one holds is of them.  *)
ASSUME RecordsAssumption ==
  /\ Keys \subseteq BlockKey /\ Blocks \subseteq Block
  /\ \A b \in Blocks : kHeaderSize + Len(b.data) <= MaxUnsigned(8)
  /\ NoBlock \notin [data : Block, size : Nat, valid : BOOLEAN]
  /\ \A d \in Found :
       /\ IsDatabase(d)
       /\ ScanAccepts(d) => \A t \in DOMAIN d : KeyFromString(t) \in Keys /\ Deserialize(d[t]) \in Blocks

(* The total length of the blobs fits used_bytes.                          *)
Fits(d) == Footprint(d).bytes <= MaxUnsigned(8)

(* Records that Put writes: for a key, a block and metadata that agree.    *)
Written(d) ==
  \A t \in DOMAIN d : \E k \in Keys, b \in Blocks :
    t = KeyToString(k) /\ d[t] = SerializeBlock(b) /\ ValidMetadata(k, b.metadata)

(* The codecs are strict: a tier that opened holds only records that Put   *)
(* can have written, so no record is a second one of its key under another *)
(* text, and no blob of another length, magic, version, serde or metadata  *)
(* is served (other changed bytes are left to LevelDB's checksums).        *)
OpenMeansWritten == isOpen => Written(db)

(* The codecs are complete: after any Puts, Evicts and crashes the scan of *)
(* Open accepts the tier's own records, short of 2^64 bytes of them.       *)
OwnRecordsReopen == Written(db) /\ Fits(db) => ScanAccepts(db)

(* The counters are the number and total length of the LevelDB values,     *)
(* short of 2^64 bytes of them.                                            *)
CountersMatchDatabase == isOpen /\ Fits(db) => stats = Footprint(db)

-----------------------------------------------------------------------------
(* What Get and Probe make of the record of a key.                         *)
BlockOf(key, block) ==
  [data |-> block, size |-> Len(block.data), valid |-> ValidMetadata(key, block.metadata)]

Decoded ==
  [k \in Keys |->
     LET t == KeyToString(k)
         blocks == {Deserialize(db[u]) : u \in DOMAIN db \cap {t}} \ {NoBlock}
     IN  IF blocks = {} THEN NoBlock ELSE BlockOf(k, CHOOSE b \in blocks : TRUE)]

Tier == INSTANCE SsdTier WITH
  Key <- Keys, Block <- {BlockOf(k, b) : k \in Keys, b \in Blocks},
  HeaderBytes <- kHeaderSize, MaxU64 <- MaxUnsigned(8),
  ssd <- Decoded, ssdOpen <- isOpen, ssdStats <- stats

(* Whatever database it finds, every step of the tier on bytes is a step   *)
(* of SsdTier on blocks: a record read back is the block that was put,     *)
(* every metadata field included, and the counters move the same.          *)
StepsOfSsdTier == [][Tier!SsdNext]_Tier!ssdVars
=============================================================================
