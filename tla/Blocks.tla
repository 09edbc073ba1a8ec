------------------------------- MODULE Blocks -------------------------------
(***************************************************************************)
(* Blocks, the stores that hold them, and the 64-bit byte counters.        *)
(*                                                                         *)
(* A block is a record: `data` stands for its payload bytes, `size` is     *)
(* size_bytes(), and `valid` says whether its metadata agrees with the key *)
(* it is stored under, which is all that ValidateMetadata looks at.        *)
(***************************************************************************)
EXTENDS Keys, Integers, FiniteSets

CONSTANTS
  Block,        \* blocks a client may put
  NoBlock,      \* absence of a block
  HeaderBytes,  \* block_codec::kHeaderSize
  MaxU64        \* largest value of a uint64_t counter

(* A BlockKey has a fixed width, so there are finitely many, and a record  *)
(* with its header has a size_t length.                                    *)
ASSUME BlocksAssumption ==
  /\ IsFiniteSet(Key)
  /\ NoBlock \notin Block
  /\ HeaderBytes \in Nat
  /\ MaxU64 \in Nat
  /\ \A b \in Block : /\ b.size \in Nat /\ b.size + HeaderBytes <= MaxU64
                      /\ b.valid \in BOOLEAN

(* uint64_t += and -= wrap around.                                         *)
U64Add(a, b) == IF a + b <= MaxU64 THEN a + b ELSE a + b - (MaxU64 + 1)
U64Sub(a, b) == IF b <= a THEN a - b ELSE a - b + (MaxU64 + 1)

(* A tier's key -> block table, as a total function.                       *)
Store == [Key -> Block \cup {NoBlock}]
EmptyStore == [k \in Key |-> NoBlock]
KeysOf(store) == {k \in Key : store[k] # NoBlock}

(* The byte cells a store occupies, `overhead` cells per entry on top of   *)
(* the payload: its cardinality is the exact footprint of the store.       *)
Cells(store, overhead) ==
  UNION {{k} \X (1 .. (store[k].size + overhead)) : k \in KeysOf(store)}

(* TierStats, reduced to the two occupancy counters.                       *)
ZeroStats == [blocks |-> 0, bytes |-> 0]
StatsOf(store, overhead) ==
  [blocks |-> Cardinality(KeysOf(store)),
   bytes  |-> Cardinality(Cells(store, overhead))]
=============================================================================
