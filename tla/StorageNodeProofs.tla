-------------------------- MODULE StorageNodeProofs -------------------------
(***************************************************************************)
(* NodeInv is an inductive invariant of StorageNode, for every set of      *)
(* keys and blocks, every capacity and every configuration of tiers and    *)
(* policy.  First what one update of a store does to its exact occupancy,  *)
(* and what the wrapping counters of SsdTier make of it.                   *)
(***************************************************************************)
EXTENDS StorageNode, FiniteSetTheorems, TLAPS

-----------------------------------------------------------------------------
(* Stores.                                                                 *)

(* The cells of a store, without UNION.                                    *)
LEMMA CellsMember ==
  ASSUME NEW store \in Store, NEW h \in Nat
  PROVE  Cells(store, h) =
           {e \in Key \X Nat : /\ store[e[1]] # NoBlock
                               /\ e[2] \in 1 .. (store[e[1]].size + h)}
<1>1. \A k \in KeysOf(store) : k \in Key /\ store[k] \in Block /\ store[k].size + h \in Nat
  BY BlocksAssumption DEF KeysOf, Store
<1>2. ASSUME NEW e \in Cells(store, h)
      PROVE  /\ e \in Key \X Nat
             /\ store[e[1]] # NoBlock
             /\ e[2] \in 1 .. (store[e[1]].size + h)
  <2>1. PICK k \in KeysOf(store) : e \in {k} \X (1 .. (store[k].size + h))
    BY DEF Cells
  <2>2. e[1] = k /\ e[2] \in 1 .. (store[k].size + h) /\ e = <<e[1], e[2]>>
    BY <2>1
  <2> QED BY <2>2, <1>1 DEF KeysOf
<1>3. ASSUME NEW e \in Key \X Nat, store[e[1]] # NoBlock,
             e[2] \in 1 .. (store[e[1]].size + h)
      PROVE  e \in Cells(store, h)
  <2>1. e[1] \in KeysOf(store) BY <1>3 DEF KeysOf
  <2>2. e \in {e[1]} \X (1 .. (store[e[1]].size + h)) BY <1>3
  <2> QED BY <2>1, <2>2 DEF Cells
<1> QED BY <1>2, <1>3

(* A store occupies finitely many keys and cells.                          *)
LEMMA StoreFinite ==
  ASSUME NEW store \in Store, NEW h \in 0 .. HeaderBytes
  PROVE  /\ IsFiniteSet(KeysOf(store)) /\ Cardinality(KeysOf(store)) \in Nat
         /\ IsFiniteSet(Cells(store, h)) /\ Cardinality(Cells(store, h)) \in Nat
<1>1. h \in Nat BY BlocksAssumption
<1>2. IsFiniteSet(KeysOf(store))
  BY BlocksAssumption, FS_Subset DEF KeysOf
<1>3. IsFiniteSet(Key \X (1 .. MaxU64))
  <2>1. IsFiniteSet(1 .. MaxU64) BY BlocksAssumption, FS_Interval
  <2> QED BY <2>1, BlocksAssumption, FS_Product
<1>4. Cells(store, h) \in SUBSET (Key \X (1 .. MaxU64))
  <2> SUFFICES ASSUME NEW e \in Cells(store, h) PROVE e \in Key \X (1 .. MaxU64)
    OBVIOUS
  <2>1. e \in Key \X Nat /\ store[e[1]] # NoBlock /\ e[2] \in 1 .. (store[e[1]].size + h)
    BY CellsMember, <1>1
  <2>2. store[e[1]] \in Block BY <2>1 DEF Store
  <2>3. store[e[1]].size \in Nat /\ store[e[1]].size + h <= MaxU64
    BY <2>2, BlocksAssumption
  <2>4. e[2] \in 1 .. MaxU64 BY <2>1, <2>3, <1>1, BlocksAssumption
  <2> QED BY <2>1, <2>4
<1>5. IsFiniteSet(Cells(store, h)) BY <1>3, <1>4, FS_Subset
<1> QED BY <1>2, <1>5, FS_CardinalityType

(* Storing a block under a free key adds one entry and its bytes.          *)
LEMMA StoreInsert ==
  ASSUME NEW store \in Store, NEW h \in 0 .. HeaderBytes,
         NEW k \in Key, store[k] = NoBlock, NEW b \in Block
  PROVE  LET new == [store EXCEPT ![k] = b]
         IN /\ new \in Store
            /\ Cardinality(KeysOf(new)) = Cardinality(KeysOf(store)) + 1
            /\ Cardinality(Cells(new, h)) = Cardinality(Cells(store, h)) + b.size + h
<1> DEFINE new == [store EXCEPT ![k] = b]
           n == b.size + h
           added == {k} \X (1 .. n)
<1>1. h \in Nat /\ b.size \in Nat /\ b # NoBlock /\ n \in Nat BY BlocksAssumption
<1>2. new \in Store /\ new[k] = b /\ \A j \in Key : j # k => new[j] = store[j]
  BY DEF Store
<1>3. ASSUME NEW e
      PROVE  e \in added <=> e \in Key \X Nat /\ e[1] = k /\ e[2] \in 1 .. n
  BY <1>1
<1> HIDE DEF new
<1>4. Cardinality(KeysOf(new)) = Cardinality(KeysOf(store)) + 1
  <2>1. KeysOf(new) = KeysOf(store) \cup {k} /\ k \notin KeysOf(store)
    BY <1>1, <1>2 DEF KeysOf
  <2> QED BY <2>1, StoreFinite, FS_AddElement
<1>5. /\ Cells(new, h) = Cells(store, h) \cup added
      /\ Cells(store, h) \cap added = {}
  <2>1. /\ \A e : e \in Cells(new, h) <=>
               e \in Key \X Nat /\ new[e[1]] # NoBlock /\ e[2] \in 1 .. (new[e[1]].size + h)
        /\ \A e : e \in Cells(store, h) <=>
               e \in Key \X Nat /\ store[e[1]] # NoBlock /\ e[2] \in 1 .. (store[e[1]].size + h)
    <3>1. /\ Cells(new, h) = {e \in Key \X Nat : /\ new[e[1]] # NoBlock
                                                 /\ e[2] \in 1 .. (new[e[1]].size + h)}
          /\ Cells(store, h) = {e \in Key \X Nat : /\ store[e[1]] # NoBlock
                                                   /\ e[2] \in 1 .. (store[e[1]].size + h)}
      BY CellsMember, <1>1, <1>2
    <3> QED BY <3>1
  <2> HIDE DEF added
  <2>2. ASSUME NEW e
        PROVE  /\ e \in Cells(new, h) <=> e \in Cells(store, h) \/ e \in added
               /\ ~(e \in Cells(store, h) /\ e \in added)
    <3>1. CASE e \in Key \X Nat /\ e[1] = k
      BY <3>1, <2>1, <1>1, <1>2, <1>3
    <3>2. CASE e \in Key \X Nat /\ e[1] # k
      <4>1. e[1] \in Key BY <3>2
      <4>2. new[e[1]] = store[e[1]] BY <4>1, <3>2, <1>2
      <4> QED BY <3>2, <4>2, <2>1, <1>3
    <3>3. CASE e \notin Key \X Nat
      BY <3>3, <2>1, <1>3
    <3> QED BY <3>1, <3>2, <3>3
  <2> QED BY <2>2
<1>6. IsFiniteSet(added) /\ Cardinality(added) = n
  <2> HIDE DEF n
  <2>1. IsFiniteSet({k}) /\ Cardinality({k}) = 1 BY FS_Singleton
  <2>2. IsFiniteSet(1 .. n) /\ Cardinality(1 .. n) = n
    <3>1. 1 \in Int /\ n \in Int /\ n \in Nat BY <1>1
    <3>2. /\ IsFiniteSet(1 .. n)
          /\ Cardinality(1 .. n) = IF 1 > n THEN 0 ELSE n - 1 + 1
      BY <3>1, FS_Interval, Zenon
    <3> QED BY <3>1, <3>2
  <2>3. IsFiniteSet(added) /\ Cardinality(added) = Cardinality({k}) * Cardinality(1 .. n)
    BY <2>1, <2>2, FS_Product
  <2> QED BY <2>1, <2>2, <2>3, <1>1
<1> HIDE DEF added
<1>7. Cardinality(Cells(new, h)) = Cardinality(Cells(store, h)) + b.size + h
  <2>1. IsFiniteSet(Cells(store, h)) /\ Cardinality(Cells(store, h)) \in Nat BY StoreFinite
  <2>2. Cardinality(Cells(store, h) \cup added) =
          Cardinality(Cells(store, h)) + Cardinality(added)
            - Cardinality(Cells(store, h) \cap added)
    BY <2>1, <1>6, FS_Union
  <2>3. Cardinality(Cells(store, h) \cap added) = 0 BY <1>5, FS_EmptySet
  <2> QED BY <2>1, <2>2, <2>3, <1>5, <1>6, <1>1
<1> QED BY <1>2, <1>4, <1>7 DEF new

(* Erasing the block of a key takes away one entry and its bytes.          *)
LEMMA StoreErase ==
  ASSUME NEW store \in Store, NEW h \in 0 .. HeaderBytes,
         NEW k \in Key, store[k] # NoBlock
  PROVE  LET new == [store EXCEPT ![k] = NoBlock]
         IN /\ new \in Store
            /\ Cardinality(KeysOf(store)) = Cardinality(KeysOf(new)) + 1
            /\ Cardinality(Cells(store, h)) = Cardinality(Cells(new, h)) + store[k].size + h
<1> DEFINE new == [store EXCEPT ![k] = NoBlock]
<1>1. new \in Store /\ new[k] = NoBlock /\ store[k] \in Block BY DEF Store
<1>2. store = [new EXCEPT ![k] = store[k]] BY DEF Store
<1> HIDE DEF new
<1>3. /\ Cardinality(KeysOf(store)) = Cardinality(KeysOf(new)) + 1
      /\ Cardinality(Cells(store, h)) = Cardinality(Cells(new, h)) + store[k].size + h
  BY <1>1, <1>2, StoreInsert
<1> QED BY <1>1, <1>3 DEF new

(* The cells of a store with no block but one key's are those of the       *)
(* block.                                                                  *)
LEMMA OneBlockCells ==
  ASSUME NEW store \in Store, NEW k \in Key, KeysOf(store) \subseteq {k}
  PROVE  Cardinality(Cells(store, 0)) = IF store[k] = NoBlock THEN 0 ELSE store[k].size
<1>1. CASE store[k] = NoBlock
  <2>1. KeysOf(store) = {}
    BY <1>1 DEF KeysOf
  <2>2. Cells(store, 0) = {}
    BY <2>1 DEF Cells
  <2> QED BY <1>1, <2>2, FS_EmptySet
<1>2. CASE store[k] # NoBlock
  <2> DEFINE none == [store EXCEPT ![k] = NoBlock]
  <2>1. Cardinality(Cells(store, 0)) = Cardinality(Cells(none, 0)) + store[k].size + 0
    BY <1>2, StoreErase, BlocksAssumption
  <2>2. KeysOf(none) = {}
    BY DEF KeysOf, Store
  <2> HIDE DEF none
  <2>3. Cells(none, 0) = {}
    BY <2>2 DEF Cells
  <2>4. Cardinality(Cells(none, 0)) = 0
    BY <2>3, FS_EmptySet
  <2>5. store[k].size \in Nat
    BY <1>2, BlocksAssumption DEF Store
  <2> QED BY <1>2, <2>1, <2>4, <2>5
<1> QED BY <1>1, <1>2

-----------------------------------------------------------------------------
(* The counters of SsdTier.                                                *)

(* Equal up to multiples of 2^64.                                          *)
SameModulo(x, y) == \E w \in Int : x = y + w * (MaxU64 + 1)

(* used_bytes += n.                                                        *)
LEMMA AddModulo ==
  ASSUME NEW x \in Int, NEW y \in 0 .. MaxU64, SameModulo(x, y), NEW n \in 0 .. MaxU64
  PROVE  U64Add(y, n) \in 0 .. MaxU64 /\ SameModulo(x + n, U64Add(y, n))
<1> DEFINE M == MaxU64 + 1
<1>1. M \in Nat /\ MaxU64 \in Nat
  BY BlocksAssumption
<1>2. PICK w \in Int : x = y + w * M
  BY DEF SameModulo
<1>3. w * M \in Int /\ (w + 1) * M = w * M + M
  BY <1>1
<1>4. CASE y + n <= MaxU64
  <2>1. U64Add(y, n) = y + n /\ x + n = (y + n) + w * M
    BY <1>1, <1>2, <1>3, <1>4 DEF U64Add
  <2> QED BY <1>1, <1>4, <2>1 DEF SameModulo
<1>5. CASE ~(y + n <= MaxU64)
  <2>1. U64Add(y, n) = y + n - M /\ x + n = (y + n - M) + (w + 1) * M
    BY <1>1, <1>2, <1>3, <1>5 DEF U64Add
  <2>2. y + n - M \in 0 .. MaxU64 /\ w + 1 \in Int
    BY <1>1, <1>5
  <2> QED BY <2>1, <2>2 DEF SameModulo
<1> QED BY <1>4, <1>5

(* used_bytes -= n.                                                        *)
LEMMA SubModulo ==
  ASSUME NEW x \in Int, NEW y \in 0 .. MaxU64, SameModulo(x, y), NEW n \in 0 .. MaxU64
  PROVE  U64Sub(y, n) \in 0 .. MaxU64 /\ SameModulo(x - n, U64Sub(y, n))
<1> DEFINE M == MaxU64 + 1
<1>1. M \in Nat /\ MaxU64 \in Nat
  BY BlocksAssumption
<1>2. PICK w \in Int : x = y + w * M
  BY DEF SameModulo
<1>3. w * M \in Int /\ (w - 1) * M = w * M - M
  BY <1>1
<1>4. CASE n <= y
  <2>1. U64Sub(y, n) = y - n /\ x - n = (y - n) + w * M
    BY <1>1, <1>2, <1>3, <1>4 DEF U64Sub
  <2> QED BY <1>1, <1>4, <2>1 DEF SameModulo
<1>5. CASE ~(n <= y)
  <2>1. U64Sub(y, n) = y - n + M /\ x - n = (y - n + M) + (w - 1) * M
    BY <1>1, <1>2, <1>3, <1>5 DEF U64Sub
  <2>2. y - n + M \in 0 .. MaxU64 /\ w - 1 \in Int
    BY <1>1, <1>5
  <2> QED BY <2>1, <2>2 DEF SameModulo
<1> QED BY <1>4, <1>5

(* A footprint that fits a uint64_t is the counter.                        *)
LEMMA FitsIsExact ==
  ASSUME NEW x \in 0 .. MaxU64, NEW y \in 0 .. MaxU64, SameModulo(x, y)
  PROVE  x = y
<1> DEFINE M == MaxU64 + 1
<1>1. M \in Nat /\ MaxU64 \in Nat
  BY BlocksAssumption
<1>2. PICK w \in Int : x = y + w * M
  BY DEF SameModulo
<1>3. CASE w = 0
  BY <1>1, <1>2, <1>3
<1>4. CASE w >= 1
  <2>1. w * M >= M /\ w * M \in Int
    BY <1>1, <1>4
  <2> QED BY <1>1, <1>2, <2>1
<1>5. CASE w <= -1
  <2>1. w * M <= -M /\ w * M \in Int
    BY <1>1, <1>5
  <2> QED BY <1>1, <1>2, <2>1
<1> QED BY <1>3, <1>4, <1>5

(* The variables of the tier.                                              *)
SsdTyped ==
  /\ ssd \in Store /\ ssdOpen \in BOOLEAN
  /\ ssdStats \in [blocks : Int, bytes : 0 .. MaxU64]

(* num_blocks is exact, used_bytes is exact up to multiples of 2^64.       *)
CountsModulo ==
  ssdOpen => /\ ssdStats.blocks = Cardinality(KeysOf(ssd))
             /\ SameModulo(Cardinality(Cells(ssd, HeaderBytes)), ssdStats.bytes)

(* The counters of a new SsdTier object.                                   *)
LEMMA ZeroStatsTyped == ZeroStats \in [blocks : Int, bytes : 0 .. MaxU64]
BY BlocksAssumption DEF ZeroStats

(* A Put over an old record, or over none.                                 *)
LEMMA SsdPutCounts ==
  ASSUME SsdTyped, CountsModulo, NEW k \in Key, NEW b \in Block, SsdPut(k, b)
  PROVE  SsdTyped' /\ CountsModulo'
<1> DEFINE h == HeaderBytes
           x == Cardinality(Cells(ssd, h))
           n == Cardinality(KeysOf(ssd))
           new == [ssd EXCEPT ![k] = b]
<1>1. /\ h \in 0 .. HeaderBytes /\ h \in Nat /\ MaxU64 \in Nat
      /\ b.size \in Nat /\ b.size + h \in 0 .. MaxU64
  BY BlocksAssumption
<1>2. ssdOpen /\ ssdOpen' = ssdOpen /\ ssd' = new /\ new \in Store
  BY DEF SsdPut, SsdWrite, SsdTyped, Store
<1>3. /\ x \in Nat /\ n \in Nat /\ ssdStats.blocks = n /\ SameModulo(x, ssdStats.bytes)
      /\ ssdStats.bytes \in 0 .. MaxU64
  BY <1>1, <1>2, StoreFinite DEF SsdTyped, CountsModulo
<1>4. CASE ssd[k] = NoBlock
  <2>1. /\ Cardinality(KeysOf(new)) = n + 1
        /\ Cardinality(Cells(new, h)) = x + b.size + h
    BY <1>1, <1>4, StoreInsert DEF SsdTyped
  <2>2. /\ U64Add(ssdStats.bytes, b.size + h) \in 0 .. MaxU64
        /\ SameModulo(x + (b.size + h), U64Add(ssdStats.bytes, b.size + h))
    <3> DEFINE y == ssdStats.bytes
               d == b.size + h
    <3>1. x \in Int /\ y \in 0 .. MaxU64 /\ SameModulo(x, y) /\ d \in 0 .. MaxU64
      BY <1>1, <1>3
    <3> HIDE DEF x, y, d
    <3>2. U64Add(y, d) \in 0 .. MaxU64 /\ SameModulo(x + d, U64Add(y, d))
      BY <3>1, AddModulo
    <3> QED BY <3>2 DEF y, d
  <2>3. ssdStats' = [blocks |-> n + 1, bytes |-> U64Add(ssdStats.bytes, b.size + h)]
    BY <1>3, <1>4 DEF SsdPut, SsdWrite
  <2>4. x + (b.size + h) = x + b.size + h
    BY <1>1, <1>3
  <2> HIDE DEF x, n, h, new
  <2>5. /\ ssdStats'.blocks = Cardinality(KeysOf(ssd')) /\ ssdStats'.blocks \in Int
        /\ SameModulo(Cardinality(Cells(ssd', h)), ssdStats'.bytes)
        /\ ssdStats' \in [blocks : Int, bytes : 0 .. MaxU64]
    BY <1>2, <1>3, <2>1, <2>2, <2>3, <2>4
  <2> QED BY <1>2, <2>5 DEF SsdTyped, CountsModulo, h
<1>5. CASE ssd[k] # NoBlock
  <2> DEFINE none == [ssd EXCEPT ![k] = NoBlock]
             o == ssd[k].size + h
             y == U64Sub(ssdStats.bytes, o)
  <2>1. ssd[k] \in Block /\ ssd[k].size \in Nat /\ o \in 0 .. MaxU64
    BY <1>1, <1>5, BlocksAssumption DEF SsdTyped, Store
  <2>2. /\ none \in Store /\ none[k] = NoBlock /\ new = [none EXCEPT ![k] = b]
    BY DEF SsdTyped, Store
  <2>3. /\ n = Cardinality(KeysOf(none)) + 1
        /\ x = Cardinality(Cells(none, h)) + ssd[k].size + h
    BY <1>1, <1>5, StoreErase DEF SsdTyped
  <2> HIDE DEF none
  <2>4. Cardinality(KeysOf(none)) \in Nat /\ Cardinality(Cells(none, h)) \in Nat
    BY <1>1, <2>2, StoreFinite
  <2> HIDE DEF new
  <2>5. /\ Cardinality(KeysOf(new)) = Cardinality(KeysOf(none)) + 1
        /\ Cardinality(Cells(new, h)) = Cardinality(Cells(none, h)) + b.size + h
    BY <1>1, <2>2, StoreInsert
  <2>6. y \in 0 .. MaxU64 /\ SameModulo(x - o, y)
    <3> DEFINE z == ssdStats.bytes
    <3>1. x \in Int /\ z \in 0 .. MaxU64 /\ SameModulo(x, z) /\ o \in 0 .. MaxU64
      BY <1>3, <2>1
    <3> HIDE DEF x, z, o
    <3>2. U64Sub(z, o) \in 0 .. MaxU64 /\ SameModulo(x - o, U64Sub(z, o))
      BY <3>1, SubModulo
    <3> QED BY <3>2 DEF z
  <2> HIDE DEF x, n, y
  <2>7. x - o \in Int /\ x - o + (b.size + h) = Cardinality(Cells(new, h))
    BY <1>1, <1>3, <2>1, <2>3, <2>4, <2>5
  <2> HIDE DEF o
  <2>8. /\ U64Add(y, b.size + h) \in 0 .. MaxU64
        /\ SameModulo(x - o + (b.size + h), U64Add(y, b.size + h))
    BY <1>1, <2>6, <2>7, AddModulo
  <2>9. ssdStats' = [ssdStats EXCEPT !.bytes = U64Add(y, b.size + h)]
    BY <1>5 DEF SsdPut, SsdWrite, y, o
  <2>10. ssdStats'.blocks = n /\ ssdStats'.bytes = U64Add(y, b.size + h)
         /\ ssdStats' \in [blocks : Int, bytes : 0 .. MaxU64]
    BY <1>3, <2>8, <2>9 DEF SsdTyped
  <2> HIDE DEF h
  <2>11. /\ ssdStats'.blocks = Cardinality(KeysOf(ssd'))
         /\ SameModulo(Cardinality(Cells(ssd', h)), ssdStats'.bytes)
    BY <1>2, <2>3, <2>5, <2>7, <2>8, <2>10
  <2> QED BY <1>2, <2>10, <2>11 DEF SsdTyped, CountsModulo, h
<1> QED BY <1>4, <1>5

(* An eviction: the guard on num_blocks never fires.                       *)
LEMMA SsdEvictCounts ==
  ASSUME SsdTyped, CountsModulo, NEW k \in Key, SsdEvict(k)
  PROVE  SsdTyped' /\ CountsModulo'
<1> DEFINE h == HeaderBytes
           x == Cardinality(Cells(ssd, h))
           n == Cardinality(KeysOf(ssd))
           none == [ssd EXCEPT ![k] = NoBlock]
           y == ssdStats.bytes
           o == ssd[k].size + h
<1>1. h \in 0 .. HeaderBytes /\ h \in Nat /\ MaxU64 \in Nat
  BY BlocksAssumption
<1>2. ssdOpen /\ ssdOpen' = ssdOpen /\ ssd[k] # NoBlock /\ ssd' = none /\ none \in Store
  BY DEF SsdEvict, SsdTyped, Store
<1>3. x \in Nat /\ n \in Nat /\ ssdStats.blocks = n /\ SameModulo(x, y) /\ y \in 0 .. MaxU64
  BY <1>1, <1>2, StoreFinite DEF SsdTyped, CountsModulo
<1>4. ssd[k] \in Block /\ ssd[k].size \in Nat /\ o \in 0 .. MaxU64
  BY <1>1, <1>2, BlocksAssumption DEF SsdTyped, Store
<1>5. /\ n = Cardinality(KeysOf(none)) + 1
      /\ x = Cardinality(Cells(none, h)) + ssd[k].size + h
  BY <1>1, <1>2, StoreErase DEF SsdTyped
<1> HIDE DEF none
<1>6. Cardinality(KeysOf(none)) \in Nat /\ Cardinality(Cells(none, h)) \in Nat
  BY <1>1, <1>2, StoreFinite
<1> HIDE DEF x, n
<1>7. /\ n > 0 /\ n - 1 = Cardinality(KeysOf(none)) /\ n - 1 \in Int
      /\ x - o = Cardinality(Cells(none, h))
  <2> DEFINE c == Cardinality(Cells(none, h))
             m == Cardinality(KeysOf(none))
             s == ssd[k].size
  <2>1. c \in Nat /\ m \in Nat /\ s \in Nat /\ x = c + s + h /\ n = m + 1 /\ o = s + h
    BY <1>4, <1>5, <1>6
  <2> HIDE DEF c, m, s, o, h
  <2>2. x - o = c /\ n > 0 /\ n - 1 = m /\ n - 1 \in Int
    BY <1>1, <2>1
  <2> QED BY <2>2 DEF c, m
<1>8. U64Sub(y, o) \in 0 .. MaxU64 /\ SameModulo(x - o, U64Sub(y, o))
  <2> HIDE DEF y, o
  <2> QED BY <1>3, <1>4, SubModulo
<1>9. ssdStats' = [blocks |-> n - 1, bytes |-> U64Sub(y, o)]
  BY <1>3, <1>7 DEF SsdEvict
<1> HIDE DEF h, y, o
<1>10. /\ ssdStats'.blocks = Cardinality(KeysOf(ssd'))
       /\ SameModulo(Cardinality(Cells(ssd', h)), ssdStats'.bytes)
       /\ ssdStats' \in [blocks : Int, bytes : 0 .. MaxU64]
  BY <1>2, <1>7, <1>8, <1>9
<1> QED BY <1>2, <1>10 DEF SsdTyped, CountsModulo, h

(* The scan of Open rebuilds the counters, and refuses what does not fit.  *)
LEMMA SsdOpenedCounts ==
  ASSUME SsdTyped, CountsModulo, SsdOpened
  PROVE  SsdTyped' /\ CountsModulo'
<1> DEFINE x == Cardinality(Cells(ssd, HeaderBytes))
           n == Cardinality(KeysOf(ssd))
<1>1. CASE ssdOpen
  BY <1>1 DEF SsdOpened, ssdVars, SsdTyped, CountsModulo
<1>2. CASE ~ssdOpen
  <2>1. x \in Nat /\ n \in Nat /\ MaxU64 \in Nat
    BY StoreFinite, BlocksAssumption DEF SsdTyped
  <2>2. /\ x <= MaxU64 /\ ssd' = ssd /\ ssdOpen' = TRUE
        /\ ssdStats' = [blocks |-> n, bytes |-> x]
    BY <1>2 DEF SsdOpened, SsdScanned, StatsOf
  <2> HIDE DEF x, n
  <2>3. SameModulo(x, x)
    <3>1. x = x + 0 * (MaxU64 + 1)
      BY <2>1
    <3> QED BY <3>1 DEF SameModulo
  <2>4. /\ ssdStats'.blocks = n /\ ssdStats'.bytes = x
        /\ ssdStats' \in [blocks : Int, bytes : 0 .. MaxU64]
    BY <2>1, <2>2
  <2> QED BY <2>2, <2>3, <2>4 DEF SsdTyped, CountsModulo, x, n
<1> QED BY <1>1, <1>2

(* Every operation of the tier, in any order.                              *)
LEMMA SsdNextCounts ==
  ASSUME SsdTyped, CountsModulo, [SsdNext]_ssdVars
  PROVE  SsdTyped' /\ CountsModulo'
<1>1. CASE UNCHANGED ssdVars
  BY <1>1 DEF ssdVars, SsdTyped, CountsModulo
<1>2. CASE SsdOpened
  BY <1>2, SsdOpenedCounts
<1>3. CASE SsdClose
  BY <1>3 DEF SsdClose, SsdTyped, CountsModulo
<1>4. CASE SsdLost
  <2>1. ssdStats' \in [blocks : Int, bytes : 0 .. MaxU64]
    BY <1>4, ZeroStatsTyped DEF SsdLost
  <2> QED BY <1>4, <2>1 DEF SsdLost, SsdTyped, CountsModulo
<1>5. ASSUME NEW k \in Key, SsdEvict(k) PROVE SsdTyped' /\ CountsModulo'
  BY <1>5, SsdEvictCounts
<1>6. ASSUME NEW k \in Key, NEW b \in Block, SsdPut(k, b) PROVE SsdTyped' /\ CountsModulo'
  BY <1>6, SsdPutCounts
<1> QED BY <1>1, <1>2, <1>3, <1>4, <1>5, <1>6 DEF SsdNext

(* Counters exact up to 2^64, of records that fit, are exact.              *)
LEMMA CountsExact ==
  ASSUME SsdTyped, CountsModulo, Cardinality(Cells(ssd, HeaderBytes)) <= MaxU64
  PROVE  SsdCountersExact
<1> DEFINE x == Cardinality(Cells(ssd, HeaderBytes))
           n == Cardinality(KeysOf(ssd))
<1> SUFFICES ASSUME ssdOpen PROVE ssdStats = [blocks |-> n, bytes |-> x]
  BY DEF SsdCountersExact, StatsOf
<1>1. x \in 0 .. MaxU64
  BY StoreFinite, BlocksAssumption DEF SsdTyped
<1>2. ssdStats.blocks = n /\ SameModulo(x, ssdStats.bytes) /\ ssdStats.bytes \in 0 .. MaxU64
  BY DEF SsdTyped, CountsModulo
<1>3. ssdStats.bytes = x
  <2> DEFINE y == ssdStats.bytes
  <2> HIDE DEF x, y
  <2>1. x \in 0 .. MaxU64 /\ y \in 0 .. MaxU64 /\ SameModulo(x, y)
    BY <1>1, <1>2 DEF y
  <2>2. x = y
    BY <2>1, FitsIsExact
  <2> QED BY <2>2 DEF y
<1> HIDE DEF x, n
<1> QED BY <1>2, <1>3 DEF SsdTyped

(* The SSD tier on its own, its operations in any order with restarts:     *)
(* while it is open and its records fit a uint64_t, num_blocks and         *)
(* used_bytes are exact, even if used_bytes has wrapped before.            *)
THEOREM SsdTierCounts ==
  SsdInit /\ [][SsdNext]_ssdVars
  => [](Cardinality(Cells(ssd, HeaderBytes)) <= MaxU64 => SsdCountersExact)
<1>1. SsdInit => SsdTyped /\ CountsModulo
  <2>1. SsdInit => ssdStats \in [blocks : Int, bytes : 0 .. MaxU64]
    BY ZeroStatsTyped DEF SsdInit
  <2> QED BY <2>1 DEF SsdInit, SsdTyped, CountsModulo, EmptyStore, Store
<1>2. SsdTyped /\ CountsModulo /\ [SsdNext]_ssdVars => SsdTyped' /\ CountsModulo'
  BY SsdNextCounts
<1>3. SsdTyped /\ CountsModulo
      => (Cardinality(Cells(ssd, HeaderBytes)) <= MaxU64 => SsdCountersExact)
  BY CountsExact
<1> QED BY <1>1, <1>2, <1>3, PTL

-----------------------------------------------------------------------------
(* Byte counters.                                                          *)

(* uint64_t arithmetic stays in range.                                     *)
LEMMA U64Type ==
  ASSUME NEW a \in 0 .. MaxU64, NEW b \in 0 .. MaxU64
  PROVE  U64Add(a, b) \in 0 .. MaxU64 /\ U64Sub(a, b) \in 0 .. MaxU64
BY BlocksAssumption DEF U64Add, U64Sub

(* A block's size, with or without header, is a uint64_t.                  *)
LEMMA SizeType ==
  ASSUME NEW b \in Block
  PROVE  /\ b # NoBlock
         /\ b.size \in 0 .. MaxU64 /\ b.size \in Nat
         /\ b.size + HeaderBytes \in 0 .. MaxU64
         /\ b.valid \in BOOLEAN
BY BlocksAssumption

(* DramTier::Put keeps the types.                                          *)
LEMMA DramPutType ==
  ASSUME dram \in Store, dramStats \in StatsType,
         NEW k \in Key, NEW b \in Block, DramPut(k, b)
  PROVE  /\ dram' \in Store /\ dramStats' \in StatsType
         /\ dram' = [dram EXCEPT ![k] = b]
<1>1. dram' \in Store /\ dram' = [dram EXCEPT ![k] = b] BY DEF DramPut, Store
<1>2. CASE dram[k] = NoBlock
  <2>1. dramStats' = [blocks |-> dramStats.blocks + 1, bytes |-> U64Add(dramStats.bytes, b.size)]
    BY <1>2 DEF DramPut
  <2>2. U64Add(dramStats.bytes, b.size) \in 0 .. MaxU64 BY U64Type, SizeType DEF StatsType
  <2> QED BY <1>1, <2>1, <2>2 DEF StatsType
<1>3. CASE dram[k] # NoBlock
  <2> DEFINE new == IF b.size >= dram[k].size
                    THEN U64Add(dramStats.bytes, b.size - dram[k].size)
                    ELSE U64Sub(dramStats.bytes, dram[k].size - b.size)
  <2>1. dramStats' = [dramStats EXCEPT !.bytes = new] BY <1>3 DEF DramPut
  <2>2. dram[k].size \in 0 .. MaxU64 /\ b.size \in 0 .. MaxU64
    BY <1>3, SizeType DEF Store
  <2>3. new \in 0 .. MaxU64
    <3>1. CASE b.size >= dram[k].size
      <4>1. b.size - dram[k].size \in 0 .. MaxU64 BY <3>1, <2>2, BlocksAssumption
      <4> QED BY <3>1, <4>1, U64Type DEF StatsType
    <3>2. CASE ~(b.size >= dram[k].size)
      <4>1. dram[k].size - b.size \in 0 .. MaxU64 BY <3>2, <2>2, BlocksAssumption
      <4> QED BY <3>2, <4>1, U64Type DEF StatsType
    <3> QED BY <3>1, <3>2
  <2> HIDE DEF new
  <2> QED BY <1>1, <2>1, <2>3 DEF StatsType
<1> QED BY <1>2, <1>3

(* DramTier::EraseExisting keeps the types.                                *)
LEMMA DramEraseType ==
  ASSUME dram \in Store, dramStats \in StatsType,
         NEW k \in Key, dram[k] # NoBlock, DramErase(k)
  PROVE  /\ dram' \in Store /\ dramStats' \in StatsType
         /\ dram' = [dram EXCEPT ![k] = NoBlock] /\ dram[k] \in Block
<1>1. dram[k] \in Block BY DEF DramErase, Store
<1>2. U64Sub(dramStats.bytes, dram[k].size) \in 0 .. MaxU64
  BY <1>1, SizeType, U64Type DEF StatsType
<1> QED BY <1>1, <1>2 DEF DramErase, Store, StatsType

(* SsdTier::Put keeps the types.                                           *)
LEMMA SsdPutType ==
  ASSUME ssd \in Store, ssdStats \in StatsType, ssdOpen \in BOOLEAN,
         NEW k \in Key, NEW b \in Block, SsdPut(k, b)
  PROVE  /\ ssd' \in Store /\ ssdStats' \in StatsType /\ ssdOpen' \in BOOLEAN
         /\ ssd' = [ssd EXCEPT ![k] = b]
<1>1. ssd' \in Store /\ ssd' = [ssd EXCEPT ![k] = b] /\ ssdOpen' \in BOOLEAN
  BY DEF SsdPut, SsdWrite, Store
<1> DEFINE n == b.size + HeaderBytes
<1>2. n \in 0 .. MaxU64 BY SizeType
<1>3. CASE ssd[k] = NoBlock
  <2>1. ssdStats' = [blocks |-> ssdStats.blocks + 1, bytes |-> U64Add(ssdStats.bytes, n)]
    BY <1>3 DEF SsdPut, SsdWrite
  <2> HIDE DEF n
  <2>2. U64Add(ssdStats.bytes, n) \in 0 .. MaxU64 BY <1>2, U64Type DEF StatsType
  <2> QED BY <1>1, <2>1, <2>2 DEF StatsType
<1>4. CASE ssd[k] # NoBlock
  <2> DEFINE o == ssd[k].size + HeaderBytes
  <2>1. o \in 0 .. MaxU64 BY <1>4, SizeType DEF Store
  <2>2. ssdStats' = [ssdStats EXCEPT !.bytes = U64Add(U64Sub(ssdStats.bytes, o), n)]
    BY <1>4 DEF SsdPut, SsdWrite
  <2> HIDE DEF n, o
  <2>3. U64Add(U64Sub(ssdStats.bytes, o), n) \in 0 .. MaxU64
    <3>1. U64Sub(ssdStats.bytes, o) \in 0 .. MaxU64 BY <2>1, U64Type DEF StatsType
    <3> QED BY <3>1, <1>2, U64Type
  <2> QED BY <1>1, <2>2, <2>3 DEF StatsType
<1> QED BY <1>3, <1>4

(* A DRAM write that was given room keeps the counters exact and within    *)
(* the capacity: the 64-bit additions do not wrap.                         *)
LEMMA DramPutAccounting ==
  ASSUME dram \in Store, dramStats \in StatsType, dramStats = StatsOf(dram, 0),
         DramCapacity # 0,
         NEW k \in Key, NEW b \in Block, DramPut(k, b),
         dramStats.bytes - (IF dram[k] = NoBlock THEN 0 ELSE dram[k].size) + b.size
           <= DramCapacity
  PROVE  dramStats' = StatsOf(dram', 0) /\ dramStats'.bytes <= DramCapacity
<1> DEFINE none == [dram EXCEPT ![k] = NoBlock]
<1>1. /\ 0 \in 0 .. HeaderBytes /\ b.size \in Nat /\ MaxU64 \in Nat
      /\ DramCapacity \in 0 .. MaxU64 /\ dram' = [dram EXCEPT ![k] = b]
  BY BlocksAssumption, NodeAssumption DEF DramPut
<1>2. /\ dramStats.blocks = Cardinality(KeysOf(dram))
      /\ dramStats.bytes = Cardinality(Cells(dram, 0))
      /\ dramStats.bytes \in Nat
  BY DEF StatsOf, StatsType
<1>3. CASE dram[k] = NoBlock
  <2>1. /\ Cardinality(KeysOf(dram')) = Cardinality(KeysOf(dram)) + 1
        /\ Cardinality(Cells(dram', 0)) = Cardinality(Cells(dram, 0)) + b.size + 0
    BY <1>1, <1>3, StoreInsert
  <2>2. dramStats.bytes + b.size <= MaxU64 /\ dramStats.bytes + b.size <= DramCapacity
    BY <1>1, <1>2, <1>3
  <2>3. dramStats' = [blocks |-> dramStats.blocks + 1, bytes |-> dramStats.bytes + b.size]
    BY <1>3, <2>2 DEF DramPut, U64Add
  <2> QED BY <1>1, <1>2, <2>1, <2>2, <2>3 DEF StatsOf
<1>4. CASE dram[k] # NoBlock
  <2>1. dram[k] \in Block /\ dram[k].size \in Nat BY <1>4, SizeType DEF Store
  <2>2. /\ none \in Store
        /\ Cardinality(KeysOf(dram)) = Cardinality(KeysOf(none)) + 1
        /\ Cardinality(Cells(dram, 0)) = Cardinality(Cells(none, 0)) + dram[k].size + 0
    BY <1>1, <1>4, StoreErase
  <2>3. none[k] = NoBlock /\ dram' = [none EXCEPT ![k] = b] BY <1>1 DEF Store
  <2> HIDE DEF none
  <2>4. /\ Cardinality(KeysOf(dram')) = Cardinality(KeysOf(none)) + 1
        /\ Cardinality(Cells(dram', 0)) = Cardinality(Cells(none, 0)) + b.size + 0
    <3>1. /\ Cardinality(KeysOf([none EXCEPT ![k] = b])) = Cardinality(KeysOf(none)) + 1
          /\ Cardinality(Cells([none EXCEPT ![k] = b], 0)) =
               Cardinality(Cells(none, 0)) + b.size + 0
      <4>1. none \in Store /\ 0 \in 0 .. HeaderBytes /\ none[k] = NoBlock
        BY <1>1, <2>2, <2>3
      <4> QED BY ONLY <4>1, k \in Key, b \in Block, StoreInsert
    <3> QED BY <3>1, <2>3
  <2>5. Cardinality(Cells(none, 0)) \in Nat /\ Cardinality(KeysOf(none)) \in Nat
    BY <1>1, <2>2, StoreFinite
  <2>6. dramStats.bytes >= dram[k].size
    BY <1>2, <2>1, <2>2, <2>5
  <2>7. dramStats' = [dramStats EXCEPT !.bytes = dramStats.bytes - dram[k].size + b.size]
    <3>1. CASE b.size >= dram[k].size
      BY <3>1, <1>1, <1>2, <1>4, <2>1, <2>6 DEF DramPut, U64Add
    <3>2. CASE ~(b.size >= dram[k].size)
      BY <3>2, <1>1, <1>2, <1>4, <2>1, <2>6 DEF DramPut, U64Sub
    <3> QED BY <3>1, <3>2
  <2>8. dramStats' = [blocks |-> dramStats.blocks,
                      bytes |-> dramStats.bytes - dram[k].size + b.size]
    BY <2>7 DEF StatsType
  <2>9. /\ dramStats.bytes - dram[k].size + b.size = Cardinality(Cells(dram', 0))
        /\ dramStats.blocks = Cardinality(KeysOf(dram'))
    BY <1>1, <1>2, <2>1, <2>2, <2>4, <2>5
  <2>10. dramStats.bytes - dram[k].size + b.size <= DramCapacity BY <1>4
  <2> QED BY <2>8, <2>9, <2>10 DEF StatsOf
<1> QED BY <1>3, <1>4

(* An erase keeps the counters exact and within the capacity: the 64-bit   *)
(* subtraction does not wrap.                                              *)
LEMMA DramEraseAccounting ==
  ASSUME dram \in Store, dramStats \in StatsType, dramStats = StatsOf(dram, 0),
         dramStats.bytes <= DramCapacity,
         NEW k \in Key, dram[k] # NoBlock, DramErase(k)
  PROVE  dramStats' = StatsOf(dram', 0) /\ dramStats'.bytes <= DramCapacity
<1>1. /\ 0 \in 0 .. HeaderBytes /\ DramCapacity \in Nat
      /\ dram[k] # NoBlock /\ dram' = [dram EXCEPT ![k] = NoBlock]
  BY BlocksAssumption, NodeAssumption DEF DramErase
<1>2. dram[k].size \in Nat BY <1>1, SizeType DEF Store
<1>3. /\ dram' \in Store
      /\ Cardinality(KeysOf(dram)) = Cardinality(KeysOf(dram')) + 1
      /\ Cardinality(Cells(dram, 0)) = Cardinality(Cells(dram', 0)) + dram[k].size + 0
  BY <1>1, StoreErase
<1>4. Cardinality(Cells(dram', 0)) \in Nat /\ Cardinality(KeysOf(dram')) \in Nat
  BY <1>1, <1>3, StoreFinite
<1>5. /\ dramStats.blocks = Cardinality(KeysOf(dram))
      /\ dramStats.bytes = Cardinality(Cells(dram, 0))
  BY DEF StatsOf
<1>6. dramStats' = [blocks |-> dramStats.blocks - 1, bytes |-> dramStats.bytes - dram[k].size]
  BY <1>2, <1>3, <1>4, <1>5 DEF DramErase, U64Sub
<1> QED BY <1>1, <1>2, <1>3, <1>4, <1>5, <1>6 DEF StatsOf

(* An empty store occupies nothing.                                        *)
LEMMA EmptyStats ==
  /\ EmptyStore \in Store
  /\ StatsOf(EmptyStore, 0) = ZeroStats
  /\ ZeroStats \in StatsType
<1>1. KeysOf(EmptyStore) = {} BY DEF KeysOf, EmptyStore
<1>2. Cells(EmptyStore, 0) = {} BY <1>1 DEF Cells
<1>3. Cardinality({}) = 0 BY FS_EmptySet
<1>4. EmptyStore \in Store BY DEF EmptyStore, Store
<1>5. StatsOf(EmptyStore, 0) = ZeroStats BY <1>1, <1>2, <1>3 DEF StatsOf, ZeroStats
<1>6. ZeroStats \in StatsType BY BlocksAssumption DEF ZeroStats, StatsType
<1> QED BY <1>4, <1>5, <1>6

-----------------------------------------------------------------------------
(* The invariant holds initially.                                          *)
LEMMA InitInv == Init => NodeInv
<1> SUFFICES ASSUME Init PROVE NodeInv OBVIOUS
<1> USE DEF Init, DramInit, SsdInit, PolicyInit
<1>1. TypeOK
  BY EmptyStats DEF TypeOK, EmptyIndex, Tier, IdleOp, OpType, Phase, Reply, ReplyType, Status
<1>2. DramWithinCapacity
  BY EmptyStats, NodeAssumption DEF DramWithinCapacity, ZeroStats
<1>3. TiersAsConfigured /\ IndexNamesPrimary /\ PolicyTracksDram /\ RecordsDecode
  BY DEF TiersAsConfigured, IndexNamesPrimary, PolicyTracksDram, RecordsDecode,
         EmptyStore, KeysOf, IdleOp
<1>4. DefensiveChecksHold /\ CallStillValid
  BY DEF DefensiveChecksHold, CallStillValid, IdleOp, Reply
<1> QED BY <1>1, <1>2, <1>3, <1>4 DEF NodeInv

(* Nothing is promised about a call that has returned.                     *)
LEMMA IdleCall ==
  ASSUME op' = IdleOp
  PROVE  CallStillValid'
BY DEF CallStillValid, IdleOp

(* A step that only returns, from a state without a reservation.           *)
LEMMA QuietReturn ==
  ASSUME NodeInv, op.phase \in {"idle", "room"},
         UNCHANGED <<dramVars, ssdVars, index, policyVars, ready, aborted>>,
         op' = IdleOp, reply' \in ReplyType,
         reply'.status # "Internal",
         reply'.status = "Corruption" => reply'.call = "Open"
  PROVE  NodeInv'
<1> USE DEF NodeInv, dramVars, ssdVars, policyVars
<1>1. TypeOK'
  BY DEF TypeOK, IdleOp, OpType, Phase, Tier
<1>2. TiersAsConfigured' /\ RecordsDecode' /\ DramWithinCapacity'
  BY DEF TiersAsConfigured, RecordsDecode, DramWithinCapacity, KeysOf, StatsOf, Cells
<1>3. IndexNamesPrimary'
  BY DEF IndexNamesPrimary, PrimaryTier, Unsettled, IdleOp
<1>4. PolicyTracksDram'
  BY DEF PolicyTracksDram, KeysOf, IdleOp
<1>5. DefensiveChecksHold' /\ CallStillValid'
  BY IdleCall DEF DefensiveChecksHold
<1> QED BY <1>1, <1>2, <1>3, <1>4, <1>5

(* A stuttering step.                                                      *)
LEMMA StutterInv == ASSUME NodeInv, UNCHANGED vars PROVE NodeInv'
<1> USE DEF NodeInv, vars, dramVars, ssdVars, policyVars, nodeVars
<1>1. TypeOK' /\ TiersAsConfigured' /\ RecordsDecode' /\ DramWithinCapacity'
  BY DEF TypeOK, TiersAsConfigured, RecordsDecode, DramWithinCapacity, KeysOf, StatsOf, Cells
<1>2. IndexNamesPrimary' /\ PolicyTracksDram' /\ DefensiveChecksHold' /\ CallStillValid'
  BY DEF IndexNamesPrimary, PrimaryTier, Unsettled, PolicyTracksDram, KeysOf,
         DefensiveChecksHold, CallStillValid, Oversized
<1> QED BY <1>1, <1>2

-----------------------------------------------------------------------------
(* Steps that start a call.                                                *)

(* Open and a failed Open keep the invariant.                              *)
LEMMA OpenInv == NodeInv /\ Open => NodeInv'
<1> SUFFICES ASSUME NodeInv, Open PROVE NodeInv' OBVIOUS
<1> USE DEF NodeInv, Open, Idle, dramVars, policyVars, Return
<1>1. /\ ssd' = ssd /\ ssdStats' \in StatsType /\ ssdOpen' \in BOOLEAN
      /\ HasSsd => ssdOpen'
  <2>1. CASE HasSsd /\ ~ready
    <3>1. CASE ssdOpen
      BY <2>1, <3>1 DEF SsdOpened, ssdVars, TypeOK
    <3>2. CASE ~ssdOpen
      <4>1. /\ ssd' = ssd /\ ssdOpen'
            /\ Cardinality(Cells(ssd, HeaderBytes)) <= MaxU64
            /\ ssdStats' = StatsOf(ssd, HeaderBytes)
        BY <2>1, <3>2 DEF SsdOpened, SsdScanned
      <4>2. /\ Cardinality(KeysOf(ssd)) \in Nat
            /\ Cardinality(Cells(ssd, HeaderBytes)) \in Nat
        BY StoreFinite, BlocksAssumption DEF TypeOK
      <4>3. ssdStats' \in StatsType
        BY <4>1, <4>2, BlocksAssumption DEF StatsOf, StatsType
      <4> QED BY <2>1, <3>2, <4>1, <4>3 DEF SsdOpened
    <3> QED BY <3>1, <3>2 DEF TypeOK
  <2>2. CASE ~(HasSsd /\ ~ready)
    BY <2>2 DEF ssdVars, TypeOK, TiersAsConfigured
  <2> QED BY <2>1, <2>2
<1>2. index' \in [Key -> Tier]
  BY DEF TypeOK, Recovered, InsertIfAbsent, EmptyIndex, Tier
<1>3. TypeOK'
  BY <1>1, <1>2, KeysAssumption
     DEF TypeOK, IdleOp, OpType, Phase, Tier, Reply, ReplyType, Status
<1>4. IndexNamesPrimary'
  <2>1. CASE ready
    BY <1>1, <2>1 DEF IndexNamesPrimary, PrimaryTier, Unsettled, IdleOp
  <2>2. CASE ~ready
    BY <1>1, <2>2 DEF IndexNamesPrimary, PrimaryTier, Unsettled, Recovered,
                       InsertIfAbsent, EmptyIndex, KeysOf, TypeOK
  <2> QED BY <2>1, <2>2
<1>5. TiersAsConfigured' /\ RecordsDecode' /\ DramWithinCapacity'
  BY <1>1 DEF TiersAsConfigured, RecordsDecode, DramWithinCapacity, KeysOf, StatsOf, Cells
<1>6. PolicyTracksDram'
  BY DEF PolicyTracksDram, KeysOf, IdleOp
<1>7. DefensiveChecksHold' /\ CallStillValid'
  BY IdleCall DEF DefensiveChecksHold, Reply
<1> QED BY <1>3, <1>4, <1>5, <1>6, <1>7

(* An Open that fails keeps the invariant.                                 *)
LEMMA OpenFailsInv == NodeInv /\ OpenFails => NodeInv'
<1> SUFFICES ASSUME NodeInv, OpenFails PROVE NodeInv' OBVIOUS
<1> USE DEF NodeInv, OpenFails, Idle, dramVars, policyVars, ssdVars
<1>1. /\ ssd' = ssd /\ ssdStats' \in StatsType /\ ssdOpen' \in BOOLEAN
  <2>1. CASE UNCHANGED ssdVars
    BY <2>1 DEF TypeOK
  <2>2. CASE SsdScanned /\ ssdOpen' = FALSE
    <3>1. /\ Cardinality(Cells(ssd, HeaderBytes)) <= MaxU64
          /\ ssdStats' = StatsOf(ssd, HeaderBytes)
      BY <2>2 DEF SsdScanned
    <3>2. /\ Cardinality(KeysOf(ssd)) \in Nat
          /\ Cardinality(Cells(ssd, HeaderBytes)) \in Nat
      BY StoreFinite, BlocksAssumption DEF TypeOK
    <3>3. ssdStats' \in StatsType
      BY <3>1, <3>2, BlocksAssumption DEF StatsOf, StatsType
    <3> QED BY <2>2, <3>3 DEF SsdScanned
  <2> QED BY <2>1, <2>2
<1>2. /\ op' = IdleOp /\ reply' \in ReplyType
      /\ reply'.status # "Internal" /\ reply'.call = "Open"
  <2>1. PICK e \in Faults \cup {"Corruption"}, f \in BOOLEAN :
          Return("Open", NoKey, e, NoBlock, f)
    <3>1. ASSUME NEW e \in SsdScanErrors, Return("Open", NoKey, e, NoBlock, e \in Faults)
          PROVE  \E d \in Faults \cup {"Corruption"}, f \in BOOLEAN :
                   Return("Open", NoKey, d, NoBlock, f)
      <4>1. e \in Faults \cup {"Corruption"} BY DEF SsdScanErrors
      <4>2. (e \in Faults) \in BOOLEAN OBVIOUS
      <4> HIDE DEF OpenFails
      <4> QED BY ONLY <3>1, <4>1, <4>2, Zenon
    <3>2. ASSUME NEW e \in Faults, Return("Open", NoKey, e, NoBlock, TRUE)
          PROVE  \E d \in Faults \cup {"Corruption"}, f \in BOOLEAN :
                   Return("Open", NoKey, d, NoBlock, f)
      BY <3>2
    <3>3. {"OutOfCapacity"} \subseteq Faults BY DEF Faults
    <3> QED BY <3>1, <3>2, <3>3
  <2> QED BY <2>1 DEF Return, Reply, ReplyType, Status, Faults
<1>3. TypeOK'
  BY <1>1, <1>2 DEF TypeOK, IdleOp, OpType, Phase, Tier
<1>4. TiersAsConfigured' /\ RecordsDecode' /\ DramWithinCapacity'
  BY <1>1 DEF TiersAsConfigured, RecordsDecode, DramWithinCapacity, KeysOf, StatsOf, Cells
<1>5. IndexNamesPrimary' /\ PolicyTracksDram'
  BY <1>2 DEF IndexNamesPrimary, PolicyTracksDram, KeysOf, IdleOp
<1>6. DefensiveChecksHold' /\ CallStillValid'
  BY IdleCall, <1>2 DEF DefensiveChecksHold
<1> QED BY <1>3, <1>4, <1>5, <1>6

(* Close keeps the invariant.                                              *)
LEMMA CloseInv == NodeInv /\ Close => NodeInv'
<1> SUFFICES ASSUME NodeInv, Close PROVE NodeInv' OBVIOUS
<1> USE DEF NodeInv, Close, Idle, dramVars, policyVars, SsdClose, Return
<1>1. TypeOK'
  BY DEF TypeOK, IdleOp, OpType, Phase, Tier, Reply, ReplyType, Status
<1>2. TiersAsConfigured' /\ RecordsDecode' /\ DramWithinCapacity'
  BY DEF TiersAsConfigured, RecordsDecode, DramWithinCapacity, KeysOf, StatsOf, Cells
<1>3. IndexNamesPrimary' /\ PolicyTracksDram'
  BY DEF IndexNamesPrimary, PolicyTracksDram, KeysOf, IdleOp
<1>4. DefensiveChecksHold' /\ CallStillValid'
  BY IdleCall DEF DefensiveChecksHold, Reply
<1> QED BY <1>1, <1>2, <1>3, <1>4

(* A crash leaves the initial state over the same database.                *)
LEMMA CrashInv == NodeInv /\ Crash => NodeInv'
<1> SUFFICES ASSUME NodeInv, Crash PROVE NodeInv' OBVIOUS
<1> USE DEF NodeInv, Crash, DramLost, SsdLost, Return
<1>1. TypeOK'
  BY EmptyStats DEF TypeOK, EmptyIndex, IdleOp, OpType, Phase, Tier, Reply, ReplyType, Status
<1>2. DramWithinCapacity'
  BY EmptyStats, NodeAssumption DEF DramWithinCapacity, ZeroStats
<1>3. TiersAsConfigured' /\ RecordsDecode' /\ IndexNamesPrimary'
  BY DEF TiersAsConfigured, RecordsDecode, IndexNamesPrimary, KeysOf, EmptyStore
<1>4. PolicyTracksDram'
  BY DEF PolicyTracksDram, KeysOf, EmptyStore, IdleOp
<1>5. DefensiveChecksHold' /\ CallStillValid'
  BY IdleCall DEF DefensiveChecksHold, Reply
<1> QED BY <1>1, <1>2, <1>3, <1>4, <1>5

(* What a read that fails leaves in reply.                                 *)
LEMMA ErrorReply ==
  ASSUME NEW k \in Key, NEW call \in {"Get", "Probe"}, NEW e \in Status,
         e \notin {"Internal", "Corruption"},
         NEW a, NEW s, Return(call, k, e, NoBlock, a = s /\ e \in Faults)
  PROVE  reply' \in ReplyType /\ reply'.status \notin {"Internal", "Corruption"}
<1>1. (a = s /\ e \in Faults) \in BOOLEAN OBVIOUS
<1> DEFINE fault == a = s /\ e \in Faults
<1>2. reply' = Reply(call, k, e, NoBlock, fault) BY DEF Return
<1> HIDE DEF fault
<1>3. fault \in BOOLEAN BY <1>1 DEF fault
<1> QED BY <1>2, <1>3 DEF Reply, ReplyType

(* Read-only calls, and calls on a closed node.                            *)
LEMMA ReadInv ==
  ASSUME NodeInv, NEW k \in Key,
         \/ \E call \in {"Put", "Get"} : Unavailable(call, k)
         \/ Contains(k) \/ Probe(k) \/ \E n \in BufferCapacity : GetFails(k, n)
  PROVE  NodeInv'
<1>1. /\ op.phase = "idle"
      /\ UNCHANGED <<dramVars, ssdVars, index, policyVars, ready, aborted>>
      /\ op' = IdleOp
  BY DEF Unavailable, Contains, Probe, GetFails, Idle, Return
<1>2. ASSUME NEW m, NEW e \in GetErrors(k, m), ready
      PROVE  e \in Status \ {"Internal", "Corruption"}
  <2>1. index[k] = PrimaryTier(k)
    BY <1>1, <1>2 DEF NodeInv, IndexNamesPrimary, Unsettled
  <2>2. index[k] = "ssd" => HasSsd /\ ssdOpen /\ ssd[k] # NoBlock /\ ssd[k].valid
    BY <2>1, <1>2 DEF PrimaryTier, NodeInv, TiersAsConfigured, RecordsDecode, KeysOf
  <2>3. index[k] \in Tier BY DEF NodeInv, TypeOK
  <2> QED BY <1>2, <2>2, <2>3 DEF GetErrors, SsdGetErrors, Status, Faults, Tier
<1>3. /\ reply' \in ReplyType
      /\ reply'.status \notin {"Internal", "Corruption"}
  <2> USE DEF Return, Reply, ReplyType, Status
  <2>1. CASE \E call \in {"Put", "Get"} : Unavailable(call, k)
    BY <2>1 DEF Unavailable
  <2>2. CASE Contains(k)
    BY <2>2 DEF Contains
  <2>3. CASE Probe(k)
    <3>1. dram[k] \in Block \cup {NoBlock} /\ ssd[k] \in Block \cup {NoBlock}
      BY DEF NodeInv, TypeOK, Store
    <3>2. ready /\ (index[k] = "ssd") \in BOOLEAN BY <2>3 DEF Probe
    <3>3. CASE \E e \in GetErrors(k, MaxU64) :
                 Return("Probe", k, e, NoBlock, index[k] = "ssd" /\ e \in Faults)
      <4>1. PICK e \in GetErrors(k, MaxU64) :
              Return("Probe", k, e, NoBlock, index[k] = "ssd" /\ e \in Faults)
        BY <3>3, Zenon
      <4>2. e \in Status /\ e \notin {"Internal", "Corruption"} BY <3>2, <1>2
      <4> QED BY <4>1, <4>2, ErrorReply
    <3>4. CASE /\ index[k] = "dram" /\ dram[k] # NoBlock
               /\ Return("Probe", k, "Ok", dram[k], FALSE)
      BY <3>1, <3>4
    <3>5. CASE /\ HasSsd /\ index[k] = "ssd" /\ SsdGetOk(k, MaxU64)
               /\ Return("Probe", k, "Ok", ssd[k], FALSE)
      BY <3>1, <3>5
    <3> QED BY <2>3, <3>3, <3>4, <3>5 DEF Probe
  <2>4. CASE \E n \in BufferCapacity : GetFails(k, n)
    <3>1. PICK n \in BufferCapacity : GetFails(k, n) BY <2>4, Zenon
    <3>2. PICK e \in GetErrors(k, n) :
            Return("Get", k, e, NoBlock, index[k] = "ssd" /\ e \in Faults)
      BY <3>1 DEF GetFails
    <3>3. ready BY <3>1 DEF GetFails
    <3>4. e \in Status /\ e \notin {"Internal", "Corruption"} BY <3>2, <3>3, <1>2
    <3> QED BY <3>2, <3>4, ErrorReply
  <2> QED BY <2>1, <2>2, <2>3, <2>4
<1> QED BY <1>1, <1>3, QuietReturn

(* A hit in DRAM: OnAccess meets a resident key, so residency stays.       *)
LEMMA GetDramHitInv ==
  ASSUME NodeInv, NEW k \in Key, NEW n \in BufferCapacity, GetDramHit(k, n)
  PROVE  NodeInv'
<1> USE DEF GetDramHit, Idle
<1>1. UNCHANGED policyVars
  BY DEF NodeInv, PolicyTracksDram, KeysOf, Used, OnAccess, policyVars
<1>2. reply' \in ReplyType /\ reply'.status = "Ok" /\ op' = IdleOp
  BY DEF NodeInv, TypeOK, Store, Return, Reply, ReplyType, Status
<1> QED BY <1>1, <1>2, QuietReturn

(* A hit in SSD: the call returns, or goes on to promote.                  *)
LEMMA GetSsdHitInv ==
  ASSUME NodeInv, NEW k \in Key, NEW n \in BufferCapacity, GetSsdHit(k, n)
  PROVE  NodeInv'
<1>1. ssd[k] \in Block /\ op.phase = "idle" /\ ready
  BY DEF NodeInv, TypeOK, Store, GetSsdHit, SsdGetOk, Idle
<1>2. UNCHANGED <<dramVars, ssdVars, index, policyVars, ready, aborted>>
  BY DEF GetSsdHit
<1>3. CASE Return("Get", k, "Ok", ssd[k], FALSE)
  <2>1. reply' \in ReplyType /\ reply'.status = "Ok" /\ op' = IdleOp
    BY <1>1, <1>3 DEF Return, Reply, ReplyType, Status
  <2> QED BY <1>1, <1>2, <2>1, QuietReturn
<1>4. CASE /\ MayPromote(k) /\ UNCHANGED reply
           /\ op' = [phase |-> "room", call |-> "Get", key |-> k, block |-> ssd[k],
                     old |-> "ssd", replaced |-> 0]
  <2> USE <1>1, <1>2, <1>4 DEF NodeInv, dramVars, ssdVars, policyVars
  <2>1. TypeOK'
    BY DEF TypeOK, OpType, Phase, Tier
  <2>2. TiersAsConfigured' /\ RecordsDecode' /\ DramWithinCapacity'
    BY DEF TiersAsConfigured, RecordsDecode, DramWithinCapacity, KeysOf, StatsOf, Cells
  <2>3. IndexNamesPrimary' BY DEF IndexNamesPrimary, PrimaryTier, Unsettled
  <2>5. PolicyTracksDram' BY DEF PolicyTracksDram, KeysOf
  <2>6. DefensiveChecksHold' BY DEF DefensiveChecksHold
  <2>4. CallStillValid'
    <3>1. /\ op'.phase = "room" /\ op'.call = "Get" /\ op'.key = k /\ op'.block = ssd[k]
          /\ op'.old = "ssd" /\ op'.replaced = 0
      OBVIOUS
    <3>2. HasDram /\ ~Oversized(ssd[k]) /\ index[k] = "ssd"
      BY NodeAssumption, SizeType DEF MayPromote, ValidateRelocate, Oversized
    <3>3. ready' /\ UNCHANGED <<ssd, index>>
      OBVIOUS
    <3> HIDE <1>4
    <3> QED BY <3>1, <3>2, <3>3 DEF CallStillValid, Oversized
  <2> QED BY <2>1, <2>2, <2>3, <2>4, <2>5, <2>6
<1> QED BY <1>3, <1>4 DEF GetSsdHit

(* A Put that goes to DRAM.                                                *)
LEMMA PutBeginInv ==
  ASSUME NodeInv, NEW k \in Key, NEW b \in Block, PutBegin(k, b)
  PROVE  NodeInv'
<1>1. /\ op.phase = "idle" /\ ready
      /\ UNCHANGED <<dramVars, ssdVars, index, policyVars, ready, aborted>>
  BY DEF PutBegin, Idle
<1>2. index[k] = PrimaryTier(k) /\ index[k] \in Tier /\ dram[k] \in Block \cup {NoBlock}
  BY <1>1 DEF NodeInv, IndexNamesPrimary, Unsettled, TypeOK, Store
<1>3. op' = PutOp("room", k, b) /\ UNCHANGED reply
  BY <1>2 DEF PutBegin, PrimaryTier
<1>4. index[k] = "dram" => dram[k] \in Block /\ dram[k].size \in Nat
  BY <1>2, SizeType DEF PrimaryTier
<1>5. op' \in OpType
  BY <1>2, <1>3, <1>4 DEF PutOp, OpType, Phase
<1> USE <1>1, <1>3 DEF NodeInv, dramVars, ssdVars, policyVars
<1>6. TypeOK'
  BY <1>5 DEF TypeOK
<1>7. TiersAsConfigured' /\ RecordsDecode' /\ DramWithinCapacity'
  BY DEF TiersAsConfigured, RecordsDecode, DramWithinCapacity, KeysOf, StatsOf, Cells
<1>8. IndexNamesPrimary' /\ PolicyTracksDram' /\ DefensiveChecksHold'
  BY DEF IndexNamesPrimary, PrimaryTier, Unsettled, PolicyTracksDram, KeysOf,
         DefensiveChecksHold, PutOp
<1>9. CallStillValid'
  <2>1. /\ op'.phase = "room" /\ op'.call = "Put" /\ op'.key = k /\ op'.block = b
        /\ op'.old = index[k]
        /\ op'.replaced = IF index[k] = "dram" THEN dram[k].size ELSE 0
    BY DEF PutOp
  <2>2. HasDram /\ ~Oversized(b) BY DEF PutBegin
  <2> HIDE <1>3
  <2> QED BY <2>1, <2>2 DEF CallStillValid, Oversized
<1> QED BY <1>6, <1>7, <1>8, <1>9

(* A Put refused for its size.                                             *)
LEMMA PutTooLargeInv ==
  ASSUME NodeInv, NEW k \in Key, NEW b \in Block, PutTooLarge(k, b)
  PROVE  NodeInv'
<1>1. reply' \in ReplyType /\ reply'.status = "OutOfCapacity" /\ op' = IdleOp
  BY DEF PutTooLarge, Return, Reply, ReplyType, Status
<1> QED BY <1>1, QuietReturn DEF PutTooLarge, Idle

(* A Put that goes to SSD reserves its index entry.                        *)
LEMMA DirectBeginInv ==
  ASSUME NodeInv, NEW k \in Key, NEW b \in Block, DirectBegin(k, b)
  PROVE  NodeInv'
<1>1. /\ op.phase = "idle" /\ ready /\ HasSsd
      /\ UNCHANGED <<dramVars, ssdVars, policyVars, ready, aborted>>
  BY DEF DirectBegin, Idle
<1>2. index[k] = PrimaryTier(k) /\ index[k] \in Tier /\ dram[k] \in Block \cup {NoBlock}
  BY <1>1 DEF NodeInv, IndexNamesPrimary, Unsettled, TypeOK, Store
<1>3. CASE /\ index[k] = "absent" /\ UNCHANGED index
           /\ Return("Put", k, "OutOfCapacity", NoBlock, TRUE)
  <2>1. reply' \in ReplyType /\ reply'.status = "OutOfCapacity" /\ op' = IdleOp
    BY <1>3 DEF Return, Reply, ReplyType, Status
  <2> QED BY <1>1, <1>3, <2>1, QuietReturn
<1>4. CASE /\ op' = PutOp("direct", k, b) /\ UNCHANGED reply
           /\ IF index[k] = "absent" THEN SetTier(k, "ssd") ELSE UNCHANGED index
  <2>1. op' \in OpType
    BY <1>2, <1>4 DEF PutOp, OpType, Phase
  <2>2. /\ index' \in [Key -> Tier]
        /\ \A j \in Key : j # k => index'[j] = index[j]
        /\ index'[k] = IF index[k] = "absent" THEN "ssd" ELSE index[k]
    BY <1>4 DEF NodeInv, TypeOK, SetTier, Tier
  <2> USE <1>1, <1>4 DEF NodeInv, dramVars, ssdVars, policyVars
  <2>3. TypeOK'
    BY <2>1, <2>2 DEF TypeOK
  <2>4. TiersAsConfigured' /\ RecordsDecode' /\ DramWithinCapacity'
    BY DEF TiersAsConfigured, RecordsDecode, DramWithinCapacity, KeysOf, StatsOf, Cells
  <2>5. PolicyTracksDram' /\ DefensiveChecksHold'
    BY DEF PolicyTracksDram, KeysOf, DefensiveChecksHold, PutOp
  <2>6. IndexNamesPrimary'
    BY <2>2 DEF IndexNamesPrimary, PrimaryTier, Unsettled, PutOp
  <2>7. CallStillValid'
    BY <1>2, <2>2 DEF CallStillValid, PutOp, PrimaryTier
  <2> QED BY <2>3, <2>4, <2>5, <2>6, <2>7
<1> QED BY <1>2, <1>3, <1>4 DEF DirectBegin, PrimaryTier

-----------------------------------------------------------------------------
(* Steps of a call in progress.                                            *)

(* Giving up returns a well-formed reply.                                  *)
LEMMA GiveUpReply ==
  ASSUME TypeOK, NEW status \in Status \ {"Internal", "Corruption"},
         NEW fault \in BOOLEAN, GiveUp(status, fault)
  PROVE  /\ op' = IdleOp /\ reply' \in ReplyType
         /\ reply'.status \notin {"Internal", "Corruption"}
<1>1. op.key \in Key \cup {NoKey} /\ op.block \in Block \cup {NoBlock}
  BY DEF TypeOK, OpType
<1>2. CASE op.call = "Put"
  BY <1>1, <1>2 DEF GiveUp, Return, Reply, ReplyType
<1>3. CASE op.call # "Put"
  <2>1. reply' = Reply("Get", op.key, "Ok", op.block, FALSE) /\ op' = IdleOp
    BY <1>3 DEF GiveUp, Return
  <2>2. "Ok" \in Status BY DEF Status
  <2> QED BY <1>1, <2>1, <2>2 DEF Reply, ReplyType
<1> QED BY <1>2, <1>3

(* No room and no way to make it; or no memory for the DRAM copy.          *)
LEMMA RefusedInv == NodeInv /\ (RoomRefused \/ DramStoreFails) => NodeInv'
<1> SUFFICES ASSUME NodeInv, RoomRefused \/ DramStoreFails PROVE NodeInv' OBVIOUS
<1>1. /\ op.phase = "room"
      /\ UNCHANGED <<dramVars, ssdVars, index, policyVars, ready, aborted>>
  BY DEF RoomRefused, DramStoreFails
<1>2. PICK status \in {"AlreadyExists", "OutOfCapacity"}, f \in BOOLEAN : GiveUp(status, f)
  BY DEF RoomRefused, DramStoreFails
<1>3. /\ op' = IdleOp /\ reply' \in ReplyType
      /\ reply'.status \notin {"Internal", "Corruption"}
  <2>1. status \in Status \ {"Internal", "Corruption"} BY <1>2 DEF Status
  <2>2. TypeOK BY DEF NodeInv
  <2> QED BY ONLY <1>2, <2>1, <2>2, GiveUpReply, f \in BOOLEAN
<1> QED BY <1>1, <1>3, QuietReturn

(* A victim is reserved: a resident other than the key being written.      *)
LEMMA DemoteSelectInv == NodeInv /\ DemoteSelect => NodeInv'
<1> SUFFICES ASSUME NodeInv, DemoteSelect PROVE NodeInv' OBVIOUS
<1> USE DEF NodeInv, DemoteSelect, dramVars, ssdVars, policyVars, SelectVictim, Enter
<1>1. /\ op.phase = "room" /\ op \in OpType
      /\ op' = [op EXCEPT !.phase = "demote"] /\ op' \in OpType
  BY DEF TypeOK, OpType, Phase
<1>2. /\ ready /\ op.key \in Key /\ HasPolicy /\ HasSsd /\ HasDram
      /\ reserved' \in resident \ {op.key} /\ reserved' \in Key
  <2>1. resident = KeysOf(dram) /\ HasPolicy
    BY <1>1 DEF PolicyTracksDram, MayDemote
  <2>2. op.old # "dram" => op.key \notin KeysOf(dram)
    <3>1. index[op.key] = PrimaryTier(op.key) /\ index[op.key] = op.old
      BY <1>1 DEF IndexNamesPrimary, Unsettled, CallStillValid
    <3> QED BY <3>1 DEF PrimaryTier, KeysOf
  <2>3. op.old = "dram" => Excluded = op.key
    BY <1>1 DEF Excluded, CallStillValid, OpType
  <2> QED BY <1>1, <2>1, <2>2, <2>3 DEF CallStillValid, MayDemote, TypeOK
<1>3. TypeOK'
  BY <1>1, <1>2 DEF TypeOK
<1>4. TiersAsConfigured' /\ RecordsDecode' /\ DramWithinCapacity'
  BY <1>2 DEF TiersAsConfigured, RecordsDecode, DramWithinCapacity, KeysOf, StatsOf, Cells
<1>5. PolicyTracksDram' /\ DefensiveChecksHold'
  BY <1>1, <1>2, KeysAssumption DEF PolicyTracksDram, KeysOf, DefensiveChecksHold, OpType
<1>6. IndexNamesPrimary'
  BY <1>1 DEF IndexNamesPrimary, PrimaryTier, Unsettled, OpType
<1>7. CallStillValid'
  BY <1>1, <1>2 DEF CallStillValid, OpType, Oversized
<1> QED BY <1>3, <1>4, <1>5, <1>6, <1>7

(* A reserved victim is a DRAM primary other than the key being written.   *)
LEMMA VictimIsPrimary ==
  ASSUME NodeInv, op.phase \in {"demote", "commit"}
  PROVE  /\ reserved \in Key /\ reserved # op.key /\ reserved \in resident
         /\ dram[reserved] \in Block /\ index[reserved] = "dram" /\ DemotePreflight
         /\ HasPolicy /\ HasSsd /\ HasDram /\ ready /\ ssdOpen
<1>1. /\ HasPolicy /\ HasSsd /\ HasDram /\ ready /\ ssdOpen
      /\ reserved \in resident /\ reserved # op.key
  BY DEF NodeInv, CallStillValid, TiersAsConfigured
<1>2. reserved \in Key /\ dram[reserved] # NoBlock
  BY <1>1 DEF NodeInv, PolicyTracksDram, KeysOf
<1>3. dram[reserved] \in Block
  BY <1>2 DEF NodeInv, TypeOK, Store
<1>4. index[reserved] = "dram"
  BY <1>1, <1>2 DEF NodeInv, IndexNamesPrimary, Unsettled, PrimaryTier
<1> QED BY <1>1, <1>2, <1>3, <1>4 DEF DemotePreflight, ValidateRelocate, ValidateVictimCommit

(* The victim is written to SSD; its DRAM copy is still the primary.       *)
LEMMA DemotePersistInv == NodeInv /\ DemotePersist => NodeInv'
<1> SUFFICES ASSUME NodeInv, DemotePersist PROVE NodeInv' OBVIOUS
<1>1. op.phase = "demote" /\ SsdPut(reserved, dram[reserved])
  BY DEF DemotePersist
<1>2. /\ reserved \in Key /\ reserved # op.key /\ reserved \in resident
      /\ dram[reserved] \in Block /\ HasPolicy /\ HasSsd /\ HasDram /\ ready /\ ssdOpen
  BY <1>1, VictimIsPrimary
<1>3. /\ ssd' \in Store /\ ssdStats' \in StatsType /\ ssdOpen' \in BOOLEAN
      /\ ssd' = [ssd EXCEPT ![reserved] = dram[reserved]]
  BY <1>1, <1>2, SsdPutType DEF NodeInv, TypeOK
<1>4. dram[reserved].valid /\ ssdOpen' = ssdOpen
  BY <1>1 DEF SsdPut, SsdWrite
<1>5. /\ op' = [op EXCEPT !.phase = "commit"] /\ op' \in OpType /\ op \in OpType
      /\ UNCHANGED <<dram, dramStats, index, resident, reserved, ready, aborted, reply>>
  BY DEF DemotePersist, Enter, NodeInv, TypeOK, OpType, Phase, dramVars, policyVars
<1>6. /\ \A k \in Key : k # reserved => ssd'[k] = ssd[k]
      /\ ssd'[reserved] = dram[reserved] /\ dram[reserved] # NoBlock /\ op.key \in Key
  BY <1>1, <1>2, <1>3, BlocksAssumption DEF NodeInv, TypeOK, Store, CallStillValid
<1>7. TypeOK'
  BY <1>3, <1>5 DEF NodeInv, TypeOK
<1>8. TiersAsConfigured' /\ DramWithinCapacity'
  BY <1>2, <1>4, <1>5 DEF NodeInv, TiersAsConfigured, DramWithinCapacity, KeysOf, StatsOf, Cells
<1>9. RecordsDecode'
  BY <1>4, <1>6 DEF NodeInv, RecordsDecode, KeysOf
<1>10. PolicyTracksDram' /\ DefensiveChecksHold'
  BY <1>1, <1>5 DEF NodeInv, PolicyTracksDram, KeysOf, DefensiveChecksHold, OpType
<1>11. IndexNamesPrimary'
  BY <1>1, <1>5, <1>6 DEF NodeInv, IndexNamesPrimary, PrimaryTier, Unsettled, OpType
<1>12. CallStillValid'
  BY <1>1, <1>2, <1>5, <1>6 DEF NodeInv, CallStillValid, OpType, Oversized
<1> QED BY <1>7, <1>8, <1>9, <1>10, <1>11, <1>12 DEF NodeInv

(* The demotion fails before the commit point and releases the victim.     *)
LEMMA DemoteFailsInv == NodeInv /\ DemoteFails => NodeInv'
<1> SUFFICES ASSUME NodeInv, DemoteFails PROVE NodeInv' OBVIOUS
<1>1. op.phase = "demote" BY DEF DemoteFails
<1>2. /\ DemotePreflight /\ index[reserved] = "dram" /\ ssdOpen
  BY <1>1, VictimIsPrimary
<1>3. DemoteErrors \subseteq Status \ {"Internal", "Corruption"}
  BY <1>2 DEF DemoteErrors, DemotePreflight, SsdPutErrors, Faults, Status
<1>4. PICK e \in DemoteErrors : GiveUp(e, DemotePreflight /\ e \in Faults)
  BY DEF DemoteFails
<1>5. (DemotePreflight /\ e \in Faults) \in BOOLEAN OBVIOUS
<1>6. /\ op' = IdleOp /\ reply' \in ReplyType
      /\ reply'.status \notin {"Internal", "Corruption"}
  BY <1>3, <1>4, <1>5, GiveUpReply DEF NodeInv
<1>7. /\ reserved' = NoKey
      /\ UNCHANGED <<dram, dramStats, ssd, ssdOpen, ssdStats, index, resident, ready, aborted>>
  BY DEF DemoteFails, CancelVictim, dramVars, ssdVars
<1> USE <1>1, <1>6, <1>7 DEF NodeInv
<1>8. TypeOK'
  BY DEF TypeOK, IdleOp, OpType, Phase, Tier
<1>9. TiersAsConfigured' /\ RecordsDecode' /\ DramWithinCapacity'
  BY DEF TiersAsConfigured, RecordsDecode, DramWithinCapacity, KeysOf, StatsOf, Cells
<1>10. IndexNamesPrimary' /\ PolicyTracksDram'
  BY DEF IndexNamesPrimary, PrimaryTier, Unsettled, PolicyTracksDram, KeysOf, IdleOp
<1>11. DefensiveChecksHold' /\ CallStillValid'
  BY IdleCall DEF DefensiveChecksHold
<1> QED BY <1>8, <1>9, <1>10, <1>11

(* The victim leaves DRAM: its SSD copy becomes the primary.               *)
LEMMA DemoteCommitInv == NodeInv /\ DemoteCommit => NodeInv'
<1> SUFFICES ASSUME NodeInv, DemoteCommit PROVE NodeInv' OBVIOUS
<1>1. op.phase = "commit" /\ DramErase(reserved)
  BY DEF DemoteCommit
<1>2. /\ reserved \in Key /\ reserved # op.key /\ reserved \in resident /\ DemotePreflight
      /\ dram[reserved] \in Block /\ HasPolicy /\ HasSsd /\ HasDram /\ ready /\ ssdOpen
  BY <1>1, VictimIsPrimary
<1>3. /\ dram' \in Store /\ dramStats' \in StatsType
      /\ dram' = [dram EXCEPT ![reserved] = NoBlock]
  BY <1>1, <1>2, DramEraseType, BlocksAssumption DEF NodeInv, TypeOK
<1>4. /\ op' = [op EXCEPT !.phase = "room"] /\ op' \in OpType /\ op \in OpType
      /\ index' = [index EXCEPT ![reserved] = "ssd"]
      /\ resident' = resident \ {reserved} /\ reserved' = NoKey
      /\ aborted' = (aborted \/ ~DemotePreflight)
      /\ UNCHANGED <<ssd, ssdStats, ssdOpen, ready, reply>>
  BY DEF DemoteCommit, SetTier, CommitVictim, Require, Enter, NodeInv, TypeOK, OpType,
         Phase, ssdVars
<1>5. /\ \A k \in Key : k # reserved => dram'[k] = dram[k] /\ index'[k] = index[k]
      /\ dram'[reserved] = NoBlock /\ index'[reserved] = "ssd" /\ index' \in [Key -> Tier]
      /\ ssd[reserved] # NoBlock /\ op.key \in Key /\ aborted' = aborted
  BY <1>1, <1>2, <1>3, <1>4, BlocksAssumption
     DEF NodeInv, TypeOK, Store, CallStillValid, Tier
<1>6. TypeOK'
  BY <1>3, <1>4, <1>5 DEF NodeInv, TypeOK
<1>7. DramWithinCapacity'
  BY <1>1, <1>2, DramEraseAccounting, BlocksAssumption DEF NodeInv, TypeOK, DramWithinCapacity
<1>8. TiersAsConfigured' /\ RecordsDecode'
  BY <1>2, <1>4 DEF NodeInv, TiersAsConfigured, RecordsDecode, KeysOf
<1>9. PolicyTracksDram'
  BY <1>1, <1>2, <1>4, <1>5 DEF NodeInv, PolicyTracksDram, KeysOf, OpType
<1>10. DefensiveChecksHold'
  BY <1>4, <1>5 DEF NodeInv, DefensiveChecksHold
<1>11. IndexNamesPrimary'
  BY <1>1, <1>4, <1>5 DEF NodeInv, IndexNamesPrimary, PrimaryTier, Unsettled, OpType
<1>12. CallStillValid'
  BY <1>1, <1>2, <1>4, <1>5 DEF NodeInv, CallStillValid, OpType, Oversized
<1> QED BY <1>6, <1>7, <1>8, <1>9, <1>10, <1>11, <1>12 DEF NodeInv

(* A Put straight to SSD takes effect, and an older DRAM copy goes.        *)
LEMMA DirectStoreInv == NodeInv /\ DirectStore => NodeInv'
<1> SUFFICES ASSUME NodeInv, DirectStore PROVE NodeInv' OBVIOUS
<1> DEFINE k == op.key
<1>1. /\ op.phase = "direct" /\ SsdPut(k, op.block) /\ op \in OpType
      /\ index' = [index EXCEPT ![k] = "ssd"] /\ ready' = ready
      /\ op' = IdleOp /\ reply' = Reply("Put", k, "Ok", op.block, FALSE)
      /\ aborted' = (aborted \/
           ~(/\ ValidateRelocate(k, IF op.old = "absent" THEN "ssd" ELSE op.old)
             /\ op.old = "dram" => dram[k] # NoBlock))
  BY DEF DirectStore, SetTier, Return, Require, NodeInv, TypeOK
<1>2. /\ k \in Key /\ op.block \in Block /\ HasSsd /\ PrimaryTier(k) = op.old
      /\ index[k] = (IF op.old = "absent" THEN "ssd" ELSE op.old) /\ ready
  BY <1>1 DEF NodeInv, CallStillValid
<1>3. op.old = "dram" <=> dram[k] # NoBlock
  BY <1>2 DEF PrimaryTier
<1>4. aborted' = aborted
  BY <1>1, <1>2, <1>3 DEF NodeInv, TypeOK, ValidateRelocate
<1>5. /\ ssd' \in Store /\ ssdStats' \in StatsType /\ ssdOpen' \in BOOLEAN
      /\ ssd' = [ssd EXCEPT ![k] = op.block] /\ op.block.valid /\ ssdOpen' = ssdOpen
  <2>1. ssd \in Store /\ ssdStats \in StatsType /\ ssdOpen \in BOOLEAN BY DEF NodeInv, TypeOK
  <2>2. op.block.valid /\ ssdOpen' = ssdOpen BY <1>1 DEF SsdPut, SsdWrite
  <2> HIDE DEF k
  <2> QED BY <1>1, <1>2, <2>1, <2>2, SsdPutType
<1>6. CASE op.old = "dram"
  <2>1. /\ DramErase(k) /\ dram[k] # NoBlock
        /\ IF HasPolicy THEN OnRemove(k) ELSE UNCHANGED policyVars
    BY <1>3, <1>6 DEF DirectStore
  <2>2. /\ dram' \in Store /\ dramStats' \in StatsType
        /\ dram' = [dram EXCEPT ![k] = NoBlock]
    <3>1. dram \in Store /\ dramStats \in StatsType BY DEF NodeInv, TypeOK
    <3> HIDE DEF k
    <3> QED BY <1>2, <2>1, <3>1, DramEraseType
  <2>3. DramWithinCapacity'
    <3>1. dram \in Store /\ dramStats \in StatsType /\ DramWithinCapacity BY DEF NodeInv, TypeOK
    <3> HIDE DEF k
    <3> QED BY <1>2, <2>1, <3>1, DramEraseAccounting DEF DramWithinCapacity
  <2>4. resident' = (IF HasPolicy THEN resident \ {k} ELSE resident) /\ reserved' = reserved
    BY <1>1, <1>2, <2>1, KeysAssumption
       DEF OnRemove, policyVars, NodeInv, PolicyTracksDram
  <2>5. TypeOK'
    BY <1>1, <1>2, <1>4, <1>5, <2>2, <2>4
       DEF NodeInv, TypeOK, Tier, IdleOp, OpType, Phase, Reply, ReplyType, Status
  <2>6. TiersAsConfigured'
    BY <1>1, <1>2, <1>5, <2>2, <2>4 DEF NodeInv, TypeOK, Store, TiersAsConfigured
  <2>7. RecordsDecode'
    BY <1>2, <1>5 DEF NodeInv, TypeOK, Store, RecordsDecode, KeysOf
  <2>8. PolicyTracksDram'
    BY <1>1, <1>2, <2>2, <2>4 DEF NodeInv, TypeOK, Store, PolicyTracksDram, KeysOf, IdleOp
  <2>9. IndexNamesPrimary'
    <3>1. dram \in Store /\ ssd \in Store /\ index \in [Key -> Tier] BY DEF NodeInv, TypeOK
    <3>2. \A j \in Key \ {k} : index[j] = PrimaryTier(j)
      BY <1>2, <1>1 DEF NodeInv, IndexNamesPrimary, Unsettled
    <3>3. op.block # NoBlock BY <1>2, BlocksAssumption
    <3> HIDE DEF k
    <3>4. ASSUME NEW j \in Key PROVE index'[j] = PrimaryTier(j)'
      <4>1. CASE j = k BY <1>1, <1>5, <3>1, <3>3, <4>1, <2>2 DEF PrimaryTier, Store
      <4>2. CASE j # k BY <1>1, <1>5, <3>1, <3>2, <4>2, <2>2 DEF PrimaryTier, Store
      <4> QED BY <4>1, <4>2
    <3> QED BY <3>4 DEF IndexNamesPrimary
  <2>10. DefensiveChecksHold' /\ CallStillValid'
    BY IdleCall, <1>1, <1>4 DEF NodeInv, DefensiveChecksHold, Reply
  <2> QED BY <2>3, <2>5, <2>6, <2>7, <2>8, <2>9, <2>10 DEF NodeInv
<1>7. CASE op.old # "dram"
  <2>1. UNCHANGED <<dram, dramStats, resident, reserved>> /\ dram[k] = NoBlock
    BY <1>3, <1>7 DEF DirectStore, dramVars, policyVars
  <2>2. TypeOK'
    BY <1>1, <1>2, <1>4, <1>5, <2>1
       DEF NodeInv, TypeOK, Tier, IdleOp, OpType, Phase, Reply, ReplyType, Status
  <2>3. TiersAsConfigured' /\ DramWithinCapacity'
    BY <1>1, <1>2, <1>5, <2>1
       DEF NodeInv, TiersAsConfigured, DramWithinCapacity, KeysOf, StatsOf, Cells
  <2>4. RecordsDecode'
    BY <1>2, <1>5 DEF NodeInv, TypeOK, Store, RecordsDecode, KeysOf
  <2>5. PolicyTracksDram'
    BY <1>1, <2>1 DEF NodeInv, PolicyTracksDram, KeysOf, IdleOp
  <2>6. IndexNamesPrimary'
    <3>1. dram \in Store /\ ssd \in Store /\ index \in [Key -> Tier] BY DEF NodeInv, TypeOK
    <3>2. \A j \in Key \ {k} : index[j] = PrimaryTier(j)
      BY <1>2, <1>1 DEF NodeInv, IndexNamesPrimary, Unsettled
    <3>3. op.block # NoBlock BY <1>2, BlocksAssumption
    <3> HIDE DEF k
    <3>4. ASSUME NEW j \in Key PROVE index'[j] = PrimaryTier(j)'
      <4>1. CASE j = k BY <1>1, <1>5, <3>1, <3>3, <4>1, <2>1 DEF PrimaryTier, Store
      <4>2. CASE j # k BY <1>1, <1>5, <3>1, <3>2, <4>2, <2>1 DEF PrimaryTier, Store
      <4> QED BY <4>1, <4>2
    <3> QED BY <3>4 DEF IndexNamesPrimary
  <2>7. DefensiveChecksHold' /\ CallStillValid'
    BY IdleCall, <1>1, <1>4 DEF NodeInv, DefensiveChecksHold, Reply
  <2> QED BY <2>2, <2>3, <2>4, <2>5, <2>6, <2>7 DEF NodeInv
<1> QED BY <1>6, <1>7

(* A Put straight to SSD fails: the reserved index entry is taken back.    *)
LEMMA DirectFailsInv == NodeInv /\ DirectFails => NodeInv'
<1> SUFFICES ASSUME NodeInv, DirectFails PROVE NodeInv' OBVIOUS
<1>1. /\ op.phase = "direct" /\ op \in OpType
      /\ UNCHANGED <<dram, dramStats, ssd, ssdOpen, ssdStats, resident, reserved, ready>>
  BY DEF DirectFails, NodeInv, TypeOK, dramVars, ssdVars, policyVars
<1>2. /\ op.key \in Key /\ op.block \in Block /\ HasSsd /\ PrimaryTier(op.key) = op.old
      /\ index[op.key] = (IF op.old = "absent" THEN "ssd" ELSE op.old) /\ ready
      /\ ssdOpen
  BY <1>1 DEF NodeInv, CallStillValid, TiersAsConfigured
<1>3. /\ op' = IdleOp /\ reply' \in ReplyType
      /\ reply'.status \notin {"Internal", "Corruption"}
  <2>1. PICK e \in SsdPutErrors(op.block) : Return("Put", op.key, e, NoBlock, e \in Faults)
    BY DEF DirectFails
  <2>2. e \in Status \ {"Internal", "Corruption"}
    BY <1>2, <2>1 DEF SsdPutErrors, Faults, Status
  <2>3. (e \in Faults) \in BOOLEAN OBVIOUS
  <2> QED BY <1>2, <2>1, <2>2, <2>3 DEF Return, Reply, ReplyType
<1>4. /\ aborted' = aborted /\ index' = [index EXCEPT ![op.key] = op.old]
      /\ index' \in [Key -> Tier]
  BY <1>1, <1>2 DEF DirectFails, Require, SetTier, NodeInv, TypeOK, OpType
<1> USE <1>1, <1>3, <1>4 DEF NodeInv
<1>5. TypeOK'
  BY DEF TypeOK, IdleOp, OpType, Phase, Tier
<1>6. TiersAsConfigured' /\ RecordsDecode' /\ DramWithinCapacity'
  BY DEF TiersAsConfigured, RecordsDecode, DramWithinCapacity, KeysOf, StatsOf, Cells
<1>7. PolicyTracksDram' /\ DefensiveChecksHold' /\ CallStillValid'
  BY IdleCall DEF PolicyTracksDram, KeysOf, DefensiveChecksHold, IdleOp
<1>8. IndexNamesPrimary'
  BY <1>2 DEF TypeOK, IndexNamesPrimary, PrimaryTier, Unsettled, IdleOp
<1> QED BY <1>5, <1>6, <1>7, <1>8

(* What holds when a call in its room loop has found room.                 *)
LEMMA RoomFacts ==
  ASSUME NodeInv, op.phase = "room", RoomAvailable
  PROVE  /\ op \in OpType /\ op.key \in Key /\ op.block \in Block /\ ready /\ HasDram
         /\ index[op.key] = op.old /\ index[op.key] = PrimaryTier(op.key)
         /\ op.old = "dram" <=> dram[op.key] # NoBlock
         /\ DramCapacity # 0 =>
              dramStats.bytes - (IF dram[op.key] = NoBlock THEN 0 ELSE dram[op.key].size)
                + op.block.size <= DramCapacity
<1>1. /\ op \in OpType /\ op.key \in Key /\ op.block \in Block /\ ready /\ HasDram
      /\ index[op.key] = op.old /\ index[op.key] = PrimaryTier(op.key)
      /\ op.replaced = IF op.old = "dram" THEN dram[op.key].size ELSE 0
  BY DEF NodeInv, TypeOK, CallStillValid, IndexNamesPrimary, Unsettled
<1>2. op.old = "dram" <=> dram[op.key] # NoBlock
  BY <1>1 DEF PrimaryTier
<1>3. DramCapacity # 0 => dramStats.bytes - op.replaced + op.block.size <= DramCapacity
  BY DEF RoomAvailable
<1> QED BY <1>1, <1>2, <1>3

(* A DRAM write by a call that has room.                                   *)
LEMMA RoomPut ==
  ASSUME NodeInv, op.phase = "room", RoomAvailable, DramPut(op.key, op.block)
  PROVE  /\ dram' \in Store /\ dramStats' \in StatsType
         /\ dram' = [dram EXCEPT ![op.key] = op.block] /\ DramWithinCapacity'
<1> DEFINE k == op.key
           b == op.block
<1>1. /\ k \in Key /\ b \in Block
      /\ DramCapacity # 0 =>
           dramStats.bytes - (IF dram[k] = NoBlock THEN 0 ELSE dram[k].size) + b.size
             <= DramCapacity
  BY RoomFacts
<1>2. dram \in Store /\ dramStats \in StatsType /\ DramWithinCapacity /\ DramPut(k, b)
  BY DEF NodeInv, TypeOK
<1> HIDE DEF k, b
<1>3. dram' \in Store /\ dramStats' \in StatsType /\ dram' = [dram EXCEPT ![k] = b]
  BY <1>1, <1>2, DramPutType DEF DramPut
<1>4. DramWithinCapacity'
  <2>1. CASE DramCapacity = 0
    BY <2>1 DEF DramWithinCapacity
  <2>2. CASE DramCapacity # 0
    <3>1. dramStats' = StatsOf(dram', 0) /\ dramStats'.bytes <= DramCapacity
      BY <1>1, <1>2, <2>2, DramPutAccounting DEF DramWithinCapacity
    <3> QED BY <3>1 DEF DramWithinCapacity
  <2> QED BY <2>1, <2>2
<1> QED BY <1>3, <1>4 DEF k, b

(* A DRAM primary is overwritten in place.                                 *)
LEMMA PutOverwriteInv == NodeInv /\ PutOverwrite => NodeInv'
<1> SUFFICES ASSUME NodeInv, PutOverwrite PROVE NodeInv' OBVIOUS
<1>1. op.phase = "room" /\ RoomAvailable /\ op.old = "dram"
  BY DEF PutOverwrite
<1>2. /\ op \in OpType /\ op.key \in Key /\ op.block \in Block /\ ready /\ HasDram
      /\ index[op.key] = "dram" /\ dram[op.key] # NoBlock
  BY <1>1, RoomFacts
<1>3. /\ DramPut(op.key, op.block) /\ Used(op.key) /\ op' = IdleOp
      /\ reply' = Reply("Put", op.key, "Ok", op.block, FALSE)
      /\ index' = [index EXCEPT ![op.key] = "dram"]
      /\ UNCHANGED <<ssd, ssdOpen, ssdStats, ready, aborted>>
  BY <1>2 DEF PutOverwrite, ValidateRelocate, SetTier, Return, ssdVars
<1>4. /\ dram' \in Store /\ dramStats' \in StatsType
      /\ dram' = [dram EXCEPT ![op.key] = op.block] /\ DramWithinCapacity'
  BY <1>1, <1>3, RoomPut
<1>5. UNCHANGED <<resident, reserved>>
  BY <1>1, <1>2, <1>3 DEF NodeInv, PolicyTracksDram, KeysOf, Used, OnAccess, policyVars
<1>6. index' = index
  BY <1>2, <1>3 DEF NodeInv, TypeOK
<1>7. /\ \A k \in Key : dram'[k] = NoBlock <=> dram[k] = NoBlock
  BY <1>2, <1>4, BlocksAssumption DEF NodeInv, TypeOK, Store
<1>8. TypeOK'
  BY <1>2, <1>3, <1>4, <1>5, <1>6
     DEF NodeInv, TypeOK, IdleOp, OpType, Phase, Tier, Reply, ReplyType, Status
<1>9. TiersAsConfigured' /\ RecordsDecode'
  BY <1>2, <1>3, <1>5 DEF NodeInv, TiersAsConfigured, RecordsDecode, KeysOf
<1>10. PolicyTracksDram'
  BY <1>1, <1>3, <1>5, <1>7 DEF NodeInv, PolicyTracksDram, KeysOf, IdleOp
<1>11. IndexNamesPrimary'
  BY <1>1, <1>3, <1>6, <1>7 DEF NodeInv, IndexNamesPrimary, PrimaryTier, Unsettled, IdleOp
<1>12. DefensiveChecksHold' /\ CallStillValid'
  BY IdleCall, <1>3 DEF NodeInv, DefensiveChecksHold, Reply
<1> QED BY <1>4, <1>8, <1>9, <1>10, <1>11, <1>12 DEF NodeInv

(* The block of a new or promoted key is written to DRAM.                  *)
LEMMA DramStoreInv == NodeInv /\ DramStore => NodeInv'
<1> SUFFICES ASSUME NodeInv, DramStore PROVE NodeInv' OBVIOUS
<1>1. op.phase = "room" /\ RoomAvailable /\ op.old # "dram"
  BY DEF DramStore
<1>2. /\ op \in OpType /\ op.key \in Key /\ op.block \in Block /\ ready /\ HasDram
      /\ index[op.key] = op.old /\ index[op.key] = PrimaryTier(op.key)
      /\ dram[op.key] = NoBlock
  BY <1>1, RoomFacts
<1>3. /\ DramPut(op.key, op.block)
      /\ op' = [op EXCEPT !.phase = "stored"] /\ op' \in OpType
      /\ UNCHANGED <<ssd, ssdOpen, ssdStats, index, resident, reserved, ready, aborted, reply>>
  BY <1>1, <1>2 DEF DramStore, ValidateRelocate, Enter, OpType, Phase, ssdVars, policyVars
<1>4. /\ dram' \in Store /\ dramStats' \in StatsType
      /\ dram' = [dram EXCEPT ![op.key] = op.block] /\ DramWithinCapacity'
  BY <1>1, <1>3, RoomPut
<1>5. /\ dram'[op.key] = op.block /\ op.block # NoBlock
      /\ \A k \in Key : k # op.key => dram'[k] = dram[k]
  BY <1>2, <1>4, BlocksAssumption DEF NodeInv, TypeOK, Store
<1>6. TypeOK'
  BY <1>3, <1>4 DEF NodeInv, TypeOK
<1>7. TiersAsConfigured' /\ RecordsDecode' /\ DefensiveChecksHold'
  BY <1>2, <1>3 DEF NodeInv, TiersAsConfigured, RecordsDecode, DefensiveChecksHold, KeysOf
<1>8. PolicyTracksDram'
  BY <1>1, <1>2, <1>3, <1>5 DEF NodeInv, PolicyTracksDram, KeysOf, OpType
<1>9. IndexNamesPrimary'
  BY <1>1, <1>2, <1>3, <1>5
     DEF NodeInv, IndexNamesPrimary, PrimaryTier, Unsettled, OpType
<1>10. op.old = "absent" <=> ssd[op.key] = NoBlock
  BY <1>2 DEF PrimaryTier
<1>11. CallStillValid'
  BY <1>1, <1>2, <1>3, <1>5, <1>10 DEF NodeInv, CallStillValid, OpType, Oversized
<1> QED BY <1>4, <1>6, <1>7, <1>8, <1>9, <1>11 DEF NodeInv

(* The policy learns of the new resident.                                  *)
LEMMA PolicyInsertInv == NodeInv /\ PolicyInsert => NodeInv'
<1> SUFFICES ASSUME NodeInv, PolicyInsert PROVE NodeInv' OBVIOUS
<1>1. /\ op.phase = "stored" /\ op \in OpType /\ op.key \in Key /\ dram[op.key] # NoBlock
      /\ op' = [op EXCEPT !.phase = "inserted"] /\ op' \in OpType
      /\ UNCHANGED <<dram, dramStats, ssd, ssdOpen, ssdStats, index, ready, aborted, reply>>
  BY BlocksAssumption DEF PolicyInsert, Enter, NodeInv, TypeOK, OpType, Phase,
                          CallStillValid, dramVars, ssdVars
<1>2. /\ resident' = IF HasPolicy THEN resident \cup {op.key} ELSE resident
      /\ reserved' = reserved
  BY DEF PolicyInsert, OnInsert, policyVars
<1> USE <1>1, <1>2 DEF NodeInv
<1>3. TypeOK'
  BY DEF TypeOK
<1>4. TiersAsConfigured' /\ RecordsDecode' /\ DramWithinCapacity'
  BY DEF TiersAsConfigured, RecordsDecode, DramWithinCapacity, KeysOf, StatsOf, Cells
<1>5. PolicyTracksDram' /\ DefensiveChecksHold'
  BY DEF PolicyTracksDram, KeysOf, DefensiveChecksHold, OpType
<1>6. IndexNamesPrimary'
  BY DEF IndexNamesPrimary, PrimaryTier, Unsettled, OpType
<1>7. CallStillValid'
  BY DEF CallStillValid, OpType, Oversized
<1> QED BY <1>3, <1>4, <1>5, <1>6, <1>7

(* What holds once the block is in DRAM and before the index names it.     *)
LEMMA StoredFacts ==
  ASSUME NodeInv, op.phase \in {"stored", "inserted"}
  PROVE  /\ op \in OpType /\ op.key \in Key /\ dram[op.key] = op.block
         /\ op.block \in Block /\ dram[op.key] # NoBlock /\ ready /\ HasDram
         /\ op.old # "dram" /\ index[op.key] = op.old
         /\ op.old = "absent" <=> ssd[op.key] = NoBlock
BY BlocksAssumption DEF NodeInv, TypeOK, CallStillValid

(* Taking the DRAM copy back, from the table and from the policy, leaves   *)
(* the key where it was.                                                   *)
LEMMA TakeBack ==
  ASSUME NodeInv, op.phase \in {"stored", "inserted"}, DramErase(op.key),
         Require(dram[op.key] # NoBlock), GiveUp("OutOfCapacity", TRUE),
         UNCHANGED <<ssdVars, index, ready>>, reserved' = reserved,
         resident' = IF HasPolicy THEN resident \ {op.key} ELSE resident
  PROVE  NodeInv'
<1> DEFINE k == op.key
<1>1. /\ k \in Key /\ dram[k] # NoBlock /\ ready /\ HasDram
      /\ op.old # "dram" /\ index[k] = op.old /\ op \in OpType
      /\ op.old = "absent" <=> ssd[k] = NoBlock
  BY StoredFacts
<1>2. /\ op' = IdleOp /\ reply' \in ReplyType
      /\ reply'.status \notin {"Internal", "Corruption"}
  <2>1. "OutOfCapacity" \in Status \ {"Internal", "Corruption"} /\ TRUE \in BOOLEAN
    BY DEF Status
  <2> QED BY <2>1, GiveUpReply DEF NodeInv
<1>3. aborted' = aborted /\ UNCHANGED <<ssd, ssdOpen, ssdStats>>
  BY <1>1 DEF Require, NodeInv, TypeOK, ssdVars
<1>4. /\ dram' \in Store /\ dramStats' \in StatsType
      /\ dram' = [dram EXCEPT ![k] = NoBlock] /\ DramWithinCapacity'
  <2>1. dram \in Store /\ dramStats \in StatsType /\ DramWithinCapacity /\ DramErase(k)
    BY DEF NodeInv, TypeOK
  <2> HIDE DEF k
  <2> QED BY <1>1, <2>1, DramEraseType, DramEraseAccounting DEF DramWithinCapacity
<1>5. /\ dram'[k] = NoBlock
      /\ \A j \in Key : j # k => dram'[j] = dram[j]
  BY <1>1, <1>4 DEF NodeInv, TypeOK, Store
<1>6. TypeOK'
  BY <1>2, <1>3, <1>4 DEF NodeInv, TypeOK, IdleOp, OpType, Phase, Tier
<1>7. TiersAsConfigured' /\ RecordsDecode'
  BY <1>1, <1>3 DEF NodeInv, TiersAsConfigured, RecordsDecode, KeysOf
<1>8. PolicyTracksDram'
  BY <1>1, <1>2, <1>5 DEF NodeInv, PolicyTracksDram, KeysOf, IdleOp
<1>9. IndexNamesPrimary'
  <2>1. ASSUME NEW j \in Key, j = k PROVE index[j] = PrimaryTier(j)'
    BY <1>1, <1>3, <1>5, <2>1 DEF PrimaryTier, OpType, Tier
  <2>2. ASSUME NEW j \in Key, j # k PROVE index[j] = PrimaryTier(j)'
    BY <1>1, <1>3, <1>5, <2>2 DEF NodeInv, IndexNamesPrimary, PrimaryTier, Unsettled
  <2> QED BY <2>1, <2>2 DEF IndexNamesPrimary
<1>10. DefensiveChecksHold' /\ CallStillValid'
  BY IdleCall, <1>2, <1>3 DEF NodeInv, DefensiveChecksHold
<1> QED BY <1>4, <1>6, <1>7, <1>8, <1>9, <1>10 DEF NodeInv

(* The policy refuses the new resident.                                    *)
LEMMA PolicyInsertFailsInv == NodeInv /\ PolicyInsertFails => NodeInv'
<1> SUFFICES ASSUME NodeInv, PolicyInsertFails PROVE NodeInv' OBVIOUS
<1>1. op.phase = "stored" /\ HasPolicy /\ UNCHANGED <<resident, reserved>>
  BY DEF PolicyInsertFails, policyVars
<1>2. resident \ {op.key} = resident
  BY <1>1 DEF NodeInv, PolicyTracksDram
<1> QED BY <1>1, <1>2, TakeBack DEF PolicyInsertFails

(* The index refuses the new entry.                                        *)
LEMMA PublishFailsInv == NodeInv /\ PublishFails => NodeInv'
<1> SUFFICES ASSUME NodeInv, PublishFails PROVE NodeInv' OBVIOUS
<1>1. op.phase = "inserted" /\ op.key \in Key
  BY StoredFacts DEF PublishFails
<1>2. /\ reserved' = reserved
      /\ resident' = IF HasPolicy THEN resident \ {op.key} ELSE resident
  BY <1>1, KeysAssumption DEF PublishFails, OnRemove, policyVars, NodeInv, PolicyTracksDram
<1> QED BY <1>1, <1>2, TakeBack DEF PublishFails

(* The index names the DRAM copy.                                          *)
LEMMA PublishInv == NodeInv /\ Publish => NodeInv'
<1> SUFFICES ASSUME NodeInv, Publish PROVE NodeInv' OBVIOUS
<1>1. /\ op.phase = "inserted" /\ op \in OpType /\ op.key \in Key /\ op.block \in Block
      /\ dram[op.key] # NoBlock /\ ready /\ index[op.key] = op.old
  BY StoredFacts DEF Publish
<1>2. /\ index' = [index EXCEPT ![op.key] = "dram"] /\ index' \in [Key -> Tier]
      /\ UNCHANGED <<dram, dramStats, ssd, ssdOpen, ssdStats, resident, reserved, ready>>
  BY DEF Publish, SetTier, NodeInv, TypeOK, Tier, dramVars, ssdVars, policyVars
<1>3. aborted' = aborted
  BY <1>1 DEF Publish, Require, ValidateRelocate, NodeInv, TypeOK
<1>4. op' = IdleOp /\ reply' \in ReplyType /\ reply'.status = "Ok"
  BY <1>1 DEF Publish, Return, Reply, OpType, ReplyType, Status
<1> USE <1>1, <1>2, <1>3, <1>4 DEF NodeInv
<1>5. TypeOK'
  BY DEF TypeOK, IdleOp, OpType, Phase, Tier
<1>6. TiersAsConfigured' /\ RecordsDecode' /\ DramWithinCapacity'
  BY DEF TiersAsConfigured, RecordsDecode, DramWithinCapacity, KeysOf, StatsOf, Cells
<1>7. PolicyTracksDram' /\ DefensiveChecksHold' /\ CallStillValid'
  BY IdleCall DEF PolicyTracksDram, KeysOf, DefensiveChecksHold, IdleOp
<1>8. IndexNamesPrimary'
  BY DEF TypeOK, IndexNamesPrimary, PrimaryTier, Unsettled, IdleOp
<1> QED BY <1>5, <1>6, <1>7, <1>8

-----------------------------------------------------------------------------
(* Every step of the node, and every stutter, preserves the invariant.     *)
LEMMA NextInv == NodeInv /\ [Next]_vars => NodeInv'
<1> SUFFICES ASSUME NodeInv, [Next]_vars PROVE NodeInv' OBVIOUS
<1>1. CASE Begin
  <2>1. CASE Open \/ OpenFails \/ Close
    BY <2>1, OpenInv, OpenFailsInv, CloseInv
  <2>2. ASSUME NEW k \in Key,
               Contains(k) \/ Probe(k) \/ \E call \in {"Put", "Get"} : Unavailable(call, k)
        PROVE  NodeInv'
    BY <2>2, ReadInv
  <2>3. ASSUME NEW k \in Key, NEW n \in BufferCapacity,
               GetFails(k, n) \/ GetDramHit(k, n) \/ GetSsdHit(k, n)
        PROVE  NodeInv'
    BY <2>3, ReadInv, GetDramHitInv, GetSsdHitInv
  <2>4. ASSUME NEW k \in Key, NEW b \in Block,
               PutBegin(k, b) \/ PutTooLarge(k, b) \/ DirectBegin(k, b)
        PROVE  NodeInv'
    BY <2>4, PutBeginInv, PutTooLargeInv, DirectBeginInv
  <2> QED BY <1>1, <2>1, <2>2, <2>3, <2>4 DEF Begin
<1>2. CASE Continue
  BY <1>2, DirectStoreInv, DirectFailsInv, RefusedInv, DemoteSelectInv, DemotePersistInv,
     DemoteFailsInv, DemoteCommitInv, PutOverwriteInv, DramStoreInv, PolicyInsertInv,
     PolicyInsertFailsInv, PublishInv, PublishFailsInv DEF Continue
<1>3. CASE Crash
  BY <1>3, CrashInv
<1>4. CASE UNCHANGED vars
  BY <1>4, StutterInv
<1> QED BY <1>1, <1>2, <1>3, <1>4 DEF Next

(* The inductive invariant holds in every behaviour of the node, for any   *)
(* keys, blocks, capacities and tier configuration.                        *)
THEOREM Invariant == Spec => []NodeInv
BY InitInv, NextInv, PTL DEF Spec

(* Every variable of storage_node.cpp keeps its type.                      *)
THEOREM TypeCorrect == Spec => []TypeOK
<1>1. NodeInv => TypeOK BY DEF NodeInv
<1> QED BY <1>1, Invariant, PTL

(* While the node is open the index names the tier of the newest copy of   *)
(* every key, through failures, restarts and crashes.                      *)
THEOREM IndexCorrect == Spec => []IndexNamesPrimary
<1>1. NodeInv => IndexNamesPrimary BY DEF NodeInv
<1> QED BY <1>1, Invariant, PTL

(* Policy and DRAM agree on what is resident, and no reservation leaks.    *)
THEOREM PolicyCorrect == Spec => []PolicyTracksDram
<1>1. NodeInv => PolicyTracksDram BY DEF NodeInv
<1> QED BY <1>1, Invariant, PTL

(* The DRAM counters are exact and DRAM never exceeds its capacity.        *)
THEOREM CapacityRespected == Spec => []DramWithinCapacity
<1>1. NodeInv => DramWithinCapacity BY DEF NodeInv
<1> QED BY <1>1, Invariant, PTL

(* No std::terminate and no Internal status: the preflight checks suffice. *)
THEOREM PreflightSuffices == Spec => []DefensiveChecksHold
<1>1. NodeInv => DefensiveChecksHold BY DEF NodeInv
<1> QED BY <1>1, Invariant, PTL

(* The node never stores a record that its next Open would reject.         *)
THEOREM RecordsReadable == Spec => []RecordsDecode
<1>1. NodeInv => RecordsDecode BY DEF NodeInv
<1> QED BY <1>1, Invariant, PTL

(* What a call on the node read at an earlier step still holds when it is  *)
(* used.                                                                   *)
THEOREM CallRemainsValid == Spec => []CallStillValid
<1>1. NodeInv => CallStillValid BY DEF NodeInv
<1> QED BY <1>1, Invariant, PTL
=============================================================================
