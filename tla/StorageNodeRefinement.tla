----------------------- MODULE StorageNodeRefinement ------------------------
(***************************************************************************)
(* StorageNode implements BlockPool.  The contents of the pool are the     *)
(* primary copies; a block that is in DRAM but not yet in the index does   *)
(* not count.  The backing store is the SSD.                               *)
(***************************************************************************)
EXTENDS StorageNode

Unpublished(k) == k = op.key /\ op.phase \in {"stored", "inserted"}

Visible(k) == IF dram[k] # NoBlock /\ ~Unpublished(k) THEN dram[k] ELSE ssd[k]

Pool == INSTANCE BlockPool WITH
  contents <- [k \in Key |-> Visible(k)],
  backing  <- ssd,
  up       <- ready,
  answer   <- [call |-> reply.call, key |-> reply.key,
               status |-> reply.status, block |-> reply.block]

(* Put, Get, Probe, Contains, Open and Close of storage_node.cpp are       *)
(* atomic on one map of newest blocks: no failed call, demotion,           *)
(* promotion or reopening changes what a later Get returns, and a crash    *)
(* takes a key back to the last block that was written to SSD.             *)
ImplementsPool == Pool!PoolSpec
=============================================================================
