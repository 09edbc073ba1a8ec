--------------------------- MODULE MCStorageNode ----------------------------
(* Small instances of StorageNode.                                         *)
EXTENDS StorageNodeRefinement, TLC

CONSTANTS k1, k2, k3, x, y

Blk(d, n, v) == [data |-> d, size |-> n, valid |-> v]

(* Payloads x and y.  Sizes below, at and above a DRAM capacity of 2, and  *)
(* one block whose metadata does not match its key.                        *)
MCBlock == {Blk(x, 1, TRUE), Blk(y, 2, TRUE), Blk(x, 3, TRUE), Blk(x, 1, FALSE)}

(* An empty block occupies no byte: demoting it frees none.                *)
MCEmptyBlock == {Blk(x, 0, TRUE), Blk(y, 2, TRUE)}

KeySymmetry == Permutations(Key)
=============================================================================
