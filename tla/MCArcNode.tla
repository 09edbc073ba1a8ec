------------------------------ MODULE MCArcNode -----------------------------
(* Small instances of ArcNode: blocks of one byte.                         *)
EXTENDS ArcNode, TLC

CONSTANT x

MCBlock == {[data |-> x, size |-> 1, valid |-> TRUE]}

(* Plus one that goes straight to SSD, and takes its key out of DRAM.      *)
MCBlockAndLarge == MCBlock \cup {[data |-> x, size |-> 3, valid |-> TRUE]}

KeySymmetry == Permutations(Key)

(* What the node returned last decides nothing.                            *)
WithoutReply == <<dramVars, ssdVars, index, policyVars, ready, aborted, op, arc>>
=============================================================================
