------------------------------ MODULE BlockPool -----------------------------
(***************************************************************************)
(* What a client of a storage node may rely on: a write-back cache in      *)
(* front of a persistent store, with atomic calls.  Tiers, index, victims  *)
(* and promotion are not visible here.                                     *)
(***************************************************************************)
EXTENDS Keys

CONSTANTS Block, NoBlock

VARIABLES
  contents,  \* the block a Get returns
  backing,   \* the block that survives a crash
  up,        \* the node accepts calls
  answer     \* what the last call returned

poolVars == <<contents, backing, up, answer>>

PoolEmpty == [k \in Key |-> NoBlock]

Answer(call, k, status, b) ==
  answer' = [call |-> call, key |-> k, status |-> status, block |-> b]

PoolInit ==
  /\ contents = PoolEmpty /\ backing = PoolEmpty
  /\ up = FALSE
  /\ answer = [call |-> "none", key |-> NoKey, status |-> "Ok", block |-> NoBlock]

(* A successful Put replaces the block; it is durable at once or later.    *)
Write(k, b) ==
  /\ up
  /\ contents' = [contents EXCEPT ![k] = b]
  /\ backing' \in {backing, [backing EXCEPT ![k] = b]}
  /\ Answer("Put", k, "Ok", b)
  /\ UNCHANGED up

(* A successful read returns the newest block.                             *)
Read(k) ==
  /\ up /\ contents[k] # NoBlock
  /\ \/ \E call \in {"Get", "Probe"} : Answer(call, k, "Ok", contents[k])
     \/ Answer("Contains", k, "Ok", NoBlock)
  /\ UNCHANGED <<contents, backing, up>>

(* A failed call changes nothing.  Unavailable says that the node is down, *)
(* and NotFound is said of keys that are absent, and only to readers.      *)
Refuse(call, k, status) ==
  /\ status # "Ok"
  /\ up <=> status # "Unavailable"
  /\ status = "NotFound" => call # "Put" /\ contents[k] = NoBlock
  /\ Answer(call, k, status, NoBlock)
  /\ UNCHANGED <<contents, backing, up>>

(* Internal: a block becomes durable.                                      *)
WriteBack(k) ==
  /\ contents[k] # NoBlock
  /\ backing' = [backing EXCEPT ![k] = contents[k]]
  /\ UNCHANGED <<contents, up, answer>>

Start == /\ up' = TRUE
         /\ Answer("Open", NoKey, "Ok", NoBlock)
         /\ UNCHANGED <<contents, backing>>

StartFails(status) ==
  /\ ~up /\ status # "Ok"
  /\ Answer("Open", NoKey, status, NoBlock)
  /\ UNCHANGED <<contents, backing, up>>

(* An orderly stop loses nothing; a later Start finds the same contents.   *)
Stop == /\ up' = FALSE
        /\ Answer("Close", NoKey, "Ok", NoBlock)
        /\ UNCHANGED <<contents, backing>>

(* A crash takes every key back to its durable block.                      *)
Lose == /\ contents' = backing
        /\ up' = FALSE
        /\ Answer("none", NoKey, "Ok", NoBlock)
        /\ UNCHANGED backing

PoolStatus == {"Unavailable", "NotFound", "OutOfCapacity", "InvalidArgument", "IoError"}

PoolNext ==
  \/ \E k \in Key, b \in Block : Write(k, b)
  \/ \E k \in Key : Read(k) \/ WriteBack(k)
  \/ \E k \in Key, call \in {"Put", "Get", "Contains", "Probe"}, status \in PoolStatus :
       Refuse(call, k, status)
  \/ \E status \in PoolStatus \cup {"Corruption"} : StartFails(status)
  \/ Start \/ Stop \/ Lose

PoolSpec == PoolInit /\ [][PoolNext]_poolVars
=============================================================================
