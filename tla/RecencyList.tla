----------------------------- MODULE RecencyList ----------------------------
(***************************************************************************)
(* The std::list of keys an eviction policy keeps, most recent first.      *)
(* pos_, a map from keys to iterators of the list, is derived from it.     *)
(***************************************************************************)
EXTENDS Keys, Integers, Sequences, FiniteSetsExt

(* erase(pos_[k]), if pos_ has k.                                          *)
Without(list, k) ==
  LET at == {i \in DOMAIN list : list[i] = k}
  IN  IF at = {} THEN list
      ELSE SubSeq(list, 1, Min(at) - 1) \o SubSeq(list, Min(at) + 1, Len(list))

PushFront(list, k) == <<k>> \o list

PopBack(list) == SubSeq(list, 1, Len(list) - 1)

(* The least recent key that is not excluded; NoKey if there is none.      *)
Oldest(list, excluded) ==
  LET others == {i \in DOMAIN list : list[i] # excluded}
  IN  IF others = {} THEN NoKey ELSE list[Max(others)]
=============================================================================
