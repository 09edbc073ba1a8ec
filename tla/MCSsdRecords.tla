---------------------------- MODULE MCSsdRecords ----------------------------
(* Small instance of SsdRecords: keys of which two differ in one field     *)
(* only, blocks with distinct metadata fields, and databases with damaged  *)
(* or foreign records.                                                     *)
EXTENDS SsdRecords, TLC

Key1 == [prefix_hash |-> 9, prefix_len |-> 12, model_fingerprint |-> 3]
Key2 == [prefix_hash |-> 9, prefix_len |-> 12, model_fingerprint |-> 45]
Key3 == [prefix_hash |-> MaxUnsigned(8), prefix_len |-> 0, model_fingerprint |-> MaxUnsigned(4)]
MCKeys == {Key1, Key2, Key3}

Meta(tokens, model) ==
  [num_tokens |-> tokens, num_layers |-> 2, dtype_size |-> 1,
   kv_heads |-> IF tokens = 0 THEN 5 ELSE 1, created_unix_ns |-> 6000,
   model_fingerprint |-> model]
MCBlocks ==
  {[metadata |-> Meta(tokens, model), data |-> data] :
     tokens \in {0, 12}, model \in {3, 45, MaxUnsigned(4)}, data \in {<<>>, <<3, 0>>}}

Blob == SerializeBlock([metadata |-> Meta(12, 3), data |-> <<3, 0>>])

(* Blobs cut, extended, or with one header byte changed.                   *)
Damaged ==
  {SubSeq(Blob, 1, n) : n \in {0, 35, 36, 37}} \cup {Append(Blob, 0)}
    \cup {[Blob EXCEPT ![i] = (@ + 1) % Radix] : i \in {1, 2, 3, 4, 5, 25, 29, 36}}

(* "0000000000001001:12:3", the text of Key1, and texts like it that no    *)
(* Put writes.                                                             *)
Text == <<0, 0, 0, 0, 0, 0, 0, 0, 0, 0, 0, 0, 1, 0, 0, 1, Colon, 1, 2, Colon, 3>>
Aliases ==
  {SubSeq(Text, 1, 17) \o <<0>> \o SubSeq(Text, 18, Len(Text)),
   <<0>> \o Text, Tail(Text), Append(Text, Colon), SubSeq(Text, 1, 19), <<>>}

MCFound ==
  {[t \in {} |-> <<>>], Text :> Blob}
    \cup {Text :> damaged : damaged \in Damaged}
    \cup {KeyToString(Key2) :> Blob}
    \cup {(Text :> Blob) @@ (alias :> Blob) : alias \in Aliases}
=============================================================================
