----------------------------- MODULE BlockCodec -----------------------------
(***************************************************************************)
(* The two encodings the SSD tier stores: the text of a BlockKey and the   *)
(* self-describing blob of a Block, with the widths and offsets of the     *)
(* code.  Only the byte is scaled: it has Radix values, so that a hex      *)
(* digit, half a byte, has HexBase.                                        *)
(***************************************************************************)
EXTENDS Naturals, Sequences, FiniteSets

CONSTANTS
  HexBase,   \* values of a hex digit (16 in the code)
  NoKey,     \* KeyFromString refused the text
  NoBlock    \* DeserializeHeader refused the blob

ASSUME CodecAssumption == HexBase \in 2 .. 16

Radix == HexBase * HexBase

(* The number that digits, most significant first, stand for.              *)
Number(digits, base) ==
  LET value[i \in 0 .. Len(digits)] ==
        IF i = 0 THEN 0 ELSE value[i - 1] * base + digits[i]
  IN  value[Len(digits)]

(* The last n digits of v, most significant first: each is what is left of *)
(* v above the digits to its right, modulo the base.                       *)
Digits(v, base, n) ==
  LET rest[i \in 0 .. n] == IF i = 0 THEN v ELSE rest[i - 1] \div base
  IN  [i \in 1 .. n |-> rest[n - i] % base]

(* The largest integer of so many bytes: all of them 0xff.                 *)
MaxUnsigned(bytes) == Number([i \in 1 .. bytes |-> Radix - 1], Radix)

Unsigned(bytes) == 0 .. MaxUnsigned(bytes)
Byte == 0 .. Radix - 1

BlockKey == [prefix_hash : Unsigned(8), prefix_len : Unsigned(4), model_fingerprint : Unsigned(4)]

BlockMetadata ==
  [num_tokens : Unsigned(4), num_layers : Unsigned(4), dtype_size : Unsigned(2),
   kv_heads : Unsigned(2), created_unix_ns : Unsigned(8), model_fingerprint : Unsigned(4)]
Block == [metadata : BlockMetadata, data : Seq(Byte)]

ASSUME NoneAssumption == NoKey \notin BlockKey /\ NoBlock \notin Block

-----------------------------------------------------------------------------
(* Key text: <16 hex digits>:<decimal>:<decimal>.  A character is a digit, *)
(* or the colon.                                                           *)
Colon == 16

Decimal[n \in Nat] == IF n < 10 THEN <<n>> ELSE Append(Decimal[n \div 10], n % 10)

(* Mutant: the hash is not padded to 16 digits.                            *)
KeyToStringUnpadded(key) ==
  LET hex == Digits(key.prefix_hash, HexBase, 16)
      zeros == {n \in 0 .. 15 : \A i \in 1 .. n : hex[i] = 0}
  IN  SubSeq(hex, Cardinality(zeros), 16)
    \o <<Colon>> \o Decimal[key.prefix_len] \o <<Colon>> \o Decimal[key.model_fingerprint]

KeyToString(key) ==
  Digits(key.prefix_hash, HexBase, 16)
    \o <<Colon>> \o Decimal[key.prefix_len] \o <<Colon>> \o Decimal[key.model_fingerprint]

(* The text is a number of this base that fits the width.                  *)
IsUnsigned(text, base, bytes) ==
  /\ text # <<>>
  /\ \A i \in DOMAIN text : text[i] < base
  /\ Number(text, base) <= MaxUnsigned(bytes)

(* Mutant: a non-canonical text of the key is accepted.                    *)
KeyFromStringLenient(text) ==
  LET colons == {i \in DOMAIN text : text[i] = Colon}
      second == CHOOSE i \in colons : i # 17
      hash   == SubSeq(text, 1, 16)
      len    == SubSeq(text, 18, second - 1)
      model  == SubSeq(text, second + 1, Len(text))
  IN  IF /\ 17 \in colons /\ \A i \in colons : i >= 17
         /\ Cardinality(colons) = 2
         /\ IsUnsigned(hash, HexBase, 8) /\ IsUnsigned(len, 10, 4) /\ IsUnsigned(model, 10, 4)
      THEN [prefix_hash |-> Number(hash, HexBase), prefix_len |-> Number(len, 10),
            model_fingerprint |-> Number(model, 10)]
      ELSE NoKey

KeyFromString(text) ==
  LET colons == {i \in DOMAIN text : text[i] = Colon}
      second == CHOOSE i \in colons : i # 17
      hash   == SubSeq(text, 1, 16)
      len    == SubSeq(text, 18, second - 1)
      model  == SubSeq(text, second + 1, Len(text))
      key    == [prefix_hash |-> Number(hash, HexBase), prefix_len |-> Number(len, 10),
                 model_fingerprint |-> Number(model, 10)]
  IN  IF /\ 17 \in colons /\ \A i \in colons : i >= 17
         /\ Cardinality(colons) = 2
         /\ IsUnsigned(hash, HexBase, 8) /\ IsUnsigned(len, 10, 4) /\ IsUnsigned(model, 10, 4)
         /\ KeyToString(key) = text
      THEN key ELSE NoKey

-----------------------------------------------------------------------------
(* Blobs: a header of fixed fields, little-endian, then the payload.       *)
kMagic == <<1, 2>>
kVersion == 1
kSerdeRaw == 0
kHeaderSize == 36

Put(bytes, v) == [i \in 1 .. bytes |-> Digits(v, Radix, bytes)[bytes + 1 - i]]
Get(blob, offset, bytes) ==
  Number([i \in 1 .. bytes |-> blob[offset + bytes + 1 - i]], Radix)

(* Mutant: dtype_size is written in the place of kv_heads.                 *)
SerializeBlockTwice(block) ==
  kMagic \o <<kVersion, kSerdeRaw>>
    \o Put(4, block.metadata.num_tokens) \o Put(4, block.metadata.num_layers)
    \o Put(2, block.metadata.dtype_size) \o Put(2, block.metadata.dtype_size)
    \o Put(8, block.metadata.created_unix_ns) \o Put(4, block.metadata.model_fingerprint)
    \o Put(8, Len(block.data)) \o block.data

SerializeBlock(block) ==
  kMagic \o <<kVersion, kSerdeRaw>>
    \o Put(4, block.metadata.num_tokens) \o Put(4, block.metadata.num_layers)
    \o Put(2, block.metadata.dtype_size) \o Put(2, block.metadata.kv_heads)
    \o Put(8, block.metadata.created_unix_ns) \o Put(4, block.metadata.model_fingerprint)
    \o Put(8, Len(block.data)) \o block.data

IsBlob(blob) ==
  /\ Len(blob) >= kHeaderSize
  /\ SubSeq(blob, 1, 2) = kMagic /\ blob[3] = kVersion /\ blob[4] = kSerdeRaw
  /\ Get(blob, 28, 8) = Len(blob) - kHeaderSize

(* DeserializeHeader, and the payload at the offset it returns.            *)
Deserialize(blob) ==
  IF ~IsBlob(blob) THEN NoBlock
  ELSE [metadata |-> [num_tokens        |-> Get(blob, 4, 4),
                      num_layers        |-> Get(blob, 8, 4),
                      dtype_size        |-> Get(blob, 12, 2),
                      kv_heads          |-> Get(blob, 14, 2),
                      created_unix_ns   |-> Get(blob, 16, 8),
                      model_fingerprint |-> Get(blob, 24, 4)],
        data     |-> SubSeq(blob, kHeaderSize + 1, Len(blob))]
=============================================================================
