----------------------------- MODULE WireFrames -----------------------------
(***************************************************************************)
(* Wire frames and their validation.  Lengths are counted in units: a key  *)
(* and the length field of an error message take one each.  `intact` says  *)
(* that magic, version, header size and flags are as expected, `decodes`   *)
(* that the content of the payload parses.  `call` is not on the wire: it  *)
(* tells which call a frame belongs to.                                    *)
(***************************************************************************)
EXTENDS Naturals, Sequences

CONSTANTS
  HeaderUnits,   \* kHeaderBytes
  MaxPayload,    \* max_frame_bytes - kHeaderBytes
  MaxErrorUnits  \* max_error_message_bytes

ASSUME FramesAssumption ==
  HeaderUnits \in Nat \ {0} /\ MaxPayload \in Nat /\ MaxErrorUnits \in Nat

Opcode == {"Get", "Put", "Ping"}
KeyUnits == 1
ErrorUnits == 1

(* The payload of a request; `blob` is the size of a Put's block.          *)
RequestUnits(opcode, blob) ==
  CASE opcode = "Get" -> KeyUnits
    [] opcode = "Put" -> KeyUnits + blob
    [] opcode = "Ping" -> 0

ValidateFrameSize(payload) == payload <= MaxPayload

ValidatePayloadLength(f) ==
  CASE f.kind = "request" ->
         /\ f.status = "Ok"
         /\ f.opcode = "Get" => f.len = KeyUnits
         /\ f.opcode = "Put" => f.len > KeyUnits
         /\ f.opcode = "Ping" => f.len = 0
    [] f.kind = "response" /\ f.status # "Ok" ->
         f.len \in ErrorUnits .. ErrorUnits + MaxErrorUnits
    [] f.kind = "response" /\ f.status = "Ok" -> (f.opcode = "Get") = (f.len > 0)

ValidateHeaderFields(f) ==
  f.intact /\ ValidateFrameSize(f.len) /\ ValidatePayloadLength(f)

(* The frame as it travels: unit i of f.                                   *)
Units(f) == [i \in 1 .. HeaderUnits + f.len |-> <<f, i>>]

(* The units read are the first ones of one frame.                         *)
Aligned(units) == \A i \in DOMAIN units : units[i] = <<units[1][1], i>>

(* DecodeHeader; bytes that do not start a frame have no magic.            *)
DecodesHeader(units) == Aligned(units) /\ ValidateHeaderFields(units[1][1])
=============================================================================
