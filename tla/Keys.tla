-------------------------------- MODULE Keys --------------------------------
(***************************************************************************)
(* Block keys.  A BlockKey is compared for equality and hashed, never      *)
(* taken apart, by the store: it is a model value here.                    *)
(***************************************************************************)
CONSTANTS
  Key,    \* BlockKey values
  NoKey   \* std::nullopt for a key

ASSUME KeysAssumption == NoKey \notin Key
=============================================================================
