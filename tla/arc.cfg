CONSTANTS
  Key = {k1, k2, k3, k4}
  NoKey = NoKey
  c = 2
  PUnit = 12
SPECIFICATION ArcSpec
INVARIANTS
  ArcConsistent
  ArcVictimFound
PROPERTIES
  ArcImplementsPolicy
