CONSTANTS
  Key = {k1, k2, k3, k4}
  NoKey = NoKey
SPECIFICATION LruSpec
INVARIANTS
  OrderIsRecency
PROPERTIES
  VictimIsLeastRecent
  LruImplementsPolicy
