CONSTANTS
  x = x
  Key = {k1, k2, k3, k4, k5}
  NoKey = NoKey
  Block <- MCBlockAndLarge
  NoBlock = NoBlock
  HeaderBytes = 1
  MaxU64 = 100
  HasDram = TRUE
  HasSsd = TRUE
  HasPolicy = TRUE
  DramCapacity = 2
  BufferCapacity = {1}
  c = 2
  PUnit = 12
SYMMETRY KeySymmetry
VIEW WithoutReply
SPECIFICATION ArcNodeSpec
INVARIANTS
  ArcTracksDram
  GhostsBounded
