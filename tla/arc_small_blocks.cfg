CONSTANTS
  x = x
  Key = {k1, k2, k3}
  NoKey = NoKey
  Block <- MCBlock
  NoBlock = NoBlock
  HeaderBytes = 1
  MaxU64 = 100
  HasDram = TRUE
  HasSsd = TRUE
  HasPolicy = TRUE
  DramCapacity = 2
  BufferCapacity = {1}
  c = 1
  PUnit = 12
SYMMETRY KeySymmetry
SPECIFICATION ArcNodeSpec
INVARIANTS
  TotalBounded
