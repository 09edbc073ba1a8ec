CONSTANTS
  k1 = k1
  k2 = k2
  k3 = k3
  x = x
  y = y
  Key = {k1, k2, k3}
  NoKey = NoKey
  Block <- MCBlock
  NoBlock = NoBlock
  HeaderBytes = 0
  MaxU64 = 3
  HasDram = TRUE
  HasSsd = FALSE
  HasPolicy = TRUE
  DramCapacity = 2
  BufferCapacity = {1, 3}
SYMMETRY KeySymmetry
SPECIFICATION Spec
INVARIANTS
  DramWithinCapacity
PROPERTIES
  ImplementsPool
