CONSTANTS
  k1 = k1
  k2 = k2
  k3 = k3
  x = x
  y = y
  Key = {k1, k2, k3}
  NoKey = NoKey
  Block <- MCEmptyBlock
  NoBlock = NoBlock
  HeaderBytes = 1
  MaxU64 = 100
  HasDram = TRUE
  HasSsd = TRUE
  HasPolicy = TRUE
  DramCapacity = 2
  BufferCapacity = {2}
SPECIFICATION FairSpec
PROPERTIES
  EveryCallReturns
