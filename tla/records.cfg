CONSTANTS
  HexBase = 2
  NoKey = NoKey
  NoBlock = NoBlock
  Keys <- MCKeys
  Blocks <- MCBlocks
  Found <- MCFound
SPECIFICATION RecordsSpec
INVARIANTS
  OpenMeansWritten
  OwnRecordsReopen
  CountersMatchDatabase
PROPERTY
  StepsOfSsdTier
