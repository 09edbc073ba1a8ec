CONSTANTS
  Object = {a, b}
  NoObject = NoObject
  Stopper = {t1}
  MaxFd = 2
  Timeout = {0, 1, 3}
  TicksPerMs = 2
  IntMax = 2
  TimeMax = 7
  MaxNow = 3
  MaxUnits = 2
  Window = 1
  Addresses = 1
SYMMETRY ObjectSymmetry
SPECIFICATION IoSpec
INVARIANTS
  OneOwnerPerFd
  
  WaitsWithinDeadline
  ShutdownWakes
PROPERTIES
  NoEarlyTimeout
  FailedStreamIsDead
