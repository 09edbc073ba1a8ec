CONSTANTS
  HeaderUnits = 2
  MaxPayload = 2
  MaxErrorUnits = 0
  Session = {1, 2, 3}
  MaxCalls = 3
  MaxId = 3
  FirstId = 2
  BlobUnits = {1, 2}
  UnrulyCalls = {1}
SPECIFICATION RpcFairSpec
INVARIANTS
  IdleInStep
  NoFalseCorruption
PROPERTIES
  ImplementsRemoteCall
  EveryRpcReturns
