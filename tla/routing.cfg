CONSTANTS
  n1 = n1
  n2 = n2
  n3 = n3
  c1 = c1
  c2 = c2
  NodeId = {n1, n2, n3}
  NoNode = NoNode
  MaxVnodes = 2
  VnodeCount = {0, 2}
  KeyHash = {2}
  PointHash <- MCPointHash
  Hash <- MCHash
  MaxVersion = 3
  Client = {c1, c2}
  SelfNode <- MCSelfNode
  MaxRefreshes = 1
SPECIFICATION RoutingFairSpec
INVARIANT
  RoutersAgree
PROPERTIES
  MinimalRemap
  NoFalseUnavailable
  EveryRequestReturns
