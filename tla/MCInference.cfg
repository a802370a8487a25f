SPECIFICATION Spec
CONSTANTS
  Nodes = {n1, n2, n3}
  GpuNodes = {n2, n3}
  MaxLayers = 4
  Bandwidths = {500, 2500, 20000}
  Latencies = {50, 500}
  MaxLinks = 2
  Clients = {c1, c2}
  Sessions = {s1, s2}
  NoSession = NoSession
  Vocabulary = 3
  MaxTokens = 2
  MaxCalls = 4
  MaxPlans = 1
CHECK_DEADLOCK FALSE
INVARIANTS
  TypeOK
  EveryLayerPlaced
  StagesOnTheRightNodes
  PassesInOrder
PROPERTIES
  EveryPassIsComplete
  PauseHolds
  EveryCallReturns
