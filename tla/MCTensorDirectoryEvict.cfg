SPECIFICATION FairSpec
CONSTANTS
  Tensors = {x1}
  Nodes = {n1}
  Tasks = {t1, t2}
  NoTensor = NoTensor
  NoNode = NoNode
  MaxCalls = 2
CHECK_DEADLOCK FALSE
PROPERTIES
  EvictionEnds
