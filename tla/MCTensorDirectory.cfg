SPECIFICATION Spec
CONSTANTS
  Tensors = {x1, x2}
  Nodes = {n1, n2}
  Tasks = {t1, t2, t3}
  NoTensor = NoTensor
  NoNode = NoNode
  MaxCalls = 4
SYMMETRY MCSymmetry
CHECK_DEADLOCK FALSE
INVARIANTS
  TypeOK
  IndexAddsUp
  OrderedCallsProceed
PROPERTIES
  CallsAreAtomic
  VersionsTellChanges
