SPECIFICATION Spec
CONSTANTS
  Clients = {c1, c2, c3}
  Models = {m1, m2}
  Nodes = {n1, n2}
  None = None
  MaxCalls = 6
  MaxFaults = 2
SYMMETRY Symmetry
CHECK_DEADLOCK FALSE
INVARIANTS
  TypeOK
  RegisteredFilesAreWhole
  NoOrphans
