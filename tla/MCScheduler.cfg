SPECIFICATION Spec
CONSTANTS
  n1 = n1
  n2 = n2
  n3 = n3
  n4 = n4
  Nodes = {n1, n2, n3, n4}
  Healthy <- MCHealthy
  Score <- MCScore
  Order <- MCOrder
  TotalRam = 4096
  TotalVram = 4096
  MaxNodes = 2
  CpuPerNode = 30
  RamPerNode = 4
  VramPerNode = 2
  CpuLimit = 100
  Sessions = {s1, s2, s3}
  NoSession = NoSession
  ContextLengths = {2, 4}
  Tasks = {t1, t2, t3}
  ReuseIds = TRUE
  Drops = TRUE
SYMMETRY MCSymmetry
INVARIANTS
  TypeOK
  AllocationsAddUp
  ListsAddUp
PROPERTIES
  StatsCoverSessions
  ReservationsAreAtomic
