SPECIFICATION Spec
CONSTANTS
  Connections = {c1, c2, c3}
  Clients = {c3}
  LengthUnit = 2
  BufferSize = 1
  MaxLength = 3
CHECK_DEADLOCK FALSE
INVARIANTS
  TypeOK
  CountIsAccounted
  AckedIsRead
PROPERTIES
  HandlersEnd
