SPECIFICATION RepairedSpec
CONSTANTS
  Agents = {a1}
  SuspectAfter = 3
  RemoveAfter = 5
  MonitorPeriod = 2
  LockDelay = 1
  HeartbeatEvery = 1
  Backoff = 1
  MaxAttempts = 3
  CallTime = 1
  MaxFaults = 2
PROPERTIES
  AutomaticReconnection
