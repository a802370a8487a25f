SPECIFICATION ControlSpec
CONSTANTS
  Agents = {}
  SuspectAfter = 1
  RemoveAfter = 2
  MonitorPeriod = 2
  LockDelay = 1
  HeartbeatEvery = 1
  Backoff = 1
  MaxAttempts = 2
  CallTime = 1
  MaxFaults = 0
  PublicKeys = {k1}
  ChallengeExpiry = 2
  MaxIds = 1
  MaxPlans = 1
PROPERTIES
  DrainedNodesGetNoPlan
