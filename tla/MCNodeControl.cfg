SPECIFICATION ControlSpec
CONSTANTS
  Agents = {}
  SuspectAfter = 1
  RemoveAfter = 2
  MonitorPeriod = 2
  LockDelay = 1
  HeartbeatEvery = 1
  Backoff = 1
  MaxAttempts = 2
  CallTime = 1
  MaxFaults = 1
  PublicKeys = {k1}
  ChallengeExpiry = 2
  MaxIds = 2
  MaxPlans = 1
INVARIANTS
  ControlTypeOK
  OneCertificateEach
PROPERTIES
  PlansOnServingNodes
