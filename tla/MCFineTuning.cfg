SPECIFICATION FairSpec
CONSTANTS
  Clients = {c1, c2}
  Jobs = {j1, j2}
  NoJob = NoJob
  Trainers = {r1, r2}
  Epochs = 2
  MaxCalls = 5
CHECK_DEADLOCK FALSE
INVARIANTS
  TypeOK
  RunningJobsAreTrained
PROPERTIES
  JobsFollowLifecycle
  ProgressGoesOn
  TrainingEnds
