SPECIFICATION FairSpec
CONSTANTS
  Clients = {c1}
  Jobs = {j1}
  NoJob = NoJob
  Trainers = {r1}
  Epochs = 2
  MaxCalls = 4
CHECK_DEADLOCK FALSE
PROPERTIES
  ResumeIsHeard
