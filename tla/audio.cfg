CONSTANTS
  w1 = w1
  w2 = w2
  ring = ring
  client = client
  admin = admin
  NoTask = none
  Task <- Tasks
  Socket = {w1, w2}
  Ring = ring
  Client = client
  Admin = admin
  MaxSessions = 2
  MaxCalls = 1
  MaxRequests = 1
  MaxFaults = 2
SPECIFICATION FairSpec
INVARIANTS MaintenanceAlone AdapterFree
PROPERTIES CallAudioUndisturbed NewCallRegistered
CHECK_DEADLOCK FALSE
