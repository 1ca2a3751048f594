CONSTANTS
  Phone = {"f1", "f2"}
  Reference = {7}
  None = None
  Message <- Messages
  Text <- Texts
  TTL = 2
  MaxGroups = 1
  MaxTime = 2
  MaxSent = 2
  MaxRepeats = 1
  MaxFaults = 1
  MaxCrashes = 1
SPECIFICATION Spec
INVARIANTS StoredWasSent StoredOnce NothingMissing
CHECK_DEADLOCK FALSE
