CONSTANTS
  c1 = c1
  c2 = c2
  m1 = m1
  m2 = m2
  m3 = m3
  NoTask = none
  Lost = lost
  Leaving = leaving
  Task <- PortTasks
  Clients = {c1, c2}
  Monitors = {m1, m2, m3}
  Ops = {"at", "exclusive"}
  Slow = {"open", "configure", "publish", "announce", "turn", "report", "close", "closing", "sleep"}
  Faults = {"open", "configure", "read", "command"}
  MaxRequests = 2
  MaxFaults = 1
SPECIFICATION Spec
INVARIANTS ExclusiveAlone
