CONSTANTS
  client = client
  s1 = s1
  s2 = s2
  modem = modem
  poller = poller
  timeout = timeout
  NoTask = none
  Clients = {client}
  Modem = modem
  Poller = poller
  Timer = timeout
  NoInst = noInst
  Task <- OneSocketTasks
  Sockets = {s1}
  Inst = {}
  Frontend = "web"
  Failing = {"audio_start", "dial", "save"}
  MaxCalls = 2
  MaxFaults = 1
  MaxCrashes = 0
  MaxQueue = 1
  AnyIndicator = TRUE
SPECIFICATION Spec
INVARIANTS OneLiveCall NoOrphanLeg ActiveHasMedia NothingLeftBehind
