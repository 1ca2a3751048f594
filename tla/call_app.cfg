CONSTANTS
  client = client
  s1 = s1
  s2 = s2
  modem = modem
  poller = poller
  timeout = timeout
  NoTask = none
  Clients = {client}
  Modem = modem
  Poller = poller
  Timer = timeout
  NoInst = noInst
  Task <- TwoSocketTasks
  Sockets = {s1, s2}
  Inst = {i1, i2}
  Frontend = "app"
  Failing = {"audio_start", "audio_stop", "dial", "answer", "hangup"}
  MaxCalls = 1
  MaxFaults = 1
  MaxCrashes = 1
  MaxQueue = 1
  AnyIndicator = FALSE
SPECIFICATION Spec
SYMMETRY CallSymmetry
CONSTRAINT RestartMeetsCall
INVARIANTS TypeOK PendingHasExit OneSocketPerCall DtmfInsideCall HistoryAgrees
PROPERTIES LifecycleSpec
