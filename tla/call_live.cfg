CONSTANTS
  client = client
  s1 = s1
  s2 = s2
  modem = modem
  poller = poller
  timeout = timeout
  NoTask = none
  Clients = {client}
  Modem = modem
  Poller = poller
  Timer = timeout
  NoInst = noInst
  Task <- OneSocketTasks
  Sockets = {s1}
  Inst = {i1}
  Frontend = "app"
  Failing = {"dial", "answer", "record"}
  MaxCalls = 1
  MaxFaults = 1
  MaxCrashes = 0
  MaxQueue = 1
  AnyIndicator = FALSE
SPECIFICATION FairSpec
PROPERTIES Settles StreamsStop NobodyStarves
