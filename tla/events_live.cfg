CONSTANTS
  MaxCalls = 2
  MaxSms = 0
  MaxCommands = 1
  MaxLosses = 1
  MaxLines = 1
  Commands = {"query", "ATA"}
  Pauses = TRUE
SPECIFICATION FairSpec
PROPERTIES RingDelivered HangupDeliveredUnlessEaten
CHECK_DEADLOCK FALSE
