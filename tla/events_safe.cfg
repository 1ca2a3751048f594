CONSTANTS
  MaxCalls = 1
  MaxSms = 2
  MaxCommands = 1
  MaxLosses = 1
  MaxLines = 1
  Commands = {"query", "ATA", "ATH", "ATD"}
  Pauses = TRUE
SPECIFICATION Spec
INVARIANTS StreamInOrder ReportedOnce SmsKept
CHECK_DEADLOCK FALSE
