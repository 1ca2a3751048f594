CONSTANTS
  Inst = {i1, i2}
  Token = {t1, t2}
  NoToken = NoToken
  NoRequest = NoRequest
  Scope = {s1, s2}
  Retained = 1
  MaxSms = 2
  MaxTicks = 2
  MaxErrors = 1
  MaxCrashes = 1
SPECIFICATION FairSpec
INVARIANTS OneOwnerPerToken OwedExactly
PROPERTIES AckIsFinal FreshSurvives EveryJobTried
CHECK_DEADLOCK FALSE
