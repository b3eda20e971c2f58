SPECIFICATION FairOtpSpec
CONSTANTS
  Codes = {k1, k2}
  Creators = {c1, c2}
  Verifiers = {v1, v2}
  MaxAttempts = 1
  Timeout = 1
  Ttl = 3
  Slack = 1
  MaxTime = 4
  MaxOtpFaults = 1
  Nil = Nil
INVARIANTS
  OtpTypeOK
  AttemptsLimited
  CountersLostToOlderCodes
PROPERTIES
  CodesThrottled
  NewestCodeStays
  CreatesEnd
CHECK_DEADLOCK FALSE
