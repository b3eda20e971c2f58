SPECIFICATION LoginSpec
CONSTANTS
  Codes = {k1}
  Creators = {c1, c2}
  Verifiers = {v1, v2}
  MaxAttempts = 2
  Timeout = 1
  Ttl = 3
  Slack = 1
  MaxTime = 3
  MaxOtpFaults = 1
  UserIds = {u1, u2}
  Refreshers = {f1}
  RefreshTtl = 1
  AccessTtl = 1
  Nil = Nil
INVARIANTS
  LoginTypeOK
  OneUser
  AccessEnds
PROPERTY
  CodesUsedUp
CHECK_DEADLOCK FALSE
SYMMETRY Symmetry
