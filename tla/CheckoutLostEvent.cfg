SPECIFICATION FairSpec
CONSTANTS
  b1 = b1
  b2 = b2
  b3 = b3
  TrackIds = {t1, t2}
  OrderIds = {o1}
  UserPlanIds = {}
  Amounts <- MCAmounts
  AcceptedAmounts <- MCAcceptedAmounts
  VerifyRequests = {r1, r2}
  Users = {u1}
  Books = {b2}
  Price <- OnlyPaid
  MaxRetries = 0
  PayAfterFailure = TRUE
  MaxFaults = 1
  MaxProductFaults = 0
  NoTransaction = NoTransaction
  NoTrackId = NoTrackId
  NoOrder = NoOrder
  NoUser = NoUser
PROPERTY
  SuccessfulPaymentDelivers
CHECK_DEADLOCK FALSE
