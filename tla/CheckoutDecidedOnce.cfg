SPECIFICATION FairSpec
CONSTANTS
  b1 = b1
  b2 = b2
  b3 = b3
  TrackIds = {t1, t2}
  OrderIds = {o1}
  UserPlanIds = {}
  Amounts <- MCAmounts
  AcceptedAmounts <- MCAcceptedAmounts
  VerifyRequests = {r1, r2}
  Users = {u1}
  Books = {b2, b3}
  Price <- CheapAndPaid
  MaxRetries = 1
  PayAfterFailure = FALSE
  MaxFaults = 1
  MaxProductFaults = 1
  NoTransaction = NoTransaction
  NoTrackId = NoTrackId
  NoOrder = NoOrder
  NoUser = NoUser
INVARIANTS
  TypeOK
  ChargedOnce
  EventsAgree
PROPERTIES
  DecidedOnce
  AnnouncedPaymentDelivers
  ReturnedBuyerIsServed
  OrdersKeepPromise
CHECK_DEADLOCK FALSE
