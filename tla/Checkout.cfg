SPECIFICATION Spec
CONSTANTS
  b1 = b1
  b2 = b2
  b3 = b3
  TrackIds = {t1, t2}
  OrderIds = {o1, o2}
  UserPlanIds = {}
  Amounts <- MCAmounts
  AcceptedAmounts <- MCAcceptedAmounts
  VerifyRequests = {r1, r2}
  Users = {u1}
  Books = {b1, b2}
  Price <- FreeAndPaid
  MaxRetries = 0
  PayAfterFailure = TRUE
  MaxFaults = 0
  MaxProductFaults = 2
  NoTransaction = NoTransaction
  NoTrackId = NoTrackId
  NoOrder = NoOrder
  NoUser = NoUser
INVARIANTS
  PaidOrders
  PassedMessagesApplied
PROPERTY
  BasketKeepsBooks
CHECK_DEADLOCK FALSE
SYMMETRY Symmetry
