SPECIFICATION FairPlanSpec
CONSTANTS
  TrackIds = {t1, t2}
  OrderIds = {}
  UserPlanIds = {p1}
  Amounts <- MCAmounts
  AcceptedAmounts <- MCAcceptedAmounts
  VerifyRequests = {r1, r2}
  Plans = {monthly}
  PlanPrices <- MCPlanPrices
  MaxRetries = 1
  PayAfterFailure = TRUE
  MaxFaults = 2
  MaxUserFaults = 1
  NoTransaction = NoTransaction
  NoTrackId = NoTrackId
  NoPlan = NoPlan
  NoUserPlan = NoUserPlan
INVARIANTS
  PlanTypeOK
  PaidUserPlans
PROPERTIES
  UserPlansKeepPromise
  PaymentGrantsPlan
CHECK_DEADLOCK FALSE
