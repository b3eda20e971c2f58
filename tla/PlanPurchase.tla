---------------------------- MODULE PlanPurchase ----------------------------
(***************************************************************************)
(* Premium plans in the user service: user/src/plan/plan.service.ts keeps  *)
(* the plans, user/src/user/user.service.ts sells them (purchasePlan) and  *)
(* consumes the plan topic of the transaction service it calls.  A         *)
(* purchase is identified with the user plan it creates; who buys it, and  *)
(* the date on which it expires, are left out.                             *)
(***************************************************************************)
EXTENDS TransactionService

CONSTANTS
  Plans,
  PlanPrices,        \* prices an admin gives a plan; CreatePlanDto allows 0
  MaxRetries,        \* 3 in purchasePlan
  MaxUserFaults,     \* bound on exceptions and crashes of the user service
  NoPlan,            \* no document under a plan id
  NoUserPlan         \* no document under a user plan id

ASSUME PlanPricesAssumption == PlanPrices \subseteq Amounts
ASSUME MaxRetriesAssumption == MaxRetries \in Nat
ASSUME MaxUserFaultsAssumption == MaxUserFaults \in Nat

VARIABLES
  plans,             \* [Plans -> Plan \cup {NoPlan}]
  userPlans,         \* [UserPlanIds -> UserPlan \cup {NoUserPlan}]
  purchases,         \* the purchasePlan handler of each user plan
  planConsumer,      \* the consumer of the plan topic, and its group's offset
  userFaults         \* faults so far, at most MaxUserFaults

userVars == <<plans, userPlans, purchases, planConsumer, userFaults>>

planVars == <<serviceVars, userVars>>

Plan == [price : PlanPrices, isActive : BOOLEAN]

UserPlan == [plan : Plans, price : PlanPrices, status : Statuses]

ASSUME NoPlanAssumption == NoPlan \notin Plan
ASSUME NoUserPlanAssumption == NoUserPlan \notin UserPlan

PurchaseSteps == {"creating", "calling", "waiting", "rejecting"}

(* A purchase that has begun has read its plan. *)
PurchaseHandler == [pc : PurchaseSteps \cup {"returned", "thrown"}, plan : Plans,
                    price : PlanPrices, retries : 0 .. MaxRetries]

NoPurchase == [pc |-> "idle"]

PlanTypeOK ==
  /\ ServiceTypeOK
  /\ plans \in [Plans -> Plan \cup {NoPlan}]
  /\ userPlans \in [UserPlanIds -> UserPlan \cup {NoUserPlan}]
  /\ purchases \in [UserPlanIds -> PurchaseHandler \cup {NoPurchase}]
  /\ planConsumer \in [pc : {"idle", "resolving"}, offset : Nat, committed : Nat]
  /\ userFaults \in 0 .. MaxUserFaults

PlanInit ==
  /\ ServiceInit
  /\ plans = [p \in Plans |-> NoPlan]
  /\ userPlans = [id \in UserPlanIds |-> NoUserPlan]
  /\ purchases = [id \in UserPlanIds |-> NoPurchase]
  /\ planConsumer = [pc |-> "idle", offset |-> 0, committed |-> 0]
  /\ userFaults = 0
-----------------------------------------------------------------------------
CreatePlan(p, price) ==
  /\ plans[p] = NoPlan
  /\ plans' = [plans EXCEPT ![p] = [price |-> price, isActive |-> TRUE]]
  /\ UNCHANGED <<serviceVars, userPlans, purchases, planConsumer, userFaults>>

(* updatePlan: a plan that was deleted is updated like any other. *)
UpdatePlan(p, price) ==
  /\ plans[p] # NoPlan
  /\ plans' = [plans EXCEPT ![p].price = price]
  /\ UNCHANGED <<serviceVars, userPlans, purchases, planConsumer, userFaults>>

(* deletePlan: a soft delete. *)
DeletePlan(p) ==
  /\ plans[p] # NoPlan
  /\ plans' = [plans EXCEPT ![p].isActive = FALSE]
  /\ UNCHANGED <<serviceVars, userPlans, purchases, planConsumer, userFaults>>
-----------------------------------------------------------------------------
(* purchasePlan reads the plan's price: isActive is not looked at. *)
ReadPlan(id, p) ==
  /\ purchases[id].pc = "idle"
  /\ plans[p] # NoPlan
  /\ purchases' = [purchases EXCEPT ![id] = [pc |-> "creating", plan |-> p,
                                             price |-> plans[p].price, retries |-> MaxRetries]]
  /\ UNCHANGED <<serviceVars, plans, userPlans, planConsumer, userFaults>>

(* userPlanModel.create: the status is the schema's default. *)
CreateUserPlan(id) ==
  /\ purchases[id].pc = "creating"
  /\ userPlans' = [userPlans EXCEPT ![id] = [plan |-> purchases[id].plan,
                                             price |-> purchases[id].price,
                                             status |-> "PENDING"]]
  /\ purchases' = [purchases EXCEPT ![id].pc = "calling"]
  /\ UNCHANGED <<serviceVars, plans, planConsumer, userFaults>>

(* The HTTP client posts the transaction, at first or again after its delay. *)
CallTransaction(id) ==
  /\ purchases[id].pc = "calling"
  /\ CallCreateTransaction(id, purchases[id].price)
  /\ purchases' = [purchases EXCEPT ![id].pc = "waiting"]
  /\ UNCHANGED <<plans, userPlans, planConsumer, userFaults>>

(* Faulty TakeReply: the last retry is not counted. *)
TakeReplyOnceMore(id) ==
  LET reply == creating[id].pc
      again == reply = "error" /\ purchases[id].retries >= 0
  IN  /\ purchases[id].pc = "waiting"
      /\ EndCall(id)
      /\ purchases' = [purchases EXCEPT
                         ![id].pc = IF again THEN "calling" ELSE "thrown",
                         ![id].retries = IF again THEN @ - 1 ELSE @]
      /\ UNCHANGED <<plans, userPlans, planConsumer, userFaults>>

(* retryRequest of the user service; a free plan's 400 is among the failures thrown. *)
TakeReply(id) ==
  LET reply == creating[id].pc
      again == reply = "error" /\ purchases[id].retries > 0
  IN  /\ purchases[id].pc = "waiting"
      /\ EndCall(id)
      /\ \/ /\ reply = "created"
            /\ purchases' = [purchases EXCEPT ![id].pc = "returned"]
         \/ /\ reply = "refused"
            /\ purchases' = [purchases EXCEPT ![id].pc = "rejecting"]
         \/ /\ again
            /\ purchases' = [purchases EXCEPT ![id].pc = "calling", ![id].retries = @ - 1]
         \/ /\ reply \notin {"created", "refused"} /\ ~ again
            /\ purchases' = [purchases EXCEPT ![id].pc = "thrown"]
      /\ UNCHANGED <<plans, userPlans, planConsumer, userFaults>>

(* transaction.success is false: the user plan fails and the user gets a 400. *)
RejectUserPlan(id) ==
  /\ purchases[id].pc = "rejecting"
  /\ userPlans' = [userPlans EXCEPT ![id].status = "FAILURE"]
  /\ purchases' = [purchases EXCEPT ![id].pc = "returned"]
  /\ UNCHANGED <<serviceVars, plans, planConsumer, userFaults>>

(* An await on the database rejects, before or after its effect. *)
PurchaseThrows(id) ==
  /\ userFaults < MaxUserFaults
  /\ purchases[id].pc \in PurchaseSteps \ {"waiting"}
  /\ purchases' = [purchases EXCEPT ![id].pc = "thrown"]
  /\ userFaults' = userFaults + 1
  /\ UNCHANGED <<serviceVars, plans, userPlans, planConsumer>>
-----------------------------------------------------------------------------
PlanTopic == topics["PLAN"]

(* Faulty UpdateUserPlan: a message means success. *)
UpdateUserPlanCompletes ==
  LET message == PlanTopic[planConsumer.offset + 1]
  IN  /\ planConsumer.pc = "idle"
      /\ planConsumer.offset < Len(PlanTopic)
      /\ userPlans' = [userPlans EXCEPT ![message.id].status = "COMPLETED"]
      /\ planConsumer' = [planConsumer EXCEPT !.pc = "resolving"]
      /\ UNCHANGED <<serviceVars, plans, purchases, userFaults>>

(* handleUserPlanTransaction: the user plan, if there is one, takes the message's *)
(* status, whatever its own is.                                                   *)
UpdateUserPlan ==
  LET message == PlanTopic[planConsumer.offset + 1]
  IN  /\ planConsumer.pc = "idle"
      /\ planConsumer.offset < Len(PlanTopic)
      /\ userPlans' = [userPlans EXCEPT ![message.id] =
                         IF @ = NoUserPlan THEN @ ELSE [@ EXCEPT !.status = message.status]]
      /\ planConsumer' = [planConsumer EXCEPT !.pc = "resolving"]
      /\ UNCHANGED <<serviceVars, plans, purchases, userFaults>>

(* eachMessage returns and kafkajs resolves the message. *)
ResolveMessage ==
  /\ planConsumer.pc = "resolving"
  /\ planConsumer' = [planConsumer EXCEPT !.pc = "idle", !.offset = @ + 1]
  /\ UNCHANGED <<serviceVars, plans, userPlans, purchases, userFaults>>

CommitOffsets ==
  /\ planConsumer.committed < planConsumer.offset
  /\ planConsumer' = [planConsumer EXCEPT !.committed = planConsumer.offset]
  /\ UNCHANGED <<serviceVars, plans, userPlans, purchases, userFaults>>

(* Faulty UserCrash: the consumer starts at the end of the topic, as it does *)
(* without fromBeginning when the group has no committed offset.             *)
UserCrashAtEnd ==
  /\ userFaults < MaxUserFaults
  /\ purchases' = [id \in UserPlanIds |->
                     IF purchases[id].pc \in PurchaseSteps
                     THEN [purchases[id] EXCEPT !.pc = "thrown"] ELSE purchases[id]]
  /\ planConsumer' = [planConsumer EXCEPT
                        !.pc = "idle",
                        !.offset = IF planConsumer.committed = 0
                                   THEN Len(PlanTopic) ELSE planConsumer.committed]
  /\ userFaults' = userFaults + 1
  /\ UNCHANGED <<serviceVars, plans, userPlans>>

(* The process dies and is restarted, and onModuleInit subscribes again: the *)
(* consumer goes back to the committed offset.                               *)
UserCrash ==
  /\ userFaults < MaxUserFaults
  /\ purchases' = [id \in UserPlanIds |->
                     IF purchases[id].pc \in PurchaseSteps
                     THEN [purchases[id] EXCEPT !.pc = "thrown"] ELSE purchases[id]]
  /\ planConsumer' = [planConsumer EXCEPT !.pc = "idle", !.offset = planConsumer.committed]
  /\ userFaults' = userFaults + 1
  /\ UNCHANGED <<serviceVars, plans, userPlans>>
-----------------------------------------------------------------------------
PurchaseStep(id) ==
  CreateUserPlan(id) \/ CallTransaction(id) \/ TakeReply(id) \/ RejectUserPlan(id)

PlanConsumerStep == UpdateUserPlan \/ ResolveMessage

UserNext ==
  \/ \E p \in Plans : \/ \E price \in PlanPrices : CreatePlan(p, price) \/ UpdatePlan(p, price)
                      \/ DeletePlan(p)
  \/ \E id \in UserPlanIds : \/ \E p \in Plans : ReadPlan(id, p)
                             \/ PurchaseStep(id) \/ PurchaseThrows(id)
  \/ PlanConsumerStep \/ CommitOffsets \/ UserCrash

PlanNext ==
  \/ UserNext
  \/ InternalNext /\ UNCHANGED userVars

PlanSpec == PlanInit /\ [][PlanNext]_planVars

(* Both processes run their handlers, and the consumer takes what is in the topic. *)
PlanFairness ==
  /\ \A id \in UserPlanIds : /\ WF_planVars(CreateStep(id) /\ UNCHANGED userVars)
                             /\ WF_planVars(PurchaseStep(id))
  /\ \A r \in VerifyRequests : WF_planVars(VerifyStep(r) /\ UNCHANGED userVars)
  /\ WF_planVars(PlanConsumerStep)

FairPlanSpec == PlanSpec /\ PlanFairness
-----------------------------------------------------------------------------
(* A user plan with a price is COMPLETED only after the gateway verified a payment *)
(* of the price it was sold for, although admins change and delete plans while     *)
(* purchasePlan is running and messages are redelivered.                           *)
PaidUserPlans ==
  \A id \in UserPlanIds :
    userPlans[id] # NoUserPlan /\ userPlans[id].status = "COMPLETED" =>
      \E t \in TrackIds : /\ HasTransaction(t, id)
                          /\ transactions[t].amount = userPlans[id].price
                          /\ gateway[t] = "verified"

(* A transaction of type PLAN belongs to a user plan that exists and asks for the *)
(* price it was sold for, also when updatePlan ran after purchasePlan's read.     *)
TransactionsHaveUserPlans ==
  \A t \in TrackIds :
    transactions[t] # NoTransaction /\ transactions[t].orderId \in UserPlanIds =>
      /\ userPlans[transactions[t].orderId] # NoUserPlan
      /\ transactions[t].amount = userPlans[transactions[t].orderId].price

(* Somebody asked GET /verify about a payment of the user plan that could still be *)
(* made.                                                                           *)
AskedTooSoon(id) == \E t \in askedEarly : HasTransaction(t, id)

(* User plans as the sales their buyers were promised. *)
UserPlanSales == INSTANCE Sale WITH
  Purchases <- UserPlanIds,
  Prices <- Amounts,
  outcome <- [id \in UserPlanIds |->
                IF userPlans[id] = NoUserPlan THEN "ABSENT" ELSE userPlans[id].status],
  price <- [id \in UserPlanIds |-> IF userPlans[id] = NoUserPlan THEN 0 ELSE userPlans[id].price],
  paid <- {id \in UserPlanIds : \E t \in TrackIds : /\ HasTransaction(t, id)
                                                   /\ userPlans[id] # NoUserPlan
                                                   /\ transactions[t].amount = userPlans[id].price
                                                   /\ gateway[t] = "verified"},
  inDoubt <- {id \in UserPlanIds : AskedTooSoon(id)}

(* A user plan is sold at the price it was created with and decided once and for   *)
(* ever, COMPLETED only after its money and FAILURE only without it, whatever is   *)
(* repeated or restarted.  Only one about one of whose payments GET /verify was    *)
(* asked while it could still be made may change its outcome.                      *)
UserPlansKeepPromise == UserPlanSales!SaleSpec

Granted(id) == userPlans[id] # NoUserPlan /\ userPlans[id].status = "COMPLETED"

(* A message of success that the consumer has not passed, or is given again. *)
GrantAnnounced(id) ==
  \E i \in DOMAIN PlanTopic :
    i > planConsumer.offset /\ PlanTopic[i] = [id |-> id, status |-> "COMPLETED"]

(* A user plan whose success is announced is granted, whatever happens to the user *)
(* service and its consumer.  That it stays granted is UserPlansKeepPromise: not    *)
(* when GET /verify was asked about a payment of it that could still be made, since *)
(* a FAILURE may then follow on the topic and take the plan back.                   *)
PaymentGrantsPlan == \A id \in UserPlanIds : GrantAnnounced(id) ~> Granted(id)
-----------------------------------------------------------------------------
(* The invariant that makes PaidUserPlans and TransactionsHaveUserPlans inductive. *)

(* A purchase has its user plan from userPlanModel.create on, with the price that it *)
(* read.                                                                             *)
PurchaseHasUserPlan(id) ==
  /\ purchases[id].pc \in {"idle", "creating"} => userPlans[id] = NoUserPlan
  /\ purchases[id].pc \in {"calling", "waiting", "rejecting"} =>
       userPlans[id] # NoUserPlan /\ userPlans[id].price = purchases[id].price

PurchasesHaveUserPlans == \A id \in UserPlanIds : PurchaseHasUserPlan(id)

(* A transaction is asked for only for a user plan that exists, at its price. *)
CallHasUserPlan(id) ==
  creating[id].pc # "idle" =>
    userPlans[id] # NoUserPlan /\ creating[id].amount = userPlans[id].price

CallsHaveUserPlans == \A id \in UserPlanIds : CallHasUserPlan(id)

PurchaseInv ==
  /\ ServiceInv
  /\ PlanTypeOK
  /\ PurchasesHaveUserPlans
  /\ CallsHaveUserPlans
  /\ TransactionsHaveUserPlans
  /\ PaidUserPlans
=============================================================================
