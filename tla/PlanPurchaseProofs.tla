------------------------- MODULE PlanPurchaseProofs -------------------------
(***************************************************************************)
(* What selling premium plans guarantees for any number of plans, prices,  *)
(* purchases, track ids, verify requests, retries and faults.              *)
(***************************************************************************)
EXTENDS PlanPurchase, TransactionServiceProofs

USE PlanPricesAssumption, MaxRetriesAssumption, MaxUserFaultsAssumption, NoPlanAssumption,
    NoUserPlanAssumption

(* Initially there are no plans, user plans or transactions. *)
LEMMA PurchaseInitInv == PlanInit => PurchaseInv
<1> SUFFICES ASSUME PlanInit PROVE PurchaseInv
  OBVIOUS
<1>1. ServiceInv
  BY InitInv DEF PlanInit
<1>2. PlanTypeOK
  BY <1>1 DEF PlanInit, PlanTypeOK, ServiceInv
<1>3. PurchasesHaveUserPlans
  BY DEF PlanInit, PurchasesHaveUserPlans, PurchaseHasUserPlan, NoPurchase
<1>4. CallsHaveUserPlans
  BY DEF PlanInit, ServiceInit, CallsHaveUserPlans, CallHasUserPlan, NoCall, References
<1>5. TransactionsHaveUserPlans /\ PaidUserPlans
  BY DEF PlanInit, ServiceInit, TransactionsHaveUserPlans, PaidUserPlans
<1> QED
  BY <1>1, <1>2, <1>3, <1>4, <1>5 DEF PurchaseInv

(* Every step of the sale of plans is a step of the transaction service, or none. *)
LEMMA SaleServiceStep ==
  ASSUME PurchaseInv, [PlanNext]_planVars
  PROVE  [ServiceNext]_serviceVars
<1>1. CASE InternalNext
  BY <1>1 DEF ServiceNext
<1>2. ASSUME NEW id \in UserPlanIds, CallTransaction(id)
      PROVE  ServiceNext
  <2>1. purchases[id].price \in Amounts
    BY <1>2 DEF CallTransaction, PurchaseInv, PlanTypeOK, PurchaseHandler, NoPurchase
  <2> QED
    BY <1>2, <2>1 DEF CallTransaction, ServiceNext, References
<1>3. ASSUME NEW id \in UserPlanIds, TakeReply(id)
      PROVE  ServiceNext
  BY <1>3 DEF TakeReply, ServiceNext, References
<1> QED
  BY <1>1, <1>2, <1>3
     DEF PlanNext, UserNext, PurchaseStep, PlanConsumerStep, planVars, CreatePlan, UpdatePlan,
         DeletePlan, ReadPlan, CreateUserPlan, RejectUserPlan, PurchaseThrows, UpdateUserPlan,
         ResolveMessage, CommitOffsets, UserCrash

(* A purchase that begins, or goes on, is well typed. *)
LEMMA PurchaseMoves ==
  ASSUME NEW h \in PurchaseHandler, NEW pc \in PurchaseSteps \cup {"returned", "thrown"}
  PROVE  /\ [h EXCEPT !.pc = pc] \in PurchaseHandler
         /\ [h EXCEPT !.pc = pc].price = h.price
         /\ [h EXCEPT !.pc = pc].pc = pc
         /\ h.retries > 0 => /\ [h EXCEPT !.pc = pc, !.retries = @ - 1] \in PurchaseHandler
                             /\ [h EXCEPT !.pc = pc, !.retries = @ - 1].price = h.price
                             /\ [h EXCEPT !.pc = pc, !.retries = @ - 1].pc = pc
<1>1. ASSUME NEW n \in 0 .. MaxRetries
      PROVE  /\ [h EXCEPT !.pc = pc, !.retries = n] \in PurchaseHandler
             /\ [h EXCEPT !.pc = pc, !.retries = n].price = h.price
             /\ [h EXCEPT !.pc = pc, !.retries = n].pc = pc
  BY DEF PurchaseHandler
<1>2. h.retries > 0 => h.retries - 1 \in 0 .. MaxRetries
  BY DEF PurchaseHandler
<1>3. /\ [h EXCEPT !.pc = pc] \in PurchaseHandler
      /\ [h EXCEPT !.pc = pc].price = h.price
      /\ [h EXCEPT !.pc = pc].pc = pc
  BY DEF PurchaseHandler
<1> QED
  BY <1>1, <1>2, <1>3

(* A purchase that is past its read is one of the handlers. *)
LEMMA PurchaseBegun ==
  ASSUME PlanTypeOK, NEW id \in UserPlanIds, purchases[id].pc # "idle"
  PROVE  purchases[id] \in PurchaseHandler
BY DEF PlanTypeOK, NoPurchase

(* What a purchase's own step does to its handler. *)
StepsTo(id, h) ==
  /\ purchases' = [purchases EXCEPT ![id] = h]
  /\ h.price = purchases[id].price
  /\ h.pc # "creating"
  /\ h.pc \in {"calling", "waiting", "rejecting"} =>
       CreateUserPlan(id) \/ purchases[id].pc \in {"calling", "waiting"}

LEMMA PurchaseHandlerStep ==
  ASSUME PlanTypeOK, NEW id \in UserPlanIds, PurchaseStep(id) \/ PurchaseThrows(id)
  PROVE  /\ purchases[id] \in PurchaseHandler
         /\ \E h \in PurchaseHandler : StepsTo(id, h)
<1> DEFINE c == purchases[id]
<1>0. c \in PurchaseHandler
  BY PurchaseBegun
     DEF PurchaseStep, CreateUserPlan, CallTransaction, TakeReply, RejectUserPlan,
         PurchaseThrows, PurchaseSteps
<1>1. \/ /\ CreateUserPlan(id)
         /\ purchases' = [purchases EXCEPT ![id] = [c EXCEPT !.pc = "calling"]]
      \/ /\ c.pc \in {"calling", "waiting"}
         /\ \E pc \in {"waiting", "returned", "rejecting", "thrown"} :
              purchases' = [purchases EXCEPT ![id] = [c EXCEPT !.pc = pc]]
      \/ /\ c.pc = "waiting" /\ c.retries > 0
         /\ purchases' = [purchases EXCEPT ![id] = [c EXCEPT !.pc = "calling", !.retries = @ - 1]]
      \/ \E pc \in {"returned", "thrown"} :
              purchases' = [purchases EXCEPT ![id] = [c EXCEPT !.pc = pc]]
  BY DEF PurchaseStep, CreateUserPlan, CallTransaction, TakeReply, RejectUserPlan,
         PurchaseThrows
<1>2. \A pc \in {"calling", "waiting", "returned", "rejecting", "thrown"} :
        pc \in PurchaseSteps \cup {"returned", "thrown"}
  BY DEF PurchaseSteps
<1>3. ASSUME NEW h \in PurchaseHandler, purchases' = [purchases EXCEPT ![id] = h],
             h.price = c.price, h.pc # "creating",
             h.pc \in {"calling", "waiting", "rejecting"} =>
               CreateUserPlan(id) \/ c.pc \in {"calling", "waiting"}
      PROVE  \E h2 \in PurchaseHandler : StepsTo(id, h2)
  BY <1>3 DEF StepsTo
<1>4. ASSUME NEW pc \in {"calling", "waiting", "returned", "rejecting", "thrown"}
      PROVE  /\ [c EXCEPT !.pc = pc] \in PurchaseHandler
             /\ [c EXCEPT !.pc = pc].price = c.price
             /\ [c EXCEPT !.pc = pc].pc = pc
  BY <1>0, <1>2, PurchaseMoves
<1>5. CASE CreateUserPlan(id)
  <2>1. purchases' = [purchases EXCEPT ![id] = [c EXCEPT !.pc = "calling"]]
    BY <1>5 DEF CreateUserPlan
  <2> QED
    BY <1>0, <1>3, <1>4, <1>5, <2>1
<1>6. ASSUME c.pc \in {"calling", "waiting"},
             NEW pc \in {"waiting", "returned", "rejecting", "thrown"},
             purchases' = [purchases EXCEPT ![id] = [c EXCEPT !.pc = pc]]
      PROVE  \E h \in PurchaseHandler : StepsTo(id, h)
  BY <1>3, <1>4, <1>6
<1>7. ASSUME c.pc = "waiting", c.retries > 0,
             purchases' = [purchases EXCEPT ![id] = [c EXCEPT !.pc = "calling", !.retries = @ - 1]]
      PROVE  \E h \in PurchaseHandler : StepsTo(id, h)
  <2> DEFINE h == [c EXCEPT !.pc = "calling", !.retries = @ - 1]
  <2>1. h \in PurchaseHandler /\ h.price = c.price /\ h.pc = "calling"
    BY <1>0, <1>2, <1>7, PurchaseMoves
  <2>2. purchases' = [purchases EXCEPT ![id] = h]
    BY <1>7
  <2> HIDE DEF h
  <2> QED
    BY <1>3, <1>7, <2>1, <2>2
<1>8. ASSUME NEW pc \in {"returned", "thrown"},
             purchases' = [purchases EXCEPT ![id] = [c EXCEPT !.pc = pc]]
      PROVE  \E h \in PurchaseHandler : StepsTo(id, h)
  BY <1>3, <1>4, <1>8
<1> QED
  BY <1>0, <1>1, <1>5, <1>6, <1>7, <1>8

(* A user plan keeps its price. *)
UserPlansGrow ==
  \A id \in UserPlanIds :
    userPlans[id] # NoUserPlan => /\ userPlans'[id] # NoUserPlan
                                  /\ userPlans'[id].price = userPlans[id].price

LEMMA StatusChanges ==
  ASSUME NEW u \in UserPlan, NEW status \in Statuses
  PROVE  /\ [u EXCEPT !.status = status] \in UserPlan
         /\ [u EXCEPT !.status = status].price = u.price
         /\ [u EXCEPT !.status = status].status = status
BY DEF UserPlan

(* What the message that the consumer takes does to its user plan. *)
TakesMessage(i) ==
  /\ PlanTopic[i] \in Message
  /\ \/ userPlans' = userPlans
     \/ /\ PlanTopic[i].id \in UserPlanIds
        /\ userPlans[PlanTopic[i].id] \in UserPlan
        /\ userPlans' = [userPlans EXCEPT ![PlanTopic[i].id] =
                           [@ EXCEPT !.status = PlanTopic[i].status]]

LEMMA MessageTaken ==
  ASSUME PurchaseInv, UpdateUserPlan
  PROVE  \E i \in DOMAIN PlanTopic : TakesMessage(i)
<1> DEFINE i == planConsumer.offset + 1
<1>1. PlanTopic \in Seq(Message)
  BY DEF PurchaseInv, ServiceInv, ServiceTypeOK, PlanTopic, TransactionTypes
<1>2. i \in DOMAIN PlanTopic /\ PlanTopic[i] \in Message
  BY <1>1 DEF UpdateUserPlan, PurchaseInv, PlanTypeOK
<1>3. userPlans \in [UserPlanIds -> UserPlan \cup {NoUserPlan}]
  BY DEF PurchaseInv, PlanTypeOK
<1>4. userPlans' = [userPlans EXCEPT ![PlanTopic[i].id] =
                      IF @ = NoUserPlan THEN @ ELSE [@ EXCEPT !.status = PlanTopic[i].status]]
  BY DEF UpdateUserPlan
<1>5. CASE PlanTopic[i].id \in UserPlanIds /\ userPlans[PlanTopic[i].id] # NoUserPlan
  BY <1>2, <1>3, <1>4, <1>5 DEF TakesMessage
<1>6. CASE ~ (PlanTopic[i].id \in UserPlanIds /\ userPlans[PlanTopic[i].id] # NoUserPlan)
  <2>1. userPlans' = userPlans
    BY <1>3, <1>4, <1>6
  <2> QED
    BY <1>2, <2>1 DEF TakesMessage
<1> QED
  BY <1>5, <1>6

LEMMA UserPlansStep ==
  ASSUME PurchaseInv, [PlanNext]_planVars
  PROVE  /\ UserPlansGrow
         /\ userPlans' \in [UserPlanIds -> UserPlan \cup {NoUserPlan}]
<1> USE DEF PurchaseInv, PlanTypeOK
<1>1. ASSUME NEW id \in UserPlanIds, userPlans[id] # NoUserPlan, NEW status \in Statuses,
             userPlans' = [userPlans EXCEPT ![id] = [@ EXCEPT !.status = status]]
      PROVE  /\ UserPlansGrow
             /\ userPlans' \in [UserPlanIds -> UserPlan \cup {NoUserPlan}]
  <2>1. userPlans[id] \in UserPlan
    BY <1>1
  <2> QED
    BY <1>1, <2>1, StatusChanges DEF UserPlansGrow
<1>2. ASSUME NEW id \in UserPlanIds, CreateUserPlan(id)
      PROVE  /\ UserPlansGrow
             /\ userPlans' \in [UserPlanIds -> UserPlan \cup {NoUserPlan}]
  <2>1. userPlans[id] = NoUserPlan
    BY <1>2 DEF CreateUserPlan, PurchasesHaveUserPlans, PurchaseHasUserPlan
  <2>2. purchases[id] \in PurchaseHandler
    BY <1>2, PurchaseBegun DEF CreateUserPlan
  <2>3. [plan |-> purchases[id].plan, price |-> purchases[id].price, status |-> "PENDING"]
          \in UserPlan
    BY <2>2 DEF UserPlan, Statuses, PurchaseHandler
  <2> QED
    BY <1>2, <2>1, <2>3 DEF CreateUserPlan, UserPlansGrow
<1>3. ASSUME NEW id \in UserPlanIds, RejectUserPlan(id)
      PROVE  /\ UserPlansGrow
             /\ userPlans' \in [UserPlanIds -> UserPlan \cup {NoUserPlan}]
  BY <1>1, <1>3 DEF RejectUserPlan, PurchasesHaveUserPlans, PurchaseHasUserPlan, Statuses
<1>4. CASE UpdateUserPlan
  <2>1. PICK i \in DOMAIN PlanTopic : TakesMessage(i)
    BY <1>4, MessageTaken
  <2>2. PlanTopic[i].status \in Statuses
    BY <2>1 DEF TakesMessage, Message, Statuses
  <2> QED
    BY <1>1, <2>1, <2>2 DEF TakesMessage, UserPlansGrow
<1>5. CASE UNCHANGED userPlans
  BY <1>5 DEF UserPlansGrow
<1> QED
  BY <1>2, <1>3, <1>4, <1>5
     DEF PlanNext, UserNext, PurchaseStep, PlanConsumerStep, planVars, userVars, CreatePlan,
         UpdatePlan, DeletePlan, ReadPlan, CallTransaction, TakeReply, PurchaseThrows,
         ResolveMessage, CommitOffsets, UserCrash

PlanConsumer == [pc : {"idle", "resolving"}, offset : Nat, committed : Nat]

LEMMA ConsumerOffsets ==
  ASSUME NEW c \in PlanConsumer, NEW pc \in {"idle", "resolving"}
  PROVE  /\ [c EXCEPT !.pc = pc] \in PlanConsumer
         /\ [c EXCEPT !.pc = pc, !.offset = @ + 1] \in PlanConsumer
         /\ [c EXCEPT !.pc = pc, !.offset = c.committed] \in PlanConsumer
         /\ [c EXCEPT !.committed = c.offset] \in PlanConsumer
<1>1. ASSUME NEW n \in Nat
      PROVE  /\ [c EXCEPT !.pc = pc, !.offset = n] \in PlanConsumer
             /\ [c EXCEPT !.committed = n] \in PlanConsumer
  BY DEF PlanConsumer
<1>2. c.offset \in Nat /\ c.committed \in Nat
  BY DEF PlanConsumer
<1>3. c.offset + 1 \in Nat
  BY <1>2
<1>4. [c EXCEPT !.pc = pc] \in PlanConsumer
  BY DEF PlanConsumer
<1> QED
  BY <1>1, <1>2, <1>3, <1>4

(* Every step of the user service keeps the types. *)
LEMMA SaleTypeStep ==
  ASSUME PurchaseInv, [PlanNext]_planVars
  PROVE  PlanTypeOK'
<1> USE DEF PurchaseInv, PlanTypeOK
<1>0. ServiceTypeOK' /\ userPlans' \in [UserPlanIds -> UserPlan \cup {NoUserPlan}]
  BY SaleServiceStep, UserPlansStep, InvStep DEF ServiceInv
<1>1. ASSUME NEW p \in Plans, NEW price \in PlanPrices, CreatePlan(p, price)
      PROVE  PlanTypeOK'
  BY <1>0, <1>1 DEF CreatePlan, Plan
<1>2. ASSUME NEW p \in Plans, NEW price \in PlanPrices, UpdatePlan(p, price)
      PROVE  PlanTypeOK'
  <2>1. [plans[p] EXCEPT !.price = price] \in Plan
    BY <1>2 DEF UpdatePlan, Plan
  <2> QED
    BY <1>0, <1>2, <2>1 DEF UpdatePlan
<1>3. ASSUME NEW p \in Plans, DeletePlan(p)
      PROVE  PlanTypeOK'
  <2>1. [plans[p] EXCEPT !.isActive = FALSE] \in Plan
    BY <1>3 DEF DeletePlan, Plan
  <2> QED
    BY <1>0, <1>3, <2>1 DEF DeletePlan
<1>4. ASSUME NEW id \in UserPlanIds, NEW p \in Plans, ReadPlan(id, p)
      PROVE  PlanTypeOK'
  <2>1. [pc |-> "creating", plan |-> p, price |-> plans[p].price, retries |-> MaxRetries]
          \in PurchaseHandler
    BY <1>4 DEF ReadPlan, PurchaseHandler, PurchaseSteps, Plan
  <2> QED
    BY <1>0, <1>4, <2>1 DEF ReadPlan
<1>5. ASSUME NEW id \in UserPlanIds, PurchaseStep(id) \/ PurchaseThrows(id)
      PROVE  PlanTypeOK'
  <2>1. purchases' \in [UserPlanIds -> PurchaseHandler \cup {NoPurchase}]
    BY <1>5, PurchaseHandlerStep DEF StepsTo
  <2> QED
    BY <1>0, <1>5, <2>1
       DEF PurchaseStep, CreateUserPlan, CallTransaction, TakeReply, RejectUserPlan,
           PurchaseThrows
<1>6. CASE PlanConsumerStep \/ CommitOffsets
  <2>0. planConsumer \in PlanConsumer
    BY DEF PlanConsumer
  <2>1. \/ planConsumer' = [planConsumer EXCEPT !.pc = "resolving"]
        \/ planConsumer' = [planConsumer EXCEPT !.pc = "idle", !.offset = @ + 1]
        \/ planConsumer' = [planConsumer EXCEPT !.committed = planConsumer.offset]
    BY <1>6 DEF PlanConsumerStep, UpdateUserPlan, ResolveMessage, CommitOffsets
  <2>2. planConsumer' \in PlanConsumer
    BY <2>0, <2>1, ConsumerOffsets
  <2> QED
    BY <1>0, <1>6, <2>2
       DEF PlanConsumer, PlanConsumerStep, UpdateUserPlan, ResolveMessage, CommitOffsets
<1>7. CASE UserCrash
  <2>1. \A id \in UserPlanIds :
          purchases[id].pc \in PurchaseSteps =>
            [purchases[id] EXCEPT !.pc = "thrown"] \in PurchaseHandler
    BY PurchaseBegun, PurchaseMoves DEF PurchaseSteps
  <2>2. purchases' \in [UserPlanIds -> PurchaseHandler \cup {NoPurchase}]
    BY <1>7, <2>1 DEF UserCrash
  <2>3. planConsumer' \in PlanConsumer
    BY <1>7, ConsumerOffsets DEF PlanConsumer, UserCrash
  <2> QED
    BY <1>0, <1>7, <2>2, <2>3 DEF PlanConsumer, UserCrash
<1>8. CASE UNCHANGED userVars
  BY <1>0, <1>8 DEF userVars
<1> QED
  BY <1>1, <1>2, <1>3, <1>4, <1>5, <1>6, <1>7, <1>8 DEF PlanNext, UserNext, planVars

(* Purchases stay in step with their user plans. *)
LEMMA PurchasesStep ==
  ASSUME PurchaseInv, [PlanNext]_planVars
  PROVE  PurchasesHaveUserPlans'
<1> USE DEF PurchaseInv, PlanTypeOK
<1> SUFFICES ASSUME NEW id \in UserPlanIds
             PROVE  PurchaseHasUserPlan(id)'
  BY DEF PurchasesHaveUserPlans
<1>0. PurchaseHasUserPlan(id) /\ UserPlansGrow
  BY UserPlansStep DEF PurchasesHaveUserPlans
<1>1. ASSUME purchases'[id] = purchases[id],
             userPlans[id] = NoUserPlan => userPlans'[id] = NoUserPlan
      PROVE  PurchaseHasUserPlan(id)'
  BY <1>0, <1>1 DEF PurchaseHasUserPlan, UserPlansGrow
<1>2. ASSUME NEW id2 \in UserPlanIds, id2 # id,
             \/ \E p \in Plans : ReadPlan(id2, p)
             \/ PurchaseStep(id2) \/ PurchaseThrows(id2)
      PROVE  PurchaseHasUserPlan(id)'
  BY <1>1, <1>2 DEF ReadPlan, PurchaseStep, CreateUserPlan, CallTransaction, TakeReply,
                    RejectUserPlan, PurchaseThrows
<1>3. ASSUME NEW p \in Plans, ReadPlan(id, p)
      PROVE  PurchaseHasUserPlan(id)'
  BY <1>0, <1>3 DEF ReadPlan, PurchaseHasUserPlan
<1>4. CASE PurchaseStep(id) \/ PurchaseThrows(id)
  <2>1. PICK h \in PurchaseHandler : StepsTo(id, h)
    BY <1>4, PurchaseHandlerStep
  <2>2. purchases'[id] = h /\ h.pc # "idle"
    BY <2>1 DEF StepsTo, PurchaseHandler, PurchaseSteps
  <2>3. CASE CreateUserPlan(id)
    <3>1. purchases[id] \in PurchaseHandler
      BY <2>3, PurchaseBegun DEF CreateUserPlan
    <3>2. [plan |-> purchases[id].plan, price |-> purchases[id].price, status |-> "PENDING"]
            \in UserPlan
      BY <3>1 DEF UserPlan, Statuses, PurchaseHandler
    <3>3. userPlans'[id] # NoUserPlan /\ userPlans'[id].price = purchases[id].price
      BY <2>3, <3>2 DEF CreateUserPlan
    <3> QED
      BY <2>1, <2>2, <3>3 DEF StepsTo, PurchaseHasUserPlan
  <2>4. CASE ~ CreateUserPlan(id)
    BY <1>0, <2>1, <2>2, <2>4 DEF StepsTo, PurchaseHasUserPlan, UserPlansGrow
  <2> QED
    BY <2>3, <2>4
<1>5. CASE UpdateUserPlan
  <2>1. PICK i \in DOMAIN PlanTopic : TakesMessage(i)
    BY <1>5, MessageTaken
  <2>2. userPlans[id] = NoUserPlan => userPlans'[id] = NoUserPlan
    BY <2>1 DEF TakesMessage
  <2> QED
    BY <1>1, <1>5, <2>2 DEF UpdateUserPlan
<1>6. CASE UserCrash
  <2>1. CASE purchases[id].pc \in PurchaseSteps
    <3>0. purchases[id] \in PurchaseHandler
      BY <2>1, PurchaseBegun DEF PurchaseSteps
    <3>1. purchases'[id].pc = "thrown"
      BY <1>6, <2>1, <3>0, PurchaseMoves DEF UserCrash
    <3> QED
      BY <3>1 DEF PurchaseHasUserPlan
  <2>2. CASE purchases[id].pc \notin PurchaseSteps
    BY <1>1, <1>6, <2>2 DEF UserCrash
  <2> QED
    BY <2>1, <2>2
<1>7. CASE UNCHANGED <<userPlans, purchases>>
  BY <1>1, <1>7
<1> QED
  BY <1>2, <1>3, <1>4, <1>5, <1>6, <1>7
     DEF PlanNext, UserNext, PlanConsumerStep, planVars, userVars, CreatePlan, UpdatePlan,
         DeletePlan, ResolveMessage, CommitOffsets

(* Calls stay in step with their user plans. *)
LEMMA CallsHaveUserPlansStep ==
  ASSUME PurchaseInv, [PlanNext]_planVars
  PROVE  CallsHaveUserPlans'
<1> USE DEF PurchaseInv, PlanTypeOK, ServiceTypeOK
<1> SUFFICES ASSUME NEW id \in UserPlanIds
             PROVE  CallHasUserPlan(id)'
  BY DEF CallsHaveUserPlans
<1>0. CallHasUserPlan(id) /\ UserPlansGrow /\ id \in References /\ creating[id] \in Call
  BY UserPlansStep DEF CallsHaveUserPlans, References
<1>1. ASSUME \/ creating'[id].pc = "idle"
             \/ /\ creating[id].pc # "idle"
                /\ creating'[id].amount = creating[id].amount
      PROVE  CallHasUserPlan(id)'
  BY <1>0, <1>1 DEF CallHasUserPlan, UserPlansGrow
<1>2. ASSUME creating'[id] = creating[id]
      PROVE  CallHasUserPlan(id)'
  BY <1>1, <1>2
<1>3. CASE CallTransaction(id)
  <2>1. userPlans[id] # NoUserPlan /\ userPlans[id].price = purchases[id].price
    BY <1>3 DEF CallTransaction, PurchasesHaveUserPlans, PurchaseHasUserPlan
  <2>2. creating'[id].amount = purchases[id].price /\ userPlans'[id] = userPlans[id]
    BY <1>0, <1>3 DEF CallTransaction, CallCreateTransaction
  <2> QED
    BY <2>1, <2>2 DEF CallHasUserPlan
<1>4. CASE TakeReply(id)
  <2>1. creating'[id] = NoCall
    BY <1>0, <1>4 DEF TakeReply, EndCall
  <2> QED
    BY <1>1, <2>1 DEF NoCall
<1>5. ASSUME NEW id2 \in UserPlanIds, id2 # id, CallTransaction(id2) \/ TakeReply(id2)
      PROVE  CallHasUserPlan(id)'
  BY <1>0, <1>2, <1>5 DEF CallTransaction, CallCreateTransaction, TakeReply, EndCall
<1>6. ASSUME NEW id2 \in References, id2 # id, CreateStep(id2) \/ CreateThrows(id2)
      PROVE  CallHasUserPlan(id)'
  BY <1>0, <1>2, <1>6 DEF CreateStep, RequestPayment, InsertTransaction, Respond, CreateThrows
<1>7. CASE CreateStep(id) \/ CreateThrows(id)
  <2>1. /\ creating[id].pc # "idle"
        /\ \/ \E pc \in {"refused", "responding", "created", "error"} :
                creating' = [creating EXCEPT ![id].pc = pc]
           \/ \E t \in TrackIds :
                creating' = [creating EXCEPT ![id].pc = "inserting", ![id].trackId = t]
    BY <1>7 DEF CreateStep, RequestPayment, InsertTransaction, Respond, CreateThrows, CreateSteps
  <2> QED
    BY <1>0, <1>1, <2>1 DEF Call
<1>8. CASE ServiceCrash
  <2>1. CASE creating[id].pc \in CreateSteps
    BY <1>0, <1>1, <1>8, <2>1 DEF ServiceCrash, Call, CreateSteps
  <2>2. CASE creating[id].pc \notin CreateSteps
    BY <1>0, <1>2, <1>8, <2>2 DEF ServiceCrash
  <2> QED
    BY <2>1, <2>2
<1>9. CASE UNCHANGED creating
  BY <1>2, <1>9
<1> QED
  BY <1>3, <1>4, <1>5, <1>6, <1>7, <1>8, <1>9
     DEF PlanNext, UserNext, InternalNext, GatewayNext, CreateStep, VerifyStep, PurchaseStep,
         PlanConsumerStep, planVars, userVars, serviceVars, CreatePlan, UpdatePlan, DeletePlan,
         ReadPlan, CreateUserPlan, RejectUserPlan, PurchaseThrows, UpdateUserPlan,
         ResolveMessage, CommitOffsets, UserCrash, FindTransaction, VerifyPayment,
         UpdateTransaction, SendEvent, RepeatSend, VerifyThrows

(* A transaction repeats the price of an existing user plan. *)
LEMMA TransactionsHaveUserPlansStep ==
  ASSUME PurchaseInv, [PlanNext]_planVars
  PROVE  TransactionsHaveUserPlans'
<1> USE DEF PurchaseInv
<1>0. [ServiceNext]_serviceVars /\ UserPlansGrow /\ TransactionsGrow
  BY SaleServiceStep, UserPlansStep, TransactionsGrowStep
<1> SUFFICES ASSUME NEW t \in TrackIds, transactions'[t] # NoTransaction,
                    transactions'[t].orderId \in UserPlanIds
             PROVE  /\ userPlans'[transactions'[t].orderId] # NoUserPlan
                    /\ transactions'[t].amount = userPlans'[transactions'[t].orderId].price
  BY DEF TransactionsHaveUserPlans
<1>1. CASE transactions[t] # NoTransaction
  BY <1>0, <1>1 DEF TransactionsHaveUserPlans, TransactionsGrow, UserPlansGrow
<1>2. CASE transactions[t] = NoTransaction
  BY <1>0, <1>2, NewTransaction DEF CallsHaveUserPlans, CallHasUserPlan, UserPlansGrow
<1> QED
  BY <1>1, <1>2

(* A user plan becomes COMPLETED by a message, hence after a verified payment. *)
LEMMA PaidUserPlansStep ==
  ASSUME PurchaseInv, [PlanNext]_planVars
  PROVE  PaidUserPlans'
<1> USE DEF PurchaseInv
<1>0. GatewayGrows /\ TransactionsGrow /\ UserPlansGrow
  BY SaleServiceStep, GatewayGrowsStep, TransactionsGrowStep, UserPlansStep DEF ServiceInv
<1> DEFINE Paid(id) == \E t \in TrackIds : /\ HasTransaction(t, id)
                                           /\ transactions[t].amount = userPlans[id].price
                                           /\ gateway[t] = "verified"
<1> SUFFICES ASSUME NEW id \in UserPlanIds, userPlans'[id] # NoUserPlan,
                    userPlans'[id].status = "COMPLETED"
             PROVE  Paid(id)'
  BY DEF PaidUserPlans
<1>1. ASSUME userPlans[id] # NoUserPlan, Paid(id)
      PROVE  Paid(id)'
  BY <1>0, <1>1 DEF GatewayGrows, TransactionsGrow, UserPlansGrow, HasTransaction
<1>2. CASE userPlans'[id] = userPlans[id]
  <2>1. userPlans[id] # NoUserPlan /\ Paid(id)
    BY <1>2 DEF PaidUserPlans
  <2> QED
    BY <1>1, <2>1
<1>3. ASSUME NEW id2 \in UserPlanIds, CreateUserPlan(id2)
      PROVE  Paid(id)'
  <2>1. CASE id2 = id
    BY <1>3, <2>1 DEF CreateUserPlan, PlanTypeOK
  <2>2. CASE id2 # id
    BY <1>2, <1>3, <2>2 DEF CreateUserPlan, PlanTypeOK
  <2> QED
    BY <2>1, <2>2
<1>4. ASSUME NEW id2 \in UserPlanIds, RejectUserPlan(id2)
      PROVE  Paid(id)'
  <2>1. CASE id2 = id
    <3>1. userPlans[id] \in UserPlan
      BY <1>4, <2>1 DEF RejectUserPlan, PurchasesHaveUserPlans, PurchaseHasUserPlan, PlanTypeOK
    <3>2. userPlans'[id].status = "FAILURE"
      BY <1>4, <2>1, <3>1 DEF RejectUserPlan, UserPlan, PlanTypeOK
    <3> QED
      BY <3>2
  <2>2. CASE id2 # id
    BY <1>2, <1>4, <2>2 DEF RejectUserPlan, PlanTypeOK
  <2> QED
    BY <2>1, <2>2
<1>5. CASE UpdateUserPlan
  <2>1. PICK i \in DOMAIN PlanTopic : TakesMessage(i)
    BY <1>5, MessageTaken
  <2>2. CASE userPlans'[id] = userPlans[id]
    BY <1>2, <2>2
  <2>3. CASE userPlans'[id] # userPlans[id]
    <3>1. /\ PlanTopic[i].id = id
          /\ userPlans[id] \in UserPlan
          /\ userPlans'[id] = [userPlans[id] EXCEPT !.status = PlanTopic[i].status]
      BY <2>1, <2>3 DEF TakesMessage, PlanTypeOK
    <3>2. PlanTopic[i].status = "COMPLETED"
      BY <2>1, <3>1, StatusChanges DEF TakesMessage, Message, Statuses
    <3>3. PICK t \in TrackIds : HasTransaction(t, id) /\ gateway[t] = "verified"
      BY <2>1, <3>1, <3>2
         DEF ServiceInv, CompletionIsVerified, PlanTopic, TransactionTypes, HasTransaction
    <3>4. userPlans[id] # NoUserPlan /\ transactions[t].amount = userPlans[id].price
      BY <3>3 DEF TransactionsHaveUserPlans, HasTransaction
    <3> QED
      BY <1>1, <3>3, <3>4
  <2> QED
    BY <2>2, <2>3
<1>6. CASE UNCHANGED userPlans
  BY <1>2, <1>6
<1> QED
  BY <1>3, <1>4, <1>5, <1>6
     DEF PlanNext, UserNext, PurchaseStep, PlanConsumerStep, planVars, userVars, CreatePlan,
         UpdatePlan, DeletePlan, ReadPlan, CallTransaction, TakeReply, PurchaseThrows,
         ResolveMessage, CommitOffsets, UserCrash

LEMMA PurchaseInvStep ==
  ASSUME PurchaseInv, [PlanNext]_planVars
  PROVE  PurchaseInv'
<1>1. ServiceInv'
  BY SaleServiceStep, InvStep DEF PurchaseInv
<1> QED
  BY <1>1, SaleTypeStep, PurchasesStep, CallsHaveUserPlansStep, TransactionsHaveUserPlansStep,
     PaidUserPlansStep DEF PurchaseInv

(* PurchaseInv holds in every reachable state of purchasePlan, the plan consumer, *)
(* the plans' editors and the transaction service together.                       *)
THEOREM PurchaseInvariant == PlanSpec => []PurchaseInv
<1>1. PlanInit => PurchaseInv
  BY PurchaseInitInv
<1>2. PurchaseInv /\ [PlanNext]_planVars => PurchaseInv'
  BY PurchaseInvStep
<1> QED
  BY <1>1, <1>2, PTL DEF PlanSpec

(* Every document, handler and offset of the user and transaction services has its *)
(* type.                                                                            *)
THEOREM PlanTypes == PlanSpec => []PlanTypeOK
<1>1. PurchaseInv => PlanTypeOK
  BY DEF PurchaseInv
<1> QED
  BY <1>1, PurchaseInvariant, PTL

(* No user plan is COMPLETED before the gateway verified a payment of the price it  *)
(* was sold for, whatever admins do to the plan and whatever fails or is repeated.  *)
THEOREM PaidUserPlansTheorem == PlanSpec => []PaidUserPlans
<1>1. PurchaseInv => PaidUserPlans
  BY DEF PurchaseInv
<1> QED
  BY <1>1, PurchaseInvariant, PTL

(* Every PLAN transaction has its user plan, and asks for the price that purchasePlan *)
(* read, not for the one updatePlan stored meanwhile.                                 *)
THEOREM TransactionsHaveUserPlansTheorem == PlanSpec => []TransactionsHaveUserPlans
<1>1. PurchaseInv => TransactionsHaveUserPlans
  BY DEF PurchaseInv
<1> QED
  BY <1>1, PurchaseInvariant, PTL
-----------------------------------------------------------------------------
(* One charge per user plan.  A purchase returns with the first url it is given,    *)
(* and never calls again; it fails the user plan only for a price that the gateway  *)
(* refused.                                                                         *)
OnlyUserPlans ==
  /\ \A id \in OrderIds : creating[id].pc = "idle"
  /\ \A t \in TrackIds :
       transactions[t] # NoTransaction => transactions[t].orderId \in UserPlanIds

UrlsOfReturned == \A t \in paymentUrls : purchases[transactions[t].orderId].pc = "returned"

OneUrl ==
  \A t1, t2 \in paymentUrls : transactions[t1].orderId = transactions[t2].orderId => t1 = t2

RejectedByGateway ==
  \A id \in UserPlanIds :
    purchases[id].pc = "rejecting" => userPlans[id].price \notin AcceptedAmounts

PlanChargeInv ==
  /\ PurchaseInv
  /\ UrlInv
  /\ OnlyUserPlans
  /\ UrlsOfReturned
  /\ OneUrl
  /\ RejectedByGateway

LEMMA InitPlanCharge == PlanInit => PlanChargeInv
<1> SUFFICES ASSUME PlanInit PROVE PlanChargeInv
  OBVIOUS
<1>1. PurchaseInv /\ UrlInv
  BY PurchaseInitInv, InitUrls DEF PlanInit
<1>2. OnlyUserPlans /\ UrlsOfReturned /\ OneUrl
  BY DEF PlanInit, ServiceInit, GatewayInit, NoCall, References, OnlyUserPlans, UrlsOfReturned,
         OneUrl
<1>3. RejectedByGateway
  BY DEF PlanInit, NoPurchase, RejectedByGateway
<1> QED
  BY <1>1, <1>2, <1>3 DEF PlanChargeInv

(* Only purchasePlan calls, and only for user plans. *)
LEMMA OnlyUserPlansStep ==
  ASSUME PurchaseInv, OnlyUserPlans, [PlanNext]_planVars
  PROVE  OnlyUserPlans'
<1>1. ASSUME NEW id \in OrderIds
      PROVE  creating'[id].pc = "idle"
  <2> USE DEF PurchaseInv, ServiceInv, ServiceTypeOK
  <2>1. creating[id].pc = "idle" /\ id \in References /\ id \notin UserPlanIds
    BY IdsAssumption DEF OnlyUserPlans, References
  <2>2. ASSUME NEW id2 \in UserPlanIds, CallTransaction(id2) \/ TakeReply(id2)
        PROVE  creating'[id].pc = "idle"
    BY <2>1, <2>2 DEF CallTransaction, CallCreateTransaction, TakeReply, EndCall
  <2>3. ASSUME NEW id2 \in References, CreateStep(id2) \/ CreateThrows(id2)
        PROVE  creating'[id].pc = "idle"
    BY <2>1, <2>3 DEF CreateStep, RequestPayment, InsertTransaction, Respond, CreateThrows,
                      CreateSteps
  <2>4. CASE ServiceCrash
    BY <2>1, <2>4 DEF ServiceCrash, CreateSteps
  <2>5. CASE UNCHANGED creating
    BY <2>1, <2>5
  <2> QED
    BY <2>2, <2>3, <2>4, <2>5
       DEF PlanNext, UserNext, InternalNext, GatewayNext, VerifyStep, PurchaseStep,
           PlanConsumerStep, planVars, userVars, serviceVars, CreatePlan, UpdatePlan, DeletePlan,
           ReadPlan, CreateUserPlan, RejectUserPlan, PurchaseThrows, UpdateUserPlan,
           ResolveMessage, CommitOffsets, UserCrash, FindTransaction, VerifyPayment,
           UpdateTransaction, SendEvent, RepeatSend, VerifyThrows
<1>2. ASSUME NEW t \in TrackIds, transactions'[t] # NoTransaction
      PROVE  transactions'[t].orderId \in UserPlanIds
  <2>1. CASE transactions[t] # NoTransaction
    BY <2>1, SaleServiceStep, TransactionsGrowStep
       DEF PurchaseInv, OnlyUserPlans, TransactionsGrow
  <2>2. CASE transactions[t] = NoTransaction
    <3>1. /\ transactions'[t].orderId \in References
          /\ creating[transactions'[t].orderId].pc = "inserting"
      BY <1>2, <2>2, SaleServiceStep, NewTransaction DEF PurchaseInv
    <3> QED
      BY <3>1 DEF OnlyUserPlans, References
  <2> QED
    BY <2>1, <2>2
<1> QED
  BY <1>1, <1>2 DEF OnlyUserPlans

(* What a step of the user service can do to a handler: its own step, the read of *)
(* a plan, a crash, or nothing.                                                   *)
LEMMA HandlerChanges ==
  ASSUME PlanTypeOK, [PlanNext]_planVars, NEW id \in UserPlanIds,
         purchases'[id] # purchases[id]
  PROVE  \/ purchases[id].pc = "idle" /\ purchases'[id].pc = "creating"
         \/ PurchaseStep(id)
         \/ purchases[id].pc \in PurchaseSteps /\ purchases'[id].pc = "thrown"
<1> USE DEF PlanTypeOK
<1>1. ASSUME NEW id2 \in UserPlanIds, id2 # id,
             (\E p \in Plans : ReadPlan(id2, p)) \/ PurchaseStep(id2) \/ PurchaseThrows(id2)
      PROVE  FALSE
  BY <1>1 DEF ReadPlan, PurchaseStep, CreateUserPlan, CallTransaction, TakeReply,
              RejectUserPlan, PurchaseThrows
<1>2. ASSUME NEW p \in Plans, ReadPlan(id, p)
      PROVE  purchases[id].pc = "idle" /\ purchases'[id].pc = "creating"
  BY <1>2 DEF ReadPlan
<1>3. ASSUME purchases[id].pc \in PurchaseSteps,
             purchases'[id] = [purchases[id] EXCEPT !.pc = "thrown"]
      PROVE  purchases'[id].pc = "thrown"
  <2>1. purchases[id] \in PurchaseHandler
    BY <1>3, PurchaseBegun DEF PurchaseSteps
  <2> QED
    BY <1>3, <2>1 DEF PurchaseHandler
<1>4. CASE PurchaseThrows(id)
  BY <1>3, <1>4 DEF PurchaseThrows
<1>5. CASE UserCrash
  BY <1>3, <1>5 DEF UserCrash
<1>6. CASE UNCHANGED purchases
  BY <1>6
<1> QED
  BY <1>1, <1>2, <1>4, <1>5, <1>6
     DEF PlanNext, UserNext, PlanConsumerStep, planVars, userVars, CreatePlan, UpdatePlan,
         DeletePlan, UpdateUserPlan, ResolveMessage, CommitOffsets

(* A purchase that has returned is over. *)
LEMMA ReturnedStays ==
  ASSUME PlanTypeOK, [PlanNext]_planVars, NEW id \in UserPlanIds,
         purchases[id].pc = "returned"
  PROVE  purchases'[id].pc = "returned"
<1>1. ~ PurchaseStep(id)
  BY DEF PurchaseStep, CreateUserPlan, CallTransaction, TakeReply, RejectUserPlan
<1> QED
  BY <1>1, HandlerChanges DEF PurchaseSteps

(* A new url is the one that a waiting purchase returns with. *)
LEMMA NewPlanUrl ==
  ASSUME PurchaseInv, [PlanNext]_planVars
  PROVE  \/ paymentUrls' = paymentUrls
         \/ \E id \in UserPlanIds, t \in TrackIds : /\ HasTransaction(t, id)
                                                    /\ purchases[id].pc = "waiting"
                                                    /\ purchases'[id].pc = "returned"
                                                    /\ paymentUrls' = paymentUrls \cup {t}
<1>1. ASSUME NEW id \in UserPlanIds, TakeReply(id), creating[id].pc = "created"
      PROVE  /\ creating[id].trackId \in TrackIds
             /\ HasTransaction(creating[id].trackId, id)
             /\ purchases[id].pc = "waiting"
             /\ purchases'[id].pc = "returned"
             /\ paymentUrls' = paymentUrls \cup {creating[id].trackId}
  <2>1. /\ creating[id].trackId \in TrackIds
        /\ HasTransaction(creating[id].trackId, id)
    BY <1>1 DEF PurchaseInv, ServiceInv, CallsHoldIssuedTracks, CallHoldsIssuedTrack, References
  <2>2. purchases[id].pc = "waiting" /\ purchases' = [purchases EXCEPT ![id].pc = "returned"]
    BY <1>1 DEF TakeReply
  <2>3. purchases[id] \in PurchaseHandler
    BY <2>2, PurchaseBegun DEF PurchaseInv
  <2>4. purchases'[id].pc = "returned"
    BY <2>2, <2>3 DEF PurchaseInv, PlanTypeOK, PurchaseHandler
  <2> QED
    BY <1>1, <2>1, <2>2, <2>4 DEF TakeReply, EndCall
<1>2. ASSUME NEW id \in UserPlanIds, TakeReply(id), creating[id].pc # "created"
      PROVE  paymentUrls' = paymentUrls
  BY <1>2 DEF TakeReply, EndCall
<1> QED
  BY <1>1, <1>2
     DEF PlanNext, UserNext, InternalNext, GatewayNext, CreateStep, VerifyStep, PurchaseStep,
         PlanConsumerStep, planVars, serviceVars, gatewayVars, CreatePlan, UpdatePlan, DeletePlan,
         ReadPlan, CreateUserPlan, CallTransaction, CallCreateTransaction, RejectUserPlan,
         PurchaseThrows, UpdateUserPlan, ResolveMessage, CommitOffsets, UserCrash, Pay,
         FailPayment, RequestPayment, InsertTransaction, Respond, CreateThrows, FindTransaction,
         VerifyPayment, UpdateTransaction, SendEvent, RepeatSend, VerifyThrows, ServiceCrash

LEMMA UrlsOfReturnedStep ==
  ASSUME PlanChargeInv, [PlanNext]_planVars
  PROVE  UrlsOfReturned' /\ OneUrl'
<1>1. /\ TransactionsGrow
      /\ PlanTypeOK
      /\ PurchaseInv
      /\ paymentUrls \in SUBSET TrackIds
  BY SaleServiceStep, TransactionsGrowStep
     DEF PlanChargeInv, PurchaseInv, ServiceInv, ServiceTypeOK, GatewayTypeOK
<1>2. ASSUME NEW t \in paymentUrls
      PROVE  /\ t \in TrackIds
             /\ transactions[t] # NoTransaction
             /\ transactions[t].orderId \in UserPlanIds
             /\ transactions'[t].orderId = transactions[t].orderId
             /\ purchases[transactions[t].orderId].pc = "returned"
  BY <1>1, <1>2 DEF PlanChargeInv, UrlInv, UrlsHaveTransactions, OnlyUserPlans, UrlsOfReturned,
                    TransactionsGrow
<1>3. ASSUME NEW t \in paymentUrls
      PROVE  purchases'[transactions'[t].orderId].pc = "returned"
  BY <1>1, <1>2, <1>3, ReturnedStays
<1>4. CASE paymentUrls' = paymentUrls
  BY <1>2, <1>3, <1>4 DEF PlanChargeInv, UrlsOfReturned, OneUrl
<1>5. ASSUME NEW id \in UserPlanIds, NEW t \in TrackIds, HasTransaction(t, id),
             purchases[id].pc = "waiting", purchases'[id].pc = "returned",
             paymentUrls' = paymentUrls \cup {t}
      PROVE  UrlsOfReturned' /\ OneUrl'
  <2>1. transactions'[t].orderId = id
    BY <1>1, <1>5 DEF HasTransaction, TransactionsGrow
  <2>2. \A t2 \in paymentUrls : transactions'[t2].orderId # id
    BY <1>2, <1>5
  <2>3. UrlsOfReturned'
    BY <1>3, <1>5, <2>1 DEF UrlsOfReturned
  <2>4. OneUrl'
    BY <1>2, <1>5, <2>1, <2>2 DEF PlanChargeInv, OneUrl
  <2> QED
    BY <2>3, <2>4
<1> QED
  BY <1>1, <1>4, <1>5, NewPlanUrl

(* A purchase that is about to fail its user plan was refused by the gateway. *)
LEMMA RejectedStep ==
  ASSUME PlanChargeInv, [PlanNext]_planVars
  PROVE  RejectedByGateway'
<1>1. PurchaseInv /\ PlanTypeOK /\ UserPlansGrow
  BY UserPlansStep DEF PlanChargeInv, PurchaseInv
<1> SUFFICES ASSUME NEW id \in UserPlanIds, purchases'[id].pc = "rejecting"
             PROVE  userPlans'[id].price \notin AcceptedAmounts
  BY DEF RejectedByGateway
<1>2. ASSUME userPlans[id] # NoUserPlan, userPlans[id].price \notin AcceptedAmounts
      PROVE  userPlans'[id].price \notin AcceptedAmounts
  BY <1>1, <1>2 DEF UserPlansGrow
<1>3. CASE purchases'[id] = purchases[id]
  <2>1. userPlans[id] # NoUserPlan /\ userPlans[id].price \notin AcceptedAmounts
    BY <1>1, <1>3 DEF PlanChargeInv, PurchaseInv, RejectedByGateway, PurchasesHaveUserPlans,
                      PurchaseHasUserPlan
  <2> QED
    BY <1>2, <2>1
<1>4. CASE PurchaseStep(id)
  <2>1. TakeReply(id) /\ creating[id].pc = "refused"
    <3>1. purchases[id] \in PurchaseHandler
      BY <1>1, <1>4, PurchaseHandlerStep
    <3> QED
      BY <1>1, <1>4, <3>1 DEF PurchaseStep, CreateUserPlan, CallTransaction, TakeReply,
                              RejectUserPlan, PlanTypeOK, PurchaseHandler
  <2>2. creating[id].amount \notin AcceptedAmounts
    BY <2>1 DEF PlanChargeInv, UrlInv, LimitsKept, CallWithinLimits, References
  <2>3. userPlans[id] # NoUserPlan /\ userPlans[id].price = creating[id].amount
    BY <1>1, <2>1 DEF PurchaseInv, CallsHaveUserPlans, CallHasUserPlan
  <2> QED
    BY <1>2, <2>2, <2>3
<1> QED
  BY <1>1, <1>3, <1>4, HandlerChanges

LEMMA PlanChargeStep ==
  ASSUME PlanChargeInv, [PlanNext]_planVars
  PROVE  PlanChargeInv'
<1>1. PurchaseInv /\ ServiceInv /\ UrlInv /\ OnlyUserPlans /\ [ServiceNext]_serviceVars
  BY SaleServiceStep DEF PlanChargeInv, PurchaseInv
<1> QED
  BY <1>1, PurchaseInvStep, UrlStep, OnlyUserPlansStep, UrlsOfReturnedStep, RejectedStep
     DEF PlanChargeInv

(* The payments that were attempted for one user plan are one payment. *)
LEMMA OneAttempt ==
  ASSUME PlanChargeInv, NEW t1 \in TrackIds, NEW t2 \in TrackIds, Attempted(t1), Attempted(t2),
         transactions[t1].orderId = transactions[t2].orderId
  PROVE  t1 = t2
  BY DEF PlanChargeInv, UrlInv, AttemptsHaveUrls, OneUrl
-----------------------------------------------------------------------------
(* The refinement of Sale.  handleUserPlanTransaction writes every message's status  *)
(* over the user plan's.  A FAILED user plan was refused by the gateway, or has a     *)
(* payment that failed for good or was asked about while it could still be made;      *)
(* with one attempted payment per user plan, no message about a user plan that is not *)
(* in doubt contradicts the one before it.                                            *)
FailedUserPlansExcused ==
  \A id \in UserPlanIds :
    userPlans[id] # NoUserPlan /\ userPlans[id].status = "FAILURE" =>
      \/ userPlans[id].price \notin AcceptedAmounts
      \/ \E t \in TrackIds : HasTransaction(t, id) /\ FailureExcused(t)

PlanPromiseInv == PlanChargeInv /\ AgreementInv /\ FailedUserPlansExcused

LEMMA InitPlanPromise == PlanInit => PlanPromiseInv
  BY InitPlanCharge, InitAgreement DEF PlanInit, PlanPromiseInv, FailedUserPlansExcused

(* A message says COMPLETED of a user plan with a verified payment, FAILURE of one with a *)
(* payment that failed for good or was asked about early.                                 *)
LEMMA MessageMeans ==
  ASSUME PlanPromiseInv, NEW i \in DOMAIN PlanTopic
  PROVE  \E t \in TrackIds :
           /\ HasTransaction(t, PlanTopic[i].id)
           /\ \/ PlanTopic[i].status = "COMPLETED" /\ gateway[t] = "verified"
              \/ PlanTopic[i].status = "FAILURE" /\ FailureExcused(t)
<1> USE DEF PlanPromiseInv, PlanChargeInv, PurchaseInv
<1>1. PlanTopic[i] \in Message
  BY DEF ServiceInv, ServiceTypeOK, PlanTopic, TransactionTypes
<1>2. CASE PlanTopic[i].status = "COMPLETED"
  BY <1>2 DEF ServiceInv, CompletionIsVerified, PlanTopic, TransactionTypes, HasTransaction
<1>3. CASE PlanTopic[i].status = "FAILURE"
  <2>1. PICK t \in TrackIds : /\ HasTransaction(t, PlanTopic[i].id)
                              /\ HasStatus(t, PlanTopic[i].status) \/ t \in askedEarly
    BY DEF AgreementInv, EventsAgree, PlanTopic, TransactionTypes
  <2>2. FailureExcused(t)
    BY <1>3, <2>1 DEF AgreementInv, FailuresExcused, FailureExcused
  <2> QED
    BY <1>3, <2>1, <2>2
<1> QED
  BY <1>1, <1>2, <1>3 DEF Message

LEMMA FailedUserPlansStep ==
  ASSUME PlanPromiseInv, [PlanNext]_planVars
  PROVE  FailedUserPlansExcused'
<1>1. /\ UserPlansGrow /\ TransactionsGrow
      /\ PlanChargeInv /\ PurchaseInv /\ ServiceInv /\ ServiceTypeOK /\ PlanTypeOK
      /\ [ServiceNext]_serviceVars
  BY UserPlansStep, SaleServiceStep, TransactionsGrowStep
     DEF PlanPromiseInv, PlanChargeInv, PurchaseInv, ServiceInv
<1> DEFINE Excused(id) == \/ userPlans[id].price \notin AcceptedAmounts
                          \/ \E t \in TrackIds : HasTransaction(t, id) /\ FailureExcused(t)
<1> SUFFICES ASSUME NEW id \in UserPlanIds, userPlans'[id] # NoUserPlan,
                    userPlans'[id].status = "FAILURE"
             PROVE  Excused(id)'
  BY DEF FailedUserPlansExcused
<1>2. ASSUME userPlans[id] # NoUserPlan, Excused(id)
      PROVE  Excused(id)'
  <2>1. CASE userPlans[id].price \notin AcceptedAmounts
    BY <1>1, <1>2, <2>1 DEF UserPlansGrow
  <2>2. ASSUME NEW t \in TrackIds, HasTransaction(t, id), FailureExcused(t)
        PROVE  Excused(id)'
    <3>1. FailureExcused(t)'
      BY <1>1, <2>2, ExcuseStays
    <3>2. HasTransaction(t, id)'
      BY <1>1, <2>2 DEF HasTransaction, TransactionsGrow
    <3> QED
      BY <3>1, <3>2
  <2> QED
    BY <1>2, <2>1, <2>2
<1>3. CASE userPlans'[id] = userPlans[id]
  BY <1>2, <1>3 DEF PlanPromiseInv, FailedUserPlansExcused
<1>4. ASSUME NEW id2 \in UserPlanIds, CreateUserPlan(id2)
      PROVE  Excused(id)'
  BY <1>1, <1>3, <1>4 DEF CreateUserPlan, PlanTypeOK
<1>5. ASSUME NEW id2 \in UserPlanIds, RejectUserPlan(id2)
      PROVE  Excused(id)'
  <2>1. CASE id2 = id
    <3>1. userPlans[id] # NoUserPlan /\ userPlans[id].price \notin AcceptedAmounts
      BY <1>1, <1>5, <2>1 DEF RejectUserPlan, PlanChargeInv, RejectedByGateway, PurchaseInv,
                              PurchasesHaveUserPlans, PurchaseHasUserPlan
    <3> QED
      BY <1>2, <3>1
  <2>2. CASE id2 # id
    BY <1>1, <1>3, <1>5, <2>2 DEF RejectUserPlan, PlanTypeOK
  <2> QED
    BY <2>1, <2>2
<1>6. CASE UpdateUserPlan
  <2>1. PICK i \in DOMAIN PlanTopic : TakesMessage(i)
    BY <1>1, <1>6, MessageTaken
  <2>2. CASE userPlans'[id] # userPlans[id]
    <3>1. /\ PlanTopic[i].id = id
          /\ userPlans[id] \in UserPlan
          /\ userPlans'[id] = [userPlans[id] EXCEPT !.status = PlanTopic[i].status]
      BY <1>1, <2>1, <2>2 DEF TakesMessage, PlanTypeOK
    <3>2. PlanTopic[i].status = "FAILURE"
      BY <2>1, <3>1, StatusChanges DEF TakesMessage, Message, Statuses
    <3>3. Excused(id)
      BY <3>1, <3>2, MessageMeans
    <3> QED
      BY <1>2, <3>1, <3>3
  <2> QED
    BY <1>3, <2>2
<1>7. CASE UNCHANGED userPlans
  BY <1>3, <1>7
<1> QED
  BY <1>4, <1>5, <1>6, <1>7
     DEF PlanNext, UserNext, PurchaseStep, PlanConsumerStep, planVars, userVars, CreatePlan,
         UpdatePlan, DeletePlan, ReadPlan, CallTransaction, TakeReply, PurchaseThrows,
         ResolveMessage, CommitOffsets, UserCrash

LEMMA PlanPromiseStep ==
  ASSUME PlanPromiseInv, [PlanNext]_planVars
  PROVE  PlanPromiseInv'
<1>1. PlanChargeInv /\ AgreementInv /\ PurchaseInv /\ ServiceInv /\ [ServiceNext]_serviceVars
  BY SaleServiceStep DEF PlanPromiseInv, PlanChargeInv, PurchaseInv
<1> QED
  BY <1>1, PlanChargeStep, AgreementStep, FailedUserPlansStep DEF PlanPromiseInv

(* The abstract variables, named to keep them opaque. *)
OutcomeOf ==
  [id \in UserPlanIds |-> IF userPlans[id] = NoUserPlan THEN "ABSENT" ELSE userPlans[id].status]

SalePrice ==
  [id \in UserPlanIds |-> IF userPlans[id] = NoUserPlan THEN 0 ELSE userPlans[id].price]

PaidFor == {id \in UserPlanIds : \E t \in TrackIds : /\ HasTransaction(t, id)
                                                    /\ userPlans[id] # NoUserPlan
                                                    /\ transactions[t].amount = userPlans[id].price
                                                    /\ gateway[t] = "verified"}

InDoubt == {id \in UserPlanIds : AskedTooSoon(id)}

(* A user plan with a transaction exists, at its price, within the limits. *)
LEMMA TransactionPrice ==
  ASSUME PlanChargeInv, NEW id \in UserPlanIds, NEW t \in TrackIds, HasTransaction(t, id)
  PROVE  /\ userPlans[id] \in UserPlan
         /\ transactions[t].amount = userPlans[id].price
         /\ userPlans[id].price \in AcceptedAmounts
         /\ userPlans[id].price > 0
<1>1. /\ userPlans[id] # NoUserPlan
      /\ transactions[t].amount = userPlans[id].price
      /\ transactions[t].amount \in AcceptedAmounts
  BY DEF PlanChargeInv, PurchaseInv, TransactionsHaveUserPlans, UrlInv, LimitsKept, HasTransaction
<1>2. userPlans[id] \in UserPlan
  BY <1>1 DEF PlanChargeInv, PurchaseInv, PlanTypeOK
<1>3. \A amount \in AcceptedAmounts : amount > 0
  BY AmountsAssumption
<1> QED
  BY <1>1, <1>2, <1>3

(* So a user plan is paid for when any payment of it is verified; and, because the *)
(* invariant is kept, after the step too.                                          *)
Bought ==
  {id \in UserPlanIds : \E t \in TrackIds : HasTransaction(t, id) /\ gateway[t] = "verified"}

LEMMA PaidForMeans == PlanChargeInv => PaidFor = Bought
<1> SUFFICES ASSUME PlanChargeInv, NEW id \in UserPlanIds, NEW t \in TrackIds,
                    HasTransaction(t, id), gateway[t] = "verified"
             PROVE  userPlans[id] # NoUserPlan /\ transactions[t].amount = userPlans[id].price
  BY DEF PaidFor, Bought
<1> QED
  BY TransactionPrice

LEMMA PaidForMeansNext ==
  ASSUME PlanChargeInv, [PlanNext]_planVars
  PROVE  PaidFor' = Bought'
<1>1. PlanChargeInv'
  BY PlanChargeStep
<1>2. (PaidFor = Bought)'
  BY <1>1, PaidForMeans, PTL
<1> QED
  BY <1>2

(* A payment that is made, but not verified, is made for a user plan that is PENDING *)
(* or in doubt.                                                                      *)
LEMMA PaymentInHand ==
  ASSUME PlanPromiseInv, NEW t \in TrackIds, gateway[t] = "paid"
  PROVE  \E id \in UserPlanIds : /\ HasTransaction(t, id)
                                 /\ userPlans[id] # NoUserPlan
                                 /\ userPlans[id].status = "PENDING" \/ id \in InDoubt
                                 /\ userPlans[id].price > 0
<1> DEFINE id == transactions[t].orderId
<1>1. PlanChargeInv /\ PurchaseInv /\ Attempted(t)
  BY DEF PlanPromiseInv, PlanChargeInv, Attempted
<1>2. HasTransaction(t, id) /\ id \in UserPlanIds
  BY <1>1 DEF PlanChargeInv, UrlInv, AttemptsHaveUrls, UrlsHaveTransactions, OnlyUserPlans,
              HasTransaction
<1>3. ASSUME NEW t2 \in TrackIds, HasTransaction(t2, id), gateway[t2] \in {"failed", "verified"}
      PROVE  FALSE
  <2>1. t2 = t
    BY <1>1, <1>3, OneAttempt DEF Attempted, HasTransaction
  <2> QED
    BY <1>3, <2>1
<1>4. /\ userPlans[id] \in UserPlan
      /\ userPlans[id].price \in AcceptedAmounts
      /\ userPlans[id].price > 0
  BY <1>1, <1>2, TransactionPrice
<1>5. userPlans[id] # NoUserPlan
  BY <1>4, NoUserPlanAssumption
<1>6. userPlans[id].status # "COMPLETED"
  BY <1>1, <1>2, <1>3, <1>5 DEF PurchaseInv, PaidUserPlans
<1>7. userPlans[id].status = "FAILURE" => id \in InDoubt
  BY <1>2, <1>3, <1>4, <1>5
     DEF PlanPromiseInv, FailedUserPlansExcused, FailureExcused, InDoubt, AskedTooSoon
<1> QED
  BY <1>2, <1>4, <1>5, <1>6, <1>7 DEF UserPlan, Statuses

LEMMA SaleVars == UserPlanSales!saleVars = <<OutcomeOf, SalePrice, PaidFor, InDoubt>>
  BY DEF UserPlanSales!saleVars, OutcomeOf, SalePrice, PaidFor, InDoubt

(* Steps of the abstract sale, in the abstract variables. *)
LEMMA SaleSteps ==
  /\ /\ OutcomeOf' = OutcomeOf /\ SalePrice' = SalePrice
     /\ PaidFor' = PaidFor /\ InDoubt' = InDoubt
     => UNCHANGED UserPlanSales!saleVars
  /\ \A id \in UserPlanIds : \A amount \in Amounts :
       /\ OutcomeOf[id] = "ABSENT"
       /\ OutcomeOf' = [OutcomeOf EXCEPT ![id] = "PENDING"]
       /\ SalePrice' = [SalePrice EXCEPT ![id] = amount]
       /\ PaidFor' = PaidFor /\ InDoubt' = InDoubt
       => UserPlanSales!SaleNext
  /\ \A id \in UserPlanIds :
       /\ OutcomeOf[id] = "PENDING" \/ id \in InDoubt
       /\ SalePrice[id] > 0
       /\ PaidFor' = PaidFor \cup {id}
       /\ OutcomeOf' = OutcomeOf /\ SalePrice' = SalePrice /\ InDoubt' = InDoubt
       => UserPlanSales!SaleNext
  /\ \A id \in UserPlanIds : \A status \in {"FAILURE", "COMPLETED"} :
       /\ OutcomeOf[id] = "PENDING" \/ id \in InDoubt
       /\ status = "COMPLETED" => id \in PaidFor
       /\ status = "FAILURE" => id \notin PaidFor \/ id \in InDoubt
       /\ OutcomeOf' = [OutcomeOf EXCEPT ![id] = status]
       /\ SalePrice' = SalePrice /\ PaidFor' = PaidFor /\ InDoubt' = InDoubt
       => UserPlanSales!SaleNext
  /\ \A id \in UserPlanIds :
       /\ SalePrice[id] > 0
       /\ InDoubt' = InDoubt \cup {id}
       /\ OutcomeOf' = OutcomeOf /\ SalePrice' = SalePrice /\ PaidFor' = PaidFor
       => UserPlanSales!SaleNext
<1>1. /\ OutcomeOf' = OutcomeOf /\ SalePrice' = SalePrice
      /\ PaidFor' = PaidFor /\ InDoubt' = InDoubt
      => UNCHANGED UserPlanSales!saleVars
  <2> SUFFICES ASSUME OutcomeOf' = OutcomeOf, SalePrice' = SalePrice,
                      PaidFor' = PaidFor, InDoubt' = InDoubt
               PROVE  UserPlanSales!saleVars' = UserPlanSales!saleVars
    OBVIOUS
  <2>1. (UserPlanSales!saleVars = <<OutcomeOf, SalePrice, PaidFor, InDoubt>>)'
    BY SaleVars, PTL
  <2> QED
    BY <2>1, SaleVars
<1>2. ASSUME NEW id \in UserPlanIds, NEW amount \in Amounts, OutcomeOf[id] = "ABSENT",
             OutcomeOf' = [OutcomeOf EXCEPT ![id] = "PENDING"],
             SalePrice' = [SalePrice EXCEPT ![id] = amount],
             PaidFor' = PaidFor, InDoubt' = InDoubt
      PROVE  UserPlanSales!SaleNext
  <2>1. UserPlanSales!Place(id, amount, "PENDING")
    BY <1>2 DEF UserPlanSales!Place, OutcomeOf, SalePrice, PaidFor, InDoubt
  <2> QED
    BY <2>1 DEF UserPlanSales!SaleNext, UserPlanSales!Outcomes
<1>3. ASSUME NEW id \in UserPlanIds, OutcomeOf[id] = "PENDING" \/ id \in InDoubt,
             SalePrice[id] > 0, PaidFor' = PaidFor \cup {id}, OutcomeOf' = OutcomeOf,
             SalePrice' = SalePrice, InDoubt' = InDoubt
      PROVE  UserPlanSales!SaleNext
  <2>1. UserPlanSales!Receive(id)
    BY <1>3 DEF UserPlanSales!Receive, UserPlanSales!Undecided, OutcomeOf, SalePrice, PaidFor,
                InDoubt
  <2> QED
    BY <2>1 DEF UserPlanSales!SaleNext
<1>4. ASSUME NEW id \in UserPlanIds, NEW status \in {"FAILURE", "COMPLETED"},
             OutcomeOf[id] = "PENDING" \/ id \in InDoubt,
             status = "COMPLETED" => id \in PaidFor,
             status = "FAILURE" => id \notin PaidFor \/ id \in InDoubt,
             OutcomeOf' = [OutcomeOf EXCEPT ![id] = status],
             SalePrice' = SalePrice, PaidFor' = PaidFor, InDoubt' = InDoubt
      PROVE  UserPlanSales!SaleNext
  <2>1. CASE status = "COMPLETED"
    <3>1. UserPlanSales!Deliver(id)
      BY <1>4, <2>1 DEF UserPlanSales!Deliver, UserPlanSales!Undecided, OutcomeOf, SalePrice,
                        PaidFor, InDoubt
    <3> QED
      BY <3>1 DEF UserPlanSales!SaleNext
  <2>2. CASE status = "FAILURE"
    <3>1. UserPlanSales!Refuse(id)
      BY <1>4, <2>2 DEF UserPlanSales!Refuse, OutcomeOf, SalePrice, PaidFor, InDoubt
    <3> QED
      BY <3>1 DEF UserPlanSales!SaleNext
  <2> QED
    BY <2>1, <2>2
<1>5. ASSUME NEW id \in UserPlanIds, SalePrice[id] > 0, InDoubt' = InDoubt \cup {id},
             OutcomeOf' = OutcomeOf, SalePrice' = SalePrice, PaidFor' = PaidFor
      PROVE  UserPlanSales!SaleNext
  <2>1. UserPlanSales!Doubt(id)
    BY <1>5 DEF UserPlanSales!Doubt, OutcomeOf, SalePrice, PaidFor, InDoubt
  <2> QED
    BY <2>1 DEF UserPlanSales!SaleNext
<1> QED
  BY <1>1, <1>2, <1>3, <1>4, <1>5

(* A step of the database alone settles no payment and raises no doubt. *)
LEMMA PaidForStays ==
  ASSUME PlanChargeInv, [PlanNext]_planVars, UNCHANGED serviceVars
  PROVE  PaidFor' = PaidFor /\ InDoubt' = InDoubt
<1>1. Bought' = Bought
  BY DEF Bought, serviceVars, gatewayVars, HasTransaction
<1>2. InDoubt' = InDoubt
  BY DEF InDoubt, AskedTooSoon, serviceVars, gatewayVars, HasTransaction
<1> QED
  BY <1>1, <1>2, PaidForMeans, PaidForMeansNext

(* A step puts at most one user plan in doubt, which has a price. *)
LEMMA DoubtChanges ==
  ASSUME PlanPromiseInv, [PlanNext]_planVars
  PROVE  /\ askedEarly' = askedEarly => InDoubt' = InDoubt
         /\ \/ InDoubt' = InDoubt
            \/ \E id \in UserPlanIds : /\ userPlans[id] # NoUserPlan
                                       /\ userPlans[id].price > 0
                                       /\ InDoubt' = InDoubt \cup {id}
<1>1. /\ PlanChargeInv /\ PurchaseInv /\ ServiceInv /\ ServiceTypeOK
      /\ askedEarly \in SUBSET TrackIds
      /\ EarlyHaveTransactions
      /\ OnlyUserPlans
      /\ [ServiceNext]_serviceVars
  BY SaleServiceStep DEF PlanPromiseInv, PlanChargeInv, PurchaseInv, ServiceInv, AgreementInv,
                         ServiceTypeOK, GatewayTypeOK
<1>2. \A t \in askedEarly : \A id \in UserPlanIds :
        HasTransaction(t, id)' <=> HasTransaction(t, id)
  BY <1>1, TransactionsGrowStep DEF EarlyHaveTransactions, TransactionsGrow, HasTransaction
<1>3. askedEarly' = askedEarly => InDoubt' = InDoubt
  BY <1>2 DEF InDoubt, AskedTooSoon
<1>4. ASSUME NEW t \in TrackIds, transactions[t] # NoTransaction, transactions' = transactions,
             askedEarly' = askedEarly \cup {t}
      PROVE  \E id \in UserPlanIds : /\ userPlans[id] # NoUserPlan
                                    /\ userPlans[id].price > 0
                                    /\ InDoubt' = InDoubt \cup {id}
  <2> DEFINE id == transactions[t].orderId
  <2>1. id \in UserPlanIds /\ HasTransaction(t, id)
    BY <1>1, <1>4 DEF OnlyUserPlans, HasTransaction
  <2>2. userPlans[id] # NoUserPlan /\ userPlans[id].price > 0
    BY <1>1, <2>1, TransactionPrice, NoUserPlanAssumption
  <2>3. \A id2 \in UserPlanIds : HasTransaction(t, id2)' <=> id2 = id
    BY <1>4, <2>1 DEF HasTransaction
  <2>4. InDoubt' = InDoubt \cup {id}
    BY <1>2, <1>4, <2>1, <2>3 DEF InDoubt, AskedTooSoon
  <2> QED
    BY <2>1, <2>2, <2>4
<1> QED
  BY <1>1, <1>3, <1>4, AskedEarlyChanges

(* A status written over a user plan's is one the sale has, or may still take. *)
LEMMA StatusWritten ==
  ASSUME PlanChargeInv, [PlanNext]_planVars, UNCHANGED serviceVars,
         NEW id \in UserPlanIds, NEW status \in {"FAILURE", "COMPLETED"},
         userPlans[id] \in UserPlan,
         userPlans' = [userPlans EXCEPT ![id] = [@ EXCEPT !.status = status]],
         status = "COMPLETED" => id \in PaidFor,
         status = "FAILURE" => id \notin PaidFor \/ id \in InDoubt,
         userPlans[id].status \in {"PENDING", status} \/ id \in InDoubt
  PROVE  [UserPlanSales!SaleNext]_(UserPlanSales!saleVars)
<1> DEFINE written == [userPlans[id] EXCEPT !.status = status]
<1>1. PaidFor' = PaidFor /\ InDoubt' = InDoubt
  BY PaidForStays
<1>2. /\ written \in UserPlan
      /\ written.status = status
      /\ written.price = userPlans[id].price
  <2>1. status \in Statuses
    BY DEF Statuses
  <2> QED
    BY <2>1, StatusChanges
<1>3. OutcomeOf[id] = userPlans[id].status
  BY NoUserPlanAssumption DEF OutcomeOf
<1>4. OutcomeOf' = [OutcomeOf EXCEPT ![id] = status] /\ SalePrice' = SalePrice
  <2>1. /\ userPlans' = [userPlans EXCEPT ![id] = written]
        /\ DOMAIN userPlans = UserPlanIds
    BY DEF PlanChargeInv, PurchaseInv, PlanTypeOK
  <2> HIDE DEF written
  <2>2. userPlans'[id] = written /\ written # NoUserPlan /\ userPlans[id] # NoUserPlan
    BY <1>2, <2>1, NoUserPlanAssumption
  <2>3. \A id2 \in UserPlanIds : id2 # id => userPlans'[id2] = userPlans[id2]
    BY <2>1
  <2>4. \A id2 \in UserPlanIds :
          /\ OutcomeOf'[id2] = IF id2 = id THEN status ELSE OutcomeOf[id2]
          /\ SalePrice'[id2] = SalePrice[id2]
    BY <1>2, <2>2, <2>3 DEF OutcomeOf, SalePrice
  <2>5. /\ OutcomeOf = [id2 \in UserPlanIds |-> OutcomeOf[id2]]
        /\ OutcomeOf' = [id2 \in UserPlanIds |-> OutcomeOf'[id2]]
    BY DEF OutcomeOf
  <2>6. /\ SalePrice = [id2 \in UserPlanIds |-> SalePrice[id2]]
        /\ SalePrice' = [id2 \in UserPlanIds |-> SalePrice'[id2]]
    BY DEF SalePrice
  <2>7. SalePrice' = SalePrice
    BY <2>4, <2>6
  <2>8. OutcomeOf' = [OutcomeOf EXCEPT ![id] = status]
    BY <2>4, <2>5
  <2> QED
    BY <2>7, <2>8
<1>5. CASE userPlans[id].status = "PENDING" \/ id \in InDoubt
  BY <1>1, <1>3, <1>4, <1>5, SaleSteps
<1>6. CASE userPlans[id].status = status
  <2>1. OutcomeOf' = OutcomeOf
    BY <1>3, <1>4, <1>6 DEF OutcomeOf
  <2> QED
    BY <1>1, <1>4, <2>1, SaleSteps
<1> QED
  BY <1>5, <1>6

(* A step that leaves the user plans alone takes at most one payment, or raises a doubt. *)
LEMMA PaymentStep ==
  ASSUME PlanPromiseInv, [PlanNext]_planVars, userPlans' = userPlans
  PROVE  [UserPlanSales!SaleNext]_(UserPlanSales!saleVars)
<1>1. PlanChargeInv /\ ServiceInv /\ [ServiceNext]_serviceVars
  BY SaleServiceStep DEF PlanPromiseInv, PlanChargeInv, PurchaseInv
<1>2. OutcomeOf' = OutcomeOf /\ SalePrice' = SalePrice
  BY DEF OutcomeOf, SalePrice
<1>3. TransactionsGrow
  BY <1>1, TransactionsGrowStep
<1>4. PaidFor = Bought /\ PaidFor' = Bought'
  BY <1>1, PaidForMeans, PaidForMeansNext
<1>5. /\ Bought = {id \in UserPlanIds :
                     \E t \in TrackIds : HasTransaction(t, id) /\ t \in Settled}
      /\ Bought' = {id \in UserPlanIds :
                      \E t \in TrackIds : HasTransaction(t, id)' /\ t \in Settled'}
  BY DEF Bought, Settled
<1>6. ASSUME NEW t \in TrackIds, Attempted(t), NEW id \in UserPlanIds
      PROVE  HasTransaction(t, id)' <=> HasTransaction(t, id)
  <2>1. transactions[t] # NoTransaction
    BY <1>1, <1>6 DEF PlanChargeInv, UrlInv, AttemptsHaveUrls, UrlsHaveTransactions
  <2> QED
    BY <1>3, <2>1 DEF HasTransaction, TransactionsGrow
<1>7. \A t \in Settled : t \in TrackIds /\ Attempted(t)
  BY DEF Settled, Attempted
<1>8. CASE Settled' = Settled
  <2>1. Bought' = Bought
    BY <1>5, <1>6, <1>7, <1>8
  <2>2. CASE InDoubt' = InDoubt
    BY <1>2, <1>4, <2>1, <2>2, SaleSteps
  <2>3. ASSUME NEW id \in UserPlanIds, userPlans[id] # NoUserPlan, userPlans[id].price > 0,
               InDoubt' = InDoubt \cup {id}
        PROVE  UserPlanSales!SaleNext
    <3>1. SalePrice[id] > 0
      BY <2>3 DEF SalePrice
    <3> QED
      BY <1>2, <1>4, <2>1, <2>3, <3>1, SaleSteps
  <2> QED
    BY <2>2, <2>3, DoubtChanges
<1>9. ASSUME NEW t \in TrackIds, gateway[t] = "paid", Settled' = Settled \cup {t},
             askedEarly' = askedEarly
      PROVE  [UserPlanSales!SaleNext]_(UserPlanSales!saleVars)
  <2>1. PICK id \in UserPlanIds : /\ HasTransaction(t, id)
                                  /\ userPlans[id] # NoUserPlan
                                  /\ userPlans[id].status = "PENDING" \/ id \in InDoubt
                                  /\ userPlans[id].price > 0
    BY <1>9, PaymentInHand
  <2>2. Attempted(t)
    BY <1>9 DEF Attempted
  <2>3. \A id2 \in UserPlanIds : HasTransaction(t, id2)' <=> id2 = id
    BY <1>6, <2>1, <2>2 DEF HasTransaction
  <2>4. Bought' = Bought \cup {id}
    BY <1>5, <1>6, <1>7, <1>9, <2>1, <2>3
  <2>5. (OutcomeOf[id] = "PENDING" \/ id \in InDoubt) /\ SalePrice[id] > 0
    BY <2>1 DEF OutcomeOf, SalePrice
  <2>6. InDoubt' = InDoubt
    BY <1>9, DoubtChanges
  <2> QED
    BY <1>2, <1>4, <2>4, <2>5, <2>6, SaleSteps
<1> QED
  BY <1>1, <1>8, <1>9, SettledStep

LEMMA SaleStep ==
  ASSUME PlanPromiseInv, [PlanNext]_planVars
  PROVE  [UserPlanSales!SaleNext]_(UserPlanSales!saleVars)
<1>1. PlanChargeInv /\ PurchaseInv /\ PlanTypeOK
  BY DEF PlanPromiseInv, PlanChargeInv, PurchaseInv
<1>2. ASSUME NEW id \in UserPlanIds, CreateUserPlan(id)
      PROVE  UserPlanSales!SaleNext
  <2> DEFINE price == purchases[id].price
             userPlan == [plan |-> purchases[id].plan, price |-> price, status |-> "PENDING"]
  <2>1. userPlans[id] = NoUserPlan /\ purchases[id] \in PurchaseHandler
    BY <1>1, <1>2, PurchaseBegun
       DEF CreateUserPlan, PurchaseInv, PurchasesHaveUserPlans, PurchaseHasUserPlan
  <2>2. userPlan \in UserPlan /\ price \in Amounts
    BY <2>1 DEF UserPlan, Statuses, PurchaseHandler
  <2>3. userPlans' = [userPlans EXCEPT ![id] = userPlan]
    BY <1>2 DEF CreateUserPlan
  <2>4. /\ OutcomeOf[id] = "ABSENT"
        /\ OutcomeOf' = [OutcomeOf EXCEPT ![id] = "PENDING"]
        /\ SalePrice' = [SalePrice EXCEPT ![id] = price]
    BY <1>1, <2>1, <2>2, <2>3, NoUserPlanAssumption DEF OutcomeOf, SalePrice, PlanTypeOK
  <2>5. PaidFor' = PaidFor /\ InDoubt' = InDoubt
    BY <1>1, <1>2, PaidForStays DEF CreateUserPlan
  <2> QED
    BY <2>2, <2>4, <2>5, SaleSteps
<1>3. ASSUME NEW id \in UserPlanIds, RejectUserPlan(id)
      PROVE  [UserPlanSales!SaleNext]_(UserPlanSales!saleVars)
  <2>1. userPlans[id] \in UserPlan /\ userPlans[id].price \notin AcceptedAmounts
    BY <1>1, <1>3 DEF RejectUserPlan, PlanChargeInv, RejectedByGateway, PurchaseInv, PlanTypeOK,
                      PurchasesHaveUserPlans, PurchaseHasUserPlan
  <2>2. \A t \in TrackIds : ~ HasTransaction(t, id)
    BY <1>1, <2>1, TransactionPrice
  <2>3. id \notin PaidFor
    BY <2>2 DEF PaidFor
  <2>4. userPlans[id].status \in {"PENDING", "FAILURE"}
    BY <1>1, <2>1, <2>2, NoUserPlanAssumption DEF PurchaseInv, PaidUserPlans, UserPlan, Statuses
  <2>5. /\ UNCHANGED serviceVars
        /\ userPlans' = [userPlans EXCEPT ![id] = [@ EXCEPT !.status = "FAILURE"]]
    BY <1>3 DEF RejectUserPlan
  <2> QED
    BY <1>1, <2>1, <2>3, <2>4, <2>5, StatusWritten
<1>4. CASE UpdateUserPlan /\ userPlans' # userPlans
  <2>1. PICK i \in DOMAIN PlanTopic : TakesMessage(i)
    BY <1>1, <1>4, MessageTaken
  <2> DEFINE id == PlanTopic[i].id
             status == PlanTopic[i].status
  <2>2. /\ UNCHANGED serviceVars
        /\ id \in UserPlanIds
        /\ userPlans[id] \in UserPlan
        /\ userPlans' = [userPlans EXCEPT ![id] = [@ EXCEPT !.status = status]]
    BY <1>4, <2>1 DEF TakesMessage, UpdateUserPlan
  <2>3. PICK t \in TrackIds : /\ HasTransaction(t, id)
                              /\ \/ status = "COMPLETED" /\ gateway[t] = "verified"
                                 \/ status = "FAILURE" /\ FailureExcused(t)
    BY MessageMeans
  <2>4. userPlans[id].price \in AcceptedAmounts /\ userPlans[id] # NoUserPlan
    BY <1>1, <2>2, <2>3, TransactionPrice, NoUserPlanAssumption
  <2>5. ASSUME id \notin InDoubt, NEW t2 \in TrackIds, HasTransaction(t2, id), Attempted(t2)
        PROVE  t2 = t
    <3>1. Attempted(t)
      BY <2>2, <2>3, <2>5 DEF FailureExcused, InDoubt, AskedTooSoon, Attempted
    <3> QED
      BY <1>1, <2>3, <2>5, <3>1, OneAttempt DEF HasTransaction
  <2>6. status = "COMPLETED" => id \in PaidFor
    BY <1>1, <2>2, <2>3, PaidForMeans DEF Bought
  <2>7. status = "FAILURE" => id \notin PaidFor \/ id \in InDoubt
    BY <1>1, <2>2, <2>3, <2>5, PaidForMeans
       DEF Bought, Attempted, FailureExcused, InDoubt, AskedTooSoon
  <2>8. userPlans[id].status = "COMPLETED" => status = "COMPLETED" \/ id \in InDoubt
    BY <1>1, <2>2, <2>3, <2>4, <2>5
       DEF PurchaseInv, PaidUserPlans, Attempted, FailureExcused, InDoubt, AskedTooSoon
  <2>9. userPlans[id].status = "FAILURE" => status = "FAILURE" \/ id \in InDoubt
    BY <2>2, <2>3, <2>4, <2>5
       DEF PlanPromiseInv, FailedUserPlansExcused, Attempted, FailureExcused, InDoubt, AskedTooSoon
  <2>10. /\ status \in {"FAILURE", "COMPLETED"}
         /\ userPlans[id].status \in {"PENDING", status} \/ id \in InDoubt
    BY <2>2, <2>3, <2>8, <2>9 DEF UserPlan, Statuses
  <2> HIDE DEF id, status
  <2> QED
    BY <1>1, <2>2, <2>6, <2>7, <2>10, StatusWritten
<1>5. CASE userPlans' = userPlans
  BY <1>5, PaymentStep
<1> QED
  BY <1>2, <1>3, <1>4, <1>5
     DEF PlanNext, UserNext, PurchaseStep, PlanConsumerStep, planVars, userVars, CreatePlan,
         UpdatePlan, DeletePlan, ReadPlan, CallTransaction, TakeReply, PurchaseThrows,
         ResolveMessage, CommitOffsets, UserCrash

(* A user plan is sold at the price purchasePlan read and decided once, COMPLETED only     *)
(* with its money and FAILURE only without it: also when the consumer goes back to an      *)
(* older offset and overwrites statuses again, and when updatePlan or deletePlan run in    *)
(* between.  Only a user plan whose payment was asked about while it could still be made   *)
(* may change its outcome, and it too is COMPLETED only with its money.                    *)
THEOREM UserPlansKeepPromiseTheorem == PlanSpec => UserPlansKeepPromise
<1>1. PlanInit => PlanPromiseInv
  BY InitPlanPromise
<1>2. PlanPromiseInv /\ [PlanNext]_planVars => PlanPromiseInv'
  BY PlanPromiseStep
<1>3. PlanInit => UserPlanSales!SaleInit
  BY DEF PlanInit, ServiceInit, GatewayInit, HasTransaction, AskedTooSoon, UserPlanSales!SaleInit
<1>4. PlanPromiseInv /\ [PlanNext]_planVars
        => [UserPlanSales!SaleNext]_(UserPlanSales!saleVars)
  BY SaleStep
<1> QED
  BY <1>1, <1>2, <1>3, <1>4, PTL DEF PlanSpec, UserPlansKeepPromise, UserPlanSales!SaleSpec
=============================================================================
