------------------------- MODULE TransactionService -------------------------
(***************************************************************************)
(* The transaction service, transaction/src/transaction/                   *)
(* transaction.service.ts: createTransaction, called over HTTP by the      *)
(* product and user services, and verifyTransaction, which the gateway     *)
(* redirects a buyer's browser to and anyone may call with any track id at *)
(* any time.  Each handler is a sequence of steps, one per await, so that  *)
(* handlers interleave; any of them may throw at an await, and the process *)
(* may die and be restarted.                                               *)
(***************************************************************************)
EXTENDS PaymentGateway, Naturals, Sequences

CONSTANTS
  OrderIds,          \* ids of the product service's orders
  UserPlanIds,       \* ids of the user service's plan purchases
  Amounts,           \* amounts a client may ask for, 0 included
  AcceptedAmounts,   \* amounts within the gateway's limits
  VerifyRequests,    \* requests to GET /verify, each served once
  MaxFaults,         \* bound on exceptions, repeated sends and crashes
  NoTransaction,     \* no document under a track id
  NoTrackId          \* a handler that holds no track id yet

ASSUME AmountsAssumption ==
  Amounts \subseteq Nat /\ 0 \in Amounts /\ AcceptedAmounts \subseteq Amounts \ {0}
ASSUME IdsAssumption == OrderIds \cap UserPlanIds = {}
ASSUME MaxFaultsAssumption == MaxFaults \in Nat
ASSUME NoTrackIdAssumption == NoTrackId \notin TrackIds

VARIABLES
  transactions,      \* [TrackIds -> Transaction \cup {NoTransaction}], the collection
  creating,          \* the createTransaction call made for each id
  verifying,         \* the verifyTransaction handler of each request
  topics,            \* the Kafka topics, by transaction type
  faults             \* faults so far, at most MaxFaults

serviceVars == <<gatewayVars, transactions, creating, verifying, topics, faults>>

References == OrderIds \cup UserPlanIds

Statuses == {"PENDING", "FAILURE", "COMPLETED"}

Transaction == [orderId : References, amount : Amounts, status : Statuses]

ASSUME NoTransactionAssumption == NoTransaction \notin Transaction

TransactionTypes == {"ORDER", "PLAN"}

(* The client that owns an id passes its own type with it. *)
TypeOf(id) == IF id \in OrderIds THEN "ORDER" ELSE "PLAN"

Message == [id : References, status : {"FAILURE", "COMPLETED"}]

(* Replies a caller of POST /transaction can get: success, success = false, *)
(* 400 from validation, 500 from an exception, and a dropped connection.    *)
Replies == {"created", "refused", "badRequest", "error", "lost"}

CreateSteps == {"requesting", "inserting", "responding"}

VerifySteps == {"verifying", "updating", "sending"}

Call == [pc : {"idle"} \cup CreateSteps \cup Replies,
         amount : Amounts,
         trackId : TrackIds \cup {NoTrackId}]

Verification == [pc : {"idle", "done"} \cup VerifySteps,
                 trackId : TrackIds \cup {NoTrackId},
                 status : Statuses]

ServiceTypeOK ==
  /\ GatewayTypeOK
  /\ transactions \in [TrackIds -> Transaction \cup {NoTransaction}]
  /\ creating \in [References -> Call]
  /\ verifying \in [VerifyRequests -> Verification]
  /\ topics \in [TransactionTypes -> Seq(Message)]
  /\ faults \in 0 .. MaxFaults

NoCall == [pc |-> "idle", amount |-> 0, trackId |-> NoTrackId]

NoVerification == [pc |-> "idle", trackId |-> NoTrackId, status |-> "PENDING"]

(* A request that was answered: what its handler held is of no more use. *)
Answered == [NoVerification EXCEPT !.pc = "done"]

ServiceInit ==
  /\ GatewayInit
  /\ transactions = [t \in TrackIds |-> NoTransaction]
  /\ creating = [id \in References |-> NoCall]
  /\ verifying = [r \in VerifyRequests |-> NoVerification]
  /\ topics = [type \in TransactionTypes |-> << >>]
  /\ faults = 0
-----------------------------------------------------------------------------
(* POST /transaction arrives; the validation pipe refuses an amount of 0. *)
CallCreateTransaction(id, amount) ==
  /\ creating[id].pc = "idle"
  /\ creating' = [creating EXCEPT ![id] =
                    [pc |-> IF amount > 0 THEN "requesting" ELSE "badRequest",
                     amount |-> amount,
                     trackId |-> NoTrackId]]
  /\ UNCHANGED <<gatewayVars, transactions, verifying, topics, faults>>

(* createTransaction asks the gateway for a payment: issued, or refused with 105 or 113. *)
RequestPayment(id) ==
  /\ creating[id].pc = "requesting"
  /\ \/ /\ creating[id].amount \in AcceptedAmounts
        /\ \E t \in TrackIds :
             /\ IssuePayment(t)
             /\ creating' = [creating EXCEPT ![id].pc = "inserting", ![id].trackId = t]
     \/ /\ creating[id].amount \notin AcceptedAmounts
        /\ creating' = [creating EXCEPT ![id].pc = "refused"]
        /\ UNCHANGED gateway
  /\ UNCHANGED <<paymentUrls, askedEarly, transactions, verifying, topics, faults>>

(* transactionModel.create: the status is the schema's default, PENDING. *)
InsertTransaction(id) ==
  /\ creating[id].pc = "inserting"
  /\ transactions' = [transactions EXCEPT ![creating[id].trackId] =
                        [orderId |-> id, amount |-> creating[id].amount, status |-> "PENDING"]]
  /\ creating' = [creating EXCEPT ![id].pc = "responding"]
  /\ UNCHANGED <<gatewayVars, verifying, topics, faults>>

(* createTransaction returns the track id and the payment url. *)
Respond(id) ==
  /\ creating[id].pc = "responding"
  /\ creating' = [creating EXCEPT ![id].pc = "created"]
  /\ UNCHANGED <<gatewayVars, transactions, verifying, topics, faults>>

(* Faulty EndCall: the buyer gets the url of every payment that was issued. *)
EndCallAnyUrl(id) ==
  /\ creating[id].pc \in Replies
  /\ creating' = [creating EXCEPT ![id] = NoCall]
  /\ paymentUrls' = paymentUrls \cup ({creating[id].trackId} \ {NoTrackId})
  /\ UNCHANGED <<gateway, askedEarly, transactions, verifying, topics, faults>>

(* The caller takes the reply; with success its user gets the payment url. *)
EndCall(id) ==
  /\ creating[id].pc \in Replies
  /\ creating' = [creating EXCEPT ![id] = NoCall]
  /\ paymentUrls' = IF creating[id].pc = "created"
                    THEN paymentUrls \cup {creating[id].trackId}
                    ELSE paymentUrls
  /\ UNCHANGED <<gateway, askedEarly, transactions, verifying, topics, faults>>

(* An await of createTransaction rejects, before or after its effect: 500. *)
CreateThrows(id) ==
  /\ faults < MaxFaults
  /\ creating[id].pc \in CreateSteps
  /\ creating' = [creating EXCEPT ![id].pc = "error"]
  /\ faults' = faults + 1
  /\ UNCHANGED <<gatewayVars, transactions, verifying, topics>>
-----------------------------------------------------------------------------
IsPending(t) == transactions[t] # NoTransaction /\ transactions[t].status = "PENDING"

(* verifyTransaction reads the transaction.  GET /verify has no guard: any track id is *)
(* asked about, whatever the state of its payment.  A transaction already decided is   *)
(* only redirected and a missing one throws: both end the request here.                *)
FindTransaction(r, t) ==
  /\ verifying[r].pc = "idle"
  /\ verifying' = [verifying EXCEPT ![r] =
                     IF IsPending(t)
                     THEN [pc |-> "verifying", trackId |-> t, status |-> "PENDING"]
                     ELSE Answered]
  /\ UNCHANGED <<gatewayVars, transactions, creating, topics, faults>>

(* Faulty VerifyPayment: the answer 201, already verified, counts as failure. *)
VerifyPaymentOnlyFirst(r) ==
  /\ verifying[r].pc = "verifying"
  /\ AnswerVerification(verifying[r].trackId)
  /\ verifying' = [verifying EXCEPT
                     ![r].pc = "updating",
                     ![r].status = IF gateway[verifying[r].trackId] = "paid"
                                   THEN "COMPLETED" ELSE "FAILURE"]
  /\ UNCHANGED <<paymentUrls, transactions, creating, topics, faults>>

(* zibal.veifyPayment, and the status that its answer decides. *)
VerifyPayment(r) ==
  /\ verifying[r].pc = "verifying"
  /\ AnswerVerification(verifying[r].trackId)
  /\ verifying' = [verifying EXCEPT
                     ![r].pc = "updating",
                     ![r].status = IF gateway[verifying[r].trackId] \in Payable
                                   THEN "COMPLETED" ELSE "FAILURE"]
  /\ UNCHANGED <<paymentUrls, transactions, creating, topics, faults>>

(* Faulty UpdateTransaction: updateOne without the status filter. *)
UpdateTransactionUnfiltered(r) ==
  /\ verifying[r].pc = "updating"
  /\ transactions' = [transactions EXCEPT ![verifying[r].trackId].status = verifying[r].status]
  /\ verifying' = [verifying EXCEPT ![r].pc = "sending"]
  /\ UNCHANGED <<gatewayVars, creating, topics, faults>>

(* updateOne({ _id, status: PENDING }): no effect when another request was first; *)
(* its result is not looked at.                                                   *)
UpdateTransaction(r) ==
  /\ verifying[r].pc = "updating"
  /\ transactions' = [transactions EXCEPT ![verifying[r].trackId] =
                        IF IsPending(verifying[r].trackId)
                        THEN [@ EXCEPT !.status = verifying[r].status]
                        ELSE @]
  /\ verifying' = [verifying EXCEPT ![r].pc = "sending"]
  /\ UNCHANGED <<gatewayVars, creating, topics, faults>>

(* Faulty Publish: the event carries the status that findOne read at the beginning. *)
PublishRead(r) ==
  LET id == transactions[verifying[r].trackId].orderId
  IN  topics' = [topics EXCEPT ![TypeOf(id)] = Append(@, [id |-> id, status |-> "PENDING"])]

(* The event carries the status of this handler, not that of the document. *)
Publish(r) ==
  LET id == transactions[verifying[r].trackId].orderId
  IN  topics' = [topics EXCEPT ![TypeOf(id)] =
                   Append(@, [id |-> id, status |-> verifying[r].status])]

SendEvent(r) ==
  /\ verifying[r].pc = "sending"
  /\ Publish(r)
  /\ verifying' = [verifying EXCEPT ![r] = Answered]
  /\ UNCHANGED <<gatewayVars, transactions, creating, faults>>

(* The broker stored the event but the producer retries the send. *)
RepeatSend(r) ==
  /\ faults < MaxFaults
  /\ verifying[r].pc = "sending"
  /\ Publish(r)
  /\ faults' = faults + 1
  /\ UNCHANGED <<gatewayVars, transactions, creating, verifying>>

(* An await of verifyTransaction rejects, before or after its effect: 500. *)
VerifyThrows(r) ==
  /\ faults < MaxFaults
  /\ verifying[r].pc \in VerifySteps
  /\ verifying' = [verifying EXCEPT ![r] = Answered]
  /\ faults' = faults + 1
  /\ UNCHANGED <<gatewayVars, transactions, creating, topics>>

(* The process dies and is restarted: every handler in flight is gone and *)
(* its caller sees a dropped connection; nothing else is kept in memory.  *)
ServiceCrash ==
  /\ faults < MaxFaults
  /\ creating' = [id \in References |->
                    IF creating[id].pc \in CreateSteps
                    THEN [creating[id] EXCEPT !.pc = "lost"] ELSE creating[id]]
  /\ verifying' = [r \in VerifyRequests |->
                     IF verifying[r].pc \in VerifySteps
                     THEN Answered ELSE verifying[r]]
  /\ faults' = faults + 1
  /\ UNCHANGED <<gatewayVars, transactions, topics>>
-----------------------------------------------------------------------------
CreateStep(id) == RequestPayment(id) \/ InsertTransaction(id) \/ Respond(id)

VerifyStep(r) == VerifyPayment(r) \/ UpdateTransaction(r) \/ SendEvent(r)

(* What happens inside the service and on the gateway's page. *)
InternalNext ==
  \/ GatewayNext /\ UNCHANGED <<transactions, creating, verifying, topics, faults>>
  \/ \E id \in References : CreateStep(id) \/ CreateThrows(id)
  \/ \E r \in VerifyRequests :
       \/ \E t \in TrackIds : FindTransaction(r, t)
       \/ VerifyStep(r) \/ RepeatSend(r) \/ VerifyThrows(r)
  \/ ServiceCrash

(* With any client that calls and takes replies at any time. *)
ServiceNext ==
  \/ InternalNext
  \/ \E id \in References :
       EndCall(id) \/ \E amount \in Amounts : CallCreateTransaction(id, amount)

ServiceSpec == ServiceInit /\ [][ServiceNext]_serviceVars
-----------------------------------------------------------------------------
HasStatus(t, status) ==
  transactions[t] # NoTransaction /\ transactions[t].status = status

HasTransaction(t, id) ==
  transactions[t] # NoTransaction /\ transactions[t].orderId = id

(* A transaction is COMPLETED only when the gateway verified its payment, and an *)
(* event says COMPLETED only for an id with a verified payment: however          *)
(* verifyTransaction handlers of one track id interleave, throw or die.          *)
CompletionIsVerified ==
  /\ \A t \in TrackIds : HasStatus(t, "COMPLETED") => gateway[t] = "verified"
  /\ \A type \in TransactionTypes : \A i \in DOMAIN topics[type] :
       topics[type][i].status = "COMPLETED" =>
         \E t \in TrackIds : /\ transactions[t] # NoTransaction
                             /\ transactions[t].orderId = topics[type][i].id
                             /\ gateway[t] = "verified"

(* The service and the gateway disagree only about a payment whose outcome was     *)
(* asked for while it could still be made: no other verified payment is recorded   *)
(* as a failure, and every event repeats the status that is stored, although       *)
(* verifyTransaction sends its handler's status without looking at what its        *)
(* updateOne matched.                                                              *)
EventsAgree ==
  /\ \A t \in TrackIds \ askedEarly : gateway[t] = "verified" => ~ HasStatus(t, "FAILURE")
  /\ \A type \in TransactionTypes : \A i \in DOMAIN topics[type] :
       \E t \in TrackIds : /\ HasTransaction(t, topics[type][i].id)
                           /\ HasStatus(t, topics[type][i].status) \/ t \in askedEarly

(* The service implements the abstract decision: a status leaves PENDING once. *)
Decision == INSTANCE TransactionDecision WITH
  decision <- [t \in TrackIds |-> IF transactions[t] = NoTransaction
                                  THEN "ABSENT" ELSE transactions[t].status],
  settled <- {t \in TrackIds : gateway[t] = "verified"}

(* Every transaction is decided once and for ever, COMPLETED only after its money *)
(* was settled (the status: PENDING filter of verifyTransaction's updateOne).     *)
DecidedOnce == Decision!DecisionSpec
-----------------------------------------------------------------------------
(* The invariant that makes CompletionIsVerified and DecidedOnce inductive. *)

(* A track id that a call holds has been issued, and its document exists from the *)
(* insertion on.                                                                  *)
CallHoldsIssuedTrack(id) ==
  LET call == creating[id]
  IN  /\ call.pc \in {"inserting", "responding", "created"} =>
           call.trackId \in TrackIds /\ gateway[call.trackId] # "free"
      /\ call.pc = "inserting" => transactions[call.trackId] = NoTransaction
      /\ call.pc \in {"responding", "created"} => HasTransaction(call.trackId, id)

CallsHoldIssuedTracks == \A id \in References : CallHoldsIssuedTrack(id)

(* No two calls are about to insert under one track id. *)
InsertionsDistinct ==
  \A id1, id2 \in References :
    /\ creating[id1].pc = "inserting"
    /\ creating[id2].pc = "inserting"
    /\ creating[id1].trackId = creating[id2].trackId
    => id1 = id2

FreeTracksUnused ==
  \A t \in TrackIds : gateway[t] = "free" => transactions[t] = NoTransaction

(* A handler past its read has a transaction, and holds COMPLETED only after *)
(* the gateway verified it.                                                  *)
VerificationFollowsGateway(r) ==
  LET handler == verifying[r]
  IN  /\ handler.pc \in VerifySteps =>
           handler.trackId \in TrackIds /\ transactions[handler.trackId] # NoTransaction
      /\ handler.pc \in {"updating", "sending"} =>
           \/ handler.status = "FAILURE"
           \/ handler.status = "COMPLETED" /\ gateway[handler.trackId] = "verified"

VerificationsFollowGateway == \A r \in VerifyRequests : VerificationFollowsGateway(r)

ServiceInv ==
  /\ ServiceTypeOK
  /\ CallsHoldIssuedTracks
  /\ InsertionsDistinct
  /\ FreeTracksUnused
  /\ VerificationsFollowGateway
  /\ CompletionIsVerified
=============================================================================
