------------------------------ MODULE Checkout ------------------------------
(***************************************************************************)
(* The product service's baskets and orders, product/src/basket/           *)
(* basket.service.ts, together with the transaction service it calls:      *)
(* addBook, removeBook, chkeout with the retries of its HTTP client, and   *)
(* the consumer of the order-transaction topic.  A checkout is identified  *)
(* with the order it creates.  Kafka keeps what was sent; the consumer     *)
(* group's committed offset lags behind the message in hand, so a restart  *)
(* of the product service redelivers messages.                             *)
(***************************************************************************)
EXTENDS TransactionService, FiniteSetsExt

CONSTANTS
  Users,
  Books,
  Price,             \* [Books -> Nat]
  MaxRetries,        \* 3 in chkeout
  MaxProductFaults,  \* bound on exceptions and crashes of the product service
  NoOrder,           \* no document under an order id
  NoUser             \* a checkout that has not begun

ASSUME PriceAssumption == Price \in [Books -> Nat]
ASSUME MaxRetriesAssumption == MaxRetries \in Nat
ASSUME MaxProductFaultsAssumption == MaxProductFaults \in Nat
ASSUME NoUserAssumption == NoUser \notin Users

VARIABLES
  baskets,           \* [Users -> SUBSET Books]; no document is an empty basket
  orders,            \* [OrderIds -> Order \cup {NoOrder}], the collection
  checkouts,         \* the chkeout handler of each order
  consumer,          \* the consumer of the topic, and its group's offset
  productFaults      \* faults so far, at most MaxProductFaults

productVars == <<baskets, orders, checkouts, consumer, productFaults>>

checkoutVars == <<serviceVars, productVars>>

PriceOf(books) == MapThenSumSet(LAMBDA b : Price[b], books)

ASSUME OrderAmountsAssumption == \A books \in SUBSET Books : PriceOf(books) \in Amounts

Order == [user : Users, books : SUBSET Books, price : Amounts, status : Statuses]

ASSUME NoOrderAssumption == NoOrder \notin Order

CheckoutSteps == {"ordering", "calling", "waiting", "rejecting", "emptying"}

ConsumerSteps == {"idle", "updating", "emptying"}

CheckoutHandler == [pc : {"idle", "returned", "thrown"} \cup CheckoutSteps,
                    user : Users \cup {NoUser},
                    books : SUBSET Books,
                    retries : 0 .. MaxRetries]

ConsumerState == [pc : ConsumerSteps, offset : Nat, committed : Nat]

ProductTypeOK ==
  /\ baskets \in [Users -> SUBSET Books]
  /\ orders \in [OrderIds -> Order \cup {NoOrder}]
  /\ checkouts \in [OrderIds -> CheckoutHandler]
  /\ consumer \in ConsumerState
  /\ productFaults \in 0 .. MaxProductFaults

TypeOK == ServiceTypeOK /\ ProductTypeOK

NoCheckout == [pc |-> "idle", user |-> NoUser, books |-> {}, retries |-> MaxRetries]

Init ==
  /\ ServiceInit
  /\ baskets = [u \in Users |-> {}]
  /\ orders = [o \in OrderIds |-> NoOrder]
  /\ checkouts = [o \in OrderIds |-> NoCheckout]
  /\ consumer = [pc |-> "idle", offset |-> 0, committed |-> 0]
  /\ productFaults = 0
-----------------------------------------------------------------------------
(* addBook: $addToSet with upsert. *)
AddBook(u, b) ==
  /\ baskets' = [baskets EXCEPT ![u] = @ \cup {b}]
  /\ UNCHANGED <<serviceVars, orders, checkouts, consumer, productFaults>>

(* removeBook: a book that is not there is an error without effect. *)
RemoveBook(u, b) ==
  /\ b \in baskets[u]
  /\ baskets' = [baskets EXCEPT ![u] = @ \ {b}]
  /\ UNCHANGED <<serviceVars, orders, checkouts, consumer, productFaults>>
-----------------------------------------------------------------------------
(* chkeout reads the basket and its books' prices; an empty basket is an error. *)
ReadBasket(o, u) ==
  /\ checkouts[o].pc = "idle"
  /\ baskets[u] # {}
  /\ checkouts' = [checkouts EXCEPT ![o].pc = "ordering", ![o].user = u,
                                    ![o].books = baskets[u]]
  /\ UNCHANGED <<serviceVars, baskets, orders, consumer, productFaults>>

(* orderModel.create: an order that costs nothing is COMPLETED at once. *)
CreateOrder(o) ==
  LET price == PriceOf(checkouts[o].books)
      free == price = 0
  IN  /\ checkouts[o].pc = "ordering"
      /\ orders' = [orders EXCEPT ![o] =
                      [user |-> checkouts[o].user,
                       books |-> checkouts[o].books,
                       price |-> price,
                       status |-> IF free THEN "COMPLETED" ELSE "PENDING"]]
      /\ checkouts' = [checkouts EXCEPT ![o].pc = IF free THEN "emptying" ELSE "calling"]
      /\ UNCHANGED <<serviceVars, baskets, consumer, productFaults>>

(* The HTTP client posts the transaction, at first or again after its delay. *)
CallTransaction(o) ==
  /\ checkouts[o].pc = "calling"
  /\ CallCreateTransaction(o, PriceOf(checkouts[o].books))
  /\ checkouts' = [checkouts EXCEPT ![o].pc = "waiting"]
  /\ UNCHANGED <<baskets, orders, consumer, productFaults>>

(* retryRequest: a 500 is tried again while retries are left; any other failure, *)
(* a dropped connection among them, is thrown at once.                           *)
TakeReply(o) ==
  LET reply == creating[o].pc
      again == reply = "error" /\ checkouts[o].retries > 0
  IN  /\ checkouts[o].pc = "waiting"
      /\ EndCall(o)
      /\ \/ /\ reply = "created"
            /\ checkouts' = [checkouts EXCEPT ![o].pc = "returned"]
         \/ /\ reply = "refused"
            /\ checkouts' = [checkouts EXCEPT ![o].pc = "rejecting"]
         \/ /\ again
            /\ checkouts' = [checkouts EXCEPT ![o].pc = "calling", ![o].retries = @ - 1]
         \/ /\ reply \notin {"created", "refused"} /\ ~ again
            /\ checkouts' = [checkouts EXCEPT ![o].pc = "thrown"]
      /\ UNCHANGED <<baskets, orders, consumer, productFaults>>

(* transaction.success is false: the order fails and the user gets a 400. *)
RejectOrder(o) ==
  /\ checkouts[o].pc = "rejecting"
  /\ orders' = [orders EXCEPT ![o].status = "FAILURE"]
  /\ checkouts' = [checkouts EXCEPT ![o].pc = "returned"]
  /\ UNCHANGED <<serviceVars, baskets, consumer, productFaults>>

(* A free order takes its books out of the basket: $pullAll of the books read. *)
EmptyFreeBasket(o) ==
  /\ checkouts[o].pc = "emptying"
  /\ baskets' = [baskets EXCEPT ![checkouts[o].user] = @ \ checkouts[o].books]
  /\ checkouts' = [checkouts EXCEPT ![o].pc = "returned"]
  /\ UNCHANGED <<serviceVars, orders, consumer, productFaults>>

(* An await on the database rejects, before or after its effect: 500. *)
CheckoutThrows(o) ==
  /\ productFaults < MaxProductFaults
  /\ checkouts[o].pc \in CheckoutSteps \ {"waiting"}
  /\ checkouts' = [checkouts EXCEPT ![o].pc = "thrown"]
  /\ productFaults' = productFaults + 1
  /\ UNCHANGED <<serviceVars, baskets, orders, consumer>>
-----------------------------------------------------------------------------
NextMessage == topics["ORDER"][consumer.offset + 1]

(* Faulty ConsumeMessage: only a success is looked at. *)
ConsumeSuccess ==
  /\ consumer.pc = "idle"
  /\ consumer.offset < Len(topics["ORDER"])
  /\ consumer' = IF orders[NextMessage.id] = NoOrder \/ NextMessage.status = "FAILURE"
                 THEN [consumer EXCEPT !.offset = @ + 1]
                 ELSE [consumer EXCEPT !.pc = "updating"]
  /\ UNCHANGED <<serviceVars, baskets, orders, checkouts, productFaults>>

(* handleOrderTransaction finds the order; a message for none is passed over. *)
ConsumeMessage ==
  /\ consumer.pc = "idle"
  /\ consumer.offset < Len(topics["ORDER"])
  /\ consumer' = IF orders[NextMessage.id] = NoOrder
                 THEN [consumer EXCEPT !.offset = @ + 1]
                 ELSE [consumer EXCEPT !.pc = "updating"]
  /\ UNCHANGED <<serviceVars, baskets, orders, checkouts, productFaults>>

(* Faulty UpdateOrder: a message means success. *)
UpdateOrderCompletes ==
  /\ consumer.pc = "updating"
  /\ orders' = [orders EXCEPT ![NextMessage.id].status = "COMPLETED"]
  /\ consumer' = [consumer EXCEPT !.pc = "emptying"]
  /\ UNCHANGED <<serviceVars, baskets, checkouts, productFaults>>

(* The order takes the message's status, whatever its own is. *)
UpdateOrder ==
  /\ consumer.pc = "updating"
  /\ orders' = [orders EXCEPT ![NextMessage.id].status = NextMessage.status]
  /\ consumer' = IF NextMessage.status = "COMPLETED"
                 THEN [consumer EXCEPT !.pc = "emptying"]
                 ELSE [consumer EXCEPT !.pc = "idle", !.offset = @ + 1]
  /\ UNCHANGED <<serviceVars, baskets, checkouts, productFaults>>

(* Faulty EmptyBasket: the whole basket is emptied. *)
EmptyWholeBasket ==
  /\ consumer.pc = "emptying"
  /\ baskets' = [baskets EXCEPT ![orders[NextMessage.id].user] = {}]
  /\ consumer' = [consumer EXCEPT !.pc = "idle", !.offset = @ + 1]
  /\ UNCHANGED <<serviceVars, orders, checkouts, productFaults>>

(* $pullAll of the order's books; the handler returns and the message is resolved. *)
EmptyBasket ==
  LET order == orders[NextMessage.id]
  IN  /\ consumer.pc = "emptying"
      /\ baskets' = [baskets EXCEPT ![order.user] = @ \ order.books]
      /\ consumer' = [consumer EXCEPT !.pc = "idle", !.offset = @ + 1]
      /\ UNCHANGED <<serviceVars, orders, checkouts, productFaults>>

(* kafkajs commits the resolved offsets when a batch is through. *)
CommitOffsets ==
  /\ consumer.committed < consumer.offset
  /\ consumer' = [consumer EXCEPT !.committed = consumer.offset]
  /\ UNCHANGED <<serviceVars, baskets, orders, checkouts, productFaults>>

(* Faulty ConsumerThrows: the exception is swallowed, the message is resolved. *)
ConsumerSwallows ==
  /\ productFaults < MaxProductFaults
  /\ consumer.pc # "idle"
  /\ consumer' = [consumer EXCEPT !.pc = "idle", !.offset = @ + 1]
  /\ productFaults' = productFaults + 1
  /\ UNCHANGED <<serviceVars, baskets, orders, checkouts>>

(* The handler throws: the message is tried again from the start. *)
ConsumerThrows ==
  /\ productFaults < MaxProductFaults
  /\ consumer.pc # "idle"
  /\ consumer' = [consumer EXCEPT !.pc = "idle"]
  /\ productFaults' = productFaults + 1
  /\ UNCHANGED <<serviceVars, baskets, orders, checkouts>>

(* The process dies and is restarted: checkouts in flight are gone, the consumer *)
(* goes back to the committed offset.                                            *)
ProductCrash ==
  /\ productFaults < MaxProductFaults
  /\ checkouts' = [o \in OrderIds |->
                     IF checkouts[o].pc \in CheckoutSteps
                     THEN [checkouts[o] EXCEPT !.pc = "thrown"] ELSE checkouts[o]]
  /\ consumer' = [consumer EXCEPT !.pc = "idle", !.offset = consumer.committed]
  /\ productFaults' = productFaults + 1
  /\ UNCHANGED <<serviceVars, baskets, orders>>
-----------------------------------------------------------------------------
CheckoutStep(o) ==
  \/ CreateOrder(o) \/ CallTransaction(o) \/ TakeReply(o)
  \/ RejectOrder(o) \/ EmptyFreeBasket(o)

ConsumerStep == ConsumeMessage \/ UpdateOrder \/ EmptyBasket

ProductNext ==
  \/ \E u \in Users, b \in Books : AddBook(u, b) \/ RemoveBook(u, b)
  \/ \E o \in OrderIds :
       \/ \E u \in Users : ReadBasket(o, u)
       \/ CheckoutStep(o) \/ CheckoutThrows(o)
  \/ ConsumerStep \/ CommitOffsets \/ ConsumerThrows \/ ProductCrash

Next ==
  \/ ProductNext
  \/ InternalNext /\ UNCHANGED productVars

Spec == Init /\ [][Next]_checkoutVars

(* Both processes run their handlers, and the consumer takes what is in the topic. *)
Fairness ==
  /\ \A o \in OrderIds : /\ WF_checkoutVars(CreateStep(o) /\ UNCHANGED productVars)
                         /\ WF_checkoutVars(CheckoutStep(o))
  /\ \A r \in VerifyRequests : WF_checkoutVars(VerifyStep(r) /\ UNCHANGED productVars)
  /\ WF_checkoutVars(ConsumerStep)

FairSpec == Spec /\ Fairness
-----------------------------------------------------------------------------
(* No order with a price is COMPLETED unless the gateway verified a payment of   *)
(* exactly that price made for that order: whatever is retried, redelivered,     *)
(* repeated, reordered or lost between chkeout and handleOrderTransaction.       *)
PaidOrders ==
  \A o \in OrderIds :
    orders[o] # NoOrder /\ orders[o].status = "COMPLETED" /\ orders[o].price > 0 =>
      \E t \in TrackIds : /\ transactions[t] # NoTransaction
                          /\ transactions[t].orderId = o
                          /\ transactions[t].amount = orders[o].price
                          /\ gateway[t] = "verified"

(* A transaction of type ORDER belongs to an order that exists and asks for its  *)
(* price, so no event can be passed over by handleOrderTransaction as unknown.   *)
TransactionsHaveOrders ==
  \A t \in TrackIds :
    transactions[t] # NoTransaction /\ transactions[t].orderId \in OrderIds =>
      /\ orders[transactions[t].orderId] # NoOrder
      /\ transactions[t].amount = orders[transactions[t].orderId].price

(* A checkout that retries POST /transaction may leave transactions behind, but  *)
(* its buyer can only ever pay one of them: an order is not charged twice.       *)
ChargedOnce ==
  \A t1, t2 \in TrackIds :
    /\ gateway[t1] \in Payable
    /\ gateway[t2] \in Payable
    /\ transactions[t1] # NoTransaction
    /\ transactions[t2] # NoTransaction
    /\ transactions[t1].orderId = transactions[t2].orderId
    => t1 = t2

(* Every message the consumer has passed, and above all every one it will never  *)
(* be given again, has been applied: its order is no longer PENDING.             *)
PassedMessagesApplied ==
  /\ consumer.committed <= consumer.offset
  /\ \A i \in 1 .. consumer.offset :
       orders[topics["ORDER"][i].id] # NoOrder =>
         orders[topics["ORDER"][i].id].status # "PENDING"

(* A book leaves a basket when its user removes it, or when a COMPLETED order of *)
(* that user contains it: books added after the checkout, and books of orders    *)
(* that failed, stay.                                                            *)
BookLeaves(u, b) ==
  \/ RemoveBook(u, b)
  \/ \E o \in OrderIds : /\ orders[o] # NoOrder
                         /\ orders[o].user = u
                         /\ orders[o].status = "COMPLETED"
                         /\ b \in orders[o].books

BasketKeepsBooks ==
  [][\A u \in Users : \A b \in baskets[u] \ baskets'[u] : BookLeaves(u, b)]_checkoutVars

(* Orders as the sales their buyers were promised: paid for with exactly their    *)
(* price, when a transaction of that amount was verified.                         *)
Orders == INSTANCE Sale WITH
  Purchases <- OrderIds,
  Prices <- Amounts,
  outcome <- [o \in OrderIds |-> IF orders[o] = NoOrder THEN "ABSENT" ELSE orders[o].status],
  price <- [o \in OrderIds |-> IF orders[o] = NoOrder THEN 0 ELSE orders[o].price],
  paid <- {o \in OrderIds : \E t \in TrackIds : /\ HasTransaction(t, o)
                                                /\ orders[o] # NoOrder
                                                /\ transactions[t].amount = orders[o].price
                                                /\ gateway[t] = "verified"},
  inDoubt <- {o \in OrderIds : \E t \in askedEarly : HasTransaction(t, o)}

(* Checkout, payment and delivery keep the buyer's promise: an order is decided   *)
(* once and for ever, although every message overwrites its order's status and is *)
(* redelivered; it is COMPLETED only after its money, and FAILs only without it.  *)
(* Only an order about one of whose payments GET /verify was asked while it could *)
(* still be made may change its outcome.                                          *)
OrdersKeepPromise == Orders!SaleSpec

(* The books of a delivered order have left its user's basket. *)
Delivered(o) ==
  /\ orders[o] # NoOrder
  /\ orders[o].status = "COMPLETED"
  /\ baskets[orders[o].user] \cap orders[o].books = {}

(* When the transaction is successful a waiting order is completed and the       *)
(* basket is emptied (README.md:45); the buyer may put a book back later.        *)
AwaitsDelivery(o) ==
  /\ orders[o] # NoOrder
  /\ orders[o].status = "PENDING"
  /\ \E t \in TrackIds : HasStatus(t, "COMPLETED") /\ transactions[t].orderId = o

SuccessfulPaymentDelivers ==
  \A o \in OrderIds : AwaitsDelivery(o) ~> Delivered(o)

(* A message of success that the consumer has not passed, or is given again. *)
Announced(o) ==
  \E i \in DOMAIN topics["ORDER"] :
    i > consumer.offset /\ topics["ORDER"][i] = [id |-> o, status |-> "COMPLETED"]

(* What of that the code does achieve: the order is delivered once its success was *)
(* announced, whatever the consumer throws and however often it dies.              *)
AnnouncedPaymentDelivers ==
  \A o \in OrderIds : Announced(o) ~> Delivered(o)

(* A buyer of the order who is back from the gateway: verifyTransaction has found   *)
(* the order's transaction and goes on.                                             *)
BuyerReturned(o) ==
  \E r \in VerifyRequests : /\ verifying[r].pc \in VerifySteps
                            /\ HasTransaction(verifying[r].trackId, o)

(* The buyer's return is enough: from the redirect on, through the gateway, the     *)
(* transaction, the topic and the consumer, the order is delivered or fails,        *)
(* whatever the product service throws, unless the transaction service fails.       *)
ReturnedBuyerIsServed ==
  \A o \in OrderIds :
    BuyerReturned(o) ~> \/ orders[o] # NoOrder /\ orders[o].status = "FAILURE"
                        \/ Delivered(o)
                        \/ faults > 0
-----------------------------------------------------------------------------
(* The invariant that makes PaidOrders, TransactionsHaveOrders and                *)
(* BasketKeepsBooks inductive.                                                    *)

(* A handler's order exists from its creation on, with the price of the books read. *)
CheckoutHasOrder(o) ==
  LET checkout == checkouts[o]
  IN  /\ checkout.pc # "idle" => checkout.user \in Users
      /\ checkout.pc \in {"idle", "ordering"} => orders[o] = NoOrder
      /\ checkout.pc \in {"calling", "waiting", "rejecting", "emptying"} =>
           /\ orders[o] # NoOrder
           /\ orders[o].user = checkout.user
           /\ orders[o].books = checkout.books
           /\ orders[o].price = PriceOf(checkout.books)
      /\ checkout.pc = "emptying" => orders[o].status = "COMPLETED" /\ orders[o].price = 0
      /\ checkout.pc \in {"calling", "waiting", "rejecting"} => orders[o].price > 0
      /\ checkout.pc = "rejecting" => orders[o].price \notin AcceptedAmounts

CheckoutsHaveOrders == \A o \in OrderIds : CheckoutHasOrder(o)

(* A call asks for the price of an order that exists, within the gateway's limits *)
(* once the gateway has issued a payment.                                         *)
CallHasOrder(o) ==
  LET call == creating[o]
  IN  /\ call.pc # "idle" =>
           orders[o] # NoOrder /\ call.amount = orders[o].price /\ call.amount > 0
      /\ call.pc \in {"inserting", "responding", "created"} => call.amount \in AcceptedAmounts
      /\ call.pc = "refused" => call.amount \notin AcceptedAmounts

CallsHaveOrders == \A o \in OrderIds : CallHasOrder(o)

TransactionsWithinLimits ==
  \A t \in TrackIds :
    transactions[t] # NoTransaction /\ transactions[t].orderId \in OrderIds =>
      transactions[t].amount \in AcceptedAmounts

(* Every message of the topic is about an order that has a transaction. *)
MessagesHaveTransactions ==
  \A i \in DOMAIN topics["ORDER"] :
    /\ topics["ORDER"][i].id \in OrderIds
    /\ \E t \in TrackIds : HasTransaction(t, topics["ORDER"][i].id)

(* The message in hand exists, and has been applied before the basket is emptied. *)
ConsumerFollowsTopic ==
  /\ consumer.committed <= consumer.offset
  /\ consumer.offset <= Len(topics["ORDER"])
  /\ consumer.pc # "idle" => consumer.offset < Len(topics["ORDER"])
  /\ consumer.pc = "emptying" => orders[NextMessage.id].status = "COMPLETED"

CheckoutInv ==
  /\ ServiceInv
  /\ ProductTypeOK
  /\ CheckoutsHaveOrders
  /\ CallsHaveOrders
  /\ TransactionsHaveOrders
  /\ TransactionsWithinLimits
  /\ MessagesHaveTransactions
  /\ ConsumerFollowsTopic
  /\ PaidOrders
=============================================================================
