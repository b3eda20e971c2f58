--------------------------- MODULE CheckoutProofs ---------------------------
(***************************************************************************)
(* What checkout guarantees for any number of users, books, orders, track  *)
(* ids, verify requests, retries and faults of either service.             *)
(***************************************************************************)
EXTENDS Checkout, TransactionServiceProofs

USE AmountsAssumption, IdsAssumption, MaxFaultsAssumption, NoTrackIdAssumption,
    NoTransactionAssumption, PayAfterFailureAssumption, PriceAssumption, MaxRetriesAssumption,
    MaxProductFaultsAssumption, NoUserAssumption, OrderAmountsAssumption, NoOrderAssumption

(* Initially there are no baskets, orders or messages. *)
LEMMA CheckoutInitInv == Init => CheckoutInv
<1> SUFFICES ASSUME Init PROVE CheckoutInv
  OBVIOUS
<1>1. ServiceInv
  BY InitInv DEF Init
<1>2. ProductTypeOK
  BY DEF Init, ProductTypeOK, NoCheckout, CheckoutHandler, CheckoutSteps,
         ConsumerState, ConsumerSteps
<1>3. CheckoutsHaveOrders
  BY DEF Init, CheckoutsHaveOrders, CheckoutHasOrder, NoCheckout
<1>4. CallsHaveOrders
  BY DEF Init, ServiceInit, CallsHaveOrders, CallHasOrder, NoCall, References
<1>5. TransactionsHaveOrders /\ TransactionsWithinLimits
  BY DEF Init, ServiceInit, TransactionsHaveOrders, TransactionsWithinLimits
<1>6. topics["ORDER"] = << >>
  BY DEF Init, ServiceInit, TransactionTypes
<1>7. MessagesHaveTransactions /\ ConsumerFollowsTopic
  BY <1>6 DEF Init, MessagesHaveTransactions, ConsumerFollowsTopic
<1>8. PaidOrders
  BY DEF Init, PaidOrders
<1> QED
  BY <1>1, <1>2, <1>3, <1>4, <1>5, <1>7, <1>8 DEF CheckoutInv

(* Every step of checkout is a step of the transaction service, or none. *)
LEMMA ServiceStep ==
  ASSUME CheckoutInv, [Next]_checkoutVars
  PROVE  [ServiceNext]_serviceVars
<1>1. CASE InternalNext
  BY <1>1 DEF ServiceNext
<1>2. ASSUME NEW o \in OrderIds, CallTransaction(o)
      PROVE  ServiceNext
  <2>1. PriceOf(checkouts[o].books) \in Amounts
    BY DEF CheckoutInv, ProductTypeOK, CheckoutHandler
  <2> QED
    BY <1>2, <2>1 DEF CallTransaction, ServiceNext, References
<1>3. ASSUME NEW o \in OrderIds, TakeReply(o)
      PROVE  ServiceNext
  BY <1>3 DEF TakeReply, ServiceNext, References
<1> QED
  BY <1>1, <1>2, <1>3
     DEF Next, ProductNext, CheckoutStep, ConsumerStep, checkoutVars, AddBook, RemoveBook,
         ReadBasket, CreateOrder, RejectOrder, EmptyFreeBasket, CheckoutThrows, ConsumeMessage,
         UpdateOrder, EmptyBasket, CommitOffsets, ConsumerThrows, ProductCrash

(* The order topic only grows, by messages about transactions of orders. *)
LEMMA TopicGrows ==
  ASSUME ServiceInv, [ServiceNext]_serviceVars
  PROVE  \/ topics'["ORDER"] = topics["ORDER"]
         \/ \E m \in Message : /\ topics'["ORDER"] = Append(topics["ORDER"], m)
                               /\ m.id \in OrderIds
                               /\ \E t \in TrackIds : HasTransaction(t, m.id)
<1> USE DEF ServiceInv, ServiceTypeOK
<1>1. ASSUME NEW r \in VerifyRequests, SendEvent(r) \/ RepeatSend(r)
      PROVE  \/ topics'["ORDER"] = topics["ORDER"]
             \/ \E m \in Message : /\ topics'["ORDER"] = Append(topics["ORDER"], m)
                                   /\ m.id \in OrderIds
                                   /\ \E t \in TrackIds : HasTransaction(t, m.id)
  <2> DEFINE t == verifying[r].trackId
             id == transactions[t].orderId
             message == [id |-> id, status |-> verifying[r].status]
  <2>1. topics' = [topics EXCEPT ![TypeOf(id)] = Append(@, message)]
    BY <1>1 DEF SendEvent, RepeatSend, Publish
  <2>2. t \in TrackIds /\ transactions[t] # NoTransaction
    BY <1>1 DEF SendEvent, RepeatSend, VerificationsFollowGateway, VerificationFollowsGateway,
                VerifySteps
  <2>3. message \in Message
    BY <1>1, <2>2 DEF SendEvent, RepeatSend, VerificationsFollowGateway,
                      VerificationFollowsGateway, Message, Transaction
  <2>4. CASE id \in OrderIds
    <3>1. topics'["ORDER"] = Append(topics["ORDER"], message)
      BY <2>1, <2>4 DEF TypeOf, TransactionTypes
    <3>2. message.id \in OrderIds /\ HasTransaction(t, message.id)
      BY <2>2, <2>4 DEF HasTransaction
    <3> QED
      BY <2>2, <2>3, <3>1, <3>2
  <2>5. CASE id \notin OrderIds
    BY <2>1, <2>5 DEF TypeOf, TransactionTypes
  <2> QED
    BY <2>4, <2>5
<1>2. CASE UNCHANGED topics
  BY <1>2
<1> QED
  BY <1>1, <1>2
     DEF ServiceNext, InternalNext, GatewayNext, CreateStep, VerifyStep, serviceVars,
         RequestPayment, InsertTransaction, Respond, EndCall, CreateThrows,
         CallCreateTransaction, FindTransaction, VerifyPayment, UpdateTransaction, VerifyThrows,
         ServiceCrash

(* An order in the consumer's hand, or in a checkout's, exists. *)
LEMMA MessageInHand ==
  ASSUME CheckoutInv, consumer.pc # "idle"
  PROVE  /\ consumer.offset + 1 \in DOMAIN topics["ORDER"]
         /\ NextMessage \in Message
         /\ NextMessage.id \in OrderIds
         /\ orders[NextMessage.id] \in Order
         /\ \E t \in TrackIds : HasTransaction(t, NextMessage.id)
<1> USE DEF CheckoutInv, ServiceInv, ServiceTypeOK, ProductTypeOK, ConsumerState
<1>1. topics["ORDER"] \in Seq(Message)
  BY DEF TransactionTypes
<1>2. consumer.offset + 1 \in DOMAIN topics["ORDER"]
  BY <1>1 DEF ConsumerFollowsTopic
<1>3. NextMessage \in Message
  BY <1>1, <1>2 DEF NextMessage
<1>4. NextMessage.id \in OrderIds /\ \E t \in TrackIds : HasTransaction(t, NextMessage.id)
  BY <1>2 DEF NextMessage, MessagesHaveTransactions
<1>5. orders[NextMessage.id] # NoOrder
  BY <1>4 DEF TransactionsHaveOrders, HasTransaction
<1> QED
  BY <1>2, <1>3, <1>4, <1>5

(* Moving the consumer or a checkout to another step keeps it well typed. *)
LEMMA ConsumerMoves ==
  ASSUME NEW c \in ConsumerState, NEW pc \in ConsumerSteps
  PROVE  /\ c.offset + 1 \in Nat
         /\ [c EXCEPT !.pc = pc] \in ConsumerState
         /\ [c EXCEPT !.pc = pc, !.offset = @ + 1] \in ConsumerState
<1>1. c.offset + 1 \in Nat
  BY DEF ConsumerState
<1>2. ASSUME NEW n \in Nat
      PROVE  [c EXCEPT !.pc = pc, !.offset = n] \in ConsumerState
  BY DEF ConsumerState
<1>3. [c EXCEPT !.pc = pc] \in ConsumerState
  BY DEF ConsumerState
<1> QED
  BY <1>1, <1>2, <1>3

LEMMA CheckoutMoves ==
  ASSUME NEW c \in CheckoutHandler,
         NEW pc \in {"idle", "returned", "thrown"} \cup CheckoutSteps
  PROVE  /\ [c EXCEPT !.pc = pc] \in CheckoutHandler
         /\ c.retries > 0 => [c EXCEPT !.pc = pc, !.retries = @ - 1] \in CheckoutHandler
         /\ \A u \in Users : \A books \in SUBSET Books :
              [c EXCEPT !.pc = pc, !.user = u, !.books = books] \in CheckoutHandler
<1>1. /\ [c EXCEPT !.pc = pc] \in CheckoutHandler
      /\ \A u \in Users : \A books \in SUBSET Books :
           [c EXCEPT !.pc = pc, !.user = u, !.books = books] \in CheckoutHandler
  BY DEF CheckoutHandler
<1>2. ASSUME c.retries > 0
      PROVE  [c EXCEPT !.pc = pc, !.retries = @ - 1] \in CheckoutHandler
  <2>1. c.retries - 1 \in 0 .. MaxRetries
    BY <1>2 DEF CheckoutHandler
  <2>2. ASSUME NEW n \in 0 .. MaxRetries
        PROVE  [c EXCEPT !.pc = pc, !.retries = n] \in CheckoutHandler
    BY DEF CheckoutHandler
  <2> QED
    BY <2>1, <2>2
<1> QED
  BY <1>1, <1>2

(* Every step of the product service keeps the types. *)
LEMMA ProductTypeStep ==
  ASSUME CheckoutInv, [Next]_checkoutVars
  PROVE  ProductTypeOK'
<1> USE DEF CheckoutInv, ProductTypeOK
<1>1. ASSUME NEW u \in Users, NEW b \in Books, AddBook(u, b) \/ RemoveBook(u, b)
      PROVE  ProductTypeOK'
  BY <1>1 DEF AddBook, RemoveBook
<1>2. ASSUME NEW o \in OrderIds, NEW u \in Users, ReadBasket(o, u)
      PROVE  ProductTypeOK'
  <2>1. checkouts' \in [OrderIds -> CheckoutHandler]
    <3>1. "ordering" \in CheckoutSteps
      BY DEF CheckoutSteps
    <3>2. [checkouts[o] EXCEPT !.pc = "ordering", !.user = u, !.books = baskets[u]]
            \in CheckoutHandler
      BY <3>1, CheckoutMoves
    <3>3. checkouts' = [checkouts EXCEPT ![o] = [@ EXCEPT !.pc = "ordering", !.user = u,
                                                          !.books = baskets[u]]]
      BY <1>2 DEF ReadBasket
    <3> QED
      BY <3>2, <3>3
  <2> QED
    BY <1>2, <2>1 DEF ReadBasket
<1>3. ASSUME NEW o \in OrderIds, CreateOrder(o)
      PROVE  ProductTypeOK'
  <2>1. checkouts' \in [OrderIds -> CheckoutHandler]
    BY <1>3 DEF CreateOrder, CheckoutSteps, CheckoutHandler
  <2>2. PriceOf(checkouts[o].books) \in Amounts
    BY DEF CheckoutHandler
  <2>3. /\ checkouts[o].user \in Users
        /\ checkouts[o].books \in SUBSET Books
    BY <1>3 DEF CreateOrder, CheckoutsHaveOrders, CheckoutHasOrder, CheckoutHandler
  <2>4. ASSUME NEW status \in Statuses
        PROVE  [user |-> checkouts[o].user, books |-> checkouts[o].books,
                price |-> PriceOf(checkouts[o].books), status |-> status] \in Order
    BY <2>2, <2>3 DEF Order
  <2>5. orders' \in [OrderIds -> Order \cup {NoOrder}]
    BY <1>3, <2>4 DEF CreateOrder, Statuses
  <2> QED
    BY <1>3, <2>1, <2>5 DEF CreateOrder
<1>4. ASSUME NEW o \in OrderIds, CallTransaction(o)
      PROVE  ProductTypeOK'
  <2>1. checkouts' \in [OrderIds -> CheckoutHandler]
    BY <1>4 DEF CallTransaction, CheckoutSteps, CheckoutHandler
  <2> QED
    BY <1>4, <2>1 DEF CallTransaction
<1>5. ASSUME NEW o \in OrderIds, TakeReply(o)
      PROVE  ProductTypeOK'
  <2>1. checkouts' \in [OrderIds -> CheckoutHandler]
    <3> DEFINE c == checkouts[o]
    <3>1. ASSUME NEW handler \in CheckoutHandler, checkouts' = [checkouts EXCEPT ![o] = handler]
          PROVE  checkouts' \in [OrderIds -> CheckoutHandler]
      BY <3>1
    <3>2. c \in CheckoutHandler
      OBVIOUS
    <3>3. ASSUME NEW pc \in {"returned", "rejecting", "thrown"}
          PROVE  [c EXCEPT !.pc = pc] \in CheckoutHandler
      BY <3>2, CheckoutMoves DEF CheckoutSteps
    <3>4. c.retries > 0 => [c EXCEPT !.pc = "calling", !.retries = @ - 1] \in CheckoutHandler
      BY <3>2, CheckoutMoves DEF CheckoutSteps
    <3>5. \/ \E pc \in {"returned", "rejecting", "thrown"} :
               checkouts' = [checkouts EXCEPT ![o] = [c EXCEPT !.pc = pc]]
          \/ /\ c.retries > 0
             /\ checkouts' = [checkouts EXCEPT ![o] = [c EXCEPT !.pc = "calling",
                                                                !.retries = @ - 1]]
      BY <1>5 DEF TakeReply
    <3> QED
      BY <3>1, <3>3, <3>4, <3>5
  <2> QED
    BY <1>5, <2>1 DEF TakeReply
<1>6. ASSUME NEW o \in OrderIds, RejectOrder(o)
      PROVE  ProductTypeOK'
  <2>1. checkouts' \in [OrderIds -> CheckoutHandler]
    BY <1>6 DEF RejectOrder, CheckoutHandler
  <2>2. orders[o] \in Order
    BY <1>6 DEF RejectOrder, CheckoutsHaveOrders, CheckoutHasOrder
  <2>3. [orders[o] EXCEPT !.status = "FAILURE"] \in Order
    BY <2>2 DEF Order, Statuses
  <2> QED
    BY <1>6, <2>1, <2>3 DEF RejectOrder
<1>7. ASSUME NEW o \in OrderIds, EmptyFreeBasket(o) \/ CheckoutThrows(o)
      PROVE  ProductTypeOK'
  <2>1. checkouts' \in [OrderIds -> CheckoutHandler]
    BY <1>7 DEF EmptyFreeBasket, CheckoutThrows, CheckoutHandler
  <2>2. baskets' \in [Users -> SUBSET Books]
    BY <1>7 DEF EmptyFreeBasket, CheckoutThrows, CheckoutHandler
  <2> QED
    BY <1>7, <2>1, <2>2 DEF EmptyFreeBasket, CheckoutThrows
<1>8. CASE ConsumeMessage \/ CommitOffsets \/ ConsumerThrows
  <2>1. CASE ConsumeMessage
    BY <2>1 DEF ConsumeMessage, ConsumerState, ConsumerSteps
  <2>2. CASE CommitOffsets
    BY <2>2 DEF CommitOffsets, ConsumerState
  <2>3. CASE ConsumerThrows
    BY <2>3 DEF ConsumerThrows, ConsumerState, ConsumerSteps
  <2> QED
    BY <1>8, <2>1, <2>2, <2>3
<1>9. CASE UpdateOrder
  <2> DEFINE id == NextMessage.id
             order == [orders[id] EXCEPT !.status = NextMessage.status]
  <2>1. id \in OrderIds /\ orders[id] \in Order /\ NextMessage \in Message
    BY <1>9, MessageInHand DEF UpdateOrder
  <2>2. order \in Order
    BY <2>1 DEF Order, Message, Statuses
  <2>3. orders' = [orders EXCEPT ![id] = order]
    BY <1>9 DEF UpdateOrder
  <2>4. orders' \in [OrderIds -> Order \cup {NoOrder}]
    BY <2>1, <2>2, <2>3
  <2>5. consumer' \in ConsumerState
    BY <1>9, ConsumerMoves DEF UpdateOrder, ConsumerSteps
  <2> QED
    BY <1>9, <2>4, <2>5 DEF UpdateOrder
<1>10. CASE EmptyBasket
  <2>1. consumer' \in ConsumerState
    BY <1>10, ConsumerMoves DEF EmptyBasket, ConsumerSteps
  <2>2. orders[NextMessage.id] \in Order
    BY <1>10, MessageInHand DEF EmptyBasket
  <2>3. baskets' \in [Users -> SUBSET Books]
    BY <1>10, <2>2 DEF EmptyBasket, Order
  <2> QED
    BY <1>10, <2>1, <2>3 DEF EmptyBasket
<1>11. CASE ProductCrash
  <2>1. checkouts' \in [OrderIds -> CheckoutHandler]
    <3>1. ASSUME NEW o \in OrderIds
          PROVE  [checkouts[o] EXCEPT !.pc = "thrown"] \in CheckoutHandler
      BY CheckoutMoves
    <3> QED
      BY <1>11, <3>1 DEF ProductCrash
  <2>2. consumer' \in ConsumerState
    BY <1>11 DEF ProductCrash, ConsumerState, ConsumerSteps
  <2> QED
    BY <1>11, <2>1, <2>2 DEF ProductCrash
<1>12. CASE UNCHANGED productVars
  BY <1>12 DEF productVars
<1> QED
  BY <1>1, <1>2, <1>3, <1>4, <1>5, <1>6, <1>7, <1>8, <1>9, <1>10, <1>11, <1>12
     DEF Next, ProductNext, CheckoutStep, ConsumerStep, checkoutVars

(* An order keeps its user, books and price. *)
OrdersGrow ==
  \A o \in OrderIds :
    orders[o] # NoOrder => /\ orders'[o] # NoOrder
                           /\ orders'[o].user = orders[o].user
                           /\ orders'[o].books = orders[o].books
                           /\ orders'[o].price = orders[o].price

LEMMA OrdersGrowStep ==
  ASSUME CheckoutInv, [Next]_checkoutVars
  PROVE  OrdersGrow
<1> USE DEF CheckoutInv, ProductTypeOK
<1>1. ASSUME NEW o \in OrderIds, orders[o] # NoOrder, NEW status \in Statuses,
             orders' = [orders EXCEPT ![o].status = status]
      PROVE  OrdersGrow
  <2>1. orders[o] \in Order
    BY <1>1
  <2>2. /\ [orders[o] EXCEPT !.status = status] \in Order
        /\ [orders[o] EXCEPT !.status = status].user = orders[o].user
        /\ [orders[o] EXCEPT !.status = status].books = orders[o].books
        /\ [orders[o] EXCEPT !.status = status].price = orders[o].price
    BY <2>1 DEF Order
  <2> QED
    BY <1>1, <2>2 DEF OrdersGrow
<1>2. ASSUME NEW o \in OrderIds, CreateOrder(o)
      PROVE  OrdersGrow
  BY <1>2 DEF CreateOrder, CheckoutsHaveOrders, CheckoutHasOrder, OrdersGrow
<1>3. ASSUME NEW o \in OrderIds, RejectOrder(o)
      PROVE  OrdersGrow
  BY <1>1, <1>3 DEF RejectOrder, CheckoutsHaveOrders, CheckoutHasOrder, Statuses
<1>4. CASE UpdateOrder
  <2>1. /\ NextMessage.id \in OrderIds
        /\ orders[NextMessage.id] \in Order
        /\ NextMessage.status \in Statuses
    BY <1>4, MessageInHand DEF UpdateOrder, Message, Statuses
  <2> QED
    BY <1>1, <1>4, <2>1 DEF UpdateOrder
<1>5. CASE UNCHANGED orders
  BY <1>5 DEF OrdersGrow
<1> QED
  BY <1>2, <1>3, <1>4, <1>5
     DEF Next, ProductNext, CheckoutStep, ConsumerStep, checkoutVars, productVars, AddBook,
         RemoveBook, ReadBasket, CallTransaction, TakeReply, EmptyFreeBasket, CheckoutThrows,
         ConsumeMessage, EmptyBasket, CommitOffsets, ConsumerThrows, ProductCrash

(* A transaction's price is its order's, and within the gateway's limits. *)
LEMMA MessagePrice ==
  ASSUME CheckoutInv, consumer.pc # "idle"
  PROVE  orders[NextMessage.id].price \in AcceptedAmounts
<1>1. PICK t \in TrackIds : HasTransaction(t, NextMessage.id)
  BY MessageInHand
<1> QED
  BY <1>1, MessageInHand
     DEF CheckoutInv, TransactionsHaveOrders, TransactionsWithinLimits, HasTransaction

(* Checkouts stay in step with their orders. *)
LEMMA CheckoutsStep ==
  ASSUME CheckoutInv, [Next]_checkoutVars
  PROVE  CheckoutsHaveOrders'
<1> USE DEF CheckoutInv, ProductTypeOK
<1> SUFFICES ASSUME NEW o \in OrderIds
             PROVE  CheckoutHasOrder(o)'
  BY DEF CheckoutsHaveOrders
<1> CheckoutHasOrder(o)
  BY DEF CheckoutsHaveOrders
<1>1. ASSUME checkouts'[o] = checkouts[o], orders'[o] = orders[o]
      PROVE  CheckoutHasOrder(o)'
  BY <1>1 DEF CheckoutHasOrder
<1>2. ASSUME NEW o2 \in OrderIds, o2 # o,
             \/ \E u \in Users : ReadBasket(o2, u)
             \/ CheckoutStep(o2) \/ CheckoutThrows(o2)
      PROVE  CheckoutHasOrder(o)'
  BY <1>1, <1>2 DEF ReadBasket, CheckoutStep, CreateOrder, CallTransaction, TakeReply, RejectOrder,
                    EmptyFreeBasket, CheckoutThrows
<1>3. ASSUME NEW u \in Users, ReadBasket(o, u)
      PROVE  CheckoutHasOrder(o)'
  BY <1>3 DEF ReadBasket, CheckoutHasOrder, CheckoutHandler
<1>4. CASE CreateOrder(o)
  <2> DEFINE c == checkouts[o]
             price == PriceOf(c.books)
             order == [user |-> c.user, books |-> c.books, price |-> price,
                       status |-> IF price = 0 THEN "COMPLETED" ELSE "PENDING"]
  <2>1. c \in CheckoutHandler /\ c.user \in Users /\ price \in Nat
    BY <1>4 DEF CreateOrder, CheckoutHasOrder, CheckoutHandler
  <2>2. orders'[o] = order
    BY <1>4 DEF CreateOrder
  <2>3. order \in Order
    BY <2>1 DEF Order, Statuses, CheckoutHandler
  <2>4. /\ checkouts'[o].user = c.user
        /\ checkouts'[o].books = c.books
        /\ checkouts'[o].pc = IF price = 0 THEN "emptying" ELSE "calling"
    BY <1>4, <2>1 DEF CreateOrder, CheckoutHandler
  <2> QED
    BY <2>1, <2>2, <2>3, <2>4 DEF CheckoutHasOrder
<1>5. CASE CallTransaction(o)
  BY <1>5 DEF CallTransaction, CheckoutHasOrder, CheckoutHandler
<1>6. CASE TakeReply(o)
  <2>1. orders'[o] = orders[o]
    BY <1>6 DEF TakeReply
  <2>2. /\ checkouts'[o].user = checkouts[o].user
        /\ checkouts'[o].books = checkouts[o].books
        /\ checkouts'[o].pc \in {"returned", "rejecting", "calling", "thrown"}
        /\ checkouts'[o].pc = "rejecting" => creating[o].pc = "refused"
    <3>1. \/ \E pc \in {"returned", "rejecting", "thrown"} :
               /\ checkouts' = [checkouts EXCEPT ![o].pc = pc]
               /\ pc = "rejecting" => creating[o].pc = "refused"
          \/ checkouts' = [checkouts EXCEPT ![o].pc = "calling", ![o].retries = @ - 1]
      BY <1>6 DEF TakeReply
    <3> checkouts[o] \in CheckoutHandler
      OBVIOUS
    <3> QED
      BY <3>1 DEF CheckoutHandler
  <2>3. creating[o].pc = "refused" => orders[o].price \notin AcceptedAmounts
    BY DEF CallsHaveOrders, CallHasOrder
  <2> QED
    BY <1>6, <2>1, <2>2, <2>3 DEF TakeReply, CheckoutHasOrder
<1>7. CASE RejectOrder(o) \/ EmptyFreeBasket(o) \/ CheckoutThrows(o)
  <2>1. checkouts'[o].user = checkouts[o].user /\ checkouts'[o].pc \in {"returned", "thrown"}
    BY <1>7 DEF RejectOrder, EmptyFreeBasket, CheckoutThrows, CheckoutHandler
  <2> QED
    BY <1>7, <2>1 DEF RejectOrder, EmptyFreeBasket, CheckoutThrows, CheckoutHasOrder,
                      CheckoutSteps
<1>8. CASE UpdateOrder
  <2>1. CASE NextMessage.id # o
    BY <1>1, <1>8, <2>1 DEF UpdateOrder
  <2>2. CASE NextMessage.id = o
    <3>1. orders[o] \in Order /\ orders[o].price \in AcceptedAmounts
      BY <1>8, <2>2, MessageInHand, MessagePrice DEF UpdateOrder
    <3>2. checkouts[o].pc \notin {"idle", "ordering", "emptying"}
      BY <3>1 DEF CheckoutHasOrder
    <3>3. /\ orders'[o] # NoOrder
          /\ orders'[o].user = orders[o].user
          /\ orders'[o].books = orders[o].books
          /\ orders'[o].price = orders[o].price
      BY <3>1, OrdersGrowStep DEF OrdersGrow
    <3>4. checkouts' = checkouts
      BY <1>8 DEF UpdateOrder
    <3> QED
      BY <3>2, <3>3, <3>4 DEF CheckoutHasOrder
  <2> QED
    BY <2>1, <2>2
<1>9. CASE ProductCrash
  <2>1. orders' = orders
    BY <1>9 DEF ProductCrash
  <2>2. CASE checkouts[o].pc \in CheckoutSteps
    BY <1>9, <2>1, <2>2 DEF ProductCrash, CheckoutHasOrder, CheckoutHandler, CheckoutSteps
  <2>3. CASE checkouts[o].pc \notin CheckoutSteps
    BY <1>1, <1>9, <2>1, <2>3 DEF ProductCrash
  <2> QED
    BY <2>2, <2>3
<1>10. CASE UNCHANGED <<orders, checkouts>>
  BY <1>1, <1>10
<1> QED
  BY <1>2, <1>3, <1>4, <1>5, <1>6, <1>7, <1>8, <1>9, <1>10
     DEF Next, ProductNext, CheckoutStep, ConsumerStep, checkoutVars, productVars, AddBook,
         RemoveBook, ConsumeMessage, EmptyBasket, CommitOffsets, ConsumerThrows

(* Calls stay in step with their orders. *)
LEMMA CallsHaveOrdersStep ==
  ASSUME CheckoutInv, [Next]_checkoutVars
  PROVE  CallsHaveOrders'
<1> USE DEF CheckoutInv, ServiceInv, ServiceTypeOK
<1> SUFFICES ASSUME NEW o \in OrderIds
             PROVE  CallHasOrder(o)'
  BY DEF CallsHaveOrders
<1>0. /\ CallHasOrder(o)
      /\ OrdersGrow
      /\ [ServiceNext]_serviceVars
      /\ o \in References
      /\ creating[o] \in Call
  BY OrdersGrowStep, ServiceStep DEF CallsHaveOrders, References
<1>1. ASSUME creating'[o] = creating[o]
      PROVE  CallHasOrder(o)'
  BY <1>0, <1>1 DEF CallHasOrder, OrdersGrow
<1>2. ASSUME creating[o].pc # "idle", creating'[o].amount = creating[o].amount,
             creating'[o].pc \in {"inserting", "responding", "created"} =>
               creating[o].amount \in AcceptedAmounts,
             creating'[o].pc = "refused" => creating[o].amount \notin AcceptedAmounts
      PROVE  CallHasOrder(o)'
  BY <1>0, <1>2 DEF CallHasOrder, OrdersGrow
<1>3. ASSUME creating'[o].pc = "idle"
      PROVE  CallHasOrder(o)'
  BY <1>3 DEF CallHasOrder
<1>4. CASE CallTransaction(o)
  <2>1. /\ orders[o] # NoOrder
        /\ orders[o].price = PriceOf(checkouts[o].books)
        /\ orders[o].price > 0
    BY <1>4 DEF CallTransaction, CheckoutsHaveOrders, CheckoutHasOrder
  <2>2. creating'[o] = [pc |-> "requesting", amount |-> orders[o].price, trackId |-> NoTrackId]
    BY <1>0, <1>4, <2>1 DEF CallTransaction, CallCreateTransaction
  <2>3. orders'[o] = orders[o]
    BY <1>4 DEF CallTransaction
  <2> QED
    BY <2>1, <2>2, <2>3 DEF CallHasOrder
<1>5. CASE TakeReply(o)
  BY <1>0, <1>3, <1>5 DEF TakeReply, EndCall, NoCall
<1>6. ASSUME NEW o2 \in OrderIds, o2 # o, CallTransaction(o2) \/ TakeReply(o2)
      PROVE  CallHasOrder(o)'
  BY <1>0, <1>1, <1>6 DEF CallTransaction, CallCreateTransaction, TakeReply, EndCall
<1>7. ASSUME NEW id \in References, id # o, CreateStep(id) \/ CreateThrows(id)
      PROVE  CallHasOrder(o)'
  BY <1>0, <1>1, <1>7 DEF CreateStep, RequestPayment, InsertTransaction, Respond, CreateThrows
<1>8. CASE RequestPayment(o)
  <2>1. \/ /\ creating[o].amount \in AcceptedAmounts
           /\ \E t \in TrackIds :
                creating' = [creating EXCEPT ![o].pc = "inserting", ![o].trackId = t]
        \/ /\ creating[o].amount \notin AcceptedAmounts
           /\ creating' = [creating EXCEPT ![o].pc = "refused"]
    BY <1>8 DEF RequestPayment
  <2> QED
    BY <1>0, <1>2, <1>8, <2>1 DEF RequestPayment, Call
<1>9. CASE InsertTransaction(o) \/ Respond(o) \/ CreateThrows(o)
  <2>1. \E pc \in {"responding", "created", "error"} :
          /\ creating' = [creating EXCEPT ![o].pc = pc]
          /\ pc # "error" => creating[o].pc \in {"inserting", "responding"}
    BY <1>9 DEF InsertTransaction, Respond, CreateThrows
  <2>2. creating[o].pc # "idle"
    BY <1>9 DEF InsertTransaction, Respond, CreateThrows, CreateSteps
  <2> QED
    BY <1>0, <1>2, <2>1, <2>2 DEF Call, CallHasOrder
<1>10. CASE ServiceCrash
  <2>1. CASE creating[o].pc \in CreateSteps
    BY <1>0, <1>2, <1>10, <2>1 DEF ServiceCrash, Call, CreateSteps
  <2>2. CASE creating[o].pc \notin CreateSteps
    BY <1>0, <1>1, <1>10, <2>2 DEF ServiceCrash
  <2> QED
    BY <2>1, <2>2
<1>11. CASE UNCHANGED creating
  BY <1>1, <1>11
<1> QED
  BY <1>4, <1>5, <1>6, <1>7, <1>8, <1>9, <1>10, <1>11
     DEF Next, ProductNext, InternalNext, GatewayNext, CreateStep, VerifyStep, CheckoutStep,
         ConsumerStep, checkoutVars, productVars, serviceVars, AddBook, RemoveBook, ReadBasket,
         CreateOrder, RejectOrder, EmptyFreeBasket, CheckoutThrows, ConsumeMessage, UpdateOrder,
         EmptyBasket, CommitOffsets, ConsumerThrows, ProductCrash, FindTransaction,
         VerifyPayment, UpdateTransaction, SendEvent, RepeatSend, VerifyThrows

(* A transaction repeats the price of an existing order, within the limits. *)
LEMMA TransactionsHaveOrdersStep ==
  ASSUME CheckoutInv, [Next]_checkoutVars
  PROVE  TransactionsHaveOrders' /\ TransactionsWithinLimits'
<1> USE DEF CheckoutInv
<1>0. [ServiceNext]_serviceVars /\ OrdersGrow /\ TransactionsGrow
  BY ServiceStep, OrdersGrowStep, TransactionsGrowStep
<1> SUFFICES ASSUME NEW t \in TrackIds, transactions'[t] # NoTransaction,
                    transactions'[t].orderId \in OrderIds
             PROVE  /\ orders'[transactions'[t].orderId] # NoOrder
                    /\ transactions'[t].amount = orders'[transactions'[t].orderId].price
                    /\ transactions'[t].amount \in AcceptedAmounts
  BY DEF TransactionsHaveOrders, TransactionsWithinLimits
<1>1. CASE transactions[t] # NoTransaction
  BY <1>0, <1>1 DEF TransactionsHaveOrders, TransactionsWithinLimits, TransactionsGrow, OrdersGrow
<1>2. CASE transactions[t] = NoTransaction
  BY <1>0, <1>2, NewTransaction DEF CallsHaveOrders, CallHasOrder, OrdersGrow
<1> QED
  BY <1>1, <1>2

(* A message is sent only about an order with a transaction. *)
LEMMA MessagesStep ==
  ASSUME CheckoutInv, [Next]_checkoutVars
  PROVE  MessagesHaveTransactions'
<1> USE DEF CheckoutInv
<1>0. [ServiceNext]_serviceVars /\ TransactionsGrow
  BY ServiceStep, TransactionsGrowStep
<1> SUFFICES ASSUME NEW i \in DOMAIN topics'["ORDER"]
             PROVE  /\ topics'["ORDER"][i].id \in OrderIds
                    /\ \E t \in TrackIds : HasTransaction(t, topics["ORDER"][i].id)'
  BY DEF MessagesHaveTransactions
<1>1. \A id : (\E t \in TrackIds : HasTransaction(t, id)) =>
                \E t \in TrackIds : HasTransaction(t, id)'
  BY <1>0 DEF HasTransaction, TransactionsGrow
<1>2. ASSUME i \in DOMAIN topics["ORDER"], topics'["ORDER"][i] = topics["ORDER"][i]
      PROVE  /\ topics'["ORDER"][i].id \in OrderIds
             /\ \E t \in TrackIds : HasTransaction(t, topics["ORDER"][i].id)'
  BY <1>1, <1>2 DEF MessagesHaveTransactions
<1>3. topics["ORDER"] \in Seq(Message)
  BY DEF ServiceInv, ServiceTypeOK, TransactionTypes
<1>4. ASSUME NEW m \in Message, topics'["ORDER"] = Append(topics["ORDER"], m),
             m.id \in OrderIds, \E t \in TrackIds : HasTransaction(t, m.id)
      PROVE  /\ topics'["ORDER"][i].id \in OrderIds
             /\ \E t \in TrackIds : HasTransaction(t, topics["ORDER"][i].id)'
  <2>1. \/ i \in DOMAIN topics["ORDER"] /\ topics'["ORDER"][i] = topics["ORDER"][i]
        \/ topics'["ORDER"][i] = m
    BY <1>3, <1>4, AppendedElement
  <2> QED
    BY <1>1, <1>2, <1>4, <2>1
<1> QED
  BY <1>0, <1>2, <1>4, TopicGrows

(* The consumer stays inside the topic, and an order whose basket is about to be *)
(* emptied stays COMPLETED.                                                      *)
LEMMA ConsumerFollowsTopicStep ==
  ASSUME CheckoutInv, [Next]_checkoutVars
  PROVE  ConsumerFollowsTopic'
<1> USE DEF CheckoutInv
<1> DEFINE topic == topics["ORDER"]
<1>1. topic \in Seq(Message) /\ consumer \in ConsumerState
  BY DEF ServiceInv, ServiceTypeOK, ProductTypeOK, TransactionTypes
<1>2. /\ Len(topic) \in Nat /\ Len(topic') \in Nat /\ Len(topic) <= Len(topic')
      /\ \A i \in 1 .. Len(topic) : topic'[i] = topic[i]
  <2>1. CASE topic' = topic
    BY <1>1, <2>1, LenProperties
  <2>2. ASSUME NEW m \in Message, topic' = Append(topic, m)
        PROVE  <1>2!1 /\ <1>2!2
    BY <1>1, <2>2, LenProperties, AppendProperties
  <2> QED
    BY <2>1, <2>2, ServiceStep, TopicGrows
<1>3. ASSUME consumer' = consumer, consumer.pc # "emptying" \/ orders' = orders
      PROVE  ConsumerFollowsTopic'
  BY <1>1, <1>2, <1>3 DEF ConsumerFollowsTopic, ConsumerState, NextMessage
<1>4. ASSUME NEW o \in OrderIds, RejectOrder(o)
      PROVE  ConsumerFollowsTopic'
  <2>1. orders[o].price \notin AcceptedAmounts
    BY <1>4 DEF RejectOrder, CheckoutsHaveOrders, CheckoutHasOrder
  <2>2. consumer.pc # "idle" => NextMessage.id # o
    BY <2>1, MessagePrice
  <2>3. /\ consumer' = consumer /\ topic' = topic
        /\ consumer.pc # "idle" => orders'[NextMessage.id] = orders[NextMessage.id]
    BY <1>4, <2>2, MessageInHand DEF RejectOrder, serviceVars, ProductTypeOK
  <2> QED
    BY <2>3 DEF ConsumerFollowsTopic, NextMessage
<1>5. ASSUME NEW o \in OrderIds, CreateOrder(o)
      PROVE  ConsumerFollowsTopic'
  <2>1. orders[o] = NoOrder
    BY <1>5 DEF CreateOrder, CheckoutsHaveOrders, CheckoutHasOrder
  <2>2. consumer.pc # "idle" => NextMessage.id # o
    BY <2>1, MessageInHand
  <2>3. /\ consumer' = consumer /\ topic' = topic
        /\ consumer.pc # "idle" => orders'[NextMessage.id] = orders[NextMessage.id]
    BY <1>5, <2>2, MessageInHand DEF CreateOrder, serviceVars, ProductTypeOK
  <2> QED
    BY <2>3 DEF ConsumerFollowsTopic, NextMessage
<1>6. CASE ConsumeMessage \/ CommitOffsets \/ ConsumerThrows \/ ProductCrash
  <2>1. topic' = topic /\ orders' = orders
    BY <1>6 DEF ConsumeMessage, CommitOffsets, ConsumerThrows, ProductCrash, serviceVars
  <2>2. CASE ConsumeMessage
    BY <1>1, <1>2, <2>1, <2>2 DEF ConsumeMessage, ConsumerFollowsTopic, ConsumerState
  <2>3. CASE CommitOffsets
    <3>1. /\ consumer'.pc = consumer.pc
          /\ consumer'.offset = consumer.offset
          /\ consumer'.committed = consumer.offset
      BY <1>1, <2>3 DEF CommitOffsets, ConsumerState
    <3> QED
      BY <1>1, <2>1, <3>1 DEF ConsumerFollowsTopic, ConsumerState, NextMessage
  <2>4. CASE ConsumerThrows
    BY <1>1, <1>2, <2>1, <2>4 DEF ConsumerThrows, ConsumerFollowsTopic, ConsumerState
  <2>5. CASE ProductCrash
    BY <1>1, <1>2, <2>1, <2>5 DEF ProductCrash, ConsumerFollowsTopic, ConsumerState
  <2> QED
    BY <1>6, <2>2, <2>3, <2>4, <2>5
<1>7. CASE UpdateOrder
  <2>1. /\ NextMessage.id \in OrderIds
        /\ orders[NextMessage.id] \in Order
        /\ topic' = topic
    BY <1>7, MessageInHand DEF UpdateOrder, serviceVars
  <2>2. CASE NextMessage.status = "COMPLETED"
    <3>1. /\ consumer'.pc = "emptying"
          /\ consumer'.offset = consumer.offset
          /\ consumer'.committed = consumer.committed
      BY <1>1, <1>7, <2>2 DEF UpdateOrder, ConsumerState
    <3>2. orders'[NextMessage.id].status = "COMPLETED"
      BY <1>7, <2>1, <2>2 DEF UpdateOrder, ProductTypeOK, Order
    <3> QED
      BY <1>1, <1>7, <2>1, <3>1, <3>2 DEF UpdateOrder, ConsumerFollowsTopic, NextMessage
  <2>3. CASE NextMessage.status # "COMPLETED"
    BY <1>1, <1>2, <1>7, <2>1, <2>3 DEF UpdateOrder, ConsumerFollowsTopic, ConsumerState
  <2> QED
    BY <2>2, <2>3
<1>8. CASE EmptyBasket
  BY <1>1, <1>2, <1>8 DEF EmptyBasket, ConsumerFollowsTopic, ConsumerState, serviceVars
<1>9. CASE UNCHANGED <<orders, consumer>>
  BY <1>3, <1>9
<1> QED
  BY <1>4, <1>5, <1>6, <1>7, <1>8, <1>9
     DEF Next, ProductNext, CheckoutStep, ConsumerStep, checkoutVars, productVars, AddBook,
         RemoveBook, ReadBasket, CallTransaction, TakeReply, EmptyFreeBasket, CheckoutThrows

(* An order becomes COMPLETED by a message, hence after a verified payment. *)
LEMMA PaidOrdersStep ==
  ASSUME CheckoutInv, [Next]_checkoutVars
  PROVE  PaidOrders'
<1> USE DEF CheckoutInv
<1>0. GatewayGrows /\ TransactionsGrow /\ OrdersGrow
  BY ServiceStep, GatewayGrowsStep, TransactionsGrowStep, OrdersGrowStep DEF ServiceInv
<1> DEFINE Paid(o) == \E t \in TrackIds : /\ transactions[t] # NoTransaction
                                          /\ transactions[t].orderId = o
                                          /\ transactions[t].amount = orders[o].price
                                          /\ gateway[t] = "verified"
<1> SUFFICES ASSUME NEW o \in OrderIds, orders'[o] # NoOrder,
                    orders'[o].status = "COMPLETED", orders'[o].price > 0
             PROVE  Paid(o)'
  BY DEF PaidOrders
<1>1. ASSUME orders[o] # NoOrder, Paid(o)
      PROVE  Paid(o)'
  BY <1>0, <1>1 DEF GatewayGrows, TransactionsGrow, OrdersGrow
<1>2. CASE orders'[o] = orders[o]
  <2>1. orders[o] # NoOrder /\ Paid(o)
    BY <1>2 DEF PaidOrders
  <2> QED
    BY <1>1, <2>1
<1>3. ASSUME NEW o2 \in OrderIds, CreateOrder(o2)
      PROVE  Paid(o)'
  <2>1. CASE o2 = o
    <3>1. orders'[o].price = PriceOf(checkouts[o].books)
          /\ orders'[o].status = IF orders'[o].price = 0 THEN "COMPLETED" ELSE "PENDING"
      BY <1>3, <2>1 DEF CreateOrder, ProductTypeOK
    <3> QED
      BY <3>1
  <2>2. CASE o2 # o
    BY <1>2, <1>3, <2>2 DEF CreateOrder, ProductTypeOK
  <2> QED
    BY <2>1, <2>2
<1>4. ASSUME NEW o2 \in OrderIds, RejectOrder(o2)
      PROVE  Paid(o)'
  <2>1. CASE o2 = o
    <3>1. orders[o] \in Order
      BY <1>4, <2>1 DEF RejectOrder, CheckoutsHaveOrders, CheckoutHasOrder, ProductTypeOK
    <3>2. orders'[o].status = "FAILURE"
      BY <1>4, <2>1, <3>1 DEF RejectOrder, Order, ProductTypeOK
    <3> QED
      BY <3>2
  <2>2. CASE o2 # o
    BY <1>2, <1>4, <2>2 DEF RejectOrder, ProductTypeOK
  <2> QED
    BY <2>1, <2>2
<1>5. CASE UpdateOrder
  <2>1. CASE NextMessage.id # o
    BY <1>2, <1>5, <2>1 DEF UpdateOrder, ProductTypeOK
  <2>2. CASE NextMessage.id = o
    <3>1. consumer.offset + 1 \in DOMAIN topics["ORDER"] /\ orders[o] \in Order
      BY <1>5, <2>2, MessageInHand DEF UpdateOrder
    <3>2. NextMessage.status = "COMPLETED"
      BY <1>5, <2>2, <3>1 DEF UpdateOrder, ProductTypeOK, Order
    <3>3. PICK t \in TrackIds : /\ transactions[t] # NoTransaction
                                /\ transactions[t].orderId = o
                                /\ gateway[t] = "verified"
      BY <2>2, <3>1, <3>2 DEF ServiceInv, CompletionIsVerified, NextMessage, TransactionTypes
    <3>4. orders[o] # NoOrder /\ transactions[t].amount = orders[o].price
      BY <3>3 DEF TransactionsHaveOrders
    <3> QED
      BY <1>1, <3>3, <3>4
  <2> QED
    BY <2>1, <2>2
<1>6. CASE UNCHANGED orders
  BY <1>2, <1>6
<1> QED
  BY <1>3, <1>4, <1>5, <1>6
     DEF Next, ProductNext, CheckoutStep, ConsumerStep, checkoutVars, productVars, AddBook,
         RemoveBook, ReadBasket, CallTransaction, TakeReply, EmptyFreeBasket, CheckoutThrows,
         ConsumeMessage, EmptyBasket, CommitOffsets, ConsumerThrows, ProductCrash

(* What the strengthening says, step by step. *)
LEMMA CheckoutInvStep ==
  ASSUME CheckoutInv, [Next]_checkoutVars
  PROVE  CheckoutInv'
<1>1. ServiceInv'
  BY ServiceStep, InvStep DEF CheckoutInv
<1> QED
  BY <1>1, ProductTypeStep, CheckoutsStep, CallsHaveOrdersStep, TransactionsHaveOrdersStep,
     MessagesStep, ConsumerFollowsTopicStep, PaidOrdersStep DEF CheckoutInv

(* CheckoutInv holds in every reachable state of chkeout, the order consumer and *)
(* the transaction service together.                                             *)
THEOREM CheckoutInvariant == Spec => []CheckoutInv
<1>1. Init => CheckoutInv
  BY CheckoutInitInv
<1>2. CheckoutInv /\ [Next]_checkoutVars => CheckoutInv'
  BY CheckoutInvStep
<1> QED
  BY <1>1, <1>2, PTL DEF Spec

(* Every document, handler, message and offset of both services has its type. *)
THEOREM CheckoutTypes == Spec => []TypeOK
<1>1. CheckoutInv => TypeOK
  BY DEF CheckoutInv, ServiceInv, TypeOK
<1> QED
  BY <1>1, CheckoutInvariant, PTL

(* No priced order is COMPLETED before the gateway verified a payment of its price *)
(* for it, whatever fails in chkeout, verifyTransaction or handleOrderTransaction. *)
THEOREM PaidOrdersTheorem == Spec => []PaidOrders
<1>1. CheckoutInv => PaidOrders
  BY DEF CheckoutInv
<1> QED
  BY <1>1, CheckoutInvariant, PTL

(* Every ORDER transaction has its order, and asks for the order's price. *)
THEOREM TransactionsHaveOrdersTheorem == Spec => []TransactionsHaveOrders
<1>1. CheckoutInv => TransactionsHaveOrders
  BY DEF CheckoutInv
<1> QED
  BY <1>1, CheckoutInvariant, PTL

(* Books leave a basket by removeBook, or with a COMPLETED order that contains them: *)
(* the $pullAll of chkeout and of handleOrderTransaction takes nothing else.         *)
THEOREM BasketKeepsBooksTheorem == Spec => BasketKeepsBooks
<1> DEFINE Step == \A u \in Users : \A b \in baskets[u] \ baskets'[u] : BookLeaves(u, b)
<1>1. CheckoutInv /\ [Next]_checkoutVars => [Step]_checkoutVars
  <2> SUFFICES ASSUME CheckoutInv, Next,
                      NEW u \in Users, NEW b \in baskets[u] \ baskets'[u]
               PROVE  BookLeaves(u, b)
    OBVIOUS
  <2> USE DEF CheckoutInv
  <2>1. baskets \in [Users -> SUBSET Books]
    BY DEF ProductTypeOK
  <2>2. ASSUME NEW u2 \in Users, NEW b2 \in Books, AddBook(u2, b2)
        PROVE  FALSE
    BY <2>1, <2>2 DEF AddBook
  <2>3. ASSUME NEW u2 \in Users, NEW b2 \in Books, RemoveBook(u2, b2)
        PROVE  BookLeaves(u, b)
    <3>1. u2 = u /\ b2 = b
      BY <2>1, <2>3 DEF RemoveBook
    <3> QED
      BY <2>3, <3>1 DEF BookLeaves
  <2>4. ASSUME NEW o \in OrderIds, EmptyFreeBasket(o)
        PROVE  BookLeaves(u, b)
    <3>1. u = checkouts[o].user /\ b \in checkouts[o].books
      BY <2>1, <2>4 DEF EmptyFreeBasket
    <3>2. /\ orders[o] # NoOrder
          /\ orders[o].user = checkouts[o].user
          /\ orders[o].books = checkouts[o].books
          /\ orders[o].status = "COMPLETED"
      BY <2>4 DEF EmptyFreeBasket, CheckoutsHaveOrders, CheckoutHasOrder
    <3> QED
      BY <3>1, <3>2 DEF BookLeaves
  <2>5. CASE EmptyBasket
    <3> DEFINE o == NextMessage.id
    <3>1. o \in OrderIds /\ orders[o] # NoOrder
      BY <2>5, MessageInHand DEF EmptyBasket
    <3>2. orders[o].status = "COMPLETED"
      BY <2>5 DEF EmptyBasket, ConsumerFollowsTopic
    <3>3. u = orders[o].user /\ b \in orders[o].books
      BY <2>1, <2>5 DEF EmptyBasket
    <3> QED
      BY <3>1, <3>2, <3>3 DEF BookLeaves
  <2>6. CASE UNCHANGED baskets
    BY <2>6
  <2> QED
    BY <2>2, <2>3, <2>4, <2>5, <2>6
       DEF Next, ProductNext, CheckoutStep, ConsumerStep, productVars, ReadBasket, CreateOrder,
           CallTransaction, TakeReply, RejectOrder, CheckoutThrows, ConsumeMessage, UpdateOrder,
           CommitOffsets, ConsumerThrows, ProductCrash
<1> QED
  BY <1>1, CheckoutInvariant, PTL DEF Spec, BasketKeepsBooks
-----------------------------------------------------------------------------
(* The messages the consumer has passed.  No strengthening is needed beyond        *)
(* CheckoutInv: every message has its order, so none is passed over unapplied, and *)
(* nothing makes an order PENDING again.                                           *)
LEMMA DecidedOrderStays ==
  ASSUME CheckoutInv, [Next]_checkoutVars, NEW o \in OrderIds, orders[o] # NoOrder,
         orders[o].status # "PENDING"
  PROVE  orders'[o].status # "PENDING"
<1> USE DEF CheckoutInv, ProductTypeOK
<1> orders[o] \in Order
  OBVIOUS
<1>1. ASSUME NEW o2 \in OrderIds, CreateOrder(o2)
      PROVE  orders'[o].status # "PENDING"
  BY <1>1 DEF CreateOrder, CheckoutsHaveOrders, CheckoutHasOrder
<1>2. ASSUME NEW o2 \in OrderIds, RejectOrder(o2)
      PROVE  orders'[o].status # "PENDING"
  BY <1>2 DEF RejectOrder, Order
<1>3. CASE UpdateOrder
  BY <1>3, MessageInHand DEF UpdateOrder, Order, Message
<1>4. CASE UNCHANGED orders
  BY <1>4
<1> QED
  BY <1>1, <1>2, <1>3, <1>4
     DEF Next, ProductNext, CheckoutStep, ConsumerStep, checkoutVars, productVars, AddBook,
         RemoveBook, ReadBasket, CallTransaction, TakeReply, EmptyFreeBasket, CheckoutThrows,
         ConsumeMessage, EmptyBasket, CommitOffsets, ConsumerThrows, ProductCrash

(* The message at a place of the topic has its order, and stays there. *)
LEMMA MessageAt ==
  ASSUME CheckoutInv, [Next]_checkoutVars, NEW i \in 1 .. Len(topics["ORDER"])
  PROVE  /\ topics["ORDER"][i] \in Message
         /\ topics["ORDER"][i].id \in OrderIds
         /\ orders[topics["ORDER"][i].id] \in Order
         /\ topics'["ORDER"][i] = topics["ORDER"][i]
<1> DEFINE topic == topics["ORDER"]
<1>1. topic \in Seq(Message)
  BY DEF CheckoutInv, ServiceInv, ServiceTypeOK, TransactionTypes
<1>2. i \in DOMAIN topic
  BY <1>1
<1>3. PICK t \in TrackIds : HasTransaction(t, topic[i].id)
  BY <1>2 DEF CheckoutInv, MessagesHaveTransactions
<1>4. topic[i].id \in OrderIds /\ orders[topic[i].id] # NoOrder
  BY <1>2, <1>3 DEF CheckoutInv, MessagesHaveTransactions, TransactionsHaveOrders, HasTransaction
<1>5. topic'[i] = topic[i]
  <2>1. ASSUME NEW m \in Message, topic' = Append(topic, m)
        PROVE  topic'[i] = topic[i]
    BY <1>1, <2>1, AppendProperties
  <2> QED
    BY <2>1, ServiceStep, TopicGrows DEF CheckoutInv
<1> QED
  BY <1>1, <1>2, <1>4, <1>5 DEF CheckoutInv, ProductTypeOK

LEMMA PassedMessagesStep ==
  ASSUME CheckoutInv, PassedMessagesApplied, [Next]_checkoutVars
  PROVE  PassedMessagesApplied'
<1> DEFINE topic == topics["ORDER"]
           Applied(i) == orders[topic[i].id].status # "PENDING"
<1>1. /\ consumer \in ConsumerState
      /\ consumer.offset <= Len(topic)
      /\ consumer.pc # "idle" => consumer.offset < Len(topic)
      /\ Len(topic) \in Nat
  BY DEF CheckoutInv, ServiceInv, ServiceTypeOK, ProductTypeOK, TransactionTypes,
         ConsumerFollowsTopic
<1>2. ASSUME NEW i \in 1 .. Len(topic), Applied(i)
      PROVE  Applied(i)'
  <2>1. topic[i].id \in OrderIds /\ orders[topic[i].id] # NoOrder /\ topic'[i] = topic[i]
    BY MessageAt DEF CheckoutInv, ProductTypeOK
  <2> QED
    BY <1>2, <2>1, DecidedOrderStays
<1>3. ASSUME NEW i \in 1 .. consumer.offset
      PROVE  Applied(i)'
  <2>1. i \in 1 .. Len(topic)
    BY <1>1 DEF ConsumerState
  <2>2. Applied(i)
    BY <2>1, MessageAt DEF PassedMessagesApplied
  <2> QED
    BY <1>2, <2>1, <2>2
<1>4. consumer'.committed <= consumer'.offset
  BY ConsumerFollowsTopicStep DEF ConsumerFollowsTopic
<1>5. ASSUME consumer'.offset <= consumer.offset, consumer'.offset \in Nat
      PROVE  PassedMessagesApplied'
  BY <1>1, <1>3, <1>4, <1>5 DEF PassedMessagesApplied, ConsumerState
<1>6. ASSUME NEW i \in Nat, i = consumer.offset + 1, consumer'.offset = i, Applied(i)'
      PROVE  PassedMessagesApplied'
  BY <1>1, <1>3, <1>4, <1>6 DEF PassedMessagesApplied, ConsumerState
<1>7. CASE ConsumeMessage
  <2>1. consumer.offset + 1 \in 1 .. Len(topic)
    BY <1>1, <1>7 DEF ConsumeMessage, ConsumerState
  <2>2. orders[NextMessage.id] # NoOrder
    BY <2>1, MessageAt DEF NextMessage, CheckoutInv, ProductTypeOK
  <2> QED
    BY <1>1, <1>5, <1>7, <2>2 DEF ConsumeMessage, ConsumerState
<1>8. CASE UpdateOrder
  <2>1. /\ NextMessage.id \in OrderIds
        /\ orders[NextMessage.id] \in Order
        /\ NextMessage \in Message
        /\ topic' = topic
    BY <1>8, MessageInHand DEF UpdateOrder, serviceVars
  <2>2. CASE NextMessage.status = "COMPLETED"
    BY <1>1, <1>5, <1>8, <2>2 DEF UpdateOrder, ConsumerState
  <2>3. CASE NextMessage.status # "COMPLETED"
    <3>1. consumer'.offset = consumer.offset + 1
      BY <1>1, <1>8, <2>3 DEF UpdateOrder, ConsumerState
    <3>2. orders'[NextMessage.id].status # "PENDING"
      BY <1>8, <2>1 DEF UpdateOrder, CheckoutInv, ProductTypeOK, Order, Message
    <3> QED
      BY <1>1, <1>6, <2>1, <3>1, <3>2 DEF NextMessage, ConsumerState
  <2> QED
    BY <2>2, <2>3
<1>9. CASE EmptyBasket
  <2>1. /\ consumer'.offset = consumer.offset + 1
        /\ consumer.offset + 1 \in 1 .. Len(topic)
        /\ Applied(consumer.offset + 1)
    BY <1>1, <1>9 DEF EmptyBasket, ConsumerState, NextMessage, CheckoutInv, ConsumerFollowsTopic
  <2> QED
    BY <1>1, <1>2, <1>6, <2>1 DEF ConsumerState
<1>10. CASE CommitOffsets \/ ConsumerThrows
  BY <1>1, <1>5, <1>10 DEF CommitOffsets, ConsumerThrows, ConsumerState
<1>11. CASE ProductCrash
  BY <1>1, <1>5, <1>11 DEF ProductCrash, ConsumerState, PassedMessagesApplied
<1>12. CASE UNCHANGED consumer
  BY <1>1, <1>5, <1>12 DEF ConsumerState
<1> QED
  BY <1>7, <1>8, <1>9, <1>10, <1>11, <1>12
     DEF Next, ProductNext, CheckoutStep, ConsumerStep, checkoutVars, productVars, AddBook,
         RemoveBook, ReadBasket, CreateOrder, CallTransaction, TakeReply, RejectOrder,
         EmptyFreeBasket, CheckoutThrows

(* No message is lost between the topic and the orders: whatever handleOrderTransaction *)
(* throws, and wherever the process dies between $set, $pullAll and the commit of the   *)
(* offset, the order of every message that was passed is decided.                       *)
THEOREM PassedMessagesTheorem == Spec => []PassedMessagesApplied
<1>1. Init => PassedMessagesApplied
  BY DEF Init, PassedMessagesApplied
<1>2. CheckoutInv /\ PassedMessagesApplied /\ [Next]_checkoutVars => PassedMessagesApplied'
  BY PassedMessagesStep
<1> QED
  BY <1>1, <1>2, CheckoutInvariant, PTL DEF Spec
-----------------------------------------------------------------------------
(* One charge per order.  A checkout may leave several transactions behind, but its *)
(* handler returns with the first url it is given, and never calls again.           *)
OnlyOrders ==
  /\ \A id \in UserPlanIds : creating[id].pc = "idle"
  /\ \A t \in TrackIds :
       transactions[t] # NoTransaction => transactions[t].orderId \in OrderIds

UrlsOfReturned == \A t \in paymentUrls : checkouts[transactions[t].orderId].pc = "returned"

OneUrl ==
  \A t1, t2 \in paymentUrls : transactions[t1].orderId = transactions[t2].orderId => t1 = t2

ChargeInv ==
  /\ CheckoutInv
  /\ UrlInv
  /\ OnlyOrders
  /\ UrlsOfReturned
  /\ OneUrl

LEMMA InitCharge == Init => ChargeInv
<1> SUFFICES ASSUME Init PROVE ChargeInv
  OBVIOUS
<1>1. CheckoutInv /\ UrlInv
  BY CheckoutInitInv, InitUrls DEF Init
<1>2. OnlyOrders /\ UrlsOfReturned /\ OneUrl
  BY DEF Init, ServiceInit, GatewayInit, NoCall, References, OnlyOrders, UrlsOfReturned, OneUrl
<1> QED
  BY <1>1, <1>2 DEF ChargeInv

(* Only chkeout calls, and only for orders. *)
LEMMA OnlyOrdersStep ==
  ASSUME CheckoutInv, OnlyOrders, [Next]_checkoutVars
  PROVE  OnlyOrders'
<1>1. ASSUME NEW id \in UserPlanIds
      PROVE  creating'[id].pc = "idle"
  <2> USE DEF CheckoutInv, ServiceInv, ServiceTypeOK
  <2>1. creating[id].pc = "idle" /\ id \in References /\ id \notin OrderIds
    BY DEF OnlyOrders, References
  <2>2. ASSUME NEW o \in OrderIds, CallTransaction(o) \/ TakeReply(o)
        PROVE  creating'[id].pc = "idle"
    BY <2>1, <2>2 DEF CallTransaction, CallCreateTransaction, TakeReply, EndCall
  <2>3. ASSUME NEW id2 \in References, CreateStep(id2) \/ CreateThrows(id2)
        PROVE  creating'[id].pc = "idle"
    BY <2>1, <2>3 DEF CreateStep, RequestPayment, InsertTransaction, Respond, CreateThrows,
                      CreateSteps
  <2>4. CASE ServiceCrash
    BY <2>1, <2>4 DEF ServiceCrash, CreateSteps
  <2>5. CASE UNCHANGED creating
    BY <2>1, <2>5
  <2> QED
    BY <2>2, <2>3, <2>4, <2>5
       DEF Next, ProductNext, InternalNext, GatewayNext, CheckoutStep, ConsumerStep, checkoutVars,
           productVars, serviceVars, VerifyStep, AddBook, RemoveBook, ReadBasket, CreateOrder,
           RejectOrder, EmptyFreeBasket, CheckoutThrows, ConsumeMessage, UpdateOrder, EmptyBasket,
           CommitOffsets, ConsumerThrows, ProductCrash, FindTransaction, VerifyPayment,
           UpdateTransaction, SendEvent, RepeatSend, VerifyThrows
<1>2. ASSUME NEW t \in TrackIds, transactions'[t] # NoTransaction
      PROVE  transactions'[t].orderId \in OrderIds
  <2>1. CASE transactions[t] # NoTransaction
    BY <2>1, ServiceStep, TransactionsGrowStep DEF CheckoutInv, OnlyOrders, TransactionsGrow
  <2>2. CASE transactions[t] = NoTransaction
    <3>1. /\ transactions'[t].orderId \in References
          /\ creating[transactions'[t].orderId].pc = "inserting"
      BY <1>2, <2>2, ServiceStep, NewTransaction DEF CheckoutInv
    <3> QED
      BY <3>1 DEF OnlyOrders, References
  <2> QED
    BY <2>1, <2>2
<1> QED
  BY <1>1, <1>2 DEF OnlyOrders

(* A checkout that has returned is over. *)
LEMMA ReturnedStays ==
  ASSUME ProductTypeOK, [Next]_checkoutVars, NEW o \in OrderIds, checkouts[o].pc = "returned"
  PROVE  checkouts'[o].pc = "returned"
<1> USE DEF ProductTypeOK
<1>1. ASSUME NEW o2 \in OrderIds,
             \/ \E u \in Users : ReadBasket(o2, u)
             \/ CheckoutStep(o2) \/ CheckoutThrows(o2)
      PROVE  checkouts'[o] = checkouts[o]
  <2>1. o2 # o
    BY <1>1 DEF ReadBasket, CheckoutStep, CreateOrder, CallTransaction, TakeReply, RejectOrder,
                EmptyFreeBasket, CheckoutThrows, CheckoutSteps
  <2> QED
    BY <1>1, <2>1 DEF ReadBasket, CheckoutStep, CreateOrder, CallTransaction, TakeReply,
                      RejectOrder, EmptyFreeBasket, CheckoutThrows
<1>2. CASE ProductCrash
  BY <1>2 DEF ProductCrash, CheckoutSteps
<1>3. CASE UNCHANGED checkouts
  BY <1>3
<1> QED
  BY <1>1, <1>2, <1>3
     DEF Next, ProductNext, ConsumerStep, checkoutVars, productVars, AddBook, RemoveBook,
         ConsumeMessage, UpdateOrder, EmptyBasket, CommitOffsets, ConsumerThrows

(* A new url is the one that a waiting checkout returns with. *)
LEMMA NewOrderUrl ==
  ASSUME CheckoutInv, [Next]_checkoutVars
  PROVE  \/ paymentUrls' = paymentUrls
         \/ \E o \in OrderIds, t \in TrackIds : /\ HasTransaction(t, o)
                                                /\ checkouts[o].pc = "waiting"
                                                /\ checkouts'[o].pc = "returned"
                                                /\ paymentUrls' = paymentUrls \cup {t}
<1>1. ASSUME NEW o \in OrderIds, TakeReply(o), creating[o].pc = "created"
      PROVE  /\ creating[o].trackId \in TrackIds
             /\ HasTransaction(creating[o].trackId, o)
             /\ checkouts[o].pc = "waiting"
             /\ checkouts'[o].pc = "returned"
             /\ paymentUrls' = paymentUrls \cup {creating[o].trackId}
  <2>1. /\ creating[o].trackId \in TrackIds
        /\ HasTransaction(creating[o].trackId, o)
    BY <1>1 DEF CheckoutInv, ServiceInv, CallsHoldIssuedTracks, CallHoldsIssuedTrack, References
  <2>2. checkouts[o].pc = "waiting" /\ checkouts' = [checkouts EXCEPT ![o].pc = "returned"]
    BY <1>1 DEF TakeReply
  <2>3. checkouts'[o].pc = "returned"
    BY <2>2 DEF CheckoutInv, ProductTypeOK, CheckoutHandler
  <2> QED
    BY <1>1, <2>1, <2>2, <2>3 DEF TakeReply, EndCall
<1>2. ASSUME NEW o \in OrderIds, TakeReply(o), creating[o].pc # "created"
      PROVE  paymentUrls' = paymentUrls
  BY <1>2 DEF TakeReply, EndCall
<1> QED
  BY <1>1, <1>2
     DEF Next, ProductNext, InternalNext, GatewayNext, CreateStep, CheckoutStep, ConsumerStep,
         checkoutVars, serviceVars, gatewayVars, VerifyStep, AddBook, RemoveBook, ReadBasket,
         CreateOrder, CallTransaction, CallCreateTransaction, RejectOrder, EmptyFreeBasket,
         CheckoutThrows, ConsumeMessage, UpdateOrder, EmptyBasket, CommitOffsets, ConsumerThrows,
         ProductCrash, Pay, FailPayment, RequestPayment, InsertTransaction, Respond, CreateThrows,
         FindTransaction, VerifyPayment, UpdateTransaction, SendEvent, RepeatSend, VerifyThrows,
         ServiceCrash

LEMMA UrlsOfReturnedStep ==
  ASSUME ChargeInv, [Next]_checkoutVars
  PROVE  UrlsOfReturned' /\ OneUrl'
<1>1. /\ TransactionsGrow
      /\ ProductTypeOK
      /\ CheckoutInv
      /\ paymentUrls \in SUBSET TrackIds
  BY ServiceStep, TransactionsGrowStep
     DEF ChargeInv, CheckoutInv, ServiceInv, ServiceTypeOK, GatewayTypeOK
<1>2. ASSUME NEW t \in paymentUrls
      PROVE  /\ t \in TrackIds
             /\ transactions[t] # NoTransaction
             /\ transactions[t].orderId \in OrderIds
             /\ transactions'[t].orderId = transactions[t].orderId
             /\ checkouts[transactions[t].orderId].pc = "returned"
  BY <1>1, <1>2 DEF ChargeInv, UrlInv, UrlsHaveTransactions, OnlyOrders, UrlsOfReturned,
                    TransactionsGrow
<1>3. ASSUME NEW t \in paymentUrls
      PROVE  checkouts'[transactions'[t].orderId].pc = "returned"
  BY <1>1, <1>2, <1>3, ReturnedStays
<1>4. CASE paymentUrls' = paymentUrls
  BY <1>2, <1>3, <1>4 DEF ChargeInv, UrlsOfReturned, OneUrl
<1>5. ASSUME NEW o \in OrderIds, NEW t \in TrackIds, HasTransaction(t, o),
             checkouts[o].pc = "waiting", checkouts'[o].pc = "returned",
             paymentUrls' = paymentUrls \cup {t}
      PROVE  UrlsOfReturned' /\ OneUrl'
  <2>1. transactions'[t].orderId = o
    BY <1>1, <1>5 DEF HasTransaction, TransactionsGrow
  <2>2. \A t2 \in paymentUrls : transactions'[t2].orderId # o
    BY <1>2, <1>5
  <2>3. UrlsOfReturned'
    BY <1>3, <1>5, <2>1 DEF UrlsOfReturned
  <2>4. OneUrl'
    BY <1>2, <1>5, <2>1, <2>2 DEF ChargeInv, OneUrl
  <2> QED
    BY <2>3, <2>4
<1> QED
  BY <1>1, <1>4, <1>5, NewOrderUrl

LEMMA ChargeStep ==
  ASSUME ChargeInv, [Next]_checkoutVars
  PROVE  ChargeInv'
<1>1. CheckoutInv /\ ServiceInv /\ UrlInv /\ OnlyOrders /\ [ServiceNext]_serviceVars
  BY ServiceStep DEF ChargeInv, CheckoutInv
<1> QED
  BY <1>1, CheckoutInvStep, UrlStep, OnlyOrdersStep, UrlsOfReturnedStep DEF ChargeInv

(* The payments that were attempted for one order are one payment. *)
LEMMA OneAttempt ==
  ASSUME ChargeInv, NEW t1 \in TrackIds, NEW t2 \in TrackIds, Attempted(t1), Attempted(t2),
         transactions[t1].orderId = transactions[t2].orderId
  PROVE  t1 = t2
  BY DEF ChargeInv, UrlInv, AttemptsHaveUrls, OneUrl

LEMMA ChargeInvariant == Spec => []ChargeInv
<1>1. Init => ChargeInv
  BY InitCharge
<1>2. ChargeInv /\ [Next]_checkoutVars => ChargeInv'
  BY ChargeStep
<1> QED
  BY <1>1, <1>2, PTL DEF Spec

(* No order is charged twice: however often chkeout's client retries a POST /transaction *)
(* that took effect, at most one of the order's payments is ever made.                   *)
THEOREM ChargedOnceTheorem == Spec => []ChargedOnce
<1>1. ChargeInv => ChargedOnce
  BY OneAttempt DEF ChargedOnce, Payable, Attempted
<1> QED
  BY <1>1, ChargeInvariant, PTL
-----------------------------------------------------------------------------
(* The refinement of Sale.  A FAILED order was refused by the gateway, or has a      *)
(* payment that failed for good or was asked about while it could still be made;     *)
(* with one attempted payment per order, no message about an order that is not in    *)
(* doubt can contradict what an earlier message, or the same one before a restart,   *)
(* has decided.                                                                      *)
FailedOrdersExcused ==
  \A o \in OrderIds :
    orders[o] # NoOrder /\ orders[o].status = "FAILURE" =>
      \/ orders[o].price \notin AcceptedAmounts
      \/ \E t \in TrackIds : HasTransaction(t, o) /\ FailureExcused(t)

PromiseInv == ChargeInv /\ AgreementInv /\ FailedOrdersExcused

LEMMA InitPromise == Init => PromiseInv
  BY InitCharge, InitAgreement DEF Init, PromiseInv, FailedOrdersExcused

(* A message says COMPLETED of an order with a verified payment, FAILURE of one with a *)
(* payment that failed for good or was asked about early.                              *)
LEMMA MessageMeans ==
  ASSUME PromiseInv, consumer.pc # "idle"
  PROVE  \E t \in TrackIds :
           /\ HasTransaction(t, NextMessage.id)
           /\ \/ NextMessage.status = "COMPLETED" /\ gateway[t] = "verified"
              \/ NextMessage.status = "FAILURE" /\ FailureExcused(t)
<1> USE DEF PromiseInv, ChargeInv
<1>1. consumer.offset + 1 \in DOMAIN topics["ORDER"] /\ NextMessage \in Message
  BY MessageInHand
<1>2. CASE NextMessage.status = "COMPLETED"
  BY <1>1, <1>2 DEF CheckoutInv, ServiceInv, CompletionIsVerified, NextMessage, TransactionTypes,
                    HasTransaction
<1>3. CASE NextMessage.status = "FAILURE"
  <2>1. PICK t \in TrackIds : /\ HasTransaction(t, NextMessage.id)
                              /\ HasStatus(t, NextMessage.status) \/ t \in askedEarly
    BY <1>1 DEF AgreementInv, EventsAgree, NextMessage, TransactionTypes
  <2>2. FailureExcused(t)
    BY <1>3, <2>1 DEF AgreementInv, FailuresExcused, FailureExcused
  <2> QED
    BY <1>3, <2>1, <2>2
<1> QED
  BY <1>1, <1>2, <1>3 DEF Message

LEMMA FailedOrdersStep ==
  ASSUME PromiseInv, [Next]_checkoutVars
  PROVE  FailedOrdersExcused'
<1>1. /\ OrdersGrow /\ TransactionsGrow
      /\ CheckoutInv /\ ServiceInv /\ ServiceTypeOK
      /\ ProductTypeOK
      /\ [ServiceNext]_serviceVars
  BY OrdersGrowStep, ServiceStep, TransactionsGrowStep
     DEF PromiseInv, ChargeInv, CheckoutInv, ServiceInv
<1> DEFINE Excused(o) == \/ orders[o].price \notin AcceptedAmounts
                         \/ \E t \in TrackIds : HasTransaction(t, o) /\ FailureExcused(t)
<1> SUFFICES ASSUME NEW o \in OrderIds, orders'[o] # NoOrder, orders'[o].status = "FAILURE"
             PROVE  Excused(o)'
  BY DEF FailedOrdersExcused
<1>2. ASSUME orders[o] # NoOrder, Excused(o)
      PROVE  Excused(o)'
  <2>1. CASE orders[o].price \notin AcceptedAmounts
    BY <1>1, <1>2, <2>1 DEF OrdersGrow
  <2>2. ASSUME NEW t \in TrackIds, HasTransaction(t, o), FailureExcused(t)
        PROVE  Excused(o)'
    <3>1. FailureExcused(t)'
      BY <1>1, <2>2, ExcuseStays
    <3>2. HasTransaction(t, o)'
      BY <1>1, <2>2 DEF HasTransaction, TransactionsGrow
    <3> QED
      BY <3>1, <3>2
  <2> QED
    BY <1>2, <2>1, <2>2
<1>3. CASE orders'[o] = orders[o]
  BY <1>2, <1>3 DEF PromiseInv, FailedOrdersExcused
<1>4. ASSUME NEW o2 \in OrderIds, CreateOrder(o2)
      PROVE  Excused(o)'
  BY <1>1, <1>3, <1>4 DEF CreateOrder, ProductTypeOK
<1>5. ASSUME NEW o2 \in OrderIds, RejectOrder(o2)
      PROVE  Excused(o)'
  <2>1. CASE o2 = o
    BY <1>1, <1>2, <1>5, <2>1 DEF RejectOrder, CheckoutInv, CheckoutsHaveOrders, CheckoutHasOrder
  <2>2. CASE o2 # o
    BY <1>1, <1>3, <1>5, <2>2 DEF RejectOrder, ProductTypeOK
  <2> QED
    BY <2>1, <2>2
<1>6. CASE UpdateOrder
  <2>1. CASE NextMessage.id = o
    <3>1. orders[o] \in Order
      BY <1>1, <1>6, <2>1, MessageInHand DEF UpdateOrder
    <3>2. NextMessage.status = "FAILURE"
      BY <1>1, <1>6, <2>1, <3>1 DEF UpdateOrder, ProductTypeOK, Order
    <3>3. Excused(o)
      BY <1>6, <2>1, <3>2, MessageMeans DEF UpdateOrder
    <3> QED
      BY <1>1, <1>2, <3>1, <3>3
  <2>2. CASE NextMessage.id # o
    BY <1>1, <1>3, <1>6, <2>2 DEF UpdateOrder, ProductTypeOK
  <2> QED
    BY <2>1, <2>2
<1>7. CASE UNCHANGED orders
  BY <1>3, <1>7
<1> QED
  BY <1>4, <1>5, <1>6, <1>7
     DEF Next, ProductNext, CheckoutStep, ConsumerStep, checkoutVars, productVars, AddBook,
         RemoveBook, ReadBasket, CallTransaction, TakeReply, EmptyFreeBasket, CheckoutThrows,
         ConsumeMessage, EmptyBasket, CommitOffsets, ConsumerThrows, ProductCrash

LEMMA PromiseStep ==
  ASSUME PromiseInv, [Next]_checkoutVars
  PROVE  PromiseInv'
<1>1. ChargeInv /\ AgreementInv /\ CheckoutInv /\ ServiceInv /\ [ServiceNext]_serviceVars
  BY ServiceStep DEF PromiseInv, ChargeInv, CheckoutInv
<1> QED
  BY <1>1, ChargeStep, AgreementStep, FailedOrdersStep DEF PromiseInv

(* The abstract variables, named to keep them opaque. *)
OutcomeOf == [o \in OrderIds |-> IF orders[o] = NoOrder THEN "ABSENT" ELSE orders[o].status]

SalePrice == [o \in OrderIds |-> IF orders[o] = NoOrder THEN 0 ELSE orders[o].price]

PaidFor == {o \in OrderIds : \E t \in TrackIds : /\ HasTransaction(t, o)
                                                /\ orders[o] # NoOrder
                                                /\ transactions[t].amount = orders[o].price
                                                /\ gateway[t] = "verified"}

InDoubt == {o \in OrderIds : \E t \in askedEarly : HasTransaction(t, o)}

(* An order with a transaction exists, at its price, within the limits. *)
LEMMA TransactionPrice ==
  ASSUME CheckoutInv, NEW o \in OrderIds, NEW t \in TrackIds, HasTransaction(t, o)
  PROVE  /\ orders[o] \in Order
         /\ transactions[t].amount = orders[o].price
         /\ orders[o].price \in AcceptedAmounts
         /\ orders[o].price > 0
<1>1. /\ orders[o] # NoOrder
      /\ transactions[t].amount = orders[o].price
      /\ transactions[t].amount \in AcceptedAmounts
  BY DEF CheckoutInv, TransactionsHaveOrders, TransactionsWithinLimits, HasTransaction
<1>2. orders[o] \in Order
  BY <1>1 DEF CheckoutInv, ProductTypeOK
<1>3. \A amount \in AcceptedAmounts : amount > 0
  OBVIOUS
<1> QED
  BY <1>1, <1>2, <1>3

(* So an order is paid for when any payment of it is verified; and, because the   *)
(* invariant is kept, after the step too.                                         *)
Bought ==
  {o \in OrderIds : \E t \in TrackIds : HasTransaction(t, o) /\ gateway[t] = "verified"}

LEMMA PaidForMeans == CheckoutInv => PaidFor = Bought
  BY TransactionPrice DEF PaidFor, Bought, Order

LEMMA PaidForMeansNext ==
  ASSUME CheckoutInv, [Next]_checkoutVars
  PROVE  PaidFor' = Bought'
<1>1. CheckoutInv'
  BY CheckoutInvStep
<1>2. (PaidFor = Bought)'
  BY <1>1, PaidForMeans, PTL
<1> QED
  BY <1>2

(* A payment that is made, but not verified, is made for an order that is PENDING or *)
(* in doubt.                                                                         *)
LEMMA PaymentInHand ==
  ASSUME PromiseInv, NEW t \in TrackIds, gateway[t] = "paid"
  PROVE  \E o \in OrderIds : /\ HasTransaction(t, o)
                             /\ orders[o] # NoOrder
                             /\ orders[o].status = "PENDING" \/ o \in InDoubt
                             /\ orders[o].price > 0
<1> DEFINE o == transactions[t].orderId
<1>1. ChargeInv /\ CheckoutInv /\ Attempted(t)
  BY DEF PromiseInv, ChargeInv, Attempted
<1>2. HasTransaction(t, o) /\ o \in OrderIds
  BY <1>1 DEF ChargeInv, UrlInv, AttemptsHaveUrls, UrlsHaveTransactions, OnlyOrders, HasTransaction
<1>3. ASSUME NEW t2 \in TrackIds, HasTransaction(t2, o), gateway[t2] \in {"failed", "verified"}
      PROVE  FALSE
  <2>1. t2 = t
    BY <1>1, <1>3, OneAttempt DEF Attempted, HasTransaction
  <2> QED
    BY <1>3, <2>1
<1>4. orders[o] \in Order /\ orders[o].price \in AcceptedAmounts /\ orders[o].price > 0
  BY <1>1, <1>2, TransactionPrice
<1>5. orders[o].status # "COMPLETED"
  BY <1>1, <1>2, <1>3, <1>4 DEF CheckoutInv, PaidOrders, HasTransaction
<1>6. orders[o].status = "FAILURE" => o \in InDoubt
  BY <1>2, <1>3, <1>4 DEF PromiseInv, FailedOrdersExcused, FailureExcused, InDoubt
<1> QED
  BY <1>2, <1>4, <1>5, <1>6 DEF Order, Statuses

LEMMA SaleVars == Orders!saleVars = <<OutcomeOf, SalePrice, PaidFor, InDoubt>>
  BY DEF Orders!saleVars, OutcomeOf, SalePrice, PaidFor, InDoubt

(* Steps of the abstract sale, in the abstract variables. *)
LEMMA SaleSteps ==
  /\ /\ OutcomeOf' = OutcomeOf /\ SalePrice' = SalePrice
     /\ PaidFor' = PaidFor /\ InDoubt' = InDoubt
     => UNCHANGED Orders!saleVars
  /\ \A o \in OrderIds : \A amount \in Amounts : \A status \in {"PENDING", "COMPLETED"} :
       /\ OutcomeOf[o] = "ABSENT"
       /\ status = "COMPLETED" => amount = 0
       /\ OutcomeOf' = [OutcomeOf EXCEPT ![o] = status]
       /\ SalePrice' = [SalePrice EXCEPT ![o] = amount]
       /\ PaidFor' = PaidFor /\ InDoubt' = InDoubt
       => Orders!SaleNext
  /\ \A o \in OrderIds :
       /\ OutcomeOf[o] = "PENDING" \/ o \in InDoubt
       /\ SalePrice[o] > 0
       /\ PaidFor' = PaidFor \cup {o}
       /\ OutcomeOf' = OutcomeOf /\ SalePrice' = SalePrice /\ InDoubt' = InDoubt
       => Orders!SaleNext
  /\ \A o \in OrderIds : \A status \in {"FAILURE", "COMPLETED"} :
       /\ OutcomeOf[o] = "PENDING" \/ o \in InDoubt
       /\ status = "COMPLETED" => o \in PaidFor
       /\ status = "FAILURE" => o \notin PaidFor \/ o \in InDoubt
       /\ OutcomeOf' = [OutcomeOf EXCEPT ![o] = status]
       /\ SalePrice' = SalePrice /\ PaidFor' = PaidFor /\ InDoubt' = InDoubt
       => Orders!SaleNext
  /\ \A o \in OrderIds :
       /\ SalePrice[o] > 0
       /\ InDoubt' = InDoubt \cup {o}
       /\ OutcomeOf' = OutcomeOf /\ SalePrice' = SalePrice /\ PaidFor' = PaidFor
       => Orders!SaleNext
<1> USE DEF OutcomeOf, SalePrice, PaidFor, InDoubt
<1>1. /\ OutcomeOf' = OutcomeOf /\ SalePrice' = SalePrice
      /\ PaidFor' = PaidFor /\ InDoubt' = InDoubt
      => UNCHANGED Orders!saleVars
  <2> HIDE DEF OutcomeOf, SalePrice, PaidFor, InDoubt
  <2> SUFFICES ASSUME OutcomeOf' = OutcomeOf, SalePrice' = SalePrice,
                      PaidFor' = PaidFor, InDoubt' = InDoubt
               PROVE  Orders!saleVars' = Orders!saleVars
    OBVIOUS
  <2>1. (Orders!saleVars = <<OutcomeOf, SalePrice, PaidFor, InDoubt>>)'
    BY SaleVars, PTL
  <2> QED
    BY <2>1, SaleVars
<1>2. ASSUME NEW o \in OrderIds, NEW amount \in Amounts, NEW status \in {"PENDING", "COMPLETED"},
             OutcomeOf[o] = "ABSENT",
             status = "COMPLETED" => amount = 0,
             OutcomeOf' = [OutcomeOf EXCEPT ![o] = status],
             SalePrice' = [SalePrice EXCEPT ![o] = amount],
             PaidFor' = PaidFor, InDoubt' = InDoubt
      PROVE  Orders!SaleNext
  <2>1. Orders!Place(o, amount, status)
    BY <1>2 DEF Orders!Place
  <2> QED
    BY <2>1 DEF Orders!SaleNext, Orders!Outcomes
<1>3. ASSUME NEW o \in OrderIds, OutcomeOf[o] = "PENDING" \/ o \in InDoubt, SalePrice[o] > 0,
             PaidFor' = PaidFor \cup {o}, OutcomeOf' = OutcomeOf, SalePrice' = SalePrice,
             InDoubt' = InDoubt
      PROVE  Orders!SaleNext
  <2>1. Orders!Receive(o)
    BY <1>3 DEF Orders!Receive, Orders!Undecided
  <2> QED
    BY <2>1 DEF Orders!SaleNext
<1>4. ASSUME NEW o \in OrderIds, NEW status \in {"FAILURE", "COMPLETED"},
             OutcomeOf[o] = "PENDING" \/ o \in InDoubt,
             status = "COMPLETED" => o \in PaidFor,
             status = "FAILURE" => o \notin PaidFor \/ o \in InDoubt,
             OutcomeOf' = [OutcomeOf EXCEPT ![o] = status],
             SalePrice' = SalePrice, PaidFor' = PaidFor, InDoubt' = InDoubt
      PROVE  Orders!SaleNext
  <2>1. CASE status = "COMPLETED"
    <3>1. Orders!Deliver(o)
      BY <1>4, <2>1 DEF Orders!Deliver, Orders!Undecided
    <3> QED
      BY <3>1 DEF Orders!SaleNext
  <2>2. CASE status = "FAILURE"
    <3>1. Orders!Refuse(o)
      BY <1>4, <2>2 DEF Orders!Refuse
    <3> QED
      BY <3>1 DEF Orders!SaleNext
  <2> QED
    BY <2>1, <2>2
<1>5. ASSUME NEW o \in OrderIds, SalePrice[o] > 0, InDoubt' = InDoubt \cup {o},
             OutcomeOf' = OutcomeOf, SalePrice' = SalePrice, PaidFor' = PaidFor
      PROVE  Orders!SaleNext
  <2>1. Orders!Doubt(o)
    BY <1>5 DEF Orders!Doubt
  <2> QED
    BY <2>1 DEF Orders!SaleNext
<1> HIDE DEF OutcomeOf, SalePrice, PaidFor, InDoubt
<1> QED
  BY <1>1, <1>2, <1>3, <1>4, <1>5

(* A step of the database alone settles no payment and raises no doubt. *)
LEMMA PaidForStays ==
  ASSUME CheckoutInv, [Next]_checkoutVars, UNCHANGED serviceVars
  PROVE  PaidFor' = PaidFor /\ InDoubt' = InDoubt
<1>1. Bought' = Bought
  BY DEF Bought, serviceVars, gatewayVars, HasTransaction
<1>2. InDoubt' = InDoubt
  BY DEF InDoubt, serviceVars, gatewayVars, HasTransaction
<1> QED
  BY <1>1, <1>2, PaidForMeans, PaidForMeansNext

(* Writing a status to an order writes it to the sale. *)
LEMMA OutcomeWritten ==
  ASSUME ProductTypeOK, NEW o \in OrderIds, orders[o] # NoOrder, NEW status \in Statuses,
         orders' = [orders EXCEPT ![o].status = status]
  PROVE  /\ OutcomeOf' = [OutcomeOf EXCEPT ![o] = status]
         /\ SalePrice' = SalePrice
<1>1. orders[o] \in Order
  BY DEF ProductTypeOK
<1>2. /\ [orders[o] EXCEPT !.status = status] \in Order
      /\ [orders[o] EXCEPT !.status = status].status = status
      /\ [orders[o] EXCEPT !.status = status].price = orders[o].price
  BY <1>1 DEF Order
<1>3. orders' = [orders EXCEPT ![o] = [orders[o] EXCEPT !.status = status]]
  OBVIOUS
<1> QED
  BY <1>2, <1>3 DEF OutcomeOf, SalePrice, ProductTypeOK

(* A step that writes no order settles at most one payment, or puts at most one order *)
(* in doubt, which has a price.                                                       *)
LEMMA DoubtChanges ==
  ASSUME PromiseInv, [Next]_checkoutVars
  PROVE  /\ askedEarly' = askedEarly => InDoubt' = InDoubt
         /\ \/ InDoubt' = InDoubt
            \/ \E o \in OrderIds : /\ orders[o] # NoOrder
                                   /\ orders[o].price > 0
                                   /\ InDoubt' = InDoubt \cup {o}
<1>1. /\ ChargeInv /\ CheckoutInv /\ ServiceInv /\ ServiceTypeOK
      /\ askedEarly \in SUBSET TrackIds
      /\ EarlyHaveTransactions
      /\ OnlyOrders
      /\ [ServiceNext]_serviceVars
  BY ServiceStep DEF PromiseInv, ChargeInv, CheckoutInv, ServiceInv, AgreementInv, ServiceTypeOK,
                     GatewayTypeOK
<1>2. \A t \in askedEarly : \A o \in OrderIds : HasTransaction(t, o)' <=> HasTransaction(t, o)
  BY <1>1, TransactionsGrowStep DEF EarlyHaveTransactions, TransactionsGrow, HasTransaction
<1>3. askedEarly' = askedEarly => InDoubt' = InDoubt
  BY <1>2 DEF InDoubt
<1>4. ASSUME NEW t \in TrackIds, transactions[t] # NoTransaction, transactions' = transactions,
             askedEarly' = askedEarly \cup {t}
      PROVE  \E o \in OrderIds : /\ orders[o] # NoOrder
                                 /\ orders[o].price > 0
                                 /\ InDoubt' = InDoubt \cup {o}
  <2> DEFINE o == transactions[t].orderId
  <2>1. o \in OrderIds /\ HasTransaction(t, o)
    BY <1>1, <1>4 DEF OnlyOrders, HasTransaction
  <2>2. orders[o] # NoOrder /\ orders[o].price > 0
    BY <1>1, <2>1, TransactionPrice
  <2>3. \A o2 \in OrderIds : HasTransaction(t, o2)' <=> o2 = o
    BY <1>4, <2>1 DEF HasTransaction
  <2>4. InDoubt' = InDoubt \cup {o}
    BY <1>2, <1>4, <2>1, <2>3 DEF InDoubt
  <2> QED
    BY <2>1, <2>2, <2>4
<1> QED
  BY <1>1, <1>3, <1>4, AskedEarlyChanges

LEMMA SaleStep ==
  ASSUME PromiseInv, [Next]_checkoutVars
  PROVE  [Orders!SaleNext]_(Orders!saleVars)
<1>1. ChargeInv /\ CheckoutInv /\ ServiceInv /\ ProductTypeOK /\ [ServiceNext]_serviceVars
  BY ServiceStep DEF PromiseInv, ChargeInv, CheckoutInv
<1>2. CASE orders' = orders
  <2>1. OutcomeOf' = OutcomeOf /\ SalePrice' = SalePrice
    BY <1>2 DEF OutcomeOf, SalePrice
  <2>2. TransactionsGrow
    BY <1>1, TransactionsGrowStep
  <2>3. PaidFor = Bought /\ PaidFor' = Bought'
    BY <1>1, PaidForMeans, PaidForMeansNext
  <2>4. /\ Bought = {o \in OrderIds : \E t \in TrackIds : HasTransaction(t, o) /\ t \in Settled}
        /\ Bought' = {o \in OrderIds :
                        \E t \in TrackIds : HasTransaction(t, o)' /\ t \in Settled'}
    BY DEF Bought, Settled
  <2>5. ASSUME NEW t \in TrackIds, Attempted(t), NEW o \in OrderIds
        PROVE  HasTransaction(t, o)' <=> HasTransaction(t, o)
    <3>1. transactions[t] # NoTransaction
      BY <1>1, <2>5 DEF ChargeInv, UrlInv, AttemptsHaveUrls, UrlsHaveTransactions
    <3> QED
      BY <2>2, <3>1 DEF HasTransaction, TransactionsGrow
  <2>6. \A t \in Settled : t \in TrackIds /\ Attempted(t)
    BY DEF Settled, Attempted
  <2>7. CASE Settled' = Settled
    <3>1. Bought' = Bought
      BY <2>4, <2>5, <2>6, <2>7
    <3>2. CASE InDoubt' = InDoubt
      BY <2>1, <2>3, <3>1, <3>2, SaleSteps
    <3>3. ASSUME NEW o \in OrderIds, orders[o] # NoOrder, orders[o].price > 0,
                 InDoubt' = InDoubt \cup {o}
          PROVE  Orders!SaleNext
      <4>1. SalePrice[o] > 0
        BY <3>3 DEF SalePrice
      <4> QED
        BY <2>1, <2>3, <3>1, <3>3, <4>1, SaleSteps
    <3> QED
      BY <3>2, <3>3, DoubtChanges
  <2>8. ASSUME NEW t \in TrackIds, gateway[t] = "paid", Settled' = Settled \cup {t},
               askedEarly' = askedEarly
        PROVE  [Orders!SaleNext]_(Orders!saleVars)
    <3>1. PICK o \in OrderIds : /\ HasTransaction(t, o)
                                /\ orders[o] # NoOrder
                                /\ orders[o].status = "PENDING" \/ o \in InDoubt
                                /\ orders[o].price > 0
      BY <2>8, PaymentInHand
    <3>2. Attempted(t)
      BY <2>8 DEF Attempted
    <3>3. \A o2 \in OrderIds : HasTransaction(t, o2)' <=> o2 = o
      BY <2>5, <3>1, <3>2 DEF HasTransaction
    <3>4. Bought' = Bought \cup {o}
      BY <2>4, <2>5, <2>6, <2>8, <3>1, <3>3
    <3>5. (OutcomeOf[o] = "PENDING" \/ o \in InDoubt) /\ SalePrice[o] > 0
      BY <3>1 DEF OutcomeOf, SalePrice
    <3>6. InDoubt' = InDoubt
      BY <2>8, DoubtChanges
    <3> QED
      BY <2>1, <2>3, <3>4, <3>5, <3>6, SaleSteps
  <2> QED
    BY <1>1, <2>7, <2>8, SettledStep
<1>3. ASSUME NEW o \in OrderIds, CreateOrder(o)
      PROVE  Orders!SaleNext
  <2> DEFINE price == PriceOf(checkouts[o].books)
             status == IF price = 0 THEN "COMPLETED" ELSE "PENDING"
             order == [user |-> checkouts[o].user, books |-> checkouts[o].books,
                       price |-> price, status |-> status]
  <2>1. orders[o] = NoOrder /\ checkouts[o].user \in Users
    BY <1>1, <1>3 DEF CreateOrder, CheckoutInv, CheckoutsHaveOrders, CheckoutHasOrder
  <2>2. price \in Amounts /\ checkouts[o].books \in SUBSET Books
    BY <1>1 DEF ProductTypeOK, CheckoutHandler
  <2>3. order \in Order
    BY <2>1, <2>2 DEF Order, Statuses
  <2>4. orders' = [orders EXCEPT ![o] = order]
    BY <1>3 DEF CreateOrder
  <2>5. /\ OutcomeOf[o] = "ABSENT"
        /\ OutcomeOf' = [OutcomeOf EXCEPT ![o] = status]
        /\ SalePrice' = [SalePrice EXCEPT ![o] = price]
    BY <1>1, <2>1, <2>3, <2>4 DEF OutcomeOf, SalePrice, ProductTypeOK
  <2>6. PaidFor' = PaidFor /\ InDoubt' = InDoubt
    BY <1>1, <1>3, PaidForStays DEF CreateOrder
  <2>7. status \in {"PENDING", "COMPLETED"} /\ (status = "COMPLETED" => price = 0)
    OBVIOUS
  <2> HIDE DEF status, price
  <2> QED
    BY <2>2, <2>5, <2>6, <2>7, SaleSteps
<1>4. ASSUME NEW o \in OrderIds, NEW status \in {"FAILURE", "COMPLETED"},
             UNCHANGED serviceVars, orders[o] # NoOrder,
             orders' = [orders EXCEPT ![o].status = status],
             status = "COMPLETED" => o \in PaidFor,
             status = "FAILURE" => o \notin PaidFor \/ o \in InDoubt,
             orders[o].status = "FAILURE" => status = "FAILURE" \/ o \in InDoubt,
             orders[o].status = "COMPLETED" => status = "COMPLETED" \/ o \in InDoubt
      PROVE  [Orders!SaleNext]_(Orders!saleVars)
  <2>1. PaidFor' = PaidFor /\ InDoubt' = InDoubt
    BY <1>1, <1>4, PaidForStays
  <2>2. OutcomeOf' = [OutcomeOf EXCEPT ![o] = status] /\ SalePrice' = SalePrice
    BY <1>1, <1>4, OutcomeWritten DEF Statuses
  <2>3. OutcomeOf[o] = orders[o].status /\ orders[o].status \in Statuses
    BY <1>1, <1>4 DEF OutcomeOf, ProductTypeOK, Order
  <2>4. CASE orders[o].status = "PENDING" \/ o \in InDoubt
    BY <1>4, <2>1, <2>2, <2>3, <2>4, SaleSteps
  <2>5. CASE orders[o].status = status
    <3>1. OutcomeOf' = OutcomeOf
      BY <2>2, <2>3, <2>5 DEF OutcomeOf
    <3> QED
      BY <2>1, <2>2, <3>1, SaleSteps
  <2> QED
    BY <1>4, <2>3, <2>4, <2>5 DEF Statuses
<1>5. ASSUME NEW o \in OrderIds, RejectOrder(o)
      PROVE  [Orders!SaleNext]_(Orders!saleVars)
  <2>1. /\ orders[o] # NoOrder
        /\ orders[o].price \notin AcceptedAmounts
        /\ orders[o].price > 0
    BY <1>1, <1>5 DEF RejectOrder, CheckoutInv, CheckoutsHaveOrders, CheckoutHasOrder
  <2>2. \A t \in TrackIds : ~ HasTransaction(t, o)
    BY <1>1, <2>1, TransactionPrice
  <2>3. o \notin PaidFor
    BY <2>2 DEF PaidFor
  <2>4. orders[o].status # "COMPLETED"
    BY <1>1, <2>1, <2>2 DEF CheckoutInv, PaidOrders, HasTransaction
  <2> QED
    BY <1>4, <1>5, <2>1, <2>3, <2>4 DEF RejectOrder
<1>6. CASE UpdateOrder
  <2> DEFINE o == NextMessage.id
             status == NextMessage.status
  <2>0. consumer.pc # "idle" /\ UNCHANGED serviceVars
        /\ orders' = [orders EXCEPT ![o].status = status]
    BY <1>6 DEF UpdateOrder
  <2>1. o \in OrderIds
    BY <1>1, <2>0, MessageInHand
  <2>2. PICK t \in TrackIds : /\ HasTransaction(t, o)
                              /\ \/ status = "COMPLETED" /\ gateway[t] = "verified"
                                 \/ status = "FAILURE" /\ FailureExcused(t)
    BY <2>0, MessageMeans
  <2>3. orders[o] \in Order /\ orders[o].price \in AcceptedAmounts /\ orders[o].price > 0
    BY <1>1, <2>1, <2>2, TransactionPrice
  <2>4. ASSUME o \notin InDoubt, NEW t2 \in TrackIds, HasTransaction(t2, o), Attempted(t2)
        PROVE  t2 = t
    <3>1. Attempted(t)
      BY <2>1, <2>2, <2>4 DEF FailureExcused, InDoubt, Attempted
    <3> QED
      BY <1>1, <2>2, <2>4, <3>1, OneAttempt DEF HasTransaction
  <2>5. status = "COMPLETED" => o \in PaidFor
    BY <1>1, <2>1, <2>2, PaidForMeans DEF Bought
  <2>6. status = "FAILURE" => o \notin PaidFor \/ o \in InDoubt
    BY <1>1, <2>1, <2>2, <2>4, PaidForMeans DEF Bought, Attempted, FailureExcused, InDoubt
  <2>7. orders[o].status = "COMPLETED" => status = "COMPLETED" \/ o \in InDoubt
    BY <1>1, <2>1, <2>2, <2>3, <2>4
       DEF CheckoutInv, PaidOrders, HasTransaction, Attempted, FailureExcused, InDoubt
  <2>8. orders[o].status = "FAILURE" => status = "FAILURE" \/ o \in InDoubt
    BY <2>1, <2>2, <2>3, <2>4
       DEF PromiseInv, FailedOrdersExcused, Attempted, FailureExcused, InDoubt
  <2> HIDE DEF o, status
  <2> QED
    BY <1>4, <2>0, <2>1, <2>2, <2>3, <2>5, <2>6, <2>7, <2>8
<1> QED
  BY <1>2, <1>3, <1>5, <1>6
     DEF Next, ProductNext, CheckoutStep, ConsumerStep, checkoutVars, productVars, AddBook,
         RemoveBook, ReadBasket, CallTransaction, TakeReply, EmptyFreeBasket, CheckoutThrows,
         ConsumeMessage, EmptyBasket, CommitOffsets, ConsumerThrows, ProductCrash

(* The two services keep the buyer's promise: an order is decided once, COMPLETED only     *)
(* with its money and FAILURE only without it, although every message overwrites its       *)
(* order's status, is repeated and redelivered, and any handler may throw or die between   *)
(* two of its awaits; only an order about one of whose payments GET /verify was asked      *)
(* while it could still be made may change its outcome, and it too is COMPLETED only with  *)
(* its money.                                                                              *)
THEOREM OrdersKeepPromiseTheorem == Spec => OrdersKeepPromise
<1>1. Init => PromiseInv
  BY InitPromise
<1>2. PromiseInv /\ [Next]_checkoutVars => PromiseInv'
  BY PromiseStep
<1>3. Init => Orders!SaleInit
  BY DEF Init, ServiceInit, GatewayInit, HasTransaction, Orders!SaleInit
<1>4. PromiseInv /\ [Next]_checkoutVars => [Orders!SaleNext]_(Orders!saleVars)
  BY SaleStep
<1> QED
  BY <1>1, <1>2, <1>3, <1>4, PTL DEF Spec, OrdersKeepPromise, Orders!SaleSpec
=============================================================================
