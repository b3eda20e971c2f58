---------------------- MODULE TransactionServiceProofs ----------------------
(***************************************************************************)
(* What the transaction service guarantees for any number of track ids,    *)
(* orders, plan purchases, verify requests and faults.                     *)
(***************************************************************************)
EXTENDS TransactionService, SequenceTheorems, TLAPS

USE AmountsAssumption, IdsAssumption, MaxFaultsAssumption, NoTrackIdAssumption,
    NoTransactionAssumption, PayAfterFailureAssumption

(* Initially nothing has happened and every part of the invariant holds. *)
LEMMA InitInv == ServiceInit => ServiceInv
  BY DEF ServiceInit, ServiceInv, ServiceTypeOK, GatewayTypeOK, GatewayInit, PaymentStates,
         Transaction, References, Message, TransactionTypes, Replies, CreateSteps, VerifySteps,
         Call, Verification, NoCall, NoVerification, CallsHoldIssuedTracks, CallHoldsIssuedTrack, InsertionsDistinct,
         FreeTracksUnused, VerificationsFollowGateway, VerificationFollowsGateway, CompletionIsVerified, HasStatus, Statuses

(* Moving a call or a verification to another step keeps it well typed. *)
LEMMA CallMoves ==
  ASSUME NEW calls \in [References -> Call], NEW id \in References,
         NEW pc \in {"idle"} \cup CreateSteps \cup Replies, NEW t \in TrackIds \cup {NoTrackId}
  PROVE  /\ [calls EXCEPT ![id].pc = pc] \in [References -> Call]
         /\ [calls EXCEPT ![id].pc = pc, ![id].trackId = t] \in [References -> Call]
         /\ [calls[id] EXCEPT !.pc = pc] \in Call
  BY DEF Call

LEMMA VerificationMoves ==
  ASSUME NEW handlers \in [VerifyRequests -> Verification], NEW r \in VerifyRequests,
         NEW pc \in {"idle", "done"} \cup VerifySteps, NEW status \in Statuses
  PROVE  /\ [handlers EXCEPT ![r].pc = pc] \in [VerifyRequests -> Verification]
         /\ [handlers EXCEPT ![r].pc = pc, ![r].status = status]
              \in [VerifyRequests -> Verification]
         /\ [handlers[r] EXCEPT !.pc = pc] \in Verification
  BY DEF Verification

(* Every step of the service and its clients keeps the types. *)
LEMMA TypeStep ==
  ASSUME ServiceTypeOK, CallsHoldIssuedTracks, VerificationsFollowGateway, [ServiceNext]_serviceVars
  PROVE  ServiceTypeOK'
<1> USE DEF ServiceTypeOK, GatewayTypeOK, PaymentStates, gatewayVars
<1>1. ASSUME NEW t \in TrackIds, Pay(t) \/ FailPayment(t),
             UNCHANGED <<transactions, creating, verifying, topics, faults>>
      PROVE  ServiceTypeOK'
  BY <1>1 DEF Pay, FailPayment, MayBePaid
<1>2. ASSUME NEW id \in References, RequestPayment(id)
      PROVE  ServiceTypeOK'
  <2> "inserting" \in CreateSteps /\ "refused" \in Replies
    BY DEF CreateSteps, Replies
  <2>1. creating' \in [References -> Call]
    <3>1. ASSUME NEW t \in TrackIds,
                 creating' = [creating EXCEPT ![id].pc = "inserting", ![id].trackId = t]
          PROVE  creating' \in [References -> Call]
      BY <3>1, CallMoves
    <3>2. ASSUME creating' = [creating EXCEPT ![id].pc = "refused"]
          PROVE  creating' \in [References -> Call]
      BY <3>2, CallMoves
    <3> QED
      BY <1>2, <3>1, <3>2 DEF RequestPayment
  <2> QED
    BY <1>2, <2>1 DEF RequestPayment, IssuePayment
<1>3. ASSUME NEW id \in References, InsertTransaction(id)
      PROVE  ServiceTypeOK'
  <2>1. creating' \in [References -> Call]
    BY <1>3 DEF InsertTransaction, Call, CreateSteps
  <2>2. [orderId |-> id, amount |-> creating[id].amount, status |-> "PENDING"] \in Transaction
    BY DEF Transaction, Call, Statuses
  <2> QED
    BY <1>3, <2>1, <2>2 DEF InsertTransaction
<1>4. ASSUME NEW id \in References, Respond(id) \/ CreateThrows(id)
      PROVE  ServiceTypeOK'
  <2>1. ASSUME NEW pc \in Replies, creating' = [creating EXCEPT ![id].pc = pc]
        PROVE  creating' \in [References -> Call]
    BY <2>1, CallMoves
  <2>2. creating' \in [References -> Call]
    BY <1>4, <2>1 DEF Respond, CreateThrows, Replies
  <2> QED
    BY <1>4, <2>2 DEF Respond, CreateThrows
<1>5. ASSUME NEW id \in References, EndCall(id)
      PROVE  ServiceTypeOK'
  <2>1. NoCall \in Call
    BY DEF NoCall, Call
  <2>2. creating[id].pc = "created" => creating[id].trackId \in TrackIds
    BY DEF CallsHoldIssuedTracks, CallHoldsIssuedTrack
  <2> QED
    BY <1>5, <2>1, <2>2 DEF EndCall
<1>6. ASSUME NEW id \in References, NEW amount \in Amounts, CallCreateTransaction(id, amount)
      PROVE  ServiceTypeOK'
  <2>1. creating' \in [References -> Call]
    BY <1>6 DEF CallCreateTransaction, Call, CreateSteps, Replies
  <2> QED
    BY <1>6, <2>1 DEF CallCreateTransaction
<1>7. ASSUME NEW r \in VerifyRequests, NEW t \in TrackIds, FindTransaction(r, t)
      PROVE  ServiceTypeOK'
  <2>1. verifying' \in [VerifyRequests -> Verification]
    BY <1>7 DEF FindTransaction, Verification, VerifySteps, Statuses, Answered, NoVerification
  <2> QED
    BY <1>7, <2>1 DEF FindTransaction
<1>8. ASSUME NEW r \in VerifyRequests, VerifyPayment(r)
      PROVE  ServiceTypeOK'
  <2>1. verifying' \in [VerifyRequests -> Verification]
    BY <1>8, VerificationMoves DEF VerifyPayment, VerifySteps, Statuses
  <2>2. verifying[r].trackId \in TrackIds
    BY <1>8 DEF VerifyPayment, VerificationsFollowGateway, VerificationFollowsGateway, VerifySteps
  <2> QED
    BY <1>8, <2>1, <2>2 DEF VerifyPayment, AnswerVerification
<1>9. ASSUME NEW r \in VerifyRequests, UpdateTransaction(r)
      PROVE  ServiceTypeOK'
  <2>1. verifying' \in [VerifyRequests -> Verification]
    BY <1>9 DEF UpdateTransaction, Verification, VerifySteps
  <2> DEFINE t == verifying[r].trackId
             updated == [transactions[t] EXCEPT !.status = verifying[r].status]
  <2>2. IsPending(t) /\ t \in TrackIds => transactions[t] \in Transaction
    BY DEF IsPending
  <2>3. verifying[r].status \in Statuses
    BY DEF Verification
  <2>4. IsPending(t) /\ t \in TrackIds => updated \in Transaction
    BY <2>2, <2>3 DEF Transaction
  <2>5. transactions' = [transactions EXCEPT ![t] = IF IsPending(t) THEN updated ELSE transactions[t]]
    BY <1>9 DEF UpdateTransaction
  <2>6. transactions' \in [TrackIds -> Transaction \cup {NoTransaction}]
    <3> HIDE DEF t, updated
    <3> QED
      BY <2>4, <2>5
  <2> QED
    BY <1>9, <2>1, <2>6 DEF UpdateTransaction
<1>10. ASSUME NEW r \in VerifyRequests, SendEvent(r) \/ RepeatSend(r)
       PROVE  ServiceTypeOK'
  <2> DEFINE id == transactions[verifying[r].trackId].orderId
             message == [id |-> id, status |-> verifying[r].status]
  <2>1. id \in References
    BY <1>10 DEF SendEvent, RepeatSend, VerificationsFollowGateway, VerificationFollowsGateway,
                 VerifySteps, Transaction
  <2>2. message \in Message
    BY <1>10, <2>1 DEF SendEvent, RepeatSend, VerificationsFollowGateway, VerificationFollowsGateway,
                        Message
  <2>3. topics' = [topics EXCEPT ![TypeOf(id)] = Append(@, message)]
    BY <1>10 DEF SendEvent, RepeatSend, Publish
  <2>4. topics' \in [TransactionTypes -> Seq(Message)]
    BY <2>2, <2>3 DEF TypeOf, TransactionTypes
  <2>5. verifying' \in [VerifyRequests -> Verification]
    BY <1>10 DEF SendEvent, RepeatSend, Verification, Answered, NoVerification, Statuses
  <2> QED
    BY <1>10, <2>4, <2>5 DEF SendEvent, RepeatSend
<1>11. ASSUME NEW r \in VerifyRequests, VerifyThrows(r)
       PROVE  ServiceTypeOK'
  <2>1. verifying' \in [VerifyRequests -> Verification]
    BY <1>11 DEF VerifyThrows, Verification, Answered, NoVerification, Statuses
  <2> QED
    BY <1>11, <2>1 DEF VerifyThrows
<1>12. CASE ServiceCrash
  <2>1. verifying' \in [VerifyRequests -> Verification]
    BY <1>12 DEF ServiceCrash, Verification, Answered, NoVerification, Statuses
  <2>2. creating' \in [References -> Call]
    BY <1>12, CallMoves DEF ServiceCrash, Replies
  <2> QED
    BY <1>12, <2>1, <2>2 DEF ServiceCrash
<1>13. CASE UNCHANGED serviceVars
  BY <1>13 DEF serviceVars
<1> QED
  BY <1>1, <1>2, <1>3, <1>4, <1>5, <1>6, <1>7, <1>8, <1>9, <1>10, <1>11, <1>12, <1>13
     DEF ServiceNext, InternalNext, GatewayNext, CreateStep, VerifyStep

(* An element of an extended sequence was there before, or is the new one. *)
LEMMA AppendedElement ==
  ASSUME NEW S, NEW s \in Seq(S), NEW e \in S, NEW i \in DOMAIN Append(s, e)
  PROVE  \/ i \in DOMAIN s /\ Append(s, e)[i] = s[i]
         \/ Append(s, e)[i] = e
  BY AppendProperties

(* What only ever grows: issued track ids, verified payments, and documents, whose *)
(* order never changes.                                                            *)
GatewayGrows ==
  \A t \in TrackIds : /\ gateway[t] # "free" => gateway'[t] # "free"
                      /\ gateway[t] = "verified" => gateway'[t] = "verified"

TransactionsGrow ==
  \A t \in TrackIds :
    transactions[t] # NoTransaction =>
      /\ transactions'[t] # NoTransaction
      /\ transactions'[t].orderId = transactions[t].orderId
      /\ transactions'[t].amount = transactions[t].amount

LEMMA GatewayGrowsStep ==
  ASSUME ServiceTypeOK, [ServiceNext]_serviceVars
  PROVE  GatewayGrows
<1> USE DEF ServiceTypeOK, GatewayTypeOK
<1>1. ASSUME NEW t \in TrackIds, Pay(t) \/ FailPayment(t)
      PROVE  GatewayGrows
  BY <1>1 DEF Pay, FailPayment, GatewayGrows, MayBePaid
<1>2. ASSUME NEW id \in References, RequestPayment(id)
      PROVE  GatewayGrows
  BY <1>2 DEF RequestPayment, IssuePayment, GatewayGrows
<1>3. ASSUME NEW r \in VerifyRequests, VerifyPayment(r)
      PROVE  GatewayGrows
  BY <1>3 DEF VerifyPayment, AnswerVerification, GatewayGrows
<1>4. CASE UNCHANGED gateway
  BY <1>4 DEF GatewayGrows
<1> QED
  BY <1>1, <1>2, <1>3, <1>4
     DEF ServiceNext, InternalNext, GatewayNext, CreateStep, VerifyStep, serviceVars, gatewayVars,
         InsertTransaction, Respond, EndCall, CreateThrows, CallCreateTransaction,
         FindTransaction, UpdateTransaction, SendEvent, RepeatSend, VerifyThrows, ServiceCrash

LEMMA TransactionsGrowStep ==
  ASSUME ServiceInv, [ServiceNext]_serviceVars
  PROVE  TransactionsGrow
<1> USE DEF ServiceInv, ServiceTypeOK
<1>1. ASSUME NEW id \in References, InsertTransaction(id)
      PROVE  TransactionsGrow
  BY <1>1 DEF InsertTransaction, TransactionsGrow, CallsHoldIssuedTracks, CallHoldsIssuedTrack
<1>2. ASSUME NEW r \in VerifyRequests, UpdateTransaction(r)
      PROVE  TransactionsGrow
  <2>1. ASSUME NEW t \in TrackIds, transactions[t] # NoTransaction
        PROVE  /\ transactions'[t] # NoTransaction
               /\ transactions'[t].orderId = transactions[t].orderId
               /\ transactions'[t].amount = transactions[t].amount
    <3>1. transactions[t] \in Transaction
      BY <2>1
    <3>2. [transactions[t] EXCEPT !.status = verifying[r].status] \in Transaction
      BY <3>1 DEF Transaction, Verification
    <3> QED
      BY <1>2, <2>1, <3>1, <3>2 DEF UpdateTransaction, Transaction
  <2> QED
    BY <2>1 DEF TransactionsGrow
<1>3. CASE UNCHANGED transactions
  BY <1>3 DEF TransactionsGrow
<1> QED
  BY <1>1, <1>2, <1>3
     DEF ServiceNext, InternalNext, GatewayNext, CreateStep, VerifyStep, serviceVars, gatewayVars,
         RequestPayment, Respond, EndCall, CreateThrows, CallCreateTransaction,
         FindTransaction, VerifyPayment, SendEvent, RepeatSend, VerifyThrows, ServiceCrash

(* Calls keep what they hold. *)
LEMMA CallsStep ==
  ASSUME ServiceInv, [ServiceNext]_serviceVars
  PROVE  CallsHoldIssuedTracks'
<1> USE DEF ServiceInv, ServiceTypeOK, GatewayTypeOK
<1>0. GatewayGrows /\ TransactionsGrow
  BY GatewayGrowsStep, TransactionsGrowStep
<1> SUFFICES ASSUME NEW id \in References
             PROVE  CallHoldsIssuedTrack(id)'
  BY DEF CallsHoldIssuedTracks
<1> CallHoldsIssuedTrack(id)
  BY DEF CallsHoldIssuedTracks
<1>1. ASSUME creating'[id] = creating[id],
             creating[id].pc = "inserting" =>
               transactions'[creating[id].trackId] = NoTransaction
      PROVE  CallHoldsIssuedTrack(id)'
  BY <1>0, <1>1 DEF CallHoldsIssuedTrack, GatewayGrows, TransactionsGrow, HasTransaction
<1>2. ASSUME NEW id2 \in References, RequestPayment(id2)
      PROVE  CallHoldsIssuedTrack(id)'
  <2>1. CASE id2 = id
    <3>1. CASE creating' = [creating EXCEPT ![id].pc = "refused"]
      BY <2>1, <3>1 DEF CallHoldsIssuedTrack, Call
    <3>2. ASSUME NEW t \in TrackIds, IssuePayment(t), transactions' = transactions,
                 creating' = [creating EXCEPT ![id].pc = "inserting", ![id].trackId = t]
          PROVE  CallHoldsIssuedTrack(id)'
      <4>1. creating'[id].pc = "inserting" /\ creating'[id].trackId = t
        BY <3>2 DEF Call
      <4>2. gateway'[t] = "issued" /\ transactions'[t] = NoTransaction
        BY <3>2 DEF IssuePayment, FreeTracksUnused
      <4> QED
        BY <4>1, <4>2 DEF CallHoldsIssuedTrack
    <3>3. transactions' = transactions
      BY <1>2 DEF RequestPayment
    <3>4. \/ creating' = [creating EXCEPT ![id].pc = "refused"]
          \/ \E t \in TrackIds :
               /\ IssuePayment(t)
               /\ creating' = [creating EXCEPT ![id].pc = "inserting", ![id].trackId = t]
      BY <1>2, <2>1 DEF RequestPayment
    <3> QED
      BY <3>1, <3>2, <3>3, <3>4
  <2>2. CASE id2 # id
    BY <1>1, <1>2, <2>2 DEF RequestPayment, CallHoldsIssuedTrack
  <2> QED
    BY <2>1, <2>2
<1>3. ASSUME NEW id2 \in References, InsertTransaction(id2)
      PROVE  CallHoldsIssuedTrack(id)'
  <2>1. CASE id2 = id
    <3> DEFINE t == creating[id].trackId
               document == [orderId |-> id, amount |-> creating[id].amount, status |-> "PENDING"]
    <3>1. /\ t \in TrackIds
          /\ gateway'[t] # "free"
          /\ creating'[id].pc = "responding"
          /\ creating'[id].trackId = t
      BY <1>3, <2>1 DEF InsertTransaction, CallHoldsIssuedTrack, Call, gatewayVars
    <3>2. transactions'[t] = document
      BY <1>3, <2>1, <3>1 DEF InsertTransaction
    <3>3. document \in Transaction
      BY DEF Transaction, Call, Statuses
    <3> QED
      BY <3>1, <3>2, <3>3 DEF CallHoldsIssuedTrack, HasTransaction
  <2>2. CASE id2 # id
    BY <1>1, <1>3, <2>2 DEF InsertTransaction, CallHoldsIssuedTrack, InsertionsDistinct
  <2> QED
    BY <2>1, <2>2
<1>4. ASSUME NEW id2 \in References, Respond(id2)
      PROVE  CallHoldsIssuedTrack(id)'
  BY <1>1, <1>4 DEF Respond, CallHoldsIssuedTrack, HasTransaction, Call, gatewayVars
<1>5. ASSUME NEW id2 \in References,
             \/ EndCall(id2) \/ CreateThrows(id2)
             \/ \E amount \in Amounts : CallCreateTransaction(id2, amount)
      PROVE  CallHoldsIssuedTrack(id)'
  <2>1. CASE id2 = id
    BY <1>5, <2>1 DEF EndCall, CreateThrows, CallCreateTransaction, CallHoldsIssuedTrack, NoCall, Call
  <2>2. CASE id2 # id
    BY <1>1, <1>5, <2>2 DEF EndCall, CreateThrows, CallCreateTransaction, CallHoldsIssuedTrack
  <2> QED
    BY <2>1, <2>2
<1>6. ASSUME NEW r \in VerifyRequests, UpdateTransaction(r)
      PROVE  CallHoldsIssuedTrack(id)'
  BY <1>1, <1>6 DEF UpdateTransaction, IsPending, CallHoldsIssuedTrack
<1>7. CASE ServiceCrash
  BY <1>1, <1>7 DEF ServiceCrash, CallHoldsIssuedTrack, CreateSteps, Call, gatewayVars
<1>8. CASE UNCHANGED <<transactions, creating>>
  BY <1>1, <1>8 DEF CallHoldsIssuedTrack
<1> QED
  BY <1>2, <1>3, <1>4, <1>5, <1>6, <1>7, <1>8
     DEF ServiceNext, InternalNext, GatewayNext, CreateStep, VerifyStep, serviceVars,
         FindTransaction, VerifyPayment, SendEvent, RepeatSend, VerifyThrows

(* A new call takes a free track id, so insertions stay distinct. *)
LEMMA InsertionsStep ==
  ASSUME ServiceInv, [ServiceNext]_serviceVars
  PROVE  InsertionsDistinct'
<1> USE DEF ServiceInv, ServiceTypeOK, GatewayTypeOK
<1>1. ASSUME NEW id \in References, RequestPayment(id)
      PROVE  InsertionsDistinct'
  <2>1. CASE creating' = [creating EXCEPT ![id].pc = "refused"]
    BY <2>1 DEF InsertionsDistinct, Call
  <2>2. ASSUME NEW t \in TrackIds, gateway[t] = "free",
               creating' = [creating EXCEPT ![id].pc = "inserting", ![id].trackId = t]
        PROVE  InsertionsDistinct'
    <3>1. creating'[id].trackId = t
      BY <2>2 DEF Call
    <3>2. ASSUME NEW id2 \in References \ {id}, creating'[id2].pc = "inserting"
          PROVE  creating'[id2] = creating[id2] /\ creating'[id2].trackId # t
      BY <2>2, <3>2 DEF CallsHoldIssuedTracks, CallHoldsIssuedTrack
    <3> QED
      BY <3>1, <3>2 DEF InsertionsDistinct
  <2> QED
    BY <1>1, <2>1, <2>2 DEF RequestPayment, IssuePayment
<1>2. ASSUME \A id \in References :
               creating'[id].pc = "inserting" => creating'[id] = creating[id]
      PROVE  InsertionsDistinct'
  BY <1>2 DEF InsertionsDistinct
<1>3. ASSUME NEW id \in References,
             \/ InsertTransaction(id) \/ Respond(id) \/ EndCall(id) \/ CreateThrows(id)
             \/ \E amount \in Amounts : CallCreateTransaction(id, amount)
      PROVE  InsertionsDistinct'
  BY <1>2, <1>3 DEF InsertTransaction, Respond, EndCall, CreateThrows, CallCreateTransaction,
                    NoCall, Call
<1>4. CASE ServiceCrash
  BY <1>2, <1>4 DEF ServiceCrash, Call
<1>5. CASE UNCHANGED creating
  BY <1>2, <1>5
<1> QED
  BY <1>1, <1>3, <1>4, <1>5
     DEF ServiceNext, InternalNext, GatewayNext, CreateStep, VerifyStep, serviceVars,
         FindTransaction, VerifyPayment, UpdateTransaction, SendEvent, RepeatSend, VerifyThrows

(* A document is inserted only under an issued track id. *)
LEMMA FreeTracksStep ==
  ASSUME ServiceInv, [ServiceNext]_serviceVars
  PROVE  FreeTracksUnused'
<1> USE DEF ServiceInv, ServiceTypeOK, GatewayTypeOK
<1>0. GatewayGrows
  BY GatewayGrowsStep
<1>1. ASSUME NEW id \in References, InsertTransaction(id)
      PROVE  FreeTracksUnused'
  BY <1>1 DEF InsertTransaction, FreeTracksUnused, CallsHoldIssuedTracks, CallHoldsIssuedTrack,
              gatewayVars
<1>2. ASSUME NEW r \in VerifyRequests, UpdateTransaction(r)
      PROVE  FreeTracksUnused'
  BY <1>2 DEF UpdateTransaction, IsPending, FreeTracksUnused, gatewayVars
<1>3. CASE UNCHANGED transactions
  BY <1>0, <1>3 DEF FreeTracksUnused, GatewayGrows
<1> QED
  BY <1>1, <1>2, <1>3
     DEF ServiceNext, InternalNext, GatewayNext, CreateStep, VerifyStep, serviceVars,
         RequestPayment, Respond, EndCall, CreateThrows, CallCreateTransaction,
         FindTransaction, VerifyPayment, SendEvent, RepeatSend, VerifyThrows, ServiceCrash

(* A handler keeps its transaction, and takes COMPLETED only from a settled payment. *)
LEMMA VerificationsStep ==
  ASSUME ServiceInv, [ServiceNext]_serviceVars
  PROVE  VerificationsFollowGateway'
<1> USE DEF ServiceInv, ServiceTypeOK, GatewayTypeOK
<1>0. GatewayGrows /\ TransactionsGrow
  BY GatewayGrowsStep, TransactionsGrowStep
<1> SUFFICES ASSUME NEW r \in VerifyRequests
             PROVE  VerificationFollowsGateway(r)'
  BY DEF VerificationsFollowGateway
<1> VerificationFollowsGateway(r)
  BY DEF VerificationsFollowGateway
<1>1. ASSUME verifying'[r] = verifying[r]
      PROVE  VerificationFollowsGateway(r)'
  BY <1>0, <1>1 DEF VerificationFollowsGateway, GatewayGrows, TransactionsGrow, VerifySteps
<1>2. ASSUME verifying'[r].pc \notin VerifySteps
      PROVE  VerificationFollowsGateway(r)'
  BY <1>2 DEF VerificationFollowsGateway, VerifySteps
<1>3. ASSUME NEW t \in TrackIds, FindTransaction(r, t)
      PROVE  VerificationFollowsGateway(r)'
  BY <1>3 DEF FindTransaction, IsPending, VerificationFollowsGateway, VerifySteps, Verification,
              Answered, NoVerification
<1>4. CASE VerifyPayment(r)
  <2>1. /\ verifying'[r].pc = "updating"
        /\ verifying'[r].trackId = verifying[r].trackId
        /\ verifying'[r].status = IF gateway[verifying[r].trackId] \in Payable
                                  THEN "COMPLETED" ELSE "FAILURE"
    BY <1>4 DEF VerifyPayment, Verification
  <2>2. verifying[r].trackId \in TrackIds
    BY <1>4 DEF VerifyPayment, VerificationFollowsGateway, VerifySteps
  <2>3. gateway[verifying[r].trackId] \in Payable => gateway'[verifying[r].trackId] = "verified"
    BY <1>4, <2>2 DEF VerifyPayment, AnswerVerification, Payable
  <2>4. transactions'[verifying[r].trackId] # NoTransaction
    BY <1>4 DEF VerifyPayment, VerificationFollowsGateway, VerifySteps
  <2> QED
    BY <2>1, <2>2, <2>3, <2>4 DEF VerificationFollowsGateway
<1>5. CASE UpdateTransaction(r)
  <2>1. /\ verifying'[r].pc = "sending"
        /\ verifying'[r].trackId = verifying[r].trackId
        /\ verifying'[r].status = verifying[r].status
    BY <1>5 DEF UpdateTransaction, Verification
  <2> QED
    BY <1>0, <1>5, <2>1 DEF UpdateTransaction, VerificationFollowsGateway, VerifySteps,
                            GatewayGrows, TransactionsGrow
<1>6. CASE SendEvent(r) \/ VerifyThrows(r)
  BY <1>2, <1>6 DEF SendEvent, VerifyThrows, Verification, VerifySteps, Answered,
                    NoVerification
<1>7. ASSUME NEW r2 \in VerifyRequests, r2 # r,
             \/ \E t \in TrackIds : FindTransaction(r2, t)
             \/ VerifyStep(r2) \/ RepeatSend(r2) \/ VerifyThrows(r2)
      PROVE  VerificationFollowsGateway(r)'
  BY <1>1, <1>7 DEF FindTransaction, VerifyStep, VerifyPayment, UpdateTransaction, SendEvent,
                    RepeatSend, VerifyThrows
<1>8. CASE ServiceCrash
  BY <1>1, <1>2, <1>8 DEF ServiceCrash, VerifySteps, Verification, Answered, NoVerification
<1>9. CASE UNCHANGED verifying
  BY <1>1, <1>9
<1> QED
  BY <1>3, <1>4, <1>5, <1>6, <1>7, <1>8, <1>9
     DEF ServiceNext, InternalNext, GatewayNext, CreateStep, VerifyStep, serviceVars,
         RequestPayment, InsertTransaction, Respond, EndCall, CreateThrows, CallCreateTransaction,
         RepeatSend

(* A status or an event says COMPLETED only after the gateway settled the payment. *)
LEMMA CompletionStep ==
  ASSUME ServiceInv, [ServiceNext]_serviceVars
  PROVE  CompletionIsVerified'
<1> USE DEF ServiceInv, ServiceTypeOK, GatewayTypeOK
<1>0. GatewayGrows /\ TransactionsGrow
  BY GatewayGrowsStep, TransactionsGrowStep
<1>1. ASSUME NEW t \in TrackIds, HasStatus(t, "COMPLETED")'
      PROVE  gateway'[t] = "verified"
  <2>1. CASE HasStatus(t, "COMPLETED")
    BY <1>0, <2>1 DEF CompletionIsVerified, GatewayGrows
  <2>2. ASSUME NEW id \in References, InsertTransaction(id)
        PROVE  gateway'[t] = "verified"
    BY <1>1, <2>1, <2>2 DEF InsertTransaction, HasStatus
  <2>3. ASSUME NEW r \in VerifyRequests, UpdateTransaction(r)
        PROVE  gateway'[t] = "verified"
    BY <1>0, <1>1, <2>1, <2>3 DEF UpdateTransaction, HasStatus, IsPending, GatewayGrows,
       VerificationsFollowGateway, VerificationFollowsGateway, Transaction
  <2>4. CASE UNCHANGED transactions
    BY <1>1, <2>1, <2>4 DEF HasStatus
  <2> QED
    BY <2>2, <2>3, <2>4
       DEF ServiceNext, InternalNext, GatewayNext, CreateStep, VerifyStep, serviceVars,
           RequestPayment, Respond, EndCall, CreateThrows, CallCreateTransaction,
           FindTransaction, VerifyPayment, SendEvent, RepeatSend, VerifyThrows, ServiceCrash
<1>2. ASSUME NEW type \in TransactionTypes, NEW i \in DOMAIN topics'[type],
             topics'[type][i].status = "COMPLETED"
      PROVE  \E t \in TrackIds : /\ transactions'[t] # NoTransaction
                                 /\ transactions'[t].orderId = topics'[type][i].id
                                 /\ gateway'[t] = "verified"
  <2>1. ASSUME i \in DOMAIN topics[type], topics'[type][i] = topics[type][i]
        PROVE  \E t \in TrackIds : /\ transactions'[t] # NoTransaction
                                   /\ transactions'[t].orderId = topics'[type][i].id
                                   /\ gateway'[t] = "verified"
    BY <1>0, <1>2, <2>1 DEF CompletionIsVerified, GatewayGrows, TransactionsGrow
  <2>2. ASSUME NEW r \in VerifyRequests, SendEvent(r) \/ RepeatSend(r)
        PROVE  \E t \in TrackIds : /\ transactions'[t] # NoTransaction
                                   /\ transactions'[t].orderId = topics'[type][i].id
                                   /\ gateway'[t] = "verified"
    <3> DEFINE t == verifying[r].trackId
               message == [id |-> transactions[t].orderId, status |-> verifying[r].status]
    <3>1. topics' = [topics EXCEPT ![TypeOf(transactions[t].orderId)] = Append(@, message)]
      BY <2>2 DEF SendEvent, RepeatSend, Publish
    <3>2. /\ t \in TrackIds
          /\ transactions[t] # NoTransaction
          /\ verifying[r].status = "COMPLETED" => gateway[t] = "verified"
      BY <2>2 DEF SendEvent, RepeatSend, VerificationsFollowGateway, VerificationFollowsGateway,
                  VerifySteps
    <3>3. \/ i \in DOMAIN topics[type] /\ topics'[type][i] = topics[type][i]
          \/ topics'[type][i] = message
      <4>1. topics[type] \in Seq(Message)
        OBVIOUS
      <4>2. \/ topics'[type] = topics[type]
            \/ topics'[type] = Append(topics[type], message)
        BY <3>1 DEF TypeOf, TransactionTypes
      <4>3. message \in Message
        BY <3>2, <2>2 DEF SendEvent, RepeatSend, VerificationsFollowGateway,
                          VerificationFollowsGateway, Message, Transaction
      <4>4. CASE topics'[type] = topics[type]
        BY <4>4
      <4>5. CASE topics'[type] = Append(topics[type], message)
        <5> HIDE DEF message, t
        <5>1. i \in DOMAIN Append(topics[type], message)
          BY <4>5
        <5>2. \/ i \in DOMAIN topics[type] /\ Append(topics[type], message)[i] = topics[type][i]
              \/ Append(topics[type], message)[i] = message
          BY <4>1, <4>3, <5>1, AppendedElement
        <5> QED
          BY <4>5, <5>2
      <4> QED
        BY <4>2, <4>4, <4>5
    <3> QED
      BY <1>0, <1>2, <2>1, <3>2, <3>3 DEF GatewayGrows, TransactionsGrow
  <2>3. CASE UNCHANGED topics
    BY <2>1, <2>3
  <2> QED
    BY <2>2, <2>3
       DEF ServiceNext, InternalNext, GatewayNext, CreateStep, VerifyStep, serviceVars,
           RequestPayment, InsertTransaction, Respond, EndCall, CreateThrows,
           CallCreateTransaction, FindTransaction, VerifyPayment, UpdateTransaction, VerifyThrows,
           ServiceCrash
<1> QED
  BY <1>1, <1>2 DEF CompletionIsVerified

LEMMA InvStep == ServiceInv /\ [ServiceNext]_serviceVars => ServiceInv'
  BY TypeStep, CallsStep, InsertionsStep, FreeTracksStep, VerificationsStep, CompletionStep
     DEF ServiceInv

(* The inductive invariant holds in every state of the service. *)
THEOREM ServiceInvariant == ServiceSpec => []ServiceInv
  BY InitInv, InvStep, PTL DEF ServiceSpec

(* The state of the service is always well typed. *)
THEOREM ServiceTypes == ServiceSpec => []ServiceTypeOK
<1>1. ServiceInv => ServiceTypeOK
  BY DEF ServiceInv
<1> QED
  BY <1>1, ServiceInvariant, PTL

(* No status and no event says COMPLETED before the gateway verified the payment, *)
(* for any number of concurrent verify requests, exceptions and crashes.          *)
THEOREM CompletionTheorem == ServiceSpec => []CompletionIsVerified
<1>1. ServiceInv => CompletionIsVerified
  BY DEF ServiceInv
<1> QED
  BY <1>1, ServiceInvariant, PTL
-----------------------------------------------------------------------------
(* The refinement.  The abstract variables are named to keep them opaque. *)
StatusOf == [t \in TrackIds |-> IF transactions[t] = NoTransaction
                                THEN "ABSENT" ELSE transactions[t].status]

Settled == {t \in TrackIds : gateway[t] = "verified"}

LEMMA DecisionStep ==
  ASSUME ServiceInv, [ServiceNext]_serviceVars
  PROVE  [Decision!DecisionNext]_(Decision!decisionVars)
<1> USE DEF ServiceInv, ServiceTypeOK, GatewayTypeOK
<1>1. CASE StatusOf' = StatusOf /\ Settled' = Settled
  BY <1>1 DEF Decision!decisionVars, StatusOf, Settled
<1>2. ASSUME NEW t \in TrackIds, StatusOf[t] = "ABSENT", Settled' = Settled,
             StatusOf' = [StatusOf EXCEPT ![t] = "PENDING"]
      PROVE  Decision!DecisionNext
  BY <1>2 DEF Decision!DecisionNext, Decision!Open, StatusOf, Settled
<1>3. ASSUME NEW t \in TrackIds, StatusOf[t] # "ABSENT", StatusOf' = StatusOf,
             Settled' = Settled \cup {t}
      PROVE  Decision!DecisionNext
  BY <1>3 DEF Decision!DecisionNext, Decision!Settle, StatusOf, Settled
<1>4. ASSUME NEW t \in TrackIds, StatusOf[t] = "PENDING", Settled' = Settled,
             NEW status \in {"FAILURE", "COMPLETED"},
             status = "COMPLETED" => t \in Settled,
             StatusOf' = [StatusOf EXCEPT ![t] = status]
      PROVE  Decision!DecisionNext
  BY <1>4 DEF Decision!DecisionNext, Decision!Complete, Decision!Fail, StatusOf, Settled
<1>5. ASSUME NEW t \in TrackIds, Pay(t) \/ FailPayment(t), UNCHANGED transactions
      PROVE  StatusOf' = StatusOf /\ Settled' = Settled
  BY <1>5 DEF Pay, FailPayment, StatusOf, Settled, MayBePaid
<1>6. ASSUME NEW id \in References, RequestPayment(id)
      PROVE  StatusOf' = StatusOf /\ Settled' = Settled
  BY <1>6 DEF RequestPayment, IssuePayment, StatusOf, Settled
<1>7. ASSUME NEW id \in References, InsertTransaction(id)
      PROVE  Decision!DecisionNext
  <2> DEFINE t == creating[id].trackId
             document == [orderId |-> id, amount |-> creating[id].amount, status |-> "PENDING"]
  <2>1. t \in TrackIds /\ transactions[t] = NoTransaction
    BY <1>7 DEF InsertTransaction, CallsHoldIssuedTracks, CallHoldsIssuedTrack
  <2>2. document \in Transaction
    BY DEF Transaction, Call, Statuses
  <2>3. transactions' = [transactions EXCEPT ![t] = document] /\ gateway' = gateway
    BY <1>7 DEF InsertTransaction, gatewayVars
  <2>4. StatusOf' = [StatusOf EXCEPT ![t] = "PENDING"]
    BY <2>1, <2>2, <2>3 DEF StatusOf
  <2> QED
    BY <1>2, <2>1, <2>3, <2>4 DEF StatusOf, Settled
<1>8. ASSUME NEW r \in VerifyRequests, VerifyPayment(r)
      PROVE  [Decision!DecisionNext]_(Decision!decisionVars)
  <2> DEFINE t == verifying[r].trackId
  <2>1. t \in TrackIds /\ transactions[t] # NoTransaction
    BY <1>8 DEF VerifyPayment, VerificationsFollowGateway, VerificationFollowsGateway, VerifySteps
  <2>2. StatusOf' = StatusOf
    BY <1>8 DEF VerifyPayment, StatusOf
  <2>3. StatusOf[t] # "ABSENT"
    BY <2>1 DEF StatusOf, Transaction, Statuses
  <2>4. Settled' = Settled \/ Settled' = Settled \cup {t}
    BY <1>8, <2>1 DEF VerifyPayment, AnswerVerification, Settled
  <2> QED
    BY <1>1, <1>3, <2>1, <2>2, <2>3, <2>4
<1>9. ASSUME NEW r \in VerifyRequests, UpdateTransaction(r)
      PROVE  [Decision!DecisionNext]_(Decision!decisionVars)
  <2> DEFINE t == verifying[r].trackId
             status == verifying[r].status
  <2>1. /\ t \in TrackIds
        /\ status \in {"FAILURE", "COMPLETED"}
        /\ status = "COMPLETED" => t \in Settled
    BY <1>9 DEF UpdateTransaction, VerificationsFollowGateway, VerificationFollowsGateway,
                VerifySteps, Settled
  <2>2. Settled' = Settled
    BY <1>9 DEF UpdateTransaction, gatewayVars, Settled
  <2>3. CASE IsPending(t)
    <3>1. transactions[t] \in Transaction
      BY <2>1, <2>3 DEF IsPending
    <3>2. /\ [transactions[t] EXCEPT !.status = status] \in Transaction
          /\ [transactions[t] EXCEPT !.status = status].status = status
      BY <3>1, <2>1 DEF Transaction, Statuses
    <3>3. transactions' = [transactions EXCEPT ![t] = [@ EXCEPT !.status = status]]
      BY <1>9, <2>1, <2>3 DEF UpdateTransaction
    <3>4. StatusOf' = [StatusOf EXCEPT ![t] = status]
      BY <2>1, <3>2, <3>3 DEF StatusOf
    <3> QED
      BY <1>4, <2>1, <2>2, <2>3, <3>4 DEF StatusOf, IsPending
  <2>4. CASE ~ IsPending(t)
    <3>1. transactions' = transactions
      BY <1>9, <2>1, <2>4 DEF UpdateTransaction
    <3> QED
      BY <1>1, <2>2, <3>1 DEF StatusOf
  <2> QED
    BY <2>3, <2>4
<1>10. CASE UNCHANGED <<gateway, transactions>>
  BY <1>1, <1>10 DEF StatusOf, Settled
<1> QED
  BY <1>1, <1>5, <1>6, <1>7, <1>8, <1>9, <1>10
     DEF ServiceNext, InternalNext, GatewayNext, CreateStep, VerifyStep, serviceVars, gatewayVars,
         Respond, EndCall, CreateThrows, CallCreateTransaction, FindTransaction, SendEvent,
         RepeatSend, VerifyThrows, ServiceCrash

(* Steps of the service settle at most one payment, which was made before. *)
LEMMA SettledStep ==
  ASSUME ServiceInv, [ServiceNext]_serviceVars
  PROVE  \/ Settled' = Settled
         \/ \E t \in TrackIds : /\ gateway[t] = "paid"
                                /\ Settled' = Settled \cup {t}
                                /\ askedEarly' = askedEarly
<1> USE DEF ServiceInv, ServiceTypeOK, GatewayTypeOK
<1>1. ASSUME NEW t \in TrackIds, Pay(t) \/ FailPayment(t)
      PROVE  Settled' = Settled
  BY <1>1 DEF Pay, FailPayment, Settled, MayBePaid
<1>2. ASSUME NEW id \in References, RequestPayment(id)
      PROVE  Settled' = Settled
  BY <1>2 DEF RequestPayment, IssuePayment, Settled
<1>3. ASSUME NEW r \in VerifyRequests, VerifyPayment(r)
      PROVE  \/ Settled' = Settled
             \/ \E t \in TrackIds : /\ gateway[t] = "paid"
                                    /\ Settled' = Settled \cup {t}
                                    /\ askedEarly' = askedEarly
  <2> DEFINE t == verifying[r].trackId
  <2>1. t \in TrackIds
    BY <1>3 DEF VerifyPayment, VerificationsFollowGateway, VerificationFollowsGateway, VerifySteps
  <2>2. /\ gateway' = [gateway EXCEPT ![t] = IF @ = "paid" THEN "verified" ELSE @]
        /\ gateway[t] = "paid" => askedEarly' = askedEarly
    BY <1>3 DEF VerifyPayment, AnswerVerification, MayBePaid
  <2>3. CASE gateway[t] = "paid"
    BY <2>1, <2>2, <2>3 DEF Settled
  <2>4. CASE gateway[t] # "paid"
    BY <2>1, <2>2, <2>4 DEF Settled
  <2> QED
    BY <2>3, <2>4
<1>4. CASE UNCHANGED gateway
  BY <1>4 DEF Settled
<1> QED
  BY <1>1, <1>2, <1>3, <1>4
     DEF ServiceNext, InternalNext, GatewayNext, CreateStep, VerifyStep, serviceVars, gatewayVars,
         InsertTransaction, Respond, EndCall, CreateThrows, CallCreateTransaction,
         FindTransaction, UpdateTransaction, SendEvent, RepeatSend, VerifyThrows, ServiceCrash

(* A document appears only for a call that was inserting it. *)
LEMMA NewTransaction ==
  ASSUME ServiceInv, [ServiceNext]_serviceVars, NEW t \in TrackIds,
         transactions[t] = NoTransaction, transactions'[t] # NoTransaction
  PROVE  /\ transactions'[t].orderId \in References
         /\ creating[transactions'[t].orderId].pc = "inserting"
         /\ transactions'[t].amount = creating[transactions'[t].orderId].amount
<1> USE DEF ServiceInv, ServiceTypeOK
<1>1. ASSUME NEW id \in References, InsertTransaction(id)
      PROVE  /\ transactions'[t].orderId \in References
             /\ creating[transactions'[t].orderId].pc = "inserting"
             /\ transactions'[t].amount = creating[transactions'[t].orderId].amount
  BY <1>1 DEF InsertTransaction
<1>2. ASSUME NEW r \in VerifyRequests, UpdateTransaction(r)
      PROVE  FALSE
  BY <1>2 DEF UpdateTransaction, IsPending
<1> QED
  BY <1>1, <1>2
     DEF ServiceNext, InternalNext, GatewayNext, CreateStep, VerifyStep, serviceVars,
         RequestPayment, Respond, EndCall, CreateThrows, CallCreateTransaction,
         FindTransaction, VerifyPayment, SendEvent, RepeatSend, VerifyThrows, ServiceCrash

(* The service implements the abstract decision: whatever handlers interleave, throw *)
(* or die, a transaction is decided once, and COMPLETED only with settled money.      *)
THEOREM DecisionTheorem == ServiceSpec => DecidedOnce
<1>1. ServiceInit => Decision!DecisionInit
  BY DEF ServiceInit, GatewayInit, Decision!DecisionInit
<1>2. ServiceInv /\ [ServiceNext]_serviceVars
        => [Decision!DecisionNext]_(Decision!decisionVars)
  BY DecisionStep
<1> QED
  BY <1>1, <1>2, ServiceInvariant, PTL DEF ServiceSpec, DecidedOnce, Decision!DecisionSpec
-----------------------------------------------------------------------------
(* Payment urls and the gateway's limits.  A buyer reaches the gateway only with a *)
(* url that createTransaction returned, hence with a document; and every document  *)
(* asks for an amount that the gateway accepted.                                   *)
UrlsHaveTransactions == \A t \in paymentUrls : transactions[t] # NoTransaction

Attempted(t) == gateway[t] \in {"failed", "paid", "verified"}

AttemptsHaveUrls == \A t \in TrackIds : Attempted(t) => t \in paymentUrls

CallWithinLimits(id) ==
  /\ creating[id].pc \in {"inserting", "responding", "created"} =>
       creating[id].amount \in AcceptedAmounts
  /\ creating[id].pc = "refused" => creating[id].amount \notin AcceptedAmounts

LimitsKept ==
  /\ \A id \in References : CallWithinLimits(id)
  /\ \A t \in TrackIds :
       transactions[t] # NoTransaction => transactions[t].amount \in AcceptedAmounts

UrlInv == UrlsHaveTransactions /\ AttemptsHaveUrls /\ LimitsKept

LEMMA InitUrls == ServiceInit => UrlInv
  BY DEF ServiceInit, GatewayInit, NoCall, UrlInv, UrlsHaveTransactions, AttemptsHaveUrls,
         Attempted, LimitsKept, CallWithinLimits

(* A url is new only in the reply "created" of a call, whose document it belongs to. *)
LEMMA NewUrl ==
  ASSUME ServiceInv, [ServiceNext]_serviceVars
  PROVE  \/ paymentUrls' = paymentUrls
         \/ \E id \in References : /\ EndCall(id)
                                   /\ creating[id].pc = "created"
                                   /\ creating[id].trackId \in TrackIds
                                   /\ HasTransaction(creating[id].trackId, id)
                                   /\ paymentUrls' = paymentUrls \cup {creating[id].trackId}
<1>1. ASSUME NEW id \in References, EndCall(id)
      PROVE  \/ paymentUrls' = paymentUrls
             \/ /\ creating[id].pc = "created"
                /\ creating[id].trackId \in TrackIds
                /\ HasTransaction(creating[id].trackId, id)
                /\ paymentUrls' = paymentUrls \cup {creating[id].trackId}
  BY <1>1 DEF EndCall, ServiceInv, CallsHoldIssuedTracks, CallHoldsIssuedTrack
<1> QED
  BY <1>1
     DEF ServiceNext, InternalNext, GatewayNext, CreateStep, VerifyStep, serviceVars, gatewayVars,
         Pay, FailPayment, RequestPayment, InsertTransaction, Respond, CreateThrows,
         CallCreateTransaction, FindTransaction, VerifyPayment, UpdateTransaction, SendEvent,
         RepeatSend, VerifyThrows, ServiceCrash

LEMMA UrlsHaveTransactionsStep ==
  ASSUME ServiceInv, UrlInv, [ServiceNext]_serviceVars
  PROVE  UrlsHaveTransactions'
<1>1. TransactionsGrow /\ paymentUrls \in SUBSET TrackIds
  BY TransactionsGrowStep DEF ServiceInv, ServiceTypeOK, GatewayTypeOK
<1>2. CASE paymentUrls' = paymentUrls
  BY <1>1, <1>2 DEF UrlInv, UrlsHaveTransactions, TransactionsGrow
<1>3. ASSUME NEW t \in TrackIds, transactions[t] # NoTransaction,
             paymentUrls' = paymentUrls \cup {t}
      PROVE  UrlsHaveTransactions'
  BY <1>1, <1>3 DEF UrlInv, UrlsHaveTransactions, TransactionsGrow
<1> QED
  BY <1>2, <1>3, NewUrl DEF HasTransaction

LEMMA AttemptsHaveUrlsStep ==
  ASSUME ServiceInv, UrlInv, [ServiceNext]_serviceVars
  PROVE  AttemptsHaveUrls'
<1> USE DEF ServiceInv, ServiceTypeOK, GatewayTypeOK
<1>1. paymentUrls \subseteq paymentUrls'
  BY NewUrl
<1> SUFFICES ASSUME NEW t \in TrackIds, Attempted(t)'
             PROVE  t \in paymentUrls'
  BY DEF AttemptsHaveUrls
<1>2. CASE Attempted(t)
  BY <1>1, <1>2 DEF UrlInv, AttemptsHaveUrls
<1>3. ASSUME NEW t2 \in TrackIds, Pay(t2) \/ FailPayment(t2)
      PROVE  t \in paymentUrls'
  BY <1>2, <1>3 DEF Pay, FailPayment, Attempted
<1>4. ASSUME NEW id \in References, RequestPayment(id)
      PROVE  t \in paymentUrls'
  BY <1>2, <1>4 DEF RequestPayment, IssuePayment, Attempted
<1>5. ASSUME NEW r \in VerifyRequests, VerifyPayment(r)
      PROVE  t \in paymentUrls'
  BY <1>2, <1>5 DEF VerifyPayment, AnswerVerification, Attempted
<1>6. CASE UNCHANGED gateway
  BY <1>2, <1>6 DEF Attempted
<1> QED
  BY <1>3, <1>4, <1>5, <1>6
     DEF ServiceNext, InternalNext, GatewayNext, CreateStep, VerifyStep, serviceVars, gatewayVars,
         InsertTransaction, Respond, EndCall, CreateThrows, CallCreateTransaction,
         FindTransaction, UpdateTransaction, SendEvent, RepeatSend, VerifyThrows, ServiceCrash

LEMMA LimitsKeptStep ==
  ASSUME ServiceInv, UrlInv, [ServiceNext]_serviceVars
  PROVE  LimitsKept'
<1> USE DEF ServiceInv, ServiceTypeOK
<1>1. ASSUME NEW id \in References
      PROVE  CallWithinLimits(id)'
  <2> CallWithinLimits(id) /\ creating[id] \in Call
    BY DEF UrlInv, LimitsKept
  <2>1. CASE creating'[id] = creating[id]
    BY <2>1 DEF CallWithinLimits
  <2>2. CASE RequestPayment(id)
    <3>1. \/ /\ creating[id].amount \in AcceptedAmounts
             /\ \E t \in TrackIds :
                  creating' = [creating EXCEPT ![id].pc = "inserting", ![id].trackId = t]
          \/ /\ creating[id].amount \notin AcceptedAmounts
             /\ creating' = [creating EXCEPT ![id].pc = "refused"]
      BY <2>2 DEF RequestPayment
    <3> QED
      BY <3>1 DEF CallWithinLimits, Call
  <2>3. CASE InsertTransaction(id) \/ Respond(id)
    BY <2>3 DEF InsertTransaction, Respond, CallWithinLimits, Call
  <2>4. CASE \/ EndCall(id) \/ CreateThrows(id)
             \/ \E amount \in Amounts : CallCreateTransaction(id, amount)
    BY <2>4 DEF EndCall, CreateThrows, CallCreateTransaction, CallWithinLimits, NoCall, Call
  <2>5. CASE ServiceCrash
    BY <2>1, <2>5 DEF ServiceCrash, CallWithinLimits, Call
  <2>6. ASSUME NEW id2 \in References, id2 # id,
               \/ CreateStep(id2) \/ CreateThrows(id2) \/ EndCall(id2)
               \/ \E amount \in Amounts : CallCreateTransaction(id2, amount)
        PROVE  CallWithinLimits(id)'
    BY <2>1, <2>6 DEF CreateStep, RequestPayment, InsertTransaction, Respond, EndCall, CreateThrows,
                      CallCreateTransaction
  <2>7. CASE UNCHANGED creating
    BY <2>1, <2>7
  <2> QED
    BY <2>2, <2>3, <2>4, <2>5, <2>6, <2>7
       DEF ServiceNext, InternalNext, GatewayNext, CreateStep, VerifyStep, serviceVars,
           FindTransaction, VerifyPayment, UpdateTransaction, SendEvent, RepeatSend, VerifyThrows
<1>2. ASSUME NEW t \in TrackIds, transactions'[t] # NoTransaction
      PROVE  transactions'[t].amount \in AcceptedAmounts
  <2>1. CASE transactions[t] # NoTransaction
    BY <2>1, TransactionsGrowStep DEF UrlInv, LimitsKept, TransactionsGrow
  <2>2. CASE transactions[t] = NoTransaction
    BY <1>2, <2>2, NewTransaction DEF UrlInv, LimitsKept, CallWithinLimits
  <2> QED
    BY <2>1, <2>2
<1> QED
  BY <1>1, <1>2 DEF LimitsKept

(* UrlInv is kept by every step of the service and its clients. *)
LEMMA UrlStep ==
  ASSUME ServiceInv, UrlInv, [ServiceNext]_serviceVars
  PROVE  UrlInv'
  BY UrlsHaveTransactionsStep, AttemptsHaveUrlsStep, LimitsKeptStep DEF UrlInv
-----------------------------------------------------------------------------
(* The agreement of the service with the gateway.  A failure is only recorded, or   *)
(* held by a handler, for a payment that failed for good or was asked about while   *)
(* it could still be made; so all handlers of any other track id come to the same   *)
(* status, and send the one that is stored, whichever of them stored it.            *)
FailureExcused(t) ==
  \/ gateway[t] = "failed" /\ ~ PayAfterFailure
  \/ t \in askedEarly

FailuresExcused == \A t \in TrackIds : HasStatus(t, "FAILURE") => FailureExcused(t)

EarlyHaveTransactions == \A t \in askedEarly : transactions[t] # NoTransaction

HandlerAgrees(r) ==
  LET handler == verifying[r]
  IN  /\ handler.pc \in {"updating", "sending"} /\ handler.status = "FAILURE" =>
           FailureExcused(handler.trackId)
      /\ handler.pc = "sending" =>
           HasStatus(handler.trackId, handler.status) \/ handler.trackId \in askedEarly

HandlersAgree == \A r \in VerifyRequests : HandlerAgrees(r)

AgreementInv == FailuresExcused /\ EarlyHaveTransactions /\ HandlersAgree /\ EventsAgree

LEMMA InitAgreement == ServiceInit => AgreementInv
  BY DEF ServiceInit, GatewayInit, NoVerification, AgreementInv, FailuresExcused, HandlersAgree,
         EarlyHaveTransactions, HandlerAgrees, EventsAgree, HasStatus, TransactionTypes

(* Only the question of a handler makes a payment one that was asked about early. *)
LEMMA AskedEarlyChanges ==
  ASSUME ServiceInv, [ServiceNext]_serviceVars
  PROVE  \/ askedEarly' = askedEarly
         \/ \E t \in TrackIds : /\ transactions[t] # NoTransaction
                                /\ transactions' = transactions
                                /\ askedEarly' = askedEarly \cup {t}
<1>1. ASSUME NEW r \in VerifyRequests, VerifyPayment(r)
      PROVE  \/ askedEarly' = askedEarly
             \/ \E t \in TrackIds : /\ transactions[t] # NoTransaction
                                    /\ transactions' = transactions
                                    /\ askedEarly' = askedEarly \cup {t}
  <2> DEFINE t == verifying[r].trackId
  <2>1. /\ t \in TrackIds
        /\ transactions[t] # NoTransaction
        /\ transactions' = transactions
        /\ askedEarly' = askedEarly \cup {t2 \in {t} : MayBePaid(t2)}
    BY <1>1 DEF VerifyPayment, AnswerVerification, ServiceInv, VerificationsFollowGateway,
                VerificationFollowsGateway, VerifySteps
  <2>2. CASE MayBePaid(t)
    <3>1. askedEarly' = askedEarly \cup {t}
      BY <2>1, <2>2
    <3> QED
      BY <2>1, <3>1
  <2>3. CASE ~ MayBePaid(t)
    BY <2>1, <2>3
  <2> QED
    BY <2>2, <2>3
<1> QED
  BY <1>1
     DEF ServiceNext, InternalNext, GatewayNext, CreateStep, VerifyStep, serviceVars, gatewayVars,
         Pay, FailPayment, RequestPayment, InsertTransaction, Respond, EndCall, CreateThrows,
         CallCreateTransaction, FindTransaction, UpdateTransaction, SendEvent, RepeatSend,
         VerifyThrows, ServiceCrash

(* What excuses a failure goes on excusing it. *)
LEMMA ExcuseStays ==
  ASSUME ServiceInv, [ServiceNext]_serviceVars, NEW t \in TrackIds
  PROVE  /\ t \in askedEarly => t \in askedEarly'
         /\ FailureExcused(t) => FailureExcused(t)'
<1> USE DEF ServiceInv, ServiceTypeOK, GatewayTypeOK
<1>0. t \in askedEarly => t \in askedEarly'
  BY AskedEarlyChanges
<1>1. ASSUME NEW t2 \in TrackIds, Pay(t2) \/ FailPayment(t2)
      PROVE  gateway[t] = "failed" /\ ~ PayAfterFailure => gateway'[t] = "failed"
  BY <1>1 DEF Pay, FailPayment, MayBePaid
<1>2. ASSUME NEW id \in References, RequestPayment(id)
      PROVE  gateway[t] = "failed" => gateway'[t] = "failed"
  BY <1>2 DEF RequestPayment, IssuePayment
<1>3. ASSUME NEW r \in VerifyRequests, VerifyPayment(r)
      PROVE  gateway[t] = "failed" => gateway'[t] = "failed"
  BY <1>3 DEF VerifyPayment, AnswerVerification
<1>4. gateway[t] = "failed" /\ ~ PayAfterFailure => gateway'[t] = "failed"
  BY <1>1, <1>2, <1>3
     DEF ServiceNext, InternalNext, GatewayNext, CreateStep, VerifyStep, serviceVars, gatewayVars,
         InsertTransaction, Respond, EndCall, CreateThrows, CallCreateTransaction,
         FindTransaction, UpdateTransaction, SendEvent, RepeatSend, VerifyThrows, ServiceCrash
<1> QED
  BY <1>0, <1>4 DEF FailureExcused

LEMMA EarlyHaveTransactionsStep ==
  ASSUME ServiceInv, AgreementInv, [ServiceNext]_serviceVars
  PROVE  EarlyHaveTransactions'
<1> askedEarly \in SUBSET TrackIds
  BY DEF ServiceInv, ServiceTypeOK, GatewayTypeOK
<1>1. CASE askedEarly' = askedEarly
  BY <1>1, TransactionsGrowStep DEF AgreementInv, EarlyHaveTransactions, TransactionsGrow
<1>2. ASSUME NEW t \in TrackIds, transactions[t] # NoTransaction, transactions' = transactions,
             askedEarly' = askedEarly \cup {t}
      PROVE  EarlyHaveTransactions'
  BY <1>2 DEF AgreementInv, EarlyHaveTransactions
<1> QED
  BY <1>1, <1>2, AskedEarlyChanges

(* The status: PENDING filter of updateOne: what is decided stays as it is. *)
LEMMA DecidedStays ==
  ASSUME ServiceInv, [ServiceNext]_serviceVars, NEW t \in TrackIds,
         NEW status \in {"FAILURE", "COMPLETED"}, HasStatus(t, status)
  PROVE  /\ HasStatus(t, status)'
         /\ transactions'[t].orderId = transactions[t].orderId
<1> USE DEF ServiceInv, ServiceTypeOK
<1>1. ASSUME NEW id \in References, InsertTransaction(id)
      PROVE  transactions'[t] = transactions[t]
  BY <1>1 DEF InsertTransaction, HasStatus, CallsHoldIssuedTracks, CallHoldsIssuedTrack
<1>2. ASSUME NEW r \in VerifyRequests, UpdateTransaction(r)
      PROVE  transactions'[t] = transactions[t]
  BY <1>2 DEF UpdateTransaction, IsPending, HasStatus
<1>3. transactions'[t] = transactions[t]
  BY <1>1, <1>2
     DEF ServiceNext, InternalNext, GatewayNext, CreateStep, VerifyStep, serviceVars,
         RequestPayment, Respond, EndCall, CreateThrows, CallCreateTransaction,
         FindTransaction, VerifyPayment, SendEvent, RepeatSend, VerifyThrows, ServiceCrash
<1> QED
  BY <1>3 DEF HasStatus

(* What the handler of a verification knows before it updates or sends. *)
LEMMA HandlerKnows ==
  ASSUME ServiceInv, AgreementInv, NEW r \in VerifyRequests,
         verifying[r].pc \in {"updating", "sending"}
  PROVE  /\ verifying[r].trackId \in TrackIds
         /\ transactions[verifying[r].trackId] \in Transaction
         /\ \/ verifying[r].status = "FAILURE" /\ FailureExcused(verifying[r].trackId)
            \/ verifying[r].status = "COMPLETED" /\ gateway[verifying[r].trackId] = "verified"
  BY DEF ServiceInv, ServiceTypeOK, VerificationsFollowGateway, VerificationFollowsGateway,
         VerifySteps, AgreementInv, HandlersAgree, HandlerAgrees

LEMMA FailuresExcusedStep ==
  ASSUME ServiceInv, AgreementInv, [ServiceNext]_serviceVars
  PROVE  FailuresExcused'
<1> USE DEF ServiceInv, ServiceTypeOK
<1> SUFFICES ASSUME NEW t \in TrackIds, HasStatus(t, "FAILURE")'
             PROVE  FailureExcused(t)'
  BY DEF FailuresExcused
<1>1. CASE HasStatus(t, "FAILURE")
  BY <1>1, ExcuseStays DEF AgreementInv, FailuresExcused
<1>2. ASSUME NEW id \in References, InsertTransaction(id)
      PROVE  FailureExcused(t)'
  BY <1>1, <1>2 DEF InsertTransaction, HasStatus
<1>3. ASSUME NEW r \in VerifyRequests, UpdateTransaction(r)
      PROVE  FailureExcused(t)'
  <2>1. verifying[r].pc = "updating"
    BY <1>3 DEF UpdateTransaction
  <2>2. CASE t = verifying[r].trackId /\ ~ HasStatus(t, "FAILURE")
    <3>1. verifying[r].status = "FAILURE"
      BY <1>3, <2>1, <2>2, HandlerKnows DEF UpdateTransaction, HasStatus, Transaction
    <3> QED
      BY <2>1, <2>2, <3>1, HandlerKnows, ExcuseStays
  <2>3. CASE t # verifying[r].trackId
    BY <1>1, <1>3, <2>3 DEF UpdateTransaction, HasStatus
  <2> QED
    BY <1>1, <2>2, <2>3
<1>4. CASE UNCHANGED transactions
  BY <1>1, <1>4 DEF HasStatus
<1> QED
  BY <1>2, <1>3, <1>4
     DEF ServiceNext, InternalNext, GatewayNext, CreateStep, VerifyStep, serviceVars,
         RequestPayment, Respond, EndCall, CreateThrows, CallCreateTransaction,
         FindTransaction, VerifyPayment, SendEvent, RepeatSend, VerifyThrows, ServiceCrash

LEMMA HandlersAgreeStep ==
  ASSUME ServiceInv, AgreementInv, [ServiceNext]_serviceVars
  PROVE  HandlersAgree'
<1> USE DEF ServiceInv, ServiceTypeOK, GatewayTypeOK
<1> SUFFICES ASSUME NEW r \in VerifyRequests
             PROVE  HandlerAgrees(r)'
  BY DEF HandlersAgree
<1> /\ HandlerAgrees(r)
    /\ VerificationFollowsGateway(r)
    /\ verifying[r] \in Verification
  BY DEF AgreementInv, HandlersAgree, VerificationsFollowGateway
<1>1. ASSUME verifying'[r] = verifying[r]
      PROVE  HandlerAgrees(r)'
  <2> DEFINE t == verifying[r].trackId
  <2>1. CASE verifying[r].pc \in {"updating", "sending"}
    <3>1. t \in TrackIds /\ verifying[r].status \in {"FAILURE", "COMPLETED"}
      BY <2>1, HandlerKnows
    <3>2. /\ FailureExcused(t) => FailureExcused(t)'
          /\ t \in askedEarly => t \in askedEarly'
      BY <1>1, <3>1, ExcuseStays
    <3>3. HasStatus(t, verifying[r].status) => HasStatus(t, verifying[r].status)'
      BY <1>1, <3>1, DecidedStays DEF HasStatus
    <3> QED
      BY <1>1, <2>1, <3>2, <3>3 DEF HandlerAgrees, FailureExcused, HasStatus
  <2>2. CASE verifying[r].pc \notin {"updating", "sending"}
    BY <1>1, <2>2 DEF HandlerAgrees
  <2> QED
    BY <2>1, <2>2
<1>2. ASSUME verifying'[r].pc \notin {"updating", "sending"}
      PROVE  HandlerAgrees(r)'
  BY <1>2 DEF HandlerAgrees
<1>3. ASSUME NEW t \in TrackIds, FindTransaction(r, t)
      PROVE  HandlerAgrees(r)'
  BY <1>2, <1>3 DEF FindTransaction, Answered, NoVerification
<1>4. CASE VerifyPayment(r)
  <2> DEFINE t == verifying[r].trackId
  <2>1. /\ verifying'[r].pc = "updating"
        /\ verifying'[r].trackId = t
        /\ verifying'[r].status = IF gateway[t] \in Payable THEN "COMPLETED" ELSE "FAILURE"
    BY <1>4 DEF VerifyPayment, Verification
  <2>2. t \in TrackIds /\ transactions[t] # NoTransaction
    BY <1>4 DEF VerifyPayment, VerificationFollowsGateway, VerifySteps
  <2>3. gateway[t] \notin Payable => gateway[t] \in {"issued", "failed"}
    BY <2>2 DEF Payable, PaymentStates, FreeTracksUnused
  <2>4. gateway[t] \notin Payable => FailureExcused(t)'
    BY <1>4, <2>2, <2>3
       DEF VerifyPayment, AnswerVerification, FailureExcused, MayBePaid, Payable
  <2> QED
    BY <2>1, <2>4 DEF HandlerAgrees, FailureExcused
<1>5. CASE UpdateTransaction(r)
  <2> DEFINE t == verifying[r].trackId
             status == verifying[r].status
  <2>1. /\ verifying[r].pc = "updating"
        /\ verifying'[r].pc = "sending"
        /\ verifying'[r].trackId = t
        /\ verifying'[r].status = status
        /\ gateway' = gateway
        /\ askedEarly' = askedEarly
    BY <1>5 DEF UpdateTransaction, Verification, gatewayVars
  <2>2. /\ t \in TrackIds
        /\ transactions[t] \in Transaction
        /\ \/ status = "FAILURE" /\ FailureExcused(t)
           \/ status = "COMPLETED" /\ gateway[t] = "verified"
    BY <2>1, HandlerKnows
  <2>3. \/ transactions'[t] # NoTransaction /\ transactions'[t].status = status
        \/ t \in askedEarly
    <3>1. CASE IsPending(t)
      <4>1. transactions'[t] = [transactions[t] EXCEPT !.status = status]
        BY <1>5, <2>2, <3>1 DEF UpdateTransaction
      <4>2. /\ [transactions[t] EXCEPT !.status = status] \in Transaction
            /\ [transactions[t] EXCEPT !.status = status].status = status
        BY <2>2 DEF Transaction, Statuses
      <4> QED
        BY <4>1, <4>2
    <3>2. CASE ~ IsPending(t)
      <4>1. transactions'[t] = transactions[t]
        BY <1>5, <2>2, <3>2 DEF UpdateTransaction
      <4>2. HasStatus(t, "FAILURE") \/ HasStatus(t, "COMPLETED")
        BY <2>2, <3>2 DEF IsPending, HasStatus, Transaction, Statuses
      <4>3. HasStatus(t, status) \/ t \in askedEarly
        BY <2>2, <4>2 DEF AgreementInv, FailuresExcused, FailureExcused, CompletionIsVerified
      <4> QED
        BY <4>1, <4>3 DEF HasStatus
    <3> QED
      BY <3>1, <3>2
  <2> QED
    BY <2>1, <2>2, <2>3 DEF HandlerAgrees, HasStatus, FailureExcused
<1>6. CASE SendEvent(r) \/ VerifyThrows(r)
  BY <1>2, <1>6 DEF SendEvent, VerifyThrows, Verification, Answered, NoVerification
<1>7. ASSUME NEW r2 \in VerifyRequests, r2 # r,
             \/ \E t \in TrackIds : FindTransaction(r2, t)
             \/ VerifyStep(r2) \/ RepeatSend(r2) \/ VerifyThrows(r2)
      PROVE  HandlerAgrees(r)'
  BY <1>1, <1>7 DEF FindTransaction, VerifyStep, VerifyPayment, UpdateTransaction, SendEvent,
                    RepeatSend, VerifyThrows
<1>8. CASE ServiceCrash
  BY <1>1, <1>2, <1>8 DEF ServiceCrash, VerifySteps, Verification, Answered, NoVerification
<1>9. CASE UNCHANGED verifying
  BY <1>1, <1>9
<1> QED
  BY <1>3, <1>4, <1>5, <1>6, <1>7, <1>8, <1>9
     DEF ServiceNext, InternalNext, GatewayNext, CreateStep, VerifyStep, serviceVars,
         RequestPayment, InsertTransaction, Respond, EndCall, CreateThrows, CallCreateTransaction,
         RepeatSend

(* An event is sent about a document that has its status and keeps it, or about one *)
(* whose payment was asked about early.                                             *)
LEMMA EventsAgreeStep ==
  ASSUME ServiceInv, AgreementInv, [ServiceNext]_serviceVars
  PROVE  EventsAgree'
<1> USE DEF ServiceInv, ServiceTypeOK
<1> DEFINE Repeats(m) == \E t \in TrackIds : /\ HasTransaction(t, m.id)
                                             /\ HasStatus(t, m.status) \/ t \in askedEarly
<1>1. ASSUME NEW t \in TrackIds \ askedEarly', gateway'[t] = "verified"
      PROVE  ~ HasStatus(t, "FAILURE")'
  BY <1>1, FailuresExcusedStep DEF FailuresExcused, FailureExcused
<1>2. ASSUME NEW type \in TransactionTypes, NEW i \in DOMAIN topics'[type]
      PROVE  \E t \in TrackIds : /\ HasTransaction(t, topics[type][i].id)'
                                 /\ \/ HasStatus(t, topics[type][i].status)'
                                    \/ t \in askedEarly'
  <2>0. topics[type] \in Seq(Message)
    OBVIOUS
  <2>1. ASSUME NEW m \in Message, topics'[type][i] = m, Repeats(m)
        PROVE  \E t \in TrackIds : /\ HasTransaction(t, topics[type][i].id)'
                                   /\ \/ HasStatus(t, topics[type][i].status)'
                                      \/ t \in askedEarly'
    <3>1. PICK t \in TrackIds : /\ HasTransaction(t, m.id)
                                /\ HasStatus(t, m.status) \/ t \in askedEarly
      BY <2>1
    <3>2. m.status \in {"FAILURE", "COMPLETED"}
      BY DEF Message
    <3>3. transactions'[t] # NoTransaction /\ transactions'[t].orderId = m.id
      BY <3>1, TransactionsGrowStep DEF TransactionsGrow, HasTransaction
    <3>4. transactions'[t].status = m.status \/ t \in askedEarly'
      BY <3>1, <3>2, DecidedStays, ExcuseStays DEF HasStatus
    <3> QED
      BY <2>1, <3>3, <3>4 DEF HasStatus, HasTransaction
  <2>2. ASSUME i \in DOMAIN topics[type], topics'[type][i] = topics[type][i]
        PROVE  \E t \in TrackIds : /\ HasTransaction(t, topics[type][i].id)'
                                   /\ \/ HasStatus(t, topics[type][i].status)'
                                      \/ t \in askedEarly'
    <3>1. topics[type][i] \in Message
      BY <2>0, <2>2
    <3>2. Repeats(topics[type][i])
      BY <2>2 DEF AgreementInv, EventsAgree
    <3> QED
      BY <2>1, <2>2, <3>1, <3>2
  <2>3. ASSUME NEW r \in VerifyRequests, SendEvent(r) \/ RepeatSend(r)
        PROVE  \E t \in TrackIds : /\ HasTransaction(t, topics[type][i].id)'
                                   /\ \/ HasStatus(t, topics[type][i].status)'
                                      \/ t \in askedEarly'
    <3> DEFINE t == verifying[r].trackId
               message == [id |-> transactions[t].orderId, status |-> verifying[r].status]
    <3>1. topics' = [topics EXCEPT ![TypeOf(transactions[t].orderId)] = Append(@, message)]
      BY <2>3 DEF SendEvent, RepeatSend, Publish
    <3>2. verifying[r].pc = "sending"
      BY <2>3 DEF SendEvent, RepeatSend
    <3>3. /\ t \in TrackIds
          /\ transactions[t] \in Transaction
          /\ verifying[r].status \in {"FAILURE", "COMPLETED"}
      BY <3>2, HandlerKnows
    <3>4. message \in Message
      BY <3>3 DEF Message, Transaction
    <3>5. /\ HasTransaction(t, message.id)
          /\ HasStatus(t, message.status) \/ t \in askedEarly
      BY <3>2, <3>3 DEF AgreementInv, HandlersAgree, HandlerAgrees, HasTransaction
    <3>6. topics'[type] = topics[type] \/ topics'[type] = Append(topics[type], message)
      BY <3>1 DEF TypeOf, TransactionTypes
    <3>7. Repeats(message)
      BY <3>3, <3>5
    <3> HIDE DEF message, t, Repeats
    <3>8. CASE topics'[type] = topics[type]
      BY <2>2, <3>8
    <3>9. CASE topics'[type] = Append(topics[type], message)
      <4>1. \/ i \in DOMAIN topics[type] /\ topics'[type][i] = topics[type][i]
            \/ topics'[type][i] = message
        BY <2>0, <3>4, <3>9, AppendedElement
      <4> QED
        BY <2>1, <2>2, <3>4, <3>7, <4>1
    <3> QED
      BY <3>6, <3>8, <3>9
  <2>4. CASE UNCHANGED topics
    BY <2>2, <2>4
  <2> QED
    BY <2>3, <2>4
       DEF ServiceNext, InternalNext, GatewayNext, CreateStep, VerifyStep, serviceVars,
           RequestPayment, InsertTransaction, Respond, EndCall, CreateThrows,
           CallCreateTransaction, FindTransaction, VerifyPayment, UpdateTransaction, VerifyThrows,
           ServiceCrash
<1> QED
  BY <1>1, <1>2 DEF EventsAgree, HasStatus, HasTransaction

LEMMA AgreementStep ==
  ASSUME ServiceInv, AgreementInv, [ServiceNext]_serviceVars
  PROVE  AgreementInv'
  BY FailuresExcusedStep, EarlyHaveTransactionsStep, HandlersAgreeStep, EventsAgreeStep
     DEF AgreementInv

(* Whoever asks GET /verify, about which payment and when: save for the payments that   *)
(* were asked about while they could still be made, no verified payment is recorded as  *)
(* a failure and every event repeats the stored status, for any number of               *)
(* verifyTransaction handlers whose updateOne and send interleave, throw or die.        *)
THEOREM AgreementTheorem == ServiceSpec => []EventsAgree
<1>1. ServiceInit => AgreementInv
  BY InitAgreement
<1>2. ServiceInv /\ AgreementInv /\ [ServiceNext]_serviceVars => AgreementInv'
  BY AgreementStep
<1>3. AgreementInv => EventsAgree
  BY DEF AgreementInv
<1> QED
  BY <1>1, <1>2, <1>3, ServiceInvariant, PTL DEF ServiceSpec
=============================================================================
