--------------------------- MODULE PaymentGateway ---------------------------
(***************************************************************************)
(* The Zibal payment gateway, an external service, as transaction/src/     *)
(* zibal/zibal.service.ts uses it: a payment is requested under a track    *)
(* id, the buyer pays or gives up on the gateway's own page, and the       *)
(* service asks for the outcome.  The answer 100 settles a paid payment,   *)
(* 201 repeats it, 202 says that nothing has been paid.                    *)
(***************************************************************************)
CONSTANTS
  TrackIds,          \* the track ids the gateway hands out
  PayAfterFailure    \* may the buyer still pay after a failed attempt?

ASSUME PayAfterFailureAssumption == PayAfterFailure \in BOOLEAN

VARIABLES
  gateway,           \* [TrackIds -> PaymentStates]
  paymentUrls,       \* the track ids whose payment page a buyer can open
  askedEarly         \* history: the payments whose outcome was asked for too soon

gatewayVars == <<gateway, paymentUrls, askedEarly>>

PaymentStates == {"free", "issued", "failed", "paid", "verified"}

GatewayTypeOK ==
  /\ gateway \in [TrackIds -> PaymentStates]
  /\ paymentUrls \in SUBSET TrackIds
  /\ askedEarly \in SUBSET TrackIds

GatewayInit ==
  /\ gateway = [t \in TrackIds |-> "free"]
  /\ paymentUrls = {}
  /\ askedEarly = {}

(* The states in which a verification is answered with 100 or 201. *)
Payable == {"paid", "verified"}

(* A payment that is neither made nor given up for good. *)
MayBePaid(t) ==
  \/ gateway[t] = "issued"
  \/ gateway[t] = "failed" /\ PayAfterFailure

(* POST v1/request answered with 100: a new payment under a fresh track id. *)
IssuePayment(t) ==
  /\ gateway[t] = "free"
  /\ gateway' = [gateway EXCEPT ![t] = "issued"]

(* POST v1/verify: a paid payment becomes verified, any other one keeps its state.  *)
(* Nothing keeps a caller from asking while the payment can still be made: it is    *)
(* answered with 202 (status -1, waiting for payment) and goes on as if not asked.  *)
AnswerVerification(t) ==
  /\ gateway' = [gateway EXCEPT ![t] = IF @ = "paid" THEN "verified" ELSE @]
  /\ askedEarly' = askedEarly \cup {t2 \in {t} : MayBePaid(t2)}

(* The buyer pays on the gateway's page. *)
Pay(t) ==
  /\ t \in paymentUrls
  /\ MayBePaid(t)
  /\ gateway' = [gateway EXCEPT ![t] = "paid"]
  /\ UNCHANGED <<paymentUrls, askedEarly>>

(* The buyer cancels, or the bank declines. *)
FailPayment(t) ==
  /\ t \in paymentUrls
  /\ gateway[t] = "issued"
  /\ gateway' = [gateway EXCEPT ![t] = "failed"]
  /\ UNCHANGED <<paymentUrls, askedEarly>>

GatewayNext == \E t \in TrackIds : Pay(t) \/ FailPayment(t)
=============================================================================
