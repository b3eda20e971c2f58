-------------------------------- MODULE Sale --------------------------------
(***************************************************************************)
(* What a buyer is promised about a purchase, without services, messages   *)
(* or crashes: it is placed at a price that does not change, what is free  *)
(* is delivered at once, anything else waits for its money and is then     *)
(* decided once and for ever.  It is COMPLETED only when its price has     *)
(* been paid, it FAILs only when it has not, and nobody is made to pay for *)
(* a purchase that is already decided.  The one exception is a purchase    *)
(* that is in doubt, because somebody asked about its payment while that   *)
(* could still be made: it may fail at any time, and be paid and delivered *)
(* all the same; but it too is COMPLETED only when its price has been paid.*)
(***************************************************************************)
EXTENDS Naturals

CONSTANTS
  Purchases,
  Prices      \* the prices a purchase may have, naturals

VARIABLES
  outcome,    \* [Purchases -> Outcomes], the status the buyer is shown
  price,      \* [Purchases -> Prices \cup {0}], 0 before the purchase is placed
  paid,       \* the purchases whose price the gateway has confirmed
  inDoubt     \* the purchases whose payment was asked about too soon

saleVars == <<outcome, price, paid, inDoubt>>

Outcomes == {"ABSENT", "PENDING", "FAILURE", "COMPLETED"}

SaleInit ==
  /\ outcome = [p \in Purchases |-> "ABSENT"]
  /\ price = [p \in Purchases |-> 0]
  /\ paid = {}
  /\ inDoubt = {}

(* Only what is free may be delivered without a payment. *)
Place(p, amount, status) ==
  /\ outcome[p] = "ABSENT"
  /\ \/ status = "PENDING"
     \/ status = "COMPLETED" /\ amount = 0
  /\ outcome' = [outcome EXCEPT ![p] = status]
  /\ price' = [price EXCEPT ![p] = amount]
  /\ UNCHANGED <<paid, inDoubt>>

Undecided(p) == outcome[p] = "PENDING" \/ p \in inDoubt

Receive(p) ==
  /\ Undecided(p)
  /\ price[p] > 0
  /\ paid' = paid \cup {p}
  /\ UNCHANGED <<outcome, price, inDoubt>>

Deliver(p) ==
  /\ Undecided(p)
  /\ p \in paid
  /\ outcome' = [outcome EXCEPT ![p] = "COMPLETED"]
  /\ UNCHANGED <<price, paid, inDoubt>>

Refuse(p) ==
  /\ \/ outcome[p] = "PENDING" /\ p \notin paid
     \/ p \in inDoubt
  /\ outcome' = [outcome EXCEPT ![p] = "FAILURE"]
  /\ UNCHANGED <<price, paid, inDoubt>>

(* What is free is delivered when it is placed: nobody can ask about its payment. *)
Doubt(p) ==
  /\ price[p] > 0
  /\ inDoubt' = inDoubt \cup {p}
  /\ UNCHANGED <<outcome, price, paid>>

SaleNext ==
  \E p \in Purchases :
    \/ \E amount \in Prices, status \in Outcomes : Place(p, amount, status)
    \/ Receive(p) \/ Deliver(p) \/ Refuse(p) \/ Doubt(p)

SaleSpec == SaleInit /\ [][SaleNext]_saleVars
=============================================================================
