------------------------ MODULE TransactionDecision ------------------------
(***************************************************************************)
(* What the transaction service promises about payments, without handlers, *)
(* requests or crashes: a transaction is opened once, its money is settled *)
(* at most once, and its status leaves PENDING once and for ever,          *)
(* to COMPLETED only when the money was settled before.                    *)
(***************************************************************************)
CONSTANT TrackIds

VARIABLES
  decision,   \* [TrackIds -> Decisions], the status the service shows
  settled     \* the payments the gateway confirmed to the service

decisionVars == <<decision, settled>>

Decisions == {"ABSENT", "PENDING", "FAILURE", "COMPLETED"}

DecisionInit ==
  /\ decision = [t \in TrackIds |-> "ABSENT"]
  /\ settled = {}

Open(t) ==
  /\ decision[t] = "ABSENT"
  /\ decision' = [decision EXCEPT ![t] = "PENDING"]
  /\ UNCHANGED settled

Settle(t) ==
  /\ decision[t] # "ABSENT"
  /\ settled' = settled \cup {t}
  /\ UNCHANGED decision

Complete(t) ==
  /\ decision[t] = "PENDING"
  /\ t \in settled
  /\ decision' = [decision EXCEPT ![t] = "COMPLETED"]
  /\ UNCHANGED settled

Fail(t) ==
  /\ decision[t] = "PENDING"
  /\ decision' = [decision EXCEPT ![t] = "FAILURE"]
  /\ UNCHANGED settled

DecisionNext ==
  \E t \in TrackIds : Open(t) \/ Settle(t) \/ Complete(t) \/ Fail(t)

DecisionSpec == DecisionInit /\ [][DecisionNext]_decisionVars
=============================================================================
