--------------------------- MODULE MCPlanPurchase ---------------------------
(* Instances of the plan purchases for TLC: a free price, one below the       *)
(* gateway's limits and one within them.                                      *)
EXTENDS PlanPurchase

MCAmounts == {0, 1, 5}

MCAcceptedAmounts == {5}

MCPlanPrices == {0, 1, 5}
=============================================================================
