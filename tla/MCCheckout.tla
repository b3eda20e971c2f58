---------------------------- MODULE MCCheckout ----------------------------
(* Instances of the checkout for TLC. *)
EXTENDS Checkout, TLC

CONSTANTS b1, b2, b3

(* A free book and one within the gateway's limits; one below them instead of the *)
(* free one; or a single book.                                                    *)
FreeAndPaid == (b1 :> 0) @@ (b2 :> 5)

CheapAndPaid == (b2 :> 5) @@ (b3 :> 1)

OnlyPaid == b2 :> 5

MCAmounts == {0, 1, 5, 6}

MCAcceptedAmounts == {5, 6}

Symmetry ==
  Permutations(TrackIds) \cup Permutations(VerifyRequests) \cup Permutations(OrderIds)
=============================================================================
