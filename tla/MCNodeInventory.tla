--------------------------- MODULE MCNodeInventory ---------------------------
(* Instances of NodeInventory. *)
EXTENDS NodeInventory

CONSTANTS b1, b2, t1

MCOffers == (1 :> {b1, b2, t1} @@ 2 :> {b1})
=============================================================================
