--------------------------- MODULE MC_StockQuantity ---------------------------
(* Two allocations of up to 2 units each, rentals and windows over four    *)
(* instants: every relative position of a rental and a window occurs,      *)
(* including a rental that spans the window and one that touches a bound. *)
EXTENDS StockQuantity, TLC

CONSTANTS a1, a2

MCAllocIds == {a1, a2}

MCSymmetry == Permutations(MCAllocIds)

=============================================================================
