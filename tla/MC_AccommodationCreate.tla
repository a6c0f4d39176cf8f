------------------------ MODULE MC_AccommodationCreate ------------------------
(* Two calls, single or bulk, over two names: lists of two inputs can      *)
(* repeat a name, name one the other call saves, or take the two names in  *)
(* opposite orders.                                                        *)
EXTENDS AccommodationCreate

CONSTANTS c1, c2, n1, n2

=============================================================================
