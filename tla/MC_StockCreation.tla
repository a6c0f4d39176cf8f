--------------------------- MODULE MC_StockCreation ---------------------------
(* Two concurrent calls over two warehouses: the lists may repeat a       *)
(* warehouse or list them in either order, so two calls can insert the    *)
(* same Stock rows in opposite orders; two quantities give distinct       *)
(* stocks_data entries.  No symmetry: the run checks a liveness property. *)
EXTENDS StockCreation

CONSTANTS c1, c2, w1, w2

=============================================================================
