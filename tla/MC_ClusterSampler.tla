-------------------------- MODULE MC_ClusterSampler --------------------------
(* Three products, p1 with two colors, p2 and p3 with one each; two      *)
(* clusters; pages of up to two products (six draws).                     *)
EXTENDS ClusterSampler

CONSTANTS p1, p2, p3, k1, k2

MCProductOf == (1 :> p1) @@ (2 :> p1) @@ (3 :> p2) @@ (4 :> p3)
=============================================================================
