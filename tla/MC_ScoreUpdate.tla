--------------------------- MODULE MC_ScoreUpdate ---------------------------
(* Model of the handler: two products, pA with colors 1 and 2, pB with    *)
(* color 3; row pks drawn from 1..3,                                    *)
(* so a row's pk may equal its own color id or another color's.           *)
EXTENDS ScoreUpdate

CONSTANTS pA, pB, w1, w2

MCProductOf == [c \in Colors |-> IF c \in {1, 2} THEN pA ELSE pB]

MCDeltas == {-1, 1}

MCSymmetry == Permutations(Workers)
=============================================================================
