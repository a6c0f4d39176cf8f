-------------------------- MODULE PreferenceScores --------------------------
(***************************************************************************)
(* The data of one user's preference profile and the pure computations    *)
(* of ProductColorBulkPreferenceUpdate.perform_mutation                    *)
(* (src/saleor/graphql/preference/mutations.py) that turn a response of   *)
(* the external scoring service into new ProductColorScore and            *)
(* ProductScore values.  Shared by the atomic specification               *)
(* PreferenceUpdateAtomic and the step-by-step ScoreUpdate.               *)
(*                                                                         *)
(* One profile is modelled: rows of different profiles are disjoint, so   *)
(* requests of different users never touch the same rows.                 *)
(***************************************************************************)
EXTENDS Integers, FiniteSets, FiniteSetsExt, Functions, TLC

CONSTANTS
    Colors,        \* ids of ProductColor rows (integers: compared with row pks)
    Products,      \* Product rows
    ProductOf,     \* ProductColor.product, a function Colors -> Products
    ScoredColors,  \* colors that have a ProductColorScore row for the profile
    PkIds,         \* integers the database may give a ProductColorScore row as pk
    Deltas         \* score deltas the external service may return

ASSUME /\ Colors \subseteq Int /\ PkIds \subseteq Int
       /\ ProductOf \in [Colors -> Products]
       /\ ScoredColors \subseteq Colors
       /\ Deltas \subseteq Int

(* A ProductScore row exists for every product that has a scored color:   *)
(* ProductColorScore.product_score is a non-null foreign key.             *)
ScoredProducts == {ProductOf[c] : c \in ScoredColors}

(* The pks the rows of the profile may carry: any injective assignment.   *)
PkAssignments == Injection(ScoredColors, PkIds)

(* Models.DislikedProductColor bulk_create: one new row per disliked      *)
(* color.  The table is kept as a count of rows per color.                *)
AddDislikes(dislikes, D) ==
    [c \in Colors |-> dislikes[c] + (IF c \in D THEN 1 ELSE 0)]

(* ids_to_delta: a defaultdict(int) summing, per id, the deltas of the    *)
(* disliked and of the neutral arrays of the response.                    *)
IdsToDelta(dd, nd) ==
    [c \in DOMAIN dd \cup DOMAIN nd |->
        (IF c \in DOMAIN dd THEN dd[c] ELSE 0) + (IF c \in DOMAIN nd THEN nd[c] ELSE 0)]

(* ids_to_delta[key]: a missing key of a defaultdict(int) reads as 0.     *)
DeltaAt(delta, key) == IF key \in DOMAIN delta THEN delta[key] ELSE 0

(* The ProductColorScore rows the query selects: the profile's rows whose *)
(* product_color_id is one of the ids of the response.                    *)
LoadedRows(ids) == ScoredColors \cap ids

(* The loop over the loaded rows: each row's score is incremented by the  *)
(* delta found under the key product_color_score.pk.                       *)
UpdatedScores(read, rowPk, delta) ==
    [c \in DOMAIN read |-> read[c] + DeltaAt(delta, rowPk[c])]

(* product_score_map / min(scores): every ProductScore owning an updated  *)
(* row gets the minimum of the new scores of its rows in this batch.      *)
BatchProductScores(new) ==
    [p \in {ProductOf[c] : c \in DOMAIN new} |->
        Min({new[c] : c \in {d \in DOMAIN new : ProductOf[d] = p}})]

=============================================================================
