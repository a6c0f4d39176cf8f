----------------------- MODULE PreferenceUpdateAtomic -----------------------
(***************************************************************************)
(* ProductColorBulkPreferenceUpdate as if every mutation were one atomic   *)
(* step: what the handler in mutations.py computes, applied to the rows    *)
(* with nothing in between.  This is the serializability promise the      *)
(* per-profile scores need (spec section 5); ScoreUpdate, the handler     *)
(* step by step, is checked against it.                                   *)
(***************************************************************************)
EXTENDS PreferenceScores

CONSTANTS
    MaxRequests,   \* bound on the number of mutations
    MaxBatch,      \* bound on |disliked_ids| + |neutral_ids| of one mutation
    Faults         \* subset of {"service_error", "bad_response"} the environment produces

VARIABLES
    colorScore,    \* ProductColorScore.score per scored color
    productScore,  \* ProductScore.score per scored product
    dislikes,      \* number of DislikedProductColor rows per color
    rowPk,         \* ProductColorScore.pk per scored color
    mutations      \* mutations performed so far

avars == <<colorScore, productScore, dislikes, rowPk, mutations>>

(* The arguments a mutation may be given: two id lists of product colors. *)
Batches == {b \in (SUBSET Colors) \X (SUBSET Colors) :
                Cardinality(b[1]) + Cardinality(b[2]) <= MaxBatch}

AtomicTypeOK ==
    /\ colorScore \in [ScoredColors -> Int]
    /\ productScore \in [ScoredProducts -> Int]
    /\ dislikes \in [Colors -> Nat]
    /\ rowPk \in PkAssignments
    /\ mutations \in 0..MaxRequests

AtomicInit ==
    /\ colorScore = [c \in ScoredColors |-> 0]
    /\ productScore = [p \in ScoredProducts |-> 0]
    /\ dislikes = [c \in Colors |-> 0]
    /\ rowPk \in PkAssignments
    /\ mutations = 0

(* The disliked ids a mutation may be given.                              *)
Disliked == {b[1] : b \in Batches}

(* The service answers non-200: the dislikes were already inserted, then  *)
(* get_scores_update raises ValueError and no score changes.              *)
MutationServiceError ==
    /\ "service_error" \in Faults
    /\ mutations < MaxRequests
    /\ mutations' = mutations + 1
    /\ \E D \in Disliked : dislikes' = AddDislikes(dislikes, D)
    /\ UNCHANGED <<colorScore, productScore, rowPk>>

(* Lines 59-83 after a 200 answer returning the ids R with the summed     *)
(* deltas delta: the loaded rows of R get their new scores and each       *)
(* product the minimum of its new scores, all at once.                    *)
ApplyReply(R, delta) ==
    LET new == UpdatedScores([c \in LoadedRows(R) |-> colorScore[c]], rowPk, delta)
    IN /\ colorScore' = new @@ colorScore
       /\ productScore' = BatchProductScores(new) @@ productScore
       /\ UNCHANGED rowPk

(* The whole handler with a 200 answer carrying deltas dd and nd for the  *)
(* requested ids.                                                          *)
Mutation ==
    /\ mutations < MaxRequests
    /\ mutations' = mutations + 1
    /\ \E b \in Batches :
          /\ dislikes' = AddDislikes(dislikes, b[1])
          /\ \E dd \in [b[1] -> Deltas], nd \in [b[2] -> Deltas] :
                ApplyReply(b[1] \cup b[2], IdsToDelta(dd, nd))

(* The whole handler with a 200 answer that breaks the contract: any ids  *)
(* R come back, and only those in K have a delta.                         *)
MutationUncheckedReply ==
    /\ "bad_response" \in Faults
    /\ mutations < MaxRequests
    /\ mutations' = mutations + 1
    /\ \E D \in Disliked : dislikes' = AddDislikes(dislikes, D)
    /\ \E R \in SUBSET Colors :
          /\ Cardinality(R) <= MaxBatch
          /\ \E K \in SUBSET R : \E d \in [K -> Deltas] : ApplyReply(R, d)

(* The bound is reached: the model stops here.                            *)
AtomicDone ==
    /\ mutations = MaxRequests
    /\ UNCHANGED avars

AtomicNext ==
    \/ MutationServiceError
    \/ Mutation
    \/ MutationUncheckedReply
    \/ AtomicDone

AtomicSpec == AtomicInit /\ [][AtomicNext]_avars

(* Every ProductScore equals the current score of one of its product's    *)
(* ProductColorScore rows: the handler writes the minimum of the new     *)
(* scores of the rows it just updated, and those rows keep that value     *)
(* until a later mutation rewrites the product score too.                 *)
ProductScoreIsAColorScore ==
    \A p \in ScoredProducts :
        \E c \in ScoredColors : ProductOf[c] = p /\ productScore[p] = colorScore[c]

=============================================================================
