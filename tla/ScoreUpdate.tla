---------------------------- MODULE ScoreUpdate ----------------------------
(***************************************************************************)
(* ProductColorBulkPreferenceUpdate.perform_mutation                       *)
(* (src/saleor/graphql/preference/mutations.py) step by step, for         *)
(* several request workers of one user running at once.  The handler     *)
(* runs outside any transaction: each database statement is atomic on    *)
(* its own (bulk_create and bulk_update each run in one transaction),     *)
(* and another worker may run between any two of them.                    *)
(*                                                                         *)
(*   idle --RecordDislikes--> recorded --ServiceAnswers--> answered        *)
(*        --ReadScores--> read --WriteColorScores--> wroteColors           *)
(*        --WriteProductScores--> idle                                     *)
(*   recorded --ServiceFails--> idle, wroteColors --ProductWriteFails--> idle *)
(***************************************************************************)
EXTENDS PreferenceScores

CONSTANTS
    Workers,       \* request workers (threads or processes) of the server
    MaxRequests,   \* bound on the number of mutations
    MaxBatch,      \* bound on |disliked_ids| + |neutral_ids| of one mutation
    Faults         \* subset of {"service_error", "bad_response", "write_error"} the environment produces

VARIABLES
    colorScore,    \* ProductColorScore.score per scored color
    productScore,  \* ProductScore.score per scored product
    dislikes,      \* number of DislikedProductColor rows per color
    rowPk,         \* ProductColorScore.pk per scored color
    pc,            \* where each worker is in the handler
    req,           \* each worker's local variables
    nreq           \* mutations started so far

vars == <<colorScore, productScore, dislikes, rowPk, pc, req, nreq>>

Phases == {"idle", "recorded", "answered", "read", "wroteColors"}

(* A worker's locals: the disliked and neutral ids it was given, the ids  *)
(* of the service response (disliked_ids + neutral_ids), the             *)
(* ids_to_delta map built from it, and the scores of the loaded rows as  *)
(* read from the database.                                                *)
NoReq == [dis |-> {}, neu |-> {}, resp |-> {}, delta |-> <<>>, read |-> <<>>]

Batches == {b \in (SUBSET Colors) \X (SUBSET Colors) :
                Cardinality(b[1]) + Cardinality(b[2]) <= MaxBatch}

(* The ids a worker was given. *)
Ids(w) == req[w].dis \cup req[w].neu

TypeOK ==
    /\ colorScore \in [ScoredColors -> Int]
    /\ productScore \in [ScoredProducts -> Int]
    /\ dislikes \in [Colors -> Nat]
    /\ rowPk \in PkAssignments
    /\ pc \in [Workers -> Phases]
    /\ \A w \in Workers :
          /\ req[w].dis \subseteq Colors /\ req[w].neu \subseteq Colors
          /\ req[w].resp \subseteq Colors
          /\ DOMAIN req[w].delta \subseteq req[w].resp
          /\ DOMAIN req[w].read \subseteq ScoredColors
    /\ nreq \in 0..MaxRequests

Init ==
    /\ colorScore = [c \in ScoredColors |-> 0]
    /\ productScore = [p \in ScoredProducts |-> 0]
    /\ dislikes = [c \in Colors |-> 0]
    /\ rowPk \in PkAssignments
    /\ pc = [w \in Workers |-> "idle"]
    /\ req = [w \in Workers |-> NoReq]
    /\ nreq = 0

(* Lines 40-50: look up the profile and the product colors, then          *)
(* bulk_create one DislikedProductColor per disliked color.               *)
RecordDislikes(w, D, N) ==
    /\ pc[w] = "idle"
    /\ nreq < MaxRequests
    /\ dislikes' = AddDislikes(dislikes, D)
    /\ req' = [req EXCEPT ![w] = [NoReq EXCEPT !.dis = D, !.neu = N]]
    /\ pc' = [pc EXCEPT ![w] = "recorded"]
    /\ nreq' = nreq + 1
    /\ UNCHANGED <<colorScore, productScore, rowPk>>

(* Lines 52-57 and get_scores_update: the service answers non-200 and     *)
(* ValueError ends the mutation; the dislike rows stay.                   *)
ServiceFails(w) ==
    /\ pc[w] = "recorded"
    /\ "service_error" \in Faults
    /\ pc' = [pc EXCEPT ![w] = "idle"]
    /\ req' = [req EXCEPT ![w] = NoReq]
    /\ UNCHANGED <<colorScore, productScore, dislikes, rowPk, nreq>>

(* Lines 52-57 and 65-67: a 200 answer with one delta per requested       *)
(* id, positionally aligned; the deltas are summed per id.                *)
ServiceAnswers(w) ==
    /\ pc[w] = "recorded"
    /\ \E dd \in [req[w].dis -> Deltas], nd \in [req[w].neu -> Deltas] :
          req' = [req EXCEPT ![w].resp = Ids(w), ![w].delta = IdsToDelta(dd, nd)]
    /\ pc' = [pc EXCEPT ![w] = "answered"]
    /\ UNCHANGED <<colorScore, productScore, dislikes, rowPk, nreq>>

(* Lines 52-67 with a 200 answer that breaks the contract: get_scores_    *)
(* update returns the four arrays unchecked.  The returned ids may be any *)
(* colors, requested or not; zip stops at the shorter of the id and the  *)
(* delta arrays, so only some ids (K) get a delta, summed per id.         *)
ServiceAnswersMalformed(w) ==
    /\ pc[w] = "recorded"
    /\ "bad_response" \in Faults
    /\ \E R \in SUBSET Colors :
          /\ Cardinality(R) <= MaxBatch
          /\ \E K \in SUBSET R, d \in [R -> Deltas] :
                req' = [req EXCEPT ![w].resp = R, ![w].delta = [c \in K |-> d[c]]]
    /\ pc' = [pc EXCEPT ![w] = "answered"]
    /\ UNCHANGED <<colorScore, productScore, dislikes, rowPk, nreq>>

(* Lines 59-63 and 72: the lazy queryset is evaluated by the loop,        *)
(* loading the profile's rows of the returned ids with their scores.      *)
ReadScores(w) ==
    /\ pc[w] = "answered"
    /\ req' = [req EXCEPT ![w].read =
                 [c \in LoadedRows(req[w].resp) |-> colorScore[c]]]
    /\ pc' = [pc EXCEPT ![w] = "read"]
    /\ UNCHANGED <<colorScore, productScore, dislikes, rowPk, nreq>>

(* The new score of each loaded row, lines 72-73.                         *)
NewScores(w) == UpdatedScores(req[w].read, rowPk, req[w].delta)

(* Line 80: bulk_update writes  the in-memory scores of all loaded rows.  *)
WriteColorScores(w) ==
    /\ pc[w] = "read"
    /\ colorScore' = NewScores(w) @@ colorScore
    /\ pc' = [pc EXCEPT ![w] = "wroteColors"]
    /\ UNCHANGED <<productScore, dislikes, rowPk, req, nreq>>

(* Mutant: the scores are appended to product_score_map before the delta *)
(* is added (lines 73 and 75 swapped).                                    *)
WriteProductScoresOldValues(w) ==
    /\ pc[w] = "wroteColors"
    /\ productScore' = BatchProductScores(req[w].read) @@ productScore
    /\ pc' = [pc EXCEPT ![w] = "idle"]
    /\ req' = [req EXCEPT ![w] = NoReq]
    /\ UNCHANGED <<colorScore, dislikes, rowPk, nreq>>

(* Mutant: product_score_map is keyed by the color row instead of its     *)
(* ProductScore, so one "product score" is written per color.             *)
WriteProductScoresPerRow(w) ==
    /\ pc[w] = "wroteColors"
    /\ productScore' = NewScores(w) @@ productScore
    /\ pc' = [pc EXCEPT ![w] = "idle"]
    /\ req' = [req EXCEPT ![w] = NoReq]
    /\ UNCHANGED <<colorScore, dislikes, rowPk, nreq>>

(* Lines 74-78, 81 and 83: bulk_update writes, for every product of      *)
(* a loaded row, the minimum of its rows' new scores; the mutation        *)
(* returns.                                                               *)
WriteProductScores(w) ==
    /\ pc[w] = "wroteColors"
    /\ productScore' = BatchProductScores(NewScores(w)) @@ productScore
    /\ pc' = [pc EXCEPT ![w] = "idle"]
    /\ req' = [req EXCEPT ![w] = NoReq]
    /\ UNCHANGED <<colorScore, dislikes, rowPk, nreq>>

(* Line 81 raises (a database error, or the worker is killed): the color  *)
(* scores are already committed, the product scores are not.              *)
ProductWriteFails(w) ==
    /\ pc[w] = "wroteColors"
    /\ "write_error" \in Faults
    /\ pc' = [pc EXCEPT ![w] = "idle"]
    /\ req' = [req EXCEPT ![w] = NoReq]
    /\ UNCHANGED <<colorScore, productScore, dislikes, rowPk, nreq>>

(* The bound is reached and every worker has returned: the model stops.   *)
Done ==
    /\ nreq = MaxRequests
    /\ \A w \in Workers : pc[w] = "idle"
    /\ UNCHANGED vars

Next ==
    \/ \E w \in Workers :
          \/ \E b \in Batches : RecordDislikes(w, b[1], b[2])
          \/ ServiceFails(w)
          \/ ServiceAnswers(w)
          \/ ServiceAnswersMalformed(w)
          \/ ReadScores(w)
          \/ WriteColorScores(w)
          \/ WriteProductScores(w)
          \/ ProductWriteFails(w)
    \/ Done

Spec == Init /\ [][Next]_vars

-----------------------------------------------------------------------------
(***************************************************************************)
(* Refinement: the handler's steps, seen through a mapping, are the        *)
(* atomic mutations of PreferenceUpdateAtomic.  A mutation takes effect   *)
(* when it returns: until then its dislike rows are not counted and the   *)
(* rows it already wrote show the scores it read.  (The mapping is exact   *)
(* while at most one worker has written rows it has not yet answered      *)
(* for; with two such workers on one row it picks one of their reads.)   *)
(***************************************************************************)
InFlight == {w \in Workers : pc[w] # "idle"}

AbsDislikes ==
    [c \in Colors |-> dislikes[c]
                        - Cardinality({w \in InFlight : c \in req[w].dis})]

AbsColorScore ==
    LET written == {w \in Workers : pc[w] = "wroteColors"}
        reverted == {c \in ScoredColors : \E w \in written : c \in DOMAIN req[w].read}
        old(c) == (CHOOSE w \in written : c \in DOMAIN req[w].read)
    IN [c \in ScoredColors |->
           IF c \in reverted THEN req[old(c)].read[c] ELSE colorScore[c]]

Atomic == INSTANCE PreferenceUpdateAtomic
    WITH colorScore <- AbsColorScore,
         dislikes <- AbsDislikes,
         mutations <- nreq - Cardinality(InFlight)

(* The mutation is serializable: every run of the handlers is a run of    *)
(* atomic mutations (spec section 5: concurrent updates of one profile    *)
(* must not lose updates; section 4.3 step 6: the writes form one unit).  *)
AtomicMutations == Atomic!AtomicSpec

(* Every ProductScore equals the current score of one of its product's    *)
(* ProductColorScore rows, in the state the returned mutations leave: the *)
(* product write takes the minimum of the very scores the color write     *)
(* stored, and nothing else writes either table.                          *)
ReturnedProductScoreIsAColorScore == Atomic!ProductScoreIsAColorScore

-----------------------------------------------------------------------------
(* Spec 4.3 step 4 and section 8: a loaded row's new score is its old     *)
(* score plus the summed delta the service returned for that row's color. *)
DeltaKeyedByColor ==
    [][\A w \in Workers :
          pc[w] = "read" /\ pc'[w] = "wroteColors" =>
             \A c \in DOMAIN req[w].read :
                colorScore'[c] = req[w].read[c] + DeltaAt(req[w].delta, c)
      ]_vars

ReplyAlignedWithRequest ==
    \A w \in Workers :
        pc[w] \in {"answered", "read", "wroteColors"} =>
            /\ Cardinality(req[w].resp) = Cardinality(Ids(w))
            /\ DOMAIN req[w].delta = req[w].resp

=============================================================================
