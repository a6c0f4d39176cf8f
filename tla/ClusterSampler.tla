--------------------------- MODULE ClusterSampler ---------------------------
(***************************************************************************)
(* PreferenceQueries.resolve_products_by_score                             *)
(* (src/saleor/graphql/preference/schema.py, lines 104-251): with an ids  *)
(* filter, a page of the filtered products; otherwise the feed of up to  *)
(* n products drawn cluster by cluster from the user's ProductColorScore  *)
(* history over the visible candidate products.                           *)
(*                                                                         *)
(* Every random draw (the Bernoulli split of the 3n trials, the cluster   *)
(* draws from the two softmax distributions, the shuffle, the color draw  *)
(* within a cluster) is a nondeterministic choice over the values it can  *)
(* take.  A softmax of finite scores gives every entry a positive weight, *)
(* so the score values only change probabilities, never what can happen: *)
(* the history is the set of colors that have a score row.  A softmax    *)
(* over a vector containing NaN is the exception, and is modelled.        *)
(***************************************************************************)
EXTENDS Naturals, FiniteSets, Sequences, SequencesExt

CONSTANTS
    Products,      \* Product rows
    Colors,        \* ProductColor rows
    ProductOf,     \* ProductColor.product, a function Colors -> Products
    Clusters,      \* values of ProductColor.cluster
    NoCluster,     \* ProductColor.cluster IS NULL
    MaxN,          \* bound on the page size `first`
    NoFirst        \* the request gives no `first` argument

ASSUME /\ ProductOf \in [Colors -> Products]
       /\ NoCluster \notin Clusters

VARIABLES
    candidates,    \* ids of the products of the filtered queryset `qs`
    idsFilter,     \* the filter argument has an "ids" entry
    profile,       \* the user has a ProductPreference row
    cluster,       \* ProductColor.cluster per color
    history,       \* colors with a ProductColorScore row of the user
    n,             \* kwargs["first"], or NoFirst
    pc,            \* "start", "sampling", "done" or "error" (ValueError raised)
    draws,         \* sampled_clusters, the shuffled 3n cluster draws
    i,             \* index of the next draw the loop looks at
    samples,       \* product_samples
    result         \* products of the returned edges

vars == <<candidates, idsFilter, profile, cluster, history, n, pc, draws, i, samples, result>>

(* Mutant: the .exclude(cluster__isnull=True) of line 169 is dropped.   *)
ProductColorsQWithNull == {c \in Colors : ProductOf[c] \in candidates}

(* Lines 166-170: colors of candidate products that have a cluster.       *)
ProductColorsQ == {c \in Colors : ProductOf[c] \in candidates /\ cluster[c] # NoCluster}

(* Line 173: the distinct clusters among them.                            *)
ClusterList == {cluster[c] : c \in ProductColorsQ}

(* Mutant: user_scores is not restricted to product_colors.              *)
DfAllColors == {c \in history : cluster[c] # NoCluster}

(* Lines 176-184: the rows of df, the user's scores of those colors.      *)
Df == history \cap ProductColorsQ

(* Line 188-190: a cluster of ClusterList with no df row is NaN after the *)
(* reindex, and so is every softmax weight computed from the vector.     *)
NaNClusters == ClusterList \ {cluster[c] : c \in Df}

(* Lines 155-161 and 193-201: softmax raises or yields NaN weights, and   *)
(* rng.choice raises ValueError, when a weight is NaN or the cluster      *)
(* vector is empty (np.max of a zero-size array).                         *)
SoftmaxFails == NaNClusters # {} \/ ClusterList = {}

SamplerTypeOK ==
    /\ candidates \subseteq Products
    /\ idsFilter \in BOOLEAN
    /\ profile \in BOOLEAN
    /\ cluster \in [Colors -> Clusters \cup {NoCluster}]
    /\ history \subseteq Colors
    /\ n \in 0..MaxN \cup {NoFirst}
    /\ pc \in {"start", "sampling", "done", "error"}
    /\ draws \in Seq(Clusters)
    /\ i \in 1..(3 * MaxN + 1)
    /\ samples \in Seq(Products)
    /\ result \subseteq Products

(* A request: any visible candidate set, with or without an ids filter,  *)
(* any clustering of the catalog, any set of scored colors, any page     *)
(* size or none.  Scores are rows of the user's ProductPreference, so a user     *)
(* without one has no history.                                             *)
SamplerInit ==
    /\ candidates \in SUBSET Products
    /\ idsFilter \in BOOLEAN
    /\ profile \in BOOLEAN
    /\ cluster \in [Colors -> Clusters \cup {NoCluster}]
    /\ history \in IF profile THEN SUBSET Colors ELSE {{}}
    /\ n \in 0..MaxN \cup {NoFirst}
    /\ pc = "start"
    /\ draws = <<>>
    /\ i = 1
    /\ samples = <<>>
    /\ result = {}

(* Lines 139-149: with an ids filter, create_connection_slice returns the *)
(* first n products of the filtered queryset.                              *)
ReturnIdsPage ==
    /\ pc = "start"
    /\ idsFilter
    /\ n # NoFirst
    /\ \E page \in SUBSET candidates :
          /\ Cardinality(page) = IF n < Cardinality(candidates) THEN n ELSE Cardinality(candidates)
          /\ result' = page
    /\ pc' = "done"
    /\ UNCHANGED <<candidates, idsFilter, profile, cluster, history, n, draws, i, samples>>

(* Lines 146-149 without `first`: create_connection_slice pages from the  *)
(* end with `last`, any m of them, or rejects a request that gives       *)
(* neither.                                                                *)
IdsPageWithoutFirst ==
    /\ pc = "start"
    /\ idsFilter
    /\ n = NoFirst
    /\ \/ /\ pc' = "error"
          /\ UNCHANGED result
       \/ /\ \E m \in 0..MaxN, page \in SUBSET candidates :
                /\ Cardinality(page) = IF m < Cardinality(candidates) THEN m ELSE Cardinality(candidates)
                /\ result' = page
          /\ pc' = "done"
    /\ UNCHANGED <<candidates, idsFilter, profile, cluster, history, n, draws, i, samples>>

(* Line 162 without `first`: kwargs["first"] raises KeyError; if the     *)
(* argument is passed as None, 3 * n raises TypeError at line 198.  Both  *)
(* end in an error; only a request that reaches NoHistory first returns.  *)
FirstMissing ==
    /\ pc = "start"
    /\ ~idsFilter
    /\ n = NoFirst
    /\ pc' = "error"
    /\ UNCHANGED <<candidates, idsFilter, profile, cluster, history, n, draws, i, samples, result>>

(* Line 165: ProductPreference.objects.get(user=user) raises DoesNotExist. *)
NoProfile ==
    /\ pc = "start"
    /\ ~idsFilter /\ ~profile
    /\ pc' = "error"
    /\ UNCHANGED <<candidates, idsFilter, profile, cluster, history, n, draws, i, samples, result>>

(* Lines 231-232: no history over the candidates, no edges.              *)
NoHistory ==
    /\ pc = "start"
    /\ ~idsFilter /\ profile
    /\ Df = {}
    /\ pc' = "done"
    /\ UNCHANGED <<candidates, idsFilter, profile, cluster, history, n, draws, i, samples, result>>

(* Lines 188-201: the cluster weights cannot be computed and ValueError   *)
(* is raised, whatever the number of draws.                               *)
SoftmaxNaN ==
    /\ pc = "start"
    /\ ~idsFilter /\ profile
    /\ n # NoFirst
    /\ Df # {}
    /\ SoftmaxFails
    /\ pc' = "error"
    /\ UNCHANGED <<candidates, idsFilter, profile, cluster, history, n, draws, i, samples, result>>

(* Lines 188-204: 3n cluster draws, split at random between the sharp and *)
(* the smooth distribution and shuffled: any sequence of 3n clusters.     *)
DrawClusters ==
    /\ pc = "start"
    /\ ~idsFilter /\ profile
    /\ n # NoFirst
    /\ Df # {}
    /\ ~SoftmaxFails
    /\ \E s \in [1..(3 * n) -> ClusterList] : draws' = s
    /\ pc' = "sampling"
    /\ UNCHANGED <<candidates, idsFilter, profile, cluster, history, n, i, samples, result>>

(* Lines 211-212: the df rows of cluster c whose product is not sampled. *)
FreshRows(c) == {r \in Df : cluster[r] = c /\ ProductOf[r] \notin ToSet(samples)}

(* Mutant: the isin filter of line 212 is dropped.                        *)
SampleClusterAnyRow ==
    /\ pc = "sampling"
    /\ Len(samples) # n
    /\ i <= Len(draws)
    /\ LET rows == {r \in Df : cluster[r] = draws[i]}
       IN IF rows = {}
          THEN UNCHANGED samples
          ELSE \E r \in rows : samples' = Append(samples, ProductOf[r])
    /\ i' = i + 1
    /\ UNCHANGED <<candidates, idsFilter, profile, cluster, history, n, pc, draws, result>>

(* Lines 208-219, one iteration: unless n products are collected, take    *)
(* the next drawn cluster; skip it if it has no fresh row, else draw one *)
(* of its fresh rows (softmax, temperature 1) and append its product.    *)
SampleCluster ==
    /\ pc = "sampling"
    /\ Len(samples) # n
    /\ i <= Len(draws)
    /\ LET rows == FreshRows(draws[i])
       IN IF rows = {}
          THEN UNCHANGED samples
          ELSE \E r \in rows : samples' = Append(samples, ProductOf[r])
    /\ i' = i + 1
    /\ UNCHANGED <<candidates, idsFilter, profile, cluster, history, n, pc, draws, result>>

(* Lines 208-210 and 221-251: the loop ends (n collected or draws used   *)
(* up) and the edges are the Product rows whose id is in product_samples. *)
ReturnFeed ==
    /\ pc = "sampling"
    /\ Len(samples) = n \/ i > Len(draws)
    /\ result' = ToSet(samples)
    /\ pc' = "done"
    /\ UNCHANGED <<candidates, idsFilter, profile, cluster, history, n, draws, i, samples>>

(* The resolver has returned or raised.                                   *)
Returned ==
    /\ pc \in {"done", "error"}
    /\ UNCHANGED vars

SamplerNext ==
    \/ ReturnIdsPage
    \/ IdsPageWithoutFirst
    \/ FirstMissing
    \/ NoProfile
    \/ NoHistory
    \/ SoftmaxNaN
    \/ DrawClusters
    \/ SampleCluster
    \/ ReturnFeed
    \/ Returned

SamplerSpec == SamplerInit /\ [][SamplerNext]_vars

-----------------------------------------------------------------------------
(* The sampled feed only shows products of the visible, filtered         *)
(* queryset, each through a clustered color the user has a score for:    *)
(* the history query                                                       *)
(* (line 176-179) must be restricted to the candidates' colors, or the    *)
(* feed leaks products hidden from the channel or the filter.             *)
FeedWithinCandidates ==
    pc = "done" /\ ~idsFilter =>
        \A p \in result :
            /\ p \in candidates
            /\ \E c \in history : ProductOf[c] = p /\ cluster[c] # NoCluster

(* Spec section 8: the feed never holds a product twice and never more    *)
(* than n products.  The walk excludes already-sampled products from a    *)
(* cluster's rows and stops at n; product_samples is what the page count  *)
(* is checked against, so a duplicate there also shortens the feed.      *)
FeedIsNDistinct ==
    /\ IsInjective(samples)
    /\ n # NoFirst => Len(samples) <= n

(* Spec section 8: a request with a profile, a history over the          *)
(* candidates and a given `first` is served, never ended by an error       *)
(* (with n = 0 as an empty sequence); with n >= 1 the feed is not empty.   *)
(* It is about lines 188-201: the cluster softmax and the draws of 3n.     *)
FeedServedWhenHistoryExists ==
    pc \in {"done", "error"} /\ profile /\ Df # {} /\ n # NoFirst =>
        /\ pc = "done"
        /\ n >= 1 => result # {}

=============================================================================
