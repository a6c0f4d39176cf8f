-------------------------- MODULE ProductColorReads --------------------------
(***************************************************************************)
(* The productColors field of ProductWPreference nodes                     *)
(* (src/saleor/graphql/preference/types.py): resolve_product_colors picks *)
(* one of three DataLoaders by the requestor's permissions and the node's *)
(* channel, loads the node's key, and the DataLoader later dispatches all *)
(* keys loaded so far in one batch_load.  Each key gets its product's    *)
(* colors (for the channel loaders, those listed in the node's channel), *)
(* ordered by the requesting user's score, highest first and unscored    *)
(* colors last.                                                            *)
(*                                                                         *)
(* The productColor nodes then resolve their variants through the        *)
(* loaders of src/saleor/graphql/preference/dataloaders.py.  Their        *)
(* caller, the ProductColor type, is outside this repository; it is      *)
(* taken to pick its loader by the rule resolve_product_colors uses.     *)
(*                                                                         *)
(* Datastore rows are constants of the request; the user's scores are    *)
(* any values, or no ProductColorScore row at all.                         *)
(***************************************************************************)
EXTENDS Naturals, FiniteSets, Sequences, SequencesExt

CONSTANTS
    Products,      \* Product rows
    Colors,        \* ProductColor rows
    ProductOf,     \* ProductColor.product, a function Colors -> Products
    ColorValue,    \* ProductColor.color, the AttributeValue of the color
    Variants,      \* ProductVariant rows
    VariantOf,     \* ProductVariant.product
    VariantValue,  \* the AttributeValue assigned to the variant's color attribute
    Scores,        \* values ProductColorScore.score may hold
    NoScore,       \* the user has no ProductColorScore row for the color
    Channels,      \* channel slugs
    ListedIn,      \* the channels of each ProductColor's ProductColorChannelListing rows
    NoChannel,     \* root.channel_slug is None
    Unset,         \* productColors not resolved yet
    Pending,       \* the node's key is loaded, the batch not dispatched yet
    Raised         \* the loader's batch raised an exception

ASSUME /\ ProductOf \in [Colors -> Products] /\ VariantOf \in [Variants -> Products]
       /\ DOMAIN ColorValue = Colors /\ DOMAIN VariantValue = Variants
       /\ Scores \subseteq Nat /\ ListedIn \in [Colors -> SUBSET Channels]

VARIABLES
    score,         \* the requesting user's score per color, or NoScore
    perms,         \* the requestor has one of ALL_PRODUCTS_PERMISSIONS
    channel,       \* the channel_slug of the nodes of the request
    roots,         \* products whose node resolves productColors
    queue,         \* per loader, the product ids loaded and not dispatched
    out,           \* per product: the list returned, Unset or Pending
    vqueue,        \* per variant loader, the product color ids loaded and not dispatched
    vout           \* per color: the variants returned, Unset, Pending or Raised

vars == <<score, perms, channel, roots, queue, out, vqueue, vout>>

Loaders == {"byProduct", "byProductAndChannel", "availableByProductAndChannel"}

VariantLoaders == {"byColor", "byColorAndChannel", "availableByColorAndChannel"}

ColorsOf(p) == {c \in Colors : ProductOf[c] = p}

(* Lines 111-123: the loader of the node: the plain by-product loader for *)
(* a requestor with product permissions and no channel, else a loader     *)
(* keyed by (product id, channel slug).                                   *)
LoaderFor ==
    CASE perms /\ channel = NoChannel -> "byProduct"
      [] perms -> "byProductAndChannel"
      [] OTHER -> "availableByProductAndChannel"

(* Line 40: order_by(F("score").desc(nulls_last=True)): row a may come    *)
(* before row b.  Rows with equal scores come in any order.              *)
OrderedBefore(a, b) ==
    \/ score[b] = NoScore
    \/ score[a] # NoScore /\ score[a] >= score[b]

(* Lines 40 and 69, evaluated by .iterator(): the ProductColor rows S,  *)
(* annotated with the user's score, in any order the ORDER BY allows.     *)
QueryResults(S) ==
    {s \in SetToSeqs(S) : IsSorted(s, OrderedBefore)}

(* Lines 41-46: product_color_map groups the rows by product_id in row    *)
(* order; a key with no rows gets [].                                      *)
GroupByProduct(s, p) == SelectSeq(s, LAMBDA c : ProductOf[c] = p)

(* Any user scores; a requestor without product permissions always has a *)
(* channel, because products_by_score and product_w_preference fall back *)
(* to the default channel (schema.py lines 115-116 and 266-267).         *)
ReadsInit ==
    /\ score \in [Colors -> Scores \cup {NoScore}]
    /\ perms \in BOOLEAN
    /\ channel \in Channels \cup {NoChannel}
    /\ perms \/ channel # NoChannel
    /\ roots \in SUBSET Products \ {{}}
    /\ queue = [l \in Loaders |-> {}]
    /\ out = [p \in Products |-> Unset]
    /\ vqueue = [l \in VariantLoaders |-> {}]
    /\ vout = [c \in Colors |-> Unset]

(* Lines 109-131: the node of product p loads its key into its loader.    *)
ResolveProductColors(p) ==
    /\ p \in roots
    /\ out[p] = Unset
    /\ queue' = [queue EXCEPT ![LoaderFor] = @ \cup {p}]
    /\ out' = [out EXCEPT ![p] = Pending]
    /\ UNCHANGED <<score, perms, channel, roots, vqueue, vout>>

(* Lines 27-46: ProductColorsWPreferenceByProductIdLoader.batch_load over *)
(* the pending keys; every key gets its product's rows in query order.    *)
DispatchByProduct ==
    /\ queue["byProduct"] # {}
    /\ \E s \in QueryResults(UNION {ColorsOf(p) : p \in queue["byProduct"]}) :
          out' = [p \in Products |->
                     IF p \in queue["byProduct"] THEN GroupByProduct(s, p) ELSE out[p]]
    /\ queue' = [queue EXCEPT !["byProduct"] = {}]
    /\ UNCHANGED <<score, perms, channel, roots, vqueue, vout>>

(* Lines 52-82 and 91-98: the channel loaders' batch_load over the       *)
(* (product id, channel slug) keys.  The rows are the colors of the keys' *)
(* products listed in the request's channel (one listing per color and    *)
(* channel, models.py line 47), annotated with that slug.  The score      *)
(* subquery's product_score__product_id__in=keys keeps the first element *)
(* of each key tuple, the product id, so the scores are the user's as in  *)
(* the by-product loader.  Rows are grouped by (product_id, channel_slug),*)
(* and each key gets its product's listed colors in query order.          *)
DispatchByProductAndChannel(l) ==
    /\ l # "byProduct"
    /\ queue[l] # {}
    /\ \E s \in QueryResults({c \in UNION {ColorsOf(p) : p \in queue[l]} : channel \in ListedIn[c]}) :
          out' = [p \in Products |->
                     IF p \in queue[l] THEN GroupByProduct(s, p) ELSE out[p]]
    /\ queue' = [queue EXCEPT ![l] = {}]
    /\ UNCHANGED <<score, perms, channel, roots, vqueue, vout>>

(* The variant loader of a productColor node, picked as in LoaderFor.    *)
VariantLoaderFor ==
    CASE perms /\ channel = NoChannel -> "byColor"
      [] perms -> "byColorAndChannel"
      [] OTHER -> "availableByColorAndChannel"

(* A productColor node c loads its id into its variant loader.  The node  *)
(* may come from a productColors list or from the product queries outside *)
(* this repository, so any color may be loaded.  The variants field is   *)
(* one level below productColors, so it resolves after that level.       *)
ResolveVariants(c) ==
    /\ \A p \in roots : out[p] \notin {Unset, Pending}
    /\ vout[c] = Unset
    /\ vqueue' = [vqueue EXCEPT ![VariantLoaderFor] = @ \cup {c}]
    /\ vout' = [vout EXCEPT ![c] = Pending]
    /\ UNCHANGED <<score, perms, channel, roots, queue, out>>

(* dataloaders.py lines 19-22: the variants of the color's product that   *)
(* carry the color's attribute value.                                      *)
VariantsOfColor(c) ==
    {x \in Variants : VariantOf[x] = ProductOf[c] /\ VariantValue[x] = ColorValue[c]}

(* dataloaders.py lines 13-27: ProductVariantsByProductColorIdLoader.     *)
(* batch_load: one variants query per loaded product color.               *)
DispatchByColor ==
    /\ vqueue["byColor"] # {}
    /\ vout' = [c \in Colors |->
                  IF c \in vqueue["byColor"] THEN VariantsOfColor(c) ELSE vout[c]]
    /\ vqueue' = [vqueue EXCEPT !["byColor"] = {}]
    /\ UNCHANGED <<score, perms, channel, roots, queue, out>>

(* dataloaders.py lines 33-73: the channel variant loaders.  The loop     *)
(* body annotates with F(...), and F is not imported in dataloaders.py:   *)
(* the first product color row raises NameError and the batch fails.     *)
(* The keys are ids of existing product colors, so there is a row.        *)
DispatchByColorAndChannel(l) ==
    /\ l # "byColor"
    /\ vqueue[l] # {}
    /\ vout' = [c \in Colors |-> IF c \in vqueue[l] THEN Raised ELSE vout[c]]
    /\ vqueue' = [vqueue EXCEPT ![l] = {}]
    /\ UNCHANGED <<score, perms, channel, roots, queue, out>>

(* Every requested field is resolved: the response is sent.               *)
ReadsDone ==
    /\ \A p \in roots : out[p] \notin {Unset, Pending}
    /\ \A c \in Colors : vout[c] # Pending
    /\ UNCHANGED vars

ReadsNext ==
    \/ \E p \in Products : ResolveProductColors(p)
    \/ DispatchByProduct
    \/ \E l \in Loaders : DispatchByProductAndChannel(l)
    \/ \E c \in Colors : ResolveVariants(c)
    \/ DispatchByColor
    \/ \E l \in VariantLoaders : DispatchByColorAndChannel(l)
    \/ ReadsDone

ReadsSpec == ReadsInit /\ [][ReadsNext]_vars

=============================================================================
