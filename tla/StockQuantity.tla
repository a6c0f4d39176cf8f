---------------------------- MODULE StockQuantity ----------------------------
(***************************************************************************)
(* The rental-window quantities of a Stock (src/saleor/graphql/warehouse/ *)
(* types.py, Stock.resolve_quantity_allocated, resolve_quantity_reserved  *)
(* and resolve_quantity_available).  Given datetime_start and            *)
(* datetime_end, the allocated and available resolvers sum               *)
(* Allocation.quantity_allocated over the allocations whose order's      *)
(* rental starts in the window or ends in the window.                     *)
(*                                                                         *)
(* A request resolves the three fields of one Stock, in any order, for   *)
(* one window; each aggregate is its own query.  Datetimes are small     *)
(* integers: the filters only compare them.  The window arguments are    *)
(* not validated, so a window may end before it starts.                  *)
(***************************************************************************)
EXTENDS Naturals, FiniteSets, FiniteSetsExt

CONSTANTS
    AllocIds,      \* Allocation rows of the stock
    Times,         \* datetimes, a finite set of naturals
    MaxQty,        \* bound on Allocation.quantity_allocated
    Quantity,      \* Stock.quantity
    NoWindow,      \* datetime_start or datetime_end is None
    Unset,         \* a field not resolved yet
    Annotated,     \* the value of a quantity annotation of the queryset
    Raised         \* the resolver raised an exception

ASSUME Times \subseteq Nat /\ Quantity \in Nat

VARIABLES
    allocs,        \* per allocation: [start, end, qty] of its order's rental, or Unset if absent
    window,        \* [start, end] of the arguments, or NoWindow
    allocated,     \* the value returned for quantityAllocated
    available,     \* the value returned for quantityAvailable
    reserved,      \* the value returned for quantityReserved
    reservations   \* is_reservation_enabled(site.settings)

vars == <<allocs, window, allocated, available, reserved, reservations>>

(* An order's rental period: rental_start <= rental_end.                  *)
Periods == {p \in [start : Times, end : Times] : p.start <= p.end}

Allocation == {[start |-> p.start, end |-> p.end, qty |-> q] : p \in Periods, q \in 1..MaxQty}

(* The allocations that exist.                                             *)
Present == {a \in AllocIds : allocs[a] # Unset}

(* Mutant: the rental_start__lte=datetime_end half of the first clause is *)
(* dropped.                                                                *)
InWindowStartOpen(r, w) ==
    \/ w.start <= r.start
    \/ w.start <= r.end /\ r.end <= w.end

(* The filter of the Sum: the rental starts in [start, end] or ends in    *)
(* [start, end], both bounds inclusive (__gte, __lte).                    *)
InWindow(r, w) ==
    \/ w.start <= r.start /\ r.start <= w.end
    \/ w.start <= r.end /\ r.end <= w.end

(* Coalesce(Sum("quantity_allocated", filter=...), 0).                     *)
WindowSum(w) ==
    MapThenSumSet(LAMBDA a : allocs[a].qty, {a \in Present : InWindow(allocs[a], w)})

(* Mutant: the copy of the filter in resolve_quantity_available only      *)
(* keeps the rental_start clause.                                          *)
AvailableFilterStartOnly(r, w) ==
    w.start <= r.start /\ r.start <= w.end

(* Lines 307-312: the filter of the Sum in resolve_quantity_available, a *)
(* second copy of the one in resolve_quantity_allocated.                   *)
AvailableFilter(r, w) ==
    \/ w.start <= r.start /\ r.start <= w.end
    \/ w.start <= r.end /\ r.end <= w.end

(* root.quantity minus Coalesce(Sum("quantity_allocated", filter=...), 0) *)
(* under that copy of the filter.                                          *)
AvailableInWindow(w) ==
    Quantity - MapThenSumSet(LAMBDA a : allocs[a].qty,
                             {a \in Present : AvailableFilter(allocs[a], w)})

StockTypeOK ==
    /\ allocs \in [AllocIds -> Allocation \cup {Unset}]
    /\ window \in [start : Times, end : Times] \cup {NoWindow}
    /\ allocated \in Nat \cup {Unset, Annotated}
    /\ available \in Int \cup {Unset, Annotated}
    /\ reserved \in {0, Unset, Annotated, Raised}
    /\ reservations \in BOOLEAN

(* A stock with any allocations of valid orders, queried over any window, *)
(* with reservations enabled or not in the site settings.                *)
StockInit ==
    /\ allocs \in [AllocIds -> Allocation \cup {Unset}]
    /\ window \in [start : Times, end : Times] \cup {NoWindow}
    /\ allocated = Unset
    /\ available = Unset
    /\ reserved = Unset
    /\ reservations \in BOOLEAN

(* resolve_quantity_allocated: with both datetimes the windowed aggregate, *)
(* else the allocated_quantity annotation of the queryset.                 *)
ResolveQuantityAllocated ==
    /\ allocated = Unset
    /\ allocated' = IF window = NoWindow THEN Annotated ELSE WindowSum(window)
    /\ UNCHANGED <<allocs, window, available, reserved, reservations>>

(* resolve_quantity_available: with both datetimes, quantity minus the    *)
(* windowed aggregate, else the available_quantity annotation.             *)
ResolveQuantityAvailable ==
    /\ available = Unset
    /\ available' = IF window = NoWindow THEN Annotated ELSE AvailableInWindow(window)
    /\ UNCHANGED <<allocs, window, allocated, reserved, reservations>>

(* resolve_quantity_reserved: 0 when reservations are disabled; with both *)
(* datetimes the Sum is given a tuple of two Q objects as its filter, and *)
(* resolving the aggregate calls the tuple's resolve_expression, which    *)
(* raises AttributeError; else the reserved_quantity annotation.          *)
ResolveQuantityReserved ==
    /\ reserved = Unset
    /\ reserved' = CASE ~reservations -> 0
                      [] window # NoWindow -> Raised
                      [] OTHER -> Annotated
    /\ UNCHANGED <<allocs, window, allocated, available, reservations>>

(* Every field is resolved: the response is sent.                          *)
Resolved ==
    /\ allocated # Unset /\ available # Unset /\ reserved # Unset
    /\ UNCHANGED vars

StockNext ==
    \/ ResolveQuantityAllocated
    \/ ResolveQuantityAvailable
    \/ ResolveQuantityReserved
    \/ Resolved

StockSpec == StockInit /\ [][StockNext]_vars

-----------------------------------------------------------------------------
(* The reference meaning of "allocated within the window": the window is  *)
(* not empty and the rental period shares at least one instant with it.  *)
Overlaps(r, w) == w.start <= w.end /\ r.start <= w.end /\ w.start <= r.end

RefWindowSum(w) ==
    MapThenSumSet(LAMBDA a : allocs[a].qty, {a \in Present : Overlaps(allocs[a], w)})

Windowed == window # NoWindow

(* quantityAllocated never counts an allocation whose rental lies wholly  *)
(* outside the window: every allocation the two-clause filter admits      *)
(* overlaps the window, so the windowed sum is at most the overlapping    *)
(* quantity.                                                               *)
AllocatedOnlyOverlapping ==
    Windowed /\ allocated # Unset => allocated <= RefWindowSum(window)

(* The two resolvers agree: for one window, quantityAvailable is exactly  *)
(* quantity minus quantityAllocated.  The filter is written out twice in  *)
(* types.py (lines 264-269 and 307-312); an edit to one copy alone makes  *)
(* the two fields of one response contradict each other.                  *)
AvailableIsQuantityMinusAllocated ==
    Windowed /\ allocated # Unset /\ available # Unset =>
        available = Quantity - allocated

(* quantityAllocated counts every allocation whose rental overlaps the    *)
(* window, so quantityAvailable is what checkouts may still book for it.  *)
AllocatedCoversWindow ==
    Windowed /\ allocated # Unset => allocated = RefWindowSum(window)

=============================================================================
