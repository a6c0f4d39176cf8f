---------------------------- MODULE StockCreation ----------------------------
(***************************************************************************)
(* create_stocks (src/saleor/graphql/product/utils.py, lines 73-106) for   *)
(* one product variant, called by a set of concurrent Callers.  The body  *)
(* runs in one database transaction (traced_atomic_transaction):          *)
(*   - bulk_create of Stock(warehouse, variant) over set(warehouses) with *)
(*     ignore_conflicts: one INSERT ... ON CONFLICT DO NOTHING whose rows *)
(*     go in the set's iteration order.  A row whose key another open     *)
(*     transaction has inserted waits for that transaction to end;        *)
(*   - the zip loop pairs stocks_data[i] with warehouses[i] and reads the *)
(*     stock of that warehouse;                                            *)
(*   - bulk_create of the StockWTimePeriod rows; IntegrityError becomes a *)
(*     ValidationError and the transaction rolls back.                     *)
(* Stock is unique per (warehouse, product_variant).  The constraint that *)
(* makes StockWTimePeriod raise IntegrityError is declared outside this   *)
(* repository, so any non-empty insert of periods may raise it.          *)
(***************************************************************************)
EXTENDS Naturals, FiniteSets, Sequences, SequencesExt

CONSTANTS
    Callers,       \* concurrent create_stocks calls for the variant
    Warehouses,    \* Warehouse rows
    Times,         \* availability datetimes, a finite set of naturals
    Quantities,    \* values of stock_data["quantity"]
    MaxLen         \* bound on the length of the two argument lists

VARIABLES
    stock,         \* warehouses with a committed Stock row for the variant
    periods,       \* committed StockWTimePeriod rows [wh, start, end, qty]
    initial,       \* the committed Stock rows before any call
    pc,            \* per caller: "idle", "inserting", "inserted", "done" or "error"
    input,         \* per caller: [ws |-> warehouses, data |-> stocks_data]
    order,         \* per caller: the Stock rows it still has to insert, in order
    pend           \* per caller: the Stock rows it inserted, not committed

vars == <<stock, periods, initial, pc, input, order, pend>>

StockData == {[start |-> s, end |-> e, qty |-> q] : s, e \in Times, q \in Quantities}

Args(S) == UNION {[1..k -> S] : k \in 0..MaxLen}

MinLen(a, b) == IF Len(a) < Len(b) THEN Len(a) ELSE Len(b)

(* Lines 91-99: one row per position of zip(stocks_data, warehouses), on  *)
(* the stock of that position's warehouse; zip stops at the shorter list. *)
Pairs(ws, data) ==
    {[wh |-> ws[i], start |-> data[i].start, end |-> data[i].end, qty |-> data[i].qty] :
        i \in 1..MinLen(ws, data)}

(* The rows a transaction holds uncommitted; its end releases them.       *)
HeldBy(d) == pend[d]

Blocked(c) == pc[c] = "inserting" /\ order[c] # <<>> /\
              \E d \in Callers \ {c} : Head(order[c]) \in HeldBy(d)

StockCreationInit ==
    /\ stock \in SUBSET Warehouses
    /\ periods = {}
    /\ initial = stock
    /\ pc = [c \in Callers |-> "idle"]
    /\ input = [c \in Callers |-> [ws |-> <<>>, data |-> <<>>]]
    /\ order = [c \in Callers |-> <<>>]
    /\ pend = [c \in Callers |-> {}]

(* Lines 73-87: the call opens its transaction and starts the INSERT of   *)
(* set(warehouses) in some iteration order.  The warehouses are any       *)
(* non-empty list, with repeats; stocks_data any list.                     *)
CreateStocks(c) ==
    /\ pc[c] = "idle"
    /\ \E ws \in Args(Warehouses) \ {<<>>}, data \in Args(StockData) :
          /\ input' = [input EXCEPT ![c] = [ws |-> ws, data |-> data]]
          /\ \E o \in SetToSeqs(ToSet(ws)) : order' = [order EXCEPT ![c] = o]
    /\ pc' = [pc EXCEPT ![c] = "inserting"]
    /\ UNCHANGED <<stock, periods, initial, pend>>

(* Mutant: the Stock insert runs outside the transaction and commits at   *)
(* once.                                                                   *)
InsertStockAutocommit(c) ==
    /\ pc[c] = "inserting"
    /\ order[c] # <<>>
    /\ ~Blocked(c)
    /\ stock' = stock \cup {Head(order[c])}
    /\ order' = [order EXCEPT ![c] = Tail(@)]
    /\ pc' = [pc EXCEPT ![c] = IF order'[c] = <<>> THEN "inserted" ELSE @]
    /\ UNCHANGED <<periods, initial, input, pend>>

(* Lines 81-87: the next row of the INSERT.  It waits while another open  *)
(* transaction holds the same key; a row already committed is skipped     *)
(* (ON CONFLICT DO NOTHING).                                               *)
InsertStock(c) ==
    /\ pc[c] = "inserting"
    /\ order[c] # <<>>
    /\ ~Blocked(c)
    /\ pend' = [pend EXCEPT ![c] = IF Head(order[c]) \in stock THEN @ ELSE @ \cup {Head(order[c])}]
    /\ order' = [order EXCEPT ![c] = Tail(@)]
    /\ pc' = [pc EXCEPT ![c] = IF order'[c] = <<>> THEN "inserted" ELSE @]
    /\ UNCHANGED <<stock, periods, initial, input>>

(* Mutant: the aborted call's rows are not released.                      *)
DeadlockAbortKeepRows(c) ==
    /\ Blocked(c)
    /\ \E d \in Callers \ {c} : Blocked(d) /\ Head(order[c]) \in HeldBy(d)
                                          /\ Head(order[d]) \in HeldBy(c)
    /\ pc' = [pc EXCEPT ![c] = "error"]
    /\ UNCHANGED <<stock, periods, initial, input, order, pend>>

(* Two callers each wait on a row the other holds: PostgreSQL's deadlock  *)
(* detector aborts one of them, the error leaves create_stocks and the    *)
(* transaction rolls back.                                                 *)
DeadlockAbort(c) ==
    /\ Blocked(c)
    /\ \E d \in Callers \ {c} : Blocked(d) /\ Head(order[c]) \in HeldBy(d)
                                          /\ Head(order[d]) \in HeldBy(c)
    /\ pc' = [pc EXCEPT ![c] = "error"]
    /\ pend' = [pend EXCEPT ![c] = {}]
    /\ UNCHANGED <<stock, periods, initial, input, order>>

(* Lines 88-106: the loop reads each position's stock (the lazy filter    *)
(* sees the committed rows and the caller's own), the periods are         *)
(* inserted and the transaction commits.                                   *)
CreatePeriods(c) ==
    /\ pc[c] = "inserted"
    /\ stock' = stock \cup pend[c]
    /\ periods' = periods \cup Pairs(input[c].ws, input[c].data)
    /\ pc' = [pc EXCEPT ![c] = "done"]
    /\ pend' = [pend EXCEPT ![c] = {}]
    /\ UNCHANGED <<initial, input, order>>

(* Lines 101-105: the period insert raises IntegrityError, re-raised as   *)
(* ValidationError; the transaction rolls back.                            *)
PeriodsIntegrityError(c) ==
    /\ pc[c] = "inserted"
    /\ Pairs(input[c].ws, input[c].data) # {}
    /\ pc' = [pc EXCEPT ![c] = "error"]
    /\ pend' = [pend EXCEPT ![c] = {}]
    /\ UNCHANGED <<stock, periods, initial, input, order>>

(* Every call has returned.                                                *)
AllReturned ==
    /\ \A c \in Callers : pc[c] \in {"done", "error"}
    /\ UNCHANGED vars

StockCreationNext ==
    \/ \E c \in Callers :
          \/ CreateStocks(c)
          \/ InsertStock(c)
          \/ DeadlockAbort(c)
          \/ CreatePeriods(c)
          \/ PeriodsIntegrityError(c)
    \/ AllReturned

StockCreationSpec == StockCreationInit /\ [][StockCreationNext]_vars

(* A call, once made, runs straight-line code against the database: each *)
(* of its steps is weakly fair, and PostgreSQL's detector aborts a        *)
(* deadlock after deadlock_timeout.  Making a call is the client's        *)
(* choice and is not fair.                                                 *)
StockCreationFairSpec ==
    /\ StockCreationSpec
    /\ \A c \in Callers :
          /\ WF_vars(InsertStock(c))
          /\ WF_vars(DeadlockAbort(c))
          /\ WF_vars(CreatePeriods(c) \/ PeriodsIntegrityError(c))

-----------------------------------------------------------------------------
(* create_stocks is all or nothing: every committed Stock row that did   *)
(* not exist before was created by a call that returned, and every      *)
(* period is on a committed stock, whatever calls failed, aborted on a   *)
(* deadlock or interleaved.                                                *)
NoStockFromFailedCall ==
    /\ \A w \in stock \ initial :
          \E c \in Callers : pc[c] = "done" /\ w \in ToSet(input[c].ws)
    /\ \A r \in periods : r.wh \in stock

(* Every create_stocks call returns, with its stocks or an error: a call  *)
(* waiting on another's Stock row is released when that transaction      *)
(* commits or rolls back, and of two calls waiting on each other one is   *)
(* aborted and releases its rows.                                          *)
EveryCallReturns ==
    \A c \in Callers : pc[c] \in {"inserting", "inserted"} ~> pc[c] \in {"done", "error"}

=============================================================================
