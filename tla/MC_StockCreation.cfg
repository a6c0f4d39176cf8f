\* Two create_stocks calls for one variant, any arguments, any committed stocks.
\* No symmetry: the run checks a liveness property.
CONSTANTS
    c1 = c1
    c2 = c2
    w1 = w1
    w2 = w2
    Callers = {c1, c2}
    Warehouses = {w1, w2}
    Times = {0}
    Quantities = {1, 2}
    MaxLen = 2
SPECIFICATION StockCreationFairSpec
INVARIANTS
    NoStockFromFailedCall
PROPERTIES
    EveryCallReturns
