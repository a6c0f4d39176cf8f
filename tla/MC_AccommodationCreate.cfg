\* Two concurrent accommodation mutations, any inputs of up to two entries.
\* No symmetry: the run checks a liveness property.
CONSTANTS
    c1 = c1
    c2 = c2
    n1 = n1
    n2 = n2
    Callers = {c1, c2}
    Names = {n1, n2}
    MaxLen = 2
SPECIFICATION AccommodationFairSpec
INVARIANTS
    BulkCreateAllOrNothing
PROPERTIES
    EveryCallReturns
