\* One worker; no faults.
CONSTANTS
    pA = pA
    pB = pB
    w1 = w1
    w2 = w2
    Products = {pA, pB}
    Colors = {1, 2, 3}
    ScoredColors = {1, 2, 3}
    PkIds = {1, 2, 3}
    Deltas <- MCDeltas
    ProductOf <- MCProductOf
    Workers = {w1}
    MaxRequests = 1
    MaxBatch = 2
    Faults = {}
INIT Init
NEXT Next
PROPERTIES
    DeltaKeyedByColor
