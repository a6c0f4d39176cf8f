\* One worker; the second bulk_update may fail.
CONSTANTS
    pA = pA
    pB = pB
    w1 = w1
    w2 = w2
    Products = {pA, pB}
    Colors = {1, 2, 3}
    ScoredColors = {1, 2, 3}
    PkIds = {1, 2, 3}
    Deltas <- MCDeltas
    ProductOf <- MCProductOf
    Workers = {w1}
    MaxRequests = 2
    MaxBatch = 2
    Faults = {"write_error"}
INIT Init
NEXT Next
PROPERTIES
    AtomicMutations
