\* Two workers serve the same user at once; the service may fail or answer out of contract, and the second bulk_update may fail.
CONSTANTS
    pA = pA
    pB = pB
    w1 = w1
    w2 = w2
    Products = {pA, pB}
    Colors = {1, 2, 3}
    ScoredColors = {1, 2, 3}
    PkIds = {1, 2, 3}
    Deltas <- MCDeltas
    ProductOf <- MCProductOf
    Workers = {w1, w2}
    MaxRequests = 2
    MaxBatch = 1
    Faults = {"service_error", "bad_response", "write_error"}
INIT Init
NEXT Next
SYMMETRY MCSymmetry
INVARIANTS
    TypeOK


