\* One worker: mutations of the profile run one after the other; the service may fail or answer out of contract.
CONSTANTS
    pA = pA
    pB = pB
    w1 = w1
    w2 = w2
    Products = {pA, pB}
    Colors = {1, 2, 3}
    ScoredColors = {1, 2, 3}
    PkIds = {1, 2, 3}
    Deltas <- MCDeltas
    ProductOf <- MCProductOf
    Workers = {w1}
    MaxRequests = 2
    MaxBatch = 2
    Faults = {"service_error", "bad_response"}
INIT Init
NEXT Next
INVARIANTS
    ReturnedProductScoreIsAColorScore
PROPERTIES
    AtomicMutations
