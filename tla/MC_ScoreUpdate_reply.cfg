\* One worker; the service answers 200 with arrays that may not match the request.
CONSTANTS
    pA = pA
    pB = pB
    w1 = w1
    w2 = w2
    Products = {pA, pB}
    Colors = {1, 2, 3}
    ScoredColors = {1, 2, 3}
    PkIds = {1, 2, 3}
    Deltas <- MCDeltas
    ProductOf <- MCProductOf
    Workers = {w1}
    MaxRequests = 1
    MaxBatch = 2
    Faults = {"bad_response"}
INIT Init
NEXT Next
INVARIANTS
    ReplyAlignedWithRequest
