\* Any candidate set, clustering and history over the catalog.
CONSTANTS
    p1 = p1
    p2 = p2
    p3 = p3
    k1 = k1
    k2 = k2
    NoCluster = NoCluster
    Products = {p1, p2, p3}
    Colors = {1, 2, 3, 4}
    Clusters = {k1, k2}
    ProductOf <- MCProductOf
    MaxN = 2
    NoFirst = NoFirst
INIT SamplerInit
NEXT SamplerNext
INVARIANTS
    SamplerTypeOK
    FeedWithinCandidates
    FeedIsNDistinct
