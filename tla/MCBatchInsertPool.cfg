\* Every connection of the pool holds a transaction that waits for another.
CONSTANTS
    Requests = {r1, r2}
    r1 = r1
    r2 = r2
    MaxBatch = 1
    PoolSize = 2
SPECIFICATION FairSpec
PROPERTIES
    SaveCompletes
