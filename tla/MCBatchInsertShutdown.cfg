\* A connection kept by a failed insert, and the shutdown that waits for it.
CONSTANTS
    Requests = {r1, r2}
    r1 = r1
    r2 = r2
    MaxBatch = 1
    PoolSize = 2
SPECIFICATION FairSpec
PROPERTIES
    ShutdownCompletes
