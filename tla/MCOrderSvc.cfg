\* Two calls of one order each, and the worker, on a pool of two connections.
CONSTANTS
    Requests = {r1, r2}
    r1 = r1
    r2 = r2
    MaxBatch = 1
    PoolSize = 2
    NoRow = NoRow
    MaxRetries = 1
    BatchSize = 1
    Backoff <- MCBackoff
    MaxRedo = 1
SPECIFICATION FairSpec
INVARIANTS
    NothingForgotten
    SentOnce
PROPERTIES
    ImplementsWorker
    ImplementsCalls
    CommittedSettles
