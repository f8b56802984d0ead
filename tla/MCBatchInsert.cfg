\* Two calls of up to two orders, with one connection more than there are
\* calls.
CONSTANTS
    Requests = {r1, r2}
    r1 = r1
    r2 = r2
    MaxBatch = 2
    PoolSize = 3
SPECIFICATION FairSpec
INVARIANTS
    TypeOK
    CommittedHandedOver
    HandedOverOnce
    PhantomOnlyOnError
PROPERTIES
    ConnectionReturned
    ImplementsAuditedCommit
    CallsTerminate
