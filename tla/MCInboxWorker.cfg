\* An order of two items and one of a single item, two retries, both in one
\* batch.
CONSTANTS
    m1 = m1
    m2 = m2
    Messages = {m1, m2}
    Items <- MCItems
    NoRow = NoRow
    MaxRetries = 2
    BatchSize = 2
    MaxAudits = 2
SPECIFICATION FairSpec
INVARIANTS
    TypeOK
    SnapshotFresh
PROPERTIES
    ImplementsTable
    EveryRowSettles
