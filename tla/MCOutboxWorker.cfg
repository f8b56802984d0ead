\* Two messages in one batch, two retries, one publish per message may be
\* left without its delete.
CONSTANTS
    Messages = {m1, m2}
    m1 = m1
    m2 = m2
    NoRow = NoRow
    MaxRetries = 2
    BatchSize = 2
    Backoff <- MCBackoff
    MaxRedo = 1
SPECIFICATION FairSpec
INVARIANTS
    TypeOK
    DuplicatesExplained
    SnapshotFresh
    AbandonedOnlyAfterWindow
PROPERTIES
    AbandonedStaysSilent
    ImplementsTable
    EveryRowSettles
