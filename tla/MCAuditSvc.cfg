\* An order of two items that arrives up to twice, two handlers, the worker.
CONSTANTS
    m1 = m1
    h1 = h1
    h2 = h2
    Messages = {m1}
    Malformed = {}
    Items <- MCItems
    Handlers = {h1, h2}
    NoRow = NoRow
    NoMessage = NoMessage
    MaxCopies = 2
    MaxAudits = 1
    MaxRetries = 2
    BatchSize = 1
SPECIFICATION FairSpec
INVARIANTS
    AckedIsKept
PROPERTIES
    ImplementsTable
    ImplementsDelivery
    AckedSettles
