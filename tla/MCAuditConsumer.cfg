\* An order of two items that arrives up to twice, a malformed message, two
\* handlers.
CONSTANTS
    m1 = m1
    m2 = m2
    h1 = h1
    h2 = h2
    Messages = {m1, m2}
    Malformed = {m2}
    Items <- MCItems
    Handlers = {h1, h2}
    NoRow = NoRow
    NoMessage = NoMessage
    MaxCopies = 2
    MaxAudits = 3
SPECIFICATION Spec
INVARIANTS
    TypeOK
    CopiesConserved
    AckedIsKept
    OnlyMalformedDropped
    DuplicatesExplained
PROPERTIES
    ImplementsDelivery
