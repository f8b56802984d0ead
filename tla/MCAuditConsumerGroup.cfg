\* A message that cannot be decoded, and the orders that come after it.
CONSTANTS
    m1 = m1
    m2 = m2
    h1 = h1
    h2 = h2
    Messages = {m1, m2}
    Malformed = {m2}
    Items <- MCItems
    Handlers = {h1, h2}
    NoRow = NoRow
    NoMessage = NoMessage
    MaxCopies = 1
    MaxAudits = 1
SPECIFICATION FairSpec
PROPERTIES
    EveryMessageHandled
