\* A batch of up to three orders of up to three items, next to an order of
\* another customer; two lists.  An item takes 136 bytes: append doubles, up to 16.
CONSTANTS
    c1 = c1
    c2 = c2
    k1 = k1
    k2 = k2
    l1 = l1
    l2 = l2
    Creates = {c1, c2}
    Lists = {l1, l2}
    Customers = {k1, k2}
    Batches <- MCBatches
    Requests <- MCRequests
    Capacities = {1, 2, 4, 8, 16}
SPECIFICATION Spec
INVARIANTS
    TypeOK
    ListedWhole
    KnownAreListed
    KeptExactlyWhenAligned
PROPERTY
    ImplementsStore
\* The calls end.
CHECK_DEADLOCK FALSE
