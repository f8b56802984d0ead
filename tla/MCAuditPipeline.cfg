\* One order, whose message is published up to three times.
CONSTANTS
    Messages = {m1}
    MaxRetries = 2
    MaxCopies = 3
SPECIFICATION FairSpec
INVARIANTS
    CommittedAccounted
PROPERTIES
    CommittedSettles
