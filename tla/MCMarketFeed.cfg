SPECIFICATION FairSpec
CONSTANTS
    BookChCap = 2
    MaxTicks = 5
    MaxStream = 1
    Clients = {c1}
    NoClient = none
INVARIANTS
    NewestIsForwarded
    BookIsCurrent
PROPERTIES
    NeverBackwards
    BookFollowsStream
    BookIsForwarded
CHECK_DEADLOCK FALSE
