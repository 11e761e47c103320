SPECIFICATION FairSpec
CONSTANTS
    BufferSize = 2
    MaxEvents = 5
    MaxKills = 1
INVARIANTS
    EveryEventAccounted
PROPERTIES
    AcceptedIsLogged
    WriterStops
    LogSpec
CHECK_DEADLOCK FALSE
