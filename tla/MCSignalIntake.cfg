SPECIFICATION FairSpec
CONSTANTS
    MaxDials = 2
    MaxLines = 1
    MaxConnections = 1
    ReadTimeout = 1
    SignalChCap = 1
    MaxSeq = 2
    MaxLives = 2
INVARIANTS
    PlacesAreHandlers
    NoSendAfterClose
    AckedIsKept
PROPERTIES
    DeliverySpec
    ShutdownEnds
    AckedIsTaken
CHECK_DEADLOCK FALSE
