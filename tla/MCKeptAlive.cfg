SPECIFICATION FairSpec
CONSTANTS
    MaxDials = 1
    MaxLines = 1
    MaxConnections = 1
    ReadTimeout = 1
    SignalChCap = 1
    MaxSeq = 2
    MaxLives = 1
PROPERTIES
    KeptAlive
CHECK_DEADLOCK FALSE
