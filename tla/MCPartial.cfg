CONSTANTS
    s1 = s1
    s2 = s2
    s3 = s3
    Signals <- TwoSignals
    NoSignal = NoSignal
    IdSuffixes <- Endings
    Suffix <- ApartSuffix
    Side <- AllBuy
    Lot = 2
    Instant = FALSE
    Faults = {}
    LongIds = FALSE
    MaxDailyTrades = 2
    MaxDailyStopLosses = 2
    EscalateAfter = 2
    LastDay = 0
    MaxRestarts = 0
    RecordKeys <- TwoSignals
    NoOrderId = NoOrderId
SPECIFICATION TrackedSpec
INVARIANT RecordsAgree
PROPERTIES
    ExitsOnlyReduce
    SlotSpec
CHECK_DEADLOCK FALSE
