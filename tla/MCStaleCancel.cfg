CONSTANTS
    s1 = s1
    s2 = s2
    s3 = s3
    Signals <- TwoSignals
    NoSignal = NoSignal
    IdSuffixes <- Endings
    Suffix <- ApartSuffix
    Side <- AllBuy
    Lot = 1
    Instant = TRUE
    Faults = {}
    LongIds = FALSE
    MaxDailyTrades = 3
    MaxDailyStopLosses = 3
    EscalateAfter = 2
    LastDay = 0
    MaxRestarts = 0
SPECIFICATION Spec
INVARIANT CancelledWhenClosed
CHECK_DEADLOCK FALSE
