CONSTANTS
    s1 = s1
    s2 = s2
    s3 = s3
    Signals <- TwoSignals
    NoSignal = NoSignal
    IdSuffixes <- Endings
    Suffix <- ApartSuffix
    Side <- BuyThenSell
    Lot = 1
    Instant = FALSE
    Faults = {"refuse", "lostReply", "cancelLost"}
    LongIds = FALSE
    MaxDailyTrades = 2
    MaxDailyStopLosses = 2
    EscalateAfter = 2
    LastDay = 0
    MaxRestarts = 1
SPECIFICATION Spec
INVARIANTS
    TypeOK
    TradingExcluded
    MonitorKeepsPosition
    FlagFollowsPosition
    UnsettledIsActive
CHECK_DEADLOCK FALSE
