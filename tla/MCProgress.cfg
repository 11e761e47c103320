CONSTANTS
    s1 = s1
    s2 = s2
    s3 = s3
    Signals <- TwoSignals
    NoSignal = NoSignal
    IdSuffixes <- Endings
    Suffix <- SameSuffix
    Side <- BuyThenSell
    Lot = 1
    Instant = FALSE
    Faults = {"refuse", "lostReply"}
    LongIds = TRUE
    MaxDailyTrades = 2
    MaxDailyStopLosses = 1
    EscalateAfter = 3
    LastDay = 1
    MaxRestarts = 0
SPECIFICATION FairSpec
INVARIANT OneProbePerTrade
PROPERTIES
    EntryEnds
    MonitorEnds
CHECK_DEADLOCK FALSE
