CONSTANTS
    s1 = s1
    s2 = s2
    s3 = s3
    Signals <- ThreeSignals
    NoSignal = NoSignal
    IdSuffixes <- Endings
    Suffix <- ApartSuffix
    Side <- BuyThenSell
    Lot = 1
    Instant = TRUE
    Faults = {}
    LongIds = FALSE
    MaxDailyTrades = 2
    MaxDailyStopLosses = 2
    EscalateAfter = 2
    LastDay = 1
    MaxRestarts = 1
    Prices = {1, 3}
    TakerRate = 1
    InitialBalance = 10
SPECIFICATION PaperSpec
INVARIANTS
    OnePosition
    HasActivePositionTruthful
    DailyTradeLimit
    LossesMatchTrades
    HaltHasDate
    PositionsAreFills
    BooksBalance
CHECK_DEADLOCK FALSE
