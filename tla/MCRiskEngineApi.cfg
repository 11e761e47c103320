CONSTANTS
    MaxDailyTrades = 2
    MaxDailyStopLosses = 2
    EscalateAfter = 1
    LastDay = 2
    MaxCount = 3
    MaxSignalAge = 1
    MaxEntrySlippage = 1
    MaxExitSlippage = 1
    MinQty = 2
    MaxQty = 5
    QtyStep = 2
    MaxLeverage = 1
    Bids = {1, 2, 3, 4, 5}
    Spread = 1
    InitialStopLoss = 1
    MaxTakeProfit = 3
    Steps <- TwoSteps
    MaxDuration = 3
    NoProgress = 2
    MinFavorableMove = 0
    RiskPercent <- Percents
    Leverage = 1
    SignalPrices = {3}
    Equities = {6, 15}
SPECIFICATION RTFairSpec
INVARIANTS
    TradeTypeOK
    HaltedAtLimit
    RiskWithinBudget
    SizedByItsDate
    HeldAboveLocks
PROPERTIES
    HaltLastsTheDay
    DecisionComes
CHECK_DEADLOCK FALSE
