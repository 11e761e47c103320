---------------------------- MODULE RiskedTrade ----------------------------
(***************************************************************************)
(* One trade after another as the risk engine, the sizing and the monitor  *)
(* see it: ProcessSignal of execution/pipeline.go without the exchange,    *)
(* monitorPosition and the outcome of executeExit.  ExecutionPipeline has  *)
(* the orders and the failures; here are the prices, sizes and timers it   *)
(* leaves open.                                                            *)
(*                                                                         *)
(* The engine is met in any state its methods can bring it to: between two *)
(* trades every method may be called (RiskEngineApi); during a trade only  *)
(* the kill switch and the date are out of the pipeline's hands.           *)
(***************************************************************************)
EXTENDS RiskEngineApi, PositionMonitor

CONSTANTS
    RiskPercent,    \* cfg.Risk: percent of the equity at each level
    Leverage,       \* cfg.Quantity.DefaultLeverage
    SignalPrices,   \* the prices signals may carry
    Equities        \* the USDT balances GetBalance may find

ASSUME TradeAssumption ==
    /\ RiskPercent \in [{"base", "escalated"} -> Nat \ {0}]
    /\ Leverage \in Nat \ {0}
    /\ SignalPrices \subseteq Nat \ {0}
    /\ Equities \subseteq Nat

VARIABLES
    stage,    \* how far ProcessSignal and the monitor have come
    signal,   \* the signal in hand, the price the gate suggests, the price used for sizing
    ticket,   \* the sized order and what it was sized with
    evalDate, \* history: the date of the last EvaluateSignal
    oldestLoss, \* history: the date of the first loss of the losing streak
    misdated, \* history: the engine has that streak under a date not its own
    peak,     \* history: the best PnL any poll of this position saw
    polled    \* history: the last poll saw the book as it still is

dateVars == <<evalDate, oldestLoss, misdated>>
tradeVars == <<stage, signal, ticket, dateVars, peak>>
rtVars == <<apiVars, book, watchVars, tradeVars, polled>>

NoTicket == [qty |-> 0]
NothingInHand == [side |-> "none"]

TradeTypeOK ==
    /\ RiskTypeOK
    /\ today \in Days
    /\ stage \in {"idle", "gate", "balance", "entering", "recordTrade", "setOpen",
                  "open", "exiting", "setClosed", "stuck"}
    /\ book \in Books
    /\ age \in 0 .. MaxDuration /\ idleAge \in 0 .. NoProgress
    /\ bestFavorable \in Int /\ peak \in Int /\ polled \in BOOLEAN
    /\ evalDate \in Days /\ oldestLoss \in Days \cup {NoDate} /\ misdated \in BOOLEAN
    /\ position # NoPosition => position.trailingStep \in 0 .. Len(Steps)

RTInit ==
    /\ ApiInit
    /\ stage = "idle"
    /\ signal = NothingInHand
    /\ ticket = NoTicket
    /\ evalDate = 0 /\ oldestLoss = NoDate /\ misdated = FALSE
    /\ peak = 0
    /\ polled = FALSE
    /\ book \in Books
    /\ position = NoPosition
    /\ age = 0 /\ idleAge = 0 /\ bestFavorable = 0

GiveUp ==
    /\ stage' = "idle"
    /\ signal' = NothingInHand
    /\ ticket' = NoTicket

Unwatched == UNCHANGED <<book, watchVars, peak, polled>>

(* What a call does to the history of the streak: RecordStopLoss adds a loss,
   which the engine may have no date for; any other call keeps the streak, maybe
   under another date, or ends it. *)
LossNoted ==
    /\ oldestLoss' = IF consecutiveLosses' = 1 THEN today ELSE oldestLoss
    /\ misdated' = (lastTradeDate' = NoDate \/ (consecutiveLosses' > 1 /\ misdated))

StreakNoted ==
    /\ oldestLoss' = IF consecutiveLosses' = 0 THEN NoDate ELSE oldestLoss
    /\ misdated' = (consecutiveLosses' > 0 /\ (misdated \/ lastTradeDate' # lastTradeDate))

-----------------------------------------------------------------------------
(* Step 2 of ProcessSignal. *)
EvaluateTrade(side, price) ==
    /\ stage = "idle"
    /\ position = NoPosition
    /\ EvaluateSignal
    /\ StreakNoted
    /\ evalDate' = today
    /\ IF Allowed
       THEN /\ stage' = "gate"
            /\ signal' = [side |-> side, price |-> price]
            /\ UNCHANGED ticket
       ELSE GiveUp
    /\ Unwatched /\ UNCHANGED today

(* Steps 3 and 4: the book is read once, for the gate and for the price the
   order is sized with. *)
PassGate(signalAge, bookAge) ==
    /\ stage = "gate"
    /\ IF Validate(signal, book, signalAge, bookAge)
       THEN /\ stage' = "balance"
            /\ signal' = [side      |-> signal.side,
                          suggested |-> SuggestedEntry(signal.side, book),
                          twiceMid  |-> TwiceMid(book)]
            /\ UNCHANGED ticket
       ELSE GiveUp
    /\ Unwatched /\ UNCHANGED <<apiVars, dateVars>>

(* Step 5: the balance arrives later, and only then the risk level is read. *)
SizeOrder(equity) ==
    /\ stage = "balance"
    /\ LET result == Calculate(equity, RiskPercent[currentRiskPercent],
                               InitialStopLoss, signal.twiceMid, Leverage)
       IN IF result.valid
          THEN /\ stage' = "entering"
               /\ ticket' = [qty |-> result.normalizedQty, equity |-> equity,
                             twiceMid |-> signal.twiceMid,
                             level |-> currentRiskPercent]
               /\ UNCHANGED signal
          ELSE GiveUp
    /\ Unwatched /\ UNCHANGED <<apiVars, dateVars>>

(* Step 6: filled as a maker at the suggested price, as a taker at whatever
   the book shows by then, or not at all. *)
EntryFilled(fillPrice) ==
    /\ stage = "entering"
    /\ stage' = "recordTrade"
    /\ signal' = [side |-> signal.side, filled |-> fillPrice]
    /\ ticket' = [qty |-> ticket.qty]
    /\ Unwatched /\ UNCHANGED <<apiVars, dateVars>>

EntryFails ==
    /\ stage = "entering"
    /\ GiveUp
    /\ Unwatched /\ UNCHANGED <<apiVars, dateVars>>

EnterTrade ==
    \/ EntryFilled(signal.suggested)
    \/ EntryFilled(IF signal.side = "BUY" THEN book.ask ELSE book.bid)
    \/ EntryFails

(* Step 7. *)
CountTrade ==
    /\ stage = "recordTrade"
    /\ TradeCount < MaxCount
    /\ RecordTradeByClock
    /\ StreakNoted
    /\ stage' = "setOpen"
    /\ Unwatched /\ UNCHANGED <<signal, ticket, evalDate>>

OpenPosition ==
    /\ stage = "setOpen"
    /\ SetPositionOpen(TRUE)
    /\ Watch(signal.side, signal.filled, ticket.qty)
    /\ stage' = "open"
    /\ signal' = NothingInHand
    /\ ticket' = NoTicket
    /\ peak' = 0 /\ polled' = FALSE
    /\ UNCHANGED <<today, book, dateVars>>

PollPosition ==
    /\ stage = "open"
    /\ \E ends \in BOOLEAN :
          /\ Poll(killSwitchActive, ends)
          /\ stage' = IF ends THEN "exiting" ELSE "open"
    /\ LET pnl == PnL(position, ExitPrice(position.side))
       IN peak' = IF pnl > peak THEN pnl ELSE peak
    /\ polled' = (stage' = "open")
    /\ UNCHANGED <<apiVars, signal, ticket, dateVars>>

(* executeExit with its order filled, or not, at the exit price or, repriced,
   within the slippage: the sign of the PnL at that price decides. *)
ExitAt(price) ==
    /\ stage = "exiting"
    /\ IF PnL(position, price) < 0
       THEN StopLossCount < MaxCount /\ RecordStopLoss /\ LossNoted
       ELSE RecordWin /\ StreakNoted
    /\ stage' = "setClosed"
    /\ Unwatched /\ UNCHANGED <<today, signal, ticket, evalDate>>

Worse(side, price) ==
    IF side = "BUY" THEN price - MaxExitSlippage ELSE price + MaxExitSlippage

ExitTrade ==
    LET price == ExitPrice(position.side)
    IN ExitAt(price) \/ ExitAt(Worse(position.side, price))

(* The exit order is refused: the monitor is gone, the position stays. *)
ExitFails ==
    /\ stage = "exiting"
    /\ stage' = "stuck"
    /\ Unwatched /\ UNCHANGED <<apiVars, signal, ticket, dateVars>>

CloseTrade ==
    /\ stage = "setClosed"
    /\ SetPositionOpen(FALSE)
    /\ GiveUp
    /\ position' = NoPosition
    /\ age' = 0 /\ idleAge' = 0 /\ bestFavorable' = 0
    /\ peak' = 0 /\ polled' = FALSE
    /\ UNCHANGED <<today, book, dateVars>>

-----------------------------------------------------------------------------
BetweenTrades ==
    /\ stage = "idle"
    /\ \/ CallRecordStopLoss /\ LossNoted
       \/ /\ \/ CallEvaluateSignal \/ CallRecordTrade \/ CallRecordWin
             \/ CallResetDaily \/ CallSetPositionOpen \/ CallSetKillSwitch \/ NextDay
          /\ StreakNoted
    /\ Unwatched /\ UNCHANGED <<stage, signal, ticket, evalDate, peak>>

DuringTrade ==
    /\ stage # "idle"
    /\ CallSetKillSwitch \/ NextDay
    /\ Unwatched /\ UNCHANGED tradeVars

Moves == MarketMoves /\ polled' = FALSE /\ UNCHANGED <<apiVars, tradeVars>>

Clock == stage = "open" /\ TimePasses /\ UNCHANGED <<apiVars, tradeVars, polled>>

RTNext ==
    \/ \E side \in {"BUY", "SELL"}, price \in SignalPrices : EvaluateTrade(side, price)
    \/ \E sa, ba \in {MaxSignalAge, MaxSignalAge + 1} : PassGate(sa, ba)
    \/ \E equity \in Equities : SizeOrder(equity)
    \/ EnterTrade \/ CountTrade \/ OpenPosition
    \/ PollPosition \/ ExitTrade \/ ExitFails \/ CloseTrade
    \/ BetweenTrades \/ DuringTrade \/ Moves \/ Clock

RTSpec == RTInit /\ [][RTNext]_rtVars

(* The ticker goes on ticking, and so does the clock; nothing is assumed of
   the market. *)
RTFairSpec == RTSpec /\ WF_rtVars(PollPosition) /\ WF_rtVars(Clock)

-----------------------------------------------------------------------------
\* What calculator.go and pipeline.go:220-232 promise of a quantity: losing
\* the stop distance costs no more than the risk level's part of the equity,
\* the margin is in the account, the exchange takes the quantity, and unless
\* max_qty cut it, one more step would have been too much.
RiskWithinBudget ==
    stage = "entering" =>
        LET budget == ticket.equity * RiskPercent[ticket.level]
        IN /\ ticket.qty * InitialStopLoss * 100 <= budget
           /\ ticket.qty * ticket.twiceMid <= 2 * ticket.equity * Leverage
           /\ ticket.qty >= MinQty /\ ticket.qty % QtyStep = 0
           /\ ticket.qty + QtyStep <= MaxQty =>
                 (ticket.qty + QtyStep) * InitialStopLoss * 100 > budget

\* The risk level is read after two waits for the exchange, and reading it
\* does not reset the day (engine.go:144): still, an order is sized with the
\* escalated percentage only on losses of the very day its signal was evaluated
\* on, the first of the streak included.  Two ways around it are in the code: a
\* loss recorded before the engine has a date, and a midnight between the reset
\* and the date of one RecordTrade (engine.go:74-76), which puts the losses of
\* the day before under the new date.  A streak has those behind it while it is
\* misdated, and no longer.
SizedByItsDate ==
    stage = "entering" /\ ticket.level = "escalated" /\ ~misdated =>
        oldestLoss = evalDate

\* A position that is still watched after a poll was worth more, at that poll,
\* than every profit that a step it ever reached was to lock, and its price was
\* between its stop and its target.
HeldAboveLocks ==
    stage = "open" /\ polled =>
        LET price == ExitPrice(position.side)
        IN /\ \A i \in DOMAIN Steps :
                 Steps[i].profit <= peak => PnL(position, price) > Steps[i].lock
           /\ FavorableMove(position, price) > -InitialStopLoss
           /\ FavorableMove(position, price) < MaxTakeProfit

\* A watched position is decided on, wherever the price goes: the two timers
\* run out even if the stop, the target and the locks are never touched.
DecisionComes == stage = "open" ~> stage # "open"
=============================================================================
