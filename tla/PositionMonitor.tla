-------------------------- MODULE PositionMonitor --------------------------
(***************************************************************************)
(* What monitorPosition of server/internal/execution/exit.go looks at: the *)
(* open position, the best bid and ask, and two timers.  One poll reads    *)
(* the book once and goes through the exit conditions in the code's order. *)
(*                                                                         *)
(* Time is kept as two ages, each counted up to the limit it is compared   *)
(* with.                                                                   *)
(***************************************************************************)
EXTENDS Sizing, Sequences, FiniteSetsExt

CONSTANTS
    Bids, Spread,       \* the books the market may show
    InitialStopLoss,    \* cfg.Trade.InitialStopLossUSD
    MaxTakeProfit,      \* cfg.Trade.MaxTakeProfitUSD
    Steps,              \* cfg.Trailing.Steps; empty when trailing is disabled
    MaxDuration,        \* cfg.Trade.MaxTradeDurationMs
    NoProgress,         \* cfg.Trade.TimeStopNoProgressMs
    MinFavorableMove    \* cfg.Trade.MinFavorableMoveUSD

(* Steps climb, and every one of them locks a profit. *)
ASSUME MonitorAssumption ==
    /\ Bids \subseteq Nat \ {0} /\ Spread \in Nat
    /\ InitialStopLoss \in Nat \ {0} /\ MaxTakeProfit \in Nat \ {0}
    /\ Steps \in Seq([profit : Nat, lock : Nat \ {0}])
    /\ \A i, j \in DOMAIN Steps :
          i < j => Steps[i].profit < Steps[j].profit /\ Steps[i].lock < Steps[j].lock
    /\ MaxDuration \in Nat \ {0} /\ NoProgress \in Nat \ {0}
    /\ MinFavorableMove \in Nat

VARIABLES
    book,             \* LatestBook
    position,         \* Pipeline.activePos, or NoPosition
    age,              \* time since EntryTime
    idleAge,          \* time since lastProgressTime
    bestFavorable     \* of the monitor: the move the last progress was made to

watchVars == <<position, age, idleAge, bestFavorable>>

Books == {[bid |-> b, ask |-> b + Spread] : b \in Bids}

NoPosition == [side |-> "none"]

NewPosition(side, fillPrice, qty) ==
    [side |-> side, entryPrice |-> fillPrice, quantity |-> qty,
     stopLoss   |-> IF side = "BUY" THEN fillPrice - InitialStopLoss
                                    ELSE fillPrice + InitialStopLoss,
     takeProfit |-> IF side = "BUY" THEN fillPrice + MaxTakeProfit
                                    ELSE fillPrice - MaxTakeProfit,
     trailingStep |-> 0, bestPnL |-> 0, lockedPnL |-> 0]

(* A position is left at the bid if it is long, at the ask if it is short. *)
ExitPrice(side) == IF side = "BUY" THEN book.bid ELSE book.ask

FavorableMove(p, price) ==
    IF p.side = "BUY" THEN price - p.entryPrice ELSE p.entryPrice - price

PnL(p, price) == FavorableMove(p, price) * p.quantity

StopHit(p, price) ==
    IF p.side = "BUY" THEN price <= p.stopLoss ELSE price >= p.stopLoss

TargetHit(p, price) ==
    IF p.side = "BUY" THEN price >= p.takeProfit ELSE price <= p.takeProfit

UpdateBest(p, pnl) == [p EXCEPT !.bestPnL = IF pnl > @ THEN pnl ELSE @]

(* Mutant of CheckTrailingStop: of several steps climbed at once, the first one's
   profit is locked. *)
CheckTrailingStopLow(p) ==
    LET reached == Max({k \in p.trailingStep .. Len(Steps) :
                           \A i \in p.trailingStep + 1 .. k :
                               p.bestPnL >= Steps[i].profit})
    IN IF reached = p.trailingStep THEN p
       ELSE [p EXCEPT !.trailingStep = reached,
                      !.lockedPnL = Steps[p.trailingStep + 1].lock]

(* checkTrailingStop climbs from the step it is on to the last one reached
   without a gap. *)
CheckTrailingStop(p) ==
    LET reached == Max({k \in p.trailingStep .. Len(Steps) :
                           \A i \in p.trailingStep + 1 .. k :
                               p.bestPnL >= Steps[i].profit})
    IN IF reached = p.trailingStep THEN p
       ELSE [p EXCEPT !.trailingStep = reached, !.lockedPnL = Steps[reached].lock]

LockHit(p, pnl) == p.lockedPnL > 0 /\ pnl <= p.lockedPnL

(* A position is stored and its monitor starts. *)
Watch(side, fillPrice, qty) ==
    /\ position' = NewPosition(side, fillPrice, qty)
    /\ age' = 0
    /\ idleAge' = 0
    /\ bestFavorable' = 0

Moved(p, price) == FavorableMove(p, price) > bestFavorable + MinFavorableMove

NoteProgress(p, price) ==
    /\ bestFavorable' = IF Moved(p, price) THEN FavorableMove(p, price)
                                           ELSE bestFavorable
    /\ idleAge' = IF Moved(p, price) THEN 0 ELSE idleAge

TooOld == age >= MaxDuration

(* Mutant of Poll: while a profit is locked, only its lock ends the trade. *)
PollLockRuns(killSwitch, ends) ==
    LET price   == ExitPrice(position.side)
        updated == UpdateBest(position, PnL(position, price))
        trailed == CheckTrailingStop(updated)
        urgent  == killSwitch \/ StopHit(position, price)
    IN /\ position' = IF urgent THEN updated ELSE trailed
       /\ IF urgent \/ trailed.lockedPnL > 0
          THEN /\ ends <=> urgent \/ LockHit(trailed, PnL(position, price))
               /\ UNCHANGED <<idleAge, bestFavorable>>
          ELSE /\ NoteProgress(position, price)
               /\ ends <=> TooOld \/ idleAge' >= NoProgress
       /\ UNCHANGED <<book, age>>

(* One round of the loop: ends says whether it ends in executeExit.  The kill
   switch, the stop loss and the target come before the trailing stop is even
   moved; progress is noted only when nothing before it ends the trade. *)
Poll(killSwitch, ends) ==
    LET price   == ExitPrice(position.side)
        updated == UpdateBest(position, PnL(position, price))
        trailed == CheckTrailingStop(updated)
        urgent  == \/ killSwitch
                   \/ StopHit(position, price)
                   \/ TargetHit(position, price)
        over    == TooOld \/ LockHit(trailed, PnL(position, price))
    IN /\ position' = IF urgent THEN updated ELSE trailed
       /\ IF urgent \/ over
          THEN ends /\ UNCHANGED <<idleAge, bestFavorable>>
          ELSE /\ NoteProgress(position, price)
               /\ ends <=> (idleAge' >= NoProgress)
       /\ UNCHANGED <<book, age>>

(* The environment. *)
MarketMoves == book' \in Books \ {book} /\ UNCHANGED watchVars

OneMore(n, limit) == IF n < limit THEN n + 1 ELSE n

TimePasses ==
    /\ age' = OneMore(age, MaxDuration)
    /\ idleAge' = OneMore(idleAge, NoProgress)
    /\ UNCHANGED <<book, position, bestFavorable>>
=============================================================================
