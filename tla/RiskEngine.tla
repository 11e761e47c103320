----------------------------- MODULE RiskEngine -----------------------------
(***************************************************************************)
(* The daily risk state of server/internal/risk/engine.go.                 *)
(*                                                                         *)
(* Every method of Engine holds one mutex from its first line to its last, *)
(* so a method is one atomic action here.  The date may change (Midnight    *)
(* of Calendar) between any two calls, and inside RecordTrade between its   *)
(* two readings of the clock, which is where the daily limits are hard to  *)
(* get right.  A method that reads the clock twice only when it resets the *)
(* day does the same as if it had begun at the second reading.             *)
(*                                                                         *)
(* This module holds the state and the methods.  ExecutionPipeline extends *)
(* it and calls the methods in the order the pipeline does; RiskEngineApi  *)
(* calls them in any order.                                                *)
(***************************************************************************)
EXTENDS Calendar

CONSTANTS
    MaxDailyTrades,       \* cfg.Risk.MaxDailyTrades
    MaxDailyStopLosses,   \* cfg.Risk.MaxDailyStopLosses
    EscalateAfter         \* cfg.Risk.EscalateAfterConsecutiveLosses

(***************************************************************************)
(* The configuration files shipped with the server set all the limits to a *)
(* positive number; config.LoadConfig itself checks nothing.               *)
(***************************************************************************)
ASSUME RiskAssumption ==
    /\ MaxDailyTrades \in Nat \ {0}
    /\ MaxDailyStopLosses \in Nat \ {0}
    /\ EscalateAfter \in Nat \ {0}

VARIABLES
    dailyTradeCount,
    dailyStopLossCount,
    consecutiveLosses,
    currentRiskPercent,   \* only "base" or "escalated" can be told apart
    tradingEnabled,
    hasOpenPosition,
    lastTradeDate,        \* NoDate is Go's empty string
    killSwitchActive

dailyVars == <<dailyTradeCount, dailyStopLossCount, consecutiveLosses,
               currentRiskPercent, tradingEnabled, lastTradeDate>>

riskVars == <<dailyVars, hasOpenPosition, killSwitchActive>>

RiskTypeOK ==
    /\ dailyTradeCount \in Nat
    /\ dailyStopLossCount \in Nat
    /\ consecutiveLosses \in Nat
    /\ currentRiskPercent \in {"base", "escalated"}
    /\ tradingEnabled \in BOOLEAN
    /\ hasOpenPosition \in BOOLEAN
    /\ lastTradeDate \in Days \cup {NoDate}
    /\ killSwitchActive \in BOOLEAN

(* A fresh process knows nothing of the trades of the day. *)
FreshEngine ==
    /\ dailyTradeCount = 0
    /\ dailyStopLossCount = 0
    /\ consecutiveLosses = 0
    /\ currentRiskPercent = "base"
    /\ tradingEnabled = TRUE
    /\ hasOpenPosition = FALSE
    /\ lastTradeDate = NoDate
    /\ killSwitchActive = FALSE

(* The same, in a process that takes over from another. *)
NewEngine ==
    /\ dailyTradeCount' = 0
    /\ dailyStopLossCount' = 0
    /\ consecutiveLosses' = 0
    /\ currentRiskPercent' = "base"
    /\ tradingEnabled' = TRUE
    /\ hasOpenPosition' = FALSE
    /\ lastTradeDate' = NoDate
    /\ killSwitchActive' = FALSE

(***************************************************************************)
(* maybeResetDaily runs first inside the methods that call it.  The        *)
(* operators below are the values those methods go on with.                *)
(***************************************************************************)
NewDay == lastTradeDate # NoDate /\ lastTradeDate # today

TradeCount    == IF NewDay THEN 0 ELSE dailyTradeCount
StopLossCount == IF NewDay THEN 0 ELSE dailyStopLossCount
LossStreak    == IF NewDay THEN 0 ELSE consecutiveLosses
RiskLevel     == IF NewDay THEN "base" ELSE currentRiskPercent
Enabled       == NewDay \/ tradingEnabled
TradeDate     == IF NewDay THEN today ELSE lastTradeDate

MaybeResetDaily ==
    /\ dailyTradeCount' = TradeCount
    /\ dailyStopLossCount' = StopLossCount
    /\ consecutiveLosses' = LossStreak
    /\ currentRiskPercent' = RiskLevel
    /\ tradingEnabled' = Enabled
    /\ lastTradeDate' = TradeDate

(* Mutant of Allowed: the daily limit admits one trade more. *)
AllowedOneMore ==
    /\ ~killSwitchActive
    /\ Enabled
    /\ TradeCount <= MaxDailyTrades
    /\ ~hasOpenPosition

(* The four refusals of EvaluateSignal, on the state after the reset. *)
Allowed ==
    /\ ~killSwitchActive
    /\ Enabled
    /\ TradeCount < MaxDailyTrades
    /\ ~hasOpenPosition

(* Mutant of EvaluateSignal: the checks see the new day, the engine does not. *)
EvaluateSignalKeeps == UNCHANGED riskVars

EvaluateSignal ==
    /\ MaybeResetDaily
    /\ UNCHANGED <<hasOpenPosition, killSwitchActive>>

(* Mutant of RecordTrade: the trade is dated but not counted. *)
RecordTradeUncounted(date) ==
    /\ dailyTradeCount' = TradeCount
    /\ dailyStopLossCount' = StopLossCount
    /\ consecutiveLosses' = LossStreak
    /\ currentRiskPercent' = RiskLevel
    /\ tradingEnabled' = Enabled
    /\ lastTradeDate' = date
    /\ UNCHANGED <<hasOpenPosition, killSwitchActive>>

(* Mutant of RecordTrade: the date of the trade is not stored. *)
RecordTradeUndated(date) ==
    /\ dailyTradeCount' = TradeCount + 1
    /\ dailyStopLossCount' = StopLossCount
    /\ consecutiveLosses' = LossStreak
    /\ currentRiskPercent' = RiskLevel
    /\ tradingEnabled' = Enabled
    /\ lastTradeDate' = TradeDate
    /\ UNCHANGED <<hasOpenPosition, killSwitchActive>>

(* RecordTrade reads the clock twice, for the reset and for the date it
   stores; date is what the second reading saw. *)
RecordTrade(date) ==
    /\ dailyTradeCount' = TradeCount + 1
    /\ dailyStopLossCount' = StopLossCount
    /\ consecutiveLosses' = LossStreak
    /\ currentRiskPercent' = RiskLevel
    /\ tradingEnabled' = Enabled
    /\ lastTradeDate' = date
    /\ UNCHANGED <<hasOpenPosition, killSwitchActive>>

(* The mutex does not stop the clock: midnight may fall between the two. *)
RecordTradeByClock ==
    \/ RecordTrade(today) /\ UNCHANGED today
    \/ Midnight /\ RecordTrade(today + 1)

(* Mutant of RecordStopLoss: the halt comes one stop loss late. *)
RecordStopLossLate ==
    /\ dailyTradeCount' = TradeCount
    /\ dailyStopLossCount' = StopLossCount + 1
    /\ consecutiveLosses' = LossStreak + 1
    /\ currentRiskPercent' = IF LossStreak + 1 >= EscalateAfter
                             THEN "escalated" ELSE RiskLevel
    /\ tradingEnabled' = (Enabled /\ StopLossCount + 1 <= MaxDailyStopLosses)
    /\ lastTradeDate' = TradeDate
    /\ UNCHANGED <<hasOpenPosition, killSwitchActive>>

RecordStopLoss ==
    /\ dailyTradeCount' = TradeCount
    /\ dailyStopLossCount' = StopLossCount + 1
    /\ consecutiveLosses' = LossStreak + 1
    /\ currentRiskPercent' = IF LossStreak + 1 >= EscalateAfter
                             THEN "escalated" ELSE RiskLevel
    /\ tradingEnabled' = (Enabled /\ StopLossCount + 1 < MaxDailyStopLosses)
    /\ lastTradeDate' = TradeDate
    /\ UNCHANGED <<hasOpenPosition, killSwitchActive>>

(* Mutant of RecordWin: a win takes one loss off the streak. *)
RecordWinDecrement ==
    /\ consecutiveLosses' = consecutiveLosses - 1
    /\ currentRiskPercent' = "base"
    /\ UNCHANGED <<dailyTradeCount, dailyStopLossCount, tradingEnabled,
                   lastTradeDate, hasOpenPosition, killSwitchActive>>

(* Mutant of RecordWin: a win lifts the halt. *)
RecordWinResumes ==
    /\ consecutiveLosses' = 0
    /\ currentRiskPercent' = "base"
    /\ tradingEnabled' = TRUE
    /\ UNCHANGED <<dailyTradeCount, dailyStopLossCount, lastTradeDate,
                   hasOpenPosition, killSwitchActive>>

(* RecordWin is the one recording method that skips maybeResetDaily. *)
RecordWin ==
    /\ consecutiveLosses' = 0
    /\ currentRiskPercent' = "base"
    /\ UNCHANGED <<dailyTradeCount, dailyStopLossCount, tradingEnabled,
                   lastTradeDate, hasOpenPosition, killSwitchActive>>

ResetDaily ==
    /\ dailyTradeCount' = 0
    /\ dailyStopLossCount' = 0
    /\ consecutiveLosses' = 0
    /\ currentRiskPercent' = "base"
    /\ tradingEnabled' = TRUE
    /\ lastTradeDate' = today
    /\ UNCHANGED <<hasOpenPosition, killSwitchActive>>

SetPositionOpen(open) ==
    /\ hasOpenPosition' = open
    /\ UNCHANGED <<dailyVars, killSwitchActive>>

SetKillSwitch ==
    /\ killSwitchActive' = TRUE
    /\ UNCHANGED <<dailyVars, hasOpenPosition>>

-----------------------------------------------------------------------------
(***************************************************************************)
(* The limits agree with the counters they are derived from.  They are     *)
(* stored separately in the code (a flag, a percentage and two counters    *)
(* updated by five methods), so each agreement can be lost on its own.     *)
(***************************************************************************)

\* Trading is halted exactly while the day's stop-loss limit is reached.
HaltedAtLimit == tradingEnabled <=> dailyStopLossCount < MaxDailyStopLosses

\* The risk per trade is escalated exactly while the losing streak is long
\* enough: a win, or a new day, brings it back to the base.
EscalatedOnStreak ==
    currentRiskPercent = "escalated" <=> consecutiveLosses >= EscalateAfter

\* A losing streak is made of stop losses that the daily counter still counts.
StreakWithinDay == consecutiveLosses <= dailyStopLossCount

RiskInv == HaltedAtLimit /\ EscalatedOnStreak /\ StreakWithinDay
=============================================================================
