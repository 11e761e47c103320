-------------------------- MODULE RiskEngineProofs --------------------------
(***************************************************************************)
(* What holds of the risk engine for every limit and every order of calls. *)
(*                                                                         *)
(* The first part is what each method keeps: here the methods are called   *)
(* in any order, in ExecutionPipelineProofs in the order of the pipeline,  *)
(* and both rest on one invariant, inductive for each method as it stands. *)
(***************************************************************************)
EXTENDS RiskEngineApi, TLAPS

RiskStateOK == today \in Days /\ RiskTypeOK /\ RiskInv

USE DEF Days, NoDate

\* What the daily reset leaves behind satisfies the invariant whenever the
\* state before it does: the values the methods go on with are a legal state.
LEMMA ResetKeepsInv ==
    ASSUME RiskStateOK
    PROVE  /\ TradeCount \in Nat
           /\ StopLossCount \in Nat
           /\ LossStreak \in Nat
           /\ RiskLevel \in {"base", "escalated"}
           /\ Enabled \in BOOLEAN
           /\ TradeDate \in Days \cup {NoDate}
           /\ Enabled <=> StopLossCount < MaxDailyStopLosses
           /\ RiskLevel = "escalated" <=> LossStreak >= EscalateAfter
           /\ LossStreak <= StopLossCount
BY RiskAssumption
   DEF RiskStateOK, RiskTypeOK, RiskInv, HaltedAtLimit, EscalatedOnStreak,
       StreakWithinDay, TradeCount, StopLossCount, LossStreak, RiskLevel,
       Enabled, TradeDate, NewDay

LEMMA EvaluateKeepsInv ==
    ASSUME RiskStateOK, EvaluateSignal, UNCHANGED today
    PROVE  RiskStateOK'
BY ResetKeepsInv
   DEF RiskStateOK, RiskTypeOK, RiskInv, HaltedAtLimit, EscalatedOnStreak,
       StreakWithinDay, EvaluateSignal, MaybeResetDaily

LEMMA TradeKeepsInv ==
    ASSUME RiskStateOK, RecordTradeByClock
    PROVE  RiskStateOK'
<1>1. PICK date \in Days : RecordTrade(date) /\ today' = date
  BY LastDayAssumption DEF RecordTradeByClock, Midnight, RiskStateOK
<1> QED
  BY <1>1, ResetKeepsInv
     DEF RiskStateOK, RiskTypeOK, RiskInv, HaltedAtLimit, EscalatedOnStreak,
         StreakWithinDay, RecordTrade

\* A stop loss keeps the counters, the halt and the risk level in step.
LEMMA StopLossKeepsInv ==
    ASSUME RiskStateOK, RecordStopLoss, UNCHANGED today
    PROVE  RiskStateOK'
<1> USE RiskAssumption
<1>1. RiskTypeOK' /\ today' \in Days
  BY ResetKeepsInv DEF RiskStateOK, RiskTypeOK, RecordStopLoss
<1>2. HaltedAtLimit'
  <2>1. StopLossCount + 1 < MaxDailyStopLosses => StopLossCount < MaxDailyStopLosses
    BY ResetKeepsInv
  <2>2. Enabled <=> StopLossCount < MaxDailyStopLosses
    BY ResetKeepsInv
  <2>3. tradingEnabled' = (Enabled /\ StopLossCount + 1 < MaxDailyStopLosses)
    BY DEF RecordStopLoss
  <2>4. dailyStopLossCount' = StopLossCount + 1
    BY DEF RecordStopLoss
  <2> QED BY <2>1, <2>2, <2>3, <2>4, Zenon DEF HaltedAtLimit
<1>3. EscalatedOnStreak'
  BY ResetKeepsInv DEF EscalatedOnStreak, RecordStopLoss
<1>4. StreakWithinDay'
  BY ResetKeepsInv DEF StreakWithinDay, RecordStopLoss
<1> QED BY <1>1, <1>2, <1>3, <1>4 DEF RiskStateOK, RiskInv

LEMMA WinKeepsInv ==
    ASSUME RiskStateOK, RecordWin, UNCHANGED today
    PROVE  RiskStateOK'
BY RiskAssumption
   DEF RiskStateOK, RiskTypeOK, RiskInv, HaltedAtLimit, EscalatedOnStreak,
       StreakWithinDay, RecordWin

LEMMA FlagsKeepInv ==
    ASSUME RiskStateOK, UNCHANGED dailyVars, UNCHANGED today,
           hasOpenPosition' \in BOOLEAN, killSwitchActive' \in BOOLEAN
    PROVE  RiskStateOK'
BY DEF RiskStateOK, RiskTypeOK, RiskInv, HaltedAtLimit, EscalatedOnStreak,
       StreakWithinDay, dailyVars

\* The engine does not notice the date change.
LEMMA RestKeepsInv ==
    ASSUME RiskStateOK, UNCHANGED riskVars, today' \in Days
    PROVE  RiskStateOK'
BY DEF RiskStateOK, RiskTypeOK, RiskInv, HaltedAtLimit, EscalatedOnStreak,
       StreakWithinDay, riskVars, dailyVars

\* A process starts in a legal state, the first one and every later one.
LEMMA NewIsInv ==
    ASSUME NewEngine, today' \in Days
    PROVE  RiskStateOK'
<1> USE RiskAssumption
<1>1. RiskTypeOK'
  BY DEF RiskTypeOK, NewEngine
<1>2. HaltedAtLimit'
  BY DEF HaltedAtLimit, NewEngine
<1>3. EscalatedOnStreak' /\ StreakWithinDay'
  BY DEF EscalatedOnStreak, StreakWithinDay, NewEngine
<1> QED BY <1>1, <1>2, <1>3 DEF RiskStateOK, RiskInv

LEMMA FreshIsInv ==
    ASSUME FreshEngine, today \in Days
    PROVE  RiskStateOK
<1> USE RiskAssumption
<1>1. RiskTypeOK
  BY DEF RiskTypeOK, FreshEngine
<1>2. HaltedAtLimit
  BY DEF HaltedAtLimit, FreshEngine
<1>3. EscalatedOnStreak /\ StreakWithinDay
  BY DEF EscalatedOnStreak, StreakWithinDay, FreshEngine
<1> QED BY <1>1, <1>2, <1>3 DEF RiskStateOK, RiskInv

-----------------------------------------------------------------------------
\* Every call, in every state, keeps the invariant; so does midnight, which
\* moves the date away from the counters without touching them.
LEMMA ApiStep ==
    ASSUME RiskStateOK, [ApiNext]_apiVars
    PROVE  RiskStateOK'
<1> USE RiskAssumption, LastDayAssumption
<1>1. CASE CallEvaluateSignal
  BY <1>1, EvaluateKeepsInv DEF CallEvaluateSignal
<1>2. CASE CallRecordTrade
  BY <1>2, TradeKeepsInv DEF CallRecordTrade
<1>3. CASE CallRecordStopLoss
  BY <1>3, StopLossKeepsInv DEF CallRecordStopLoss
<1>4. CASE CallRecordWin
  BY <1>4, WinKeepsInv DEF CallRecordWin
<1>5. CASE CallResetDaily
  BY <1>5 DEF CallResetDaily, ResetDaily, RiskStateOK, RiskTypeOK, RiskInv,
              HaltedAtLimit, EscalatedOnStreak, StreakWithinDay
<1>6. CASE CallSetPositionOpen
  BY <1>6, FlagsKeepInv
     DEF CallSetPositionOpen, SetPositionOpen, RiskStateOK, RiskTypeOK
<1>7. CASE CallSetKillSwitch
  BY <1>7, FlagsKeepInv
     DEF CallSetKillSwitch, SetKillSwitch, RiskStateOK, RiskTypeOK
<1>8. CASE NextDay
  <2>1. today' \in Days
    BY <1>8 DEF NextDay, Midnight, RiskStateOK
  <2> QED BY <1>8, <2>1, RestKeepsInv DEF NextDay
<1>9. CASE UNCHANGED apiVars
  BY <1>9, RestKeepsInv DEF apiVars, RiskStateOK
<1> QED
  BY <1>1, <1>2, <1>3, <1>4, <1>5, <1>6, <1>7, <1>8, <1>9 DEF ApiNext

-----------------------------------------------------------------------------
\* The counters keep their types, the halt is in force exactly at the day's
\* stop-loss limit, the risk is escalated exactly on a long enough streak, and
\* the streak is made of today's losses, whatever methods are called in
\* whatever order and whenever midnight falls (risk/engine.go).
THEOREM RiskStateSafe ==
    ApiSpec => [](RiskTypeOK /\ HaltedAtLimit /\ EscalatedOnStreak /\ StreakWithinDay)
<1>1. ApiInit => RiskStateOK
  BY FreshIsInv, LastDayAssumption DEF ApiInit
<1>2. RiskStateOK /\ [ApiNext]_apiVars => RiskStateOK'
  BY ApiStep
<1>3. RiskStateOK => RiskTypeOK /\ HaltedAtLimit /\ EscalatedOnStreak /\ StreakWithinDay
  BY DEF RiskStateOK, RiskInv
<1> QED BY <1>1, <1>2, <1>3, PTL DEF ApiSpec

\* A halt ends with the day or with an explicit reset and in no other way, and
\* trading comes back with counters of the new day (risk/engine.go:120-142).
THEOREM HaltLasts == ApiSpec => HaltLastsTheDay
<1> DEFINE Lifting ==
      /\ lastTradeDate' = today'
      /\ \/ lastTradeDate \notin {NoDate, today}
         \/ dailyTradeCount' + dailyStopLossCount' + consecutiveLosses' = 0
      /\ dailyTradeCount' <= 1 /\ dailyStopLossCount' <= 1
<1>1. ASSUME ApiNext, ~tradingEnabled, tradingEnabled'
      PROVE  Lifting
  <2>1. Enabled => NewDay
    BY <1>1, Zenon DEF Enabled
  <2>2. NewDay => /\ TradeCount = 0 /\ StopLossCount = 0 /\ TradeDate = today
                  /\ lastTradeDate \notin {NoDate, today}
    BY DEF NewDay, TradeCount, StopLossCount, TradeDate
  <2>3. CASE CallEvaluateSignal
    <3>1. Enabled
      BY <1>1, <2>3, Zenon DEF CallEvaluateSignal, EvaluateSignal, MaybeResetDaily
    <3> QED BY <2>1, <2>2, <2>3, <3>1
            DEF CallEvaluateSignal, EvaluateSignal, MaybeResetDaily
  <2>4. CASE CallRecordTrade
    <3>1. PICK date : RecordTrade(date) /\ today' = date
      BY <2>4 DEF CallRecordTrade, RecordTradeByClock, Midnight
    <3>2. Enabled
      BY <1>1, <3>1, Zenon DEF RecordTrade
    <3> QED BY <2>1, <2>2, <3>1, <3>2 DEF RecordTrade
  <2>5. CASE CallRecordStopLoss
    <3>1. Enabled
      BY <1>1, <2>5, Zenon DEF CallRecordStopLoss, RecordStopLoss
    <3> QED BY <2>1, <2>2, <2>5, <3>1 DEF CallRecordStopLoss, RecordStopLoss
  <2>6. CASE CallResetDaily
    BY <2>6 DEF CallResetDaily, ResetDaily
  <2>7. CASE CallRecordWin \/ CallSetPositionOpen \/ CallSetKillSwitch \/ NextDay
    BY <1>1, <2>7
       DEF CallRecordWin, RecordWin, CallSetPositionOpen, SetPositionOpen,
           CallSetKillSwitch, SetKillSwitch, NextDay, riskVars, dailyVars
  <2> QED BY <1>1, <2>3, <2>4, <2>5, <2>6, <2>7 DEF ApiNext
<1>2. [ApiNext]_apiVars => [~tradingEnabled /\ tradingEnabled' => Lifting]_apiVars
  BY <1>1
<1> QED BY <1>2, PTL DEF ApiSpec, HaltLastsTheDay
=============================================================================
