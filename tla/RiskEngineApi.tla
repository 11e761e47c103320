--------------------------- MODULE RiskEngineApi ---------------------------
(***************************************************************************)
(* The risk engine on its own: every exported method of Engine may be      *)
(* called at any time, by any goroutine, in any order, and midnight may    *)
(* fall between any two calls.  risk_test.go uses the engine like this     *)
(* (stop losses with no trade before them, an explicit ResetDaily).        *)
(***************************************************************************)
EXTENDS RiskEngine

CONSTANT MaxCount   \* bound: how far the two counters are driven

ASSUME MaxCountAssumption == MaxCount \in Nat

ApiInit == FreshEngine /\ today = 0

CallEvaluateSignal  == EvaluateSignal /\ UNCHANGED today
CallRecordTrade     == /\ TradeCount < MaxCount
                       /\ RecordTradeByClock
CallRecordStopLoss  == /\ StopLossCount < MaxCount
                       /\ RecordStopLoss
                       /\ UNCHANGED today
CallRecordWin       == RecordWin /\ UNCHANGED today
CallResetDaily      == ResetDaily /\ UNCHANGED today
CallSetPositionOpen == \E open \in BOOLEAN : SetPositionOpen(open) /\ UNCHANGED today
CallSetKillSwitch   == SetKillSwitch /\ UNCHANGED today
NextDay             == Midnight /\ UNCHANGED riskVars

ApiNext ==
    \/ CallEvaluateSignal
    \/ CallRecordTrade
    \/ CallRecordStopLoss
    \/ CallRecordWin
    \/ CallResetDaily
    \/ CallSetPositionOpen
    \/ CallSetKillSwitch
    \/ NextDay

apiVars == <<riskVars, today>>

ApiSpec == ApiInit /\ [][ApiNext]_apiVars

-----------------------------------------------------------------------------
\* A halt is lifted by a date change or by ResetDaily, never by a win or by
\* another method on the day of the halt: whenever trading comes back, either
\* the engine still carried an earlier date, or all its counters are zero; and
\* in both cases it now counts under the current date, with at most the event
\* being recorded in its counters.
HaltLastsTheDay ==
    [][~tradingEnabled /\ tradingEnabled' =>
          /\ lastTradeDate' = today'
          /\ \/ lastTradeDate \notin {NoDate, today}
             \/ dailyTradeCount' + dailyStopLossCount' + consecutiveLosses' = 0
          /\ dailyTradeCount' <= 1 /\ dailyStopLossCount' <= 1]_apiVars
=============================================================================
