----------------------- MODULE ExecutionPipelineProofs -----------------------
EXTENDS ExecutionPipeline, RiskEngineProofs

USE DEF Days, NoDate

-----------------------------------------------------------------------------
(* The exchange keeps its types whatever call is made.                     *)

LEMMA RoomType ==
    ASSUME ExchangeTypeOK, NEW side \in {1, -1}, NEW reduceOnly \in BOOLEAN
    PROVE  Room(side, reduceOnly) \in 0 .. Lot
BY ExchangeAssumption DEF Room, ExchangeTypeOK

LEMMA PlaceTypes ==
    ASSUME ExchangeTypeOK, NEW o, NEW side \in {1, -1}, NEW reduceOnly \in BOOLEAN,
           Place(o, side, reduceOnly)
    PROVE  ExchangeTypeOK'
<1> DEFINE taken == IF Instant THEN Room(side, reduceOnly) ELSE 0
<1>1. taken \in 0 .. Lot
  BY RoomType, ExchangeAssumption
<1>2. exposure' \in Int
  BY <1>1, ExchangeAssumption DEF Place, ExchangeTypeOK
<1>3. [status |-> IF Instant THEN "FILLED" ELSE "NEW", filled |-> taken,
       side |-> side, reduceOnly |-> reduceOnly] \in ExOrder
  BY <1>1 DEF ExOrder, ExStatus
<1>4. exOrders' \in [OrderIds -> ExOrder]
  BY <1>3 DEF Place, ExchangeTypeOK
<1> QED BY <1>2, <1>4 DEF ExchangeTypeOK

LEMMA CancelTypes ==
    ASSUME ExchangeTypeOK, NEW o, NEW dead \in BOOLEAN, CancelOrder(o, dead)
    PROVE  ExchangeTypeOK'
BY DEF CancelOrder, ExchangeTypeOK, exchangeVars, ExOrder, ExStatus

LEMMA FillTypes ==
    ASSUME ExchangeTypeOK, NEW o \in OrderIds, Fill(o) \/ Expire(o)
    PROVE  ExchangeTypeOK'
<1>1. CASE Fill(o)
  <2>1. exOrders[o] \in ExOrder
    BY DEF ExchangeTypeOK
  <2>2. exOrders[o].filled + 1 \in 0 .. Lot
    BY <1>1, <2>1, ExchangeAssumption DEF Fill, ExOrder
  <2>3. [exOrders[o] EXCEPT !.filled = @ + 1,
            !.status = IF exOrders[o].filled + 1 = Lot
                       THEN "FILLED" ELSE "PARTIALLY_FILLED"] \in ExOrder
    BY <2>1, <2>2 DEF ExOrder, ExStatus
  <2>4. exOrders' \in [OrderIds -> ExOrder]
    BY <1>1, <2>1, <2>2 DEF Fill, ExchangeTypeOK, ExOrder, ExStatus
  <2>5. exposure' \in Int
    BY <1>1, <2>1 DEF Fill, ExchangeTypeOK, ExOrder
  <2> QED BY <2>4, <2>5 DEF ExchangeTypeOK
<1>2. CASE Expire(o)
  BY <1>2 DEF Expire, ExchangeTypeOK, ExOrder, ExStatus
<1> QED BY <1>1, <1>2

LEMMA RestartTypes ==
    ASSUME ExchangeTypeOK, ExchangeRestart
    PROVE  ExchangeTypeOK'
<1>1. NoOrder \in ExOrder
  BY ExchangeAssumption DEF NoOrder, ExOrder, ExStatus
<1> QED BY <1>1 DEF ExchangeRestart, ExchangeTypeOK, exchangeVars

(* So does the order manager.                                              *)

LEMMA IdTypes ==
    ASSUME today \in Days, NEW s \in Signals
    PROVE  GenerateClientOrderID(s, today) \in ClientIds
BY SignalAssumption DEF GenerateClientOrderID, ClientIds

LEMMA CreateTypes ==
    ASSUME OrdersTypeOK, today \in Days, NEW s \in Signals, CreateOrder(s)
    PROVE  OrdersTypeOK'
BY IdTypes DEF CreateOrder, OrdersTypeOK, OrderState

LEMMA UpdateTypes ==
    ASSUME OrdersTypeOK, NEW id, NEW new \in OrderState, UpdateState(id, new)
    PROVE  OrdersTypeOK'
BY DEF UpdateState, UpdatedState, OrdersTypeOK, orderVars

LEMMA MarkTypes ==
    ASSUME OrdersTypeOK, NEW s, MarkFilled(s)
    PROVE  OrdersTypeOK'
BY DEF MarkFilled, OrdersTypeOK, OrderState

-----------------------------------------------------------------------------
(* The strengthening: what the two goroutines know of each other.          *)

\* An entry in progress has a signal, and no position besides it: that is what
\* main read at main.go:234, and no monitor is left to make it untrue.
SlotTaken ==
    /\ pc \in EntryPC \cup FilledPC => sig \in Signals
    /\ pc \in EntryPC \cup (FilledPC \ {"startMonitor"}) => activePos = NoSignal
    /\ pc = "startMonitor" => activePos = sig /\ \A s \in Signals : mon[s] \notin Acting

ControlTypeOK ==
    /\ pc \in MainPC
    /\ sig \in Signals \cup {NoSignal}
    /\ activePos \in Signals \cup {NoSignal}
    /\ monitorCancel \in Signals \cup {NoSignal}
    /\ ctxDone \in BOOLEAN
    /\ mon \in [Signals -> MonitorPC]
    /\ pos \in [Signals -> Signals \cup {NoSignal}]
    /\ cancelled \in [Signals -> BOOLEAN]
    /\ restarts \in Nat
    /\ restartsOn \in [Days -> Nat]
    /\ tradesOn \in [Days -> Nat]
    /\ probes \in [Signals -> Nat]
    /\ opened \subseteq Signals
    /\ settled \subseteq Signals

LEMMA RiskCalls ==
    ASSUME Next
    PROVE  \/ UNCHANGED <<today, riskVars>>
           \/ DateChanges
           \/ Restart
           \/ pc = "evaluate" /\ EvaluateSignal /\ UNCHANGED today
           \/ pc = "recordTrade" /\ RecordTradeByClock
           \/ pc = "setOpen" /\ SetPositionOpen(TRUE) /\ UNCHANGED today
           \/ \E s \in Signals : RecordResult(s)
           \/ \E s \in Signals : LowerOpenFlag(s)
<1>1. CASE \E s \in Signals : ReceiveSignal(s)
  BY <1>1 DEF ReceiveSignal, MainOnly
<1>2. CASE MainStep
  BY <1>2 DEF MainStep, MainOnly, Evaluate, CheckMarket, CreateEntryOrder, Submit,
     PlaceMaker, PollMaker, AbandonEntry, CancelMaker, PlaceIoc, PollIoc,
     CancelIoc, BookTrade, RaiseOpenFlag, StorePosition, StartMonitor
<1>3. CASE \E s \in Signals : MonitorStep(s) \/ MonitorStop(s) \/ KeepWatching(s)
  BY <1>3 DEF MonitorStep, MonitorOnly, MonitorStop, KeepWatching, MonitorTick,
     DecideExit, BeginExit, PlaceExit, PollExit, CancelExit, PlaceReprice,
     PollReprice, CancelReprice, ClearPosition, ClearCancel
<1>4. CASE Shutdown \/ ProcessEnds \/ ExchangeStep
  BY <1>4 DEF Shutdown, ProcessEnds, ExchangeStep
<1> QED BY <1>1, <1>2, <1>3, <1>4 DEF Next

LEMMA OrderCalls ==
    ASSUME Next
    PROVE  \/ UNCHANGED orderVars
           \/ Restart
           \/ pc = "createOrder" /\ CreateOrder(sig)
           \/ \E new \in OrderState : UpdateState(seen[sig], new)
           \/ MarkFilled(sig)
<1>1. CASE \E s \in Signals : ReceiveSignal(s)
  BY <1>1 DEF ReceiveSignal, MainOnly
<1>2. CASE MainStep
  BY <1>2 DEF MainStep, MainOnly, Evaluate, CheckMarket, CreateEntryOrder, Submit,
     PlaceMaker, PollMaker, AbandonEntry, CancelMaker, PlaceIoc, PollIoc,
     CancelIoc, BookTrade, RaiseOpenFlag, StorePosition, StartMonitor, OrderState
<1>3. CASE \E s \in Signals : MonitorStep(s) \/ MonitorStop(s) \/ KeepWatching(s)
  BY <1>3 DEF MonitorStep, MonitorOnly, MonitorStop, KeepWatching, MonitorTick,
     DecideExit, BeginExit, PlaceExit, PollExit, CancelExit, PlaceReprice,
     PollReprice, CancelReprice, RecordResult, LowerOpenFlag, ClearPosition,
     ClearCancel
<1>4. CASE Shutdown \/ ProcessEnds \/ DateChanges \/ ExchangeStep
  BY <1>4 DEF Shutdown, ProcessEnds, DateChanges, ExchangeStep
<1> QED BY <1>1, <1>2, <1>3, <1>4 DEF Next

LEMMA ExchangeCalls ==
    ASSUME Next
    PROVE  \/ UNCHANGED exchangeVars
           \/ ExchangeStep
           \/ Restart
           \/ /\ pc \in EntryPC
              /\ \E o \in {MakerId(sig), IocId(sig)} : Place(o, Side[sig], FALSE)
           \/ \E s \in Signals :
                 /\ mon[s] \in ExitPC
                 /\ \E o \in {ExitId(pos[s]), RepriceId(pos[s])} :
                        Place(o, -Side[pos[s]], TRUE)
           \/ \E o : \E dead \in BOOLEAN : CancelOrder(o, dead)
<1>1. CASE \E s \in Signals : ReceiveSignal(s)
  BY <1>1 DEF ReceiveSignal, MainOnly
<1>2. CASE MainStep
  <2>1. CASE PlaceMaker
    BY <2>1 DEF PlaceMaker, PlaceAcked, PlaceFailed, EntryPC
  <2>2. CASE PlaceIoc
    BY <2>2 DEF PlaceIoc, PlaceAcked, PlaceFailed, EntryPC
  <2>3. CASE AbandonEntry \/ CancelMaker \/ CancelIoc
    BY <2>3 DEF AbandonEntry, CancelMaker, CancelIoc
  <2> QED
    BY <1>2, <2>1, <2>2, <2>3
       DEF MainStep, MainOnly, Evaluate, CheckMarket, CreateEntryOrder, Submit,
           PollMaker, PollIoc, BookTrade, RaiseOpenFlag, StorePosition, StartMonitor
<1>3. ASSUME NEW s \in Signals, MonitorStep(s) \/ MonitorStop(s) \/ KeepWatching(s)
      PROVE  \/ UNCHANGED exchangeVars
             \/ /\ mon[s] \in ExitPC
                /\ \E o \in {ExitId(pos[s]), RepriceId(pos[s])} :
                       Place(o, -Side[pos[s]], TRUE)
             \/ \E o : \E dead \in BOOLEAN : CancelOrder(o, dead)
  <2>1. CASE PlaceExit(s)
    BY <2>1 DEF PlaceExit, PlaceAcked, PlaceFailed, MonitorAt, ExitPC
  <2>2. CASE PlaceReprice(s)
    BY <2>2 DEF PlaceReprice, PlaceAcked, PlaceFailed, MonitorAt, ExitPC
  <2>3. CASE CancelExit(s) \/ CancelReprice(s)
    <3>1. \E o : CancelOrder(o, ContextDone(s))
      BY <2>3 DEF CancelExit, CancelReprice
    <3> QED BY <3>1 DEF CancelOrder
  <2> QED
    BY <1>3, <2>1, <2>2, <2>3
       DEF MonitorStep, MonitorOnly, MonitorStop, KeepWatching, MonitorTick,
           DecideExit, BeginExit, PollExit, PollReprice, RecordResult,
           LowerOpenFlag, ClearPosition, ClearCancel
<1>4. CASE Shutdown \/ ProcessEnds \/ DateChanges \/ ExchangeStep
  BY <1>4 DEF Shutdown, ProcessEnds, DateChanges, ExchangeStep
<1> QED BY <1>1, <1>2, <1>3, <1>4 DEF Next

ControlOK == ControlTypeOK /\ SlotTaken /\ MonitorKeepsPosition

\* The date a trade is booked on: the one main began with, or the next.
LEMMA BookTradeDate ==
    ASSUME today \in Days, BookTrade
    PROVE  \E date \in Days :
              /\ date = today \/ date = today + 1
              /\ today' = date /\ lastTradeDate' = date
              /\ dailyTradeCount' = TradeCount + 1
              /\ tradesOn' = [tradesOn EXCEPT ![date] = @ + 1]
<1>1. today' \in Days /\ (today' = today \/ today' = today + 1)
      /\ lastTradeDate' = today'
  BY LastDayAssumption DEF BookTrade, RecordTradeByClock, RecordTrade, Midnight
<1>2. dailyTradeCount' = TradeCount + 1
  BY DEF BookTrade, RecordTradeByClock, RecordTrade
<1>3. tradesOn' = [tradesOn EXCEPT ![today'] = @ + 1]
  BY DEF BookTrade
<1> HIDE DEF Days
<1> QED BY <1>1, <1>2, <1>3

LEMMA ControlMain ==
    ASSUME ControlOK, today \in Days, (\E s \in Signals : ReceiveSignal(s)) \/ MainStep
    PROVE  ControlOK'
<1> USE SignalAssumption
    DEF ControlOK, ControlTypeOK, SlotTaken, MonitorKeepsPosition, MainPC, EntryPC,
        FilledPC, MainOnly, Goto, ReturnToLoop, positionVars, monitorVars,
        processVars, historyVars
<1>1. CASE \E s \in Signals : ReceiveSignal(s)
  BY <1>1 DEF ReceiveSignal
<1>2. CASE Evaluate \/ CheckMarket \/ CreateEntryOrder \/ Submit
  BY <1>2 DEF Evaluate, CheckMarket, CreateEntryOrder, Submit
<1>3. CASE PlaceMaker
  <2>1. probes' \in [Signals -> Nat]
    BY <1>3 DEF PlaceMaker
  <2> QED BY <1>3, <2>1 DEF PlaceMaker
<1>4. CASE PollMaker \/ AbandonEntry \/ CancelMaker
  BY <1>4 DEF PollMaker, AbandonEntry, CancelMaker
<1>5. CASE PlaceIoc \/ PollIoc \/ CancelIoc
  BY <1>5 DEF PlaceIoc, PollIoc, CancelIoc
<1>6. CASE BookTrade
  <2> HIDE DEF Days
  <2>1. tradesOn' \in [Days -> Nat]
    <3>1. PICK date \in Days : tradesOn' = [tradesOn EXCEPT ![date] = @ + 1]
      BY <1>6, BookTradeDate
    <3> QED BY <3>1
  <2>2. opened' \subseteq Signals
    BY <1>6 DEF BookTrade
  <2> QED BY <1>6, <2>1, <2>2 DEF BookTrade
<1>7. CASE RaiseOpenFlag
  BY <1>7 DEF RaiseOpenFlag
<1>8. CASE StorePosition
  BY <1>8 DEF StorePosition, Acting, ExitPC
<1>9. CASE StartMonitor
  BY <1>9 DEF StartMonitor, Acting, ExitPC, MonitorPC
<1> QED BY <1>1, <1>2, <1>3, <1>4, <1>5, <1>6, <1>7, <1>8, <1>9 DEF MainStep

LEMMA ControlMonitor ==
    ASSUME ControlOK, NEW s \in Signals,
           MonitorStep(s) \/ MonitorStop(s) \/ KeepWatching(s)
    PROVE  ControlOK'
<1> USE SignalAssumption DEF MonitorOnly, MonitorAt
<1>1. UNCHANGED mainVars
  BY DEF MonitorStep, MonitorStop, KeepWatching, MonitorTick, DecideExit, BeginExit,
     PlaceExit, PollExit, CancelExit, PlaceReprice, PollReprice, CancelReprice,
     RecordResult, LowerOpenFlag, ClearPosition, ClearCancel
<1>2. ControlTypeOK'
  <2>1. \E here, next \in MonitorPC : MonitorAt(s, here, next)
    BY DEF MonitorStep, MonitorStop, KeepWatching, MonitorTick, DecideExit, BeginExit,
       PlaceExit, PollExit, CancelExit, PlaceReprice, PollReprice, CancelReprice,
       RecordResult, LowerOpenFlag, ClearPosition, ClearCancel, MonitorPC, ExitPC
  <2>2. mon' \in [Signals -> MonitorPC]
    BY <2>1 DEF ControlOK, ControlTypeOK
  <2>3. UNCHANGED <<pc, sig, ctxDone, restarts, restartsOn, tradesOn, probes, opened>>
    BY DEF MonitorStep, MonitorStop, KeepWatching, MonitorTick, DecideExit, BeginExit,
       PlaceExit, PollExit, CancelExit, PlaceReprice, PollReprice, CancelReprice,
       RecordResult, LowerOpenFlag, ClearPosition, ClearCancel, mainVars, processVars
  <2>4. /\ activePos' \in Signals \cup {NoSignal}
        /\ monitorCancel' \in Signals \cup {NoSignal}
        /\ pos' \in [Signals -> Signals \cup {NoSignal}]
        /\ cancelled' \in [Signals -> BOOLEAN]
        /\ settled' \subseteq Signals
    <3> USE DEF ControlOK, ControlTypeOK, positionVars
    <3>1. CASE MonitorTick(s) \/ BeginExit(s)
      <4>1. pos' = [pos EXCEPT ![s] = activePos]
        BY <3>1 DEF MonitorTick, BeginExit
      <4>2. UNCHANGED <<activePos, monitorCancel, cancelled, settled>>
        BY <3>1 DEF MonitorTick, BeginExit
      <4> QED BY <4>1, <4>2
    <3>2. CASE RecordResult(s)
      <4>1. pos[s] = s
        BY <3>2 DEF RecordResult, ControlOK, MonitorKeepsPosition, ExitPC
      <4> QED BY <3>2, <4>1 DEF RecordResult
    <3>3. CASE ClearPosition(s)
      BY <3>3 DEF ClearPosition
    <3>4. CASE ClearCancel(s)
      BY <3>4 DEF ClearCancel
    <3> QED
      BY <3>1, <3>2, <3>3, <3>4
         DEF MonitorStep, MonitorStop, KeepWatching, DecideExit, PlaceExit,
             PollExit, CancelExit, PlaceReprice, PollReprice, CancelReprice,
             LowerOpenFlag
  <2> QED BY <2>2, <2>3, <2>4 DEF ControlOK, ControlTypeOK
<1>3. SlotTaken' /\ MonitorKeepsPosition'
  <2> USE <1>1 DEF ControlOK, ControlTypeOK, SlotTaken, MonitorKeepsPosition, Acting,
          ExitPC, mainVars, EntryPC, FilledPC
  <2>1. CASE MonitorTick(s)
    BY <2>1 DEF MonitorTick, positionVars
  <2>2. CASE BeginExit(s)
    BY <2>2 DEF BeginExit, positionVars
  <2>3. CASE ClearPosition(s)
    BY <2>3 DEF ClearPosition
  <2>4. CASE ClearCancel(s)
    BY <2>4 DEF ClearCancel
  <2>5. CASE MonitorStop(s) \/ KeepWatching(s) \/ DecideExit(s)
    BY <2>5 DEF MonitorStop, KeepWatching, DecideExit, positionVars
  <2>6. CASE PlaceExit(s) \/ PlaceReprice(s)
    BY <2>6 DEF PlaceExit, PlaceReprice, positionVars
  <2>7. CASE PollExit(s) \/ PollReprice(s)
    BY <2>7 DEF PollExit, PollReprice, positionVars
  <2>8. CASE CancelExit(s) \/ CancelReprice(s)
    BY <2>8 DEF CancelExit, CancelReprice, positionVars
  <2>9. CASE RecordResult(s) \/ LowerOpenFlag(s)
    BY <2>9 DEF RecordResult, LowerOpenFlag, positionVars
  <2> QED BY <2>1, <2>2, <2>3, <2>4, <2>5, <2>6, <2>7, <2>8, <2>9 DEF MonitorStep
<1> QED BY <1>2, <1>3 DEF ControlOK

LEMMA ControlRest ==
    ASSUME ControlOK, today \in Days,
           Shutdown \/ ProcessEnds \/ Restart \/ DateChanges \/ ExchangeStep
    PROVE  ControlOK'
<1>1. CASE Shutdown \/ ProcessEnds \/ DateChanges \/ ExchangeStep
  BY <1>1
     DEF Shutdown, ProcessEnds, DateChanges, ExchangeStep, ControlOK, ControlTypeOK,
         SlotTaken, MonitorKeepsPosition, MainPC, EntryPC, FilledPC, Goto,
         positionVars, monitorVars, mainVars, processVars, historyVars
<1>2. CASE Restart
  <2>1. ControlTypeOK'
    <3> HIDE DEF Days
    <3>1. tradesOn' \in [Days -> Nat] /\ probes' \in [Signals -> Nat]
      BY <1>2 DEF Restart, ControlOK, ControlTypeOK
    <3>6. restartsOn' \in [Days -> Nat]
      <4>1. restartsOn \in [Days -> Nat] /\ restartsOn' = [restartsOn EXCEPT ![today] = @ + 1]
        BY <1>2 DEF Restart, ControlOK, ControlTypeOK
      <4> QED BY <4>1
    <3>2. mon' \in [Signals -> MonitorPC]
      BY <1>2 DEF Restart, MonitorPC
    <3>3. pos' \in [Signals -> Signals \cup {NoSignal}] /\ cancelled' \in [Signals -> BOOLEAN]
      BY <1>2 DEF Restart
    <3>4. restarts' \in Nat
      BY <1>2 DEF Restart, ControlOK, ControlTypeOK
    <3>5. pc' \in MainPC
      BY <1>2 DEF Restart, MainPC
    <3> QED BY <1>2, <3>1, <3>2, <3>3, <3>4, <3>5, <3>6 DEF Restart, ControlTypeOK
  <2>2. SlotTaken' /\ MonitorKeepsPosition'
    BY <1>2 DEF Restart, SlotTaken, MonitorKeepsPosition, EntryPC, FilledPC, Acting, ExitPC
  <2> QED BY <2>1, <2>2 DEF ControlOK
<1> QED BY <1>1, <1>2

LEMMA ControlStep ==
    ASSUME ControlOK, today \in Days, Next
    PROVE  ControlOK'
BY ControlMain, ControlMonitor, ControlRest DEF Next

-----------------------------------------------------------------------------
HandshakeOK == RiskStateOK /\ OrdersTypeOK /\ ExchangeTypeOK /\ ControlOK

LEMMA HandshakeInit ==
    ASSUME Init
    PROVE  HandshakeOK
<1> USE DEF Init, FreshProcess
<1>1. RiskStateOK
  BY FreshIsInv, LastDayAssumption
<1>2. OrdersTypeOK
  BY DEF FreshManager, OrdersTypeOK
<1>3. ExchangeTypeOK
  <2>1. NoOrder \in ExOrder
    BY ExchangeAssumption DEF NoOrder, ExOrder, ExStatus
  <2> QED BY <2>1 DEF ExchangeInit, ExchangeTypeOK
<1>4. ControlTypeOK
  <2> HIDE DEF Days
  <2>1. /\ tradesOn \in [Days -> Nat] /\ probes \in [Signals -> Nat]
        /\ restartsOn \in [Days -> Nat]
    OBVIOUS
  <2>2. mon \in [Signals -> MonitorPC]
    BY DEF MonitorPC
  <2> QED BY <2>1, <2>2 DEF ControlTypeOK, MainPC
<1>5. SlotTaken /\ MonitorKeepsPosition
  BY DEF SlotTaken, MonitorKeepsPosition, EntryPC, FilledPC, Acting, ExitPC
<1> QED BY <1>1, <1>2, <1>3, <1>4, <1>5 DEF HandshakeOK, ControlOK

LEMMA HandshakeStep ==
    ASSUME HandshakeOK, [Next]_vars
    PROVE  HandshakeOK'
<1> USE DEF HandshakeOK
<1>1. CASE UNCHANGED vars
  <2>1. RiskStateOK'
    BY <1>1, RestKeepsInv DEF vars, RiskStateOK
  <2>2. OrdersTypeOK' /\ ExchangeTypeOK'
    BY <1>1 DEF vars, orderVars, exchangeVars, OrdersTypeOK, ExchangeTypeOK
  <2>3. ControlOK'
    BY <1>1 DEF vars, mainVars, positionVars, monitorVars, processVars, historyVars,
       ControlOK, ControlTypeOK, SlotTaken, MonitorKeepsPosition
  <2> QED BY <2>1, <2>2, <2>3
<1>2. CASE Next
  <2>0. today \in Days
    BY DEF RiskStateOK
  <2>1. RiskStateOK'
    <3>1. CASE DateChanges
      <4>1. today' \in Days
        BY <3>1, <2>0, LastDayAssumption DEF DateChanges, Midnight
      <4> QED BY <3>1, <4>1, RestKeepsInv DEF DateChanges
    <3>2. CASE Restart
      BY <3>2, <2>0, NewIsInv DEF Restart
    <3>3. CASE pc = "setOpen" /\ SetPositionOpen(TRUE) /\ UNCHANGED today
      BY <3>3, FlagsKeepInv DEF SetPositionOpen, RiskStateOK, RiskTypeOK
    <3>4. ASSUME NEW s \in Signals, RecordResult(s) PROVE RiskStateOK'
      BY <3>4, StopLossKeepsInv, WinKeepsInv DEF RecordResult, MonitorOnly
    <3>5. ASSUME NEW s \in Signals, LowerOpenFlag(s) PROVE RiskStateOK'
      BY <3>5, FlagsKeepInv
         DEF LowerOpenFlag, MonitorOnly, SetPositionOpen, RiskStateOK, RiskTypeOK
    <3> QED
      BY <1>2, <2>0, <3>1, <3>2, <3>3, <3>4, <3>5, RiskCalls, RestKeepsInv,
         EvaluateKeepsInv, TradeKeepsInv
  <2>2. OrdersTypeOK'
    <3>1. CASE UNCHANGED orderVars
      BY <3>1 DEF orderVars, OrdersTypeOK
    <3>2. CASE Restart
      BY <3>2 DEF Restart, NewManager, OrdersTypeOK
    <3>3. CASE pc = "createOrder" /\ CreateOrder(sig)
      BY <2>0, <3>3, CreateTypes DEF ControlOK, SlotTaken, EntryPC
    <3> QED BY <1>2, <3>1, <3>2, <3>3, OrderCalls, UpdateTypes, MarkTypes
  <2>3. ExchangeTypeOK'
    <3>1. CASE UNCHANGED exchangeVars
      BY <3>1 DEF exchangeVars, ExchangeTypeOK
    <3>2. CASE ExchangeStep
      BY <3>2, FillTypes DEF ExchangeStep
    <3>3. CASE pc \in EntryPC /\ \E o \in {MakerId(sig), IocId(sig)} : Place(o, Side[sig], FALSE)
      <4>1. Side[sig] \in {1, -1}
        BY <3>3, ExchangeAssumption DEF ControlOK, SlotTaken
      <4> QED BY <3>3, <4>1, PlaceTypes
    <3>4. ASSUME NEW s \in Signals, mon[s] \in ExitPC,
                 \E o \in {ExitId(pos[s]), RepriceId(pos[s])} :
                     Place(o, -Side[pos[s]], TRUE)
          PROVE  ExchangeTypeOK'
      <4>1. pos[s] = s
        BY <3>4 DEF ControlOK, MonitorKeepsPosition
      <4>2. -Side[pos[s]] \in {1, -1}
        BY <4>1, ExchangeAssumption
      <4> QED BY <3>4, <4>2, PlaceTypes
    <3>5. CASE \E o : \E dead \in BOOLEAN : CancelOrder(o, dead)
      BY <3>5, CancelTypes
    <3>6. CASE Restart
      BY <3>6, RestartTypes DEF Restart
    <3> QED BY <1>2, <3>1, <3>2, <3>3, <3>4, <3>5, <3>6, ExchangeCalls
  <2>4. ControlOK'
    BY <1>2, <2>0, ControlStep
  <2> QED BY <2>1, <2>2, <2>3, <2>4
<1> QED BY <1>1, <1>2

-----------------------------------------------------------------------------
\* Every variable keeps its type: no handler stores a value its readers do not
\* expect, whatever the exchange answers (execution/*.go, risk/engine.go,
\* orders/manager.go).
THEOREM PipelineTypes == Spec => []TypeOK
<1>1. HandshakeOK => TypeOK
  BY DEF HandshakeOK, RiskStateOK, ControlOK, ControlTypeOK, TypeOK
<1> QED BY HandshakeInit, HandshakeStep, <1>1, PTL DEF Spec

\* The engine's flags agree with its counters in the pipeline's own use of it.
THEOREM PipelineRisk == Spec => []RiskInv
<1>1. HandshakeOK => RiskInv
  BY DEF HandshakeOK, RiskStateOK
<1> QED BY HandshakeInit, HandshakeStep, <1>1, PTL DEF Spec

\* Main never places an entry while a monitor may act, and no two monitors act
\* at once (main.go:234, exit.go:342).
THEOREM OneTrader == Spec => []TradingExcluded
<1>1. HandshakeOK => TradingExcluded
  BY SignalAssumption
     DEF HandshakeOK, ControlOK, SlotTaken, MonitorKeepsPosition, TradingExcluded,
         FilledPC
<1> QED BY HandshakeInit, HandshakeStep, <1>1, PTL DEF Spec

\* A monitor only ever sees the position it was started for (exit.go:54-66 and
\* exit.go:198-207).
THEOREM MonitorOwnsPosition == Spec => []MonitorKeepsPosition
<1>1. HandshakeOK => MonitorKeepsPosition
  BY DEF HandshakeOK, ControlOK
<1> QED BY HandshakeInit, HandshakeStep, <1>1, PTL DEF Spec

-----------------------------------------------------------------------------
(* The flag and the pointer.                                               *)

LEMMA FlagStep ==
    ASSUME HandshakeOK, FlagFollowsPosition, [Next]_vars
    PROVE  FlagFollowsPosition'
<1> USE DEF HandshakeOK, ControlOK, FlagFollowsPosition, Up
<1> USE SignalAssumption
<1>1. CASE UNCHANGED vars
  BY <1>1 DEF vars, mainVars, positionVars, monitorVars, riskVars
<1>2. CASE \E s \in Signals : ReceiveSignal(s)
  BY <1>2 DEF ReceiveSignal, MainOnly, riskVars, positionVars, monitorVars
<1>3. CASE MainStep
  <2> USE DEF MainOnly, Goto, ReturnToLoop, riskVars, positionVars, monitorVars
  <2>1. CASE RaiseOpenFlag
    BY <2>1 DEF RaiseOpenFlag, SetPositionOpen, dailyVars
  <2>2. CASE StorePosition
    <3>1. sig \in Signals /\ activePos = NoSignal
      BY <2>2 DEF StorePosition, SlotTaken, FilledPC
    <3>2. mon[sig] # "clearPosition"
      BY <3>1 DEF MonitorKeepsPosition, Acting
    <3> QED BY <2>2, <3>1, <3>2 DEF StorePosition
  <2>3. CASE StartMonitor
    <3>1. sig \in Signals /\ activePos = sig /\ mon[sig] # "clearPosition"
      BY <2>3 DEF StartMonitor, SlotTaken, FilledPC, Acting
    <3>2. mon'[sig] = "watching"
      BY <2>3, <3>1 DEF StartMonitor, ControlTypeOK
    <3> QED BY <2>3, <3>1, <3>2 DEF StartMonitor
  <2> QED
    BY <1>3, <2>1, <2>2, <2>3
       DEF MainStep, Evaluate, EvaluateSignal, CheckMarket, CreateEntryOrder, Submit,
           PlaceMaker, PollMaker, AbandonEntry, CancelMaker, PlaceIoc, PollIoc,
           CancelIoc, BookTrade, RecordTradeByClock, RecordTrade
<1>4. ASSUME NEW s \in Signals, MonitorStep(s) \/ MonitorStop(s) \/ KeepWatching(s)
      PROVE  FlagFollowsPosition'
  <2> USE DEF MonitorOnly, MonitorAt, mainVars, riskVars, positionVars
  <2>1. CASE LowerOpenFlag(s)
    <3>1. activePos = s
      BY <2>1 DEF LowerOpenFlag, MonitorKeepsPosition, Acting
    <3>2. mon'[s] = "clearPosition"
      BY <2>1 DEF LowerOpenFlag, ControlTypeOK
    <3> QED BY <2>1, <3>1, <3>2
            DEF LowerOpenFlag, SetPositionOpen, SlotTaken, FilledPC
  <2>2. CASE ClearPosition(s)
    <3>1. activePos = s
      BY <2>2 DEF ClearPosition, MonitorKeepsPosition, Acting
    <3> QED BY <2>2, <3>1 DEF ClearPosition, SlotTaken, FilledPC
  <2>3. ASSUME UNCHANGED <<pc, activePos, hasOpenPosition>>,
               NEW here, NEW next, MonitorAt(s, here, next),
               here # "clearPosition", next # "clearPosition"
        PROVE  FlagFollowsPosition'
    BY <2>3 DEF ControlTypeOK
  <2> QED
    BY <1>4, <2>1, <2>2, <2>3
       DEF MonitorStep, MonitorStop, KeepWatching, MonitorTick, DecideExit, BeginExit,
           PlaceExit, PollExit, CancelExit, PlaceReprice, PollReprice, CancelReprice,
           RecordResult, RecordStopLoss, RecordWin, ClearCancel
<1>5. CASE Restart
  BY <1>5 DEF Restart, NewEngine
<1>6. CASE Shutdown \/ ProcessEnds \/ DateChanges \/ ExchangeStep
  BY <1>6 DEF Shutdown, ProcessEnds, DateChanges, ExchangeStep, Goto, riskVars,
     positionVars, monitorVars, mainVars
<1> QED BY <1>1, <1>2, <1>3, <1>4, <1>5, <1>6 DEF Next

\* The engine refuses a signal exactly while the pipeline has a position, or is
\* one write away from storing it (pipeline.go:291-313, exit.go:338-342).
THEOREM FlagAgrees == Spec => []FlagFollowsPosition
<1>1. Init => FlagFollowsPosition
  BY SignalAssumption DEF Init, FreshProcess, FreshEngine, FlagFollowsPosition
<1> QED BY HandshakeInit, HandshakeStep, <1>1, FlagStep, PTL DEF Spec

-----------------------------------------------------------------------------
(* Exits.                                                                  *)

ExitIds == {"exit", "reprice"} \X Signals

\* What is placed as an exit is reduce-only, whichever of the two ids it has.
ExitsReduceOnly ==
    \A o \in ExitIds : Known(o) => exOrders[o].reduceOnly

ReduceRoom(side) == Room(side, TRUE)

\* An order that takes no more than its room moves the account towards flat.
LEMMA RoomReduces ==
    ASSUME ExchangeTypeOK, NEW side \in {1, -1}
    PROVE  /\ ReduceRoom(side) \in Nat
           /\ \A n \in Int :
                 0 < n /\ n <= ReduceRoom(side) =>
                    \/ 0 <= exposure + side * n /\ exposure + side * n < exposure
                    \/ 0 >= exposure + side * n /\ exposure + side * n > exposure
<1> USE ExchangeAssumption DEF ExchangeTypeOK, Room, ReduceRoom
<1>1. CASE side = 1
  BY <1>1
<1>2. CASE side = -1
  BY <1>2
<1> QED BY <1>1, <1>2

Nearer ==
    \/ 0 <= exposure' /\ exposure' < exposure
    \/ 0 >= exposure' /\ exposure' > exposure

ReducingStep ==
    /\ ExitsReduceOnly'
    /\ \A o \in ExitIds : exOrders'[o].filled > exOrders[o].filled => Nearer

LEMMA EntryReduces ==
    ASSUME ExchangeTypeOK, ExitsReduceOnly, ExitIds \subseteq OrderIds,
           NEW o, o \notin ExitIds, NEW side, Place(o, side, FALSE)
    PROVE  ReducingStep
<1>1. \A p \in ExitIds : exOrders'[p] = exOrders[p]
  BY DEF Place, ExchangeTypeOK
<1>2. \A p \in ExitIds : exOrders[p].filled \in Int
  BY ExchangeAssumption DEF ExchangeTypeOK, ExOrder
<1> QED BY <1>1, <1>2 DEF ReducingStep, ExitsReduceOnly, Known

LEMMA ExitReduces ==
    ASSUME ExchangeTypeOK, ExitsReduceOnly, ExitIds \subseteq OrderIds,
           NEW o \in ExitIds, NEW side \in {1, -1}, Place(o, side, TRUE)
    PROVE  ReducingStep
<1> DEFINE taken == IF Instant THEN ReduceRoom(side) ELSE 0
<1>1. taken \in Nat /\ (0 < taken => taken = ReduceRoom(side))
  BY RoomReduces
<1>2. exposure' = exposure + side * taken
  BY DEF Place, ReduceRoom
<1>3. \A p \in ExitIds : p # o => exOrders'[p] = exOrders[p]
  BY DEF Place, ExchangeTypeOK
<1>4. exOrders'[o].filled = taken
  BY DEF Place, ExchangeTypeOK, ReduceRoom
<1>5. exOrders'[o].reduceOnly
  BY DEF Place, ExchangeTypeOK
<1> HIDE DEF taken
<1>6. \A p \in ExitIds : exOrders[p].filled \in Nat
  BY ExchangeAssumption DEF ExchangeTypeOK, ExOrder
<1>7. 0 < taken => Nearer
  BY <1>1, <1>2, RoomReduces DEF Nearer
<1>8. \A p \in ExitIds : exOrders'[p].filled > exOrders[p].filled => Nearer
  BY <1>1, <1>3, <1>4, <1>6, <1>7
<1>9. ExitsReduceOnly'
  BY <1>3, <1>5 DEF ExitsReduceOnly, Known
<1> QED BY <1>8, <1>9 DEF ReducingStep

LEMMA CancelReduces ==
    ASSUME ExchangeTypeOK, ExitsReduceOnly, ExitIds \subseteq OrderIds,
           NEW o, NEW dead \in BOOLEAN, CancelOrder(o, dead)
    PROVE  ReducingStep
<1>1. \A p \in ExitIds : /\ exOrders'[p].filled = exOrders[p].filled
                         /\ exOrders'[p].reduceOnly = exOrders[p].reduceOnly
                         /\ Known(p)' => Known(p)
  BY DEF CancelOrder, exchangeVars, ExchangeTypeOK, ExOrder, Known, Working, Cancellable
<1>2. \A p \in ExitIds : exOrders[p].filled \in Int
  BY ExchangeAssumption DEF ExchangeTypeOK, ExOrder
<1>3. ExitsReduceOnly'
  BY <1>1 DEF ExitsReduceOnly
<1> QED BY <1>1, <1>2, <1>3 DEF ReducingStep

LEMMA FillReduces ==
    ASSUME ExchangeTypeOK, ExitsReduceOnly, ExitIds \subseteq OrderIds,
           NEW o \in OrderIds, Fill(o) \/ Expire(o)
    PROVE  ReducingStep
<1>1. \A p \in ExitIds : /\ exOrders'[p].reduceOnly = exOrders[p].reduceOnly
                         /\ Known(p)' => Known(p)
  BY DEF Fill, Expire, ExchangeTypeOK, ExOrder, Known, Working
<1>2. ExitsReduceOnly'
  BY <1>1 DEF ExitsReduceOnly
<1>3. \A p \in ExitIds : exOrders[p].filled \in Int
  BY ExchangeAssumption DEF ExchangeTypeOK, ExOrder
<1>4. ASSUME NEW p \in ExitIds, exOrders'[p].filled > exOrders[p].filled
      PROVE  Nearer
  <2>1. CASE Expire(o)
    BY <1>3, <1>4, <2>1 DEF Expire, ExchangeTypeOK, ExOrder
  <2>2. CASE Fill(o)
    <3>1. p = o
      BY <1>3, <1>4, <2>2 DEF Fill, ExchangeTypeOK, ExOrder
    <3>2. exOrders[p].reduceOnly = TRUE /\ exOrders[p].side \in {1, -1}
      BY <2>2, <3>1 DEF ExitsReduceOnly, Fill, Known, Working, ExchangeTypeOK, ExOrder
    <3>3. /\ ReduceRoom(exOrders[p].side) > 0
          /\ exposure' = exposure + exOrders[p].side * 1
      <4>1. ReduceRoom(exOrders[p].side) > 0
        BY <2>2, <3>1, <3>2 DEF Fill, ReduceRoom, Room
      <4>2. exposure' = exposure + exOrders[p].side
        BY <2>2, <3>1 DEF Fill
      <4>3. exOrders[p].side * 1 = exOrders[p].side
        BY <3>2
      <4> QED BY <4>1, <4>2, <4>3
    <3>4. 1 <= ReduceRoom(exOrders[p].side)
      BY <3>2, <3>3, RoomReduces
    <3> QED BY <3>2, <3>3, <3>4, RoomReduces DEF Nearer
  <2> QED BY <2>1, <2>2
<1> QED BY <1>2, <1>4 DEF ReducingStep

LEMMA RestartReduces ==
    ASSUME ExchangeTypeOK, ExitsReduceOnly, ExitIds \subseteq OrderIds, ExchangeRestart
    PROVE  ReducingStep
<1>1. \A p \in ExitIds : exOrders[p].filled \in Nat
  BY ExchangeAssumption DEF ExchangeTypeOK, ExOrder
<1>2. CASE Instant
  <2>1. \A p \in ExitIds : exOrders'[p] = NoOrder
    BY <1>2 DEF ExchangeRestart
  <2> QED BY <1>1, <2>1 DEF ReducingStep, ExitsReduceOnly, Known, NoOrder
<1>3. CASE ~Instant
  BY <1>1, <1>3 DEF ExchangeRestart, exchangeVars, ReducingStep, ExitsReduceOnly, Known
<1> QED BY <1>2, <1>3

LEMMA ReducingNext ==
    ASSUME HandshakeOK, ExitsReduceOnly, Next
    PROVE  ReducingStep
<1> USE DEF HandshakeOK
<1>0. /\ ExitIds \subseteq OrderIds
      /\ \A s \in Signals : ExitId(s) \in ExitIds /\ RepriceId(s) \in ExitIds
      /\ MakerId(sig) \notin ExitIds /\ IocId(sig) \notin ExitIds
  BY DEF ExitIds, ExitId, RepriceId, MakerId, IocId, OrderIds
<1>1. CASE UNCHANGED exchangeVars
  <2>1. \A p \in ExitIds : exOrders[p].filled \in Int
    BY <1>0, ExchangeAssumption DEF ExchangeTypeOK, ExOrder
  <2> QED BY <1>1, <2>1 DEF exchangeVars, ReducingStep, ExitsReduceOnly, Known
<1>2. CASE ExchangeStep
  BY <1>0, <1>2, FillReduces DEF ExchangeStep
<1>3. CASE \E o \in {MakerId(sig), IocId(sig)} : Place(o, Side[sig], FALSE)
  BY <1>0, <1>3, EntryReduces
<1>4. ASSUME NEW s \in Signals, mon[s] \in ExitPC,
             NEW o \in {ExitId(pos[s]), RepriceId(pos[s])}, Place(o, -Side[pos[s]], TRUE)
      PROVE  ReducingStep
  <2>1. pos[s] = s
    BY <1>4 DEF ControlOK, MonitorKeepsPosition
  <2>2. -Side[pos[s]] \in {1, -1}
    BY <2>1, ExchangeAssumption
  <2>3. o \in ExitIds
    BY <1>0, <1>4, <2>1
  <2> QED BY <1>0, <1>4, <2>2, <2>3, ExitReduces
<1>5. CASE \E o : \E dead \in BOOLEAN : CancelOrder(o, dead)
  BY <1>0, <1>5, CancelReduces
<1>6. CASE Restart
  BY <1>0, <1>6, RestartReduces DEF Restart
<1> QED BY <1>1, <1>2, <1>3, <1>4, <1>5, <1>6, ExchangeCalls

\* No exit, first or repriced, late or partial, ever turns the account around
\* or adds to it, even after an entry that filled unseen (exit.go:236-246 and
\* 283-293 send both orders reduce-only).
THEOREM ExitsReduce == Spec => ExitsOnlyReduce
<1> DEFINE Reducing ==
      \A s \in Signals : \A o \in {ExitId(s), RepriceId(s)} :
          exOrders'[o].filled > exOrders[o].filled =>
              \/ 0 <= exposure' /\ exposure' < exposure
              \/ 0 >= exposure' /\ exposure' > exposure
<1>1. Init => ExitsReduceOnly
  <2>1. ExitIds \subseteq OrderIds
    BY DEF ExitIds, OrderIds
  <2> QED BY <2>1 DEF Init, ExchangeInit, ExitsReduceOnly, Known, NoOrder
<1>2. HandshakeOK /\ ExitsReduceOnly /\ [Next]_vars => ExitsReduceOnly'
  <2>1. ASSUME ExitsReduceOnly, UNCHANGED vars PROVE ExitsReduceOnly'
    BY <2>1 DEF vars, exchangeVars, ExitsReduceOnly, Known
  <2> QED BY <2>1, ReducingNext DEF ReducingStep
<1>3. HandshakeOK /\ ExitsReduceOnly /\ [Next]_vars => [Reducing]_vars
  <2>1. ASSUME HandshakeOK, ExitsReduceOnly, Next PROVE Reducing
    <3>1. \A s \in Signals : ExitId(s) \in ExitIds /\ RepriceId(s) \in ExitIds
      BY DEF ExitIds, ExitId, RepriceId
    <3> QED BY <2>1, <3>1, ReducingNext DEF ReducingStep, Nearer
  <2> QED BY <2>1
<1> QED BY HandshakeInit, HandshakeStep, <1>1, <1>2, <1>3, PTL DEF Spec, ExitsOnlyReduce
=============================================================================
