------------------------ MODULE PipelineBooksProofs ------------------------
(***************************************************************************)
(* What the process writes down agrees with what it does: trades with the  *)
(* daily limit, probes with the seen map, results with positions, the      *)
(* latency records with orders and fills, and the whole with the one-slot  *)
(* lifecycle of TradeLifecycle.                                            *)
(*                                                                         *)
(* Everything rests on HandshakeOK of ExecutionPipelineProofs: while main  *)
(* is in an entry no monitor acts, and a monitor acts on its own position. *)
(***************************************************************************)
EXTENDS ExecutionPipelineProofs, TrackedPipeline

USE DEF Days, NoDate

-----------------------------------------------------------------------------
(* One probe per signal.                                                   *)

\* The seen map remembers every probe.
ProbeInv ==
    \A s \in Signals :
        /\ probes[s] <= 1
        /\ seen[s] = NoId => probes[s] = 0
        /\ s = sig /\ pc \in {"submit", "placeMaker"} => probes[s] = 0 /\ seen[s] # NoId

LEMMA ProbeStep ==
    ASSUME HandshakeOK, ProbeInv, [Next]_vars
    PROVE  ProbeInv'
<1> USE DEF HandshakeOK, ControlOK, ProbeInv
<1>1. CASE UNCHANGED vars
  BY <1>1 DEF vars, mainVars, orderVars, historyVars
<1>2. CASE CreateEntryOrder
  <2>1. sig \in Signals
    BY <1>2 DEF CreateEntryOrder, SlotTaken, EntryPC
  <2>2. CASE ReturnToLoop /\ UNCHANGED orderVars
    BY <1>2, <2>2 DEF CreateEntryOrder, ReturnToLoop, orderVars, historyVars
  <2>3. CASE CreateOrder(sig) /\ Goto("submit")
    <3>1. GenerateClientOrderID(sig, today) # NoId
      BY <2>1, IdTypes DEF RiskStateOK, ClientIds, NoId
    <3>2. probes[sig] = 0
      BY <2>1, <2>3 DEF CreateOrder, Duplicate
    <3>3. seen'[sig] # NoId /\ \A s \in Signals : s # sig => seen'[s] = seen[s]
      BY <2>1, <2>3, <3>1 DEF CreateOrder, OrdersTypeOK
    <3> QED BY <1>2, <2>3, <3>2, <3>3 DEF CreateEntryOrder, Goto, historyVars
  <2> QED BY <1>2, <2>2, <2>3 DEF CreateEntryOrder
<1>3. CASE PlaceMaker
  <2>1. /\ sig \in Signals /\ probes[sig] = 0 /\ seen[sig] # NoId
    BY <1>3 DEF PlaceMaker, SlotTaken, EntryPC
  <2>2. probes'[sig] = 1 /\ \A s \in Signals : s # sig => probes'[s] = probes[s]
    BY <1>3, <2>1 DEF PlaceMaker, ControlTypeOK
  <2>3. seen' = seen /\ pc' \notin {"submit", "placeMaker"}
    BY <1>3 DEF PlaceMaker, UpdateState, Goto, ReturnToLoop
  <2> QED BY <2>1, <2>2, <2>3
<1>4. CASE Restart
  BY <1>4 DEF Restart
<1>5. CASE \E s \in Signals : ReceiveSignal(s)
  BY <1>5 DEF ReceiveSignal, orderVars, historyVars
<1>6. CASE MainStep /\ ~CreateEntryOrder /\ ~PlaceMaker
  BY <1>6
     DEF MainStep, Goto, ReturnToLoop, orderVars, historyVars, Evaluate, CheckMarket,
         Submit, UpdateState, PollMaker, MarkFilled, AbandonEntry, CancelMaker,
         PlaceIoc, PollIoc, CancelIoc, BookTrade, RaiseOpenFlag, StorePosition,
         StartMonitor
<1>7. CASE \E s \in Signals : MonitorStep(s) \/ MonitorStop(s) \/ KeepWatching(s)
  <2>1. UNCHANGED <<pc, sig, seen, probes>>
    BY <1>7
       DEF MonitorOnly, mainVars, orderVars, MonitorStep, MonitorStop, KeepWatching,
           MonitorTick, DecideExit, BeginExit, PlaceExit, PollExit, CancelExit,
           PlaceReprice, PollReprice, CancelReprice, RecordResult, LowerOpenFlag,
           ClearPosition, ClearCancel
  <2> QED BY <2>1
<1>8. CASE Shutdown \/ ProcessEnds \/ DateChanges \/ ExchangeStep
  BY <1>8 DEF Shutdown, ProcessEnds, DateChanges, ExchangeStep, Goto, mainVars,
     orderVars, historyVars
<1> QED BY <1>1, <1>2, <1>3, <1>4, <1>5, <1>6, <1>7, <1>8 DEF Next

-----------------------------------------------------------------------------
(* The daily limit.                                                        *)

\* What the processes before this one may have traded on each date.
Earlier == [d \in Days |-> MaxDailyTrades * restartsOn[d]]

\* The engine's counter misses no trade of this process on the date it carries,
\* and a date it does not carry yet has the trades of earlier processes only.
CountInv ==
    /\ \A d \in Days : d > today => tradesOn[d] = 0
    /\ lastTradeDate = NoDate => dailyTradeCount = 0
    /\ lastTradeDate # NoDate =>
           /\ lastTradeDate <= today
           /\ tradesOn[lastTradeDate] <= Earlier[lastTradeDate] + dailyTradeCount
    /\ lastTradeDate # today => tradesOn[today] <= Earlier[today]

\* A signal past the evaluation has room for its trade, on whatever date.
RoomForTrade ==
    pc \in (EntryPC \ {"evaluate"}) \cup {"recordTrade"} => TradeCount < MaxDailyTrades

\* The limit once more than there were restarts.
WithinShare == \A d \in Days : tradesOn[d] <= Earlier[d] + MaxDailyTrades

TradesInv == CountInv /\ RoomForTrade /\ WithinShare

LEMMA EarlierTyped ==
    ASSUME ControlTypeOK
    PROVE  /\ Earlier \in [Days -> Nat]
           /\ \A d \in Days : MaxDailyTrades * (1 + restartsOn[d]) = Earlier[d] + MaxDailyTrades
<1>1. restartsOn \in [Days -> Nat] /\ MaxDailyTrades \in Nat
  BY RiskAssumption DEF ControlTypeOK
<1>2. \A m, n \in Nat : m * n \in Nat /\ m * (1 + n) = m * n + m
  OBVIOUS
<1> HIDE DEF Days
<1> QED BY <1>1, <1>2 DEF Earlier

\* A method that resets an old day and records no trade leaves the counter
\* exact and the room for one more trade what it was.
LEMMA ResetKeepsCount ==
    ASSUME RiskStateOK, ControlTypeOK, CountInv,
           dailyTradeCount' = TradeCount, lastTradeDate' = TradeDate,
           UNCHANGED <<today, tradesOn, restartsOn>>
    PROVE  CountInv' /\ TradeCount' = TradeCount
<1>1. Earlier' = Earlier
  BY DEF Earlier
<1>2. Earlier \in [Days -> Nat] /\ today \in Days /\ lastTradeDate \in Days \cup {NoDate}
      /\ tradesOn \in [Days -> Nat] /\ dailyTradeCount \in Nat
  BY EarlierTyped DEF RiskStateOK, RiskTypeOK, ControlTypeOK
<1>3. CASE NewDay
  <2>1. lastTradeDate' = today /\ dailyTradeCount' = 0 /\ tradesOn[today] <= Earlier[today]
    BY <1>3 DEF TradeCount, TradeDate, NewDay, CountInv
  <2>2. CountInv'
    BY <1>1, <1>2, <2>1 DEF CountInv
  <2> QED BY <1>3, <2>1, <2>2 DEF TradeCount, NewDay
<1>4. CASE ~NewDay
  BY <1>1, <1>4 DEF TradeCount, TradeDate, NewDay, CountInv
<1> QED BY <1>3, <1>4

LEMMA BookKeepsCount ==
    ASSUME HandshakeOK, TradesInv, BookTrade
    PROVE  CountInv' /\ WithinShare'
<1> USE DEF HandshakeOK, ControlOK, TradesInv
<1>1. TradeCount < MaxDailyTrades
  BY DEF BookTrade, RoomForTrade
<1>2. today \in Days /\ tradesOn \in [Days -> Nat] /\ dailyTradeCount \in Nat
      /\ lastTradeDate \in Days \cup {NoDate}
  BY DEF RiskStateOK, RiskTypeOK, ControlTypeOK
<1>3. PICK date \in Days :
        /\ date = today \/ date = today + 1
        /\ today' = date /\ lastTradeDate' = date
        /\ dailyTradeCount' = TradeCount + 1
        /\ tradesOn' = [tradesOn EXCEPT ![date] = @ + 1]
  BY <1>2, BookTradeDate
<1>4. Earlier' = Earlier /\ Earlier \in [Days -> Nat]
  BY EarlierTyped DEF BookTrade, processVars, Earlier
<1>5. tradesOn[date] <= Earlier[date] + TradeCount
  BY <1>2, <1>3, <1>4 DEF CountInv, TradeCount, NewDay
<1>6. \A d \in Days : d > date => tradesOn[d] = 0
  BY <1>2, <1>3 DEF CountInv
<1>7. CountInv'
  <2>1. TradeCount \in Nat /\ date # NoDate
    BY <1>2 DEF TradeCount
  <2>2. tradesOn'[date] <= Earlier[date] + dailyTradeCount'
    BY <1>2, <1>3, <1>4, <1>5, <2>1
  <2>3. \A d \in Days : d > date => tradesOn'[d] = 0
    BY <1>2, <1>3, <1>6
  <2> QED BY <1>3, <1>4, <2>1, <2>2, <2>3 DEF CountInv
<1>8. WithinShare'
  <2>1. tradesOn[date] + 1 <= Earlier[date] + MaxDailyTrades
    BY <1>1, <1>2, <1>3, <1>4, <1>5, RiskAssumption DEF TradeCount
  <2> QED BY <1>2, <1>3, <1>4, <2>1 DEF WithinShare
<1> QED BY <1>7, <1>8

\* A restart takes the counter away, and grants the date another limit.
LEMMA RestartKeepsCount ==
    ASSUME HandshakeOK, TradesInv, Restart
    PROVE  CountInv' /\ WithinShare'
<1> USE DEF HandshakeOK, ControlOK, TradesInv
<1>1. /\ today \in Days /\ tradesOn \in [Days -> Nat] /\ restartsOn \in [Days -> Nat]
      /\ MaxDailyTrades \in Nat
  BY RiskAssumption DEF RiskStateOK, ControlTypeOK
<1>2. /\ UNCHANGED <<today, tradesOn>>
      /\ lastTradeDate' = NoDate /\ dailyTradeCount' = 0
      /\ restartsOn' = [restartsOn EXCEPT ![today] = @ + 1]
  BY DEF Restart, NewEngine
<1>3. Earlier \in [Days -> Nat]
  BY EarlierTyped
<1>4. /\ Earlier'[today] = Earlier[today] + MaxDailyTrades
      /\ \A d \in Days : d # today => Earlier'[d] = Earlier[d]
  <2>1. \A m, n \in Nat : m * (n + 1) = m * n + m
    OBVIOUS
  <2> HIDE DEF Days
  <2> QED BY <1>1, <1>2, <2>1 DEF Earlier
<1>5. \A d \in Days : Earlier'[d] >= Earlier[d]
  BY <1>1, <1>3, <1>4
<1>6. tradesOn[today] <= Earlier'[today]
  BY <1>1, <1>4 DEF WithinShare
<1>7. Earlier' \in [Days -> Nat]
  <2>1. \A d \in Days : Earlier'[d] \in Nat
    BY <1>1, <1>3, <1>4
  <2> QED BY <2>1 DEF Earlier
<1>8. CountInv'
  BY <1>1, <1>2, <1>6 DEF CountInv
<1>9. WithinShare'
  BY <1>1, <1>2, <1>3, <1>5, <1>7 DEF WithinShare
<1> QED BY <1>8, <1>9

\* What the other actions of main and the monitors touch of all this.
LEMMA TradesFrame ==
    ASSUME Next, ~BookTrade, ~Restart, ~DateChanges
    PROVE  /\ UNCHANGED <<today, tradesOn, restartsOn>>
           /\ \/ UNCHANGED <<dailyTradeCount, lastTradeDate>>
              \/ dailyTradeCount' = TradeCount /\ lastTradeDate' = TradeDate
           /\ \/ pc' \notin (EntryPC \ {"evaluate"}) \cup {"recordTrade"}
              \/ pc \in (EntryPC \ {"evaluate"}) \cup {"recordTrade"}
              \/ Evaluate /\ Allowed
<1> USE DEF EntryPC
<1>1. CASE \E s \in Signals : ReceiveSignal(s)
  BY <1>1 DEF ReceiveSignal, MainOnly, riskVars, dailyVars, processVars, historyVars
<1>2. CASE MainStep
  <2> USE DEF MainOnly, Goto, ReturnToLoop, riskVars, dailyVars, processVars, historyVars
  <2>1. CASE Evaluate
    BY <2>1 DEF Evaluate, EvaluateSignal, MaybeResetDaily
  <2>2. CASE ~Evaluate
    BY <1>2, <2>2
       DEF MainStep, CheckMarket, CreateEntryOrder, Submit, PlaceMaker, PollMaker,
           AbandonEntry, CancelMaker, PlaceIoc, PollIoc, CancelIoc, RaiseOpenFlag,
           SetPositionOpen, StorePosition, StartMonitor
  <2> QED BY <2>1, <2>2
<1>3. CASE \E s \in Signals : MonitorStep(s) \/ MonitorStop(s) \/ KeepWatching(s)
  BY <1>3
     DEF MonitorOnly, mainVars, processVars, riskVars, dailyVars, MonitorStep, MonitorStop,
         KeepWatching, MonitorTick, DecideExit, BeginExit, PlaceExit, PollExit,
         CancelExit, PlaceReprice, PollReprice, CancelReprice, RecordResult,
         RecordStopLoss, RecordWin, LowerOpenFlag, SetPositionOpen, ClearPosition,
         ClearCancel
<1>4. CASE Shutdown \/ ProcessEnds \/ ExchangeStep
  BY <1>4 DEF Shutdown, ProcessEnds, ExchangeStep, Goto, mainVars, riskVars, dailyVars,
     processVars, historyVars
<1> QED BY <1>1, <1>2, <1>3, <1>4 DEF Next

LEMMA TradesStep ==
    ASSUME HandshakeOK, TradesInv, [Next]_vars
    PROVE  TradesInv'
<1> USE DEF HandshakeOK, ControlOK
<1>0. UNCHANGED restartsOn => Earlier' = Earlier
  BY DEF Earlier
<1>1. CASE UNCHANGED vars
  BY <1>0, <1>1 DEF vars, mainVars, riskVars, dailyVars, processVars, historyVars, TradesInv,
     CountInv, RoomForTrade, WithinShare, TradeCount, NewDay
<1>2. CASE BookTrade
  <2>1. RoomForTrade'
    BY <1>2 DEF BookTrade, Goto, RoomForTrade, EntryPC
  <2> QED BY <1>2, <2>1, BookKeepsCount DEF TradesInv
<1>3. CASE Restart
  <2>1. RoomForTrade'
    BY <1>3 DEF Restart, RoomForTrade, EntryPC
  <2> QED BY <1>3, <2>1, RestartKeepsCount DEF TradesInv
<1>4. CASE DateChanges
  <2>1. /\ today' = today + 1 /\ today' \in Days
        /\ UNCHANGED <<tradesOn, restartsOn, pc, dailyTradeCount, lastTradeDate>>
    BY <1>4, LastDayAssumption
       DEF DateChanges, Midnight, riskVars, dailyVars, mainVars, processVars, historyVars, RiskStateOK
  <2>2. Earlier' = Earlier /\ Earlier \in [Days -> Nat]
    BY <1>0, <2>1, EarlierTyped
  <2>3. CountInv'
    BY <2>1, <2>2 DEF TradesInv, CountInv, RiskStateOK, RiskTypeOK
  <2>4. TradeCount' < MaxDailyTrades \/ TradeCount' = TradeCount
    BY <2>1, RiskAssumption
       DEF TradesInv, CountInv, RiskStateOK, RiskTypeOK, TradeCount, NewDay
  <2>5. RoomForTrade' /\ WithinShare'
    BY <2>1, <2>2, <2>4 DEF TradesInv, RoomForTrade, WithinShare
  <2> QED BY <2>3, <2>5 DEF TradesInv
<1>5. CASE Next /\ ~BookTrade /\ ~Restart /\ ~DateChanges
  <2>0. Earlier' = Earlier
    BY <1>0, <1>5, TradesFrame
  <2>1. CountInv' /\ TradeCount' = TradeCount
    <3>1. CASE UNCHANGED <<dailyTradeCount, lastTradeDate>>
      BY <1>5, <2>0, <3>1, TradesFrame DEF TradesInv, CountInv, TradeCount, NewDay
    <3>2. CASE dailyTradeCount' = TradeCount /\ lastTradeDate' = TradeDate
      BY <1>5, <3>2, TradesFrame, ResetKeepsCount DEF TradesInv
    <3> QED BY <1>5, <3>1, <3>2, TradesFrame
  <2>2. RoomForTrade'
    BY <1>5, <2>1, TradesFrame DEF TradesInv, RoomForTrade, Allowed
  <2>3. WithinShare'
    BY <1>5, <2>0, TradesFrame DEF TradesInv, WithinShare
  <2> QED BY <2>1, <2>2, <2>3 DEF TradesInv
<1> QED BY <1>1, <1>2, <1>3, <1>4, <1>5

LEMMA TradesInit ==
    ASSUME Init
    PROVE  TradesInv
<1>1. Earlier \in [Days -> Nat]
  BY HandshakeInit, EarlierTyped DEF HandshakeOK, ControlOK
<1>2. /\ today = 0 /\ \A d \in Days : tradesOn[d] = 0
      /\ lastTradeDate = NoDate /\ dailyTradeCount = 0 /\ pc = "idle"
  BY DEF Init, FreshProcess, FreshEngine
<1>3. 0 \in Days
  BY LastDayAssumption
<1>4. CountInv /\ WithinShare
  BY <1>1, <1>2, <1>3, RiskAssumption DEF CountInv, WithinShare
<1> QED BY <1>2, <1>4 DEF TradesInv, RoomForTrade, EntryPC

\* A date sees the limit on trades once for the process it began with and once
\* more for every restart on it, over all processes, though the limit is checked
\* before the entry and the trade is counted after it, on whatever date it then
\* is (risk/engine.go:45-78, pipeline.go:178 and 290).  Without a restart that is
\* the daily limit of README.md:146; with one it is more than that.
THEOREM DailyLimit == Spec => []DailyTradeLimit
<1>1. HandshakeOK /\ TradesInv => DailyTradeLimit
  BY EarlierTyped DEF HandshakeOK, ControlOK, TradesInv, WithinShare, DailyTradeLimit
<1> QED BY HandshakeInit, HandshakeStep, TradesInit, <1>1, TradesStep, PTL DEF Spec

-----------------------------------------------------------------------------
(* Trades and their results.                                               *)

\* The trades whose result the engine still has to learn: at most one, the
\* position's, or the one main is about to store.
Owed ==
    IF pc \in {"setOpen", "storePosition"} THEN {sig}
    ELSE IF activePos # NoSignal /\ ~Closing(activePos) THEN {activePos}
    ELSE {}

\* Between CreateOrder and RecordTrade.
OrderedPC == {"submit", "placeMaker", "pollMaker", "cancelMaker", "placeIoc",
              "pollIoc", "cancelIoc", "recordTrade"}

BooksInv ==
    /\ settled \subseteq opened
    /\ \A s \in opened : seen[s] # NoId
    /\ pc \in OrderedPC => sig \notin opened /\ seen[sig] # NoId
    /\ activePos # NoSignal => activePos \in opened
    /\ Up => opened \ settled = Owed

LEMMA BooksMain ==
    ASSUME HandshakeOK, BooksInv, (\E s \in Signals : ReceiveSignal(s)) \/ MainStep
    PROVE  BooksInv'
<1> USE SignalAssumption DEF HandshakeOK, ControlOK, BooksInv, Owed, Up, OrderedPC
<1>1. CASE \E s \in Signals : ReceiveSignal(s)
  BY <1>1 DEF ReceiveSignal, MainOnly, orderVars, historyVars, positionVars, monitorVars
<1>2. CASE CreateEntryOrder
  <2>1. sig \in Signals /\ activePos = NoSignal
    BY <1>2 DEF CreateEntryOrder, SlotTaken, EntryPC
  <2>2. UNCHANGED <<opened, settled, activePos, mon>>
    BY <1>2 DEF CreateEntryOrder, MainOnly, historyVars, positionVars, monitorVars
  <2>3. CASE ReturnToLoop /\ UNCHANGED orderVars
    BY <1>2, <2>1, <2>2, <2>3 DEF CreateEntryOrder, ReturnToLoop, orderVars
  <2>4. CASE CreateOrder(sig) /\ Goto("submit")
    <3>1. GenerateClientOrderID(sig, today) # NoId
      BY <2>1, IdTypes DEF RiskStateOK, ClientIds, NoId
    <3>2. sig \notin opened
      BY <2>4 DEF CreateOrder, Duplicate
    <3>3. seen'[sig] # NoId /\ \A s \in Signals : s # sig => seen'[s] = seen[s]
      BY <2>1, <2>4, <3>1 DEF CreateOrder, OrdersTypeOK
    <3> QED BY <1>2, <2>1, <2>2, <2>4, <3>2, <3>3 DEF CreateEntryOrder, Goto, ControlTypeOK
  <2> QED BY <1>2, <2>3, <2>4 DEF CreateEntryOrder
<1>3. CASE BookTrade
  <2>1. pc = "recordTrade" /\ pc' = "setOpen" /\ opened' = opened \cup {sig}
        /\ UNCHANGED <<sig, seen, settled, activePos, mon>>
    BY <1>3 DEF BookTrade, Goto, orderVars, positionVars, monitorVars
  <2>2. activePos = NoSignal
    BY <2>1 DEF SlotTaken, EntryPC, FilledPC
  <2> QED BY <2>1, <2>2
<1>4. CASE StorePosition
  <2>1. pc = "storePosition" /\ pc' = "startMonitor" /\ activePos' = sig
        /\ UNCHANGED <<sig, seen, opened, settled, mon>>
    BY <1>4 DEF StorePosition, Goto, orderVars, historyVars, monitorVars
  <2>2. sig \in Signals /\ activePos = NoSignal
    BY <2>1 DEF SlotTaken, EntryPC, FilledPC
  <2>3. ~Closing(sig) /\ ~Closing(sig)'
    BY <2>1, <2>2 DEF MonitorKeepsPosition, Closing, Acting
  <2> QED BY <2>1, <2>2, <2>3 DEF Closing
<1>5. CASE StartMonitor
  <2>1. pc = "startMonitor" /\ pc' = "idle"
        /\ UNCHANGED <<seen, opened, settled, activePos>>
    BY <1>5 DEF StartMonitor, ReturnToLoop, orderVars, historyVars
  <2>2. sig \in Signals /\ activePos = sig /\ mon[sig] \notin Acting
    BY <2>1 DEF SlotTaken, FilledPC
  <2>3. mon'[sig] = "watching"
    BY <1>5, <2>2 DEF StartMonitor, ControlTypeOK
  <2> QED BY <2>1, <2>2, <2>3 DEF Closing, Acting
<1>6. CASE MainStep /\ ~CreateEntryOrder /\ ~BookTrade /\ ~StorePosition /\ ~StartMonitor
  <2>1. /\ UNCHANGED <<seen, opened, settled, activePos, mon>>
        /\ pc' \in OrderedPC \ {"submit"} => pc \in OrderedPC /\ sig' = sig
        /\ pc' # "submit"
    BY <1>6
       DEF MainStep, MainOnly, Goto, ReturnToLoop, orderVars, historyVars, positionVars,
           monitorVars, Evaluate, CheckMarket, Submit, UpdateState, PlaceMaker,
           PollMaker, MarkFilled, AbandonEntry, CancelMaker, PlaceIoc, PollIoc,
           CancelIoc, RaiseOpenFlag
  <2>2. \/ pc = "setOpen" /\ pc' = "storePosition" /\ sig' = sig
        \/ /\ pc \notin {"setOpen", "storePosition"}
           /\ pc' \notin {"setOpen", "storePosition", "down"} /\ pc # "down"
    BY <1>6
       DEF MainStep, Goto, ReturnToLoop, Evaluate, CheckMarket, Submit, PlaceMaker,
           PollMaker, AbandonEntry, CancelMaker, PlaceIoc, PollIoc, CancelIoc,
           RaiseOpenFlag
  <2> QED BY <2>1, <2>2 DEF Closing
<1> QED BY <1>1, <1>2, <1>3, <1>4, <1>5, <1>6

LEMMA BooksMonitor ==
    ASSUME HandshakeOK, BooksInv, NEW s \in Signals,
           MonitorStep(s) \/ MonitorStop(s) \/ KeepWatching(s)
    PROVE  BooksInv'
<1> USE SignalAssumption DEF HandshakeOK, ControlOK, BooksInv, Owed, Up, OrderedPC
<1>1. UNCHANGED <<pc, sig, seen, opened>>
  BY DEF MonitorOnly, mainVars, orderVars, MonitorStep, MonitorStop, KeepWatching,
     MonitorTick, DecideExit, BeginExit, PlaceExit, PollExit, CancelExit, PlaceReprice,
     PollReprice, CancelReprice, RecordResult, LowerOpenFlag, ClearPosition, ClearCancel
<1>2. CASE RecordResult(s)
  <2>1. /\ pc # "down" /\ mon[s] = "recordResult" /\ mon' = [mon EXCEPT ![s] = "setClosed"]
        /\ settled' = settled \cup {pos[s]} /\ activePos' = activePos
    BY <1>2 DEF RecordResult, MonitorAt, Up, positionVars
  <2>2. activePos = s /\ pos[s] = s
    BY <2>1 DEF MonitorKeepsPosition, Acting, ExitPC
  <2>3. Closing(s)' /\ ~Closing(s)
    BY <2>1 DEF Closing, ControlTypeOK
  <2>4. pc \notin OrderedPC \cup {"setOpen", "storePosition"}
    BY <2>2 DEF SlotTaken, EntryPC, FilledPC
  <2> QED BY <1>1, <2>1, <2>2, <2>3, <2>4
<1>3. CASE ClearPosition(s)
  <2>1. /\ mon[s] = "clearPosition" /\ activePos' = NoSignal /\ settled' = settled
        /\ pc # "down"
    BY <1>3 DEF ClearPosition, MonitorAt
  <2>2. activePos = s /\ Closing(s)
    BY <2>1 DEF MonitorKeepsPosition, Acting, ExitPC, Closing
  <2>3. pc \notin OrderedPC \cup {"setOpen", "storePosition"}
    BY <2>2 DEF SlotTaken, EntryPC, FilledPC
  <2> QED BY <1>1, <2>1, <2>2, <2>3
<1>4. ASSUME UNCHANGED <<activePos, settled>>, NEW here, NEW next,
             MonitorAt(s, here, next),
             here \in {"setClosed", "clearPosition"} <=> next \in {"setClosed", "clearPosition"}
      PROVE  BooksInv'
  <2>1. \A t \in Signals : Closing(t)' <=> Closing(t)
    BY <1>4 DEF Closing, MonitorAt, ControlTypeOK
  <2> QED BY <1>1, <1>4, <2>1 DEF ControlTypeOK
<1> QED
  BY <1>2, <1>3, <1>4
     DEF MonitorStep, MonitorStop, KeepWatching, positionVars, MonitorTick, DecideExit,
         BeginExit, PlaceExit, PollExit, CancelExit, PlaceReprice, PollReprice,
         CancelReprice, LowerOpenFlag, ClearCancel

LEMMA BooksStep ==
    ASSUME HandshakeOK, BooksInv, [Next]_vars
    PROVE  BooksInv'
<1>1. CASE UNCHANGED vars
  BY <1>1 DEF vars, mainVars, orderVars, historyVars, positionVars, monitorVars,
     BooksInv, Owed, Closing, Up
<1>2. CASE Restart
  BY <1>2 DEF Restart, BooksInv, Owed, OrderedPC
<1>3. CASE Shutdown \/ ProcessEnds \/ DateChanges \/ ExchangeStep
  BY <1>3 DEF Shutdown, ProcessEnds, DateChanges, ExchangeStep, Goto, mainVars,
     orderVars, historyVars, positionVars, monitorVars, BooksInv, Owed, OrderedPC,
     Closing, Up
<1> QED BY <1>1, <1>2, <1>3, BooksMain, BooksMonitor DEF Next

LEMMA BooksInit == Init => BooksInv
BY DEF Init, FreshProcess, BooksInv, Owed, OrderedPC

\* No result is skipped: a trade the risk engine has not been told the outcome
\* of is the active position, or the one main is about to store
\* (pipeline.go:290-313, exit.go:332-342).
THEOREM NoResultSkipped == Spec => []UnsettledIsActive
<1>1. BooksInv => UnsettledIsActive
  BY DEF BooksInv, Owed, UnsettledIsActive, FilledPC
<1> QED BY HandshakeInit, HandshakeStep, BooksInit, BooksStep, <1>1, PTL DEF Spec

\* A process that has traded carries a date.
DatedInv ==
    /\ activePos # NoSignal \/ pc \in {"setOpen", "storePosition"}
           => lastTradeDate # NoDate
    /\ HaltHasDate

\* The risk engine's part of a step: which of its books a step may write.
LEMMA EngineFrame ==
    ASSUME HandshakeOK, Next, ~BookTrade, ~Restart
    PROVE  \/ UNCHANGED <<dailyTradeCount, dailyStopLossCount, tradingEnabled, lastTradeDate>>
           \/ MaybeResetDaily
           \/ \E s \in Signals : RecordResult(s)
<1> USE DEF riskVars, dailyVars
<1>1. CASE DateChanges
  BY <1>1 DEF DateChanges
<1>2. CASE pc = "setOpen" /\ SetPositionOpen(TRUE) /\ UNCHANGED today
  BY <1>2 DEF SetPositionOpen
<1>3. CASE \E s \in Signals : LowerOpenFlag(s)
  BY <1>3 DEF LowerOpenFlag, SetPositionOpen
<1>4. CASE pc = "recordTrade" /\ ~BookTrade
  <2>1. CASE MainStep
    BY <1>4, <2>1
       DEF MainStep, Evaluate, CheckMarket, CreateEntryOrder, Submit, PlaceMaker,
           PollMaker, AbandonEntry, CancelMaker, PlaceIoc, PollIoc, CancelIoc,
           RaiseOpenFlag, StorePosition, StartMonitor
  <2>2. CASE ~MainStep
    BY <1>4, <2>2, <1>1, <1>3
       DEF Next, ReceiveSignal, Shutdown, ProcessEnds, ExchangeStep, MonitorStep,
           MonitorStop, KeepWatching, MonitorTick, DecideExit, BeginExit, PlaceExit,
           PollExit, CancelExit, PlaceReprice, PollReprice, CancelReprice,
           ClearPosition, ClearCancel
  <2> QED BY <2>1, <2>2
<1> QED BY <1>1, <1>2, <1>3, <1>4, RiskCalls DEF EvaluateSignal

\* ... and the books' part: a position is stored, and a trade opened or
\* settled, in four places.
LEMMA BooksFrame ==
    ASSUME Next, ~BookTrade, ~Restart, \A s \in Signals : ~RecordResult(s)
    PROVE  /\ UNCHANGED <<opened, settled>>
           /\ activePos' # NoSignal \/ pc' \in {"setOpen", "storePosition"} =>
                  activePos # NoSignal \/ pc \in {"setOpen", "storePosition"}
<1> USE DEF historyVars, positionVars, mainVars
<1>1. CASE \E s \in Signals : ReceiveSignal(s)
  BY <1>1 DEF ReceiveSignal, MainOnly
<1>2. CASE MainStep
  BY <1>2
     DEF MainStep, MainOnly, Goto, ReturnToLoop, Evaluate, CheckMarket,
         CreateEntryOrder, Submit, PlaceMaker, PollMaker, AbandonEntry, CancelMaker,
         PlaceIoc, PollIoc, CancelIoc, RaiseOpenFlag, StorePosition, StartMonitor
<1>3. CASE \E s \in Signals : MonitorStep(s) \/ MonitorStop(s) \/ KeepWatching(s)
  BY <1>3
     DEF MonitorOnly, MonitorStep, MonitorStop, KeepWatching, MonitorTick, DecideExit,
         BeginExit, PlaceExit, PollExit, CancelExit, PlaceReprice, PollReprice,
         CancelReprice, LowerOpenFlag, ClearPosition, ClearCancel
<1>4. CASE Shutdown \/ ProcessEnds \/ DateChanges \/ ExchangeStep
  BY <1>4 DEF Shutdown, ProcessEnds, DateChanges, ExchangeStep, Goto
<1> QED BY <1>1, <1>2, <1>3, <1>4 DEF Next

\* A result is recorded for the one position that is owed one.
LEMMA ResultIsOwed ==
    ASSUME HandshakeOK, BooksInv, NEW s \in Signals, RecordResult(s)
    PROVE  /\ activePos = s /\ activePos' = s /\ pc' = pc
           /\ opened \ settled = {s} /\ opened' = settled'
<1> USE SignalAssumption DEF HandshakeOK, ControlOK
<1>1. /\ pc # "down" /\ mon[s] = "recordResult" /\ UNCHANGED <<pc, activePos, opened>>
      /\ settled' = settled \cup {pos[s]}
  BY DEF RecordResult, MonitorAt, Up, positionVars, MonitorOnly, mainVars
<1>2. activePos = s /\ pos[s] = s
  BY <1>1 DEF MonitorKeepsPosition, Acting, ExitPC
<1>3. opened \ settled = {s} /\ settled \subseteq opened
  BY <1>1, <1>2 DEF BooksInv, Owed, Up, Closing, SlotTaken, EntryPC, FilledPC
<1> QED BY <1>1, <1>2, <1>3

LEMMA DatedStep ==
    ASSUME HandshakeOK, BooksInv, DatedInv, [Next]_vars
    PROVE  DatedInv'
<1> USE DEF DatedInv, HaltHasDate
<1>0. today \in Days /\ tradingEnabled \in BOOLEAN
  BY DEF HandshakeOK, RiskStateOK, RiskTypeOK
<1>1. CASE UNCHANGED vars
  BY <1>1 DEF vars, riskVars, dailyVars, mainVars, positionVars
<1>2. CASE BookTrade
  <2>1. lastTradeDate' \in Days
    BY <1>0, <1>2, BookTradeDate
  <2> QED BY <2>1
<1>3. CASE Restart
  BY <1>3 DEF Restart, NewEngine
<1>4. ASSUME NEW s \in Signals, RecordResult(s)
      PROVE  DatedInv'
  <2>1. lastTradeDate # NoDate
    BY <1>4, ResultIsOwed, SignalAssumption
  <2>2. lastTradeDate' # NoDate
    BY <1>0, <1>4, <2>1 DEF RecordResult, RecordStopLoss, RecordWin, TradeDate
  <2> QED BY <2>2
<1>5. CASE Next /\ ~BookTrade /\ ~Restart /\ \A s \in Signals : ~RecordResult(s)
  <2>1. CASE UNCHANGED <<dailyTradeCount, dailyStopLossCount, tradingEnabled, lastTradeDate>>
    BY <1>5, <2>1, BooksFrame
  <2>2. CASE MaybeResetDaily
    <3>1. lastTradeDate # NoDate => lastTradeDate' # NoDate
      BY <1>0, <2>2 DEF MaybeResetDaily, TradeDate
    <3>2. lastTradeDate = NoDate => tradingEnabled' = tradingEnabled
      BY <1>0, <2>2 DEF MaybeResetDaily, Enabled, NewDay
    <3> QED BY <1>5, <3>1, <3>2, BooksFrame
  <2> QED BY <1>5, <2>1, <2>2, EngineFrame
<1> QED BY <1>1, <1>2, <1>3, <1>4, <1>5

\* A halt is never without the date that ends it, because only a settled trade
\* can halt the engine and no trade goes unrecorded (risk/engine.go:136-141).
THEOREM HaltIsDated == Spec => []HaltHasDate
<1>1. Init => DatedInv
  BY DEF Init, FreshProcess, FreshEngine, DatedInv, HaltHasDate
<1>2. DatedInv => HaltHasDate
  BY DEF DatedInv
<1> QED BY HandshakeInit, HandshakeStep, BooksInit, BooksStep, DatedStep, <1>1, <1>2,
           PTL DEF Spec

LEMMA LossesStep ==
    ASSUME HandshakeOK, BooksInv, LossesMatchTrades, [Next]_vars
    PROVE  LossesMatchTrades'
<1> USE DEF LossesMatchTrades, Unsettled
<1>0. dailyTradeCount \in Nat /\ dailyStopLossCount \in Nat
  BY DEF HandshakeOK, RiskStateOK, RiskTypeOK
<1>1. CASE UNCHANGED vars
  BY <1>1 DEF vars, riskVars, dailyVars, historyVars
<1>2. CASE BookTrade
  <2>1. dailyTradeCount' = TradeCount + 1 /\ dailyStopLossCount' = StopLossCount
    BY <1>2 DEF BookTrade, RecordTradeByClock, RecordTrade
  <2>2. StopLossCount <= TradeCount + 1
    BY <1>0 DEF StopLossCount, TradeCount
  <2>3. StopLossCount \in Nat /\ TradeCount \in Nat
    BY <1>0 DEF StopLossCount, TradeCount
  <2> QED BY <2>1, <2>2, <2>3
<1>3. CASE Restart
  BY <1>3 DEF Restart, NewEngine
<1>4. ASSUME NEW s \in Signals, RecordResult(s)
      PROVE  LossesMatchTrades'
  <2>1. opened # settled /\ opened' = settled'
    BY <1>4, ResultIsOwed
  <2>2. dailyStopLossCount + 1 <= dailyTradeCount + 1
    BY <2>1
  <2>3. StopLossCount + 1 <= TradeCount + 1
    BY <1>0, <2>2 DEF StopLossCount, TradeCount
  <2>4. CASE RecordStopLoss
    BY <2>1, <2>3, <2>4 DEF RecordStopLoss
  <2>5. CASE RecordWin
    BY <1>0, <2>1, <2>2, <2>5 DEF RecordWin
  <2> QED BY <1>4, <2>4, <2>5 DEF RecordResult
<1>5. CASE Next /\ ~BookTrade /\ ~Restart /\ \A s \in Signals : ~RecordResult(s)
  <2>1. UNCHANGED <<opened, settled>>
    BY <1>5, BooksFrame
  <2>2. CASE UNCHANGED <<dailyTradeCount, dailyStopLossCount, tradingEnabled, lastTradeDate>>
    BY <2>1, <2>2
  <2>3. CASE MaybeResetDaily
    BY <1>0, <2>1, <2>3 DEF MaybeResetDaily, StopLossCount, TradeCount
  <2> QED BY <1>5, <2>2, <2>3, EngineFrame
<1> QED BY <1>1, <1>2, <1>3, <1>4, <1>5

\* The day's stop losses and its trades stay within the one loss a position
\* carried over midnight accounts for (risk/engine.go:71-107, exit.go:332).
THEOREM LossesBounded == Spec => []LossesMatchTrades
<1>1. Init => LossesMatchTrades
  BY DEF Init, FreshProcess, FreshEngine, LossesMatchTrades, Unsettled
<1> QED BY HandshakeInit, HandshakeStep, BooksInit, BooksStep, LossesStep, <1>1,
           PTL DEF Spec

-----------------------------------------------------------------------------
(* The pipeline implements the one-slot lifecycle, while the process lives: *)
(* a restart forgets the slot, which TradeLifecycle does not provide for.   *)

OneProcess == MaxRestarts = 0

\* Main has no signal in hand outside ProcessSignal.
IdleInv == pc \in {"idle", "stopping", "down"} => sig = NoSignal

SlotInv == HandshakeOK /\ BooksInv /\ IdleInv

LEMMA IdleStep ==
    ASSUME OneProcess, HandshakeOK, IdleInv, [Next]_vars
    PROVE  IdleInv' /\ ~Restart
<1> USE DEF IdleInv
<1>1. ~Restart
  BY DEF OneProcess, Restart, HandshakeOK, ControlOK, ControlTypeOK
<1>2. CASE UNCHANGED vars
  BY <1>1, <1>2 DEF vars, mainVars
<1>3. CASE \E s \in Signals : ReceiveSignal(s)
  BY <1>1, <1>3 DEF ReceiveSignal
<1>4. CASE MainStep
  BY <1>1, <1>4
     DEF MainStep, Goto, ReturnToLoop, Evaluate, CheckMarket, CreateEntryOrder, Submit,
         PlaceMaker, PollMaker, AbandonEntry, CancelMaker, PlaceIoc, PollIoc, CancelIoc,
         BookTrade, RaiseOpenFlag, StorePosition, StartMonitor
<1>5. CASE \E s \in Signals : MonitorStep(s) \/ MonitorStop(s) \/ KeepWatching(s)
  BY <1>1, <1>5
     DEF MonitorOnly, mainVars, MonitorStep, MonitorStop, KeepWatching, MonitorTick,
         DecideExit, BeginExit, PlaceExit, PollExit, CancelExit, PlaceReprice,
         PollReprice, CancelReprice, RecordResult, LowerOpenFlag, ClearPosition,
         ClearCancel
<1>6. CASE ProcessEnds
  <2>1. pc = "stopping" /\ pc' = "down" /\ sig' = sig
    BY <1>6 DEF ProcessEnds, Goto, OneProcess, HandshakeOK, ControlOK, ControlTypeOK
  <2> QED BY <1>1, <2>1
<1>7. CASE Shutdown \/ DateChanges \/ ExchangeStep
  BY <1>1, <1>7 DEF Shutdown, DateChanges, ExchangeStep, mainVars
<1> QED BY <1>1, <1>2, <1>3, <1>4, <1>5, <1>6, <1>7 DEF Next

LEMMA SlotMain ==
    ASSUME SlotInv, (\E s \in Signals : ReceiveSignal(s)) \/ MainStep
    PROVE  [Slot!Next]_(Slot!slotVars)
<1> USE SignalAssumption
    DEF SlotInv, HandshakeOK, ControlOK, SlotTaken, EntryPC, FilledPC, SlotStage,
        SlotHolder, Slot!slotVars
<1>1. CASE \E s \in Signals : ReceiveSignal(s)
  <2>1. PICK s \in Signals : ReceiveSignal(s)
    BY <1>1
  <2>2. Slot!Admit(s)
    BY <2>1 DEF Slot!Admit, ReceiveSignal, MainOnly, positionVars, historyVars
  <2> QED BY <2>2 DEF Slot!Next
<1>2. CASE BookTrade
  <2>1. /\ pc = "recordTrade" /\ pc' = "setOpen" /\ opened' = opened \cup {sig}
        /\ UNCHANGED <<sig, activePos, settled>>
    BY <1>2 DEF BookTrade, Goto, positionVars
  <2>2. activePos = NoSignal /\ sig \notin opened
    BY <2>1 DEF BooksInv, OrderedPC
  <2>3. Slot!Trade
    BY <2>1, <2>2 DEF Slot!Trade
  <2> QED BY <2>3 DEF Slot!Next
<1>3. CASE StorePosition
  <2>1. /\ pc = "storePosition" /\ pc' = "startMonitor" /\ activePos' = sig
        /\ UNCHANGED <<sig, opened, settled, mon>>
    BY <1>3 DEF StorePosition, Goto, historyVars, monitorVars
  <2>2. sig \in Signals /\ activePos = NoSignal
    BY <2>1
  <2>3. ~Closing(sig)'
    BY <2>1, <2>2 DEF MonitorKeepsPosition, Closing, Acting
  <2> QED BY <2>1, <2>2, <2>3 DEF Closing
<1>4. CASE StartMonitor
  <2>1. pc = "startMonitor" /\ UNCHANGED <<opened, settled, activePos>>
    BY <1>4 DEF StartMonitor, historyVars
  <2>2. sig \in Signals /\ activePos = sig /\ mon[sig] \notin Acting
    BY <2>1
  <2>3. mon'[sig] = "watching"
    BY <1>4, <2>2 DEF StartMonitor, ControlTypeOK
  <2>4. ~Closing(activePos) /\ ~Closing(activePos)'
    BY <2>1, <2>2, <2>3 DEF Closing, Acting
  <2> QED BY <2>1, <2>2, <2>4
<1>5. CASE MainStep /\ ~BookTrade /\ ~StorePosition /\ ~StartMonitor
  <2>1. UNCHANGED <<opened, settled, activePos, mon>>
    BY <1>5
       DEF MainStep, MainOnly, historyVars, positionVars, monitorVars, Evaluate,
           CheckMarket, CreateEntryOrder, Submit, PlaceMaker, PollMaker, AbandonEntry,
           CancelMaker, PlaceIoc, PollIoc, CancelIoc, RaiseOpenFlag
  <2>2. \/ pc = "setOpen" /\ pc' = "storePosition" /\ sig' = sig
        \/ pc \in EntryPC /\ pc' \in EntryPC \cup {"recordTrade"} /\ sig' = sig
        \/ pc \in EntryPC /\ pc' = "idle" /\ sig' = NoSignal
    BY <1>5
       DEF MainStep, Goto, ReturnToLoop, Evaluate, CheckMarket, CreateEntryOrder,
           Submit, PlaceMaker, PollMaker, AbandonEntry, CancelMaker, PlaceIoc, PollIoc,
           CancelIoc, RaiseOpenFlag
  <2>3. activePos = NoSignal
    BY <2>2
  <2>4. CASE pc \in EntryPC /\ pc' = "idle" /\ sig' = NoSignal
    <3>1. Slot!Abandon
      BY <2>1, <2>3, <2>4 DEF Slot!Abandon
    <3> QED BY <3>1 DEF Slot!Next
  <2> QED BY <2>1, <2>2, <2>3, <2>4
<1> QED BY <1>1, <1>2, <1>3, <1>4, <1>5

LEMMA SlotMonitor ==
    ASSUME SlotInv, NEW s \in Signals, MonitorStep(s) \/ MonitorStop(s) \/ KeepWatching(s)
    PROVE  [Slot!Next]_(Slot!slotVars)
<1> USE SignalAssumption
    DEF SlotInv, HandshakeOK, ControlOK, SlotStage, SlotHolder, Slot!slotVars
<1>1. UNCHANGED <<pc, sig, opened>>
  BY DEF MonitorOnly, mainVars, MonitorStep, MonitorStop, KeepWatching, MonitorTick,
     DecideExit, BeginExit, PlaceExit, PollExit, CancelExit, PlaceReprice, PollReprice,
     CancelReprice, RecordResult, LowerOpenFlag, ClearPosition, ClearCancel
<1>2. CASE RecordResult(s)
  <2>1. /\ mon[s] = "recordResult" /\ mon' = [mon EXCEPT ![s] = "setClosed"]
        /\ settled' = settled \cup {pos[s]}
    BY <1>2 DEF RecordResult, MonitorAt
  <2>2. activePos = s /\ activePos' = s /\ pos[s] = s
    BY <1>2, <2>1, ResultIsOwed DEF MonitorKeepsPosition, ExitPC
  <2>3. ~Closing(s) /\ Closing(s)'
    BY <2>1 DEF Closing, ControlTypeOK
  <2>4. Slot!Settle
    BY <1>1, <2>1, <2>2, <2>3 DEF Slot!Settle, Closing
  <2> QED BY <2>4 DEF Slot!Next
<1>3. CASE ClearPosition(s)
  <2>1. mon[s] = "clearPosition" /\ activePos' = NoSignal /\ settled' = settled /\ pc # "down"
    BY <1>3 DEF ClearPosition, MonitorAt, Up
  <2>2. activePos = s /\ Closing(s)
    BY <2>1 DEF MonitorKeepsPosition, Acting, ExitPC, Closing
  <2>3. pc \notin EntryPC \cup FilledPC
    BY <2>1, <2>2 DEF SlotTaken, FilledPC, Acting
  <2>4. sig = NoSignal
    BY <2>3 DEF IdleInv, ControlTypeOK, MainPC
  <2>5. Slot!Release
    BY <1>1, <2>1, <2>2, <2>3, <2>4 DEF Slot!Release, FilledPC
  <2> QED BY <2>5 DEF Slot!Next
<1>4. ASSUME UNCHANGED <<activePos, settled>>, NEW here, NEW next,
             MonitorAt(s, here, next),
             here \in {"setClosed", "clearPosition"} <=> next \in {"setClosed", "clearPosition"}
      PROVE  UNCHANGED Slot!slotVars
  <2>1. \A t \in Signals : Closing(t)' <=> Closing(t)
    BY <1>4 DEF Closing, MonitorAt, ControlTypeOK
  <2> QED BY <1>1, <1>4, <2>1 DEF ControlTypeOK
<1> QED
  BY <1>2, <1>3, <1>4
     DEF MonitorStep, MonitorStop, KeepWatching, positionVars, MonitorTick, DecideExit,
         BeginExit, PlaceExit, PollExit, CancelExit, PlaceReprice, PollReprice,
         CancelReprice, LowerOpenFlag, ClearCancel

LEMMA SlotStep ==
    ASSUME OneProcess, SlotInv, [Next]_vars
    PROVE  SlotInv' /\ [Slot!Next]_(Slot!slotVars)
<1>1. SlotInv' /\ ~Restart
  BY HandshakeStep, BooksStep, IdleStep DEF SlotInv
<1>2. CASE UNCHANGED vars
  BY <1>1, <1>2 DEF vars, mainVars, positionVars, monitorVars, historyVars, SlotStage,
     SlotHolder, Closing, Slot!slotVars
<1>3. CASE Shutdown \/ ProcessEnds \/ DateChanges \/ ExchangeStep
  <2>1. UNCHANGED <<sig, activePos, mon, opened, settled>>
    BY <1>3 DEF Shutdown, ProcessEnds, DateChanges, ExchangeStep, Goto, mainVars,
       positionVars, monitorVars, historyVars
  <2>2. pc' = pc \/ (pc \in {"idle", "stopping"} /\ pc' \in {"stopping", "down"})
    BY <1>3
       DEF Shutdown, ProcessEnds, DateChanges, ExchangeStep, Goto, mainVars, OneProcess,
           SlotInv, HandshakeOK, ControlOK, ControlTypeOK
  <2> QED BY <1>1, <2>1, <2>2 DEF SlotStage, SlotHolder, Closing, EntryPC, Slot!slotVars
<1> QED BY <1>1, <1>2, <1>3, SlotMain, SlotMonitor DEF Next

LEMMA SlotInit ==
    ASSUME Init
    PROVE  SlotInv /\ Slot!Init
<1>1. IdleInv /\ Slot!Init
  BY SignalAssumption
     DEF Init, FreshProcess, IdleInv, Slot!Init, SlotStage, SlotHolder, EntryPC
<1> QED BY <1>1, HandshakeInit, BooksInit DEF SlotInv

\* While it lives, the process works one trading slot: a signal is admitted to
\* a free slot only, is traded at most once, and its result is recorded before
\* the slot is free again (pipeline.go:24, main.go:234, exit.go:332-343).
THEOREM PipelineImplementsSlot ==
    ASSUME OneProcess
    PROVE  Spec => SlotSpec
<1>1. Init => SlotInv /\ Slot!Init
  BY SlotInit
<1>2. SlotInv /\ [Next]_vars => SlotInv' /\ [Slot!Next]_(Slot!slotVars)
  BY SlotStep
<1> QED BY <1>1, <1>2, PTL DEF Spec, SlotSpec, Slot!Spec
-----------------------------------------------------------------------------
\* A process that is never started again keeps to the limit as README.md:146
\* and docs/architecture.md:67 state it: on no date are there more trades.
THEOREM LimitWithoutRestart ==
    ASSUME OneProcess
    PROVE  Spec => [](\A d \in Days : tradesOn[d] <= MaxDailyTrades)
<1> DEFINE NoneRestarted == \A d \in Days : restartsOn[d] = 0
<1>1. Init => NoneRestarted
  BY DEF Init
<1>2. HandshakeOK /\ NoneRestarted /\ [Next]_vars => NoneRestarted'
  <2> SUFFICES ASSUME HandshakeOK, NoneRestarted, [Next]_vars PROVE UNCHANGED restartsOn
    OBVIOUS
  <2>1. ~Restart
    BY DEF OneProcess, Restart, HandshakeOK, ControlOK, ControlTypeOK
  <2>2. BookTrade \/ DateChanges \/ UNCHANGED vars => UNCHANGED restartsOn
    BY DEF BookTrade, DateChanges, vars, processVars
  <2> QED BY <2>1, <2>2, TradesFrame
<1>3. NoneRestarted /\ DailyTradeLimit => \A d \in Days : tradesOn[d] <= MaxDailyTrades
  <2>1. MaxDailyTrades * (1 + 0) = MaxDailyTrades
    BY RiskAssumption
  <2> HIDE DEF Days
  <2> QED BY <2>1 DEF DailyTradeLimit
<1> QED BY HandshakeInit, HandshakeStep, DailyLimit, <1>1, <1>2, <1>3, PTL DEF Spec

-----------------------------------------------------------------------------
(* The pipeline as a caller of the risk engine.                            *)

\* The engine's counter never passes the limit on trades.
CountsBounded == dailyTradeCount <= MaxDailyTrades

LEMMA CountsStep ==
    ASSUME HandshakeOK, TradesInv, CountsBounded, [Next]_vars
    PROVE  CountsBounded'
<1> USE RiskAssumption DEF CountsBounded
<1>0. dailyTradeCount \in Nat /\ TradeCount <= dailyTradeCount
  BY DEF HandshakeOK, RiskStateOK, RiskTypeOK, TradeCount
<1>1. CASE UNCHANGED vars
  BY <1>1 DEF vars, riskVars, dailyVars
<1>2. CASE BookTrade
  <2>1. dailyTradeCount' = TradeCount + 1
    BY <1>2 DEF BookTrade, RecordTradeByClock, RecordTrade
  <2>2. TradeCount < MaxDailyTrades
    BY <1>2 DEF BookTrade, TradesInv, RoomForTrade
  <2> QED BY <1>0, <2>1, <2>2 DEF TradeCount
<1>3. CASE Restart
  BY <1>3 DEF Restart, NewEngine
<1>4. CASE DateChanges
  BY <1>4 DEF DateChanges, riskVars, dailyVars
<1>5. CASE Next /\ ~BookTrade /\ ~Restart /\ ~DateChanges
  <2>1. dailyTradeCount' = dailyTradeCount \/ dailyTradeCount' = TradeCount
    BY <1>5, TradesFrame
  <2> QED BY <1>0, <2>1 DEF TradeCount
<1> QED BY <1>1, <1>2, <1>3, <1>4, <1>5

EngineUseInv == HandshakeOK /\ BooksInv /\ TradesInv /\ LossesMatchTrades /\ CountsBounded

LEMMA EngineUseStep ==
    ASSUME EngineUseInv, [Next]_vars
    PROVE  EngineUseInv'
BY HandshakeStep, BooksStep, TradesStep, LossesStep, CountsStep DEF EngineUseInv

LEMMA EngineUse == Spec => []EngineUseInv
<1>1. Init => EngineUseInv
  <2>1. Init => TradesInv
    BY TradesInit
  <2>2. Init => LossesMatchTrades /\ CountsBounded
    BY RiskAssumption
       DEF Init, FreshProcess, FreshEngine, LossesMatchTrades, Unsettled, CountsBounded
  <2> QED BY <2>1, <2>2, HandshakeInit, BooksInit DEF EngineUseInv
<1> QED BY <1>1, EngineUseStep, PTL DEF Spec

\* Whatever day the counters belong to, the trades stay within the daily limit
\* and the stop losses within one more, for the one carried over midnight
\* (risk/engine.go:76-98).
THEOREM CountersWithinLimits ==
    Spec => [](/\ dailyTradeCount <= MaxDailyTrades
               /\ dailyStopLossCount <= MaxDailyTrades + 1)
<1>1. EngineUseInv => /\ dailyTradeCount <= MaxDailyTrades
                      /\ dailyStopLossCount <= MaxDailyTrades + 1
  BY RiskAssumption
     DEF EngineUseInv, HandshakeOK, RiskStateOK, RiskTypeOK, CountsBounded, LossesMatchTrades
<1> QED BY <1>1, EngineUse, PTL

\* A result is recorded with room for it under the limit on trades.
LEMMA ResultHasRoom ==
    ASSUME EngineUseInv, NEW s \in Signals, RecordResult(s)
    PROVE  StopLossCount <= MaxDailyTrades
<1>1. opened # settled
  BY ResultIsOwed DEF EngineUseInv
<1>2. dailyStopLossCount + 1 <= dailyTradeCount + 1
  BY <1>1 DEF EngineUseInv, LossesMatchTrades, Unsettled
<1>3. dailyStopLossCount \in Nat /\ dailyTradeCount \in Nat /\ dailyTradeCount <= MaxDailyTrades
  BY DEF EngineUseInv, HandshakeOK, RiskStateOK, RiskTypeOK, CountsBounded
<1> QED BY <1>2, <1>3, RiskAssumption DEF StopLossCount

LEMMA CallsTheEngine ==
    ASSUME MaxCount > MaxDailyTrades, EngineUseInv, [Next]_vars, ~Restart
    PROVE  [ApiNext]_apiVars
<1> USE DEF ApiNext, apiVars
<1>1. CASE UNCHANGED vars
  BY <1>1 DEF vars
<1>2. CASE UNCHANGED <<today, riskVars>>
  BY <1>2
<1>3. CASE DateChanges
  BY <1>3 DEF DateChanges, NextDay
<1>4. CASE EvaluateSignal /\ UNCHANGED today
  BY <1>4 DEF CallEvaluateSignal
<1>5. CASE pc = "recordTrade" /\ RecordTradeByClock
  <2>1. TradeCount < MaxDailyTrades /\ TradeCount \in Nat
    BY <1>5 DEF EngineUseInv, TradesInv, RoomForTrade, HandshakeOK, RiskStateOK, RiskTypeOK,
                TradeCount
  <2>2. TradeCount < MaxCount
    BY <2>1, RiskAssumption, MaxCountAssumption
  <2> QED BY <1>5, <2>2 DEF CallRecordTrade
<1>6. CASE SetPositionOpen(TRUE) /\ UNCHANGED today
  BY <1>6 DEF CallSetPositionOpen
<1>7. ASSUME NEW s \in Signals, RecordResult(s)
      PROVE  ApiNext
  <2>1. StopLossCount \in Nat
    BY DEF EngineUseInv, HandshakeOK, RiskStateOK, RiskTypeOK, StopLossCount
  <2>2. StopLossCount < MaxCount
    BY <1>7, <2>1, ResultHasRoom, RiskAssumption, MaxCountAssumption
  <2>3. (RecordStopLoss \/ RecordWin) /\ UNCHANGED today
    BY <1>7 DEF RecordResult, MonitorOnly
  <2> QED BY <2>2, <2>3 DEF CallRecordStopLoss, CallRecordWin
<1>8. ASSUME NEW s \in Signals, LowerOpenFlag(s)
      PROVE  CallSetPositionOpen
  BY <1>8 DEF LowerOpenFlag, MonitorOnly, CallSetPositionOpen
<1> QED BY <1>1, <1>2, <1>3, <1>4, <1>5, <1>6, <1>7, <1>8, RiskCalls

\* The pipeline implements the engine's interface: whatever RiskEngineApi
\* promises for calls in any order, it promises for the order in which
\* pipeline.go:178, 290, 291 and exit.go:332-338 make them, and no counter is
\* driven further than the limit on trades.  A process started again has an
\* engine of its own.
THEOREM PipelineImplementsEngine ==
    ASSUME OneProcess, MaxCount > MaxDailyTrades
    PROVE  Spec => ApiSpec
<1>1. Init => ApiInit
  BY DEF Init, FreshProcess, ApiInit
<1>2. HandshakeOK /\ [Next]_vars => ~Restart
  BY DEF OneProcess, Restart, HandshakeOK, ControlOK, ControlTypeOK
<1>3. EngineUseInv /\ [Next]_vars => [ApiNext]_apiVars
  BY <1>2, CallsTheEngine DEF EngineUseInv
<1> QED BY <1>1, <1>3, EngineUse, PTL DEF Spec, ApiSpec

\* In the pipeline a halt ends with the date it carries, or with the process
\* that has it in memory, and with nothing else: not with a win, and not with
\* the close of the position that caused it.
HaltEndsWithItsDay ==
    [][~tradingEnabled /\ tradingEnabled' =>
          \/ Restart
          \/ /\ lastTradeDate \notin {NoDate, today}
             /\ lastTradeDate' = today'
             /\ dailyTradeCount' <= 1 /\ dailyStopLossCount' <= 1]_vars

\* A halt survives everything but midnight and a restart
\* (risk/engine.go:101-142).
THEOREM PipelineHaltLasts == Spec => HaltEndsWithItsDay
<1> DEFINE Lifting ==
      /\ lastTradeDate \notin {NoDate, today}
      /\ lastTradeDate' = today'
      /\ dailyTradeCount' <= 1 /\ dailyStopLossCount' <= 1
<1>1. ASSUME HandshakeOK, Next, ~Restart, ~tradingEnabled, tradingEnabled'
      PROVE  Lifting
  <2>1. Enabled => NewDay
    BY <1>1, Zenon DEF Enabled
  <2>2. NewDay => /\ TradeCount = 0 /\ StopLossCount = 0 /\ TradeDate = today
                  /\ lastTradeDate \notin {NoDate, today}
    BY DEF NewDay, TradeCount, StopLossCount, TradeDate
  <2>3. CASE EvaluateSignal /\ UNCHANGED today
    <3>1. Enabled
      BY <1>1, <2>3, Zenon DEF EvaluateSignal, MaybeResetDaily
    <3> QED BY <2>1, <2>2, <2>3, <3>1 DEF EvaluateSignal, MaybeResetDaily
  <2>4. CASE RecordTradeByClock
    <3>1. PICK date : RecordTrade(date) /\ today' = date
      BY <2>4 DEF RecordTradeByClock, Midnight
    <3>2. Enabled
      BY <1>1, <3>1, Zenon DEF RecordTrade
    <3> QED BY <2>1, <2>2, <3>1, <3>2 DEF RecordTrade
  <2>5. ASSUME NEW s \in Signals, RecordResult(s)
        PROVE  Lifting
    <3>1. RecordStopLoss /\ UNCHANGED today
      BY <1>1, <2>5 DEF RecordResult, RecordWin, MonitorOnly
    <3>2. Enabled
      BY <1>1, <3>1, Zenon DEF RecordStopLoss
    <3> QED BY <2>1, <2>2, <3>1, <3>2 DEF RecordStopLoss
  <2>6. UNCHANGED tradingEnabled => FALSE
    BY <1>1
  <2>7. ~SetPositionOpen(TRUE) /\ ~UNCHANGED riskVars /\ ~DateChanges
        /\ \A s \in Signals : ~LowerOpenFlag(s)
    BY <2>6 DEF SetPositionOpen, LowerOpenFlag, DateChanges, riskVars, dailyVars
  <2> QED BY <1>1, <2>3, <2>4, <2>5, <2>7, RiskCalls
<1>2. HandshakeOK /\ [Next]_vars
          => [~tradingEnabled /\ tradingEnabled' => Restart \/ Lifting]_vars
  BY <1>1
<1>3. Spec => []HandshakeOK
  BY HandshakeInit, HandshakeStep, PTL DEF Spec
<1> QED BY <1>2, <1>3, PTL DEF Spec, HaltEndsWithItsDay

-----------------------------------------------------------------------------
(* Client order ids that two signals share.                                *)

\* Where the probe of the signal has reached the exchange.
ProbedPC == {"pollMaker", "cancelMaker", "placeIoc", "pollIoc", "cancelIoc", "recordTrade"}

\* An exchange that refuses an id in use knows the probe of every trade, and
\* the entry in work has a probe that no trade has.
ProbesApart ==
    /\ \A s \in opened : Known(MakerId(s))
    /\ pc \in ProbedPC => Known(MakerId(sig)) /\ \A s \in opened : seen[s] # seen[sig]
    /\ \A s, t \in opened : seen[s] = seen[t] => s = t

LEMMA EntryIds ==
    ASSUME OrdersTypeOK, NEW s \in Signals, seen[s] # NoId
    PROVE  MakerId(s) \in OrderIds /\ IocId(s) \in OrderIds
<1>1. seen[s] \in ClientIds
  BY DEF OrdersTypeOK
<1> QED BY <1>1 DEF MakerId, IocId, OrderIds

LEMMA KnownStays ==
    ASSUME ~Instant, ExchangeTypeOK, Next, NEW o \in OrderIds, Known(o)
    PROVE  exOrders'[o].status # "NONE"
<1> USE DEF ExchangeTypeOK, Known
<1>1. CASE \E p, side, reduceOnly : Place(p, side, reduceOnly)
  BY <1>1 DEF Place
<1>2. ASSUME NEW p, NEW dead, CancelOrder(p, dead)
      PROVE  exOrders'[o].status # "NONE"
  BY <1>2 DEF CancelOrder, exchangeVars, ExOrder
<1>3. ASSUME NEW p \in OrderIds, Fill(p) \/ Expire(p)
      PROVE  exOrders'[o].status # "NONE"
  BY <1>3 DEF Fill, Expire, ExOrder
<1>4. CASE UNCHANGED exchangeVars \/ Restart
  BY <1>4 DEF Restart, ExchangeRestart, exchangeVars
<1> QED BY <1>1, <1>2, <1>3, <1>4, ExchangeCalls DEF ExchangeStep

\* Where the ids, the trades and the entry in work change.
LEMMA ProbesFrame ==
    ASSUME Next, ~CreateEntryOrder, ~PlaceMaker, ~BookTrade, ~Restart
    PROVE  /\ UNCHANGED <<seen, opened>>
           /\ pc' \in ProbedPC => pc \in ProbedPC /\ sig' = sig
<1> USE DEF ProbedPC, orderVars, historyVars, mainVars
<1>1. CASE (\E s \in Signals : ReceiveSignal(s)) \/ MainStep
  BY <1>1
     DEF ReceiveSignal, MainStep, Goto, ReturnToLoop, Evaluate, CheckMarket, Submit,
         UpdateState, PollMaker, MarkFilled, AbandonEntry, CancelMaker, PlaceIoc, PollIoc,
         CancelIoc, RaiseOpenFlag, StorePosition, StartMonitor
<1>2. CASE \E s \in Signals : MonitorStep(s) \/ MonitorStop(s) \/ KeepWatching(s)
  BY <1>2
     DEF MonitorOnly, MonitorStep, MonitorStop, KeepWatching, MonitorTick, DecideExit,
         BeginExit, PlaceExit, PollExit, CancelExit, PlaceReprice, PollReprice,
         CancelReprice, RecordResult, LowerOpenFlag, ClearPosition, ClearCancel
<1>3. CASE Shutdown \/ ProcessEnds \/ DateChanges \/ ExchangeStep
  BY <1>3 DEF Shutdown, ProcessEnds, DateChanges, ExchangeStep, Goto
<1> QED BY <1>1, <1>2, <1>3 DEF Next

LEMMA ProbesStep ==
    ASSUME ~Instant, HandshakeOK, BooksInv, ProbesApart, [Next]_vars
    PROVE  ProbesApart'
<1> USE DEF HandshakeOK, ControlOK, ProbesApart
<1>0. \A s \in opened : s \in Signals /\ seen[s] # NoId /\ MakerId(s) \in OrderIds
  BY EntryIds DEF BooksInv, ControlTypeOK
<1>1. CASE UNCHANGED vars
  BY <1>1
     DEF vars, mainVars, orderVars, exchangeVars, historyVars, Known, MakerId
<1>2. CASE Restart
  BY <1>2 DEF Restart, ProbedPC
<1>3. ASSUME Next, opened' = opened, \A s \in opened : seen'[s] = seen[s]
      PROVE  /\ \A s \in opened' : Known(MakerId(s))'
             /\ \A s, t \in opened' : seen'[s] = seen'[t] => s = t
  BY <1>0, <1>3, KnownStays DEF Known, MakerId
<1>4. CASE CreateEntryOrder
  <2>1. pc' \notin ProbedPC /\ opened' = opened
    BY <1>4 DEF CreateEntryOrder, Goto, ReturnToLoop, ProbedPC, historyVars
  <2>2. \A s \in opened : seen'[s] = seen[s]
    BY <1>0, <1>4
       DEF CreateEntryOrder, CreateOrder, Duplicate, OrdersTypeOK, orderVars
  <2>3. Next
    BY <1>4 DEF Next, MainStep
  <2> QED BY <1>3, <2>1, <2>2, <2>3
<1>5. CASE PlaceMaker
  <2>1. pc = "placeMaker" /\ opened' = opened /\ seen' = seen
    BY <1>5 DEF PlaceMaker, UpdateState
  <2>2. sig \in Signals /\ MakerId(sig) \in OrderIds
    <3>1. sig \in Signals /\ seen[sig] # NoId
      BY <2>1 DEF SlotTaken, EntryPC, BooksInv, OrderedPC
    <3> QED BY <3>1, EntryIds
  <2>3. CASE Place(MakerId(sig), Side[sig], FALSE) /\ Goto("pollMaker")
    <3>1. ~Known(MakerId(sig)) /\ exOrders'[MakerId(sig)].status = "NEW"
      BY <2>2, <2>3 DEF Place, ExchangeTypeOK
    <3>2. \A s \in opened : seen[s] # seen[sig]
      BY <3>1 DEF MakerId
    <3>3. sig' = sig /\ Known(MakerId(sig))'
      BY <2>1, <2>3, <3>1 DEF Goto, Known, MakerId
    <3>4. Next
      BY <1>5 DEF Next, MainStep
    <3> QED BY <1>3, <2>1, <3>2, <3>3, <3>4
  <2>4. CASE ReturnToLoop
    <3>1. pc' \notin ProbedPC
      BY <2>4 DEF ReturnToLoop, ProbedPC
    <3>2. Next
      BY <1>5 DEF Next, MainStep
    <3> QED BY <1>3, <2>1, <3>1, <3>2
  <2> QED BY <1>5, <2>3, <2>4 DEF PlaceMaker, PlaceAcked
<1>6. CASE BookTrade
  <2>1. /\ pc = "recordTrade" /\ pc' = "setOpen" /\ opened' = opened \cup {sig}
        /\ UNCHANGED <<seen, exOrders>>
    BY <1>6 DEF BookTrade, Goto, orderVars, exchangeVars
  <2>2. Known(MakerId(sig)) /\ \A s \in opened : seen[s] # seen[sig]
    BY <2>1 DEF ProbedPC
  <2> QED BY <2>1, <2>2 DEF Known, MakerId, ProbedPC
<1>7. CASE Next /\ ~CreateEntryOrder /\ ~PlaceMaker /\ ~BookTrade /\ ~Restart
  <2>1. UNCHANGED <<seen, opened>> /\ (pc' \in ProbedPC => pc \in ProbedPC /\ sig' = sig)
    BY <1>7, ProbesFrame
  <2>2. pc \in ProbedPC => MakerId(sig) \in OrderIds
    <3> SUFFICES ASSUME pc \in ProbedPC PROVE MakerId(sig) \in OrderIds
      OBVIOUS
    <3>1. sig \in Signals /\ seen[sig] # NoId
      BY DEF SlotTaken, EntryPC, FilledPC, BooksInv, OrderedPC, ProbedPC
    <3> QED BY <3>1, EntryIds
  <2>3. pc' \in ProbedPC => Known(MakerId(sig))' /\ \A s \in opened' : seen'[s] # seen'[sig']
    BY <1>7, <2>1, <2>2, KnownStays DEF Known, MakerId
  <2> QED BY <1>3, <1>7, <2>1, <2>3
<1> QED BY <1>1, <1>2, <1>4, <1>5, <1>6, <1>7

\* A signal is probed for once (manager.go:38, entry.go:31): the seen entry is
\* written before the probe and is never removed.  Two signals whose ids end
\* alike have one client order id on one date (idgen.go:21); at an exchange that
\* refuses an id in use, whatever becomes of its first order, at most one of
\* them becomes a trade.
THEOREM ProbeOnce == Spec => []OneProbePerTrade
<1>1. CASE Instant
  <2>1. Init => ProbeInv
    BY DEF Init, FreshProcess, ProbeInv
  <2>2. ProbeInv => OneProbePerTrade
    BY <1>1 DEF ProbeInv, OneProbePerTrade
  <2> QED BY HandshakeInit, HandshakeStep, <2>1, <2>2, ProbeStep, PTL DEF Spec
<1>2. CASE ~Instant
  <2>1. Init => ProbeInv /\ ProbesApart
    BY DEF Init, FreshProcess, ProbeInv, ProbesApart, ProbedPC
  <2>2. HandshakeOK /\ BooksInv /\ ProbesApart /\ [Next]_vars => ProbesApart'
    BY <1>2, ProbesStep
  <2>3. ProbeInv /\ ProbesApart => OneProbePerTrade
    BY DEF ProbeInv, ProbesApart, OneProbePerTrade
  <2> QED BY HandshakeInit, HandshakeStep, BooksInit, BooksStep, <2>1, <2>2, <2>3, ProbeStep,
             PTL DEF Spec
<1> QED BY <1>1, <1>2

-----------------------------------------------------------------------------
(* The records of the order manager, the tracker and the engine.           *)

\* No two signals share an order id: ids with the same last six characters on
\* one date are excluded (idgen.go:21).
ApartSuffixes == \A s, t \in Signals : Suffix[s] = Suffix[t] => s = t

IdOrNone == OrderIds \cup {NoOrderId}

RecordType == [clientOrderId : IdOrNone, received : BOOLEAN, t4 : IdOrNone,
               t5 : IdOrNone, t6 : IdOrNone, closed : BOOLEAN]

\* Where the signal of the entry has an order of its own, not yet filled.
OwnOrderPC == {"submit", "placeMaker", "pollMaker", "cancelMaker", "placeIoc",
              "pollIoc", "cancelIoc"}

\* A client order id keeps the suffix of the signal it was made for.
IdsOK == \A s \in Signals : seen[s] # NoId => seen[s][2] = Suffix[s]

Traded(s) == records[s].t6 # NoOrderId

\* A record is of the entry of its own signal, and what it says of a fill is
\* what the order manager and the exchange say.
RecordOK(s) ==
    /\ records[s].clientOrderId \in {NoOrderId, MakerId(s), IocId(s)}
    /\ seen[s] = NoId => records[s].clientOrderId = NoOrderId /\ ~Traded(s)
    /\ Traded(s) =>
          /\ records[s].received
          /\ records[s].t4 = records[s].t6 /\ records[s].t5 = records[s].t6
          /\ records[s].t6 \in {MakerId(s), IocId(s)}
          /\ Filled(records[s].t6)
          /\ orders[seen[s]] = "FILLED"
    /\ records[s].closed \/ s \in opened \/ s = activePos => Traded(s)

\* Where the record of the entry in work stands.
EntryRecordOK ==
    /\ pc \in EntryPC => records[sig].received
    /\ pc \in OwnOrderPC => seen[sig] # NoId /\ ~Traded(sig)
    /\ pc \in {"placeMaker", "pollMaker"} =>
          records[sig].clientOrderId = MakerId(sig) /\ records[sig].t4 = MakerId(sig)
    /\ pc = "pollMaker" => records[sig].t5 = MakerId(sig)
    /\ pc \in {"placeIoc", "pollIoc"} =>
          records[sig].clientOrderId = IocId(sig) /\ records[sig].t4 = IocId(sig)
    /\ pc = "pollIoc" => records[sig].t5 = IocId(sig)
    /\ pc \in FilledPC => Traded(sig)

RecordsInv ==
    /\ records \in [Signals -> RecordType]
    /\ IdsOK
    /\ Up => EntryRecordOK /\ \A s \in Signals : RecordOK(s)

LEMMA IdsApart ==
    ASSUME ApartSuffixes, IdsOK, NEW s \in Signals, NEW t \in Signals, s # t,
           seen[s] # NoId, seen[t] # NoId
    PROVE  /\ seen[s] # seen[t]
           /\ MakerId(s) \notin {MakerId(t), IocId(t)}
           /\ IocId(s) \notin {MakerId(t), IocId(t)}
BY DEF ApartSuffixes, IdsOK, MakerId, IocId

\* findByOrderIDLocked finds the one record it should.
LEMMA FindsTheRecord ==
    ASSUME ApartSuffixes, OrdersTypeOK, RecordsInv, Up, NEW s \in Signals, seen[s] # NoId,
           records[s].clientOrderId \in {MakerId(s), IocId(s)}
    PROVE  FindByOrderID(records[s].clientOrderId) = {s}
<1>1. NoOrderId \notin {MakerId(s), IocId(s)}
  BY EntryIds, TrackedAssumption
<1>2. ASSUME NEW t \in Signals, records[t].clientOrderId = records[s].clientOrderId
      PROVE  t = s
  <2>1. records[t].clientOrderId \in {MakerId(t), IocId(t)} /\ seen[t] # NoId
    BY <1>1, <1>2 DEF RecordsInv, RecordOK
  <2> QED BY <1>2, <2>1, IdsApart DEF RecordsInv
<1> QED BY <1>2, TrackedAssumption DEF FindByOrderID

\* A record stays right while what it speaks of stays, and no signal becomes a
\* trade or the active position without one.
LEMMA RecordStays ==
    ASSUME NEW s \in Signals, RecordOK(s), records'[s] = records[s], seen'[s] = seen[s],
           Traded(s) => orders'[seen[s]] = "FILLED",
           Traded(s) => exOrders'[records[s].t6].status = "FILLED",
           s \in opened' \/ s = activePos' => Traded(s)
    PROVE  RecordOK(s)'
BY DEF RecordOK, Traded, MakerId, IocId, Filled

\* A filled order keeps its status unless it is cancelled.
LEMMA FilledStays ==
    ASSUME ExchangeTypeOK, NEW p \in OrderIds, Filled(p),
           \/ UNCHANGED exchangeVars
           \/ \E o, side, reduceOnly : Place(o, side, reduceOnly)
           \/ \E o, dead : CancelOrder(o, dead) /\ o # p
           \/ \E o \in OrderIds : Fill(o) \/ Expire(o)
    PROVE  exOrders'[p].status = "FILLED"
<1>1. ASSUME NEW o, NEW side, NEW reduceOnly, Place(o, side, reduceOnly)
      PROVE  exOrders'[p].status = "FILLED"
  <2>1. CASE Instant
    BY <1>1, <2>1 DEF ExchangeTypeOK, Filled, Place
  <2>2. CASE ~Instant
    BY <1>1, <2>2 DEF ExchangeTypeOK, Filled, Place, Known
  <2> QED BY <2>1, <2>2
<1> QED
  BY <1>1 DEF ExchangeTypeOK, Filled, exchangeVars, CancelOrder, Fill, Expire, Working

LEMMA FailedPlace ==
    ASSUME NEW o, NEW side, NEW reduceOnly, NEW dead,
           PlaceAcked(o, side, reduceOnly, dead) \/ PlaceFailed(o, side, reduceOnly, dead)
    PROVE  UNCHANGED exchangeVars \/ Place(o, side, reduceOnly)
BY DEF PlaceAcked, PlaceFailed

\* What an entry does to its own order leaves the records of the others.
LEMMA OthersStay ==
    ASSUME ApartSuffixes, HandshakeOK, RecordsInv, pc \in OwnOrderPC,
           NEW t \in Signals, t # sig, records'[t] = records[t], UNCHANGED <<opened, activePos>>,
           \/ UNCHANGED orderVars
           \/ MarkFilled(sig)
           \/ \E new : UpdateState(seen[sig], new),
           \/ UNCHANGED exchangeVars
           \/ \E o, side, reduceOnly : Place(o, side, reduceOnly)
           \/ \E o \in {MakerId(sig), IocId(sig)} : \E dead : CancelOrder(o, dead)
    PROVE  RecordOK(t)'
<1>1. sig \in Signals /\ Up /\ seen[sig] # NoId /\ RecordOK(t)
  BY DEF HandshakeOK, ControlOK, SlotTaken, RecordsInv, EntryRecordOK, OwnOrderPC, EntryPC, Up
<1>2. seen' = seen
  BY DEF orderVars, MarkFilled, UpdateState
<1>3. Traded(t) => orders'[seen[t]] = "FILLED"
  <2> SUFFICES ASSUME Traded(t) PROVE orders'[seen[t]] = "FILLED"
    OBVIOUS
  <2>1. seen[t] # NoId /\ orders[seen[t]] = "FILLED"
    BY <1>1 DEF RecordOK
  <2>2. seen[t] # seen[sig] /\ seen[t] \in ClientIds
    BY <1>1, <2>1, IdsApart DEF RecordsInv, HandshakeOK, OrdersTypeOK
  <2> QED BY <2>1, <2>2 DEF orderVars, MarkFilled, UpdateState, HandshakeOK, OrdersTypeOK
<1>4. Traded(t) => exOrders'[records[t].t6].status = "FILLED"
  <2> SUFFICES ASSUME Traded(t) PROVE exOrders'[records[t].t6].status = "FILLED"
    OBVIOUS
  <2>1. seen[t] # NoId /\ records[t].t6 \in {MakerId(t), IocId(t)} /\ Filled(records[t].t6)
    BY <1>1 DEF RecordOK
  <2>2. records[t].t6 \in OrderIds
    BY <2>1, EntryIds DEF HandshakeOK
  <2>3. records[t].t6 \notin {MakerId(sig), IocId(sig)}
    BY <1>1, <2>1, IdsApart DEF RecordsInv
  <2> QED BY <2>1, <2>2, <2>3, FilledStays DEF HandshakeOK
<1> QED BY <1>1, <1>2, <1>3, <1>4, RecordStays DEF RecordOK

\* A step that leaves orders, exchange and records alone, and makes no signal a
\* trade or the active position that has no fill in its record.
LEMMA AllStay ==
    ASSUME ExchangeTypeOK, OrdersTypeOK, RecordsInv, Up,
           UNCHANGED <<records, orderVars>>,
           \/ UNCHANGED exchangeVars
           \/ \E o \in OrderIds : Fill(o) \/ Expire(o),
           \A s \in Signals : s \in opened' \/ s = activePos' => Traded(s)
    PROVE  IdsOK' /\ \A s \in Signals : RecordOK(s)'
<1>1. ASSUME NEW s \in Signals
      PROVE  RecordOK(s)'
  <2>1. RecordOK(s)
    BY DEF RecordsInv
  <2>2. Traded(s) => records[s].t6 \in OrderIds /\ Filled(records[s].t6)
    BY <2>1, EntryIds DEF RecordOK
  <2>3. Traded(s) => exOrders'[records[s].t6].status = "FILLED"
    BY <2>2, FilledStays
  <2> QED BY <2>1, <2>3, RecordStays DEF RecordOK, orderVars
<1> QED BY <1>1 DEF RecordsInv, IdsOK, orderVars

LEMMA TrackerCall ==
    ASSUME TrackedNext, Up
    PROVE  Next /\ (TrackerStep \/ (~Reports /\ UNCHANGED records))
BY DEF TrackedNext, Up

\* The steps of main that no call of the tracker belongs to.
LEMMA RecordsMainQuiet ==
    ASSUME HandshakeOK, RecordsInv, TrackedNext,
           \/ Evaluate \/ CheckMarket \/ BookTrade \/ RaiseOpenFlag \/ StorePosition
           \/ StartMonitor
    PROVE  RecordsInv'
<1> USE DEF HandshakeOK, ControlOK, Goto, ReturnToLoop, MainOnly, EntryPC, OwnOrderPC, FilledPC,
            positionVars, monitorVars, historyVars
<1>1. /\ Up /\ sig \in Signals /\ EntryRecordOK /\ UNCHANGED <<orderVars, exchangeVars>>
      /\ \A s \in Signals : RecordOK(s)
  BY DEF Up, SlotTaken, RecordsInv, Evaluate, CheckMarket, BookTrade, RaiseOpenFlag,
         StorePosition, StartMonitor
<1>2. \A s \in Signals : mon'[s] # mon[s] => mon'[s] = "watching"
  BY DEF Evaluate, CheckMarket, BookTrade, RaiseOpenFlag, StorePosition, StartMonitor,
         ControlTypeOK
<1>3. UNCHANGED records
  <2>1. TrackerStep \/ (~Reports /\ UNCHANGED records)
    BY <1>1, TrackerCall
  <2>2. ~TrackerStep
    BY <1>2 DEF TrackerStep, From, Evaluate, CheckMarket, BookTrade, RaiseOpenFlag,
           StorePosition, StartMonitor
  <2> QED BY <2>1, <2>2
<1>4. ASSUME NEW s \in Signals, s \in opened' \/ s = activePos'
      PROVE  Traded(s)
  <2>1. s \in opened \/ s = activePos \/ (s = sig /\ pc \in FilledPC)
    BY <1>4 DEF Evaluate, CheckMarket, BookTrade, RaiseOpenFlag, StorePosition, StartMonitor
  <2> QED BY <1>1, <2>1 DEF RecordOK, EntryRecordOK
<1>5. IdsOK' /\ \A s \in Signals : RecordOK(s)'
  BY <1>1, <1>3, <1>4, AllStay
<1>6. EntryRecordOK'
  BY <1>1, <1>3 DEF EntryRecordOK, Traded, Evaluate, CheckMarket, BookTrade, RaiseOpenFlag,
     StorePosition, StartMonitor
<1> QED BY <1>3, <1>5, <1>6 DEF RecordsInv

LEMMA RecordsReceive ==
    ASSUME HandshakeOK, RecordsInv, TrackedNext, NEW s \in Signals, ReceiveSignal(s)
    PROVE  RecordsInv'
<1>1. Up /\ pc = "idle" /\ pc' = "evaluate" /\ sig' = s /\ UNCHANGED <<mon, opened, activePos>>
  BY DEF ReceiveSignal, Up, MainOnly, positionVars, monitorVars, historyVars
<1>2. UNCHANGED <<orderVars, exchangeVars>>
  BY DEF ReceiveSignal
<1>3. records' = [records EXCEPT ![s].received = TRUE]
  BY <1>1, TrackerCall DEF TrackerStep, Reports, From, RecordSignalReceived
<1>4. records' \in [Signals -> RecordType]
  BY <1>3 DEF RecordsInv, RecordType
<1>5. /\ records'[s] = [records[s] EXCEPT !.received = TRUE]
      /\ \A t \in Signals : t # s => records'[t] = records[t]
  BY <1>3 DEF RecordsInv
<1>6. ASSUME NEW t \in Signals PROVE RecordOK(t)'
  <2>1. RecordOK(t) /\ records[t] \in RecordType /\ records[s] \in RecordType
    BY <1>1 DEF RecordsInv
  <2>2. /\ records'[t].clientOrderId = records[t].clientOrderId
        /\ records'[t].t4 = records[t].t4 /\ records'[t].t5 = records[t].t5
        /\ records'[t].t6 = records[t].t6 /\ records'[t].closed = records[t].closed
        /\ records[t].received => records'[t].received
    BY <1>5, <2>1 DEF RecordType
  <2> QED BY <1>1, <1>2, <2>1, <2>2
          DEF RecordOK, Traded, Filled, MakerId, IocId, orderVars, exchangeVars
<1>7. EntryRecordOK'
  BY <1>1, <1>5 DEF EntryRecordOK, EntryPC, OwnOrderPC, FilledPC, RecordsInv, RecordType
<1> QED BY <1>2, <1>4, <1>6, <1>7 DEF RecordsInv, IdsOK, orderVars

LEMMA RecordsCreate ==
    ASSUME ApartSuffixes, HandshakeOK, RecordsInv, TrackedNext, CreateEntryOrder
    PROVE  RecordsInv'
<1>1. /\ Up /\ sig \in Signals /\ pc = "createOrder" /\ sig' \in {sig, NoSignal}
      /\ UNCHANGED <<mon, opened, activePos, exchangeVars>>
      /\ pc' \in {"submit", "idle"} /\ (pc' = "submit" => sig' = sig)
      /\ EntryRecordOK /\ \A s \in Signals : RecordOK(s)
  BY DEF CreateEntryOrder, Up, MainOnly, Goto, ReturnToLoop, positionVars, monitorVars,
         historyVars, HandshakeOK, ControlOK, SlotTaken, EntryPC, RecordsInv
<1>2. UNCHANGED records
  BY <1>1, TrackerCall DEF TrackerStep, Reports, From
<1>3. CASE UNCHANGED orderVars /\ pc' = "idle"
  <2>1. IdsOK' /\ \A s \in Signals : RecordOK(s)'
    BY <1>1, <1>2, <1>3, AllStay DEF HandshakeOK, RecordOK
  <2>2. EntryRecordOK'
    BY <1>3 DEF EntryRecordOK, EntryPC, OwnOrderPC, FilledPC
  <2> QED BY <1>2, <2>1, <2>2 DEF RecordsInv
<1>4. CASE CreateOrder(sig) /\ Goto("submit")
  <2> DEFINE id == GenerateClientOrderID(sig, today)
  <2>1. id \in ClientIds /\ id # NoId /\ id[2] = Suffix[sig]
    <3>1. today \in Days
      BY DEF HandshakeOK, RiskStateOK
    <3> QED BY <1>1, <3>1, IdTypes DEF GenerateClientOrderID, NoId
  <2>2. /\ seen[sig] = NoId /\ seen' = [seen EXCEPT ![sig] = id]
        /\ orders' = [orders EXCEPT ![id] = "NEW"]
    BY <1>4 DEF CreateOrder, Duplicate
  <2>3. IdsOK'
    BY <1>1, <2>1, <2>2 DEF RecordsInv, IdsOK, HandshakeOK, OrdersTypeOK
  <2>4. ASSUME NEW t \in Signals, t # sig PROVE RecordOK(t)'
    <3>1. seen'[t] = seen[t]
      BY <2>2, <2>4 DEF HandshakeOK, OrdersTypeOK
    <3>2. Traded(t) => seen[t] # id /\ seen[t] \in ClientIds
      BY <1>1, <2>1, <2>4
         DEF RecordOK, RecordsInv, IdsOK, ApartSuffixes, HandshakeOK, OrdersTypeOK
    <3>3. Traded(t) => orders'[seen[t]] = "FILLED"
      BY <1>1, <2>2, <3>2 DEF RecordOK, HandshakeOK, OrdersTypeOK
    <3> QED BY <1>1, <1>2, <3>1, <3>3, RecordStays DEF RecordOK, Filled, exchangeVars
  <2>5. ~Traded(sig) /\ records[sig].clientOrderId = NoOrderId
    BY <1>1, <2>2 DEF RecordOK
  <2>6. ASSUME NEW t \in Signals, t = sig PROVE RecordOK(t)'
    <3>1. seen'[t] # NoId
      BY <1>1, <2>1, <2>2, <2>6 DEF HandshakeOK, OrdersTypeOK
    <3> QED BY <1>1, <1>2, <2>5, <2>6, <3>1 DEF RecordOK, Traded
  <2>7. \A s \in Signals : RecordOK(s)'
    BY <2>4, <2>6
  <2>8. EntryRecordOK'
    <3>1. seen'[sig] # NoId
      BY <1>1, <2>1, <2>2 DEF HandshakeOK, OrdersTypeOK
    <3> QED BY <1>1, <1>2, <1>4, <2>5, <3>1
            DEF EntryRecordOK, EntryPC, OwnOrderPC, FilledPC, Goto, Traded
  <2> QED BY <1>2, <2>3, <2>7, <2>8 DEF RecordsInv
<1> QED BY <1>3, <1>4 DEF CreateEntryOrder, ReturnToLoop

\* A step of the entry that stamps nothing but its own record, and no fill.
LEMMA OwnStep ==
    ASSUME ApartSuffixes, HandshakeOK, RecordsInv, pc \in OwnOrderPC,
           UNCHANGED <<opened, activePos>>,
           \/ UNCHANGED orderVars
           \/ \E new : UpdateState(seen[sig], new),
           \/ UNCHANGED exchangeVars
           \/ \E o, side, reduceOnly : Place(o, side, reduceOnly)
           \/ \E o \in {MakerId(sig), IocId(sig)} : \E dead : CancelOrder(o, dead),
           NEW r \in RecordType, records' = [records EXCEPT ![sig] = r],
           r.closed = records[sig].closed, r.t6 = records[sig].t6,
           r.clientOrderId \in {NoOrderId, MakerId(sig), IocId(sig)}
    PROVE  IdsOK' /\ records' \in [Signals -> RecordType] /\ \A s \in Signals : RecordOK(s)'
<1>1. /\ sig \in Signals /\ seen[sig] # NoId /\ ~Traded(sig) /\ RecordOK(sig)
      /\ records'[sig] = r /\ \A t \in Signals : t # sig => records'[t] = records[t]
  BY DEF HandshakeOK, ControlOK, SlotTaken, RecordsInv, EntryRecordOK, OwnOrderPC, EntryPC, Up
<1>2. seen' = seen
  BY DEF orderVars, UpdateState
<1>3. records' \in [Signals -> RecordType]
  BY DEF RecordsInv
<1>4. ASSUME NEW t \in Signals, t # sig PROVE RecordOK(t)'
  BY <1>1, <1>4, OthersStay
<1>5. ASSUME NEW t \in Signals, t = sig PROVE RecordOK(t)'
  BY <1>1, <1>2, <1>5 DEF RecordOK, Traded, MakerId, IocId
<1> QED BY <1>2, <1>3, <1>4, <1>5 DEF IdsOK, RecordsInv

\* The fill of the entry's order, seen by a poll.
LEMMA OwnFill ==
    ASSUME ApartSuffixes, HandshakeOK, RecordsInv, TrackedNext,
           UNCHANGED <<mon, opened, activePos, exchangeVars>>,
           NEW o \in {MakerId(sig), IocId(sig)}, Filled(o), MarkFilled(sig),
           Goto("recordTrade"), records[sig].clientOrderId = o, records[sig].t4 = o,
           records[sig].t5 = o, pc \in OwnOrderPC, RecordFill(o)
    PROVE  RecordsInv'
<1>1. /\ Up /\ sig \in Signals /\ seen[sig] # NoId /\ ~Traded(sig) /\ RecordOK(sig)
      /\ records[sig].received /\ records[sig] \in RecordType
  BY DEF HandshakeOK, ControlOK, SlotTaken, RecordsInv, EntryRecordOK, OwnOrderPC, EntryPC, Up
<1>2. o \in OrderIds /\ o # NoOrderId
  BY <1>1, EntryIds, TrackedAssumption DEF HandshakeOK
<1>3. records' = [records EXCEPT ![sig].t6 = o]
  <2>1. FindByOrderID(o) = {sig}
    BY <1>1, FindsTheRecord DEF HandshakeOK
  <2> QED BY <2>1 DEF RecordFill
<1>4. records' \in [Signals -> RecordType] /\ seen' = seen /\ sig' = sig /\ pc' = "recordTrade"
  BY <1>2, <1>3 DEF RecordsInv, RecordType, IdOrNone, MarkFilled, Goto
<1>5. /\ records'[sig] = [records[sig] EXCEPT !.t6 = o]
      /\ \A t \in Signals : t # sig => records'[t] = records[t]
  BY <1>1, <1>3 DEF RecordsInv
<1>6. ASSUME NEW t \in Signals, t # sig PROVE RecordOK(t)'
  BY <1>5, <1>6, OthersStay
<1>7. orders'[seen[sig]] = "FILLED"
  BY <1>1 DEF MarkFilled, HandshakeOK, OrdersTypeOK
<1>8. ASSUME NEW t \in Signals, t = sig PROVE RecordOK(t)'
  <2>1. /\ records'[t].t6 = o /\ records'[t].t4 = o /\ records'[t].t5 = o
        /\ records'[t].clientOrderId = o /\ records'[t].received
    BY <1>1, <1>5, <1>8 DEF RecordType
  <2>2. exOrders'[o].status = "FILLED"
    BY DEF Filled, exchangeVars
  <2> QED BY <1>1, <1>2, <1>4, <1>7, <1>8, <2>1, <2>2
          DEF RecordOK, Traded, MakerId, IocId, Filled
<1>9. EntryRecordOK'
  BY <1>1, <1>2, <1>4, <1>5
     DEF EntryRecordOK, EntryPC, OwnOrderPC, FilledPC, Traded, RecordType
<1> QED BY <1>4, <1>6, <1>8, <1>9 DEF RecordsInv, IdsOK

\* What the steps of an entry with an order leave alone.
LEMMA EntryFrame ==
    ASSUME HandshakeOK, RecordsInv,
           \/ Submit \/ PlaceMaker \/ PollMaker \/ AbandonEntry \/ CancelMaker
           \/ PlaceIoc \/ PollIoc \/ CancelIoc
    PROVE  /\ UNCHANGED <<mon, opened, activePos>>
           /\ pc \in OwnOrderPC /\ Up /\ sig \in Signals /\ seen[sig] # NoId
           /\ EntryRecordOK /\ records[sig] \in RecordType /\ RecordOK(sig)
           /\ records \in [Signals -> RecordType]
           /\ MakerId(sig) \in OrderIds /\ IocId(sig) \in OrderIds
<1>1. UNCHANGED <<mon, opened, activePos>> /\ pc \in OwnOrderPC
  BY DEF Submit, PlaceMaker, PollMaker, AbandonEntry, CancelMaker, PlaceIoc, PollIoc, CancelIoc,
         OwnOrderPC, MainOnly, positionVars, monitorVars, historyVars
<1>2. Up /\ sig \in Signals
  BY <1>1 DEF HandshakeOK, ControlOK, SlotTaken, OwnOrderPC, EntryPC, Up
<1>3. EntryRecordOK /\ records[sig] \in RecordType /\ RecordOK(sig)
      /\ records \in [Signals -> RecordType]
  BY <1>2 DEF RecordsInv
<1>4. seen[sig] # NoId
  BY <1>1, <1>3 DEF EntryRecordOK
<1> QED BY <1>1, <1>2, <1>3, <1>4, EntryIds DEF HandshakeOK

\* The entry ends without a fill, or goes on to cancel its order: the tracker is
\* not called.
LEMMA RecordsLeave ==
    ASSUME ApartSuffixes, HandshakeOK, RecordsInv, TrackedNext,
           PlaceMaker \/ PollMaker \/ AbandonEntry \/ PlaceIoc \/ PollIoc \/ CancelIoc,
           \/ pc' = "idle"
           \/ Goto("cancelMaker")
           \/ Goto("cancelIoc"),
           \/ UNCHANGED orderVars
           \/ \E new : UpdateState(seen[sig], new),
           \/ UNCHANGED exchangeVars
           \/ \E o, side, reduceOnly : Place(o, side, reduceOnly)
           \/ \E o \in {MakerId(sig), IocId(sig)} : \E dead : CancelOrder(o, dead)
    PROVE  RecordsInv'
<1> USE EntryFrame
<1>1. UNCHANGED records
  BY TrackerCall DEF TrackerStep, Reports, From, Goto, OwnOrderPC
<1>2. records' = [records EXCEPT ![sig] = records[sig]]
  BY <1>1
<1>3. IdsOK' /\ records' \in [Signals -> RecordType] /\ \A s \in Signals : RecordOK(s)'
  BY <1>2, OwnStep DEF RecordOK
<1>4. EntryRecordOK'
  <2>1. seen' = seen
    BY DEF orderVars, UpdateState
  <2> QED BY <1>1, <2>1 DEF EntryRecordOK, EntryPC, OwnOrderPC, FilledPC, Goto, Traded
<1> QED BY <1>3, <1>4 DEF RecordsInv

LEMMA RecordsSend ==
    ASSUME ApartSuffixes, HandshakeOK, RecordsInv, TrackedNext, Submit \/ CancelMaker
    PROVE  RecordsInv'
<1> DEFINE o == IF pc = "submit" THEN MakerId(sig) ELSE IocId(sig)
           r == [records[sig] EXCEPT !.clientOrderId = o, !.t4 = o]
<1> USE EntryFrame
<1>1. /\ pc \in {"submit", "cancelMaker"} /\ sig' = sig
      /\ pc' = IF pc = "submit" THEN "placeMaker" ELSE "placeIoc"
      /\ \E new : UpdateState(seen[sig], new)
  BY DEF Submit, CancelMaker, Goto
<1>2. UNCHANGED exchangeVars \/ \E p \in {MakerId(sig), IocId(sig)} : \E dead : CancelOrder(p, dead)
  BY DEF Submit, CancelMaker
<1>3. RecordOrderSent(sig, o)
  BY <1>1, TrackerCall DEF TrackerStep, Reports, From
<1>4. records' = [records EXCEPT ![sig] = r]
  BY <1>3 DEF RecordOrderSent
<1>5. r \in RecordType /\ r.closed = records[sig].closed /\ r.t6 = records[sig].t6
      /\ r.clientOrderId = o /\ r.t4 = o /\ r.received = records[sig].received
      /\ o \in {MakerId(sig), IocId(sig)}
  BY DEF RecordType, IdOrNone
<1>6. IdsOK' /\ records' \in [Signals -> RecordType] /\ \A s \in Signals : RecordOK(s)'
  <2> HIDE DEF r, o
  <2> QED BY <1>1, <1>2, <1>4, <1>5, OwnStep
<1>7. EntryRecordOK'
  <2>1. records'[sig] = r /\ seen' = seen
    BY <1>1, <1>4 DEF UpdateState
  <2> HIDE DEF r
  <2> QED BY <1>1, <1>5, <2>1
          DEF EntryRecordOK, EntryPC, OwnOrderPC, FilledPC, Traded, MakerId, IocId
<1> QED BY <1>6, <1>7 DEF RecordsInv

LEMMA RecordsPlaceMaker ==
    ASSUME ApartSuffixes, HandshakeOK, RecordsInv, TrackedNext, PlaceMaker
    PROVE  RecordsInv'
<1> DEFINE o == MakerId(sig)
<1> USE EntryFrame
<1>1. pc = "placeMaker" /\ records[sig].clientOrderId = o /\ records[sig].t4 = o
  BY DEF PlaceMaker, EntryRecordOK
<1>2. UNCHANGED exchangeVars \/ Place(o, Side[sig], FALSE)
  BY FailedPlace DEF PlaceMaker
<1>3. UNCHANGED orderVars \/ \E new : UpdateState(seen[sig], new)
  BY DEF PlaceMaker
<1>4. CASE Goto("pollMaker")
  <2>1. RecordOrderAcked(o)
    BY <1>1, <1>4, TrackerCall DEF TrackerStep, Reports, From, Goto
  <2>2. FindByOrderID(o) = {sig}
    BY <1>1, FindsTheRecord DEF HandshakeOK
  <2> DEFINE r == [records[sig] EXCEPT !.t5 = o]
  <2>3. records' = [records EXCEPT ![sig] = r]
    BY <2>1, <2>2 DEF RecordOrderAcked
  <2>4. r \in RecordType /\ r.closed = records[sig].closed /\ r.t6 = records[sig].t6
        /\ r.clientOrderId = o /\ r.t4 = o /\ r.t5 = o /\ r.received = records[sig].received
    BY <1>1 DEF RecordType, IdOrNone
  <2>5. IdsOK' /\ records' \in [Signals -> RecordType] /\ \A s \in Signals : RecordOK(s)'
    <3> HIDE DEF r, o
    <3> QED BY <1>2, <1>3, <2>3, <2>4, OwnStep DEF o
  <2>6. EntryRecordOK'
    <3>1. records'[sig] = r /\ sig' = sig /\ pc' = "pollMaker" /\ seen' = seen
      BY <1>3, <1>4, <2>3 DEF Goto, orderVars, UpdateState
    <3> HIDE DEF r
    <3> QED BY <1>1, <2>4, <3>1
            DEF EntryRecordOK, EntryPC, OwnOrderPC, FilledPC, Traded, MakerId, IocId
  <2> QED BY <2>5, <2>6 DEF RecordsInv
<1>5. CASE ReturnToLoop
  BY <1>1, <1>2, <1>3, <1>5, RecordsLeave DEF ReturnToLoop
<1> QED BY <1>4, <1>5 DEF PlaceMaker

LEMMA RecordsPlaceIoc ==
    ASSUME ApartSuffixes, HandshakeOK, RecordsInv, TrackedNext, PlaceIoc
    PROVE  RecordsInv'
<1> DEFINE o == IocId(sig)
<1> USE EntryFrame
<1>1. pc = "placeIoc" /\ records[sig].clientOrderId = o /\ records[sig].t4 = o
  BY DEF PlaceIoc, EntryRecordOK
<1>2. UNCHANGED exchangeVars \/ Place(o, Side[sig], FALSE)
  BY FailedPlace DEF PlaceIoc
<1>3. UNCHANGED orderVars \/ \E new : UpdateState(seen[sig], new)
  BY DEF PlaceIoc
<1>4. CASE Goto("pollIoc")
  <2>1. RecordOrderAcked(o)
    BY <1>1, <1>4, TrackerCall DEF TrackerStep, Reports, From, Goto
  <2>2. FindByOrderID(o) = {sig}
    BY <1>1, FindsTheRecord DEF HandshakeOK
  <2> DEFINE r == [records[sig] EXCEPT !.t5 = o]
  <2>3. records' = [records EXCEPT ![sig] = r]
    BY <2>1, <2>2 DEF RecordOrderAcked
  <2>4. r \in RecordType /\ r.closed = records[sig].closed /\ r.t6 = records[sig].t6
        /\ r.clientOrderId = o /\ r.t4 = o /\ r.t5 = o /\ r.received = records[sig].received
    BY <1>1 DEF RecordType, IdOrNone
  <2>5. IdsOK' /\ records' \in [Signals -> RecordType] /\ \A s \in Signals : RecordOK(s)'
    <3> HIDE DEF r, o
    <3> QED BY <1>2, <1>3, <2>3, <2>4, OwnStep DEF o
  <2>6. EntryRecordOK'
    <3>1. records'[sig] = r /\ sig' = sig /\ pc' = "pollIoc" /\ seen' = seen
      BY <1>3, <1>4, <2>3 DEF Goto, orderVars, UpdateState
    <3> HIDE DEF r
    <3> QED BY <1>1, <2>4, <3>1
            DEF EntryRecordOK, EntryPC, OwnOrderPC, FilledPC, Traded, MakerId, IocId
  <2> QED BY <2>5, <2>6 DEF RecordsInv
<1>5. CASE ReturnToLoop
  BY <1>1, <1>2, <1>3, <1>5, RecordsLeave DEF ReturnToLoop
<1> QED BY <1>4, <1>5 DEF PlaceIoc

LEMMA RecordsPoll ==
    ASSUME ApartSuffixes, HandshakeOK, RecordsInv, TrackedNext, PollMaker \/ PollIoc
    PROVE  RecordsInv'
<1> DEFINE o == IF pc = "pollMaker" THEN MakerId(sig) ELSE IocId(sig)
<1> USE EntryFrame
<1>1. /\ pc \in {"pollMaker", "pollIoc"} /\ UNCHANGED exchangeVars
      /\ records[sig].clientOrderId = o /\ records[sig].t4 = o /\ records[sig].t5 = o
      /\ o \in {MakerId(sig), IocId(sig)}
      /\ \/ Filled(o) /\ MarkFilled(sig) /\ Goto("recordTrade")
         \/ (Goto("cancelMaker") \/ Goto("cancelIoc")) /\ UNCHANGED orderVars
  BY DEF PollMaker, PollIoc, EntryRecordOK
<1>2. CASE Filled(o) /\ MarkFilled(sig) /\ Goto("recordTrade")
  <2>1. RecordFill(o)
    BY <1>1, <1>2, TrackerCall DEF TrackerStep, Reports, From, Goto
  <2> HIDE DEF o
  <2> QED BY <1>1, <1>2, <2>1, OwnFill
<1>3. CASE (Goto("cancelMaker") \/ Goto("cancelIoc")) /\ UNCHANGED orderVars
  BY <1>1, <1>3, RecordsLeave
<1> QED BY <1>1, <1>2, <1>3

LEMMA RecordsMain ==
    ASSUME ApartSuffixes, HandshakeOK, RecordsInv, TrackedNext, MainStep
    PROVE  RecordsInv'
<1>1. CASE AbandonEntry \/ CancelIoc
  BY <1>1, RecordsLeave DEF AbandonEntry, CancelIoc, ReturnToLoop
<1> QED BY <1>1, RecordsMainQuiet, RecordsCreate, RecordsSend, RecordsPlaceMaker,
           RecordsPlaceIoc, RecordsPoll DEF MainStep

LEMMA RecordsMonitor ==
    ASSUME HandshakeOK, RecordsInv, TrackedNext, NEW s \in Signals,
           MonitorStep(s) \/ MonitorStop(s) \/ KeepWatching(s)
    PROVE  RecordsInv'
<1>1. /\ Up /\ UNCHANGED <<pc, sig, orderVars, opened>>
      /\ activePos' \in {activePos, NoSignal}
      /\ \A t \in Signals : t # s => mon'[t] = mon[t]
      /\ mon'[s] = "recordResult" => mon[s] \in ExitPC
  <2> USE DEF MonitorOnly, MonitorAt, mainVars, orderVars, positionVars, HandshakeOK, ControlOK,
              ControlTypeOK, ExitPC
  <2>1. CASE MonitorStop(s) \/ KeepWatching(s) \/ MonitorTick(s) \/ DecideExit(s) \/ BeginExit(s)
    BY <2>1 DEF MonitorStop, KeepWatching, MonitorTick, DecideExit, BeginExit
  <2>2. CASE PlaceExit(s) \/ PollExit(s) \/ CancelExit(s) \/ PlaceReprice(s) \/ PollReprice(s)
             \/ CancelReprice(s)
    BY <2>2 DEF PlaceExit, PollExit, CancelExit, PlaceReprice, PollReprice, CancelReprice
  <2>3. CASE RecordResult(s) \/ LowerOpenFlag(s) \/ ClearPosition(s) \/ ClearCancel(s)
    BY <2>3 DEF RecordResult, LowerOpenFlag, ClearPosition, ClearCancel
  <2> QED BY <2>1, <2>2, <2>3 DEF MonitorStep
<1>2. \/ UNCHANGED exchangeVars
      \/ \E o, side, reduceOnly : Place(o, side, reduceOnly)
      \/ \E o, dead : CancelOrder(o, dead) /\ o \in {ExitId(pos[s]), RepriceId(pos[s])}
  <2>1. CASE PlaceExit(s) \/ PlaceReprice(s)
    BY <2>1, FailedPlace DEF PlaceExit, PlaceReprice
  <2>2. CASE CancelExit(s) \/ CancelReprice(s)
    BY <2>2 DEF CancelExit, CancelReprice
  <2> QED BY <2>1, <2>2 DEF MonitorStep, MonitorStop, KeepWatching, MonitorTick, DecideExit,
             BeginExit, PollExit, PollReprice, RecordResult, LowerOpenFlag, ClearPosition,
             ClearCancel
<1>3. \/ UNCHANGED records
      \/ /\ activePos = s /\ pos[s] = s
         /\ records' = [records EXCEPT ![s].closed = TRUE]
  <2>1. TrackerStep \/ (~Reports /\ UNCHANGED records)
    BY <1>1, TrackerCall
  <2>2. CASE TrackerStep
    <3>1. mon'[s] = "recordResult" /\ RecordClosed(pos[s])
      BY <1>1, <2>2 DEF TrackerStep, From
    <3>2. activePos = s /\ pos[s] = s
      BY <1>1, <3>1 DEF HandshakeOK, ControlOK, MonitorKeepsPosition, Acting
    <3> QED BY <3>1, <3>2 DEF RecordClosed
  <2> QED BY <2>1, <2>2
<1>4. /\ records' \in [Signals -> RecordType]
      /\ \A t \in Signals :
            /\ records'[t].clientOrderId = records[t].clientOrderId
            /\ records'[t].t4 = records[t].t4 /\ records'[t].t5 = records[t].t5
            /\ records'[t].t6 = records[t].t6 /\ records'[t].received = records[t].received
            /\ records'[t].closed => records[t].closed \/ t = activePos
  <2>0. records \in [Signals -> RecordType]
    BY DEF RecordsInv
  <2>1. CASE UNCHANGED records
    BY <2>0, <2>1
  <2>2. CASE activePos = s /\ records' = [records EXCEPT ![s].closed = TRUE]
    <3>1. /\ records'[s] = [records[s] EXCEPT !.closed = TRUE] /\ records[s] \in RecordType
          /\ \A t \in Signals : t # s => records'[t] = records[t]
      BY <2>0, <2>2
    <3>2. records' \in [Signals -> RecordType]
      BY <2>0, <2>2 DEF RecordType
    <3> QED BY <2>2, <3>1, <3>2 DEF RecordType
  <2> QED BY <1>3, <2>1, <2>2
<1>5. ASSUME NEW t \in Signals PROVE RecordOK(t)'
  <2>1. RecordOK(t)
    BY <1>1 DEF RecordsInv
  <2>2. ASSUME Traded(t) PROVE exOrders'[records[t].t6].status = "FILLED"
    <3>1. records[t].t6 \in OrderIds /\ Filled(records[t].t6)
          /\ records[t].t6 \in {MakerId(t), IocId(t)}
      BY <2>1, <2>2, EntryIds DEF RecordOK, HandshakeOK
    <3>2. records[t].t6 \notin {ExitId(pos[s]), RepriceId(pos[s])}
      BY <3>1 DEF MakerId, IocId, ExitId, RepriceId
    <3> QED BY <1>2, <3>1, <3>2, FilledStays DEF HandshakeOK
  <2>3. activePos' = t => activePos = t
    BY <1>1, SignalAssumption
  <2> QED BY <1>1, <1>4, <2>1, <2>2, <2>3
          DEF RecordOK, Traded, MakerId, IocId, Filled, orderVars
<1>6. EntryRecordOK'
  <2>1. sig \in Signals \/ pc \notin EntryPC \cup FilledPC
    BY DEF HandshakeOK, ControlOK, SlotTaken
  <2> QED BY <1>1, <1>4, <2>1
          DEF RecordsInv, EntryRecordOK, EntryPC, OwnOrderPC, FilledPC, Traded, MakerId, IocId,
              orderVars
<1>7. IdsOK'
  BY <1>1 DEF IdsOK, RecordsInv, orderVars
<1> QED BY <1>4, <1>5, <1>6, <1>7 DEF RecordsInv

LEMMA RecordsRest ==
    ASSUME HandshakeOK, RecordsInv, TrackedNext, Up,
           Shutdown \/ ProcessEnds \/ DateChanges \/ ExchangeStep
    PROVE  RecordsInv'
<1>1. UNCHANGED <<sig, mon, orderVars, opened, activePos>>
  BY DEF Shutdown, ProcessEnds, DateChanges, ExchangeStep, Goto, mainVars, orderVars,
         positionVars, monitorVars, historyVars
<1>2. \/ UNCHANGED exchangeVars
      \/ \E o \in OrderIds : Fill(o) \/ Expire(o)
  BY DEF Shutdown, ProcessEnds, DateChanges, ExchangeStep
<1>3. pc' = pc \/ pc' \in {"stopping", "down"}
  BY DEF Shutdown, ProcessEnds, DateChanges, ExchangeStep, Goto, mainVars
<1>4. UNCHANGED records
  BY <1>1, <1>3, TrackerCall DEF TrackerStep, Reports, From
<1>5. IdsOK' /\ \A s \in Signals : RecordOK(s)'
  BY <1>1, <1>2, <1>4, AllStay DEF HandshakeOK, RecordsInv, RecordOK
<1>6. EntryRecordOK'
  BY <1>1, <1>3, <1>4
     DEF RecordsInv, EntryRecordOK, EntryPC, OwnOrderPC, FilledPC, Traded, MakerId, IocId,
         orderVars
<1> QED BY <1>4, <1>5, <1>6 DEF RecordsInv

\* A process that is down has no records, and one that starts has empty ones.
LEMMA RecordsDown ==
    ASSUME HandshakeOK, RecordsInv, TrackedNext, ~Up
    PROVE  RecordsInv'
<1>1. records' = [s \in Signals |-> Unstamped]
  BY TrackedAssumption DEF TrackedNext, Up
<1>2. records' \in [Signals -> RecordType]
  BY <1>1 DEF Unstamped, RecordType, IdOrNone
<1>3. CASE Restart
  <2>1. /\ pc' = "idle" /\ activePos' = NoSignal /\ opened' = {}
        /\ seen' = [s \in Signals |-> NoId]
    BY <1>3 DEF Restart, NewManager
  <2>2. \A s \in Signals : RecordOK(s)'
    BY <1>1, <2>1, SignalAssumption DEF RecordOK, Traded, Unstamped
  <2> QED BY <1>2, <2>1, <2>2
          DEF RecordsInv, IdsOK, EntryRecordOK, EntryPC, OwnOrderPC, FilledPC
<1>4. CASE DateChanges \/ ExchangeStep
  BY <1>2, <1>4 DEF DateChanges, ExchangeStep, RecordsInv, IdsOK, Up, mainVars, orderVars
<1>5. Restart \/ DateChanges \/ ExchangeStep
  <2>1. pc = "down" /\ Next
    BY DEF Up, TrackedNext
  <2> QED BY <2>1 DEF Next, MainStep, Evaluate, CheckMarket, CreateEntryOrder, Submit, PlaceMaker,
         PollMaker, AbandonEntry, CancelMaker, PlaceIoc, PollIoc, CancelIoc, BookTrade,
         RaiseOpenFlag, StorePosition, StartMonitor, ReceiveSignal, MonitorStep, MonitorTick,
         DecideExit, BeginExit, PlaceExit, PollExit, CancelExit, PlaceReprice, PollReprice,
         CancelReprice, RecordResult, LowerOpenFlag, ClearPosition, ClearCancel, MonitorStop,
         KeepWatching, MonitorAt, Shutdown, ProcessEnds, Up
<1> QED BY <1>3, <1>4, <1>5

LEMMA RecordsStep ==
    ASSUME ApartSuffixes, HandshakeOK, RecordsInv, [TrackedNext]_<<vars, records>>
    PROVE  RecordsInv'
<1>1. CASE UNCHANGED <<vars, records>>
  BY <1>1 DEF RecordsInv, IdsOK, EntryRecordOK, RecordOK, Traded, Up, Filled, MakerId, IocId,
     vars, mainVars, orderVars, exchangeVars, positionVars, historyVars
<1>2. CASE TrackedNext /\ Up
  <2>1. ~Restart /\ Next
    BY <1>2, TrackerCall DEF Restart, Up
  <2> QED BY <1>2, <2>1, RecordsReceive, RecordsMain, RecordsMonitor, RecordsRest DEF Next
<1>3. CASE TrackedNext /\ ~Up
  BY <1>3, RecordsDown
<1> QED BY <1>1, <1>2, <1>3

\* Where no two signals share an order id, a trade's order is FILLED in the order
\* manager although the cancel of its probe is a transition the table refuses
\* (entry.go:107), and the stamps of its record (latency.go:89) are all of the
\* one order the exchange filled.
THEOREM RecordsAgreeApart ==
    ASSUME ApartSuffixes
    PROVE  TrackedSpec => []RecordsAgree
<1>1. TrackedInit => HandshakeOK /\ RecordsInv
  <2> SUFFICES ASSUME TrackedInit PROVE HandshakeOK /\ RecordsInv
    OBVIOUS
  <2>1. Init /\ records = [s \in Signals |-> Unstamped]
    BY TrackedAssumption DEF TrackedInit, TrackerInit
  <2>2. records \in [Signals -> RecordType]
    BY <2>1 DEF Unstamped, RecordType, IdOrNone
  <2>3. pc = "idle" /\ activePos = NoSignal /\ opened = {} /\ seen = [s \in Signals |-> NoId]
    BY <2>1 DEF Init, FreshProcess, FreshManager
  <2>4. IdsOK /\ EntryRecordOK
    BY <2>3 DEF IdsOK, EntryRecordOK, EntryPC, OwnOrderPC, FilledPC
  <2>5. \A s \in Signals : RecordOK(s)
    BY <2>1, <2>3, SignalAssumption DEF RecordOK, Traded, Unstamped
  <2> QED BY <2>1, <2>2, <2>4, <2>5, HandshakeInit DEF RecordsInv
<1>2. HandshakeOK /\ RecordsInv /\ [TrackedNext]_<<vars, records>> => HandshakeOK' /\ RecordsInv'
  <2>1. [TrackedNext]_<<vars, records>> => [Next]_vars
    BY DEF TrackedNext
  <2> QED BY <2>1, HandshakeStep, RecordsStep
<1>3. RecordsInv => RecordsAgree
  BY DEF RecordsInv, RecordOK, Traded, RecordsAgree, DeltasMeanSomething, Filled
<1> QED BY <1>1, <1>2, <1>3, PTL DEF TrackedSpec
=============================================================================
