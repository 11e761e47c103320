------------------------- MODULE ExecutionPipeline -------------------------
(***************************************************************************)
(* The signal loop of cmd/scalper/main.go with the pipeline it drives,     *)
(* server/internal/execution/{pipeline,entry,exit}.go.                     *)
(*                                                                         *)
(* One goroutine, main, takes signals and runs ProcessSignal to its end.   *)
(* Every position it opens gets a goroutine running monitorPosition, which *)
(* decides to exit and runs executeExit.  A step below is the code between *)
(* two points where the other goroutine, the clock or the exchange can be  *)
(* noticed: a mutex section of the pipeline, a call of the risk engine, a  *)
(* call of the exchange.                                                   *)
(*                                                                         *)
(* Prices, sizes and latencies only decide which branch is taken, so the   *)
(* branches are taken freely: the gate may refuse any signal, a poll may   *)
(* end at any time, a monitor may find any reason to exit.                 *)
(***************************************************************************)
EXTENDS RiskEngine, Exchange

CONSTANT MaxRestarts   \* bound: how often the process is started again

ASSUME RestartAssumption == MaxRestarts \in Nat

VARIABLES
    pc,             \* where main is
    sig,            \* the signal main is processing
    activePos,      \* Pipeline.activePos: the signal of the position, or nil
    monitorCancel,  \* Pipeline.monitorCancel: whose context it cancels, or nil
    ctxDone,        \* main's context is cancelled
    mon,            \* where the monitor of each signal's position is
    pos,            \* the activePos each monitor last read
    cancelled,      \* the monitor's own context is cancelled
    restarts,
    restartsOn,     \* history: how many of them on each date
    tradesOn,       \* history: trades recorded on each date, by whichever process
    probes,         \* history: maker probes this process sent for each signal
    opened,         \* history: signals this process opened a position for
    settled         \* history: signals whose result this process recorded

mainVars == <<pc, sig>>
positionVars == <<activePos, monitorCancel>>
monitorVars == <<mon, pos, cancelled>>
processVars == <<ctxDone, restarts, restartsOn>>
historyVars == <<tradesOn, probes, opened, settled>>

vars == <<today, riskVars, orderVars, exchangeVars, mainVars, positionVars,
          monitorVars, processVars, historyVars>>

(* ProcessSignal before the entry is filled, and after. *)
EntryPC == {"evaluate", "gate", "createOrder", "submit", "placeMaker",
            "pollMaker", "cancelMaker", "placeIoc", "pollIoc", "cancelIoc"}
FilledPC == {"recordTrade", "setOpen", "storePosition", "startMonitor"}

MainPC == {"idle", "stopping", "down"} \cup EntryPC \cup FilledPC

(* executeExit with its order at the exchange, and after the outcome.     *)
ExitPC == {"placeExit", "pollExit", "cancelExit", "placeReprice",
           "pollReprice", "cancelReprice", "recordResult"}

MonitorPC == {"none", "watching", "deciding", "beginExit", "setClosed",
              "clearPosition", "clearCancel", "returned"} \cup ExitPC

TypeOK ==
    /\ today \in Days
    /\ RiskTypeOK
    /\ OrdersTypeOK
    /\ ExchangeTypeOK
    /\ pc \in MainPC
    /\ sig \in Signals \cup {NoSignal}
    /\ activePos \in Signals \cup {NoSignal}
    /\ monitorCancel \in Signals \cup {NoSignal}
    /\ ctxDone \in BOOLEAN
    /\ mon \in [Signals -> MonitorPC]
    /\ pos \in [Signals -> Signals \cup {NoSignal}]
    /\ cancelled \in [Signals -> BOOLEAN]
    /\ restarts \in Nat
    /\ restartsOn \in [Days -> Nat]
    /\ tradesOn \in [Days -> Nat]
    /\ probes \in [Signals -> Nat]
    /\ opened \subseteq Signals
    /\ settled \subseteq Signals

(* The memory of a process that has just started. *)
FreshProcess ==
    /\ FreshEngine
    /\ FreshManager
    /\ pc = "idle"
    /\ sig = NoSignal
    /\ activePos = NoSignal
    /\ monitorCancel = NoSignal
    /\ ctxDone = FALSE
    /\ mon = [s \in Signals |-> "none"]
    /\ pos = [s \in Signals |-> NoSignal]
    /\ cancelled = [s \in Signals |-> FALSE]
    /\ probes = [s \in Signals |-> 0]
    /\ opened = {}
    /\ settled = {}

Init ==
    /\ FreshProcess
    /\ ExchangeInit
    /\ today = 0
    /\ restarts = 0
    /\ restartsOn = [d \in Days |-> 0]
    /\ tradesOn = [d \in Days |-> 0]

-----------------------------------------------------------------------------
(* Main: the select loop and ProcessSignal.  main's context is cancelled by  *)
(* main itself, after its last signal, so its own calls never see it done.  *)

Goto(next) == pc' = next /\ UNCHANGED sig

ReturnToLoop == pc' = "idle" /\ sig' = NoSignal

MainOnly ==   \* what main leaves alone unless it stores the position
    UNCHANGED <<today, positionVars, monitorVars, processVars>>

(* Mutant of ReceiveSignal: the loop does not ask HasActivePosition. *)
ReceiveSignalUnguarded(s) ==
    /\ pc = "idle"
    /\ pc' = "evaluate"
    /\ sig' = s
    /\ MainOnly
    /\ UNCHANGED <<riskVars, orderVars, exchangeVars, historyVars>>

(* The loop takes a signal, any signal again and again, and turns it away
   while a position is active. *)
ReceiveSignal(s) ==
    /\ pc = "idle"
    /\ activePos = NoSignal
    /\ pc' = "evaluate"
    /\ sig' = s
    /\ MainOnly
    /\ UNCHANGED <<riskVars, orderVars, exchangeVars, historyVars>>

(* Step 2 of ProcessSignal. *)
Evaluate ==
    /\ pc = "evaluate"
    /\ EvaluateSignal
    /\ IF Allowed THEN Goto("gate") ELSE ReturnToLoop
    /\ MainOnly
    /\ UNCHANGED <<orderVars, exchangeVars, historyVars>>

(* Steps 3 to 5: no book, a refusal of the gate, no balance or no valid
   quantity end the attempt. *)
CheckMarket ==
    /\ pc = "gate"
    /\ Goto("createOrder") \/ ReturnToLoop
    /\ MainOnly
    /\ UNCHANGED <<riskVars, orderVars, exchangeVars, historyVars>>

CreateEntryOrder ==
    /\ pc = "createOrder"
    /\ \/ CreateOrder(sig) /\ Goto("submit")
       \/ Duplicate(sig) /\ ReturnToLoop /\ UNCHANGED orderVars
    /\ MainOnly
    /\ UNCHANGED <<riskVars, exchangeVars, historyVars>>

Submit ==
    /\ pc = "submit"
    /\ UpdateState(seen[sig], "SUBMITTING")
    /\ Goto("placeMaker")
    /\ MainOnly
    /\ UNCHANGED <<riskVars, exchangeVars, historyVars>>

(* Mutant of PlaceMaker: the error of PlaceOrder is dropped. *)
PlaceMakerUnchecked ==
    /\ pc = "placeMaker"
    /\ \/ PlaceAcked(MakerId(sig), Side[sig], FALSE, FALSE)
       \/ PlaceFailed(MakerId(sig), Side[sig], FALSE, FALSE)
    /\ UpdateState(seen[sig], "ACKED")
    /\ Goto("pollMaker")
    /\ probes' = [probes EXCEPT ![sig] = @ + 1]
    /\ MainOnly
    /\ UNCHANGED <<riskVars, tradesOn, opened, settled>>

PlaceMaker ==
    /\ pc = "placeMaker"
    /\ \/ /\ PlaceAcked(MakerId(sig), Side[sig], FALSE, FALSE)
          /\ UpdateState(seen[sig], "ACKED")
          /\ Goto("pollMaker")
       \/ /\ PlaceFailed(MakerId(sig), Side[sig], FALSE, FALSE)
          /\ UpdateState(seen[sig], "REJECTED")
          /\ ReturnToLoop
    /\ probes' = [probes EXCEPT ![sig] = @ + 1]
    /\ MainOnly
    /\ UNCHANGED <<riskVars, tradesOn, opened, settled>>

(* Mutants of PollGivesUp: the deadline is checked before the first query, or
   is not checked at all. *)
PollGivesUpUnasked(o) == TRUE
PollGivesUpNever(o) == exOrders[o].status = "CANCELLED"

(* pollOrderFill gives up when the order is seen dead, or when the window is
   over; a fill later than the last query goes unnoticed. *)
PollGivesUp(o) == ~Instant \/ exOrders[o].status = "CANCELLED"

(* Mutant of MarkFilled: the exchange's word is stored, not a model state. *)
MarkFilledRaw(s) ==
    /\ orders' = [orders EXCEPT ![seen[s]] = "COMPLETED"]
    /\ UNCHANGED seen

(* The order's status is written through the pointer, past the table. *)
MarkFilled(s) ==
    /\ orders' = [orders EXCEPT ![seen[s]] = "FILLED"]
    /\ UNCHANGED seen

PollMaker ==
    /\ pc = "pollMaker"
    /\ \/ Filled(MakerId(sig)) /\ MarkFilled(sig) /\ Goto("recordTrade")
       \/ PollGivesUp(MakerId(sig)) /\ Goto("cancelMaker") /\ UNCHANGED orderVars
    /\ MainOnly
    /\ UNCHANGED <<riskVars, exchangeVars, historyVars>>

(* The entry window is exhausted: cancel and return the error. *)
AbandonEntry ==
    /\ pc = "cancelMaker"
    /\ CancelOrder(MakerId(sig), FALSE)
    /\ ReturnToLoop
    /\ MainOnly
    /\ UNCHANGED <<riskVars, orderVars, historyVars>>

(* Cancel, whatever comes of it, and go on to the aggressive order. *)
CancelMaker ==
    /\ pc = "cancelMaker"
    /\ CancelOrder(MakerId(sig), FALSE)
    /\ UpdateState(seen[sig], "CANCELLED")
    /\ Goto("placeIoc")
    /\ MainOnly
    /\ UNCHANGED <<riskVars, historyVars>>

PlaceIoc ==
    /\ pc = "placeIoc"
    /\ \/ PlaceAcked(IocId(sig), Side[sig], FALSE, FALSE) /\ Goto("pollIoc")
       \/ PlaceFailed(IocId(sig), Side[sig], FALSE, FALSE) /\ ReturnToLoop
    /\ MainOnly
    /\ UNCHANGED <<riskVars, orderVars, historyVars>>

PollIoc ==
    /\ pc = "pollIoc"
    /\ \/ Filled(IocId(sig)) /\ MarkFilled(sig) /\ Goto("recordTrade")
       \/ PollGivesUp(IocId(sig)) /\ Goto("cancelIoc") /\ UNCHANGED orderVars
    /\ MainOnly
    /\ UNCHANGED <<riskVars, exchangeVars, historyVars>>

CancelIoc ==
    /\ pc = "cancelIoc"
    /\ CancelOrder(IocId(sig), FALSE)
    /\ ReturnToLoop
    /\ MainOnly
    /\ UNCHANGED <<riskVars, orderVars, historyVars>>

(* Step 7: the fill is booked, the guard flag raised, the position stored
   and its monitor started, each under a lock of its own. *)
BookTrade ==
    /\ pc = "recordTrade"
    /\ RecordTradeByClock
    /\ tradesOn' = [tradesOn EXCEPT ![today'] = @ + 1]
    /\ opened' = opened \cup {sig}
    /\ Goto("setOpen")
    /\ UNCHANGED <<orderVars, exchangeVars, positionVars, monitorVars,
                   processVars, probes, settled>>

RaiseOpenFlag ==
    /\ pc = "setOpen"
    /\ SetPositionOpen(TRUE)
    /\ Goto("storePosition")
    /\ MainOnly
    /\ UNCHANGED <<orderVars, exchangeVars, historyVars>>

StorePosition ==
    /\ pc = "storePosition"
    /\ activePos' = sig
    /\ Goto("startMonitor")
    /\ UNCHANGED <<today, riskVars, orderVars, exchangeVars, monitorCancel,
                   monitorVars, processVars, historyVars>>

StartMonitor ==
    /\ pc = "startMonitor"
    /\ monitorCancel' = sig
    /\ mon' = [mon EXCEPT ![sig] = "watching"]
    /\ ReturnToLoop
    /\ UNCHANGED <<today, riskVars, orderVars, exchangeVars, activePos, pos,
                   cancelled, processVars, historyVars>>

MainStep ==
    \/ Evaluate \/ CheckMarket \/ CreateEntryOrder \/ Submit
    \/ PlaceMaker \/ PollMaker \/ AbandonEntry \/ CancelMaker
    \/ PlaceIoc \/ PollIoc \/ CancelIoc
    \/ BookTrade \/ RaiseOpenFlag \/ StorePosition \/ StartMonitor

-----------------------------------------------------------------------------
(* monitorPosition and executeExit, for the position of signal s.          *)

Up == pc # "down"

MonitorAt(s, here, next) ==
    /\ Up
    /\ mon[s] = here
    /\ mon' = [mon EXCEPT ![s] = next]

MonitorOnly ==
    UNCHANGED <<today, mainVars, orderVars, processVars, tradesOn, probes, opened>>

ContextDone(s) == ctxDone \/ cancelled[s]

(* select may pick the tick even though the context is done. *)
MonitorStop(s) ==
    /\ ContextDone(s)
    /\ MonitorAt(s, "watching", "returned")
    /\ MonitorOnly
    /\ UNCHANGED <<riskVars, exchangeVars, positionVars, pos, cancelled, settled>>

MonitorTick(s) ==
    /\ \/ activePos # NoSignal /\ MonitorAt(s, "watching", "deciding")
       \/ activePos = NoSignal /\ MonitorAt(s, "watching", "returned")
    /\ pos' = [pos EXCEPT ![s] = activePos]
    /\ MonitorOnly
    /\ UNCHANGED <<riskVars, exchangeVars, positionVars, cancelled, settled>>

(* Update BestPnL and go through the exit conditions: none holds. *)
KeepWatching(s) ==
    /\ MonitorAt(s, "deciding", "watching")
    /\ MonitorOnly
    /\ UNCHANGED <<riskVars, exchangeVars, positionVars, pos, cancelled, settled>>

(* ... or one holds, and executeExit is called. *)
DecideExit(s) ==
    /\ MonitorAt(s, "deciding", "beginExit")
    /\ MonitorOnly
    /\ UNCHANGED <<riskVars, exchangeVars, positionVars, pos, cancelled, settled>>

(* executeExit reads activePos again. *)
BeginExit(s) ==
    /\ \/ activePos # NoSignal /\ MonitorAt(s, "beginExit", "placeExit")
       \/ activePos = NoSignal /\ MonitorAt(s, "beginExit", "returned")
    /\ pos' = [pos EXCEPT ![s] = activePos]
    /\ MonitorOnly
    /\ UNCHANGED <<riskVars, exchangeVars, positionVars, cancelled, settled>>

(* An error here ends executeExit, and with it the monitor. *)
PlaceExit(s) ==
    /\ \/ /\ MonitorAt(s, "placeExit", "pollExit")
          /\ PlaceAcked(ExitId(pos[s]), -Side[pos[s]], TRUE, ContextDone(s))
       \/ /\ MonitorAt(s, "placeExit", "returned")
          /\ PlaceFailed(ExitId(pos[s]), -Side[pos[s]], TRUE, ContextDone(s))
    /\ MonitorOnly
    /\ UNCHANGED <<riskVars, positionVars, pos, cancelled, settled>>

PollExit(s) ==
    /\ \/ MonitorAt(s, "pollExit", "recordResult") /\ Filled(ExitId(pos[s]))
       \/ MonitorAt(s, "pollExit", "cancelExit") /\ PollGivesUp(ExitId(pos[s]))
       \/ MonitorAt(s, "pollExit", "returned") /\ ContextDone(s)
    /\ MonitorOnly
    /\ UNCHANGED <<riskVars, exchangeVars, positionVars, pos, cancelled, settled>>

CancelExit(s) ==
    /\ MonitorAt(s, "cancelExit", "placeReprice")
    /\ CancelOrder(ExitId(pos[s]), ContextDone(s))
    /\ MonitorOnly
    /\ UNCHANGED <<riskVars, positionVars, pos, cancelled, settled>>

(* Mutant of PlaceReprice: the repriced order is not reduce-only. *)
PlaceRepriceOpening(s) ==
    /\ \/ /\ MonitorAt(s, "placeReprice", "pollReprice")
          /\ PlaceAcked(RepriceId(pos[s]), -Side[pos[s]], FALSE, ContextDone(s))
       \/ /\ MonitorAt(s, "placeReprice", "recordResult")
          /\ PlaceFailed(RepriceId(pos[s]), -Side[pos[s]], FALSE, ContextDone(s))
    /\ MonitorOnly
    /\ UNCHANGED <<riskVars, positionVars, pos, cancelled, settled>>

(* Mutant of PlaceReprice: a failed reprice is sent again at once. *)
PlaceRepriceInsisting(s) ==
    /\ \/ /\ MonitorAt(s, "placeReprice", "pollReprice")
          /\ PlaceAcked(RepriceId(pos[s]), -Side[pos[s]], TRUE, ContextDone(s))
       \/ /\ MonitorAt(s, "placeReprice", "placeReprice")
          /\ PlaceFailed(RepriceId(pos[s]), -Side[pos[s]], TRUE, ContextDone(s))
    /\ MonitorOnly
    /\ UNCHANGED <<riskVars, positionVars, pos, cancelled, settled>>

(* A failed reprice is only logged. *)
PlaceReprice(s) ==
    /\ \/ /\ MonitorAt(s, "placeReprice", "pollReprice")
          /\ PlaceAcked(RepriceId(pos[s]), -Side[pos[s]], TRUE, ContextDone(s))
       \/ /\ MonitorAt(s, "placeReprice", "recordResult")
          /\ PlaceFailed(RepriceId(pos[s]), -Side[pos[s]], TRUE, ContextDone(s))
    /\ MonitorOnly
    /\ UNCHANGED <<riskVars, positionVars, pos, cancelled, settled>>

PollReprice(s) ==
    /\ \/ MonitorAt(s, "pollReprice", "recordResult") /\ Filled(RepriceId(pos[s]))
       \/ /\ MonitorAt(s, "pollReprice", "cancelReprice")
          /\ PollGivesUp(RepriceId(pos[s])) \/ ContextDone(s)
    /\ MonitorOnly
    /\ UNCHANGED <<riskVars, exchangeVars, positionVars, pos, cancelled, settled>>

(* Mutant of CancelReprice: the stuck exit is closed without a result. *)
CancelRepriceUnbooked(s) ==
    /\ MonitorAt(s, "cancelReprice", "setClosed")
    /\ CancelOrder(RepriceId(pos[s]), ContextDone(s))
    /\ MonitorOnly
    /\ UNCHANGED <<riskVars, positionVars, pos, cancelled, settled>>

CancelReprice(s) ==
    /\ MonitorAt(s, "cancelReprice", "recordResult")
    /\ CancelOrder(RepriceId(pos[s]), ContextDone(s))
    /\ MonitorOnly
    /\ UNCHANGED <<riskVars, positionVars, pos, cancelled, settled>>

(* Filled or not, the exit is booked: a loss or a win by the last price. *)
RecordResult(s) ==
    /\ MonitorAt(s, "recordResult", "setClosed")
    /\ RecordStopLoss \/ RecordWin
    /\ settled' = settled \cup {pos[s]}
    /\ MonitorOnly
    /\ UNCHANGED <<exchangeVars, positionVars, pos, cancelled>>

(* Mutant of LowerOpenFlag: the flag is forgotten. *)
LowerOpenFlagForgotten(s) ==
    /\ MonitorAt(s, "setClosed", "clearPosition")
    /\ MonitorOnly
    /\ UNCHANGED <<riskVars, exchangeVars, positionVars, pos, cancelled, settled>>

LowerOpenFlag(s) ==
    /\ MonitorAt(s, "setClosed", "clearPosition")
    /\ SetPositionOpen(FALSE)
    /\ MonitorOnly
    /\ UNCHANGED <<exchangeVars, positionVars, pos, cancelled, settled>>

ClearPosition(s) ==
    /\ MonitorAt(s, "clearPosition", "clearCancel")
    /\ activePos' = NoSignal
    /\ MonitorOnly
    /\ UNCHANGED <<riskVars, exchangeVars, monitorCancel, pos, cancelled, settled>>

(* Mutant of ClearCancel: the position is cleared again in this section. *)
ClearCancelAndPosition(s) ==
    /\ MonitorAt(s, "clearCancel", "returned")
    /\ cancelled' = [t \in Signals |-> cancelled[t] \/ t = monitorCancel]
    /\ monitorCancel' = NoSignal
    /\ activePos' = NoSignal
    /\ MonitorOnly
    /\ UNCHANGED <<riskVars, exchangeVars, pos, settled>>

(* Whatever monitorCancel holds by now is called. *)
ClearCancel(s) ==
    /\ MonitorAt(s, "clearCancel", "returned")
    /\ cancelled' = [t \in Signals |-> cancelled[t] \/ t = monitorCancel]
    /\ monitorCancel' = NoSignal
    /\ MonitorOnly
    /\ UNCHANGED <<riskVars, exchangeVars, activePos, pos, settled>>

MonitorStep(s) ==
    \/ MonitorTick(s) \/ DecideExit(s) \/ BeginExit(s)
    \/ PlaceExit(s) \/ PollExit(s) \/ CancelExit(s)
    \/ PlaceReprice(s) \/ PollReprice(s) \/ CancelReprice(s)
    \/ RecordResult(s) \/ LowerOpenFlag(s) \/ ClearPosition(s) \/ ClearCancel(s)

-----------------------------------------------------------------------------
(* The operating system, the clock and the exchange.                       *)

(* SIGINT or SIGTERM is noticed by the select only, never inside
   ProcessSignal; the process ends when the other components have stopped. *)
Shutdown ==
    /\ pc = "idle"
    /\ pc' = "stopping"
    /\ ctxDone' = TRUE
    /\ UNCHANGED <<today, sig, riskVars, orderVars, exchangeVars, positionVars,
                   monitorVars, restarts, restartsOn, historyVars>>

(* main returns, or the process is killed: every goroutine is gone. *)
ProcessEnds ==
    /\ pc = "stopping" \/ (Up /\ restarts < MaxRestarts)
    /\ Goto("down")
    /\ UNCHANGED <<today, riskVars, orderVars, exchangeVars, positionVars,
                   monitorVars, processVars, historyVars>>

(* A new process has nothing of the memory of the old one; BingX keeps its
   orders and the position, PaperClient does not. *)
Restart ==
    /\ pc = "down"
    /\ restarts < MaxRestarts
    /\ restarts' = restarts + 1
    /\ restartsOn' = [restartsOn EXCEPT ![today] = @ + 1]
    /\ NewEngine
    /\ NewManager
    /\ ExchangeRestart
    /\ pc' = "idle"
    /\ sig' = NoSignal
    /\ activePos' = NoSignal
    /\ monitorCancel' = NoSignal
    /\ ctxDone' = FALSE
    /\ mon' = [s \in Signals |-> "none"]
    /\ pos' = [s \in Signals |-> NoSignal]
    /\ cancelled' = [s \in Signals |-> FALSE]
    /\ probes' = [s \in Signals |-> 0]
    /\ opened' = {}
    /\ settled' = {}
    /\ UNCHANGED <<today, tradesOn>>

DateChanges ==
    /\ Midnight
    /\ UNCHANGED <<riskVars, orderVars, exchangeVars, mainVars, positionVars,
                   monitorVars, processVars, historyVars>>

ExchangeStep ==
    /\ \E o \in OrderIds : Fill(o) \/ Expire(o)
    /\ UNCHANGED <<today, riskVars, orderVars, mainVars, positionVars,
                   monitorVars, processVars, historyVars>>

Next ==
    \/ \E s \in Signals : ReceiveSignal(s)
    \/ MainStep
    \/ \E s \in Signals : MonitorStep(s) \/ MonitorStop(s) \/ KeepWatching(s)
    \/ Shutdown
    \/ ProcessEnds
    \/ Restart
    \/ DateChanges
    \/ ExchangeStep

Spec == Init /\ [][Next]_vars

(***************************************************************************)
(* Fairness.  The scheduler runs every goroutine; every call of the        *)
(* exchange has a timeout and every poll a deadline, so main and a monitor *)
(* that can go on do.  A monitor may find no reason to exit many times,    *)
(* but not for ever: the position's age passes MaxTradeDurationMs          *)
(* (exit.go:121).  Nothing is assumed of signals, clock or exchange.       *)
(***************************************************************************)
Fairness ==
    /\ WF_vars(MainStep)
    /\ \A s \in Signals : WF_vars(MonitorStep(s)) /\ SF_vars(DecideExit(s))

FairSpec == Spec /\ Fairness

-----------------------------------------------------------------------------
(* A monitor that may still act on the position.                           *)
Acting == {"watching", "deciding", "beginExit", "setClosed", "clearPosition"}
              \cup ExitPC

\* Main placing an entry, and a monitor that may place an exit or write the
\* results, exclude each other, and so do two monitors; nothing but the
\* activePos handshake between main.go:234 and exit.go:342 provides for it.
TradingExcluded ==
    /\ pc \in EntryPC \cup FilledPC => \A s \in Signals : mon[s] \notin Acting
    /\ \A s, t \in Signals : mon[s] \in Acting /\ mon[t] \in Acting => s = t

\* A monitor finds, at every one of its reads of activePos, the position it
\* was started for: exit.go:66 never dereferences nil, and executeExit, which
\* reads activePos again, closes and books no other position.
MonitorKeepsPosition ==
    \A s \in Signals :
        /\ mon[s] \in Acting => activePos = s
        /\ mon[s] \in ExitPC \cup {"setClosed", "clearPosition"} => pos[s] = s

\* The risk engine's flag and the pipeline's pointer say the same, except
\* between the two writes of pipeline.go:291-313 and of exit.go:338-342, where
\* the flag is already ahead.
FlagFollowsPosition ==
    Up => (hasOpenPosition <=>
        \/ pc = "storePosition"
        \/ activePos # NoSignal /\ mon[activePos] # "clearPosition")

\* A process makes no more than MaxDailyTrades trades on a calendar date, though
\* the limit is checked before the entry and the trade is counted after it,
\* maybe on the next date.  The counter dies with the process, so that is all a
\* date can be promised: the limit once, and once more for every restart on it,
\* where README.md:146 and docs/architecture.md:67 speak of the day.
DailyTradeLimit == \A d \in Days : tradesOn[d] <= MaxDailyTrades * (1 + restartsOn[d])

\* However often the EA delivers a signal, the process sends one probe for it;
\* and though two signals may share the client order id of their probes, no two
\* trades do, at an exchange that refuses an id in use.
OneProbePerTrade ==
    /\ \A s \in Signals : probes[s] <= 1
    /\ ~Instant => \A s, t \in opened : seen[s] = seen[t] => s = t

\* A trade whose result the risk engine has not been told is the active
\* position, or the one main is about to store: no result is skipped while
\* the process lives.
UnsettledIsActive ==
    Up => \A s \in opened \ settled :
        \/ s = activePos
        \/ s = sig /\ pc \in FilledPC

Unsettled == opened # settled

\* The day's stop losses never exceed the day's trades by more than the one
\* loss of a position carried over midnight, and a loss still to come has its
\* place in that bound.
LossesMatchTrades ==
    dailyStopLossCount + (IF Unsettled THEN 1 ELSE 0) <= dailyTradeCount + 1

\* A halt always carries the date that will end it: maybeResetDaily ignores
\* an engine with no date, so a halt without one would outlast the day.
HaltHasDate == ~tradingEnabled => lastTradeDate # NoDate

\* An exit order, first or repriced, only ever brings the account nearer to
\* flat, even when both of them fill.
ExitsOnlyReduce ==
    [][\A s \in Signals : \A o \in {ExitId(s), RepriceId(s)} :
          exOrders'[o].filled > exOrders[o].filled =>
              \/ 0 <= exposure' /\ exposure' < exposure
              \/ 0 >= exposure' /\ exposure' > exposure]_vars

-----------------------------------------------------------------------------
(* The exchange's side of the promise.                                     *)

Abs(n) == IF n < 0 THEN -n ELSE n

\* "Only ONE position can be open at a time" (pipeline.go:24, README.md:149):
\* the account never holds more than one order's worth.
OnePosition == Abs(exposure) <= Lot

\* "HasActivePosition returns true if there is currently an open position"
\* (pipeline.go:346), asked where main.go asks it, between two signals.
HasActivePositionTruthful ==
    pc = "idle" /\ activePos = NoSignal => exposure = 0

\* "When the position is closed, we cancel this to stop the monitor"
\* (pipeline.go:100-101): a monitor is not cancelled while its own position
\* is still the active one.
CancelledWhenClosed == \A s \in Signals : cancelled[s] => activePos # s

\* "executeExit closes the active position by placing a reduce-only limit
\* order" (exit.go:195): when it has cleared the position, one of its two
\* orders was filled.
ClearedMeansExited ==
    \A s \in Signals :
        mon[s] = "clearCancel" => Filled(ExitId(s)) \/ Filled(RepriceId(s))

-----------------------------------------------------------------------------
\* Main is never stuck in an entry: it comes back to its loop, whatever the
\* exchange answers or does not answer.
EntryEnds == pc \in EntryPC \cup FilledPC ~> pc \in {"idle", "down"}

\* A monitor ends, by an exit, an error or its context; it does not poll or
\* wait for ever, even while the exchange fills nothing.
MonitorEnds == \A s \in Signals : mon[s] = "watching" ~> mon[s] = "returned" \/ pc = "down"

-----------------------------------------------------------------------------
(* The trading slot of TradeLifecycle, read off the pipeline's state.      *)
Closing(s) == mon[s] \in {"setClosed", "clearPosition"}

SlotStage ==
    IF activePos # NoSignal
    THEN IF Closing(activePos) THEN "settled" ELSE "open"
    ELSE IF pc \in {"setOpen", "storePosition"} THEN "open"
    ELSE IF pc \in EntryPC \cup {"recordTrade"} THEN "entering"
    ELSE "free"

SlotHolder == IF activePos # NoSignal THEN activePos ELSE sig

Slot == INSTANCE TradeLifecycle WITH
            stage <- SlotStage, holder <- SlotHolder,
            traded <- opened, booked <- settled

\* The pipeline implements the one-slot lifecycle of TradeLifecycle.
SlotSpec == Slot!Spec
=============================================================================
