# Verification of the BTC scalper execution server

The program is an automated BTC trader: an expert advisor in MetaTrader 5 finds
signals and sends them over TCP to a Go server, which risk-checks them, enters a
position at BingX with limit orders, watches the position and exits it. This
directory holds TLA+ modules that model the server's behaviour, TLC
configurations that check them on small instances, and proofs that TLAPS checks
for all values of the constants.

## 1. The system

| Component (source under `src/`) | State | Operations | Interacts with |
|---|---|---|---|
| Signal loop, `server/cmd/scalper/main.go` | the signal in hand, the root context | select over signals, SIGINT/SIGTERM; position guard; shutdown | takes from the bridge's channel, calls the pipeline synchronously |
| Pipeline, `server/internal/execution` | `activePos`, `monitorCancel` under a mutex; one monitor goroutine per position | `ProcessSignal`, `executeEntry`, `monitorPosition`, `executeExit`, `HasActivePosition` | risk engine, order manager, exchange client, market data, gate, quantity |
| Risk engine, `server/internal/risk` | daily counters, risk level, halt, flag, date, kill switch, one mutex | `EvaluateSignal`, `RecordTrade`, `RecordStopLoss`, `RecordWin`, `ResetDaily`, `SetPositionOpen`, `SetKillSwitch` | called by main and by the monitors |
| Order manager, `server/internal/orders`, `model/order.go` | map of orders, map of seen signals, one mutex | `CreateOrder`, `UpdateState`, transition table, id generation | called by the entry path |
| Exchange client, `server/internal/bingx` | live: none but the HTTP client; paper: orders, positions, balance | `PlaceOrder`, `CancelOrder`, `GetOrder`, positions, balance | BingX, outside the repository |
| Market data, `bingx/ws_realtime.go` | latest book; channel of books | connect and reconnect loop, `LatestBook`, `BookChan` | read by pipeline, monitor and price feed |
| Strategy gate, `strategygate` | none | `Validate` | called by `ProcessSignal` |
| Quantity, `quantity` | none | `Calculate` | called by `ProcessSignal` |
| Bridge server, `bridge/server.go` | connection counter, signal channel, stop | accept, handle, ACK, stop | the EA on one side, main on the other |
| Price feed, `bridge/pricefeed.go` | client map | accept, broadcast, stop | the price feeder EA |
| Event writer, `storage/async_writer.go` | buffered channel | `Write`, drain goroutine, `Stop` | called by main |
| Monitoring, `monitoring` | latency records, counters; gauges and windows nobody writes | `RecordSignalReceived`, `RecordOrderSent`, `RecordOrderAcked`, `RecordFill`, `RecordClosed` | called by pipeline and main |
| Expert advisors, `mt5` | signal sequence, feature ring buffer, socket | send and await ACK, heartbeat, kill switch key | the bridge |

**What is hard here.** The pipeline holds its lock for single reads and writes
only, so everything that matters happens between two critical sections: main
guards on `activePos` long before it stores it; a monitor reads `activePos`
three times in one exit and clears two pointers in two sections; the flag of the
risk engine is a copy of the pointer, written at other moments. The exchange
answers late, not at all, or with an error after having accepted the order, and
the entry path polls it for a bounded time and then cancels without looking at
what became of the order. Midnight UTC may fall between any two calls of the
risk engine, also between evaluating a signal and sizing its order. The
quantity is floored, compared, capped and floored again; the trailing stop may
climb several steps at once and shares its profit with three other exit
conditions and two timers. Each order of an entry has its own stamps in one
record, found by order id. Nothing is persisted, so a restart forgets the
position. On the
intake side a signal is acknowledged before it is queued, a connection may break
or time out with lines under way, and Stop closes a channel that many goroutines
send on. The event writer and the price feed must lose and reorder only what
they are meant to, with a slow disk or a terminal that stops reading. The
hazards, each at its line and with the properties that watch it, are the
"hazards" of `PROJECT.json`.

**What makes each component correct.** Pipeline: one actor trades at a time, one
position at a time, every trade settled exactly once, every poll ends. Risk
engine: flag, level and counters agree, no process makes more trades on a date
than the limit, a halt lasts for its day and not longer. Gate and quantity: no order risks more
than its day's percentage. Monitor: a watched position is above every lock it
reached and is decided on in the end. Order manager: one entry order per
signal, no state outside the table. Exits: they only ever reduce the account.
Paper account: positions and balance add up. Latency records: the stamps of a
record are of one order.
Bridge: an acknowledged signal reaches main, once; the connection limit is
neither passed nor leaked; Stop returns and nothing is sent on the closed
channel. Event writer: what found room in the channel reaches the file, in
order, through every shutdown. Market data and price feed: the newest book is
never the one dropped, nobody goes back in time, a stuck terminal holds up the
feed and not the book.

## 2. The modules

| Module | Models | Uses |
|---|---|---|
| `Calendar` | the UTC date and midnight | |
| `RiskEngine` | state and methods of `risk/engine.go` | `Calendar` |
| `RiskEngineApi` | every method, any order, midnight anywhere | `RiskEngine` |
| `Sizing` | `strategygate/gate.go` and `quantity/calculator.go`, as operators | |
| `PositionMonitor` | `monitorPosition` and `checkTrailingStop` of `exit.go`, with prices and timers | `Sizing` |
| `RiskedTrade` | one trade after another: signal, gate, size, entry, monitor, exit, with prices | `RiskEngineApi`, `PositionMonitor` |
| `OrderManager` | `orders/manager.go`, `idgen.go`, the table of `model/order.go` | `Calendar` |
| `Exchange` | BingX as `execution/*.go` sees it through `bingx.Client` | `OrderManager` |
| `ExecutionPipeline` | `main.go`'s loop, `pipeline.go`, `entry.go`, `exit.go`, composed with the three above | `RiskEngine`, `Exchange` |
| `PaperExchange` | positions and balance of `bingx/paper.go` | |
| `PaperTrading` | the pipeline in paper mode | `ExecutionPipeline`, `PaperExchange` |
| `LatencyTracker` | the records of `monitoring/latency.go` | |
| `TrackedPipeline` | the pipeline and the tracker it reports to | `ExecutionPipeline`, `LatencyTracker` |
| `TradeLifecycle` | abstract: what the pipeline promises about its one trading slot | |
| `BridgeLink` | TCP connections as both ends of the bridge see them (external) | |
| `BridgeServer` | `bridge/server.go` | `BridgeLink` |
| `SignalSender` | the EA's end: `BridgeClient.mqh` and the handlers of `BTC_Scalper_Signal.mq5` | `BridgeServer` |
| `SignalIntake` | EA, bridge and `main.go`'s select and shutdown together | `SignalSender` |
| `SignalDelivery` | abstract: what the bridge promises about a signal | |
| `AsyncWriter` | `storage/async_writer.go` with main as its caller | |
| `LossyLog` | abstract: an event log that may lose and never reorders | |
| `MarketData` | `bingx/ws_realtime.go` | |
| `PriceFeed` | `bridge/pricefeed.go` and main's forwarder | `MarketData` |
| `MarketFeed` | BingX to the terminals, together | `PriceFeed` |
| `MCRiskEngineApi`, `MCExecutionPipeline`, `MCPaperTrading`, `MCTrackedPipeline`, `MCSignalIntake`, `MCAsyncWriter`, `MCMarketFeed` | TLC instances | |
| `RiskEngineProofs`, `RiskedTradeProofs`, `ExecutionPipelineProofs`, `PipelineBooksProofs`, `PaperTradingProofs`, `SignalIntakeProofs`, `AsyncWriterProofs`, `MarketFeedProofs` | proofs | |

The pipeline, the intake, the writer and the feed are separate specifications:
they meet in `main` only, which hands over a signal, an event or a tick and is
modelled on each side as far as that side can tell. In `SignalIntake` main is
"busy" for as long as `ProcessSignal` lasts; in `ExecutionPipeline` a signal may
arrive whenever main is at its select.

The pipeline itself is modelled twice, because its two kinds of difficulty
multiply: `ExecutionPipeline` has goroutines, orders and failures and chooses
the data freely; `RiskedTrade` has prices, sizes, trailing steps and time, runs
one trade at a time and chooses the outcome of the orders freely.

### How the state corresponds to the code

*Main.* `pc` is the place of the main goroutine inside `ProcessSignal` and
`executeEntry`, `sig` the signal it works on. A value of `pc` names the next
point at which another goroutine, the clock or the exchange can be noticed: a
critical section of the pipeline, a call of the risk engine, a call of the
exchange. The code between two such points touches nothing shared and belongs to
the step before it.

*Monitors.* `mon[s]` is the place of the goroutine that watches the position of
signal `s`, `pos[s]` the `activePos` it last read, `cancelled[s]` its own
context. `monitorCancel` holds the signal whose context the stored function
cancels. A signal gets at most one monitor in a process, because the order
manager refuses it the second time, so monitors are indexed by signals.

*Select.* Go's `select` chooses freely among ready cases: `MonitorTick` stays
enabled when the context is done, and so does `MonitorStop`.

*Shutdown.* `main` cancels its context itself, after leaving the loop; it can
therefore never be inside `ProcessSignal` when the context is cancelled, and the
entry calls of `Exchange` are made with a live context. The monitors may be
anywhere, and their calls then fail before or after the request went out.
`main` does not wait for them: `ProcessEnds` stops everything.

*Crash.* With `MaxRestarts > 0` the process may be killed at any point; `Restart`
starts it with empty memory on the exchange state it left. The paper exchange
lives in the process and is new with it (`ExchangeRestart`, `NewAccount`).

*Midnight.* `DateChanges` is a step of its own, possible between any two others.
`RecordTrade` reads the clock twice under its lock; `RecordTradeByClock` also has
the case of midnight between the readings. In the other methods a second reading
only follows a reset, which makes them equal to a call at the second reading.

*Prices, sizes and time.* In `ExecutionPipeline` they only choose branches, so
the branches are chosen freely: `CheckMarket` (book, gate, balance, quantity),
`DecideExit`/`KeepWatching` (the exit conditions), `RecordResult` (win or loss),
`AbandonEntry`/`CancelMaker` (was the window exhausted). A sound model of these
choices may do more than the code, never less. `RiskedTrade` has what is behind
the choices. `stage` is how far `ProcessSignal` and the monitor have come, with a
place wherever the clock, the book or another caller of the engine may move in
between; `signal` and `ticket` are its locals; `position` is `activePos`. Money
is an integer in the smallest units, so a quantity is a whole number of
`10^-QtyPrecision` BTC; the code computes in `float64`, where a quotient that is
an exact multiple of the step may lose one step, never gain one that matters to
the budget. Twice the midpoint stands for the midpoint. Time is two ages,
counted up to the limits they are compared with. `PassGate` is given ages within
and beyond the limit; in production the age of the book is always zero, since
`LatestBook` stamps its copy with the current time. Between two trades any
method of the engine may be called (`BetweenTrades`), so a trade starts on every
state the engine can reach; the market and the date may move at any step.

*Paper account.* `positions` is the list, with a side, a quantity and an entry
price each, `simulatedBalance` the balance. The account moves in the pipeline's
step that reaches the exchange (`Sent`), at any of `Prices`, since another
goroutine refreshes the book. The paper client keeps its orders by client order
id and overwrites the older of two with the same id: an instant exchange
accepts an id in use, the live one refuses it.

*Latency records.* A stamp holds the order it is a time of, not the time: the
deltas of a record are differences, and make sense when their stamps belong to
one order. `TrackerStep` attaches each call to the pipeline's step it stands in.

*Ids.* A client order id is the date and the signal's last six characters
(`Suffix`). `LongIds` says whether `"-exit"` and `"-exit-r"` survive the cut to
32 characters (`exit.go:230` and `278`); with the ids the EA generates they do
not.

*Exchange.* `Instant` is the paper client's habit of filling inside `PlaceOrder`.
`Faults` selects `refuse` (an error and nothing placed), `lostReply` (an error
although placed) and `cancelLost`. Fills come one unit at a time, up to `Lot`, at
any moment while the order works; a reduce-only order takes at most what the
account holds against it; an id in use is refused.

*Connections.* `up[c]` and `down[c]` are the lines and replies under way;
`cut` holds the connections that carry nothing any more, which neither end is
told. A write to such a connection may succeed, and is then lost. The client may
hang up with lines under way: they still arrive. Parsing is left out: a line is
a heartbeat or a signal, and the fragment a read timeout leaves behind does not
parse.

*Handlers.* `handler[c]` is the place of the goroutine of connection `c`. The
place `deaf` stands for a `bufio.Scanner` that has met a timeout: it keeps its
first error, so each later `Scan` returns at once and reads nothing.

*The advisor.* MetaTrader runs its handlers one at a time, so the advisor's only
inner place is `awaiting`, inside the wait for a reply. `Reload` starts the
signal numbers again; the field `life` keeps signals of two loads apart, which
the server itself cannot.

*The writer.* `writer` is the place of the drain goroutine in its select, its
flush, its drain loop or the last flush; `flush` is one event per step, since an
event may fail to be written. Main's three calls at the end are `Cancel`, `Stop`
and `StopReturns`.

*Books.* A book is the number of the market tick it shows, so "older" and
"newer" can be said. Each of the three selects that publish a tick is a step:
the forwarder may empty the channel between them. A broadcast holds the feed's
lock from `TakeTick` to the last write, and a write to a terminal that does not
read never returns: it has no deadline (`pricefeed.go`).

*History variables.* `offered`, `acked`, `taken`, `failed`, `dropped`, `lost`,
`probes`, `opened`, `settled`, `evalDate`, `oldestLoss`, `misdated`, `peak`, `polled`,
`cash`, `connectedAt` record what the running process did; `tradesOn` and
`restartsOn` count per date and run on over restarts. No action of the code reads them.

## 3. What TLC checks

| Run | Instance | What it shows |
|---|---|---|
| `risk_api` | limits 2, three dates, counters up to 3; five bids, two trailing steps, two equities, fairness | the halt is in force exactly at the limit and lasts its day; orders are within budget, and escalated only on losses of their own date, but for a misdated streak; locks, stop and target hold at every poll; every trade is decided |
| `instant_fills` | three signals, paper account with two prices, two dates, one kill and restart | one position, known to the server; positions and balance add up; the trade limit per process and date, with one more for each restart, and losses, across midnight |
| `live_faults` | two signals, all faults, one kill and restart | one actor at a time, the handshakes, no result skipped |
| `partial_fills` | two BUY signals, orders of two units, with the latency tracker | exits only reduce; the pipeline implements `TradeLifecycle`; order manager, latency records and exchange agree on the order that became the trade |
| `progress` | two signals whose ids end alike, two dates, refusals and lost replies, long ids, one stop loss a day, fairness | main returns to its loop, monitors end, no two trades share an order id |
| `signal_intake` | two connections for one place, channel of one, two signals in each of two loads, fairness | acknowledged signals are kept, taken and never doubled; places counted right; Stop returns and nothing is sent on the closed channel; the intake implements `SignalDelivery` |
| `event_log` | channel and batch of two, five events, one kill, fairness | the writer implements `LossyLog`, every event has one fate, Stop returns |
| `market_feed` | channel of two, five ticks, one terminal, fairness | the newest tick is never dropped and the book is current, nothing goes backwards, a stalled terminal does not hold up the book |

Three signals are needed for a limit of two trades to refuse one; two are enough
for every race, since only two goroutines can be about a position at a time (the
old monitor and main). Two units show every partial fill. A limit of two lets
the streak, the halt and the reset be reached and one step beyond be tried. Two
dates give one midnight, which may fall at any step; `risk_api` has two, for the
reset of a reset. In `risk_api` a move of the bid over five prices reaches stop,
both locks and the target, climbs the two steps at once or one by one, and falls
back; the equities give, at one level or the other, an order below the minimum,
one between and one cut to `max_qty`, whose floor is not the step below the cap;
counters stop at 3, one past the limits. Two prices are enough for `instant_fills`
to make a gain, a loss and none. `MaxRestarts = 1` covers every kill point once. In
`progress` both signals have the same six last characters, on the same date or
on two: the second order takes the place of the first in the map, and its probe
meets the first one's id at the exchange.
In `signal_intake` one place for two connections gives a rejection, a place given
back and a place held by a connection the advisor has abandoned; a channel of
one makes handlers wait in their send; two loads repeat the signal numbers. In
`event_log` five events are one more than channel and batch hold together. In
`market_feed` five ticks fill the forwarder's hand and the channel and leave two
to be dropped. One terminal is enough there: broadcasts write to one terminal
after the other, and a second one only makes the wait longer.
`CHECK_DEADLOCK FALSE` is said where the process really stops (`down`); a
blocked main or monitor is excluded by `progress`.

**Fairness.** `WF(MainStep)`: the scheduler runs main, every exchange call has an
HTTP timeout and every poll a deadline (`entry.go:190-227`). `WF(MonitorStep(s))`
likewise for each monitor. `SF(DecideExit(s))`: a monitor may find no reason to
exit on any one tick, but the position's age grows past `MaxTradeDurationMs`
(`exit.go:121`), so not for ever. That is an assumption in `ExecutionPipeline`,
which has no clock, and the property `DecisionComes` of `RiskedTrade`, which has:
there only `WF(PollPosition)`, the 50 ms ticker, and `WF(Clock)` are assumed, and
the price goes wherever it likes. Nothing is assumed of the exchange, of the
clock or of arriving signals. In `SignalIntake`, `WF` of main, of the accept loop
and of each handler: every read has a deadline (`ReadTimeout > 0`, as in the
configurations the repository ships), every call below `ProcessSignal` too. In
`AsyncWriter`, `WF` of the goroutine, whose ticker is one of its cases, and of
main's shutdown. In `MarketFeed`, `WF` of the WebSocket goroutine, of the accept
loop and of the forwarder. Nothing is assumed of the expert advisor, of the
network, of BingX or of the terminals, and liveness is stated so that it may
fail only through them: `BookIsForwarded` excepts a terminal that holds up the
broadcast, by name.

### Where the code does not do what it says

Each of these runs checks one sentence of the code or its documents, and TLC
finds a behaviour of the code that breaks it. "findings" in `PROJECT.json` quotes
the sentences.

| Run | Property | Behaviour |
|---|---|---|
| `double_fill` | `OnePosition` | probe fills after the last poll, cancel fails, aggressive order sent: twice the position |
| `unfilled_exit` | `ClearedMeansExited` | both exit orders share an id, the second is refused, the position is cleared unsold |
| `stale_cancel` | `CancelledWhenClosed` | the old monitor's last section cancels the new monitor |
| `kept_alive` | `KeptAlive` | after one read timeout the handler loops without reading: the connection stays open, counted, and deaf |

The model shows five more behaviours a reader of the code should know of, which
have no run of their own: a probe of an exhausted window may fill before its
cancel and nobody watches the position; one failed exit order ends the monitor
of a position that stays active; `ValidOrderTransitions` has no step from ACKED
to CANCELLED, so `UpdateState` refuses it and the caller ignores the error;
midnight between the two clock readings of `RecordTrade` carries the counters and
the losing streak into the new date; and a restart forgets the position the account
still holds, and the counters of the day with it.

The last one touches the limit on trades, which `README.md:146` and
`docs/architecture.md:67` state of the day: a date with a restart may see the
limit once more. `DailyTradeLimit` is what remains, the limit once for each
process that ran on the date, and TLC reaches that bound in `instant_fills`; the
documents' sentence is proved of a process that is never started again
(`LimitWithoutRestart`).

The intake, the writer and the feed show more of that kind. The advisor counts a
signal as sent whatever reply it reads, be it a late one for another signal or
an ERROR. Signal numbers start again when the advisor is reloaded, and the
order manager may then refuse a new signal as a duplicate. An acknowledged signal
that is with a handler or in the channel when the context is cancelled is lost:
`AckedIsKept` ends there. A WebSocket connection that goes silent without
failing is never noticed, since reads have no deadline: that is why
`BookFollowsStream` speaks of a stream with something in it and `BookIsCurrent`
of a connection that is up: past that, a book of any age is stamped with the
current time (`ws_realtime.go:72`) and the gate's test of its age passes. A stalled terminal
keeps the feed's lock, and with it new terminals out.

The trades show three more. The level is read after two waits for the exchange
without a reset of the day (`engine.go:144`): it is the evaluation's that reset
it, which is why an order is escalated on losses of its signal's own date only,
the first of the streak included (`SizedByItsDate`). The exception, which the
property names, is a streak the engine has under a date that is not its own:
losses recorded before the engine has any date, or carried over a midnight
between the two readings of `RecordTrade` (`engine.go:74-76`). On the new date an
order may then be escalated on the losses of the day before. `max_qty` is applied after the comparison with
`min_qty`, so a cap below the minimum would send an order the exchange refuses
(`QuantityAssumption` excludes it; the shipped files do). A trade is judged won
or lost without its fees (`exit.go:316-320`).

`OnePosition` and `HasActivePositionTruthful` hold in `instant_fills`, with the
paper exchange, and `ClearedMeansExited` is proved for it: the difference
is exactly what a live exchange adds. `CancelledWhenClosed` does not depend on
the exchange.

## 4. What is proved

All theorems hold for every set of signals, every limit, any number of dates and
restarts, all faults and both kinds of exchange, every price, step and limit,
under the assumptions named in
the modules (`SizingAssumption`, `MonitorAssumption`, `TradeAssumption`: types,
trailing steps that climb and lock a profit each, stop, target and timers that
are positive; `QuantityAssumption`: `min_qty` is on the step and not above
`max_qty`; `RiskAssumption`: limits at least one; `SignalAssumption`,
`ExchangeAssumption`, `LastDayAssumption`, `RestartAssumption`,
`MaxCountAssumption`, `LinkAssumption`, `ServerAssumption`, `SenderAssumption`:
types only; `WriterAssumption` and `MarketAssumption`: types, and channels with
room for one element at least). The theorems about the intake hold for any number of connections,
any limit on them, any channel capacity and any number of signals and loads.
Beyond them, a theorem names what it needs:

| Theorems | Assumption | Why |
|---|---|---|
| all of `PaperTradingProofs` | `PaperModeAssumption`: instant fills, no faults | it is what `PaperClient` does, and what makes the module about it |
| `PipelineImplementsSlot`, `PipelineImplementsEngine` | `OneProcess`: no restart | both abstract specifications describe one process |
| `LimitWithoutRestart` | `OneProcess` | a restart gives the date the whole limit again |
| `PipelineImplementsEngine` | `MaxCount > MaxDailyTrades` | `RiskEngineApi` caps its counters for TLC; the cap must not stop the pipeline |
| `RecordsAgreeApart`, `PaperPositionsAreFills` | `ApartSuffixes`: no two signals share an order id | tracker and paper client find an order by its id, and the second takes the place of the first |
| `PaperPositionsAreFills` | `Signals` and `IdSuffixes` finite | a sum over all orders is defined for finitely many |

`ProbeOnce` needs none of these: that no two trades share an id is due to the
exchange, which refuses an id in use (`Place`), and is claimed of a live one only.

* `RiskEngineProofs`: `RiskStateOK` (types and `RiskInv`) is inductive method by
  method. From it follow, for the engine alone, `RiskStateSafe` and `HaltLasts`;
  `PipelineRisk` concludes for the engine as the pipeline calls it, from the same
  lemmas.
* `RiskedTradeProofs`: the inductive invariant is `TradeInv`. `TradesCallTheApi`
  is the refinement: what a trade does to the engine is a step of `RiskEngineApi`,
  so the halt keeps what was proved of the engine alone (`TradesHaltAtLimit`,
  `TradesKeepTheHalt`). `BudgetKept` rests on `SizedWithin`, arithmetic about a
  floor, a cap and a second floor; `HandOK` carries what the ticket was computed
  with to the place where it is used. `SizedByDate` needs `DateOK`, the dates of
  the last evaluation and the last trade, tied together from the gate to the
  sizing; `LevelOK`, the engine still has the level the order was sized with; and `LossDatesOK`, the
  engine's date is the date of the first loss of its streak, unless it is misdated. `LocksHold` needs `WatchOK`: best profit and trailing step are where the
  peak of the polls puts them, whatever steps were jumped (`StopTrails`). The
  maximum in `CheckTrailingStop` exists by well-foundedness (`MaxOfBounded`).
* `ExecutionPipelineProofs`: the inductive invariant is `HandshakeOK`.
  `TradingExcluded` alone is not inductive: nothing in it says that `activePos`
  is still nil when main stores it. `SlotTaken` says what main knows at each
  place (an entry in progress means no position is stored), `MonitorKeepsPosition`
  what a monitor knows (the position is its own until it clears it); each is
  needed for the other. Types of the monitors' orders also need it, since an
  exit is placed for the `activePos` the monitor read. From it follow `PipelineTypes`,
  `OneTrader`, `MonitorOwnsPosition`, `FlagAgrees`, and, with the fact that both
  exit ids are only ever placed reduce-only, `ExitsReduce`.
* `PipelineBooksProofs`: the books, each from `HandshakeOK` and a strengthening of
  its own. `DailyLimit`:
  the counter misses no trade this process made on the date it carries, on top of what
  earlier processes may have made on it (`CountInv`, `Earlier`), and a signal
  past its evaluation has room on whatever date it is booked (`RoomForTrade`); a
  restart adds a full limit to what was made earlier (`RestartKeepsCount`).
  `NoResultSkipped`: `Owed` is, at each place, exactly the set of trades without a
  result. `HaltIsDated` and `LossesBounded` follow from it. `PipelineImplementsSlot`
  is the refinement of the trading slot.
  `PipelineImplementsEngine` is the other refinement: what was proved of the risk
  engine for every order of calls (`HaltedAtLimit`, `HaltLastsTheDay`) holds for
  the calls the pipeline makes, whatever its goroutines do. The steps are easy
  but for the bound of the counters: a result may only be recorded when there is
  room for it, which needs `EngineUseInv`, that is, every invariant of the
  books together. `CountersWithinLimits` is that bound; `PipelineHaltLasts` says
  across restarts what ends a halt.
  `ProbeOnce`: the seen entry is written before the probe, and
  `ProbesApart`: the exchange knows the probe of every trade, so the entry in work,
  whose probe it accepted, has an id of its own. Neither half is inductive without
  the other, and the second fails at an exchange that accepts an id twice: there
  two signals of one date that end alike are two trades on one order.
  `RecordsAgreeApart` needs `RecordsInv`: what the record of each signal, its entry
  in the order manager and the exchange say of one fill (`RecordOK`), and how far the
  record of the entry in work has come at each place of main (`EntryRecordOK`).
* `PaperTradingProofs`: the pipeline and the paper account, over any number of
  restarts. `OnePositionOnPaper` and `ActivePositionOnPaper` are not inductive.
  `PaperInv` adds that the first poll sees the fill, so the IOC and the
  repriced exit are never reached (`InstantOK`, from which `PaperNeverReprices`),
  and what the account holds at each
  place of main and of a monitor (`AccountOK`); it rests on `HandshakeOK` for who
  those are. `ClearedMeansExitedOnPaper` adds `SoldOK`, a monitor past its sale has
  sold. `PaperBooksBalance` needs to know the list itself: it is empty, or one row
  that was paid for (`LedgerOK`); the lemmas on `ClosePositions` say that the opposite
  order empties it, and `PaperNetPosition` follows. `PaperPositionsAreFills` is
  harder, since its sum runs over every order ever placed: an order is placed once
  (`OnceOK`), so each placement adds one term to the sum (`FillsOK`). That a
  sum over a finite set changes by the one term that changed needs induction over
  the set; the library's induction theorems cannot be used, so `LeastOf` gives it
  as the argument of the smallest counterexample, from the well-foundedness of `<`
  on the naturals.
* `SignalIntakeProofs`: the inductive invariant is `IntakeInv`. The counter of
  connections cannot be shown to stay in its range, nor the wait group above
  zero, from types alone: `CountsOK` ties both to the set of running handlers,
  `RunningConns`, and a closed channel to a wait group of zero. The lemmas on
  `RunningConns` say that each step adds or removes one handler at most.
  `PlacesOK` says which connection is about to be admitted and that a handler
  with a signal in hand has one the advisor offered. From it follow
  `IntakeTyped`, `PlacesCounted`, `ClosedIsQuiet` and, with the fact that a step
  only ever moves a signal from its handler to the channel and from there to
  main (`KeptStep`), `AckedKept`. `DeliversOnce`, the refinement of `SignalDelivery`,
  needs `DeliveryInv`: a signal is in one place at a time, under way on one
  connection or in one handler's hand before its acknowledgement (`BeforeAck`), with
  a handler, in the channel or taken after it (`AfterAck`); the number an advisor
  gives out next was never sent (`NumbersFresh`).
* `AsyncWriterProofs`: the inductive invariant is `WriterInv`. `BatchBounded` needs
  to know that nobody writes once the goroutine drains (`PlacesOK`) and how full
  batch and channel are together at each place (`RoomOK`). `EventsAccounted`
  follows from `FatesOK` and the fact that the goroutine leaves its loop with an
  empty channel only. For `WriterImplementsLog`, `OrderOK` says that the batch is
  older than the channel and both are in order, so the event a flush writes is
  the oldest pending one.
* `MarketFeedProofs`: the inductive invariant is `FeedInv`. It orders the ticks
  along their way: what terminals saw, the forwarder's tick, `bookCh`, the book,
  the stream. `NewestForwarded` also needs that the third select finds room
  (`PublishOK`): only the publisher fills the channel, and it has just dropped one.
  `BookCurrent` is inductive on top of `FeedInv`: the tick that takes the market
  over is on its way, and the last thing read.

Proved and no longer run: the engine's `EscalatedOnStreak` and `StreakWithinDay`
(in `RiskStateSafe`), the types of intake, writer and feed (`IntakeTyped`,
`WriterTyped`, `FeedTyped`) and `BatchBounded` (`BatchIsBounded`).

Every safety property a passing run checks is stated by a theorem. Left to TLC is
liveness, since fairness speaks of `ENABLED`, which the provers cannot expand:
`DecisionComes`, `EntryEnds`, `MonitorEnds`, `ShutdownEnds`, `AckedIsTaken`,
`AcceptedIsLogged`, `WriterStops`, `BookFollowsStream`, `BookIsForwarded`.

## 5. Not modelled, and what is left

Left out for good: configuration reading (its values are the CONSTANTS), request
signing, time formatting, the alerts (built, never called: `main.go:138`),
scripts, migrations and the benchmark. The gauges, rolling windows and
percentiles of `monitoring/metrics.go` have no writer in the server, so there is
no behaviour to check. The transition tables of `model/signal.go` and
`model/position.go` are used by no code.

Left out of the modelled parts: `PriceFeedServer.Stop`, which main never calls;
the REST poller (`bingx/ws.go`), which only refreshes the paper client's price;
signing, parsing and the market data calls of the live client; the feature and
signal computation of the expert advisors and the price feeder's chart: data
computed from data, with no state the server can notice but the signal itself.

Abstracted: `float64` to integers; the latency stamps to the order they belong to;
the fee rate to an integer per unit of notional; the entry's two fill prices to
the suggested one and the other side of the book as it is by then.

Left to do, most important first:

1. `OrderManager` alone, every method in any order, as `RiskEngineApi` does.
2. `FeatureWindow`: the advisor's ring buffers against the sequence of the last n
   values.
