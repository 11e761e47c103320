------------------------- MODULE PaperTradingProofs -------------------------
(***************************************************************************)
(* What holds of the server in paper mode, for every signal, side, limit,  *)
(* price and fee, and however often the process is started again: what the *)
(* account holds, and that its books agree with the orders.                *)
(***************************************************************************)
EXTENDS PipelineBooksProofs, PaperTrading, WellFoundedInduction, FiniteSetTheorems

USE DEF Days, NoDate

-----------------------------------------------------------------------------
(* What the account holds: PaperClient fills inside PlaceOrder and fails   *)
(* no call, and starts with nothing when the process does.                 *)

\* Where main has bought and stored no position yet, where a monitor has not
\* sold yet, and where it has.
BoughtPC == {"pollMaker"} \cup FilledPC
HoldingPC == {"watching", "deciding", "beginExit", "placeExit"}
SoldPC == {"pollExit", "recordResult", "setClosed", "clearPosition"}

\* An instant fill is seen by the first poll: nothing is left working, and
\* neither the IOC nor the repriced exit is ever reached.
InstantOK ==
    /\ \A o \in OrderIds : ~Working(o)
    /\ pc \notin {"cancelMaker", "placeIoc", "pollIoc", "cancelIoc"}
    /\ pc = "pollMaker" => Filled(MakerId(sig))
    /\ \A s \in Signals :
          /\ mon[s] \notin {"cancelExit", "placeReprice", "pollReprice", "cancelReprice"}
          /\ mon[s] = "pollExit" => Filled(ExitId(s))

\* The account holds the order of the position that main or a monitor is about,
\* and nothing once it is sold.  A monitor that has returned leaves it unknown,
\* and so does the end of the process, until the next one starts.
AccountOK ==
    /\ exposure = 0 \/ \E s \in Signals : exposure = Side[s] * Lot
    /\ Up =>
          /\ pc \in BoughtPC => exposure = Side[sig] * Lot
          /\ pc \notin BoughtPC /\ activePos = NoSignal => exposure = 0
          /\ pc \notin BoughtPC /\ activePos # NoSignal =>
                /\ exposure \in {0, Side[activePos] * Lot}
                /\ mon[activePos] \in HoldingPC => exposure = Side[activePos] * Lot
                /\ mon[activePos] \in SoldPC => exposure = 0

PaperInv == InstantOK /\ AccountOK

\* The order of a signal is one Lot, whichever its side.
LEMMA PaperWorth ==
    ASSUME NEW s \in Signals
    PROVE  Side[s] * Lot \in {Lot, -Lot}
<1>1. CASE Side[s] = 1
  BY <1>1, ExchangeAssumption
<1>2. CASE Side[s] = -1
  BY <1>2, ExchangeAssumption
<1> QED BY <1>1, <1>2, ExchangeAssumption

\* What a call of PlaceOrder leaves in paper mode, answered or refused.
LEMMA PaperPlace ==
    ASSUME InstantOK, ExchangeTypeOK, NEW o \in OrderIds, NEW side,
           NEW reduceOnly, Place(o, side, reduceOnly)
    PROVE  /\ \A p \in OrderIds : ~Working(p)'
           /\ \A p \in OrderIds : Filled(p) => Filled(p)'
           /\ Filled(o)'
<1>1. exOrders'[o].status = "FILLED" /\ \A p \in OrderIds : p # o => exOrders'[p] = exOrders[p]
  BY PaperModeAssumption DEF Place, ExchangeTypeOK
<1> QED BY <1>1 DEF InstantOK, Working, Filled

LEMMA PaperBuys ==
    ASSUME NEW o, NEW s \in Signals, exposure = 0, Place(o, Side[s], FALSE)
    PROVE  exposure' = Side[s] * Lot
<1>1. exposure' = 0 + Side[s] * Lot
  BY PaperModeAssumption DEF Place, Room
<1>2. Side[s] * Lot \in Int
  BY PaperWorth, ExchangeAssumption
<1> QED BY <1>1, <1>2

LEMMA PaperSells ==
    ASSUME NEW o, NEW s \in Signals, exposure = Side[s] * Lot,
           Place(o, -Side[s], TRUE)
    PROVE  exposure' = 0
<1>1. exposure' = exposure + (-Side[s]) * Room(-Side[s], TRUE)
  BY PaperModeAssumption DEF Place
<1>2. CASE Side[s] = 1
  BY <1>1, <1>2, ExchangeAssumption DEF Room
<1>3. CASE Side[s] = -1
  BY <1>1, <1>3, ExchangeAssumption DEF Room
<1> QED BY <1>2, <1>3, ExchangeAssumption

LEMMA PaperRefusal ==
    ASSUME NEW o, NEW side, NEW reduceOnly, NEW dead \in BOOLEAN,
           PlaceFailed(o, side, reduceOnly, dead)
    PROVE  UNCHANGED exchangeVars
BY PaperModeAssumption DEF PlaceFailed, Broken

LEMMA PaperMain ==
    ASSUME HandshakeOK, ProbeInv, PaperInv, MainStep
    PROVE  PaperInv'
<1> USE SignalAssumption
    DEF HandshakeOK, ControlOK, PaperInv, InstantOK, AccountOK, BoughtPC, HoldingPC, SoldPC,
        EntryPC, FilledPC, MainOnly, Goto, ReturnToLoop, positionVars, monitorVars,
        exchangeVars, Working, Filled, ExitId, Up
<1>1. CASE PlaceMaker
  <2>1. sig \in Signals /\ activePos = NoSignal /\ exposure = 0
    BY <1>1 DEF PlaceMaker, SlotTaken
  <2>2. MakerId(sig) \in OrderIds
    <3>1. seen[sig] \in ClientIds
      BY <1>1, <2>1 DEF PlaceMaker, ProbeInv, OrdersTypeOK
    <3> QED BY <3>1 DEF MakerId, OrderIds
  <2>3. UNCHANGED <<seen, activePos, mon>>
    BY <1>1 DEF PlaceMaker, UpdateState
  <2>4. CASE Place(MakerId(sig), Side[sig], FALSE) /\ Goto("pollMaker")
    <3>1. exposure' = Side[sig] * Lot
      BY <2>1, <2>4, PaperBuys
    <3>2. /\ \A p \in OrderIds : ~Working(p)'
          /\ \A p \in OrderIds : Filled(p) => Filled(p)'
          /\ Filled(MakerId(sig))'
      BY <2>2, <2>3, <2>4, PaperPlace DEF MakerId
    <3>3. \A s \in Signals : mon'[s] = "pollExit" => Filled(ExitId(s))'
      BY <2>3, <3>2 DEF OrderIds
    <3>4. AccountOK'
      BY <2>1, <2>3, <2>4, <3>1
    <3>5. InstantOK'
      BY <2>3, <2>4, <3>2, <3>3 DEF MakerId
    <3> QED BY <3>4, <3>5
  <2>5. CASE UNCHANGED exchangeVars /\ pc' = "idle"
    BY <2>1, <2>3, <2>5
  <2> QED BY <1>1, <2>4, <2>5, PaperRefusal DEF PlaceMaker, PlaceAcked
<1>2. CASE Evaluate \/ CheckMarket \/ CreateEntryOrder \/ Submit
  BY <1>2 DEF Evaluate, CheckMarket, CreateEntryOrder, Submit
<1>3. CASE PollMaker
  <2>1. ~PollGivesUp(MakerId(sig))
    BY <1>3, PaperModeAssumption DEF PollMaker, PollGivesUp
  <2> QED BY <1>3, <2>1 DEF PollMaker, MarkFilled
<1>4. CASE BookTrade \/ RaiseOpenFlag
  BY <1>4 DEF BookTrade, RaiseOpenFlag
<1>5. CASE StorePosition
  BY <1>5 DEF StorePosition
<1>6. CASE StartMonitor
  <2>1. sig \in Signals /\ activePos = sig /\ mon' = [mon EXCEPT ![sig] = "watching"]
    BY <1>6 DEF StartMonitor, SlotTaken
  <2> QED BY <1>6, <2>1 DEF StartMonitor, ControlTypeOK
<1>7. CASE AbandonEntry \/ CancelMaker \/ PlaceIoc \/ PollIoc \/ CancelIoc
  BY <1>7 DEF AbandonEntry, CancelMaker, PlaceIoc, PollIoc, CancelIoc
<1> QED BY <1>1, <1>2, <1>3, <1>4, <1>5, <1>6, <1>7 DEF MainStep

LEMMA PaperMonitor ==
    ASSUME HandshakeOK, PaperInv, NEW s \in Signals,
           MonitorStep(s) \/ MonitorStop(s) \/ KeepWatching(s)
    PROVE  PaperInv'
<1> USE SignalAssumption
    DEF HandshakeOK, ControlOK, ControlTypeOK, PaperInv, InstantOK, AccountOK, BoughtPC,
        HoldingPC, SoldPC, EntryPC, FilledPC, MonitorOnly, MonitorAt, positionVars, mainVars,
        orderVars, exchangeVars, Working, Filled, ExitId, MakerId, Up
<1>0. mon[s] \in Acting => activePos = s /\ pc \notin BoughtPC
  BY DEF MonitorKeepsPosition, SlotTaken, Acting, ExitPC
<1>1. CASE PlaceExit(s)
  <2>1. pos[s] = s /\ activePos = s /\ pc \notin BoughtPC
    BY <1>0, <1>1 DEF PlaceExit, MonitorKeepsPosition, Acting, ExitPC
  <2>2. exposure = Side[s] * Lot
    BY <1>1, <2>1 DEF PlaceExit
  <2>3. UNCHANGED <<pc, sig, seen, activePos>>
    BY <1>1 DEF PlaceExit
  <2>4. CASE Place(ExitId(s), -Side[s], TRUE) /\ mon' = [mon EXCEPT ![s] = "pollExit"]
    <3>0. ExitId(s) \in OrderIds
      BY DEF OrderIds
    <3>1. exposure' = 0
      BY <2>2, <2>4, PaperSells
    <3>2. /\ \A p \in OrderIds : ~Working(p)'
          /\ \A p \in OrderIds : Filled(p) => Filled(p)'
          /\ Filled(ExitId(s))'
      BY <2>4, <3>0, PaperPlace
    <3>3. \A t \in Signals : mon'[t] = "pollExit" => Filled(ExitId(t))'
      BY <2>4, <3>2 DEF OrderIds
    <3> QED BY <2>1, <2>3, <2>4, <3>1, <3>2, <3>3
  <2>5. CASE UNCHANGED exchangeVars /\ mon' = [mon EXCEPT ![s] = "returned"]
    BY <2>1, <2>2, <2>3, <2>5
  <2>6. ASSUME PlaceFailed(ExitId(s), -Side[s], TRUE, ContextDone(s))
        PROVE  UNCHANGED exchangeVars
    BY <2>6, PaperModeAssumption DEF PlaceFailed, Broken
  <2> QED BY <1>1, <2>1, <2>4, <2>5, <2>6 DEF PlaceExit, PlaceAcked
<1>2. CASE PollExit(s)
  <2>1. pos[s] = s /\ activePos = s /\ pc \notin BoughtPC
    BY <1>0, <1>2 DEF PollExit, MonitorKeepsPosition, Acting, ExitPC
  <2>2. ~PollGivesUp(ExitId(s))
    BY <1>2, PaperModeAssumption DEF PollExit, PollGivesUp
  <2> QED BY <1>2, <2>1, <2>2 DEF PollExit
<1>3. CASE MonitorTick(s)
  BY <1>0, <1>3 DEF MonitorTick, Acting
<1>4. CASE MonitorStop(s) \/ KeepWatching(s) \/ DecideExit(s)
  BY <1>0, <1>4 DEF MonitorStop, KeepWatching, DecideExit, Acting
<1>5. CASE BeginExit(s)
  BY <1>0, <1>5 DEF BeginExit, Acting
<1>6. CASE RecordResult(s) \/ LowerOpenFlag(s)
  BY <1>0, <1>6 DEF RecordResult, LowerOpenFlag, Acting, ExitPC
<1>7. CASE ClearPosition(s)
  BY <1>0, <1>7 DEF ClearPosition, Acting
<1>8. CASE ClearCancel(s)
  BY <1>8 DEF ClearCancel
<1>9. CASE CancelExit(s) \/ PlaceReprice(s) \/ PollReprice(s) \/ CancelReprice(s)
  BY <1>9 DEF CancelExit, PlaceReprice, PollReprice, CancelReprice
<1> QED BY <1>1, <1>2, <1>3, <1>4, <1>5, <1>6, <1>7, <1>8, <1>9 DEF MonitorStep

LEMMA PaperStep ==
    ASSUME HandshakeOK, ProbeInv, PaperInv, [Next]_vars
    PROVE  PaperInv'
<1> USE DEF PaperInv, InstantOK, AccountOK, BoughtPC, HoldingPC, SoldPC, EntryPC, FilledPC,
            Working, Filled, ExitId, MakerId, exchangeVars, positionVars, monitorVars,
            orderVars, mainVars, Up
<1>1. CASE UNCHANGED vars
  BY <1>1 DEF vars
<1>2. CASE \E s \in Signals : ReceiveSignal(s)
  BY <1>2 DEF ReceiveSignal, MainOnly
<1>3. CASE Shutdown \/ ProcessEnds \/ DateChanges
  <2>1. CASE Shutdown \/ DateChanges
    BY <2>1 DEF Shutdown, DateChanges
  <2>2. CASE ProcessEnds
    BY <2>2 DEF ProcessEnds, Goto, Up
  <2> QED BY <1>3, <2>1, <2>2
<1>4. CASE Restart
  <2>1. /\ \A o \in OrderIds : exOrders'[o] = NoOrder
        /\ exposure' = 0
    BY <1>4, PaperModeAssumption DEF Restart, ExchangeRestart
  <2>2. /\ pc' = "idle" /\ activePos' = NoSignal
        /\ \A s \in Signals : mon'[s] = "none"
    BY <1>4 DEF Restart
  <2> QED BY <2>1, <2>2 DEF NoOrder
<1>5. CASE ExchangeStep
  BY <1>5 DEF ExchangeStep, Fill, Expire
<1> QED BY <1>1, <1>2, <1>3, <1>4, <1>5, PaperMain, PaperMonitor DEF Next

LEMMA PaperInvInit ==
    ASSUME Init
    PROVE  PaperInv
BY SignalAssumption, ExchangeAssumption
   DEF Init, FreshProcess, ExchangeInit, PaperInv, InstantOK, AccountOK, BoughtPC, FilledPC,
       Working, NoOrder

LEMMA PaperInvariant == Spec => [](HandshakeOK /\ PaperInv)
<1>1. Init => HandshakeOK /\ ProbeInv /\ PaperInv
  <2>1. Init => ProbeInv
    BY DEF Init, FreshProcess, ProbeInv
  <2> QED BY <2>1, HandshakeInit, PaperInvInit
<1>2. HandshakeOK /\ ProbeInv /\ PaperInv /\ [Next]_vars
          => HandshakeOK' /\ ProbeInv' /\ PaperInv'
  BY HandshakeStep, ProbeStep, PaperStep
<1> QED BY <1>1, <1>2, PTL DEF Spec

\* "Only ONE position can be open at a time" (pipeline.go:24): with fills inside
\* PlaceOrder (paper.go:221) the account holds one order's worth at most.
THEOREM OnePositionOnPaper == Spec => []OnePosition
<1>1. HandshakeOK /\ PaperInv => OnePosition
  <2> SUFFICES ASSUME HandshakeOK, PaperInv PROVE Abs(exposure) <= Lot
    BY DEF OnePosition
  <2>1. exposure = 0 \/ \E s \in Signals : exposure = Side[s] * Lot
    BY DEF PaperInv, AccountOK
  <2>2. exposure \in {0, Lot, -Lot}
    BY <2>1, PaperWorth
  <2> QED BY <2>2, ExchangeAssumption DEF Abs
<1> QED BY <1>1, PaperInvariant, PTL

\* "HasActivePosition returns true if there is currently an open position"
\* (pipeline.go:346): with such fills it does, where main.go:234 asks it.
THEOREM ActivePositionOnPaper == Spec => []HasActivePositionTruthful
<1>1. PaperInv => HasActivePositionTruthful
  BY DEF PaperInv, AccountOK, BoughtPC, FilledPC, Up, HasActivePositionTruthful
<1> QED BY <1>1, PaperInvariant, PTL

\* What paper mode never tries: the aggressive order of entry.go:125 and the
\* repriced exit of exit.go:246, their polls and the cancels before them.  A
\* server that trades well on paper has not run them.
THEOREM PaperNeverReprices ==
    Spec => []/\ pc \notin {"cancelMaker", "placeIoc", "pollIoc", "cancelIoc"}
              /\ \A s \in Signals :
                    mon[s] \notin {"cancelExit", "placeReprice", "pollReprice", "cancelReprice"}
<1>1. PaperInv => /\ pc \notin {"cancelMaker", "placeIoc", "pollIoc", "cancelIoc"}
                  /\ \A s \in Signals :
                        mon[s] \notin {"cancelExit", "placeReprice", "pollReprice", "cancelReprice"}
  BY DEF PaperInv, InstantOK
<1> QED BY <1>1, PaperInvariant, PTL

\* Nothing is cancelled in paper mode: PaperClient could turn a filled order
\* into a cancelled one (paper.go:282), but it is never asked to.
LEMMA InstantOnly ==
    ASSUME PaperInv, Next, ~Restart
    PROVE  \/ UNCHANGED exchangeVars
           \/ \E o \in OrderIds : Fill(o) \/ Expire(o)
           \/ \E o, side, reduceOnly : Place(o, side, reduceOnly)
<1> USE DEF PaperInv, InstantOK
<1>1. CASE MainStep
  <2>1. CASE PlaceMaker
    BY <2>1 DEF PlaceMaker, PlaceAcked, PlaceFailed
  <2>2. CASE ~PlaceMaker
    BY <1>1, <2>2
       DEF MainStep, exchangeVars, Evaluate, CheckMarket, CreateEntryOrder, Submit, PollMaker,
           AbandonEntry, CancelMaker, PlaceIoc, PollIoc, CancelIoc, BookTrade, RaiseOpenFlag,
           StorePosition, StartMonitor
  <2> QED BY <2>1, <2>2
<1>2. ASSUME NEW s \in Signals, MonitorStep(s) \/ MonitorStop(s) \/ KeepWatching(s)
      PROVE  UNCHANGED exchangeVars \/ \E o, side, reduceOnly : Place(o, side, reduceOnly)
  <2>1. CASE PlaceExit(s)
    BY <2>1 DEF PlaceExit, PlaceAcked, PlaceFailed
  <2>2. CASE ~PlaceExit(s)
    BY <1>2, <2>2
       DEF exchangeVars, MonitorAt, MonitorStep, MonitorStop, KeepWatching, MonitorTick,
           DecideExit, BeginExit, PollExit, CancelExit, PlaceReprice, PollReprice, CancelReprice,
           RecordResult, LowerOpenFlag, ClearPosition, ClearCancel
  <2> QED BY <2>1, <2>2
<1>3. CASE (\E s \in Signals : ReceiveSignal(s)) \/ Shutdown \/ ProcessEnds \/ DateChanges
  BY <1>3 DEF ReceiveSignal, Shutdown, ProcessEnds, DateChanges, exchangeVars
<1>4. CASE ExchangeStep
  BY <1>4 DEF ExchangeStep
<1> QED BY <1>1, <1>2, <1>3, <1>4 DEF Next

\* A monitor past its sale has sold.
SoldOK == \A s \in Signals : mon[s] \in SoldPC \cup {"clearCancel"} => Filled(ExitId(s))

LEMMA SoldStep ==
    ASSUME HandshakeOK, PaperInv, PaperInv', SoldOK, [Next]_vars
    PROVE  SoldOK'
<1> USE DEF HandshakeOK, ControlOK, ControlTypeOK, SoldOK
<1>1. CASE UNCHANGED vars
  BY <1>1 DEF vars, monitorVars, exchangeVars, Filled, ExitId
<1>2. CASE Restart
  BY <1>2 DEF Restart, SoldPC
<1>3. ASSUME Next, ~Restart, NEW s \in Signals, Filled(ExitId(s))
      PROVE  Filled(ExitId(s))'
  <2>1. ExitId(s) \in OrderIds
    BY DEF ExitId, OrderIds
  <2>2. \/ UNCHANGED exchangeVars
        \/ \E o \in OrderIds : Fill(o) \/ Expire(o)
        \/ \E o, side, reduceOnly : Place(o, side, reduceOnly)
    BY <1>3, InstantOnly
  <2>3. exOrders'[ExitId(s)].status = "FILLED"
    BY <1>3, <2>1, <2>2, FilledStays
  <2> QED BY <2>3 DEF Filled, ExitId
<1>4. ASSUME Next, ~Restart, NEW s \in Signals
      PROVE  \/ mon'[s] \notin SoldPC \cup {"clearCancel"}
             \/ mon'[s] = "pollExit"
             \/ mon[s] \in SoldPC \cup {"clearCancel"}
  <2>1. CASE \E t \in Signals : ReceiveSignal(t)
    BY <2>1 DEF ReceiveSignal, MainOnly, monitorVars
  <2>2. CASE MainStep
    BY <2>2
       DEF MainStep, MainOnly, monitorVars, Evaluate, CheckMarket, CreateEntryOrder, Submit,
           PlaceMaker, PollMaker, AbandonEntry, CancelMaker, PlaceIoc, PollIoc, CancelIoc,
           BookTrade, RaiseOpenFlag, StorePosition, StartMonitor, SoldPC
  <2>3. ASSUME NEW t \in Signals, MonitorStep(t) \/ MonitorStop(t) \/ KeepWatching(t)
        PROVE  \/ mon'[s] \notin SoldPC \cup {"clearCancel"}
               \/ mon'[s] = "pollExit"
               \/ mon[s] \in SoldPC \cup {"clearCancel"}
    BY <2>3
       DEF PaperInv, InstantOK, MonitorAt, MonitorStep, MonitorStop, KeepWatching, MonitorTick,
           DecideExit, BeginExit, PlaceExit, PollExit, CancelExit, PlaceReprice, PollReprice,
           CancelReprice, RecordResult, LowerOpenFlag, ClearPosition, ClearCancel, SoldPC
  <2>4. CASE Shutdown \/ ProcessEnds \/ DateChanges \/ ExchangeStep
    BY <2>4 DEF Shutdown, ProcessEnds, DateChanges, ExchangeStep, monitorVars
  <2> QED BY <1>4, <2>1, <2>2, <2>3, <2>4 DEF Next
<1>5. ASSUME NEW s \in Signals, mon'[s] = "pollExit"
      PROVE  Filled(ExitId(s))'
  BY <1>5 DEF PaperInv, InstantOK
<1> QED BY <1>1, <1>2, <1>3, <1>4, <1>5

\* "executeExit closes the active position" (exit.go:195): with fills inside
\* PlaceOrder it has, whenever the position is cleared.
THEOREM ClearedMeansExitedOnPaper == Spec => []ClearedMeansExited
<1>1. Init => SoldOK
  BY DEF Init, FreshProcess, SoldOK, SoldPC
<1>2. SoldOK => ClearedMeansExited
  BY DEF SoldOK, ClearedMeansExited
<1>3. HandshakeOK /\ PaperInv /\ PaperInv' /\ SoldOK /\ [Next]_vars => SoldOK'
  BY SoldStep
<1> QED BY <1>1, <1>2, <1>3, PaperInvariant, PTL DEF Spec

-----------------------------------------------------------------------------
(* Sums.  SumFunction is a fold that picks the elements of a set one after *)
(* the other; the lemmas are by induction on the size of the set.          *)

\* A set of naturals has a least member.
LEMMA LeastOf ==
    ASSUME NEW T \in SUBSET Nat, T # {}
    PROVE  \E t \in T : \A y \in T : t <= y
<1> DEFINE R == OpToRel(<, Nat)
<1>1. IsWellFoundedOn(R, Nat)
  BY NatLessThanWellFounded, Zenon
<1>2. \A a, b \in Nat : <<a, b>> \in R <=> a < b
  BY DEF OpToRel
<1> HIDE DEF R
<1>3. PICK t \in T : \A y \in T : <<y, t>> \notin R
  BY <1>1, WFMin
<1>4. ASSUME NEW y \in T PROVE t <= y
  <2>1. y \in Nat /\ t \in Nat /\ ~(y < t)
    BY <1>2, <1>3
  <2> QED BY <2>1
<1> QED BY <1>4

(* The fold, with the set it runs over and the function it sums as parameters. *)
Picked(s) == CHOOSE x \in s : TRUE

SumStep(v, D, f) == [s \in D |-> IF s = {} THEN 0 ELSE v[Picked(s)] + f[s \ {Picked(s)}]]

Partial(v, S) == CHOOSE f : f = SumStep(v, SUBSET S, f)

LEMMA SumUnfolds ==
    ASSUME NEW v, NEW S, DOMAIN v = S
    PROVE  SumFunction(v) = Partial(v, S)[S]
BY Zenon DEF SumFunction, SumFunctionOnSet, FoldFunctionOnSet, MapThenFoldSet, Partial, SumStep, Picked

UpTo(S, n) == {s \in SUBSET S : Cardinality(s) <= n}

LEMMA PickedLeaves ==
    ASSUME NEW S, IsFiniteSet(S), NEW s \in SUBSET S, s # {}
    PROVE  /\ Picked(s) \in s
           /\ s \ {Picked(s)} \in SUBSET S
           /\ Cardinality(s \ {Picked(s)}) = Cardinality(s) - 1
           /\ Cardinality(s) \in Nat \ {0}
           /\ Cardinality(s \ {Picked(s)}) \in Nat
<1>1. IsFiniteSet(s)
  BY FS_Subset
<1>2. Picked(s) \in s
  BY DEF Picked
<1>3. Cardinality(s) \in Nat /\ Cardinality(s) # 0
  BY <1>1, FS_CardinalityType, FS_EmptySet
<1>4. Cardinality(s \ {Picked(s)}) = Cardinality(s) - 1
  BY <1>1, <1>2, FS_RemoveElement
<1> QED BY <1>2, <1>3, <1>4

\* There is a function with that equation: one for the sets of n elements gives
\* one for the sets of n + 1.
LEMMA SumExists ==
    ASSUME NEW S, IsFiniteSet(S), NEW v
    PROVE  \E f : f = SumStep(v, SUBSET S, f)
<1> DEFINE Level(n) == \E f : f = SumStep(v, UpTo(S, n), f)
<1>1. Level(0)
  <2> DEFINE g == [s \in UpTo(S, 0) |-> 0]
  <2>1. \A s \in UpTo(S, 0) : s = {}
    <3> SUFFICES ASSUME NEW s \in UpTo(S, 0) PROVE s = {}
      OBVIOUS
    <3>1. Cardinality(s) <= 0 /\ s \in SUBSET S
      BY DEF UpTo
    <3>2. s # {} => Cardinality(s) \in Nat \ {0}
      BY <3>1, PickedLeaves
    <3> QED BY <3>1, <3>2
  <2>2. g = SumStep(v, UpTo(S, 0), g)
    BY <2>1 DEF SumStep
  <2> QED BY <2>2
<1>2. ASSUME NEW n \in Nat, Level(n) PROVE Level(n + 1)
  <2>1. PICK f : f = SumStep(v, UpTo(S, n), f)
    BY <1>2
  <2> DEFINE g == SumStep(v, UpTo(S, n + 1), f)
  <2>2. ASSUME NEW s \in UpTo(S, n) PROVE s \in UpTo(S, n + 1) /\ g[s] = f[s]
    <3>1. Cardinality(s) <= n /\ s \in SUBSET S
      BY DEF UpTo
    <3>2. Cardinality(s) \in Nat
      BY <3>1, FS_Subset, FS_CardinalityType
    <3>3. s \in UpTo(S, n + 1)
      BY <3>1, <3>2 DEF UpTo
    <3>4. f[s] = SumStep(v, UpTo(S, n), f)[s]
      BY <2>1
    <3> QED BY <3>3, <3>4 DEF SumStep
  <2>3. ASSUME NEW s \in UpTo(S, n + 1), s # {}
        PROVE  s \ {Picked(s)} \in UpTo(S, n)
    <3>1. s \in SUBSET S /\ Cardinality(s) <= n + 1
      BY DEF UpTo
    <3> QED BY <2>3, <3>1, PickedLeaves DEF UpTo
  <2>4. g = SumStep(v, UpTo(S, n + 1), g)
    <3> HIDE DEF g
    <3>1. g = SumStep(v, UpTo(S, n + 1), f)
      BY DEF g
    <3> QED BY <2>2, <2>3, <3>1 DEF SumStep
  <2> QED BY <2>4
<1>3. \A n \in Nat : Level(n)
  <2> HIDE DEF Level
  <2> SUFFICES ASSUME NEW m \in Nat, ~Level(m) PROVE FALSE
    OBVIOUS
  <2>1. PICK t \in {n \in Nat : ~Level(n)} : \A y \in {n \in Nat : ~Level(n)} : t <= y
    BY LeastOf
  <2>2. t # 0
    BY <1>1, <2>1
  <2>3. Level(t - 1)
    BY <2>1, <2>2
  <2> QED BY <1>2, <2>1, <2>2, <2>3
<1>4. Cardinality(S) \in Nat /\ UpTo(S, Cardinality(S)) = SUBSET S
  <2>1. \A s \in SUBSET S : Cardinality(s) <= Cardinality(S)
    BY FS_Subset
  <2> QED BY <2>1, FS_CardinalityType DEF UpTo
<1> QED BY <1>3, <1>4

\* Partial has the values its equation says.
LEMMA SumEquation ==
    ASSUME NEW S, IsFiniteSet(S), NEW v
    PROVE  /\ Partial(v, S)[{}] = 0
           /\ \A s \in SUBSET S : s # {} =>
                 Partial(v, S)[s] = v[Picked(s)] + Partial(v, S)[s \ {Picked(s)}]
<1> DEFINE F == Partial(v, S)
<1>1. F = SumStep(v, SUBSET S, F)
  BY SumExists, Zenon DEF Partial
<1> HIDE DEF F
<1>2. \A s \in SUBSET S : F[s] = IF s = {} THEN 0 ELSE v[Picked(s)] + F[s \ {Picked(s)}]
  <2> SUFFICES ASSUME NEW s \in SUBSET S
               PROVE  F[s] = IF s = {} THEN 0 ELSE v[Picked(s)] + F[s \ {Picked(s)}]
    OBVIOUS
  <2>1. F[s] = SumStep(v, SUBSET S, F)[s]
    BY <1>1
  <2> QED BY <2>1 DEF SumStep
<1> QED BY <1>2 DEF F

\* Changing one summand changes the sum by as much.
LEMMA SumChanges ==
    ASSUME NEW S, IsFiniteSet(S), NEW v \in [S -> Int], NEW w \in [S -> Int], NEW x \in S,
           \A y \in S \ {x} : w[y] = v[y]
    PROVE  /\ SumFunction(v) \in Int
           /\ SumFunction(w) = SumFunction(v) + (w[x] - v[x])
<1> DEFINE F == Partial(v, S)
           G == Partial(w, S)
           OK(s) == /\ F[s] \in Int
                    /\ G[s] = F[s] + (IF x \in s THEN w[x] - v[x] ELSE 0)
           Bad == {n \in Nat : \E s \in SUBSET S : Cardinality(s) = n /\ ~OK(s)}
<1>1. /\ F[{}] = 0 /\ G[{}] = 0
      /\ \A s \in SUBSET S : s # {} =>
            F[s] = v[Picked(s)] + F[s \ {Picked(s)}] /\ G[s] = w[Picked(s)] + G[s \ {Picked(s)}]
  BY SumEquation
<1> HIDE DEF F, G
<1>2. ASSUME NEW s \in SUBSET S, s # {}, OK(s \ {Picked(s)}) PROVE OK(s)
  <2>1. Picked(s) \in s /\ Picked(s) \in S
    BY <1>2, PickedLeaves
  <2>2. F[s] = v[Picked(s)] + F[s \ {Picked(s)}] /\ G[s] = w[Picked(s)] + G[s \ {Picked(s)}]
    BY <1>1, <1>2
  <2>3. CASE Picked(s) = x
    BY <1>2, <2>1, <2>2, <2>3
  <2>4. CASE Picked(s) # x
    <3>1. w[Picked(s)] = v[Picked(s)] /\ (x \in s <=> x \in s \ {Picked(s)})
      BY <2>1, <2>4
    <3> QED BY <1>2, <2>1, <2>2, <3>1
  <2> QED BY <2>3, <2>4
<1>3. OK({})
  BY <1>1
<1>4. Bad = {}
  <2> HIDE DEF OK
  <2> SUFFICES ASSUME Bad # {} PROVE FALSE
    OBVIOUS
  <2>1. PICK n \in Bad : \A m \in Bad : n <= m
    BY LeastOf
  <2>2. PICK s \in SUBSET S : Cardinality(s) = n /\ ~OK(s)
    BY <2>1
  <2>3. s # {}
    BY <1>3, <2>2
  <2>4. /\ s \ {Picked(s)} \in SUBSET S /\ Cardinality(s \ {Picked(s)}) = n - 1
        /\ n - 1 \in Nat
    BY <2>2, <2>3, PickedLeaves
  <2>5. ~OK(s \ {Picked(s)})
    BY <1>2, <2>2, <2>3
  <2>6. n - 1 \in Bad
    BY <2>4, <2>5
  <2> QED BY <2>1, <2>4, <2>6
<1>5. OK(S)
  <2> HIDE DEF OK
  <2>1. Cardinality(S) \in Nat
    BY FS_CardinalityType
  <2> QED BY <1>4, <2>1
<1>6. SumFunction(v) = F[S] /\ SumFunction(w) = G[S]
  BY SumUnfolds DEF F, G
<1> QED BY <1>5, <1>6

LEMMA SumOfNothing ==
    ASSUME NEW S, IsFiniteSet(S)
    PROVE  SumFunction([y \in S |-> 0]) = 0
<1> DEFINE v == [y \in S |-> 0]
           F == Partial(v, S)
           Bad == {n \in Nat : \E s \in SUBSET S : Cardinality(s) = n /\ F[s] # 0}
<1>1. /\ F[{}] = 0
      /\ \A s \in SUBSET S : s # {} => F[s] = v[Picked(s)] + F[s \ {Picked(s)}]
  BY SumEquation
<1>2. SumFunction(v) = F[S]
  BY SumUnfolds
<1>3. \A s \in SUBSET S : s # {} => v[Picked(s)] = 0
  BY PickedLeaves
<1> HIDE DEF F, v
<1>4. Bad = {}
  <2> SUFFICES ASSUME Bad # {} PROVE FALSE
    OBVIOUS
  <2>1. PICK n \in Bad : \A m \in Bad : n <= m
    BY LeastOf
  <2>2. PICK s \in SUBSET S : Cardinality(s) = n /\ F[s] # 0
    BY <2>1
  <2>3. s # {}
    BY <1>1, <2>2
  <2>4. /\ s \ {Picked(s)} \in SUBSET S /\ Cardinality(s \ {Picked(s)}) = n - 1
        /\ n - 1 \in Nat
    BY <2>2, <2>3, PickedLeaves
  <2>5. F[s \ {Picked(s)}] # 0
    BY <1>1, <1>3, <2>2, <2>3
  <2>6. n - 1 \in Bad
    BY <2>4, <2>5
  <2> QED BY <2>1, <2>4, <2>6
<1>5. F[S] = 0
  <2>1. Cardinality(S) \in Nat
    BY FS_CardinalityType
  <2> QED BY <1>4, <2>1
<1> QED BY <1>2, <1>5 DEF v

-----------------------------------------------------------------------------
(* The ledger: positions and balance against the net position.             *)

\* What a step does to the exchange in paper mode.
LEMMA InstantCalls ==
    ASSUME HandshakeOK, ProbeInv, PaperInv, Next
    PROVE  \/ /\ PlaceMaker /\ pc' = "pollMaker"
              /\ sig \in Signals /\ exposure = 0 /\ MakerId(sig) \in OrderIds
              /\ Place(MakerId(sig), Side[sig], FALSE)
           \/ \E s \in Signals :
                 /\ PlaceExit(s) /\ mon'[s] = "pollExit"
                 /\ pos[s] = s /\ exposure = Side[s] * Lot
                 /\ Place(ExitId(s), -Side[s], TRUE)
           \/ Restart
           \/ /\ UNCHANGED <<exchangeVars, restarts>>
              /\ ~(pc = "placeMaker" /\ pc' = "pollMaker")
              /\ \A s \in Signals : ~(mon[s] = "placeExit" /\ mon'[s] = "pollExit")
<1> USE DEF HandshakeOK, ControlOK, PaperInv, InstantOK, Up
<1>1. CASE PlaceMaker
  <2>1. sig \in Signals /\ pc = "placeMaker" /\ activePos = NoSignal
    BY <1>1 DEF PlaceMaker, SlotTaken, EntryPC
  <2>2. exposure = 0
    BY <2>1 DEF AccountOK, BoughtPC, FilledPC
  <2>3. MakerId(sig) \in OrderIds
    BY <2>1, EntryIds DEF ProbeInv
  <2>4. UNCHANGED <<mon, restarts>>
    BY <1>1 DEF PlaceMaker, MainOnly, monitorVars, processVars
  <2>5. CASE pc' = "pollMaker"
    <3>1. Place(MakerId(sig), Side[sig], FALSE)
      BY <1>1, <2>5 DEF PlaceMaker, PlaceAcked, ReturnToLoop
    <3> QED BY <1>1, <2>1, <2>2, <2>3, <2>5, <3>1
  <2>6. CASE pc' # "pollMaker"
    <3>1. UNCHANGED exchangeVars
      BY <1>1, <2>6, PaperRefusal DEF PlaceMaker, Goto
    <3> QED BY <2>4, <2>6, <3>1
  <2> QED BY <2>5, <2>6
<1>2. ASSUME NEW s \in Signals, PlaceExit(s)
      PROVE  \/ /\ mon'[s] = "pollExit"
                /\ pos[s] = s /\ exposure = Side[s] * Lot
                /\ Place(ExitId(s), -Side[s], TRUE)
             \/ /\ UNCHANGED <<exchangeVars, restarts, pc>>
                /\ \A t \in Signals : mon[t] = "placeExit" => mon'[t] # "pollExit"
  <2>1. mon[s] = "placeExit" /\ UNCHANGED <<pc, restarts>>
    BY <1>2 DEF PlaceExit, MonitorAt, MonitorOnly, mainVars, processVars
  <2>2. pos[s] = s /\ activePos = s
    BY <2>1 DEF MonitorKeepsPosition, Acting, ExitPC
  <2>3. Up /\ pc \notin BoughtPC
    BY <1>2, <2>1, <2>2, SignalAssumption
       DEF PlaceExit, MonitorAt, SlotTaken, BoughtPC, EntryPC, FilledPC, Acting, ExitPC
  <2>4. exposure = Side[s] * Lot
    BY <2>1, <2>2, <2>3, SignalAssumption DEF AccountOK, HoldingPC
  <2>5. CASE /\ mon' = [mon EXCEPT ![s] = "pollExit"]
             /\ PlaceAcked(ExitId(s), -Side[s], TRUE, ContextDone(s))
    BY <2>2, <2>4, <2>5 DEF PlaceAcked, ControlTypeOK
  <2>6. CASE /\ mon' = [mon EXCEPT ![s] = "returned"]
             /\ PlaceFailed(ExitId(s), -Side[s], TRUE, ContextDone(s))
    <3>1. UNCHANGED exchangeVars
      BY <2>6, PaperModeAssumption DEF PlaceFailed, Broken
    <3> QED BY <2>1, <2>6, <3>1 DEF ControlTypeOK
  <2> QED BY <1>2, <2>2, <2>5, <2>6 DEF PlaceExit, MonitorAt
<1>3. CASE (\E s \in Signals : ReceiveSignal(s)) \/ (MainStep /\ ~PlaceMaker)
  <2>1. UNCHANGED <<exchangeVars, restarts>>
    BY <1>3
       DEF ReceiveSignal, MainStep, MainOnly, processVars, exchangeVars, Evaluate,
           CheckMarket, CreateEntryOrder, Submit, PollMaker, AbandonEntry, CancelMaker,
           PlaceIoc, PollIoc, CancelIoc, BookTrade, RaiseOpenFlag, StorePosition, StartMonitor
  <2>2. mon' = mon \/ mon' = [mon EXCEPT ![sig] = "watching"]
    BY <1>3
       DEF ReceiveSignal, MainStep, MainOnly, monitorVars, Evaluate,
           CheckMarket, CreateEntryOrder, Submit, PollMaker, AbandonEntry, CancelMaker,
           PlaceIoc, PollIoc, CancelIoc, BookTrade, RaiseOpenFlag, StorePosition, StartMonitor
  <2>3. \A s \in Signals : ~(mon[s] = "placeExit" /\ mon'[s] = "pollExit")
    BY <2>2 DEF ControlTypeOK
  <2>4. ~(pc = "placeMaker" /\ pc' = "pollMaker")
    BY <1>3
       DEF ReceiveSignal, MainStep, Evaluate, CheckMarket, CreateEntryOrder, Submit, PollMaker,
           AbandonEntry, CancelMaker, PlaceIoc, PollIoc, CancelIoc, BookTrade,
           RaiseOpenFlag, StorePosition, StartMonitor
  <2> QED BY <2>1, <2>3, <2>4
<1>4. ASSUME NEW s \in Signals, ~PlaceExit(s), MonitorStep(s) \/ MonitorStop(s) \/ KeepWatching(s)
      PROVE  /\ UNCHANGED <<exchangeVars, restarts, pc>>
             /\ \A t \in Signals : mon[t] = "placeExit" => mon'[t] # "pollExit"
  <2> USE <1>4
      DEF MonitorStep, MonitorAt, MonitorOnly, mainVars, processVars, exchangeVars, MonitorStop,
          KeepWatching, MonitorTick, DecideExit, BeginExit, PollExit, CancelExit, PlaceReprice,
          PollReprice, CancelReprice, RecordResult, LowerOpenFlag, ClearPosition, ClearCancel
  <2>1. UNCHANGED <<exchangeVars, restarts, pc>>
    OBVIOUS
  <2>2. \E here, next : /\ mon[s] = here /\ here # "placeExit"
                        /\ mon' = [mon EXCEPT ![s] = next]
    OBVIOUS
  <2> QED BY <2>1, <2>2 DEF ControlTypeOK
<1>5. CASE Shutdown \/ ProcessEnds \/ DateChanges \/ ExchangeStep
  <2>1. UNCHANGED <<exchangeVars, restarts, mon>>
    BY <1>5 DEF Shutdown, ProcessEnds, DateChanges, ExchangeStep, Fill, Expire, processVars,
       monitorVars, exchangeVars
  <2>2. pc' # "pollMaker" \/ pc' = pc
    BY <1>5 DEF Shutdown, ProcessEnds, DateChanges, ExchangeStep, Goto, mainVars
  <2> QED BY <2>1, <2>2
<1> QED BY <1>1, <1>2, <1>3, <1>4, <1>5 DEF Next, MonitorStep

\* What the account does in it: an order is bought or sold at some price, the
\* account is new, or nothing happens.
LEMMA AccountCalls ==
    ASSUME HandshakeOK, ProbeInv, PaperInv, PaperNext
    PROVE  \/ \E price \in Prices :
                 /\ pc = "placeMaker" /\ sig \in Signals /\ exposure = 0
                 /\ MakerId(sig) \in OrderIds /\ Place(MakerId(sig), Side[sig], FALSE)
                 /\ PaperPlaceOrder(Side[sig], Lot, FALSE, price)
           \/ \E s \in Signals, price \in Prices :
                 /\ mon[s] = "placeExit" /\ exposure = Side[s] * Lot
                 /\ Place(ExitId(s), -Side[s], TRUE)
                 /\ PaperPlaceOrder(-Side[s], Lot, TRUE, price)
           \/ Restart /\ NewAccount
           \/ UNCHANGED <<exchangeVars, paperVars>>
<1> USE DEF HandshakeOK, ControlOK
<1>0. Next /\ AccountStep
  BY DEF PaperNext
<1>1. CASE /\ PlaceMaker /\ pc' = "pollMaker"
           /\ sig \in Signals /\ exposure = 0 /\ MakerId(sig) \in OrderIds
           /\ Place(MakerId(sig), Side[sig], FALSE)
  <2>1. pc = "placeMaker" /\ UNCHANGED <<mon, restarts>>
    BY <1>1 DEF PlaceMaker, MainOnly, monitorVars, processVars
  <2>2. \A o : Sent(o) <=> o = MakerId(sig)
    BY <1>1, <2>1 DEF Sent
  <2>3. exOrders'[MakerId(sig)].side = Side[sig] /\ exOrders'[MakerId(sig)].reduceOnly = FALSE
    BY <1>1 DEF Place, ExchangeTypeOK
  <2> QED BY <1>0, <1>1, <2>1, <2>2, <2>3 DEF AccountStep, Restarted
<1>2. ASSUME NEW s \in Signals, PlaceExit(s), mon'[s] = "pollExit", pos[s] = s,
             exposure = Side[s] * Lot, Place(ExitId(s), -Side[s], TRUE)
      PROVE  \E price \in Prices :
                 mon[s] = "placeExit" /\ PaperPlaceOrder(-Side[s], Lot, TRUE, price)
  <2>1. /\ mon[s] = "placeExit" /\ UNCHANGED <<pc, restarts>>
        /\ \A t \in Signals : t # s => mon'[t] = mon[t]
    BY <1>2 DEF PlaceExit, MonitorAt, MonitorOnly, mainVars, processVars, ControlTypeOK
  <2>2. \A o : Sent(o) <=> o = ExitId(s)
    BY <1>2, <2>1 DEF Sent
  <2>3. ExitId(s) \in OrderIds
    BY DEF ExitId, OrderIds
  <2>4. exOrders'[ExitId(s)].side = -Side[s] /\ exOrders'[ExitId(s)].reduceOnly = TRUE
    BY <1>2, <2>3 DEF Place, ExchangeTypeOK
  <2> QED BY <1>0, <2>1, <2>2, <2>3, <2>4 DEF AccountStep, Restarted
<1>3. CASE Restart
  <2>1. pc = "down" /\ restarts' # restarts /\ \A s \in Signals : mon'[s] = "none"
    BY <1>3 DEF Restart, ControlTypeOK
  <2>2. Restarted /\ \A o : ~Sent(o)
    BY <2>1 DEF Sent, Restarted
  <2> QED BY <1>0, <1>3, <2>2 DEF AccountStep
<1>4. CASE /\ UNCHANGED <<exchangeVars, restarts>>
           /\ ~(pc = "placeMaker" /\ pc' = "pollMaker")
           /\ \A s \in Signals : ~(mon[s] = "placeExit" /\ mon'[s] = "pollExit")
  <2>1. pc # "placeIoc" /\ \A s \in Signals : mon[s] # "placeReprice"
    BY DEF PaperInv, InstantOK
  <2>2. ~Restarted /\ \A o : ~Sent(o)
    BY <1>4, <2>1 DEF Sent, Restarted
  <2> QED BY <1>0, <1>4, <2>2 DEF AccountStep
<1> QED BY <1>0, <1>1, <1>2, <1>3, <1>4, InstantCalls

\* The sums over the list of positions, which never holds more than one.
LEMMA ListSums ==
    /\ positions = << >> => PositionsSum(Held) = 0 /\ PositionsSum(Cost) = 0
    /\ \A p : positions = <<p>> /\ Held(p) \in Int /\ Cost(p) \in Int =>
          PositionsSum(Held) = Held(p) /\ PositionsSum(Cost) = Cost(p)
<1>1. CASE positions = << >>
  <2>1. /\ [i \in DOMAIN positions |-> Held(positions[i])] = [i \in {} |-> 0]
        /\ [i \in DOMAIN positions |-> Cost(positions[i])] = [i \in {} |-> 0]
    BY <1>1
  <2>2. SumFunction([i \in {} |-> 0]) = 0
    BY SumOfNothing, FS_EmptySet
  <2> QED BY <1>1, <2>1, <2>2 DEF PositionsSum
<1>2. ASSUME NEW n \in Int PROVE SumFunction([i \in {1} |-> n]) = n
  <2> DEFINE v == [i \in {1} |-> 0]
             w == [i \in {1} |-> n]
  <2>1. IsFiniteSet({1})
    BY FS_Singleton
  <2>2. SumFunction(v) = 0
    BY <2>1, SumOfNothing
  <2>3. v \in [{1} -> Int] /\ w \in [{1} -> Int] /\ w[1] = n /\ v[1] = 0
        /\ \A y \in {1} \ {1} : w[y] = v[y]
    OBVIOUS
  <2> HIDE DEF v, w
  <2>4. SumFunction(w) = SumFunction(v) + (w[1] - v[1])
    BY <2>1, <2>3, SumChanges
  <2> QED BY <2>2, <2>3, <2>4 DEF w
<1>3. ASSUME NEW p, positions = <<p>>, Held(p) \in Int, Cost(p) \in Int
      PROVE  PositionsSum(Held) = Held(p) /\ PositionsSum(Cost) = Cost(p)
  <2>1. /\ [i \in DOMAIN positions |-> Held(positions[i])] = [i \in {1} |-> Held(p)]
        /\ [i \in DOMAIN positions |-> Cost(positions[i])] = [i \in {1} |-> Cost(p)]
    BY <1>3
  <2> QED BY <1>2, <1>3, <2>1 DEF PositionsSum
<1> QED BY <1>1, <1>3

\* closePositionsLocked on a list of one position.
LEMMA CloseTheOne ==
    ASSUME NEW p, positions = <<p>>, NEW qty, NEW price
    PROVE  ClosePositions(qty, price) =
               CloseOne([remaining |-> qty, pnl |-> 0, kept |-> << >>], p, price)
<1> DEFINE D == DOMAIN positions
           start == [remaining |-> qty, pnl |-> 0, kept |-> << >>]
           step(f) == [s \in SUBSET D |->
                          IF s = {} THEN start
                          ELSE CloseOne(f[s \ {Max(s)}], positions[Max(s)], price)]
           F == CHOOSE f : f = step(f)
<1>1. ClosePositions(qty, price) = F[D]
  BY Zenon DEF ClosePositions, FoldLeft, MapThenFoldSet
<1>2. D = {1} /\ positions[1] = p
  OBVIOUS
<1>3. Max({1}) = 1
  BY DEF Max
<1>4. \E f : f = step(f)
  <2> DEFINE g == [s \in SUBSET D |-> IF s = {} THEN start ELSE CloseOne(start, p, price)]
  <2> HIDE DEF start
  <2>1. ASSUME NEW s \in SUBSET D PROVE step(g)[s] = g[s]
    <3>1. s = {} \/ s = {1}
      BY <1>2
    <3>2. CASE s = {}
      BY <3>2
    <3>3. CASE s = {1}
      <4>1. Max(s) = 1 /\ s \ {Max(s)} = {} /\ {} \in SUBSET D /\ s # {}
        BY <1>3, <3>3
      <4> QED BY <1>2, <4>1
    <3> QED BY <3>1, <3>2, <3>3
  <2>2. g = step(g)
    <3>1. DOMAIN g = SUBSET D /\ DOMAIN step(g) = SUBSET D
      OBVIOUS
    <3> QED BY <2>1
  <2> QED BY <2>2
<1>5. F = step(F)
  <2> HIDE DEF step
  <2> QED BY <1>4, Zenon
<1>6. F[D] = CloseOne(start, p, price)
  <2>1. Max(D) = 1 /\ D \ {Max(D)} = {} /\ D # {} /\ D \in SUBSET D /\ {} \in SUBSET D
    BY <1>2, <1>3
  <2> HIDE DEF F, D, start
  <2>2. F[{}] = start
    BY <1>5, <2>1
  <2>3. F[D] = CloseOne(F[{}], p, price)
    BY <1>2, <1>5, <2>1
  <2> QED BY <2>2, <2>3
<1> QED BY <1>1, <1>6

\* What the fills were paid and brought, less the fees, is in the balance; what
\* is held was paid for.
LedgerOK ==
    /\ cash \in Int
    /\ \/ /\ exposure = 0
          /\ positions = << >>
          /\ simulatedBalance = InitialBalance + cash
       \/ \E s \in Signals, price \in Prices :
             /\ exposure = Side[s] * Lot
             /\ positions = <<[side |-> Side[s], quantity |-> Lot, entryPrice |-> price]>>
             /\ simulatedBalance = InitialBalance + cash + Side[s] * Lot * price

LEMMA FeeType ==
    ASSUME NEW price \in Prices
    PROVE  price \in Int /\ Lot \in Int /\ Fee(price, Lot) \in Int
BY PaperAssumption, ExchangeAssumption DEF Fee

\* A signal's order is known by what it is worth.
LEMMA SameSide ==
    ASSUME NEW s \in Signals, NEW t \in Signals, Side[s] * Lot = Side[t] * Lot
    PROVE  Side[s] = Side[t]
<1>1. Side[s] \in {1, -1} /\ Side[t] \in {1, -1} /\ Lot \in Nat /\ Lot # 0
  BY ExchangeAssumption
<1> QED BY <1>1

LEMMA LedgerBuys ==
    ASSUME LedgerOK, NEW s \in Signals, NEW price \in Prices, exposure = 0,
           Place(MakerId(s), Side[s], FALSE), PaperPlaceOrder(Side[s], Lot, FALSE, price)
    PROVE  LedgerOK'
<1>1. exposure' = Side[s] * Lot
  BY PaperBuys
<1>2. \A t \in Signals : exposure # Side[t] * Lot
  BY PaperWorth, ExchangeAssumption
<1>3. positions = << >> /\ simulatedBalance = InitialBalance + cash
  BY <1>2 DEF LedgerOK
<1>4. positions' = <<[side |-> Side[s], quantity |-> Lot, entryPrice |-> price]>>
  BY <1>3 DEF PaperPlaceOrder
<1>5. /\ cash' = cash - Side[s] * Lot * price - Fee(price, Lot)
      /\ simulatedBalance' = simulatedBalance - Fee(price, Lot)
  BY Zenon DEF PaperPlaceOrder
<1>6. Side[s] * Lot * price \in Int
  BY PaperWorth, FeeType, ExchangeAssumption
<1>7. cash' \in Int /\ simulatedBalance' = InitialBalance + cash' + Side[s] * Lot * price
  <2> DEFINE paid == Side[s] * Lot * price
  <2> HIDE DEF paid
  <2>1. cash \in Int /\ paid \in Int /\ Fee(price, Lot) \in Int /\ InitialBalance \in Int
    BY <1>6, FeeType, PaperAssumption DEF LedgerOK, paid
  <2>2. cash' = cash - paid - Fee(price, Lot)
    BY <1>5 DEF paid
  <2>3. cash' \in Int /\ simulatedBalance' = InitialBalance + cash' + paid
    BY <1>3, <1>5, <2>1, <2>2
  <2> QED BY <2>3 DEF paid
<1> QED BY <1>1, <1>4, <1>7 DEF LedgerOK

\* closePositionsLocked never looks at the side of the order, but the one
\* position it finds is of the other side.
LEMMA LedgerSells ==
    ASSUME LedgerOK, NEW s \in Signals, NEW price \in Prices, exposure = Side[s] * Lot,
           Place(ExitId(s), -Side[s], TRUE), PaperPlaceOrder(-Side[s], Lot, TRUE, price)
    PROVE  LedgerOK'
<1>1. exposure' = 0
  BY PaperSells
<1>2. exposure # 0
  BY PaperWorth, ExchangeAssumption
<1>3. PICK t \in Signals, paid \in Prices :
         /\ exposure = Side[t] * Lot
         /\ positions = <<[side |-> Side[t], quantity |-> Lot, entryPrice |-> paid]>>
         /\ simulatedBalance = InitialBalance + cash + Side[t] * Lot * paid
  BY <1>2 DEF LedgerOK
<1>4. Side[t] = Side[s]
  BY <1>3, SameSide
<1> DEFINE p == [side |-> Side[t], quantity |-> Lot, entryPrice |-> paid]
           start == [remaining |-> Lot, pnl |-> 0, kept |-> << >>]
           closed == CloseOne(start, p, price)
<1>5. ClosePositions(Lot, price) = closed
  BY <1>3, CloseTheOne
<1>6. closed.kept = << >> /\ closed.pnl = 0 + Side[s] * Lot * (price - paid)
  BY <1>4, ExchangeAssumption DEF CloseOne
<1>7. /\ positions' = << >>
      /\ simulatedBalance' = simulatedBalance - Fee(price, Lot)
                                 + (0 + Side[s] * Lot * (price - paid))
      /\ cash' = cash - (-Side[s]) * Lot * price - Fee(price, Lot)
  BY <1>5, <1>6 DEF PaperPlaceOrder
<1>8. cash' \in Int /\ simulatedBalance' = InitialBalance + cash'
  <2> DEFINE brought == Lot * price
             spent == Lot * paid
             fee == Fee(price, Lot)
  <2>1. /\ brought \in Int /\ spent \in Int /\ fee \in Int /\ cash \in Int /\ InitialBalance \in Int
        /\ Lot * (price - paid) = brought - spent
    BY FeeType, PaperAssumption DEF LedgerOK
  <2>2. CASE Side[s] = 1
    <3>0. (-Side[s]) * Lot = -Lot /\ (-Lot) * price = -brought
      BY <2>2, FeeType
    <3>1. cash' = cash - (-brought) - fee
      BY <1>7, <3>0
    <3>2. simulatedBalance = InitialBalance + cash + spent
      BY <1>3, <1>4, <2>1, <2>2, FeeType
    <3>3. Side[s] * Lot * (price - paid) = brought - spent
      BY <2>1, <2>2, FeeType
    <3>4. simulatedBalance' = simulatedBalance - fee + (0 + (brought - spent))
      BY <1>7, <2>1, <3>2, <3>3
    <3> HIDE DEF brought, spent, fee
    <3> QED BY <2>1, <3>1, <3>2, <3>4
  <2>3. CASE Side[s] = -1
    <3>1. cash' = cash - brought - fee
      BY <1>7, <2>1, <2>3, FeeType
    <3>2. simulatedBalance = InitialBalance + cash - spent
      BY <1>3, <1>4, <2>1, <2>3, FeeType
    <3>3. Side[s] * Lot * (price - paid) = -(brought - spent)
      BY <2>1, <2>3, FeeType
    <3>4. simulatedBalance' = simulatedBalance - fee + (0 - (brought - spent))
      BY <1>7, <2>1, <3>2, <3>3
    <3> HIDE DEF brought, spent, fee
    <3> QED BY <2>1, <3>1, <3>2, <3>4
  <2> QED BY <2>2, <2>3, ExchangeAssumption
<1> QED BY <1>1, <1>7, <1>8 DEF LedgerOK

LEMMA LedgerStep ==
    ASSUME HandshakeOK, ProbeInv, PaperInv, LedgerOK, [PaperNext]_<<vars, paperVars>>
    PROVE  LedgerOK'
<1>1. CASE Restart /\ NewAccount
  BY <1>1, PaperModeAssumption, PaperAssumption
     DEF Restart, ExchangeRestart, NewAccount, LedgerOK
<1>2. CASE UNCHANGED <<exchangeVars, paperVars>>
  BY <1>2 DEF LedgerOK, exchangeVars, paperVars
<1>3. CASE UNCHANGED <<vars, paperVars>>
  BY <1>2, <1>3 DEF vars
<1> QED BY <1>1, <1>2, <1>3, AccountCalls, LedgerBuys, LedgerSells

LEMMA PaperInvariants == PaperSpec => [](HandshakeOK /\ ProbeInv /\ PaperInv /\ LedgerOK)
<1>1. PaperInit => HandshakeOK /\ ProbeInv /\ PaperInv /\ LedgerOK
  <2> SUFFICES ASSUME PaperInit PROVE HandshakeOK /\ ProbeInv /\ PaperInv /\ LedgerOK
    OBVIOUS
  <2>1. ProbeInv
    BY DEF PaperInit, Init, FreshProcess, ProbeInv
  <2>2. LedgerOK
    BY PaperAssumption DEF PaperInit, Init, ExchangeInit, FreshAccount, LedgerOK
  <2> QED BY <2>1, <2>2, HandshakeInit, PaperInvInit DEF PaperInit
<1>2. [PaperNext]_<<vars, paperVars>> => [Next]_vars
  BY DEF PaperNext
<1>3. HandshakeOK /\ ProbeInv /\ PaperInv /\ LedgerOK /\ [PaperNext]_<<vars, paperVars>>
          => HandshakeOK' /\ ProbeInv' /\ PaperInv' /\ LedgerOK'
  BY <1>2, HandshakeStep, ProbeStep, PaperStep, LedgerStep
<1> QED BY <1>1, <1>3, PTL DEF PaperSpec

\* What the list of positions adds up to, from what it holds.
LEMMA LedgerSums ==
    ASSUME LedgerOK
    PROVE  /\ PositionsSum(Held) = exposure
           /\ simulatedBalance = InitialBalance + cash + PositionsSum(Cost)
<1>0. cash \in Int /\ InitialBalance \in Int
  BY PaperAssumption DEF LedgerOK
<1>1. CASE /\ exposure = 0
           /\ positions = << >>
           /\ simulatedBalance = InitialBalance + cash
  BY <1>0, <1>1, ListSums
<1>2. ASSUME NEW s \in Signals, NEW price \in Prices,
             exposure = Side[s] * Lot,
             positions = <<[side |-> Side[s], quantity |-> Lot, entryPrice |-> price]>>,
             simulatedBalance = InitialBalance + cash + Side[s] * Lot * price
      PROVE  /\ PositionsSum(Held) = exposure
             /\ simulatedBalance = InitialBalance + cash + PositionsSum(Cost)
  <2> DEFINE p == [side |-> Side[s], quantity |-> Lot, entryPrice |-> price]
  <2>1. Held(p) = Side[s] * Lot /\ Cost(p) = Side[s] * Lot * price
    BY DEF Held, Cost
  <2>2. Held(p) \in Int /\ Cost(p) \in Int
    BY <2>1, PaperWorth, FeeType, ExchangeAssumption
  <2> HIDE DEF p
  <2>3. positions = <<p>>
    BY <1>2 DEF p
  <2>4. PositionsSum(Held) = Held(p) /\ PositionsSum(Cost) = Cost(p)
    BY <2>2, <2>3, ListSums
  <2> QED BY <1>2, <2>1, <2>4
<1> QED BY <1>1, <1>2 DEF LedgerOK

\* No money appears or gets lost in PlaceOrder, closePositionsLocked and their
\* fees (paper.go:198-385), whatever the prices, and across restarts.
THEOREM PaperBooksBalance == PaperSpec => []BooksBalance
<1>1. LedgerOK => BooksBalance
  BY LedgerSums DEF BooksBalance
<1> QED BY <1>1, PaperInvariants, PTL

\* One signed number stands for the account, whatever the ids of the orders:
\* closePositionsLocked (paper.go:321), which never looks at the side of an
\* order, leaves no position of the other side and none of the wrong size.
THEOREM PaperNetPosition == PaperSpec => [](PositionsSum(Held) = exposure)
<1>1. LedgerOK => PositionsSum(Held) = exposure
  BY LedgerSums
<1> QED BY <1>1, PaperInvariants, PTL

-----------------------------------------------------------------------------
(* The fills behind the net position.  It takes signals whose ids do not    *)
(* end alike: PaperClient keeps its orders under their client ids, and an   *)
(* order placed under the id of another takes its place in the map.         *)

PlacingPC == {"submit", "placeMaker", "pollMaker"}

\* No order is placed twice: a maker id at the exchange is that of a signal
\* that has been probed for, an exit at the exchange that of a monitor that has
\* sold, and a signal gets one order, and one monitor.
OnceOK ==
    /\ IdsOK
    /\ \A id \in ClientIds : Known(<<"maker", id>>) =>
          \E s \in Signals : seen[s] = id /\ probes[s] > 0
    /\ \A s \in Signals :
          /\ Known(ExitId(s)) => mon[s] \in SoldPC \cup {"clearCancel", "returned"}
          /\ seen[s] = NoId => mon[s] = "none"
    /\ pc \in PlacingPC \cup FilledPC => mon[sig] = "none" /\ seen[sig] # NoId

FillsOK == SumFunction(FilledUnits) = exposure

LEMMA OrderIdsFinite ==
    ASSUME IsFiniteSet(Signals), IsFiniteSet(IdSuffixes)
    PROVE  IsFiniteSet(OrderIds)
<1>1. IsFiniteSet(Days)
  BY FS_Interval, LastDayAssumption
<1>2. IsFiniteSet(ClientIds)
  BY <1>1, FS_Product DEF ClientIds
<1>3. IsFiniteSet({"maker", "ioc"}) /\ IsFiniteSet({"exit", "reprice"})
  <2>1. IsFiniteSet({"maker"} \cup {"ioc"}) /\ IsFiniteSet({"exit"} \cup {"reprice"})
    BY FS_Singleton, FS_Union
  <2>2. {"maker", "ioc"} = {"maker"} \cup {"ioc"} /\ {"exit", "reprice"} = {"exit"} \cup {"reprice"}
    OBVIOUS
  <2> QED BY <2>1, <2>2
<1>4. IsFiniteSet({"maker", "ioc"} \X ClientIds) /\ IsFiniteSet({"exit", "reprice"} \X Signals)
  BY <1>2, <1>3, FS_Product
<1> QED BY <1>4, FS_Union DEF OrderIds

LEMMA UnitsType ==
    ASSUME ExchangeTypeOK
    PROVE  FilledUnits \in [OrderIds -> Int]
<1>1. ASSUME NEW o \in OrderIds
      PROVE  exOrders[o].side * exOrders[o].filled \in Int
  BY ExchangeAssumption DEF ExchangeTypeOK, ExOrder
<1> QED BY <1>1 DEF FilledUnits

\* An order under a new id adds what it takes to both sides.
LEMMA NewFill ==
    ASSUME IsFiniteSet(OrderIds), ExchangeTypeOK, FillsOK, NEW o \in OrderIds, ~Known(o),
           NEW side \in {1, -1}, NEW reduceOnly \in BOOLEAN, Place(o, side, reduceOnly)
    PROVE  FillsOK'
<1> DEFINE taken == Room(side, reduceOnly)
<1>1. taken \in Int
  BY RoomType, ExchangeAssumption
<1>2. FilledUnits \in [OrderIds -> Int] /\ FilledUnits' \in [OrderIds -> Int]
  <2>1. ExchangeTypeOK'
    BY PlaceTypes
  <2>2. ASSUME NEW p \in OrderIds
        PROVE  (exOrders'[p].side * exOrders'[p].filled) \in Int
    BY <2>1, ExchangeAssumption DEF ExchangeTypeOK, ExOrder
  <2> QED BY <2>2, UnitsType DEF FilledUnits
<1>3. FilledUnits[o] = 0
  BY DEF FilledUnits, Filled, Known
<1>4. /\ exOrders'[o].status = "FILLED" /\ exOrders'[o].side = side /\ exOrders'[o].filled = taken
      /\ \A p \in OrderIds \ {o} : exOrders'[p] = exOrders[p]
      /\ exposure' = exposure + side * taken
  BY PaperModeAssumption DEF Place, ExchangeTypeOK
<1>5. FilledUnits'[o] = side * taken /\ \A p \in OrderIds \ {o} : FilledUnits'[p] = FilledUnits[p]
  BY <1>4 DEF FilledUnits, Filled
<1>6. SumFunction(FilledUnits') = SumFunction(FilledUnits) + (side * taken - 0)
  BY <1>2, <1>3, <1>5, SumChanges
<1>7. side * taken \in Int
  BY <1>1
<1> HIDE DEF taken
<1> QED BY <1>4, <1>6, <1>7 DEF FillsOK, ExchangeTypeOK

LEMMA NothingFilled ==
    ASSUME IsFiniteSet(OrderIds), exOrders = [o \in OrderIds |-> NoOrder]
    PROVE  SumFunction(FilledUnits) = 0
<1>1. FilledUnits = [o \in OrderIds |-> 0]
  BY DEF FilledUnits, Filled, NoOrder
<1> QED BY <1>1, SumOfNothing

\* Nothing is known of the order an entry is about to place.
LEMMA MakerIsNew ==
    ASSUME ApartSuffixes, HandshakeOK, ProbeInv, OnceOK, pc = "placeMaker"
    PROVE  sig \in Signals /\ ~Known(MakerId(sig))
<1>1. sig \in Signals /\ probes[sig] = 0 /\ seen[sig] # NoId
  BY DEF HandshakeOK, ControlOK, SlotTaken, EntryPC, ProbeInv
<1>2. seen[sig] \in ClientIds
  BY <1>1 DEF HandshakeOK, OrdersTypeOK
<1>3. ASSUME NEW s \in Signals, seen[s] = seen[sig], probes[s] > 0
      PROVE  FALSE
  BY <1>1, <1>3 DEF ApartSuffixes, OnceOK, IdsOK
<1> QED BY <1>1, <1>2, <1>3 DEF OnceOK, MakerId

LEMMA OnceMain ==
    ASSUME HandshakeOK, ProbeInv, PaperInv, OnceOK,
           MainStep \/ (\E s \in Signals : ReceiveSignal(s))
    PROVE  OnceOK'
<1> USE DEF HandshakeOK, ControlOK, ControlTypeOK, OnceOK, PlacingPC, FilledPC, IdsOK, Known,
            ExitId, MainOnly, monitorVars, exchangeVars, historyVars, Goto, ReturnToLoop
<1>1. CASE PlaceMaker
  <2>1. sig \in Signals /\ pc = "placeMaker" /\ seen[sig] \in ClientIds
    BY <1>1 DEF PlaceMaker, SlotTaken, EntryPC, ProbeInv, OrdersTypeOK
  <2>2. UNCHANGED <<mon, seen>>
    BY <1>1 DEF PlaceMaker, UpdateState
  <2>3. probes'[sig] > 0 /\ \A s \in Signals : probes[s] > 0 => probes'[s] > 0
    BY <1>1, <2>1 DEF PlaceMaker
  <2>4. \/ UNCHANGED exOrders
        \/ \A o \in OrderIds : o # MakerId(sig) => exOrders'[o] = exOrders[o]
    BY <1>1, PaperRefusal DEF PlaceMaker, PlaceAcked, Place, ExchangeTypeOK
  <2>5. \A id \in ClientIds : Known(<<"maker", id>>)' => id = seen[sig] \/ Known(<<"maker", id>>)
    BY <2>4 DEF OrderIds, MakerId
  <2>6. \A s \in Signals : Known(ExitId(s))' => Known(ExitId(s))
    BY <2>4 DEF OrderIds, MakerId
  <2>7. pc' \in {"pollMaker", "idle"} /\ (pc' = "pollMaker" => sig' = sig)
    BY <1>1 DEF PlaceMaker
  <2>8. /\ IdsOK'
        /\ \A id \in ClientIds : Known(<<"maker", id>>)' =>
              \E s \in Signals : seen'[s] = id /\ probes'[s] > 0
        /\ \A s \in Signals :
              /\ Known(ExitId(s))' => mon'[s] \in SoldPC \cup {"clearCancel", "returned"}
              /\ seen'[s] = NoId => mon'[s] = "none"
    BY <2>1, <2>2, <2>3, <2>5, <2>6
  <2>9. pc' \in PlacingPC \cup FilledPC => mon'[sig'] = "none" /\ seen'[sig'] # NoId
    BY <2>1, <2>2, <2>7
  <2> QED BY <2>8, <2>9
<1>2. CASE CreateEntryOrder
  <2>1. sig \in Signals /\ UNCHANGED <<mon, exOrders, probes>>
    BY <1>2 DEF CreateEntryOrder, SlotTaken, EntryPC
  <2>2. CASE ReturnToLoop /\ UNCHANGED orderVars
    BY <2>1, <2>2 DEF orderVars
  <2>3. CASE CreateOrder(sig) /\ Goto("submit")
    <3>1. GenerateClientOrderID(sig, today) # NoId /\ GenerateClientOrderID(sig, today)[2] = Suffix[sig]
      BY <2>1, IdTypes DEF RiskStateOK, ClientIds, NoId, GenerateClientOrderID
    <3>2. seen[sig] = NoId /\ NoId \notin ClientIds
      BY <2>3 DEF CreateOrder, Duplicate, NoId, ClientIds
    <3>3. /\ seen'[sig] = GenerateClientOrderID(sig, today)
          /\ \A s \in Signals : s # sig => seen'[s] = seen[s]
      BY <2>1, <2>3 DEF CreateOrder, OrdersTypeOK
    <3>4. \A id \in ClientIds : Known(<<"maker", id>>)' =>
             \E s \in Signals : seen'[s] = id /\ probes'[s] > 0
      <4> SUFFICES ASSUME NEW id \in ClientIds, Known(<<"maker", id>>)'
                   PROVE  \E s \in Signals : seen'[s] = id /\ probes'[s] > 0
        OBVIOUS
      <4>1. PICK s \in Signals : seen[s] = id /\ probes[s] > 0
        BY <2>1
      <4>2. s # sig
        BY <3>2, <4>1
      <4> QED BY <2>1, <3>3, <4>1, <4>2
    <3>5. IdsOK'
      BY <3>1, <3>3
    <3>6. \A s \in Signals :
              /\ Known(ExitId(s))' => mon'[s] \in SoldPC \cup {"clearCancel", "returned"}
              /\ seen'[s] = NoId => mon'[s] = "none"
      BY <2>1, <3>2, <3>3
    <3>7. mon'[sig'] = "none" /\ seen'[sig'] # NoId
      BY <2>1, <2>3, <3>1, <3>2, <3>3
    <3> QED BY <3>4, <3>5, <3>6, <3>7
  <2> QED BY <1>2, <2>2, <2>3 DEF CreateEntryOrder
<1>3. CASE StartMonitor
  <2>1. sig \in Signals /\ pc = "startMonitor"
    BY <1>3 DEF StartMonitor, SlotTaken
  <2>2. ~Known(ExitId(sig)) /\ seen[sig] # NoId
    BY <2>1 DEF SoldPC
  <2>3. mon' = [mon EXCEPT ![sig] = "watching"] /\ UNCHANGED <<seen, probes, exOrders>>
        /\ pc' = "idle"
    BY <1>3 DEF StartMonitor, orderVars
  <2> QED BY <2>1, <2>2, <2>3
<1>4. CASE (\E s \in Signals : ReceiveSignal(s))
           \/ (MainStep /\ ~PlaceMaker /\ ~CreateEntryOrder /\ ~StartMonitor)
  <2>1. UNCHANGED <<seen, probes, exOrders, mon>>
    BY <1>4
       DEF MainStep, ReceiveSignal, orderVars, Evaluate, CheckMarket, Submit, UpdateState,
           PollMaker, MarkFilled, BookTrade, RaiseOpenFlag, StorePosition,
           AbandonEntry, CancelMaker, PlaceIoc, PollIoc, CancelIoc, PaperInv, InstantOK
  <2>2. \/ pc' \notin PlacingPC \cup FilledPC
        \/ pc \in PlacingPC \cup FilledPC /\ sig' = sig
    BY <1>4
       DEF MainStep, ReceiveSignal, Evaluate, CheckMarket, Submit, PollMaker, BookTrade,
           RaiseOpenFlag, StorePosition, AbandonEntry, CancelMaker, PlaceIoc, PollIoc, CancelIoc,
           PaperInv, InstantOK
  <2> QED BY <2>1, <2>2
<1> QED BY <1>1, <1>2, <1>3, <1>4

LEMMA OnceMonitor ==
    ASSUME HandshakeOK, PaperInv, PaperInv', OnceOK, NEW s \in Signals,
           MonitorStep(s) \/ MonitorStop(s) \/ KeepWatching(s)
    PROVE  OnceOK'
<1> USE DEF HandshakeOK, ControlOK, ControlTypeOK
<1>1. UNCHANGED <<pc, sig, seen, probes>>
  BY DEF MonitorOnly, mainVars, orderVars, MonitorStep, MonitorStop, KeepWatching,
         MonitorTick, DecideExit, BeginExit, PlaceExit, PollExit, CancelExit,
         PlaceReprice, PollReprice, CancelReprice, RecordResult, LowerOpenFlag,
         ClearPosition, ClearCancel
<1>2. /\ mon[s] # "none"
      /\ \A t \in Signals : t # s => mon'[t] = mon[t]
      /\ mon[s] \in SoldPC \cup {"clearCancel", "returned"} =>
            mon'[s] \in SoldPC \cup {"clearCancel", "returned"}
  <2>1. mon'[s] # "cancelExit"
    BY DEF PaperInv, InstantOK
  <2> QED
    BY <2>1
       DEF MonitorAt, MonitorStep, MonitorStop, KeepWatching, MonitorTick, DecideExit, BeginExit,
           PlaceExit, PollExit, CancelExit, PlaceReprice, PollReprice, CancelReprice,
           RecordResult, LowerOpenFlag, ClearPosition, ClearCancel, SoldPC
<1>3. \/ UNCHANGED exOrders
      \/ /\ mon'[s] \in SoldPC \cup {"returned"}
         /\ \A o \in OrderIds : o # ExitId(s) => exOrders'[o] = exOrders[o]
  <2>1. CASE PlaceExit(s)
    <3>1. pos[s] = s
      BY <2>1 DEF PlaceExit, MonitorAt, MonitorKeepsPosition, ExitPC
    <3>2. CASE PlaceFailed(ExitId(s), -Side[s], TRUE, ContextDone(s))
      BY <3>2, PaperModeAssumption DEF PlaceFailed, Broken, exchangeVars
    <3>3. CASE Place(ExitId(s), -Side[s], TRUE) /\ MonitorAt(s, "placeExit", "pollExit")
      BY <3>3 DEF Place, ExchangeTypeOK, MonitorAt, SoldPC
    <3> QED BY <2>1, <3>1, <3>2, <3>3 DEF PlaceExit, PlaceAcked
  <2>2. CASE ~PlaceExit(s)
    BY <2>2
       DEF PaperInv, InstantOK, exchangeVars, MonitorAt, MonitorStep, MonitorStop, KeepWatching,
           MonitorTick, DecideExit, BeginExit, PollExit, CancelExit, PlaceReprice, PollReprice,
           CancelReprice, RecordResult, LowerOpenFlag, ClearPosition, ClearCancel
  <2> QED BY <2>1, <2>2
<1>4. \A id \in ClientIds : Known(<<"maker", id>>)' => Known(<<"maker", id>>)
  BY <1>3 DEF Known, OrderIds, ExitId
<1>5. \A t \in Signals : t # s /\ Known(ExitId(t))' => Known(ExitId(t))
  BY <1>3 DEF Known, OrderIds, ExitId
<1>6. Known(ExitId(s))' => mon'[s] \in SoldPC \cup {"clearCancel", "returned"}
  BY <1>2, <1>3 DEF Known, ExitId, OnceOK
<1>7. seen[s] # NoId /\ ~(pc \in PlacingPC \cup FilledPC /\ s = sig)
  BY <1>2 DEF OnceOK
<1>8. pc \in PlacingPC \cup FilledPC => sig \in Signals
  BY DEF SlotTaken, EntryPC, PlacingPC
<1>9. ASSUME NEW t \in Signals
      PROVE  /\ Known(ExitId(t))' => mon'[t] \in SoldPC \cup {"clearCancel", "returned"}
             /\ seen'[t] = NoId => mon'[t] = "none"
  BY <1>1, <1>2, <1>5, <1>6, <1>7 DEF OnceOK, ExitId
<1>10. IdsOK'
  BY <1>1 DEF OnceOK, IdsOK
<1>11. \A id \in ClientIds : Known(<<"maker", id>>)' =>
          \E t \in Signals : seen'[t] = id /\ probes'[t] > 0
  BY <1>1, <1>4 DEF OnceOK
<1>12. pc' \in PlacingPC \cup FilledPC => mon'[sig'] = "none" /\ seen'[sig'] # NoId
  BY <1>1, <1>2, <1>7, <1>8 DEF OnceOK
<1> QED BY <1>9, <1>10, <1>11, <1>12 DEF OnceOK

LEMMA OnceStep ==
    ASSUME HandshakeOK, ProbeInv, PaperInv, PaperInv', OnceOK, [Next]_vars
    PROVE  OnceOK'
<1> USE DEF OnceOK, IdsOK, Known, ExitId
<1>1. CASE UNCHANGED vars
  BY <1>1 DEF vars, orderVars, exchangeVars, mainVars, monitorVars, historyVars
<1>2. CASE Restart
  <2>1. /\ \A o \in OrderIds : exOrders'[o].status = "NONE"
        /\ \A s \in Signals : mon'[s] = "none" /\ seen'[s] = NoId
        /\ pc' = "idle"
    BY <1>2, PaperModeAssumption DEF Restart, ExchangeRestart, NoOrder, NewManager
  <2> QED BY <2>1 DEF OrderIds, PlacingPC, FilledPC
<1>3. CASE Shutdown \/ ProcessEnds \/ DateChanges \/ ExchangeStep
  <2>1. UNCHANGED <<seen, probes, exOrders, mon>>
    BY <1>3
       DEF Shutdown, ProcessEnds, DateChanges, ExchangeStep, Fill, Expire, PaperInv, InstantOK,
           orderVars, exchangeVars, monitorVars, historyVars
  <2>2. pc' \notin PlacingPC \cup FilledPC \/ UNCHANGED <<pc, sig>>
    BY <1>3 DEF Shutdown, ProcessEnds, DateChanges, ExchangeStep, Goto, mainVars, PlacingPC, FilledPC
  <2> QED BY <2>1, <2>2
<1> QED BY <1>1, <1>2, <1>3, OnceMain, OnceMonitor DEF Next

LEMMA FillsStep ==
    ASSUME IsFiniteSet(OrderIds), ApartSuffixes, HandshakeOK, ProbeInv, PaperInv, OnceOK,
           FillsOK, [Next]_vars
    PROVE  FillsOK'
<1>1. CASE UNCHANGED exchangeVars
  <2>1. FilledUnits' = FilledUnits /\ exposure' = exposure
    BY <1>1 DEF FilledUnits, Filled, exchangeVars
  <2> QED BY <2>1 DEF FillsOK
<1>2. CASE UNCHANGED vars
  BY <1>1, <1>2 DEF vars
<1>3. CASE Restart
  <2>1. (exOrders = [o \in OrderIds |-> NoOrder])' /\ exposure' = 0
    BY <1>3, PaperModeAssumption DEF Restart, ExchangeRestart
  <2>2. FilledUnits' = [o \in OrderIds |-> 0]
    BY <2>1 DEF FilledUnits, Filled, NoOrder
  <2>3. SumFunction(FilledUnits') = 0
    BY <2>2, SumOfNothing
  <2> QED BY <2>1, <2>3 DEF FillsOK
<1>4. CASE PlaceMaker /\ sig \in Signals /\ MakerId(sig) \in OrderIds
           /\ Place(MakerId(sig), Side[sig], FALSE)
  <2>1. ~Known(MakerId(sig))
    BY <1>4, MakerIsNew DEF PlaceMaker
  <2> QED BY <1>4, <2>1, NewFill, ExchangeAssumption DEF HandshakeOK
<1>5. ASSUME NEW s \in Signals, PlaceExit(s), Place(ExitId(s), -Side[s], TRUE)
      PROVE  FillsOK'
  <2>1. ~Known(ExitId(s))
    BY <1>5 DEF PlaceExit, MonitorAt, OnceOK, SoldPC
  <2>2. ExitId(s) \in OrderIds /\ -Side[s] \in {1, -1}
    BY ExchangeAssumption DEF ExitId, OrderIds
  <2> QED BY <1>5, <2>1, <2>2, NewFill DEF HandshakeOK
<1> QED BY <1>1, <1>2, <1>3, <1>4, <1>5, InstantCalls

LEMMA OrdersStep ==
    ASSUME IsFiniteSet(OrderIds), ApartSuffixes, HandshakeOK, ProbeInv, PaperInv, PaperInv',
           OnceOK, FillsOK, [PaperNext]_<<vars, paperVars>>
    PROVE  OnceOK' /\ FillsOK'
<1>1. [Next]_vars
  BY DEF PaperNext
<1> QED BY <1>1, OnceStep, FillsStep

\* The positions of the account are what the orders it reports as filled add up
\* to: with InstantOK no order is cancelled after its fill (paper.go:282), and
\* with LedgerOK the position an exit closes is the one of its signal.
THEOREM PaperPositionsAreFills ==
    ASSUME ApartSuffixes, IsFiniteSet(Signals), IsFiniteSet(IdSuffixes)
    PROVE  PaperSpec => []PositionsAreFills
<1>0. IsFiniteSet(OrderIds)
  BY OrderIdsFinite
<1>1. PaperInit => OnceOK /\ FillsOK
  <2> SUFFICES ASSUME PaperInit PROVE OnceOK /\ FillsOK
    OBVIOUS
  <2>1. exOrders = [o \in OrderIds |-> NoOrder] /\ exposure = 0
    BY DEF PaperInit, Init, ExchangeInit
  <2>2. FillsOK
    BY <1>0, <2>1, NothingFilled DEF FillsOK
  <2>3. OnceOK
    BY <2>1 DEF PaperInit, Init, FreshProcess, FreshManager, OnceOK, IdsOK, Known, NoOrder,
                ExitId, OrderIds, PlacingPC, FilledPC
  <2> QED BY <2>2, <2>3
<1>2. HandshakeOK /\ ProbeInv /\ PaperInv /\ PaperInv' /\ OnceOK /\ FillsOK
          /\ [PaperNext]_<<vars, paperVars>>
          => OnceOK' /\ FillsOK'
  BY <1>0, OrdersStep
<1>3. LedgerOK /\ FillsOK => PositionsAreFills
  BY LedgerSums DEF FillsOK, PositionsAreFills
<1> QED BY <1>1, <1>2, <1>3, PaperInvariants, PTL DEF PaperSpec
=============================================================================
