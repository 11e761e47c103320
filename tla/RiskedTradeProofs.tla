-------------------------- MODULE RiskedTradeProofs --------------------------
(***************************************************************************)
(* Trades under the risk engine, for any limits, prices, quantities, lock  *)
(* steps and timers: what an order may lose, which day sized it, and what  *)
(* a watched position is worth.                                            *)
(***************************************************************************)
EXTENDS RiskedTrade, RiskEngineProofs, WellFoundedInduction

Sides == {"BUY", "SELL"}

(* The stages before there is a position, and those with one. *)
Before == {"idle", "gate", "balance", "entering", "recordTrade", "setOpen"}
Within == {"open", "exiting", "setClosed", "stuck"}

Positions ==
    [side : Sides, entryPrice : Int, quantity : Nat, stopLoss : Int, takeProfit : Int,
     trailingStep : 0 .. Len(Steps), bestPnL : Nat, lockedPnL : Nat]

(* Stop and target stay where the entry put them. *)
AsEntered(p) ==
    IF p.side = "BUY"
    THEN p.stopLoss = p.entryPrice - InitialStopLoss /\ p.takeProfit = p.entryPrice + MaxTakeProfit
    ELSE p.stopLoss = p.entryPrice + InitialStopLoss /\ p.takeProfit = p.entryPrice - MaxTakeProfit

SameTrade(p, q) ==
    /\ q.side = p.side /\ q.entryPrice = p.entryPrice /\ q.quantity = p.quantity
    /\ q.stopLoss = p.stopLoss /\ q.takeProfit = p.takeProfit

(* What is locked is what the last step reached locks. *)
LocksItsStep(p) ==
    p.lockedPnL = IF p.trailingStep = 0 THEN 0 ELSE Steps[p.trailingStep].lock

WatchOK ==
    /\ stage \in Before => position = NoPosition
    /\ stage \in Within => position \in Positions /\ AsEntered(position) /\ LocksItsStep(position)
    /\ stage = "open" => peak = position.bestPnL

(* What ProcessSignal carries from one step to the next. *)
HandOK ==
    /\ stage = "gate" => signal \in [side : Sides, price : Nat]
    /\ stage \in {"balance", "entering"} =>
          signal \in [side : Sides, suggested : Int, twiceMid : Nat]
    /\ stage = "entering" =>
          ticket \in [qty : Nat, equity : Nat, twiceMid : Nat, level : {"base", "escalated"}]
    /\ stage \in {"recordTrade", "setOpen"} =>
          signal \in [side : Sides, filled : Int] /\ ticket \in [qty : Nat]

(* From the evaluation to the entry the engine's date stands still. *)
DateOK ==
    stage \in {"gate", "balance", "entering"} =>
        lastTradeDate \in {NoDate, evalDate} /\ evalDate <= today

(* Between the sizing and the entry the level is not touched either. *)
LevelOK == stage = "entering" => ticket.level = currentRiskPercent

(* The engine's date is the date of the first loss of the streak. *)
LossDatesOK ==
    consecutiveLosses > 0 /\ ~misdated => oldestLoss \in Days /\ lastTradeDate = oldestLoss

TradeInv ==
    /\ RiskStateOK /\ TradeTypeOK /\ HandOK /\ WatchOK /\ DateOK /\ LevelOK /\ LossDatesOK
    /\ RiskWithinBudget /\ HeldAboveLocks

-----------------------------------------------------------------------------
(* Arithmetic.                                                             *)

\* Integer division rounds down.
LEMMA FloorDiv ==
    ASSUME NEW n \in Nat, NEW d \in Nat \ {0}
    PROVE  /\ n \div d \in Nat
           /\ (n \div d) * d <= n
           /\ n < (n \div d + 1) * d
OBVIOUS

LEMMA MulMono ==
    ASSUME NEW a \in Nat, NEW b \in Nat, NEW c \in Nat, a <= b
    PROVE  a * c <= b * c
OBVIOUS

LEMMA MulAssoc ==
    ASSUME NEW a \in Nat, NEW b \in Nat, NEW c \in Nat
    PROVE  (a * b) * c = a * (b * c) /\ a * b = b * a /\ a * b \in Nat
OBVIOUS

\* A multiple of the step leaves no remainder.
LEMMA MulMod ==
    ASSUME NEW q \in Nat, NEW s \in Nat \ {0}
    PROVE  (q * s) % s = 0
OBVIOUS

\* A multiple of the step that is not above a number is not above what the
\* number rounds down to.
LEMMA StepBelow ==
    ASSUME NEW m \in Nat, NEW n \in Nat, NEW s \in Nat \ {0}, m % s = 0, m <= n
    PROVE  m <= (n \div s) * s
<1>1. m = (m \div s) * s /\ m \div s \in Nat /\ n \div s \in Nat /\ n < (n \div s + 1) * s
  BY FloorDiv
<1>2. m \div s <= n \div s
  <2> SUFFICES ASSUME n \div s + 1 <= m \div s PROVE FALSE
    BY <1>1
  <2>1. (n \div s + 1) * s <= (m \div s) * s
    BY <1>1, MulMono
  <2> QED  BY <1>1, <2>1
<1> QED  BY <1>1, <1>2, MulMono

\* A set of numbers with an upper bound has a greatest member.
LEMMA MaxOfBounded ==
    ASSUME NEW n \in Nat, NEW S, S \subseteq 0 .. n, S # {}
    PROVE  Max(S) \in S /\ \A k \in S : k <= Max(S)
<1> DEFINE R == OpToRel(<, Nat)
           T == {n - k : k \in S}
<1>1. T \subseteq Nat /\ T # {}
  <2>1. \A k \in S : n - k \in Nat /\ n - k \in T
    <3>1. \A k \in 0 .. n : n - k \in Nat
      OBVIOUS
    <3> QED  BY <3>1
  <2> QED  BY <2>1
<1>2. IsWellFoundedOn(R, Nat)
  BY NatLessThanWellFounded, Zenon
<1>3. \A a, b \in Nat : <<a, b>> \in R <=> a < b
  BY DEF OpToRel
<1> HIDE DEF R
<1>4. PICK t \in T : \A y \in T : <<y, t>> \notin R
  BY <1>1, <1>2, WFMin
<1>5. PICK m \in S : t = n - m
  OBVIOUS
<1>6. ASSUME NEW k \in S PROVE k <= m
  <2>1. n - k \in T /\ n - k \in Nat /\ t \in Nat
    BY <1>1
  <2>2. ~(n - k < t)
    BY <1>3, <1>4, <2>1
  <2> QED  BY <1>5, <2>1, <2>2
<1>7. \E x \in S : \A k \in S : x >= k
  BY <1>5, <1>6
<1>8. Max(S) \in S /\ \A k \in S : Max(S) >= k
  BY <1>7 DEF Max
<1> QED  BY <1>8
-----------------------------------------------------------------------------
\* What the calculator promises of a quantity it accepts (calculator.go:72-121).
LEMMA SizedWithin ==
    ASSUME NEW equity \in Nat, NEW percent \in Nat, NEW twicePrice \in Nat, NEW qty,
           Calculate(equity, percent, InitialStopLoss, twicePrice, Leverage).valid,
           qty = Calculate(equity, percent, InitialStopLoss, twicePrice, Leverage).normalizedQty
    PROVE  /\ qty \in Nat
           /\ qty * InitialStopLoss * 100 <= equity * percent
           /\ qty * twicePrice <= 2 * equity * Leverage
           /\ qty >= MinQty /\ qty % QtyStep = 0
           /\ qty + QtyStep <= MaxQty =>
                 (qty + QtyStep) * InitialStopLoss * 100 > equity * percent
<1> DEFINE num == equity * percent
           den == 100 * InitialStopLoss
           q   == num \div (den * QtyStep)
           cut == MaxQty \div (1 * QtyStep)
<1>0. /\ InitialStopLoss \in Nat \ {0} /\ QtyStep \in Nat \ {0}
      /\ MinQty \in Nat /\ MaxQty \in Nat
      /\ MinQty % QtyStep = 0 /\ (MaxQty > 0 => MinQty <= MaxQty)
  BY MonitorAssumption, SizingAssumption, QuantityAssumption
     DEF MonitorAssumption, SizingAssumption, QuantityAssumption
<1>1. /\ qty = IF MaxQty > 0 /\ q * QtyStep > MaxQty THEN cut * QtyStep ELSE q * QtyStep
      /\ q * QtyStep >= MinQty
      /\ qty * twicePrice <= 2 * equity * Leverage
  BY DEF Calculate, SteppedQty, Clamped, NormalizeQuantity
<1>2. /\ num \in Nat /\ den \in Nat \ {0} /\ den * QtyStep \in Nat \ {0}
      /\ 1 * QtyStep = QtyStep
  BY <1>0, MulMono
<1>3. /\ q \in Nat /\ q * (den * QtyStep) <= num /\ num < (q + 1) * (den * QtyStep)
      /\ cut \in Nat /\ cut * QtyStep <= MaxQty /\ MaxQty < (cut + 1) * QtyStep
  BY <1>0, <1>2, FloorDiv
<1> HIDE DEF q, cut, num
<1>4. \A n \in Nat : (n * QtyStep) * InitialStopLoss * 100 = n * (den * QtyStep)
  <2> TAKE n \in Nat
  <2>1. (n * QtyStep) * InitialStopLoss * 100 = (n * QtyStep) * den
    BY <1>0
  <2>2. (n * QtyStep) * den = n * (QtyStep * den)
    BY <1>0, <1>2, MulAssoc
  <2>3. QtyStep * den = den * QtyStep
    BY <1>0, <1>2, MulAssoc
  <2> QED  BY <2>1, <2>2, <2>3
<1>5. CASE ~(MaxQty > 0 /\ q * QtyStep > MaxQty)
  <2>1. qty = q * QtyStep /\ qty \in Nat /\ qty % QtyStep = 0 /\ qty >= MinQty
    BY <1>0, <1>1, <1>3, <1>5, MulMod, MulAssoc
  <2>2. qty * InitialStopLoss * 100 <= num
    BY <1>3, <1>4, <2>1
  <2>3. qty + QtyStep = (q + 1) * QtyStep /\ q + 1 \in Nat
    BY <1>0, <1>3, <2>1
  <2>4. (qty + QtyStep) * InitialStopLoss * 100 > num
    <3>1. (qty + QtyStep) * InitialStopLoss * 100 = (q + 1) * (den * QtyStep)
      BY <1>4, <2>3
    <3> QED  BY <1>0, <1>2, <1>3, <3>1
  <2> QED  BY <1>1, <2>1, <2>2, <2>4 DEF num
<1>6. CASE MaxQty > 0 /\ q * QtyStep > MaxQty
  <2>1. qty = cut * QtyStep /\ qty \in Nat /\ qty % QtyStep = 0
    BY <1>0, <1>1, <1>3, <1>6, MulMod, MulAssoc
  <2>2. cut <= q
    <3> SUFFICES ASSUME q + 1 <= cut PROVE FALSE
      BY <1>3
    <3>1. (q + 1) * QtyStep <= cut * QtyStep
      BY <1>0, <1>3, MulMono
    <3>2. (q + 1) * QtyStep = q * QtyStep + QtyStep /\ q * QtyStep \in Nat
      BY <1>0, <1>3
    <3>3. cut * QtyStep \in Nat /\ (q + 1) * QtyStep \in Nat
      BY <1>0, <1>3, MulAssoc
    <3> QED  BY <1>0, <1>3, <1>6, <3>1, <3>2, <3>3
  <2>3. qty * InitialStopLoss * 100 <= num
    <3>1. cut * (den * QtyStep) <= q * (den * QtyStep)
      BY <1>2, <1>3, <2>2, MulMono
    <3>2. cut * (den * QtyStep) \in Nat /\ q * (den * QtyStep) \in Nat
      BY <1>2, <1>3, MulAssoc
    <3>3. qty * InitialStopLoss * 100 = cut * (den * QtyStep)
      BY <1>3, <1>4, <2>1
    <3> QED  BY <1>2, <1>3, <3>1, <3>2, <3>3
  <2>4. qty >= MinQty
    <3>1. MinQty <= MaxQty
      BY <1>0, <1>6
    <3>2. MinQty <= (MaxQty \div QtyStep) * QtyStep
      BY <1>0, <3>1, StepBelow
    <3> QED  BY <1>0, <1>2, <2>1, <3>2 DEF cut
  <2>5. ~(qty + QtyStep <= MaxQty)
    <3>1. (cut + 1) * QtyStep = cut * QtyStep + QtyStep
      BY <1>0, <1>3
    <3> QED  BY <1>0, <1>3, <2>1, <3>1
  <2> QED  BY <1>1, <2>1, <2>3, <2>4, <2>5 DEF num
<1> QED  BY <1>5, <1>6

LEMMA ElementsOf ==
    ASSUME NEW S, NEW q \in Seq(S)
    PROVE  \A i \in 1 .. Len(q) : q[i] \in S
OBVIOUS

\* The trailing stop climbs as far as the best PnL reaches (exit.go:148-193).
LEMMA StopTrails ==
    ASSUME NEW p \in Positions, LocksItsStep(p)
    PROVE  /\ CheckTrailingStop(p) \in Positions
           /\ LocksItsStep(CheckTrailingStop(p))
           /\ SameTrade(p, CheckTrailingStop(p))
           /\ CheckTrailingStop(p).bestPnL = p.bestPnL
           /\ \A i \in DOMAIN Steps :
                 Steps[i].profit <= p.bestPnL => i <= CheckTrailingStop(p).trailingStep
<1> DEFINE Reachable == {k \in p.trailingStep .. Len(Steps) :
                            \A i \in p.trailingStep + 1 .. k : p.bestPnL >= Steps[i].profit}
           reached == Max(Reachable)
           q == CheckTrailingStop(p)
<1>0. /\ Len(Steps) \in Nat /\ DOMAIN Steps = 1 .. Len(Steps)
      /\ p.trailingStep \in 0 .. Len(Steps) /\ p.bestPnL \in Nat /\ p.lockedPnL \in Nat
      /\ \A i \in 1 .. Len(Steps) : Steps[i].profit \in Nat /\ Steps[i].lock \in Nat
      /\ \A i, j \in 1 .. Len(Steps) : i < j => Steps[i].profit < Steps[j].profit
  <2>1. Steps \in Seq([profit : Nat, lock : Nat \ {0}])
    BY MonitorAssumption DEF MonitorAssumption
  <2>2. Len(Steps) \in Nat /\ DOMAIN Steps = 1 .. Len(Steps)
    BY <2>1
  <2>3. \A i \in 1 .. Len(Steps) : Steps[i] \in [profit : Nat, lock : Nat \ {0}]
    BY <2>1, ElementsOf
  <2>4. \A i, j \in 1 .. Len(Steps) : i < j => Steps[i].profit < Steps[j].profit
    BY <2>2, MonitorAssumption DEF MonitorAssumption
  <2>5. p.trailingStep \in 0 .. Len(Steps) /\ p.bestPnL \in Nat /\ p.lockedPnL \in Nat
    BY DEF Positions
  <2> QED  BY <2>2, <2>3, <2>4, <2>5
<1>1. Reachable \subseteq 0 .. Len(Steps) /\ p.trailingStep \in Reachable
  <2>1. p.trailingStep \in p.trailingStep .. Len(Steps) /\ p.trailingStep + 1 .. p.trailingStep = {}
    BY <1>0
  <2>2. Reachable \subseteq 0 .. Len(Steps)
    BY <1>0
  <2> QED  BY <2>1, <2>2
<1>2. reached \in Reachable /\ \A k \in Reachable : k <= reached
  <2>1. Reachable # {}
    BY <1>1
  <2> HIDE DEF Reachable
  <2> QED  BY <1>0, <1>1, <2>1, MaxOfBounded
<1>3. reached \in p.trailingStep .. Len(Steps) /\ reached \in 0 .. Len(Steps)
  BY <1>1, <1>2
<1>4. q = IF reached = p.trailingStep THEN p
          ELSE [p EXCEPT !.trailingStep = reached, !.lockedPnL = Steps[reached].lock]
  BY DEF CheckTrailingStop
<1>5. ASSUME NEW i \in DOMAIN Steps, Steps[i].profit <= p.bestPnL
      PROVE  i <= reached
  <2>1. CASE i <= p.trailingStep
    <3>1. p.trailingStep <= reached
      BY <1>0, <1>3
    <3> QED  BY <1>0, <1>3, <2>1, <3>1
  <2>2. CASE i > p.trailingStep
    <3>1. i \in p.trailingStep .. Len(Steps)
      BY <1>0, <2>2
    <3>2. \A j \in p.trailingStep + 1 .. i : p.bestPnL >= Steps[j].profit
      <4> TAKE j \in p.trailingStep + 1 .. i
      <4>1. j \in 1 .. Len(Steps) /\ i \in 1 .. Len(Steps) /\ (j = i \/ j < i)
        BY <1>0, <3>1
      <4>2. Steps[j].profit <= Steps[i].profit
        <5>1. CASE j = i
          BY <1>0, <4>1, <5>1
        <5>2. CASE j < i
          BY <1>0, <4>1, <5>2
        <5> QED  BY <4>1, <5>1, <5>2
      <4> QED  BY <1>0, <1>5, <4>1, <4>2
    <3>3. i \in Reachable
      BY <3>1, <3>2
    <3> QED  BY <1>2, <3>3
  <2> QED  BY <1>0, <2>1, <2>2
<1> HIDE DEF Reachable, reached, q
<1>6. CASE reached = p.trailingStep
  <2>1. q = p
    BY <1>4, <1>6
  <2> QED  BY <1>0, <1>5, <1>6, <2>1 DEF q, SameTrade
<1>7. CASE reached # p.trailingStep
  <2>1. reached \in 1 .. Len(Steps)
    BY <1>0, <1>3, <1>7
  <2>2. q = [p EXCEPT !.trailingStep = reached, !.lockedPnL = Steps[reached].lock]
    BY <1>4, <1>7
  <2>3. /\ q \in Positions /\ q.trailingStep = reached /\ q.lockedPnL = Steps[reached].lock
    BY <1>0, <1>3, <2>1, <2>2 DEF Positions
  <2>4. LocksItsStep(q) /\ SameTrade(p, q) /\ q.bestPnL = p.bestPnL
    BY <2>1, <2>2, <2>3 DEF LocksItsStep, SameTrade, Positions
  <2> QED  BY <1>0, <1>3, <1>5, <2>1, <2>2, <2>3, <2>4 DEF q
<1> QED  BY <1>6, <1>7
-----------------------------------------------------------------------------
(* The monitor.                                                            *)

\* Prices and the profits they make are integers.
LEMMA BookPrices ==
    ASSUME book \in Books
    PROVE  /\ book.bid \in Nat \ {0} /\ book.ask \in Nat \ {0}
           /\ TwiceMid(book) \in Nat
           /\ \A side \in Sides : ExitPrice(side) \in Nat /\ SuggestedEntry(side, book) \in Nat
<1>1. PICK b \in Bids : book = [bid |-> b, ask |-> b + Spread]
  BY DEF Books
<1>2. b \in Nat \ {0} /\ Spread \in Nat
  BY MonitorAssumption DEF MonitorAssumption
<1>3. book.bid = b /\ book.ask = b + Spread
  BY <1>1
<1> QED  BY <1>2, <1>3 DEF TwiceMid, ExitPrice, SuggestedEntry

LEMMA ProfitIsInt ==
    ASSUME NEW p \in Positions, NEW price \in Int
    PROVE  FavorableMove(p, price) \in Int /\ PnL(p, price) \in Int
<1>1. p.entryPrice \in Int /\ p.quantity \in Nat
  BY DEF Positions
<1>2. FavorableMove(p, price) \in Int
  BY <1>1 DEF FavorableMove
<1>3. \A a \in Int, b \in Nat : a * b \in Int
  OBVIOUS
<1> QED  BY <1>1, <1>2, <1>3 DEF PnL

\* A poll notes the best PnL.
LEMMA BestNoted ==
    ASSUME NEW p \in Positions, LocksItsStep(p), NEW pnl \in Int
    PROVE  /\ UpdateBest(p, pnl) \in Positions /\ LocksItsStep(UpdateBest(p, pnl))
           /\ SameTrade(p, UpdateBest(p, pnl))
           /\ UpdateBest(p, pnl).bestPnL = IF pnl > p.bestPnL THEN pnl ELSE p.bestPnL
<1>1. p.bestPnL \in Nat
  BY DEF Positions
<1>2. (IF pnl > p.bestPnL THEN pnl ELSE p.bestPnL) \in Nat
  BY <1>1
<1> QED  BY <1>2 DEF UpdateBest, Positions, LocksItsStep, SameTrade

\* What a poll does to the position; one that does not end the trade leaves it
\* between stop and target and above its lock (exit.go:47-143).
LEMMA PollResult ==
    ASSUME TradeInv, PollPosition
    PROVE  /\ position' \in Positions /\ AsEntered(position') /\ LocksItsStep(position')
           /\ SameTrade(position, position')
           /\ peak' = position'.bestPnL
           /\ stage' = "open" =>
                 /\ \A i \in DOMAIN Steps :
                       Steps[i].profit <= peak' =>
                           PnL(position, ExitPrice(position.side)) > Steps[i].lock
                 /\ ~StopHit(position, ExitPrice(position.side))
                 /\ ~TargetHit(position, ExitPrice(position.side))
<1> DEFINE price   == ExitPrice(position.side)
           pnl     == PnL(position, price)
           updated == UpdateBest(position, pnl)
           trailed == CheckTrailingStop(updated)
           urgent  == killSwitchActive \/ StopHit(position, price) \/ TargetHit(position, price)
           over    == TooOld \/ LockHit(trailed, pnl)
<1>0. /\ position \in Positions /\ AsEntered(position) /\ LocksItsStep(position)
      /\ peak = position.bestPnL /\ book \in Books /\ position.side \in Sides
  <2>1. stage = "open"
    BY DEF PollPosition
  <2>2. position \in Positions /\ AsEntered(position) /\ LocksItsStep(position)
        /\ peak = position.bestPnL
    BY <2>1 DEF TradeInv, WatchOK, Within
  <2> QED  BY <2>2 DEF TradeInv, TradeTypeOK, Positions
<1>1. price \in Int /\ pnl \in Int
  <2>1. price \in Int
    BY <1>0, BookPrices
  <2> QED  BY <1>0, <2>1, ProfitIsInt
<1>2. PICK ends \in BOOLEAN :
         /\ position' = IF urgent THEN updated ELSE trailed
         /\ stage' = IF ends THEN "exiting" ELSE "open"
         /\ urgent \/ over => ends
         /\ peak' = IF pnl > peak THEN pnl ELSE peak
  BY DEF PollPosition, Poll
<1> HIDE DEF price, pnl
<1>3. /\ updated \in Positions /\ LocksItsStep(updated) /\ SameTrade(position, updated)
      /\ updated.bestPnL = IF pnl > position.bestPnL THEN pnl ELSE position.bestPnL
  BY <1>0, <1>1, BestNoted
<1> HIDE DEF updated
<1>4. /\ trailed \in Positions /\ LocksItsStep(trailed) /\ SameTrade(updated, trailed)
      /\ trailed.bestPnL = updated.bestPnL
      /\ \A i \in DOMAIN Steps : Steps[i].profit <= updated.bestPnL => i <= trailed.trailingStep
  BY <1>3, StopTrails
<1> HIDE DEF trailed
<1>5. peak' = updated.bestPnL /\ position' \in {updated, trailed}
  BY <1>0, <1>2, <1>3
<1>6. /\ position' \in Positions /\ LocksItsStep(position') /\ SameTrade(position, position')
      /\ peak' = position'.bestPnL
  BY <1>3, <1>4, <1>5 DEF SameTrade
<1>7. AsEntered(position')
  BY <1>0, <1>6 DEF AsEntered, SameTrade
<1>8. ASSUME stage' = "open"
      PROVE  /\ ~urgent
             /\ \A i \in DOMAIN Steps : Steps[i].profit <= peak' => pnl > Steps[i].lock
  <2>1. ~urgent /\ ~over
    BY <1>2, <1>8
  <2>2. ASSUME NEW i \in DOMAIN Steps, Steps[i].profit <= peak'
        PROVE  pnl > Steps[i].lock
    <3> DEFINE ts == trailed.trailingStep
    <3>1. i <= ts /\ ts \in 0 .. Len(Steps) /\ i \in 1 .. Len(Steps) /\ Len(Steps) \in Nat
      <4>1. Len(Steps) \in Nat /\ DOMAIN Steps = 1 .. Len(Steps)
        BY MonitorAssumption DEF MonitorAssumption
      <4> QED  BY <1>4, <1>5, <2>2, <4>1 DEF Positions
    <3>2. trailed.lockedPnL = Steps[ts].lock
      BY <1>4, <3>1 DEF LocksItsStep
    <3>3. Steps[i].lock \in Nat \ {0} /\ Steps[ts].lock \in Nat \ {0} /\ ts \in 1 .. Len(Steps)
      <4>1. ts \in 1 .. Len(Steps)
        BY <3>1
      <4>2. Steps \in Seq([profit : Nat, lock : Nat \ {0}])
        BY MonitorAssumption DEF MonitorAssumption
      <4>3. \A k \in 1 .. Len(Steps) : Steps[k] \in [profit : Nat, lock : Nat \ {0}]
        BY <4>2, ElementsOf
      <4> QED  BY <3>1, <4>1, <4>3
    <3>4. Steps[i].lock <= Steps[ts].lock
      <4>1. CASE i = ts
        BY <3>3, <4>1
      <4>2. CASE i < ts
        <5>1. i \in DOMAIN Steps /\ ts \in DOMAIN Steps
          BY <2>2, <3>3, MonitorAssumption DEF MonitorAssumption
        <5>2. Steps[i].lock < Steps[ts].lock
          BY <4>2, <5>1, MonitorAssumption DEF MonitorAssumption
        <5> QED  BY <3>3, <5>2
      <4> QED  BY <3>1, <4>1, <4>2
    <3>5. ~(pnl <= trailed.lockedPnL)
      BY <2>1, <3>2, <3>3 DEF LockHit
    <3> HIDE DEF ts
    <3> QED  BY <1>1, <3>2, <3>3, <3>4, <3>5
  <2> QED  BY <2>1, <2>2
<1> QED  BY <1>6, <1>7, <1>8 DEF price, pnl
-----------------------------------------------------------------------------
(* The steps, one part of the invariant after the other.                   *)

\* Whatever a trade does to the engine is a call of one of its methods.
LEMMA StepIsCall ==
    ASSUME [RTNext]_rtVars
    PROVE  [ApiNext]_apiVars
<1>1. CASE \E side \in Sides, price \in SignalPrices : EvaluateTrade(side, price)
  BY <1>1 DEF EvaluateTrade, ApiNext, CallEvaluateSignal
<1>2. CASE CountTrade
  BY <1>2 DEF CountTrade, ApiNext, CallRecordTrade
<1>3. CASE OpenPosition \/ CloseTrade
  BY <1>3 DEF OpenPosition, CloseTrade, ApiNext, CallSetPositionOpen
<1>4. CASE ExitTrade
  BY <1>4 DEF ExitTrade, ExitAt, ApiNext, CallRecordStopLoss, CallRecordWin
<1>5. CASE BetweenTrades \/ DuringTrade
  BY <1>5 DEF BetweenTrades, DuringTrade, ApiNext
<1>6. CASE UNCHANGED apiVars
  BY <1>6
<1>7. \/ \E side \in Sides, price \in SignalPrices : EvaluateTrade(side, price)
      \/ CountTrade \/ OpenPosition \/ CloseTrade \/ ExitTrade \/ BetweenTrades \/ DuringTrade
      \/ UNCHANGED apiVars
  BY DEF RTNext, rtVars, PassGate, SizeOrder, EnterTrade, EntryFilled, EntryFails,
         PollPosition, ExitFails, Moves, Clock, Sides
<1> QED  BY <1>1, <1>2, <1>3, <1>4, <1>5, <1>6, <1>7

\* So its state is as sound within a trade as under any other caller.
LEMMA EngineKept ==
    ASSUME TradeInv, [RTNext]_rtVars
    PROVE  RiskStateOK'
BY StepIsCall, ApiStep DEF TradeInv

\* Calls from outside touch the engine and the date and nothing else.
LEMMA Outside ==
    ASSUME BetweenTrades \/ DuringTrade
    PROVE  /\ UNCHANGED <<stage, signal, ticket, evalDate, peak, polled>>
           /\ UNCHANGED <<book, position, age, idleAge, bestFavorable>>
BY DEF BetweenTrades, DuringTrade, Unwatched, tradeVars, dateVars, watchVars

\* Until the entry only the kill switch and the clock reach the engine.
LEMMA DateKept ==
    ASSUME TradeInv, [RTNext]_rtVars
    PROVE  DateOK'
<1>0. /\ DateOK /\ today \in Nat /\ evalDate \in Nat
      /\ stage \in Before \cup Within
  BY DEF TradeInv, TradeTypeOK, RiskStateOK, Days, Before, Within
<1>1. CASE \E side \in Sides, price \in SignalPrices : EvaluateTrade(side, price)
  <2>1. lastTradeDate' \in {NoDate, today} /\ evalDate' = today /\ today' = today
    BY <1>1 DEF EvaluateTrade, EvaluateSignal, MaybeResetDaily, TradeDate, NewDay
  <2> QED  BY <1>0, <2>1 DEF DateOK
<1>2. CASE UNCHANGED <<lastTradeDate, evalDate, today>> /\ stage \in {"gate", "balance", "entering"}
  BY <1>0, <1>2 DEF DateOK
<1>3. CASE stage' \notin {"gate", "balance", "entering"}
  BY <1>3 DEF DateOK
<1>4. CASE DuringTrade
  <2>1. /\ stage' = stage /\ evalDate' = evalDate /\ lastTradeDate' = lastTradeDate
        /\ today' \in {today, today + 1}
    BY <1>4, Outside DEF DuringTrade, CallSetKillSwitch, SetKillSwitch, NextDay, Midnight,
                         riskVars, dailyVars
  <2> QED  BY <1>0, <2>1 DEF DateOK
<1>5. \/ \E side \in Sides, price \in SignalPrices : EvaluateTrade(side, price)
      \/ UNCHANGED <<lastTradeDate, evalDate, today>> /\ stage \in {"gate", "balance", "entering"}
      \/ stage' \notin {"gate", "balance", "entering"}
      \/ DuringTrade
  <2>1. CASE (\E sa, ba \in {MaxSignalAge, MaxSignalAge + 1} : PassGate(sa, ba))
             \/ (\E equity \in Equities : SizeOrder(equity))
    BY <2>1 DEF PassGate, SizeOrder, dateVars, apiVars, riskVars, dailyVars
  <2>2. CASE EnterTrade \/ CountTrade \/ OpenPosition \/ PollPosition \/ ExitTrade
             \/ ExitFails \/ CloseTrade \/ BetweenTrades \/ Clock
    BY <2>2, Outside DEF EnterTrade, EntryFilled, EntryFails, CountTrade, OpenPosition, PollPosition,
           ExitTrade, ExitAt, ExitFails, CloseTrade, BetweenTrades, Clock, GiveUp, tradeVars, dateVars
  <2>3. CASE Moves \/ UNCHANGED rtVars
    BY <1>0, <2>3 DEF Moves, rtVars, tradeVars, dateVars, apiVars, riskVars, dailyVars, Before, Within
  <2> QED  BY <2>1, <2>2, <2>3 DEF RTNext, Sides
<1> QED  BY <1>1, <1>2, <1>3, <1>4, <1>5

\* And the risk level stands still from the sizing to the entry.
LEMMA LevelKept ==
    ASSUME TradeInv, [RTNext]_rtVars
    PROVE  LevelOK'
<1>0. LevelOK /\ stage \in Before \cup Within
  BY DEF TradeInv, TradeTypeOK, Before, Within
<1>1. CASE stage' # "entering"
  BY <1>1 DEF LevelOK
<1>2. CASE \E equity \in Equities : SizeOrder(equity)
  BY <1>2 DEF SizeOrder, GiveUp, LevelOK, apiVars, riskVars, dailyVars
<1>3. CASE UNCHANGED <<stage, ticket, currentRiskPercent>>
  BY <1>0, <1>3 DEF LevelOK
<1>4. DuringTrade => UNCHANGED <<stage, ticket, currentRiskPercent>>
  BY Outside DEF DuringTrade, CallSetKillSwitch, SetKillSwitch, NextDay, riskVars, dailyVars
<1>5. BetweenTrades => stage' # "entering"
  BY Outside DEF BetweenTrades
<1>6. Moves \/ Clock \/ UNCHANGED rtVars => UNCHANGED <<stage, ticket, currentRiskPercent>>
  BY DEF Moves, Clock, rtVars, tradeVars, apiVars, riskVars, dailyVars
<1>7. ASSUME \/ \E side \in Sides, price \in SignalPrices : EvaluateTrade(side, price)
             \/ \E sa, ba \in {MaxSignalAge, MaxSignalAge + 1} : PassGate(sa, ba)
             \/ EnterTrade \/ CountTrade \/ OpenPosition \/ PollPosition
             \/ ExitTrade \/ ExitFails \/ CloseTrade
      PROVE  stage' # "entering"
  BY <1>7 DEF EvaluateTrade, PassGate, EnterTrade, EntryFilled, EntryFails, CountTrade, OpenPosition,
              PollPosition, ExitTrade, ExitAt, ExitFails, CloseTrade, GiveUp
<1> QED  BY <1>1, <1>2, <1>3, <1>4, <1>5, <1>6, <1>7 DEF RTNext, Sides

\* A stop loss begins a streak under the date it is counted under, or
\* lengthens one (engine.go:84-87).
LEMMA LossDated ==
    ASSUME RiskTypeOK, today \in Days, oldestLoss \in Days \cup {NoDate}, LossDatesOK,
           RecordStopLoss, LossNoted
    PROVE  LossDatesOK' /\ oldestLoss' \in Days \cup {NoDate} /\ misdated' \in BOOLEAN
<1>1. /\ consecutiveLosses' = LossStreak + 1 /\ lastTradeDate' = TradeDate
      /\ oldestLoss' = IF consecutiveLosses' = 1 THEN today ELSE oldestLoss
  BY DEF RecordStopLoss, LossNoted
<1>5. /\ misdated' \in BOOLEAN
      /\ ~misdated' => lastTradeDate' # NoDate /\ (consecutiveLosses' > 1 => ~misdated)
  BY Zenon DEF LossNoted
<1>2. consecutiveLosses \in Nat /\ lastTradeDate \in Days \cup {NoDate}
  BY DEF RiskTypeOK
<1>3. ASSUME ~misdated'
      PROVE  oldestLoss' \in Days /\ lastTradeDate' = oldestLoss'
  <2>1. CASE consecutiveLosses' = 1
    BY <1>1, <1>2, <1>3, <1>5, <2>1 DEF TradeDate, NewDay, LossStreak, LossDatesOK
  <2>2. CASE consecutiveLosses' # 1
    <3>1. ~NewDay /\ consecutiveLosses > 0 /\ lastTradeDate' = lastTradeDate
      BY <1>1, <1>2, <2>2 DEF LossStreak, TradeDate
    <3>2. ~misdated /\ oldestLoss' = oldestLoss
      <4>1. consecutiveLosses' > 1 /\ oldestLoss' = oldestLoss
        BY <1>1, <1>2, <2>2, <3>1 DEF LossStreak
      <4> QED  BY <1>3, <1>5, <4>1
    <3> QED  BY <3>1, <3>2 DEF LossDatesOK
  <2> QED  BY <2>1, <2>2
<1>4. oldestLoss' \in Days \cup {NoDate}
  BY <1>1
<1> QED  BY <1>3, <1>4, <1>5 DEF LossDatesOK

\* Any other call leaves the streak as it is or ends it.
LEMMA StreakDated ==
    ASSUME RiskTypeOK, oldestLoss \in Days \cup {NoDate}, LossDatesOK, StreakNoted,
           consecutiveLosses' \in {0, consecutiveLosses}
    PROVE  LossDatesOK' /\ oldestLoss' \in Days \cup {NoDate} /\ misdated' \in BOOLEAN
<1>1. consecutiveLosses \in Nat
  BY DEF RiskTypeOK
<1>2. oldestLoss' \in {NoDate, oldestLoss} /\ (consecutiveLosses' > 0 => oldestLoss' = oldestLoss)
  BY <1>1 DEF StreakNoted
<1>3. /\ misdated' \in BOOLEAN
      /\ consecutiveLosses' > 0 /\ ~misdated' => ~misdated /\ lastTradeDate' = lastTradeDate
  BY Zenon DEF StreakNoted
<1>4. consecutiveLosses' > 0 => consecutiveLosses > 0
  BY <1>1
<1> QED  BY <1>2, <1>3, <1>4 DEF LossDatesOK

\* So the dates of the losses agree in every step.
LEMMA LossDatesKept ==
    ASSUME TradeInv, [RTNext]_rtVars
    PROVE  LossDatesOK' /\ oldestLoss' \in Days \cup {NoDate} /\ misdated' \in BOOLEAN
<1>0. /\ RiskTypeOK /\ today \in Days /\ LossDatesOK
      /\ oldestLoss \in Days \cup {NoDate} /\ misdated \in BOOLEAN
  BY DEF TradeInv, TradeTypeOK
<1>1. CASE RecordStopLoss /\ LossNoted
  BY <1>0, <1>1, LossDated
<1>2. CASE StreakNoted /\ consecutiveLosses' \in {0, consecutiveLosses}
  BY <1>0, <1>2, StreakDated
<1>3. CASE UNCHANGED <<oldestLoss, misdated, consecutiveLosses, lastTradeDate>>
  BY <1>0, <1>3 DEF LossDatesOK
<1>4. ASSUME \/ EvaluateSignal \/ RecordTradeByClock \/ RecordWin \/ ResetDaily
             \/ (\E open \in BOOLEAN : SetPositionOpen(open)) \/ SetKillSwitch \/ UNCHANGED riskVars
      PROVE  consecutiveLosses' \in {0, consecutiveLosses}
  BY <1>4 DEF EvaluateSignal, MaybeResetDaily, RecordTradeByClock, RecordTrade, RecordWin, ResetDaily,
         SetPositionOpen, SetKillSwitch, LossStreak, riskVars, dailyVars
<1>5. (\E side \in Sides, price \in SignalPrices : EvaluateTrade(side, price)) \/ CountTrade
         => StreakNoted /\ (EvaluateSignal \/ RecordTradeByClock)
  BY DEF EvaluateTrade, CountTrade
<1>6. ExitTrade => (RecordStopLoss /\ LossNoted) \/ (StreakNoted /\ RecordWin)
  BY DEF ExitTrade, ExitAt
<1>7. BetweenTrades =>
         \/ RecordStopLoss /\ LossNoted
         \/ /\ StreakNoted
            /\ \/ EvaluateSignal \/ RecordTradeByClock \/ RecordWin \/ ResetDaily
               \/ (\E open \in BOOLEAN : SetPositionOpen(open)) \/ SetKillSwitch \/ UNCHANGED riskVars
  BY DEF BetweenTrades, CallRecordStopLoss, CallEvaluateSignal, CallRecordTrade, CallRecordWin,
         CallResetDaily, CallSetPositionOpen, CallSetKillSwitch, NextDay
<1>8. DuringTrade => UNCHANGED <<oldestLoss, misdated, consecutiveLosses, lastTradeDate>>
  BY DEF DuringTrade, CallSetKillSwitch, SetKillSwitch, NextDay, tradeVars, dateVars, riskVars, dailyVars
<1>9. OpenPosition \/ CloseTrade => UNCHANGED <<oldestLoss, misdated, consecutiveLosses, lastTradeDate>>
  BY DEF OpenPosition, CloseTrade, SetPositionOpen, dateVars, dailyVars
<1>10. ASSUME \/ \E sa, ba \in {MaxSignalAge, MaxSignalAge + 1} : PassGate(sa, ba)
              \/ \E equity \in Equities : SizeOrder(equity)
              \/ EnterTrade \/ PollPosition \/ ExitFails \/ Moves \/ Clock \/ UNCHANGED rtVars
       PROVE  UNCHANGED <<oldestLoss, misdated, consecutiveLosses, lastTradeDate>>
  BY <1>10 DEF PassGate, SizeOrder, EnterTrade, EntryFilled, EntryFails, PollPosition, ExitFails, Moves, Clock,
         rtVars, tradeVars, dateVars, apiVars, riskVars, dailyVars
<1>11. ASSUME \/ (\E side \in Sides, price \in SignalPrices : EvaluateTrade(side, price))
              \/ CountTrade \/ ExitTrade \/ BetweenTrades
       PROVE  \/ RecordStopLoss /\ LossNoted
              \/ StreakNoted /\ consecutiveLosses' \in {0, consecutiveLosses}
  BY <1>4, <1>5, <1>6, <1>7, <1>11, Zenon
<1>12. \/ (\E side \in Sides, price \in SignalPrices : EvaluateTrade(side, price))
       \/ CountTrade \/ ExitTrade \/ BetweenTrades
       \/ UNCHANGED <<oldestLoss, misdated, consecutiveLosses, lastTradeDate>>
  BY <1>8, <1>9, <1>10 DEF RTNext, Sides
<1> QED  BY <1>1, <1>2, <1>3, <1>11, <1>12, Zenon

\* Everything ProcessSignal carries has the shape the next step needs, and an
\* order was sized within its budget.
LEMMA HandKept ==
    ASSUME TradeInv, [RTNext]_rtVars
    PROVE  HandOK' /\ RiskWithinBudget'
<1>0. /\ HandOK /\ RiskWithinBudget /\ book \in Books
      /\ currentRiskPercent \in {"base", "escalated"}
  BY DEF TradeInv, TradeTypeOK, RiskTypeOK
<1>1. ASSUME NEW side \in Sides, NEW price \in SignalPrices, EvaluateTrade(side, price)
      PROVE  HandOK' /\ RiskWithinBudget'
  <2>1. price \in Nat
    BY TradeAssumption DEF TradeAssumption
  <2>2. \/ stage' = "gate" /\ signal' = [side |-> side, price |-> price]
        \/ stage' = "idle"
    BY <1>1 DEF EvaluateTrade, GiveUp
  <2> QED  BY <2>1, <2>2 DEF HandOK, RiskWithinBudget
<1>2. ASSUME NEW sa, NEW ba, PassGate(sa, ba)
      PROVE  HandOK' /\ RiskWithinBudget'
  <2>1. CASE stage' = "idle"
    BY <2>1 DEF HandOK, RiskWithinBudget
  <2>2. CASE stage' # "idle"
    <3>1. /\ stage = "gate" /\ stage' = "balance"
          /\ signal' = [side |-> signal.side, suggested |-> SuggestedEntry(signal.side, book),
                        twiceMid |-> TwiceMid(book)]
      BY <1>2, <2>2 DEF PassGate, GiveUp
    <3>2. signal.side \in Sides
      BY <1>0, <3>1 DEF HandOK
    <3>3. SuggestedEntry(signal.side, book) \in Nat /\ TwiceMid(book) \in Nat
      BY <1>0, <3>2, BookPrices
    <3>4. signal' \in [side : Sides, suggested : Int, twiceMid : Nat]
      BY <3>1, <3>2, <3>3
    <3> QED  BY <3>1, <3>4 DEF HandOK, RiskWithinBudget
  <2> QED  BY <2>1, <2>2
<1>3. ASSUME NEW equity \in Equities, SizeOrder(equity)
      PROVE  HandOK' /\ RiskWithinBudget'
  <2> DEFINE result == Calculate(equity, RiskPercent[currentRiskPercent],
                                 InitialStopLoss, signal.twiceMid, Leverage)
             qty == result.normalizedQty
  <2>1. CASE ~result.valid
    <3>1. stage' = "idle"
      BY <1>3, <2>1 DEF SizeOrder, GiveUp
    <3> QED  BY <3>1 DEF HandOK, RiskWithinBudget
  <2>2. CASE result.valid
    <3>1. /\ stage = "balance" /\ stage' = "entering" /\ signal' = signal
          /\ ticket' = [qty |-> qty, equity |-> equity, twiceMid |-> signal.twiceMid,
                        level |-> currentRiskPercent]
      BY <1>3, <2>2 DEF SizeOrder
    <3>2. /\ signal \in [side : Sides, suggested : Int, twiceMid : Nat]
          /\ signal.twiceMid \in Nat
      BY <1>0, <3>1 DEF HandOK
    <3>3. equity \in Nat /\ RiskPercent[currentRiskPercent] \in Nat
      BY <1>0, TradeAssumption DEF TradeAssumption
    <3>4. /\ qty \in Nat
          /\ qty * InitialStopLoss * 100 <= equity * RiskPercent[currentRiskPercent]
          /\ qty * signal.twiceMid <= 2 * equity * Leverage
          /\ qty >= MinQty /\ qty % QtyStep = 0
          /\ qty + QtyStep <= MaxQty =>
                (qty + QtyStep) * InitialStopLoss * 100 > equity * RiskPercent[currentRiskPercent]
      <4> HIDE DEF qty
      <4>1. qty = result.normalizedQty
        BY DEF qty
      <4> QED  BY <2>2, <3>2, <3>3, <4>1, SizedWithin
    <3> HIDE DEF qty, result
    <3>5. /\ ticket'.qty = qty /\ ticket'.equity = equity /\ ticket'.twiceMid = signal.twiceMid
          /\ ticket'.level = currentRiskPercent
          /\ ticket' \in [qty : Nat, equity : Nat, twiceMid : Nat, level : {"base", "escalated"}]
      BY <1>0, <3>1, <3>2, <3>3, <3>4
    <3>6. HandOK'
      BY <3>1, <3>2, <3>5 DEF HandOK
    <3>7. RiskWithinBudget'
      BY <3>4, <3>5, Zenon DEF RiskWithinBudget
    <3> QED  BY <3>6, <3>7
  <2> QED  BY <2>1, <2>2
<1>4. ASSUME NEW fillPrice \in Int, EntryFilled(fillPrice)
      PROVE  HandOK' /\ RiskWithinBudget'
  <2>1. /\ stage = "entering" /\ stage' = "recordTrade"
        /\ signal' = [side |-> signal.side, filled |-> fillPrice]
        /\ ticket' = [qty |-> ticket.qty]
    BY <1>4 DEF EntryFilled
  <2>2. signal.side \in Sides /\ ticket.qty \in Nat
    BY <1>0, <2>1 DEF HandOK
  <2> QED  BY <2>1, <2>2 DEF HandOK, RiskWithinBudget
<1>5. CASE EnterTrade
  <2>1. CASE EntryFails
    BY <2>1 DEF EntryFails, GiveUp, HandOK, RiskWithinBudget
  <2>2. CASE ~EntryFails
    <3>1. PICK price \in {signal.suggested, book.ask, book.bid} : EntryFilled(price)
      BY <1>5, <2>2 DEF EnterTrade
    <3>2. signal.suggested \in Int
      BY <1>0, <3>1 DEF EntryFilled, HandOK
    <3>3. price \in Int
      BY <1>0, <3>1, <3>2, BookPrices
    <3> QED  BY <1>4, <3>1, <3>3
  <2> QED  BY <2>1, <2>2
<1>6. CASE CountTrade
  BY <1>0, <1>6 DEF CountTrade, HandOK, RiskWithinBudget
<1>7. CASE OpenPosition \/ PollPosition \/ ExitTrade \/ ExitFails \/ CloseTrade
  <2>1. stage' \in Within \cup {"idle"}
    BY <1>7 DEF OpenPosition, PollPosition, ExitTrade, ExitAt, ExitFails, CloseTrade, GiveUp, Within
  <2> QED  BY <2>1 DEF HandOK, RiskWithinBudget, Within
<1>8. CASE UNCHANGED <<stage, signal, ticket>>
  BY <1>0, <1>8 DEF HandOK, RiskWithinBudget
<1>9. BetweenTrades \/ DuringTrade \/ Moves \/ Clock \/ UNCHANGED rtVars
         => UNCHANGED <<stage, signal, ticket>>
  BY Outside DEF Moves, Clock, rtVars, tradeVars, dateVars
<1> QED  BY <1>1, <1>2, <1>3, <1>5, <1>6, <1>7, <1>8, <1>9 DEF RTNext, Sides

\* The position is there exactly within a trade, with the stop and the target
\* of its entry and the lock of its step.
LEMMA WatchKept ==
    ASSUME TradeInv, [RTNext]_rtVars
    PROVE  WatchOK'
<1>0. WatchOK /\ HandOK /\ stage \in Before \cup Within
  BY DEF TradeInv, TradeTypeOK, Before, Within
<1>1. CASE OpenPosition
  <2>1. /\ stage = "setOpen" /\ stage' = "open" /\ peak' = 0
        /\ position' = NewPosition(signal.side, signal.filled, ticket.qty)
    BY <1>1 DEF OpenPosition, Watch
  <2>2. signal.side \in Sides /\ signal.filled \in Int /\ ticket.qty \in Nat
    BY <1>0, <2>1 DEF HandOK
  <2>3. /\ InitialStopLoss \in Nat /\ MaxTakeProfit \in Nat
        /\ Len(Steps) \in Nat
    BY MonitorAssumption DEF MonitorAssumption
  <2>4. position' \in Positions /\ AsEntered(position') /\ LocksItsStep(position')
    BY <2>1, <2>2, <2>3 DEF NewPosition, Positions, AsEntered, LocksItsStep
  <2>5. peak' = position'.bestPnL
    BY <2>1 DEF NewPosition
  <2> QED  BY <2>1, <2>4, <2>5 DEF WatchOK, Before
<1>2. CASE PollPosition
  <2>1. stage' \in {"open", "exiting"}
    BY <1>2 DEF PollPosition
  <2> QED  BY <1>2, <2>1, PollResult DEF WatchOK, Before
<1>3. CASE ExitTrade \/ ExitFails
  BY <1>0, <1>3 DEF ExitTrade, ExitAt, ExitFails, Unwatched, watchVars, WatchOK, Before, Within
<1>4. CASE CloseTrade
  BY <1>4 DEF CloseTrade, GiveUp, WatchOK, Within
<1>5. CASE stage \in Before /\ stage' \in Before /\ position' = position
  BY <1>0, <1>5 DEF WatchOK, Before, Within
<1>6. CASE UNCHANGED <<stage, position, peak>>
  BY <1>0, <1>6 DEF WatchOK
<1>7. ASSUME \/ \E side \in Sides, price \in SignalPrices : EvaluateTrade(side, price)
             \/ \E sa, ba \in {MaxSignalAge, MaxSignalAge + 1} : PassGate(sa, ba)
             \/ \E equity \in Equities : SizeOrder(equity)
             \/ EnterTrade \/ CountTrade
      PROVE  stage \in Before /\ stage' \in Before /\ position' = position
  BY <1>7 DEF EvaluateTrade, PassGate, SizeOrder, EnterTrade, EntryFilled, EntryFails, CountTrade,
              GiveUp, Unwatched, watchVars, Before
<1>8. BetweenTrades \/ DuringTrade \/ Moves \/ Clock \/ UNCHANGED rtVars
         => UNCHANGED <<stage, position, peak>>
  BY Outside DEF Moves, MarketMoves, Clock, TimePasses, rtVars, tradeVars, dateVars, watchVars
<1> QED  BY <1>1, <1>2, <1>3, <1>4, <1>5, <1>6, <1>7, <1>8 DEF RTNext, Sides

\* A watched position is above its locks from the poll that looked at it until
\* the book moves.
LEMMA LocksKept ==
    ASSUME TradeInv, [RTNext]_rtVars
    PROVE  HeldAboveLocks'
<1>0. HeldAboveLocks /\ polled \in BOOLEAN
  BY DEF TradeInv, TradeTypeOK
<1>1. CASE PollPosition
  <2> SUFFICES ASSUME stage' = "open" PROVE HeldAboveLocks'
    BY DEF HeldAboveLocks
  <2> DEFINE price == ExitPrice(position.side)
  <2>1. /\ position' \in Positions /\ AsEntered(position) /\ SameTrade(position, position')
        /\ \A i \in DOMAIN Steps : Steps[i].profit <= peak' => PnL(position, price) > Steps[i].lock
        /\ ~StopHit(position, price) /\ ~TargetHit(position, price)
        /\ position \in Positions /\ book \in Books
    <3>1. stage = "open"
      BY <1>1 DEF PollPosition
    <3> QED  BY <1>1, <3>1, PollResult DEF TradeInv, TradeTypeOK, WatchOK, Within
  <2>2. book' = book
    BY <1>1 DEF PollPosition, Poll
  <2>3. position'.side = position.side /\ ExitPrice(position.side)' = price
    BY <2>1, <2>2 DEF SameTrade, ExitPrice
  <2>4. /\ FavorableMove(position', price) = FavorableMove(position, price)
        /\ PnL(position', price) = PnL(position, price)
    BY <2>1 DEF SameTrade, FavorableMove, PnL
  <2>5. price \in Int /\ position.entryPrice \in Int
    BY <2>1, BookPrices DEF Positions
  <2>6. FavorableMove(position, price) > -InitialStopLoss /\ FavorableMove(position, price) < MaxTakeProfit
    <3>1. InitialStopLoss \in Nat /\ MaxTakeProfit \in Nat
      BY MonitorAssumption DEF MonitorAssumption
    <3> HIDE DEF price
    <3> QED  BY <2>1, <2>5, <3>1 DEF StopHit, TargetHit, FavorableMove, AsEntered
  <2> HIDE DEF price
  <2> QED  BY <2>1, <2>3, <2>4, <2>6 DEF HeldAboveLocks
<1>2. CASE stage' # "open" \/ ~polled'
  BY <1>2 DEF HeldAboveLocks
<1>3. CASE UNCHANGED <<stage, position, peak, polled, book>>
  <2>1. \A side : ExitPrice(side)' = ExitPrice(side)
    BY <1>3 DEF ExitPrice
  <2> QED  BY <1>0, <1>3, <2>1 DEF HeldAboveLocks
<1>4. ASSUME \/ \E side \in Sides, price \in SignalPrices : EvaluateTrade(side, price)
             \/ \E sa, ba \in {MaxSignalAge, MaxSignalAge + 1} : PassGate(sa, ba)
             \/ \E equity \in Equities : SizeOrder(equity)
             \/ EnterTrade \/ CountTrade \/ OpenPosition
             \/ ExitTrade \/ ExitFails \/ CloseTrade \/ Moves
      PROVE  stage' # "open" \/ ~polled'
  BY <1>4 DEF EvaluateTrade, PassGate, SizeOrder, EnterTrade, EntryFilled, EntryFails, CountTrade,
              OpenPosition, ExitTrade, ExitAt, ExitFails, CloseTrade, Moves, GiveUp
<1>5. BetweenTrades \/ DuringTrade \/ Clock \/ UNCHANGED rtVars
         => UNCHANGED <<stage, position, peak, polled, book>>
  BY Outside DEF Clock, TimePasses, rtVars, tradeVars, dateVars, watchVars
<1> QED  BY <1>1, <1>2, <1>3, <1>4, <1>5 DEF RTNext, Sides

\* One unit of time more, up to the limit.
LEMMA OneMoreInRange ==
    ASSUME NEW limit \in Nat, NEW n \in 0 .. limit
    PROVE  OneMore(n, limit) \in 0 .. limit
BY DEF OneMore

\* The remaining types.
LEMMA TypesKept ==
    ASSUME TradeInv, [RTNext]_rtVars
    PROVE  TradeTypeOK'
<1>0. TradeTypeOK /\ WatchOK /\ MaxDuration \in Nat /\ NoProgress \in Nat
  BY MonitorAssumption DEF TradeInv, MonitorAssumption
<1>1. RiskTypeOK' /\ today' \in Days
  BY EngineKept DEF RiskStateOK
<1>2. stage' \in Before \cup Within
  <2>1. stage \in Before \cup Within
    BY <1>0 DEF TradeTypeOK, Before, Within
  <2> QED  BY <2>1, Outside
           DEF RTNext, EvaluateTrade, PassGate, SizeOrder, EnterTrade, EntryFilled, EntryFails,
               CountTrade, OpenPosition, PollPosition, ExitTrade, ExitAt, ExitFails, CloseTrade,
               Moves, Clock, GiveUp, rtVars, tradeVars, dateVars, Before, Within
<1>3. book' \in Books
  BY <1>0, Outside
     DEF TradeTypeOK, RTNext, EvaluateTrade, PassGate, SizeOrder, EnterTrade, EntryFilled,
         EntryFails, CountTrade, OpenPosition, PollPosition, Poll, ExitTrade, ExitAt, ExitFails,
         CloseTrade, Moves, MarketMoves, Clock, TimePasses, Unwatched, rtVars
<1>4. evalDate' \in Days
  BY <1>0, Outside
     DEF TradeTypeOK, RTNext, EvaluateTrade, PassGate, SizeOrder, EnterTrade, EntryFilled,
         EntryFails, CountTrade, OpenPosition, PollPosition, ExitTrade, ExitAt, ExitFails,
         CloseTrade, Moves, Clock, rtVars, tradeVars, dateVars
<1>5. polled' \in BOOLEAN /\ oldestLoss' \in Days \cup {NoDate} /\ misdated' \in BOOLEAN
  <2>1. oldestLoss' \in Days \cup {NoDate} /\ misdated' \in BOOLEAN
    BY LossDatesKept
  <2>2. polled' \in BOOLEAN
    BY <1>0, Outside
       DEF TradeTypeOK, RTNext, EvaluateTrade, PassGate, SizeOrder, EnterTrade, EntryFilled,
           EntryFails, CountTrade, OpenPosition, PollPosition, ExitTrade, ExitAt, ExitFails,
           CloseTrade, Moves, Clock, Unwatched, rtVars
  <2> QED  BY <2>1, <2>2
<1>6. position' # NoPosition => position'.trailingStep \in 0 .. Len(Steps)
  BY <1>2, WatchKept DEF WatchOK, Positions
<1>7. /\ age' \in 0 .. MaxDuration /\ idleAge' \in 0 .. NoProgress
      /\ bestFavorable' \in Int /\ peak' \in Int
  <2>0. /\ age \in 0 .. MaxDuration /\ idleAge \in 0 .. NoProgress
        /\ bestFavorable \in Int /\ peak \in Int
    BY <1>0 DEF TradeTypeOK
  <2>1. CASE PollPosition
    <3>1. position' \in Positions /\ peak' = position'.bestPnL
      BY <2>1, PollResult
    <3>2. position \in Positions /\ book \in Books
      BY <1>0, <2>1 DEF PollPosition, WatchOK, Within, TradeTypeOK
    <3>3. ExitPrice(position.side) \in Int
      BY <3>2, BookPrices DEF Positions
    <3>4. FavorableMove(position, ExitPrice(position.side)) \in Int
      BY <3>2, <3>3, ProfitIsInt
    <3>5. /\ age' = age /\ idleAge' \in {idleAge, 0}
          /\ bestFavorable' \in {bestFavorable, FavorableMove(position, ExitPrice(position.side))}
      BY <2>1 DEF PollPosition, Poll, NoteProgress
    <3> QED  BY <1>0, <2>0, <3>1, <3>4, <3>5 DEF Positions
  <2>2. CASE Clock
    <3>1. /\ age' = OneMore(age, MaxDuration) /\ idleAge' = OneMore(idleAge, NoProgress)
          /\ UNCHANGED <<bestFavorable, peak>>
      BY <2>2 DEF Clock, TimePasses, tradeVars, dateVars
    <3> QED  BY <1>0, <2>0, <3>1, OneMoreInRange
  <2>3. CASE OpenPosition \/ CloseTrade
    <3>1. age' = 0 /\ idleAge' = 0 /\ bestFavorable' = 0 /\ peak' = 0
      BY <2>3 DEF OpenPosition, Watch, CloseTrade
    <3> QED  BY <1>0, <3>1
  <2>4. CASE UNCHANGED <<age, idleAge, bestFavorable, peak>>
    BY <2>0, <2>4
  <2>5. \/ PollPosition \/ Clock \/ OpenPosition \/ CloseTrade
        \/ UNCHANGED <<age, idleAge, bestFavorable, peak>>
    BY Outside
       DEF RTNext, EvaluateTrade, PassGate, SizeOrder, EnterTrade, EntryFilled, EntryFails,
           CountTrade, ExitTrade, ExitAt, ExitFails, Moves, MarketMoves, Unwatched, rtVars,
           tradeVars, dateVars, watchVars
  <2> QED  BY <2>1, <2>2, <2>3, <2>4, <2>5
<1> QED  BY <1>1, <1>2, <1>3, <1>4, <1>5, <1>6, <1>7 DEF TradeTypeOK, Before, Within

-----------------------------------------------------------------------------
LEMMA TradeInitially == RTInit => TradeInv
<1> SUFFICES ASSUME RTInit PROVE TradeInv
  OBVIOUS
<1>1. RiskStateOK
  <2>1. today \in Days
    BY LastDayAssumption DEF RTInit, ApiInit, LastDayAssumption, Days
  <2> QED  BY <2>1, FreshIsInv DEF RTInit, ApiInit
<1>2. TradeTypeOK
  <2>1. RiskTypeOK /\ today \in Days /\ evalDate \in Days /\ book \in Books
    BY <1>1, LastDayAssumption DEF RTInit, RiskStateOK, LastDayAssumption, Days
  <2>2. /\ age \in 0 .. MaxDuration /\ idleAge \in 0 .. NoProgress
        /\ bestFavorable \in Int /\ peak \in Int
    BY MonitorAssumption DEF RTInit, MonitorAssumption
  <2> QED  BY <2>1, <2>2 DEF RTInit, TradeTypeOK
<1>3. HandOK /\ WatchOK /\ DateOK /\ LevelOK /\ RiskWithinBudget /\ HeldAboveLocks
  BY DEF RTInit, HandOK, WatchOK, DateOK, LevelOK, RiskWithinBudget, HeldAboveLocks, Within
<1>4. LossDatesOK
  BY DEF RTInit, ApiInit, FreshEngine, LossDatesOK
<1> QED  BY <1>1, <1>2, <1>3, <1>4 DEF TradeInv

\* The invariant the theorems below draw on.
LEMMA TradeInvariant == RTSpec => []TradeInv
<1>1. TradeInv /\ [RTNext]_rtVars => TradeInv'
  <2> SUFFICES ASSUME TradeInv, [RTNext]_rtVars PROVE TradeInv'
    OBVIOUS
  <2> QED  BY EngineKept, TypesKept, HandKept, WatchKept, DateKept, LevelKept, LossDatesKept, LocksKept
           DEF TradeInv
<1> QED  BY TradeInitially, <1>1, PTL DEF RTSpec

\* Every variable of a trade keeps its type, through any number of trades.
THEOREM TradeTyped == RTSpec => []TradeTypeOK
<1>1. TradeInv => TradeTypeOK
  BY DEF TradeInv
<1> QED  BY <1>1, TradeInvariant, PTL

\* The pipeline is a caller of the engine like any other: it calls its methods
\* and nothing of it changes the engine's state otherwise (pipeline.go, exit.go).
THEOREM TradesCallTheApi == RTSpec => ApiSpec
<1>1. RTInit => ApiInit
  BY DEF RTInit
<1>2. [RTNext]_rtVars => [ApiNext]_apiVars
  BY StepIsCall
<1> QED  BY <1>1, <1>2, PTL DEF RTSpec, ApiSpec

\* Trading halts exactly at the day's stop-loss limit.
THEOREM TradesHaltAtLimit == RTSpec => []HaltedAtLimit
BY TradesCallTheApi, RiskStateSafe, PTL

\* A halt outlasts every trade that was open when it began, for its day.
THEOREM TradesKeepTheHalt == RTSpec => HaltLastsTheDay
BY TradesCallTheApi, HaltLasts, PTL

\* No order can lose more than its risk level's part of the equity at the stop
\* distance, for any equity, percentage, step and leverage (calculator.go).
THEOREM BudgetKept == RTSpec => []RiskWithinBudget
<1>1. TradeInv => RiskWithinBudget
  BY DEF TradeInv
<1> QED  BY <1>1, TradeInvariant, PTL

\* An order is sized with the escalated percentage only on losses of the date
\* its signal was evaluated on, the first of the streak included, though the
\* date may change before the size is computed (engine.go:144).  The exception
\* is a streak the engine has under a date not its own: one begun before the
\* engine had a date, or carried over midnight by RecordTrade's two readings of
\* the clock (engine.go:74-76).
THEOREM SizedByDate == RTSpec => []SizedByItsDate
<1>1. TradeInv => SizedByItsDate
  <2> SUFFICES ASSUME TradeInv, stage = "entering", ticket.level = "escalated", ~misdated
               PROVE  oldestLoss = evalDate
    BY DEF SizedByItsDate
  <2>1. EscalatedOnStreak /\ consecutiveLosses \in Nat /\ EscalateAfter \in Nat \ {0}
    BY RiskAssumption DEF TradeInv, RiskStateOK, RiskInv, RiskTypeOK, RiskAssumption
  <2>2. currentRiskPercent = "escalated"
    BY DEF TradeInv, LevelOK
  <2>3. consecutiveLosses > 0
    BY <2>1, <2>2 DEF EscalatedOnStreak
  <2>4. oldestLoss \in Days /\ lastTradeDate = oldestLoss
    BY <2>3 DEF TradeInv, LossDatesOK
  <2>5. lastTradeDate \in {NoDate, evalDate}
    BY DEF TradeInv, DateOK
  <2> QED  BY <2>4, <2>5 DEF Days, NoDate
<1> QED  BY <1>1, TradeInvariant, PTL

\* A trailing stop never gives back a profit it has locked without the next
\* poll ending the trade, however far the price jumps between two polls
\* (exit.go:148-193).
THEOREM LocksHold == RTSpec => []HeldAboveLocks
<1>1. TradeInv => HeldAboveLocks
  BY DEF TradeInv
<1> QED  BY <1>1, TradeInvariant, PTL
=============================================================================
