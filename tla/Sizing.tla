------------------------------- MODULE Sizing -------------------------------
(***************************************************************************)
(* The two pure checks between a signal and its order: the strategy gate   *)
(* (server/internal/strategygate/gate.go) and the quantity calculator      *)
(* (server/internal/quantity/calculator.go).                               *)
(*                                                                         *)
(* Quantities count units of 10^-QtyPrecision BTC, prices units of         *)
(* 10^-PricePrecision USD, money their product, so roundTo has nothing     *)
(* left to round.  The code computes in float64: a quotient that is an     *)
(* exact multiple of the step may lose one step there.                     *)
(***************************************************************************)
EXTENDS Integers

CONSTANTS
    MaxSignalAge,       \* cfg.Latency.MaxSignalAgeMs
    MaxEntrySlippage,   \* cfg.Orders.MaxEntrySlippageUSD
    MaxExitSlippage,    \* cfg.Orders.MaxExitSlippageUSD
    MinQty, MaxQty, QtyStep, MaxLeverage   \* cfg.Quantity

(* config.LoadConfig checks nothing; the shipped files keep to this. *)
ASSUME SizingAssumption ==
    /\ MaxSignalAge \in Nat
    /\ MaxEntrySlippage \in Nat /\ MaxExitSlippage \in Nat
    /\ MinQty \in Nat /\ MaxQty \in Nat /\ MaxLeverage \in Nat
    /\ QtyStep \in Nat \ {0}

(* A quantity that was cut to max_qty is not compared with min_qty again.  *)
ASSUME QuantityAssumption ==
    /\ MinQty % QtyStep = 0
    /\ MaxQty > 0 => MinQty <= MaxQty

Distance(a, b) == IF a < b THEN b - a ELSE a - b

(* The midpoint of a book, in half units. *)
TwiceMid(book) == book.bid + book.ask

(* Validate of gate.go; the ages are what it computes from three clocks. *)
Validate(signal, book, signalAge, bookAge) ==
    /\ signalAge <= MaxSignalAge
    /\ bookAge <= MaxSignalAge
    /\ Distance(2 * signal.price, TwiceMid(book)) <= 2 * MaxEntrySlippage
    /\ book.ask - book.bid <= MaxEntrySlippage + MaxExitSlippage
    /\ signal.side \in {"BUY", "SELL"}

SuggestedEntry(side, book) == IF side = "BUY" THEN book.bid ELSE book.ask

(* Mutant of NormalizeQuantity: to the nearest step instead of down. *)
NormalizeQuantityNearest(num, den) ==
    ((2 * num + den * QtyStep) \div (2 * den * QtyStep)) * QtyStep

(* The quantity num / den, rounded down to the exchange's step. *)
NormalizeQuantity(num, den) == (num \div (den * QtyStep)) * QtyStep

(* RawQtyBTC = equity * percent / 100 / stop, on the step. *)
SteppedQty(equity, percent, stop) == NormalizeQuantity(equity * percent, 100 * stop)

Clamped(qty) ==
    IF MaxQty > 0 /\ qty > MaxQty THEN NormalizeQuantity(MaxQty, 1) ELSE qty

(* Calculate of calculator.go.  twicePrice is twice the price of one unit;
   min_qty is compared before the clamp, the margin after it. *)
Calculate(equity, percent, stop, twicePrice, leverage) ==
    LET stepped == SteppedQty(equity, percent, stop)
        qty     == Clamped(stepped)
    IN [normalizedQty |-> qty,
        valid |-> /\ stop > 0 /\ twicePrice > 0 /\ equity > 0 /\ leverage > 0
                  /\ stepped >= MinQty
                  /\ ~(MaxLeverage > 0 /\ leverage > MaxLeverage)
                  /\ qty * twicePrice <= 2 * equity * leverage]
=============================================================================
