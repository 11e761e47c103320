--------------------------- MODULE PaperExchange ---------------------------
(***************************************************************************)
(* The account PaperClient keeps (server/internal/bingx/paper.go): a list  *)
(* of positions and a balance.  Every method holds the client's mutex from *)
(* its first line to its last.                                             *)
(*                                                                         *)
(* The book an order is filled from is refreshed by another goroutine      *)
(* (GetBookTicker), so each order may meet any of Prices.                  *)
(***************************************************************************)
EXTENDS Integers, SequencesExt

CONSTANTS
    Prices,           \* the prices a side of the book may show
    TakerRate,        \* fee per unit of notional
    InitialBalance

ASSUME PaperAssumption ==
    /\ Prices \subseteq Nat
    /\ TakerRate \in Nat
    /\ InitialBalance \in Int

VARIABLES
    positions,          \* [side, quantity, entryPrice], oldest first
    simulatedBalance,
    cash                \* history: received less paid, for orders and in fees

paperVars == <<positions, simulatedBalance, cash>>

FreshAccount ==
    /\ positions = << >>
    /\ simulatedBalance = InitialBalance
    /\ cash = 0

NewAccount ==
    /\ positions' = << >>
    /\ simulatedBalance' = InitialBalance
    /\ cash' = 0

Fee(price, qty) == price * qty * TakerRate

(* Mutant of CloseOne: a position is closed at its value, not at its gain. *)
CloseOneAtValue(acc, p, price) ==
    LET n == IF p.quantity <= acc.remaining THEN p.quantity ELSE acc.remaining
    IN [remaining |-> acc.remaining - n,
        pnl       |-> acc.pnl + p.side * n * price,
        kept      |-> IF n = p.quantity THEN acc.kept
                      ELSE Append(acc.kept, [p EXCEPT !.quantity = @ - n])]

(* Close as much of p as remains to be closed. *)
CloseOne(acc, p, price) ==
    LET n == IF p.quantity <= acc.remaining THEN p.quantity ELSE acc.remaining
    IN [remaining |-> acc.remaining - n,
        pnl       |-> acc.pnl + p.side * n * (price - p.entryPrice),
        kept      |-> IF n = p.quantity THEN acc.kept
                      ELSE Append(acc.kept, [p EXCEPT !.quantity = @ - n])]

(* closePositionsLocked takes the positions as they come, whatever their
   side. *)
ClosePositions(qty, price) ==
    FoldLeft(LAMBDA acc, p : CloseOne(acc, p, price),
             [remaining |-> qty, pnl |-> 0, kept |-> << >>], positions)

(* PlaceOrder fills the whole order at once and takes the fee; only a
   reduce-only order closes anything. *)
PaperPlaceOrder(side, qty, reduceOnly, price) ==
    /\ cash' = cash - side * qty * price - Fee(price, qty)
    /\ IF reduceOnly
       THEN LET closed == ClosePositions(qty, price) IN
            /\ positions' = closed.kept
            /\ simulatedBalance' = simulatedBalance - Fee(price, qty) + closed.pnl
       ELSE /\ positions' = Append(positions, [side |-> side, quantity |-> qty,
                                               entryPrice |-> price])
            /\ simulatedBalance' = simulatedBalance - Fee(price, qty)

(* What the open positions add up to: in units, and at their cost. *)
PositionsSum(Value(_)) == SumFunction([i \in DOMAIN positions |-> Value(positions[i])])

Held(p) == p.side * p.quantity

Cost(p) == p.side * p.quantity * p.entryPrice
=============================================================================
