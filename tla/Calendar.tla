------------------------------ MODULE Calendar ------------------------------
(***************************************************************************)
(* The UTC calendar the server reads: today() of risk/engine.go and the    *)
(* date in a client order id (orders/idgen.go).  A date is a number; the   *)
(* environment moves it, at any moment, to the next one.                   *)
(***************************************************************************)
EXTENDS Integers

CONSTANT LastDay   \* bound: the last date of a behaviour

ASSUME LastDayAssumption == LastDay \in Nat

VARIABLE today

Days == 0 .. LastDay

NoDate == -1       \* Go's empty string: no date recorded yet

Midnight ==
    /\ today < LastDay
    /\ today' = today + 1
=============================================================================
