------------------------------ MODULE Exchange ------------------------------
(***************************************************************************)
(* The exchange as the pipeline sees it through bingx.Client: a service    *)
(* outside the repository, modelled from the calls execution/*.go make and *)
(* from the answers they tell apart.                                       *)
(*                                                                         *)
(* An order is keyed by its client order id and is for Lot units.  With    *)
(* Instant the order is filled inside PlaceOrder, as PaperClient does;     *)
(* otherwise the exchange fills and expires it on its own, at any time     *)
(* until it is final.  Faults says which calls may fail:                   *)
(*   "refuse"      PlaceOrder fails and nothing was placed                 *)
(*   "lostReply"   PlaceOrder fails (a timeout) but the order was placed   *)
(*   "cancelLost"  CancelOrder fails and the order stays                   *)
(* A client order id in use is refused; PaperClient, which keeps its       *)
(* orders in a map, overwrites the earlier order instead, and forgets      *)
(* orders and positions with the process it lives in.                      *)
(***************************************************************************)
EXTENDS OrderManager

CONSTANTS
    Side,          \* 1 for a BUY signal, -1 for a SELL signal
    Lot,           \* units in one order
    Instant,       \* orders fill inside PlaceOrder
    Faults,        \* the failures the exchange may show
    LongIds        \* signal ids so long that "-exit" and "-exit-r" truncate
                   \* to the same 32 characters (exit.go:229-280)

ASSUME ExchangeAssumption ==
    /\ Side \in [Signals -> {1, -1}]
    /\ Lot \in Nat \ {0}
    /\ Instant \in BOOLEAN
    /\ Faults \subseteq {"refuse", "lostReply", "cancelLost"}
    /\ LongIds \in BOOLEAN

VARIABLES
    exOrders,      \* what the exchange knows of each client order id
    exposure       \* the account's net position, in units, signed

exchangeVars == <<exOrders, exposure>>

(* The client order ids the pipeline sends. *)
MakerId(s)   == <<"maker", seen[s]>>
IocId(s)     == <<"ioc", seen[s]>>
ExitId(s)    == <<"exit", s>>
RepriceId(s) == IF LongIds THEN ExitId(s) ELSE <<"reprice", s>>

OrderIds == ({"maker", "ioc"} \X ClientIds) \cup ({"exit", "reprice"} \X Signals)

ExStatus == {"NONE", "NEW", "PARTIALLY_FILLED", "FILLED", "CANCELLED"}

ExOrder == [status : ExStatus, filled : 0 .. Lot, side : {1, -1}, reduceOnly : BOOLEAN]

NoOrder == [status |-> "NONE", filled |-> 0, side |-> 1, reduceOnly |-> FALSE]

ExchangeTypeOK ==
    /\ exOrders \in [OrderIds -> ExOrder]
    /\ exposure \in Int

ExchangeInit ==
    /\ exOrders = [o \in OrderIds |-> NoOrder]
    /\ exposure = 0

Known(o) == exOrders[o].status # "NONE"

Working(o) == exOrders[o].status \in {"NEW", "PARTIALLY_FILLED"}

Filled(o) == exOrders[o].status = "FILLED"

(* How many units an order of that side may still take. *)
Room(side, reduceOnly) ==
    IF ~reduceOnly THEN Lot
    ELSE IF side * exposure >= 0 THEN 0
    ELSE IF -(side * exposure) < Lot THEN -(side * exposure) ELSE Lot

Place(o, side, reduceOnly) ==
    LET taken == IF Instant THEN Room(side, reduceOnly) ELSE 0 IN
    /\ Instant \/ ~Known(o)
    /\ exOrders' = [exOrders EXCEPT ![o] =
                       [status     |-> IF Instant THEN "FILLED" ELSE "NEW",
                        filled     |-> taken,
                        side       |-> side,
                        reduceOnly |-> reduceOnly]]
    /\ exposure' = exposure + side * taken

(***************************************************************************)
(* The calls.  dead says that the caller's context is cancelled: the HTTP  *)
(* client then fails the call, before or after the request went out.       *)
(* PaperClient ignores the context.                                        *)
(***************************************************************************)
Broken(dead) == dead /\ ~Instant

(* PlaceOrder returned no error. *)
PlaceAcked(o, side, reduceOnly, dead) ==
    /\ ~Broken(dead)
    /\ Place(o, side, reduceOnly)

(* PlaceOrder returned an error. *)
PlaceFailed(o, side, reduceOnly, dead) ==
    \/ /\ (Known(o) /\ ~Instant) \/ "refuse" \in Faults \/ Broken(dead)
       /\ UNCHANGED exchangeVars
    \/ /\ "lostReply" \in Faults \/ Broken(dead)
       /\ Place(o, side, reduceOnly)

(* PaperClient cancels a filled order too. *)
Cancellable(o) == Working(o) \/ (Instant /\ Known(o))

(* CancelOrder, whatever it answers: cancelOrderSafe ignores its error. *)
CancelOrder(o, dead) ==
    \/ /\ Cancellable(o)
       /\ exOrders' = [exOrders EXCEPT ![o].status = "CANCELLED"]
       /\ UNCHANGED exposure
    \/ /\ ~Cancellable(o) \/ "cancelLost" \in Faults \/ Broken(dead)
       /\ UNCHANGED exchangeVars

(* The process ends and another begins: an exchange of its own is new too. *)
ExchangeRestart ==
    \/ /\ Instant
       /\ exOrders' = [o \in OrderIds |-> NoOrder]
       /\ exposure' = 0
    \/ ~Instant /\ UNCHANGED exchangeVars

(* The exchange's own steps. *)
Fill(o) ==
    /\ Working(o)
    /\ exOrders[o].filled < Lot
    /\ Room(exOrders[o].side, exOrders[o].reduceOnly) > 0
    /\ exOrders' = [exOrders EXCEPT
                       ![o].filled = @ + 1,
                       ![o].status = IF exOrders[o].filled + 1 = Lot
                                     THEN "FILLED" ELSE "PARTIALLY_FILLED"]
    /\ exposure' = exposure + exOrders[o].side

Expire(o) ==
    /\ Working(o)
    /\ exOrders' = [exOrders EXCEPT ![o].status = "CANCELLED"]
    /\ UNCHANGED exposure
=============================================================================
