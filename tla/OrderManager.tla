---------------------------- MODULE OrderManager ----------------------------
(***************************************************************************)
(* The order book-keeping of server/internal/orders/manager.go, with the   *)
(* state table of model/order.go and the client order ids of idgen.go.     *)
(*                                                                         *)
(* Only the "entry" role is ever created (entry.go:31), so seen is keyed   *)
(* by the signal alone.  A client order id keeps the UTC date and the last *)
(* six characters of the signal id: two signals with the same Suffix share *)
(* an id on the same date, and the second order takes the map entry of the *)
(* first.                                                                  *)
(***************************************************************************)
EXTENDS Calendar

CONSTANTS
    Signals,     \* the signal ids the EA may send
    NoSignal,    \* Go's nil or empty id
    IdSuffixes,  \* last six characters of a signal id
    Suffix       \* the suffix of each signal

ASSUME SignalAssumption ==
    /\ NoSignal \notin Signals
    /\ Suffix \in [Signals -> IdSuffixes]

VARIABLES
    orders,      \* ClientOrderID -> status of the order stored there
    seen         \* signal -> the ClientOrderID created for it

orderVars == <<orders, seen>>

OrderState ==
    {"NEW", "SUBMITTING", "ACKED", "PARTIALLY_FILLED", "FILLED",
     "CANCEL_REQUESTED", "CANCELLED", "REPLACE_REQUESTED", "REPLACED",
     "REJECTED", "EXPIRED", "UNKNOWN"}

Absent == "ABSENT"   \* no such key in the map

NoId == <<NoDate, "none">>

ClientIds == Days \X IdSuffixes

OrdersTypeOK ==
    /\ orders \in [ClientIds -> OrderState \cup {Absent}]
    /\ seen \in [Signals -> ClientIds \cup {NoId}]

FreshManager ==
    /\ orders = [id \in ClientIds |-> Absent]
    /\ seen = [s \in Signals |-> NoId]

NewManager ==
    /\ orders' = [id \in ClientIds |-> Absent]
    /\ seen' = [s \in Signals |-> NoId]

ValidOrderTransitions ==
    [NEW               |-> {"SUBMITTING", "REJECTED"},
     SUBMITTING        |-> {"ACKED", "REJECTED", "UNKNOWN"},
     ACKED             |-> {"PARTIALLY_FILLED", "FILLED", "CANCEL_REQUESTED",
                            "REPLACE_REQUESTED", "EXPIRED", "REJECTED"},
     PARTIALLY_FILLED  |-> {"FILLED", "CANCEL_REQUESTED", "REPLACE_REQUESTED",
                            "EXPIRED"},
     FILLED            |-> {},
     CANCEL_REQUESTED  |-> {"CANCELLED", "FILLED", "PARTIALLY_FILLED", "UNKNOWN"},
     CANCELLED         |-> {},
     REPLACE_REQUESTED |-> {"REPLACED", "CANCELLED", "FILLED", "UNKNOWN"},
     REPLACED          |-> {"ACKED"},
     REJECTED          |-> {},
     EXPIRED           |-> {},
     UNKNOWN           |-> {"ACKED", "FILLED", "CANCELLED", "REJECTED", "EXPIRED"}]

CanTransitionTo(from, to) == to \in ValidOrderTransitions[from]

GenerateClientOrderID(s, date) == <<date, Suffix[s]>>

(* The idempotency guard: a signal gets one entry order per process. *)
Duplicate(s) == seen[s] # NoId

CreateOrder(s) ==
    LET id == GenerateClientOrderID(s, today) IN
    /\ ~Duplicate(s)
    /\ orders' = [orders EXCEPT ![id] = "NEW"]
    /\ seen' = [seen EXCEPT ![s] = id]

(* A refused transition is an error the callers ignore: nothing changes. *)
UpdatedState(from, to) == IF CanTransitionTo(from, to) THEN to ELSE from

UpdateState(id, newState) ==
    /\ orders' = [orders EXCEPT ![id] =
                      IF @ = Absent THEN Absent ELSE UpdatedState(@, newState)]
    /\ UNCHANGED seen
=============================================================================
