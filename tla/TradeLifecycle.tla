--------------------------- MODULE TradeLifecycle ---------------------------
(***************************************************************************)
(* What the execution server promises about its own books, whatever the    *)
(* exchange does: there is one trading slot.  A signal is admitted to the  *)
(* slot, and either abandoned or traded; a traded signal is settled (its   *)
(* result reaches the risk engine) once, before the slot is free again;    *)
(* no signal is traded twice by one process.                               *)
(*                                                                         *)
(* ExecutionPipeline implements this with two goroutines, a flag, a        *)
(* pointer and no lock held from one step to the next.                     *)
(***************************************************************************)
CONSTANTS Signals, NoSignal

VARIABLES
    stage,     \* "free", "entering", "open" or "settled"
    holder,    \* the signal in the slot
    traded,    \* the signals that became a trade
    booked     \* the trades whose result is recorded

slotVars == <<stage, holder, traded, booked>>

Init ==
    /\ stage = "free"
    /\ holder = NoSignal
    /\ traded = {}
    /\ booked = {}

Admit(s) ==
    /\ stage = "free"
    /\ stage' = "entering"
    /\ holder' = s
    /\ UNCHANGED <<traded, booked>>

Abandon ==
    /\ stage = "entering"
    /\ stage' = "free"
    /\ holder' = NoSignal
    /\ UNCHANGED <<traded, booked>>

Trade ==
    /\ stage = "entering"
    /\ holder \notin traded
    /\ stage' = "open"
    /\ traded' = traded \cup {holder}
    /\ UNCHANGED <<holder, booked>>

Settle ==
    /\ stage = "open"
    /\ stage' = "settled"
    /\ booked' = booked \cup {holder}
    /\ UNCHANGED <<holder, traded>>

Release ==
    /\ stage = "settled"
    /\ stage' = "free"
    /\ holder' = NoSignal
    /\ UNCHANGED <<traded, booked>>

Next ==
    \/ \E s \in Signals : Admit(s)
    \/ Abandon
    \/ Trade
    \/ Settle
    \/ Release

Spec == Init /\ [][Next]_slotVars
=============================================================================
