--------------------------- MODULE SignalDelivery ---------------------------
(***************************************************************************)
(* What the bridge promises: a signal reaches the consumer only after it   *)
(* was offered and acknowledged, once, and none does after the intake      *)
(* closed.  Signals may be lost before the acknowledgement, and those not  *)
(* consumed when the intake closes are.                                    *)
(***************************************************************************)
EXTENDS Sequences

CONSTANT Signals

VARIABLES offered, acked, consumed, open

deliveryVars == <<offered, acked, consumed, open>>

Consumed(s) == \E i \in DOMAIN consumed : consumed[i] = s

Init == offered = {} /\ acked = {} /\ consumed = <<>> /\ open = TRUE

Offer ==
    /\ \E s \in Signals \ offered : offered' = offered \cup {s}
    /\ UNCHANGED <<acked, consumed, open>>

Acknowledge ==
    /\ \E s \in offered \ acked : acked' = acked \cup {s}
    /\ UNCHANGED <<offered, consumed, open>>

Consume ==
    /\ open
    /\ \E s \in acked : ~Consumed(s) /\ consumed' = Append(consumed, s)
    /\ UNCHANGED <<offered, acked, open>>

Close ==
    /\ open
    /\ open' = FALSE
    /\ UNCHANGED <<offered, acked, consumed>>

Next == Offer \/ Acknowledge \/ Consume \/ Close

Spec == Init /\ [][Next]_deliveryVars
=============================================================================
