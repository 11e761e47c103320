--------------------------- MODULE LatencyTracker ---------------------------
(***************************************************************************)
(* The timestamps of server/internal/monitoring/latency.go.  One record    *)
(* per signal; T4, T5 and T6 arrive by client order id, and the record is  *)
(* found by the one order id it holds at that moment.  Instead of a time,  *)
(* each stamp holds what it is the time of: the order that was sent, acked *)
(* or filled.  The deltas are differences between the stamps of a record,  *)
(* and mean something only if the stamps are of one order.                 *)
(*                                                                         *)
(* Every method holds one mutex from its first line to its last.           *)
(***************************************************************************)
CONSTANTS RecordKeys, NoOrderId

VARIABLE records    \* SignalID -> LatencyRecord

Unstamped == [clientOrderId |-> NoOrderId, received |-> FALSE, t4 |-> NoOrderId,
              t5 |-> NoOrderId, t6 |-> NoOrderId, closed |-> FALSE]

TrackerInit == records = [s \in RecordKeys |-> Unstamped]

RecordSignalReceived(s) == records' = [records EXCEPT ![s].received = TRUE]

(* Mutant of RecordOrderSent: the record keeps its first order. *)
RecordOrderSentFirst(s, o) ==
    records' = [records EXCEPT
                   ![s].clientOrderId = IF @ = NoOrderId THEN o ELSE @,
                   ![s].t4 = o]

RecordOrderSent(s, o) ==
    records' = [records EXCEPT ![s].clientOrderId = o, ![s].t4 = o]

(* findByOrderIDLocked ranges over a map: any record that matches. *)
FindByOrderID(o) == {s \in RecordKeys : records[s].clientOrderId = o}

RecordOrderAcked(o) ==
    \/ \E s \in FindByOrderID(o) : records' = [records EXCEPT ![s].t5 = o]
    \/ FindByOrderID(o) = {} /\ UNCHANGED records

RecordFill(o) ==
    \/ \E s \in FindByOrderID(o) : records' = [records EXCEPT ![s].t6 = o]
    \/ FindByOrderID(o) = {} /\ UNCHANGED records

RecordClosed(s) == records' = [records EXCEPT ![s].closed = TRUE]

(* AckToFillMs and SignalToFillMs are differences of stamps of one order, and
   FillToCloseMs has a fill to count from. *)
DeltasMeanSomething(s) ==
    /\ records[s].t6 # NoOrderId =>
          /\ records[s].received
          /\ records[s].t4 = records[s].t6 /\ records[s].t5 = records[s].t6
    /\ records[s].closed => records[s].t6 # NoOrderId
=============================================================================
