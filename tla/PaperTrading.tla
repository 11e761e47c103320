---------------------------- MODULE PaperTrading ----------------------------
(***************************************************************************)
(* The server in paper mode: ExecutionPipeline with its instant exchange,  *)
(* whose calls do not fail, and the account of PaperClient behind it.  The *)
(* account moves in the step in which the pipeline's order reaches the     *)
(* exchange, and is new when the process is.                               *)
(***************************************************************************)
EXTENDS ExecutionPipeline, PaperExchange

ASSUME PaperModeAssumption == Instant /\ Faults = {}

PaperInit == Init /\ FreshAccount

(* The step in which an order is placed, and answered. *)
Sent(o) ==
    \/ pc = "placeMaker" /\ pc' = "pollMaker" /\ o = MakerId(sig)
    \/ pc = "placeIoc" /\ pc' = "pollIoc" /\ o = IocId(sig)
    \/ \E s \in Signals :
          \/ mon[s] = "placeExit" /\ mon'[s] = "pollExit" /\ o = ExitId(pos[s])
          \/ mon[s] = "placeReprice" /\ mon'[s] = "pollReprice" /\ o = RepriceId(pos[s])

Restarted == restarts' # restarts

AccountStep ==
    \/ \E o \in OrderIds, price \in Prices :
          /\ Sent(o)
          /\ PaperPlaceOrder(exOrders'[o].side, Lot, exOrders'[o].reduceOnly, price)
    \/ Restarted /\ NewAccount
    \/ /\ ~Restarted /\ \A o \in OrderIds : ~Sent(o)
       /\ UNCHANGED paperVars

PaperNext == Next /\ AccountStep

PaperSpec == PaperInit /\ [][PaperNext]_<<vars, paperVars>>

-----------------------------------------------------------------------------
FilledUnits ==
    [o \in OrderIds |-> IF Filled(o) THEN exOrders[o].side * exOrders[o].filled ELSE 0]

\* The positions of the account are what the orders it reports as filled add up
\* to, though closePositionsLocked never looks at the side of an order and
\* CancelOrder turns even a filled order into a cancelled one (paper.go:282).
\* It is why one signed number can stand for the paper account.
PositionsAreFills ==
    /\ PositionsSum(Held) = exposure
    /\ exposure = SumFunction(FilledUnits)

\* No money appears or gets lost: the balance is the initial one, less every
\* fee and every price paid, plus every price received, plus what the open
\* positions cost.
BooksBalance == simulatedBalance = InitialBalance + cash + PositionsSum(Cost)
=============================================================================
