-------------------------- MODULE TrackedPipeline --------------------------
(***************************************************************************)
(* ExecutionPipeline with the LatencyTracker it reports to.  Each call of  *)
(* the tracker belongs to the step of the pipeline it stands next to, and  *)
(* the step says which call it is.                                         *)
(***************************************************************************)
EXTENDS ExecutionPipeline, LatencyTracker

ASSUME TrackedAssumption ==
    /\ RecordKeys = Signals
    /\ NoOrderId \notin OrderIds

From(here, next) == pc = here /\ pc' = next

(* The calls of entry.go, pipeline.go:170 and exit.go:299. *)
TrackerStep ==
    \/ From("idle", "evaluate")          /\ RecordSignalReceived(sig')
    \/ From("submit", "placeMaker")      /\ RecordOrderSent(sig, MakerId(sig))
    \/ From("placeMaker", "pollMaker")   /\ RecordOrderAcked(MakerId(sig))
    \/ From("pollMaker", "recordTrade")  /\ RecordFill(MakerId(sig))
    \/ From("cancelMaker", "placeIoc")   /\ RecordOrderSent(sig, IocId(sig))
    \/ From("placeIoc", "pollIoc")       /\ RecordOrderAcked(IocId(sig))
    \/ From("pollIoc", "recordTrade")    /\ RecordFill(IocId(sig))
    \/ \E s \in Signals : /\ mon[s] # "recordResult" /\ mon'[s] = "recordResult"
                          /\ RecordClosed(pos[s])

Reports ==
    \/ <<pc, pc'>> \in {<<"idle", "evaluate">>, <<"submit", "placeMaker">>,
                        <<"placeMaker", "pollMaker">>, <<"pollMaker", "recordTrade">>,
                        <<"cancelMaker", "placeIoc">>, <<"placeIoc", "pollIoc">>,
                        <<"pollIoc", "recordTrade">>}
    \/ \E s \in Signals : mon[s] # "recordResult" /\ mon'[s] = "recordResult"

TrackedInit == Init /\ TrackerInit

(* A new process starts with no records. *)
TrackedNext ==
    /\ Next
    /\ \/ pc = "down" /\ records' = [s \in RecordKeys |-> Unstamped]
       \/ pc # "down" /\ TrackerStep
       \/ pc # "down" /\ ~Reports /\ UNCHANGED records

TrackedSpec == TrackedInit /\ [][TrackedNext]_<<vars, records>>

-----------------------------------------------------------------------------
\* Three components keep a record of an entry, each under its own lock and
\* keyed differently: the order manager, the latency tracker and the risk
\* engine.  They agree: a signal that became a trade has a filled order in the
\* order manager, though the cancel of the probe is a transition its table does
\* not have (entry.go:107); and the stamps of its record are all of the one
\* order the exchange filled, be it the probe or the IOC.
RecordsAgree ==
    Up => \A s \in Signals :
        /\ DeltasMeanSomething(s)
        /\ s \in opened =>
              /\ orders[seen[s]] = "FILLED"
              /\ records[s].t6 # NoOrderId /\ Filled(records[s].t6)
              /\ records[s].t6 \in {MakerId(s), IocId(s)}
=============================================================================
