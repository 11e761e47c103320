---------------------------- MODULE SignalIntake ----------------------------
(***************************************************************************)
(* The expert advisor, the bridge server and main's loop together, from    *)
(* the start of the server to the end of Stop.                             *)
(***************************************************************************)
EXTENDS SignalSender

VARIABLES mainPc,   \* "loop", "busy" in ProcessSignal, "cancelled",
                    \* "waiting" in Stop, "stopped"
          taken     \* history: the signals main received, in order

intakeVars == <<linkVars, serverVars, senderVars, mainPc, taken>>

Init ==
    /\ LinkInit
    /\ ServerInit
    /\ SenderInit
    /\ mainPc = "loop"
    /\ taken = <<>>

TakeSignal ==
    /\ mainPc = "loop"
    /\ signalCh # <<>>
    /\ signalCh' = Tail(signalCh)
    /\ taken' = Append(taken, Head(signalCh))
    /\ mainPc' = "busy"
    /\ UNCHANGED <<linkVars, senderVars, listening, acceptLoop, accepted, handler,
                   inHand, activeConns, wg, chClosed, ctxDone, acked>>

FinishSignal ==
    /\ mainPc = "busy"
    /\ mainPc' = "loop"
    /\ UNCHANGED <<linkVars, senderVars, serverVars, taken>>

(* SIGINT or SIGTERM at the select, then cancel().                         *)
Cancel ==
    /\ mainPc = "loop"
    /\ mainPc' = "cancelled"
    /\ ctxDone' = TRUE
    /\ UNCHANGED <<linkVars, senderVars, listening, acceptLoop, accepted, handler,
                   inHand, activeConns, wg, signalCh, chClosed, acked, taken>>

StopListening ==
    /\ mainPc = "cancelled"
    /\ mainPc' = "waiting"
    /\ CloseListener
    /\ UNCHANGED <<senderVars, taken>>

StopEnds ==
    /\ mainPc = "waiting"
    /\ mainPc' = "stopped"
    /\ CloseSignalCh
    /\ UNCHANGED <<senderVars, taken>>

MainStep == TakeSignal \/ FinishSignal \/ StopListening \/ StopEnds

Idle == UNCHANGED <<mainPc, taken>>

AcceptLoopStep == (\E c \in Conns : Accept(c)) \/ Reject \/ Admit \/ AcceptLoopEnds

ServerStep == (AcceptLoopStep \/ \E c \in Conns : HandlerStep(c))
              /\ UNCHANGED <<senderVars, mainPc, taken>>

NetworkCut ==
    /\ \E c \in Conns : Cut(c)
    /\ UNCHANGED <<serverVars, senderVars, mainPc, taken>>

Next ==
    \/ MainStep
    \/ Cancel
    \/ ServerStep
    \/ SenderStep /\ Idle
    \/ NetworkCut

Spec == Init /\ [][Next]_intakeVars

(***************************************************************************)
(* Fairness: the Go scheduler runs main, the accept loop and each handler. *)
(* A handler inside Scan goes on because its read has a deadline, and main *)
(* comes back from ProcessSignal because every call in it has one.         *)
(* Nothing is assumed of the expert advisor, the network or the operator.  *)
(***************************************************************************)
Fairness ==
    /\ WF_intakeVars(MainStep)
    /\ WF_intakeVars(AcceptLoopStep /\ UNCHANGED <<senderVars, mainPc, taken>>)
    /\ \A c \in Conns :
          WF_intakeVars(HandlerStep(c) /\ UNCHANGED <<senderVars, mainPc, taken>>)

FairSpec == Spec /\ Fairness

-----------------------------------------------------------------------------
LinkTypeOK ==
    /\ dialled \in 0 .. MaxDials
    /\ clientOpen \subseteq 1 .. dialled
    /\ cut \subseteq 1 .. dialled
    /\ up \in [Conns -> Seq(offered \cup {Heartbeat})]
    /\ \A c \in Conns : Len(up[c]) <= MaxLines
    /\ down \in [Conns -> Nat]

ServerTypeOK ==
    /\ listening \in BOOLEAN /\ chClosed \in BOOLEAN /\ ctxDone \in BOOLEAN
    /\ acceptLoop \in {"accept", "admit", "ended"}
    /\ accepted \in 0 .. MaxDials
    /\ handler \in [Conns -> Running \cup {"none", "backlog", "accepted", "closed"}]
    /\ inHand \in [Conns -> offered \cup {Heartbeat}]
    /\ activeConns \in 0 .. MaxConnections
    /\ wg \in 0 .. MaxConnections + 1
    /\ signalCh \in Seq(offered) /\ Len(signalCh) <= SignalChCap
    /\ acked \subseteq offered

SenderTypeOK ==
    /\ socket \in 0 .. dialled
    /\ m_connected \in BOOLEAN /\ awaiting \in BOOLEAN
    /\ m_connected => socket # 0
    /\ awaiting => m_connected
    /\ m_signalSeq \in 0 .. MaxSeq
    /\ life \in 1 .. MaxLives
    /\ offered \subseteq Signals

(* Types, and that nothing gets a signal the EA did not send.              *)
IntakeTypeOK ==
    /\ LinkTypeOK
    /\ ServerTypeOK
    /\ SenderTypeOK
    /\ mainPc \in {"loop", "busy", "cancelled", "waiting", "stopped"}
    /\ taken \in Seq(offered)

\* The counter main's limit is compared with is the number of handlers that
\* run: a place is taken before the handler starts and given back on every one
\* of its ways out, so the limit is neither passed nor used up by the dead.
PlacesAreHandlers ==
    activeConns = Cardinality({c \in Conns : handler[c] \in Running})

\* Stop closes signalCh only when no handler can send on it any more: a send
\* on a closed channel would end the process (server.go:81-82 against 187).
NoSendAfterClose ==
    chClosed => \A c \in Conns : handler[c] \notin Running

\* The EA is told OK before the signal is queued (server.go:175 and 188); up
\* to the shutdown such a signal is nevertheless with a handler, in the
\* channel or with main, whatever became of the connection it came on.
AckedIsKept ==
    ctxDone \/ \A s \in acked :
        \/ \E c \in Conns : handler[c] = "forwarding" /\ inHand[c] = s
        \/ \E i \in DOMAIN signalCh : signalCh[i] = s
        \/ \E i \in DOMAIN taken : taken[i] = s

\* Stop returns: handlers blocked on a full channel, in a read, or going round
\* without reading all notice the context, and the backlog cannot refill.
ShutdownEnds == mainPc = "cancelled" ~> mainPc = "stopped"

\* A signal that was acknowledged is processed, however long main was busy
\* and the channel full, unless the server is shut down.
AckedIsTaken ==
    \A s \in Signals :
        s \in acked ~> ctxDone \/ \E i \in DOMAIN taken : taken[i] = s

\* "read timeout, keep connection alive" (server.go:142): on a connection both
\* ends hold, what the EA has sent is read at last.
KeptAlive ==
    \A c \in Conns :
        up[c] # <<>> ~> \/ up[c] = <<>>
                        \/ c \notin clientOpen
                        \/ ~ServerHolds(c)
                        \/ ctxDone

\* The intake implements SignalDelivery.
Delivery == INSTANCE SignalDelivery WITH
                consumed <- taken, open <- ~ctxDone

DeliverySpec == Delivery!Spec
=============================================================================
