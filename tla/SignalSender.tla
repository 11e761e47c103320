---------------------------- MODULE SignalSender ----------------------------
(***************************************************************************)
(* The expert advisor's end of the bridge: CBridgeClient and the event     *)
(* handlers of BTC_Scalper_Signal.mq5.  MetaTrader runs the handlers one   *)
(* at a time.  Whether a tick brings a signal, and the clock behind the    *)
(* throttled reconnect, are left open.                                     *)
(***************************************************************************)
EXTENDS BridgeServer

CONSTANTS MaxSeq,    \* bound: signals generated in one life of the EA
          MaxLives   \* bound: times the EA is loaded

ASSUME SenderAssumption == MaxSeq \in Nat /\ MaxLives \in Nat \ {0}

VARIABLES socket,        \* m_socket, 0 for -1
          m_connected,
          m_signalSeq,
          life,          \* which load of the EA this is
          awaiting,      \* inside Receive of SendSignal
          offered        \* history: signals written to a socket

senderVars == <<socket, m_connected, m_signalSeq, life, awaiting, offered>>

Signals == [seq : 1 .. MaxSeq, life : 1 .. MaxLives]

SenderInit ==
    /\ socket = 0
    /\ m_connected = FALSE
    /\ m_signalSeq = 0
    /\ life = 1
    /\ awaiting = FALSE
    /\ offered = {}

-----------------------------------------------------------------------------
(* Connect: the old socket is closed first.  The kernel completes the
   connection before the server accepts it. *)
DialUp ==
    /\ dialled < MaxDials
    /\ listening
    /\ dialled' = dialled + 1
    /\ clientOpen' = (clientOpen \ {socket}) \cup {dialled'}
    /\ handler' = [handler EXCEPT ![dialled'] = "backlog"]
    /\ socket' = dialled'
    /\ m_connected' = TRUE
    /\ UNCHANGED <<cut, up, down, listening, acceptLoop, accepted, inHand,
                   activeConns, wg, signalCh, chClosed, ctxDone, acked>>

DialFails ==
    /\ clientOpen' = clientOpen \ {socket}
    /\ socket' = 0
    /\ m_connected' = FALSE
    /\ UNCHANGED <<dialled, cut, up, down, serverVars>>

Connect == DialUp \/ DialFails

(* OnTimer without a connection; with one, a heartbeat is sent.            *)
TryReconnect ==
    /\ ~awaiting
    /\ ~m_connected
    /\ Connect
    /\ UNCHANGED <<m_signalSeq, life, awaiting, offered>>

(* Send notices a dead connection or not.  Marked disconnected, the socket
   stays open until the next Connect. *)
SendBreaks ==
    /\ socket \in cut \/ ~ServerHolds(socket)
    /\ m_connected' = FALSE
    /\ UNCHANGED <<linkVars, serverVars, socket>>

SendGoes(line) ==
    /\ WriteUp(socket, line, ServerHolds(socket))
    /\ UNCHANGED <<serverVars, socket, m_connected>>

OnTimerHeartbeat ==
    /\ ~awaiting
    /\ m_connected
    /\ SendGoes(Heartbeat) \/ SendBreaks
    /\ UNCHANGED <<m_signalSeq, life, awaiting, offered>>

(* OnTick finds a signal: its number is used up, sent or not.              *)
OnTickSignal ==
    /\ ~awaiting
    /\ m_connected
    /\ m_signalSeq < MaxSeq
    /\ m_signalSeq' = m_signalSeq + 1
    /\ LET s == [seq |-> m_signalSeq', life |-> life]
       IN \/ SendGoes(s) /\ awaiting' = TRUE /\ offered' = offered \cup {s}
          \/ SendBreaks /\ UNCHANGED <<awaiting, offered>>
    /\ UNCHANGED life

(* Receive takes what has arrived, be it one reply or several, and whatever
   signal it answers. *)
ReceiveReply ==
    /\ awaiting
    /\ down[socket] > 0
    /\ \E n \in 0 .. down[socket] - 1 : down' = [down EXCEPT ![socket] = n]
    /\ awaiting' = FALSE
    /\ UNCHANGED <<dialled, clientOpen, cut, up, serverVars, socket, m_connected,
                   m_signalSeq, life, offered>>

(* One second without a reply: the connection is kept.                     *)
ReceiveTimeout ==
    /\ awaiting
    /\ awaiting' = FALSE
    /\ UNCHANGED <<linkVars, serverVars, socket, m_connected, m_signalSeq, life, offered>>

ReceiveError ==
    /\ awaiting
    /\ socket \in cut \/ ~ServerHolds(socket)
    /\ awaiting' = FALSE
    /\ m_connected' = FALSE
    /\ UNCHANGED <<linkVars, serverVars, socket, m_signalSeq, life, offered>>

(* OnDeinit, then OnInit of a new load: the numbers start again.           *)
Reload ==
    /\ ~awaiting
    /\ life < MaxLives
    /\ life' = life + 1
    /\ m_signalSeq' = 0
    /\ Connect
    /\ UNCHANGED <<awaiting, offered>>

SenderStep ==
    \/ TryReconnect \/ OnTimerHeartbeat \/ OnTickSignal
    \/ ReceiveReply \/ ReceiveTimeout \/ ReceiveError \/ Reload
=============================================================================
