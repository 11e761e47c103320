---------------------------- MODULE BridgeServer ----------------------------
(***************************************************************************)
(* The bridge server (bridge/server.go): the accept loop, one handler      *)
(* goroutine per connection, and Stop, which main calls.                   *)
(*                                                                         *)
(* handler[c] is the place of connection c on the server's side:           *)
(*   backlog     connected by the kernel, not accepted yet                 *)
(*   accepted    returned by Accept, the limit is still to be looked at    *)
(*   top         the handler is at the select at the head of its loop      *)
(*   scanning    inside scanner.Scan                                       *)
(*   acking      a signal is parsed, the ACK is not written                *)
(*   forwarding  at the select that sends to signalCh                      *)
(*   deaf        a read timed out.  bufio.Scanner keeps its first error:   *)
(*               every later Scan returns false at once with that timeout, *)
(*               and the loop goes round without reading                   *)
(*   leaving     the socket is closed, the deferred calls are to come      *)
(*   closed      gone, or rejected                                         *)
(***************************************************************************)
EXTENDS BridgeLink

CONSTANTS MaxConnections,   \* max_connections of the configuration
          ReadTimeout,      \* read_timeout_ms of the configuration
          SignalChCap       \* capacity of signalCh (64 in NewServer)

ASSUME ServerAssumption ==
    /\ MaxConnections \in Nat
    /\ ReadTimeout \in Nat
    /\ SignalChCap \in Nat

VARIABLES listening,     \* the listener is open
          acceptLoop,    \* "accept", "admit" or "ended"
          accepted,      \* the connection Accept returned last
          handler, inHand,
          activeConns, wg,
          signalCh, chClosed,
          ctxDone,
          acked          \* history: signals whose ACK was written

serverVars == <<listening, acceptLoop, accepted, handler, inHand, activeConns,
                wg, signalCh, chClosed, ctxDone, acked>>

Running == {"top", "scanning", "acking", "forwarding", "deaf", "leaving"}

ServerHolds(c) == handler[c] \in {"backlog", "accepted"} \cup (Running \ {"leaving"})

(* NewServer and Start: one goroutine, the accept loop.                    *)
ServerInit ==
    /\ listening = TRUE
    /\ acceptLoop = "accept"
    /\ accepted = 0
    /\ handler = [c \in Conns |-> "none"]
    /\ inHand = [c \in Conns |-> Heartbeat]
    /\ activeConns = 0
    /\ wg = 1
    /\ signalCh = <<>>
    /\ chClosed = FALSE
    /\ ctxDone = FALSE
    /\ acked = {}

-----------------------------------------------------------------------------
Accept(c) ==
    /\ acceptLoop = "accept"
    /\ listening
    /\ handler[c] = "backlog"
    /\ \A d \in Conns : handler[d] = "backlog" => c <= d
    /\ acceptLoop' = "admit"
    /\ accepted' = c
    /\ handler' = [handler EXCEPT ![c] = "accepted"]
    /\ UNCHANGED <<linkVars, listening, inHand, activeConns, wg,
                   signalCh, chClosed, ctxDone, acked>>

Full == activeConns >= MaxConnections

Reject ==
    /\ acceptLoop = "admit"
    /\ Full
    /\ acceptLoop' = "accept"
    /\ handler' = [handler EXCEPT ![accepted] = "closed"]
    /\ UNCHANGED <<linkVars, listening, accepted, inHand, activeConns, wg,
                   signalCh, chClosed, ctxDone, acked>>

(* Only the accept loop counts up, so nothing comes between the test and
   the count that could break the limit. *)
Admit ==
    /\ acceptLoop = "admit"
    /\ ~Full
    /\ acceptLoop' = "accept"
    /\ activeConns' = activeConns + 1
    /\ wg' = wg + 1
    /\ handler' = [handler EXCEPT ![accepted] = "top"]
    /\ UNCHANGED <<linkVars, listening, accepted, inHand, signalCh, chClosed,
                   ctxDone, acked>>

(* Accept fails on the closed listener, and the context is done by then.   *)
AcceptLoopEnds ==
    /\ acceptLoop = "accept"
    /\ ~listening
    /\ ctxDone
    /\ acceptLoop' = "ended"
    /\ wg' = wg - 1
    /\ UNCHANGED <<linkVars, listening, accepted, handler, inHand, activeConns,
                   signalCh, chClosed, ctxDone, acked>>

-----------------------------------------------------------------------------
(* handleConnection.                                                       *)

HandlerTo(c, place) == handler' = [handler EXCEPT ![c] = place]

SharedUnchanged == UNCHANGED <<listening, acceptLoop, accepted, chClosed, ctxDone>>

(* The select at the head of the loop; a deaf handler passes it for ever.  *)
LoopTop(c) ==
    /\ \/ handler[c] = "top" /\ HandlerTo(c, IF ctxDone THEN "leaving" ELSE "scanning")
       \/ handler[c] = "deaf" /\ ctxDone /\ HandlerTo(c, "leaving")
    /\ SharedUnchanged
    /\ UNCHANGED <<linkVars, inHand, activeConns, wg, signalCh, acked>>

ScanHeartbeat(c) ==
    /\ handler[c] = "scanning"
    /\ up[c] # <<>> /\ Head(up[c]) = Heartbeat
    /\ TakeUp(c)
    /\ HandlerTo(c, "top")
    /\ SharedUnchanged
    /\ UNCHANGED <<inHand, activeConns, wg, signalCh, acked>>

ScanSignal(c) ==
    /\ handler[c] = "scanning"
    /\ up[c] # <<>> /\ Head(up[c]) # Heartbeat
    /\ TakeUp(c)
    /\ inHand' = [inHand EXCEPT ![c] = Head(up[c])]
    /\ HandlerTo(c, "acking")
    /\ SharedUnchanged
    /\ UNCHANGED <<activeConns, wg, signalCh, acked>>

(* End of file once everything was read, or a reset.                       *)
ScanEnds(c) ==
    /\ handler[c] = "scanning"
    /\ c \in cut \/ (c \notin clientOpen /\ up[c] = <<>>)
    /\ HandlerTo(c, "leaving")
    /\ SharedUnchanged
    /\ UNCHANGED <<linkVars, inHand, activeConns, wg, signalCh, acked>>

(* The deadline passes.  If part of a line had arrived the scanner hands it
   out as a last token; it does not parse and an ERROR reply is written. *)
ScanTimeout(c) ==
    /\ handler[c] = "scanning"
    /\ ReadTimeout > 0
    /\ \/ UNCHANGED linkVars
       \/ up[c] # <<>> /\ WriteDown(c)
    /\ HandlerTo(c, "deaf")
    /\ SharedUnchanged
    /\ UNCHANGED <<inHand, activeConns, wg, signalCh, acked>>

(* The ACK is written before the signal is queued.                         *)
WriteAck(c) ==
    /\ handler[c] = "acking"
    /\ WriteDown(c)
    /\ acked' = acked \cup {inHand[c]}
    /\ HandlerTo(c, "forwarding")
    /\ SharedUnchanged
    /\ UNCHANGED <<inHand, activeConns, wg, signalCh>>

AckFails(c) ==
    /\ handler[c] = "acking"
    /\ c \in cut \/ c \notin clientOpen
    /\ HandlerTo(c, "leaving")
    /\ SharedUnchanged
    /\ UNCHANGED <<linkVars, inHand, activeConns, wg, signalCh, acked>>

(* Mutant of Forward: a full channel drops the signal.                     *)
ForwardOrDrop(c) ==
    /\ handler[c] = "forwarding"
    /\ signalCh' = IF Len(signalCh) < SignalChCap
                   THEN Append(signalCh, inHand[c]) ELSE signalCh
    /\ HandlerTo(c, "top")
    /\ SharedUnchanged
    /\ UNCHANGED <<linkVars, inHand, activeConns, wg, acked>>

(* Mutant of Forward: the handler sends the signal again after a full channel. *)
ForwardTwice(c) ==
    /\ handler[c] = "forwarding"
    /\ Len(signalCh) < SignalChCap
    /\ signalCh' = Append(signalCh, inHand[c])
    /\ HandlerTo(c, "top") \/ HandlerTo(c, "forwarding")
    /\ SharedUnchanged
    /\ UNCHANGED <<linkVars, inHand, activeConns, wg, acked>>

Forward(c) ==
    /\ handler[c] = "forwarding"
    /\ Len(signalCh) < SignalChCap
    /\ signalCh' = Append(signalCh, inHand[c])
    /\ HandlerTo(c, "top")
    /\ SharedUnchanged
    /\ UNCHANGED <<linkVars, inHand, activeConns, wg, acked>>

(* Mutant of ForwardCancelled: the select has no case for the context.     *)
ForwardNeverCancelled(c) == FALSE

ForwardCancelled(c) ==
    /\ handler[c] = "forwarding"
    /\ ctxDone
    /\ HandlerTo(c, "leaving")
    /\ SharedUnchanged
    /\ UNCHANGED <<linkVars, inHand, activeConns, wg, signalCh, acked>>

(* Mutant of HandlerEnds: the place is not given back.                     *)
HandlerEndsKeepingPlace(c) ==
    /\ handler[c] = "leaving"
    /\ HandlerTo(c, "closed")
    /\ wg' = wg - 1
    /\ SharedUnchanged
    /\ UNCHANGED <<linkVars, inHand, activeConns, signalCh, acked>>

(* The deferred calls: the place is free and the wait group counts down.   *)
HandlerEnds(c) ==
    /\ handler[c] = "leaving"
    /\ HandlerTo(c, "closed")
    /\ activeConns' = activeConns - 1
    /\ wg' = wg - 1
    /\ SharedUnchanged
    /\ UNCHANGED <<linkVars, inHand, signalCh, acked>>

HandlerStep(c) ==
    \/ LoopTop(c) \/ ScanHeartbeat(c) \/ ScanSignal(c) \/ ScanEnds(c) \/ ScanTimeout(c)
    \/ WriteAck(c) \/ AckFails(c) \/ Forward(c) \/ ForwardCancelled(c) \/ HandlerEnds(c)

-----------------------------------------------------------------------------
(* Stop, in main's goroutine, after main cancelled the context.            *)

(* The listener closes and takes its backlog with it.                      *)
CloseListener ==
    /\ listening' = FALSE
    /\ handler' = [c \in Conns |-> IF handler[c] = "backlog" THEN "closed" ELSE handler[c]]
    /\ UNCHANGED <<linkVars, acceptLoop, accepted, inHand, activeConns, wg,
                   signalCh, chClosed, ctxDone, acked>>

(* Mutant of CloseSignalCh: the wait group is not waited for.              *)
CloseSignalChAtOnce ==
    /\ chClosed' = TRUE
    /\ UNCHANGED <<linkVars, listening, acceptLoop, accepted, handler, inHand,
                   activeConns, wg, signalCh, ctxDone, acked>>

CloseSignalCh ==
    /\ wg = 0
    /\ chClosed' = TRUE
    /\ UNCHANGED <<linkVars, listening, acceptLoop, accepted, handler, inHand,
                   activeConns, wg, signalCh, ctxDone, acked>>
=============================================================================
