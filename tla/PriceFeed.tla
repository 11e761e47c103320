----------------------------- MODULE PriceFeed ------------------------------
(***************************************************************************)
(* The price feed server (bridge/pricefeed.go) and the goroutine of main   *)
(* that forwards every tick of bookCh to its clients.  The writes are made *)
(* one client after the other, in any order, under the lock that guards    *)
(* the client map, and have no deadline: a client that does not read holds *)
(* the lock.                                                               *)
(***************************************************************************)
EXTENDS MarketData, FiniteSets

CONSTANTS Clients,   \* MT5 terminals; each connects once
          NoClient

ASSUME ClientAssumption == NoClient \notin Clients

VARIABLES peer,      \* peer[c]: "none", "dialled", "reading", "stalled", "gone"
          clients,   \* the map, under mu
          accepting, \* the connection between Accept and Lock, NoClient if none
          tick,      \* the tick the forwarder took last
          todo,      \* clients the broadcast under way has not reached
          writing,   \* the client it writes to, NoClient outside a write
          seen       \* seen[c]: the last tick c received

feedVars == <<peer, clients, accepting, tick, todo, writing, seen>>

Locked == todo # {} \/ writing # NoClient

FeedInit ==
    /\ peer = [c \in Clients |-> "none"]
    /\ clients = {}
    /\ accepting = NoClient
    /\ tick = 0 /\ todo = {} /\ writing = NoClient
    /\ seen = [c \in Clients |-> 0]

-----------------------------------------------------------------------------
(* The terminals.                                                          *)

PeerBecomes(c, from, to) ==
    /\ peer[c] \in from
    /\ peer' = [peer EXCEPT ![c] = to]
    /\ UNCHANGED <<marketVars, clients, accepting, tick, todo, writing, seen>>

PeerStep(c) ==
    \/ PeerBecomes(c, {"none"}, "dialled")
    \/ PeerBecomes(c, {"reading"}, "stalled")
    \/ PeerBecomes(c, {"stalled"}, "reading")
    \/ PeerBecomes(c, {"reading", "stalled"}, "gone")

-----------------------------------------------------------------------------
(* acceptLoop.                                                             *)

AcceptClient ==
    /\ accepting = NoClient
    /\ \E c \in Clients :
          /\ peer[c] = "dialled"
          /\ accepting' = c
          /\ peer' = [peer EXCEPT ![c] = "reading"]
    /\ UNCHANGED <<marketVars, clients, tick, todo, writing, seen>>

AddClient ==
    /\ accepting # NoClient
    /\ ~Locked
    /\ clients' = clients \cup {accepting}
    /\ accepting' = NoClient
    /\ UNCHANGED <<marketVars, peer, tick, todo, writing, seen>>

-----------------------------------------------------------------------------
(* The forwarder and BroadcastTick.                                        *)

Forwarding == ~ctxDone \/ Locked

TakeTick ==
    /\ Forwarding /\ ~Locked
    /\ TakeBook
    /\ tick' = Head(bookCh)
    /\ todo' = clients
    /\ UNCHANGED <<peer, clients, accepting, writing, seen>>

PickClient ==
    /\ writing = NoClient
    /\ \E c \in todo : writing' = c /\ todo' = todo \ {c}
    /\ UNCHANGED <<marketVars, peer, clients, accepting, tick, seen>>

WriteTick ==
    /\ writing # NoClient
    /\ peer[writing] = "reading"
    /\ seen' = [seen EXCEPT ![writing] = tick]
    /\ writing' = NoClient
    /\ UNCHANGED <<marketVars, peer, clients, accepting, tick, todo>>

(* The first write after the peer went may still succeed.                  *)
WriteFails ==
    /\ writing # NoClient
    /\ peer[writing] = "gone"
    /\ clients' \in {clients, clients \ {writing}}
    /\ writing' = NoClient
    /\ UNCHANGED <<marketVars, peer, accepting, tick, todo, seen>>

FeedStep == AcceptClient \/ AddClient
ForwardStep == TakeTick \/ PickClient \/ WriteTick \/ WriteFails
=============================================================================
