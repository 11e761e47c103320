----------------------------- MODULE MarketData -----------------------------
(***************************************************************************)
(* The WebSocket client (bingx/ws_realtime.go): one goroutine that dials,  *)
(* reads, publishes each tick twice (as latestBook under a lock, and on    *)
(* bookCh, where the oldest gives way) and dials again when a read fails.  *)
(* A book is the number of the market tick it shows; 0 is no book.         *)
(***************************************************************************)
EXTENDS Integers, Sequences

CONSTANTS BookChCap,    \* capacity of bookCh (256 in NewWSMarketClient)
          MaxTicks,     \* bound: ticks of the market
          MaxStream     \* bound: messages under way from BingX

ASSUME MarketAssumption ==
    /\ BookChCap \in Nat \ {0}
    /\ MaxTicks \in Nat
    /\ MaxStream \in Nat

VARIABLES market,      \* BingX: the market's last tick
          link,        \* BingX: "none", "up", "broken" (a read fails) or
                       \* "silent" (nothing arrives and no read fails)
          stream,      \* BingX: messages under way, 0 for one without a tick
          connectedAt, \* history: the market's tick at the last dial
          ws,          \* "dial", "reading", "publish", "full", "retry",
                       \* "pause" or "stopped"
          latestBook, bookCh,
          ctxDone

marketVars == <<market, connectedAt, link, stream, ws, latestBook, bookCh, ctxDone>>

MarketInit ==
    /\ market = 0 /\ connectedAt = 0 /\ link = "none" /\ stream = <<>>
    /\ ws = "dial"
    /\ latestBook = 0 /\ bookCh = <<>>
    /\ ctxDone = FALSE

-----------------------------------------------------------------------------
(* BingX and the network.  BingX sends every tick while the connection is
   up: the market stands still when MaxStream messages are under way. *)

MarketMoves ==
    /\ market < MaxTicks
    /\ market' = market + 1
    /\ \/ link = "up" /\ Len(stream) < MaxStream /\ stream' = Append(stream, market')
       \/ link # "up" /\ UNCHANGED stream
    /\ UNCHANGED <<connectedAt, link, ws, latestBook, bookCh, ctxDone>>

(* A ping, or a message that is no book ticker.                            *)
OtherMessage ==
    /\ link = "up"
    /\ Len(stream) < MaxStream
    /\ stream' = Append(stream, 0)
    /\ UNCHANGED <<market, connectedAt, link, ws, latestBook, bookCh, ctxDone>>

LinkFails ==
    /\ link = "up"
    /\ link' \in {"broken", "silent"}
    /\ stream' = <<>>
    /\ UNCHANGED <<market, connectedAt, ws, latestBook, bookCh, ctxDone>>

-----------------------------------------------------------------------------
(* Start and connectAndStream.                                             *)

Dial ==
    /\ ws = "dial"
    /\ \/ ctxDone /\ ws' = "stopped" /\ UNCHANGED <<link, connectedAt>>
       \/ ~ctxDone /\ ws' = "reading" /\ link' = "up" /\ connectedAt' = market
       \/ ws' = "pause" /\ UNCHANGED <<link, connectedAt>>
    /\ UNCHANGED <<market, stream, latestBook, bookCh, ctxDone>>

(* The context is looked at between two messages only; it ends the session,
   and the deferred Close the connection. *)
Disconnect == link' = "none" /\ stream' = <<>> /\ ws' = "pause"

StopReading ==
    /\ ws = "reading"
    /\ ctxDone \/ link = "broken"
    /\ Disconnect
    /\ UNCHANGED <<market, connectedAt, latestBook, bookCh, ctxDone>>

ReadOther ==
    /\ ws = "reading"
    /\ stream # <<>> /\ Head(stream) = 0
    /\ stream' = Tail(stream)
    /\ UNCHANGED <<market, connectedAt, link, ws, latestBook, bookCh, ctxDone>>

(* Mutant of ReadTick: a ping is taken for an empty book.                  *)
ReadAnything ==
    /\ ws = "reading"
    /\ stream # <<>>
    /\ latestBook' = Head(stream)
    /\ stream' = Tail(stream)
    /\ ws' = "publish"
    /\ UNCHANGED <<market, connectedAt, link, bookCh, ctxDone>>

(* Mutant of ReadTick: a tick that finds no room in bookCh is not stored.    *)
ReadTickWithRoom ==
    /\ ws = "reading"
    /\ stream # <<>> /\ Head(stream) # 0
    /\ stream' = Tail(stream)
    /\ IF Len(bookCh) < BookChCap
       THEN latestBook' = Head(stream) /\ ws' = "publish"
       ELSE UNCHANGED <<latestBook, ws>>
    /\ UNCHANGED <<market, connectedAt, link, bookCh, ctxDone>>

ReadTick ==
    /\ ws = "reading"
    /\ stream # <<>> /\ Head(stream) # 0
    /\ latestBook' = Head(stream)
    /\ stream' = Tail(stream)
    /\ ws' = "publish"
    /\ UNCHANGED <<market, connectedAt, link, bookCh, ctxDone>>

(* Mutant of Publish: the send waits for room.                             *)
PublishBlocking ==
    /\ ws = "publish"
    /\ Len(bookCh) < BookChCap
    /\ bookCh' = Append(bookCh, latestBook)
    /\ ws' = "reading"
    /\ UNCHANGED <<market, connectedAt, link, stream, latestBook, ctxDone>>

(* Mutant of Publish: a full channel drops the new tick.                   *)
PublishOrDrop ==
    /\ ws = "publish"
    /\ bookCh' = IF Len(bookCh) < BookChCap THEN Append(bookCh, latestBook) ELSE bookCh
    /\ ws' = "reading"
    /\ UNCHANGED <<market, connectedAt, link, stream, latestBook, ctxDone>>

(* Three selects with a default, between which the reader may take ticks.  *)
Publish ==
    /\ ws = "publish"
    /\ IF Len(bookCh) < BookChCap
       THEN bookCh' = Append(bookCh, latestBook) /\ ws' = "reading"
       ELSE ws' = "full" /\ UNCHANGED bookCh
    /\ UNCHANGED <<market, connectedAt, link, stream, latestBook, ctxDone>>

DropOldest ==
    /\ ws = "full"
    /\ bookCh' = IF bookCh = <<>> THEN <<>> ELSE Tail(bookCh)
    /\ ws' = "retry"
    /\ UNCHANGED <<market, connectedAt, link, stream, latestBook, ctxDone>>

PublishAgain ==
    /\ ws = "retry"
    /\ bookCh' = IF Len(bookCh) < BookChCap THEN Append(bookCh, latestBook) ELSE bookCh
    /\ ws' = "reading"
    /\ UNCHANGED <<market, connectedAt, link, stream, latestBook, ctxDone>>

PauseEnds ==
    /\ ws = "pause"
    /\ \/ ctxDone /\ ws' = "stopped"
       \/ ws' = "dial"
    /\ UNCHANGED <<market, connectedAt, link, stream, latestBook, bookCh, ctxDone>>

WsStep ==
    \/ Dial \/ StopReading \/ ReadOther \/ ReadTick
    \/ Publish \/ DropOldest \/ PublishAgain \/ PauseEnds

(* The reader of BookChan.                                                 *)
TakeBook ==
    /\ bookCh # <<>>
    /\ bookCh' = Tail(bookCh)
    /\ UNCHANGED <<market, connectedAt, link, stream, ws, latestBook, ctxDone>>
=============================================================================
