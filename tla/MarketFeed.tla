----------------------------- MODULE MarketFeed -----------------------------
(***************************************************************************)
(* From BingX to the MT5 terminals: the WebSocket client, the forwarder    *)
(* and the price feed server together.                                     *)
(***************************************************************************)
EXTENDS PriceFeed

vars == <<marketVars, feedVars>>

Init == MarketInit /\ FeedInit

(* main leaves its loop.                                                   *)
Cancel ==
    /\ ~ctxDone
    /\ ctxDone' = TRUE
    /\ UNCHANGED <<market, connectedAt, link, stream, ws, latestBook, bookCh, feedVars>>

BingXStep == (MarketMoves \/ OtherMessage \/ LinkFails) /\ UNCHANGED feedVars

StreamStep == WsStep /\ UNCHANGED feedVars

Next ==
    \/ BingXStep
    \/ StreamStep
    \/ FeedStep \/ ForwardStep
    \/ \E c \in Clients : PeerStep(c)
    \/ Cancel

Spec == Init /\ [][Next]_vars

(* The scheduler runs the goroutines; a dial has a timeout.  Nothing is
   assumed of BingX, of the network or of the terminals. *)
FairSpec ==
    Spec /\ WF_vars(StreamStep) /\ WF_vars(FeedStep) /\ WF_vars(ForwardStep)

-----------------------------------------------------------------------------
FeedTypeOK ==
    /\ market \in 0 .. MaxTicks /\ latestBook \in 0 .. market /\ connectedAt \in 0 .. market
    /\ link \in {"none", "up", "broken", "silent"}
    /\ stream \in Seq(0 .. market) /\ Len(stream) <= MaxStream
    /\ ws \in {"dial", "reading", "publish", "full", "retry", "pause", "stopped"}
    /\ bookCh \in Seq(1 .. market) /\ Len(bookCh) <= BookChCap
    /\ ctxDone \in BOOLEAN
    /\ peer \in [Clients -> {"none", "dialled", "reading", "stalled", "gone"}]
    /\ clients \subseteq Clients /\ todo \subseteq Clients
    /\ accepting \in Clients \cup {NoClient}
    /\ writing \in Clients \cup {NoClient}
    /\ tick \in 0 .. market
    /\ seen \in [Clients -> 0 .. market]

\* The newest tick is never the one that is dropped: between two messages the
\* last tick of bookCh, or the forwarder's when bookCh is empty, is the book
\* the strategy sees, though the reader may empty the channel between the
\* three selects of ws_realtime.go:196-208.
NewestIsForwarded ==
    ws \notin {"publish", "full", "retry"} =>
        latestBook = IF bookCh = <<>> THEN tick ELSE bookCh[Len(bookCh)]

\* What LatestBook's comment (ws_realtime.go:61-64) rests on: while the
\* connection is up, the market's last tick is the book, or it is under way, or
\* the market has not moved since the dial.  Only a connection that is down or
\* silent leaves a stale book, which LatestBook stamps with the current time.
BookIsCurrent ==
    link = "up" =>
        \/ market \in {latestBook, connectedAt}
        \/ \E i \in DOMAIN stream : stream[i] = market

\* No terminal and no book ever goes back to an older tick, over dropped
\* ticks, reconnections and broadcasts alike.
NeverBackwards ==
    [][latestBook' >= latestBook /\ \A c \in Clients : seen'[c] >= seen[c]]_vars

\* A broadcast under way ends in nothing but the write to one terminal.
HeldUp == writing # NoClient /\ peer[writing] = "stalled"

\* The book the strategy sees follows the stream whatever the terminals do: a
\* terminal that does not read holds the feed's lock and the forwarder, never
\* the goroutine that reads BingX.
BookFollowsStream ==
    \A t \in 1 .. MaxTicks :
        (stream # <<>> /\ stream[Len(stream)] = t) ~> (latestBook >= t \/ link # "up" \/ ctxDone)

\* Every book reaches the forwarder, or a newer one does, unless a terminal
\* holds it up.
BookIsForwarded ==
    \A t \in 1 .. MaxTicks : latestBook = t ~> tick >= t \/ HeldUp \/ ctxDone
=============================================================================
