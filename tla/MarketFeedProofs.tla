--------------------------- MODULE MarketFeedProofs ---------------------------
(***************************************************************************)
(* From BingX to the terminals, for any channel, any number of terminals   *)
(* and any stream: ticks keep their order, and the newest is never dropped.*)
(***************************************************************************)
EXTENDS MarketFeed, TLAPS

(* Ticks under way are no older than the book; other messages are zeros.   *)
StreamOK ==
    /\ latestBook <= market
    /\ \A i \in DOMAIN stream : stream[i] # 0 => latestBook <= stream[i]
    /\ \A i, j \in DOMAIN stream :
          i < j /\ stream[i] # 0 /\ stream[j] # 0 => stream[i] <= stream[j]

(* The channel holds ticks between the forwarder's and the book, in order. *)
BooksOK ==
    /\ tick <= latestBook
    /\ \A i \in DOMAIN bookCh : tick <= bookCh[i] /\ bookCh[i] <= latestBook
    /\ \A i, j \in DOMAIN bookCh : i < j => bookCh[i] <= bookCh[j]

SeenOK == \A c \in Clients : seen[c] <= tick

(* There is a tick to publish, and the third select finds room for it.     *)
PublishOK ==
    /\ ws \in {"publish", "full", "retry"} => latestBook >= 1
    /\ ws = "retry" => Len(bookCh) < BookChCap

FeedInv == FeedTypeOK /\ StreamOK /\ BooksOK /\ SeenOK /\ PublishOK /\ NewestIsForwarded

-----------------------------------------------------------------------------
\* What the prover needs to know of a sequence one longer.
LEMMA AppendFacts ==
    ASSUME NEW S, NEW q \in Seq(S), NEW x \in S
    PROVE  /\ Append(q, x) \in Seq(S) /\ Len(Append(q, x)) = Len(q) + 1 /\ Len(q) \in Nat
           /\ DOMAIN q = 1 .. Len(q) /\ DOMAIN Append(q, x) = 1 .. Len(q) + 1
           /\ Append(q, x)[Len(q) + 1] = x
           /\ \A i \in 1 .. Len(q) : Append(q, x)[i] = q[i]
OBVIOUS

\* And of one without its head.
LEMMA TailFacts ==
    ASSUME NEW S, NEW q \in Seq(S), q # <<>>
    PROVE  /\ Len(q) \in Nat \ {0} /\ DOMAIN q = 1 .. Len(q)
           /\ Head(q) = q[1] /\ Head(q) \in S
           /\ Tail(q) \in Seq(S) /\ Len(Tail(q)) = Len(q) - 1
           /\ DOMAIN Tail(q) = 1 .. Len(q) - 1
           /\ \A i \in 1 .. Len(q) - 1 : Tail(q)[i] = q[i + 1]
OBVIOUS

\* A sequence over a set is one over every larger set.
LEMMA SeqGrows ==
    ASSUME NEW S, NEW T, S \subseteq T, NEW q \in Seq(S)
    PROVE  q \in Seq(T)
OBVIOUS

\* Its elements are members of that set.
LEMMA SeqElements ==
    ASSUME NEW S, NEW q \in Seq(S)
    PROVE  \A i \in DOMAIN q : q[i] \in S
OBVIOUS

\* A tick that is not older than the last may follow.
LEMMA PushBook ==
    ASSUME FeedTypeOK, BooksOK, bookCh' = Append(bookCh, latestBook), latestBook >= 1,
           UNCHANGED <<latestBook, tick, market>>
    PROVE  /\ BooksOK' /\ bookCh' \in Seq(1 .. market') /\ Len(bookCh') = Len(bookCh) + 1
           /\ bookCh' # <<>> /\ bookCh'[Len(bookCh')] = latestBook'
<1>0. market \in Nat /\ latestBook \in 1 .. market /\ bookCh \in Seq(1 .. market) /\ tick \in Nat
  BY MarketAssumption DEF FeedTypeOK, MarketAssumption
<1>1. /\ Append(bookCh, latestBook) \in Seq(1 .. market)
      /\ Len(Append(bookCh, latestBook)) = Len(bookCh) + 1 /\ Len(bookCh) \in Nat
      /\ DOMAIN bookCh = 1 .. Len(bookCh)
      /\ DOMAIN Append(bookCh, latestBook) = 1 .. Len(bookCh) + 1
      /\ Append(bookCh, latestBook)[Len(bookCh) + 1] = latestBook
      /\ \A i \in 1 .. Len(bookCh) : Append(bookCh, latestBook)[i] = bookCh[i]
  BY <1>0, AppendFacts
<1>2. BooksOK'
  <2> DEFINE q == Append(bookCh, latestBook)
  <2>1. \A i \in 1 .. Len(bookCh) + 1 : tick <= q[i] /\ q[i] <= latestBook
    BY <1>0, <1>1 DEF BooksOK
  <2>2. \A i, j \in 1 .. Len(bookCh) + 1 : i < j => q[i] <= q[j]
    <3> SUFFICES ASSUME NEW i \in 1 .. Len(bookCh) + 1, NEW j \in 1 .. Len(bookCh) + 1, i < j
                 PROVE  q[i] <= q[j]
      OBVIOUS
    <3>1. CASE j = Len(bookCh) + 1
      BY <1>1, <2>1, <3>1
    <3>2. CASE j # Len(bookCh) + 1
      BY <1>1, <3>2 DEF BooksOK
    <3> QED  BY <3>1, <3>2
  <2>3. bookCh' = q /\ DOMAIN q = 1 .. Len(bookCh) + 1
    BY <1>1
  <2> HIDE DEF q
  <2> QED  BY <2>1, <2>2, <2>3 DEF BooksOK
<1>3. bookCh' # <<>>
  BY <1>1
<1> QED  BY <1>0, <1>1, <1>2, <1>3

\* Dropping or taking the oldest tick keeps the order, and the last tick stays
\* the last.
LEMMA PopBook ==
    ASSUME FeedTypeOK, BooksOK, bookCh # <<>>, bookCh' = Tail(bookCh),
           tick' \in {tick, Head(bookCh)}, UNCHANGED <<latestBook, market>>
    PROVE  /\ BooksOK' /\ bookCh' \in Seq(1 .. market') /\ Len(bookCh') = Len(bookCh) - 1
           /\ Len(bookCh) \in Nat
           /\ tick <= tick' /\ tick' \in 0 .. market'
           /\ IF bookCh' = <<>> THEN Head(bookCh) = bookCh[Len(bookCh)]
              ELSE bookCh'[Len(bookCh')] = bookCh[Len(bookCh)]
<1>0. /\ market \in Nat /\ latestBook \in 0 .. market /\ bookCh \in Seq(1 .. market)
      /\ tick \in 0 .. market
  BY MarketAssumption DEF FeedTypeOK, MarketAssumption
<1>1. /\ Len(bookCh) \in Nat \ {0} /\ DOMAIN bookCh = 1 .. Len(bookCh)
      /\ Head(bookCh) = bookCh[1] /\ Head(bookCh) \in 1 .. market
      /\ Tail(bookCh) \in Seq(1 .. market) /\ Len(Tail(bookCh)) = Len(bookCh) - 1
      /\ DOMAIN Tail(bookCh) = 1 .. Len(bookCh) - 1
      /\ \A i \in 1 .. Len(bookCh) - 1 : Tail(bookCh)[i] = bookCh[i + 1]
  BY <1>0, TailFacts
<1>2. /\ tick' \in 0 .. market /\ tick <= tick' /\ tick' <= latestBook
      /\ \A i \in 2 .. Len(bookCh) : tick' <= bookCh[i]
  BY <1>0, <1>1 DEF BooksOK
<1>3. BooksOK'
  <2>1. \A i \in 1 .. Len(bookCh) - 1 : i + 1 \in 2 .. Len(bookCh) /\ i + 1 \in DOMAIN bookCh
    BY <1>1
  <2>2. \A i \in DOMAIN bookCh' : tick' <= bookCh'[i] /\ bookCh'[i] <= latestBook
    BY <1>1, <1>2, <2>1 DEF BooksOK
  <2>3. \A i, j \in DOMAIN bookCh' : i < j => bookCh'[i] <= bookCh'[j]
    <3> SUFFICES ASSUME NEW i \in 1 .. Len(bookCh) - 1, NEW j \in 1 .. Len(bookCh) - 1, i < j
                 PROVE  Tail(bookCh)[i] <= Tail(bookCh)[j]
      BY <1>1
    <3>1. i + 1 < j + 1 /\ i + 1 \in DOMAIN bookCh /\ j + 1 \in DOMAIN bookCh
      BY <2>1
    <3>2. bookCh[i + 1] <= bookCh[j + 1]
      BY <3>1 DEF BooksOK
    <3> QED  BY <1>1, <3>2
  <2> QED  BY <1>2, <2>2, <2>3 DEF BooksOK
<1>4. CASE Len(bookCh) = 1
  BY <1>1, <1>2, <1>3, <1>4
<1>5. CASE Len(bookCh) # 1
  <2>1. Len(bookCh) - 1 \in 1 .. Len(bookCh) - 1
    BY <1>1, <1>5
  <2>2. Tail(bookCh) # <<>>
    <3>1. Len(Tail(bookCh)) # 0
      BY <1>1, <1>5
    <3>2. Len(<<>>) = 0
      OBVIOUS
    <3> QED  BY <3>1, <3>2
  <2>3. Tail(bookCh)[Len(bookCh) - 1] = bookCh[Len(bookCh)]
    BY <1>1, <2>1
  <2> QED  BY <1>1, <1>2, <1>3, <2>2, <2>3
<1> QED  BY <1>4, <1>5

-----------------------------------------------------------------------------
(* The stream.                                                             *)

\* A message that is not older than the last may follow.
LEMMA PushStream ==
    ASSUME FeedTypeOK, StreamOK, NEW m, m = 0 \/ m = market',
           market' \in Nat, market <= market',
           stream' = Append(stream, m), latestBook' = latestBook
    PROVE  StreamOK' /\ stream' \in Seq(0 .. market') /\ Len(stream') = Len(stream) + 1
<1>0. market \in Nat /\ latestBook \in 0 .. market /\ stream \in Seq(0 .. market)
  BY MarketAssumption DEF FeedTypeOK, MarketAssumption
<1>1. m \in 0 .. market' /\ (m # 0 => \A x \in 0 .. market : x <= m)
  BY <1>0
<1>2. 0 .. market \subseteq 0 .. market'
  BY <1>0
<1>3. stream \in Seq(0 .. market')
  BY <1>0, <1>2, SeqGrows
<1>4. /\ Append(stream, m) \in Seq(0 .. market')
      /\ Len(Append(stream, m)) = Len(stream) + 1 /\ Len(stream) \in Nat
      /\ DOMAIN stream = 1 .. Len(stream)
      /\ DOMAIN Append(stream, m) = 1 .. Len(stream) + 1
      /\ Append(stream, m)[Len(stream) + 1] = m
      /\ \A i \in 1 .. Len(stream) : Append(stream, m)[i] = stream[i]
  BY <1>1, <1>3, AppendFacts
<1>5. \A i \in 1 .. Len(stream) : stream[i] \in 0 .. market
  BY <1>0
<1>6. \A i \in 1 .. Len(stream) + 1 :
         Append(stream, m)[i] # 0 => latestBook <= Append(stream, m)[i]
  BY <1>0, <1>1, <1>4 DEF StreamOK
<1>7. ASSUME NEW i \in 1 .. Len(stream) + 1, NEW j \in 1 .. Len(stream) + 1, i < j,
             Append(stream, m)[i] # 0, Append(stream, m)[j] # 0
      PROVE  Append(stream, m)[i] <= Append(stream, m)[j]
  <2>1. CASE j = Len(stream) + 1
    <3>1. i \in 1 .. Len(stream)
      BY <1>4, <1>7, <2>1
    <3>2. Append(stream, m)[i] = stream[i] /\ Append(stream, m)[j] = m
      BY <1>4, <2>1, <3>1
    <3> QED  BY <1>1, <1>5, <1>7, <3>1, <3>2
  <2>2. CASE j # Len(stream) + 1
    <3>1. i \in 1 .. Len(stream) /\ j \in 1 .. Len(stream)
      <4>1. i < j /\ Len(stream) \in Nat
        BY <1>4, <1>7
      <4> QED  BY <2>2, <4>1
    <3>2. stream[i] = Append(stream, m)[i] /\ stream[j] = Append(stream, m)[j]
      BY <1>4, <3>1
    <3>3. stream[i] <= stream[j]
      BY <1>4, <1>7, <3>1, <3>2 DEF StreamOK
    <3> QED  BY <3>2, <3>3
  <2> QED  BY <2>1, <2>2
<1>8. latestBook' <= market'
  BY <1>0
<1> QED  BY <1>4, <1>6, <1>7, <1>8 DEF StreamOK

\* A message read: a tick that is the new book is not younger than the rest.
LEMMA PopStream ==
    ASSUME FeedTypeOK, StreamOK, stream # <<>>, stream' = Tail(stream), market' = market,
           \/ latestBook' = latestBook
           \/ latestBook' = Head(stream) /\ Head(stream) # 0
    PROVE  /\ StreamOK' /\ stream' \in Seq(0 .. market') /\ Len(stream') = Len(stream) - 1
           /\ Len(stream) \in Nat
           /\ latestBook <= latestBook' /\ latestBook' \in 0 .. market'
<1>0. market \in Nat /\ latestBook \in 0 .. market /\ stream \in Seq(0 .. market)
  BY MarketAssumption DEF FeedTypeOK, MarketAssumption
<1>1. /\ Len(stream) \in Nat \ {0} /\ DOMAIN stream = 1 .. Len(stream)
      /\ Head(stream) = stream[1] /\ Head(stream) \in 0 .. market
      /\ Tail(stream) \in Seq(0 .. market) /\ Len(Tail(stream)) = Len(stream) - 1
      /\ DOMAIN Tail(stream) = 1 .. Len(stream) - 1
      /\ \A i \in 1 .. Len(stream) - 1 : Tail(stream)[i] = stream[i + 1]
  BY <1>0, TailFacts
<1>2. \A i \in 1 .. Len(stream) - 1 : i + 1 \in DOMAIN stream /\ 1 < i + 1
  BY <1>1
<1>3. 1 \in DOMAIN stream
  BY <1>1
<1>4. latestBook <= latestBook' /\ latestBook' \in 0 .. market
  BY <1>0, <1>1, <1>3 DEF StreamOK
<1>5. \A i \in 1 .. Len(stream) - 1 : Tail(stream)[i] # 0 => latestBook' <= Tail(stream)[i]
  BY <1>1, <1>2, <1>3 DEF StreamOK
<1>6. ASSUME NEW i \in 1 .. Len(stream) - 1, NEW j \in 1 .. Len(stream) - 1, i < j,
             Tail(stream)[i] # 0, Tail(stream)[j] # 0
      PROVE  Tail(stream)[i] <= Tail(stream)[j]
  <2>1. i + 1 \in DOMAIN stream /\ j + 1 \in DOMAIN stream /\ i + 1 < j + 1
    BY <1>2, <1>6
  <2> QED  BY <1>1, <1>6, <2>1 DEF StreamOK
<1>7. latestBook' <= market'
  BY <1>0, <1>4
<1> QED  BY <1>1, <1>4, <1>5, <1>6, <1>7 DEF StreamOK

\* A connection that ends takes what is under way with it.
LEMMA ClearStream ==
    ASSUME FeedTypeOK, StreamOK, stream' = <<>>, UNCHANGED <<market, latestBook>>
    PROVE  StreamOK' /\ stream' \in Seq(0 .. market') /\ Len(stream') = 0
BY DEF StreamOK

-----------------------------------------------------------------------------
(* The steps.                                                              *)

\* What the WebSocket client and BingX leave alone.
FeedSame == UNCHANGED <<peer, clients, accepting, tick, todo, writing, seen>>

\* The terminals' side keeps its types while the market moves on.
LEMMA FeedFrame ==
    ASSUME FeedTypeOK, SeenOK, FeedSame, market' \in Nat, market <= market'
    PROVE  /\ SeenOK'
           /\ peer' \in [Clients -> {"none", "dialled", "reading", "stalled", "gone"}]
           /\ clients' \subseteq Clients /\ todo' \subseteq Clients
           /\ accepting' \in Clients \cup {NoClient} /\ writing' \in Clients \cup {NoClient}
           /\ tick' \in 0 .. market' /\ seen' \in [Clients -> 0 .. market']
<1>1. market \in Nat
  BY MarketAssumption DEF FeedTypeOK, MarketAssumption
<1>2. 0 .. market \subseteq 0 .. market'
  BY <1>1
<1> QED  BY <1>2 DEF FeedTypeOK, FeedSame, SeenOK

\* The stream and the connection (ws_realtime.go:78-190).
LEMMA StreamSide ==
    ASSUME FeedInv,
           \/ BingXStep
           \/ (Dial \/ StopReading \/ ReadOther \/ ReadTick \/ PauseEnds) /\ FeedSame
    PROVE  FeedInv' /\ latestBook <= latestBook'
<1>0. /\ FeedTypeOK /\ StreamOK /\ BooksOK /\ SeenOK /\ PublishOK /\ NewestIsForwarded
      /\ market \in Nat /\ MaxTicks \in Nat /\ MaxStream \in Nat /\ market <= MaxTicks
      /\ latestBook \in Nat /\ Len(stream) \in Nat /\ Len(stream) <= MaxStream
  BY MarketAssumption DEF FeedInv, FeedTypeOK, MarketAssumption
<1>1. FeedSame /\ bookCh' = bookCh
  BY DEF BingXStep, MarketMoves, OtherMessage, LinkFails, feedVars, FeedSame,
         Dial, StopReading, ReadOther, ReadTick, PauseEnds
<1>2. /\ StreamOK' /\ stream' \in Seq(0 .. market') /\ Len(stream') <= MaxStream
      /\ market' \in 0 .. MaxTicks /\ market <= market'
      /\ latestBook <= latestBook' /\ latestBook' \in 0 .. market'
  <2>1. CASE MarketMoves
    <3>1. /\ market' = market + 1 /\ market' \in 0 .. MaxTicks /\ latestBook' = latestBook
          /\ \/ stream' = stream
             \/ Len(stream) < MaxStream /\ stream' = Append(stream, market')
      BY <1>0, <2>1 DEF MarketMoves
    <3>2. CASE stream' = stream
      <4>1. 0 .. market \subseteq 0 .. market' /\ stream \in Seq(0 .. market)
        BY <1>0, <3>1 DEF FeedTypeOK
      <4>2. stream \in Seq(0 .. market')
        BY <4>1, SeqGrows
      <4>3. StreamOK'
        BY <1>0, <3>1, <3>2 DEF StreamOK
      <4>4. latestBook \in 0 .. market'
        BY <1>0, <3>1 DEF StreamOK
      <4> QED  BY <1>0, <3>1, <3>2, <4>2, <4>3, <4>4
    <3>3. CASE Len(stream) < MaxStream /\ stream' = Append(stream, market')
      <4>1. StreamOK' /\ stream' \in Seq(0 .. market') /\ Len(stream') = Len(stream) + 1
        BY <1>0, <3>1, <3>3, PushStream
      <4>2. latestBook \in 0 .. market'
        BY <1>0, <3>1 DEF StreamOK
      <4> QED  BY <1>0, <3>1, <3>3, <4>1, <4>2
    <3> QED  BY <3>1, <3>2, <3>3
  <2>2. CASE OtherMessage
    <3>1. /\ UNCHANGED <<market, latestBook>> /\ Len(stream) < MaxStream
          /\ stream' = Append(stream, 0)
      BY <2>2 DEF OtherMessage
    <3>2. StreamOK' /\ stream' \in Seq(0 .. market') /\ Len(stream') = Len(stream) + 1
      BY <1>0, <3>1, PushStream
    <3> QED  BY <1>0, <3>1, <3>2 DEF StreamOK
  <2>3. CASE LinkFails \/ StopReading
    <3>1. UNCHANGED <<market, latestBook>> /\ stream' = <<>>
      BY <2>3 DEF LinkFails, StopReading, Disconnect
    <3>2. StreamOK' /\ stream' \in Seq(0 .. market') /\ Len(stream') = 0
      BY <1>0, <3>1, ClearStream
    <3> QED  BY <1>0, <3>1, <3>2 DEF StreamOK
  <2>4. CASE ReadOther \/ ReadTick
    <3>1. /\ stream # <<>> /\ stream' = Tail(stream) /\ market' = market
          /\ \/ latestBook' = latestBook
             \/ latestBook' = Head(stream) /\ Head(stream) # 0
      BY <2>4 DEF ReadOther, ReadTick
    <3>2. /\ StreamOK' /\ stream' \in Seq(0 .. market') /\ Len(stream') = Len(stream) - 1
          /\ latestBook <= latestBook' /\ latestBook' \in 0 .. market'
      BY <1>0, <3>1, PopStream
    <3> QED  BY <1>0, <3>1, <3>2
  <2>5. CASE Dial \/ PauseEnds
    <3>1. UNCHANGED <<market, latestBook, stream>>
      BY <2>5 DEF Dial, PauseEnds
    <3> QED  BY <1>0, <3>1 DEF StreamOK, FeedTypeOK
  <2> QED  BY <2>1, <2>2, <2>3, <2>4, <2>5 DEF BingXStep
<1>3. SeenOK' /\ BooksOK'
  <2>1. SeenOK'
    BY <1>0, <1>2, <1>1, FeedFrame
  <2>2. tick' = tick
    BY <1>1 DEF FeedSame
  <2>3. tick \in Nat /\ bookCh \in Seq(1 .. market)
    BY <1>0 DEF FeedTypeOK
  <2>4. \A i \in DOMAIN bookCh : bookCh[i] \in Int
    <3>1. \A i \in DOMAIN bookCh : bookCh[i] \in 1 .. market
      BY <2>3, SeqElements
    <3> QED  BY <3>1
  <2>5. latestBook' \in Int
    BY <1>0, <1>2
  <2> QED  BY <1>0, <1>1, <1>2, <2>1, <2>2, <2>3, <2>4, <2>5 DEF BooksOK
<1>4. /\ link' \in {"none", "up", "broken", "silent"}
      /\ ws' \in {"dial", "reading", "publish", "full", "retry", "pause", "stopped"}
      /\ ctxDone' \in BOOLEAN
  BY <1>0 DEF BingXStep, MarketMoves, OtherMessage, LinkFails, Dial, StopReading, ReadOther,
              ReadTick, PauseEnds, Disconnect, FeedTypeOK
<1>5. bookCh' \in Seq(1 .. market') /\ Len(bookCh') <= BookChCap
  <2>1. 1 .. market \subseteq 1 .. market' /\ bookCh \in Seq(1 .. market) /\ Len(bookCh) <= BookChCap
    BY <1>0, <1>2 DEF FeedTypeOK
  <2>2. bookCh \in Seq(1 .. market')
    BY <2>1, SeqGrows
  <2> QED  BY <1>1, <2>1, <2>2
<1>6. FeedTypeOK'
  <2>1. /\ peer' \in [Clients -> {"none", "dialled", "reading", "stalled", "gone"}]
        /\ clients' \subseteq Clients /\ todo' \subseteq Clients
        /\ accepting' \in Clients \cup {NoClient} /\ writing' \in Clients \cup {NoClient}
        /\ tick' \in 0 .. market' /\ seen' \in [Clients -> 0 .. market']
    BY <1>0, <1>1, <1>2, FeedFrame
  <2>2. connectedAt' \in 0 .. market'
    <3>1. connectedAt' \in {connectedAt, market} /\ connectedAt \in 0 .. market
      BY <1>0 DEF BingXStep, MarketMoves, OtherMessage, LinkFails, Dial, StopReading,
                  ReadOther, ReadTick, PauseEnds, FeedTypeOK
    <3> QED  BY <1>0, <1>2, <3>1
  <2> QED  BY <1>2, <1>4, <1>5, <2>1, <2>2 DEF FeedTypeOK
<1>7. PublishOK' /\ NewestIsForwarded'
  <2>1. CASE ReadTick
    <3>1. ws' = "publish" /\ latestBook' = Head(stream) /\ Head(stream) # 0
      BY <2>1 DEF ReadTick
    <3>2. latestBook' >= 1
      <4>1. latestBook' # 0
        BY <3>1
      <4> QED  BY <1>2, <4>1
    <3> QED  BY <3>1, <3>2 DEF PublishOK, NewestIsForwarded
  <2>2. CASE ~ReadTick
    <3>1. /\ UNCHANGED <<latestBook, bookCh, tick>>
          /\ \/ ws' = ws
             \/ /\ ws \notin {"publish", "full", "retry"}
                /\ ws' \notin {"publish", "full", "retry"}
      BY <1>1, <2>2 DEF FeedSame, BingXStep, MarketMoves, OtherMessage, LinkFails, Dial,
                        StopReading, ReadOther, PauseEnds, Disconnect
    <3> QED  BY <1>0, <3>1 DEF PublishOK, NewestIsForwarded
  <2> QED  BY <2>1, <2>2
<1> QED  BY <1>2, <1>3, <1>6, <1>7 DEF FeedInv

\* The three selects that publish a tick (ws_realtime.go:196-208): between them
\* the forwarder may take ticks, so the third one always finds room.
LEMMA PublishSide ==
    ASSUME FeedInv, (Publish \/ DropOldest \/ PublishAgain) /\ FeedSame
    PROVE  FeedInv' /\ latestBook' = latestBook
<1>0. /\ FeedTypeOK /\ StreamOK /\ BooksOK /\ SeenOK /\ PublishOK
      /\ market \in Nat /\ BookChCap \in Nat \ {0} /\ Len(bookCh) \in Nat
      /\ Len(bookCh) <= BookChCap
  BY MarketAssumption DEF FeedInv, FeedTypeOK, MarketAssumption
<1>1. /\ UNCHANGED <<market, connectedAt, link, stream, latestBook, ctxDone>>
      /\ tick' = tick /\ FeedSame
  BY DEF Publish, DropOldest, PublishAgain, FeedSame
<1>2. StreamOK' /\ SeenOK'
  BY <1>0, <1>1 DEF StreamOK, SeenOK, FeedSame
<1>3. /\ BooksOK' /\ bookCh' \in Seq(1 .. market') /\ Len(bookCh') <= BookChCap
      /\ PublishOK' /\ NewestIsForwarded'
      /\ ws' \in {"reading", "full", "retry"}
  <2>1. CASE (Publish \/ PublishAgain) /\ Len(bookCh) < BookChCap
    <3>1. /\ bookCh' = Append(bookCh, latestBook) /\ ws' = "reading" /\ latestBook >= 1
      BY <1>0, <2>1 DEF Publish, PublishAgain, PublishOK
    <3>2. /\ BooksOK' /\ bookCh' \in Seq(1 .. market') /\ Len(bookCh') = Len(bookCh) + 1
          /\ bookCh' # <<>> /\ bookCh'[Len(bookCh')] = latestBook'
      BY <1>0, <1>1, <3>1, PushBook
    <3>3. Len(bookCh') <= BookChCap
      BY <1>0, <2>1, <3>2
    <3>4. PublishOK' /\ NewestIsForwarded'
      BY <3>1, <3>2 DEF PublishOK, NewestIsForwarded
    <3> QED  BY <3>1, <3>2, <3>3, <3>4
  <2>2. CASE Publish /\ ~(Len(bookCh) < BookChCap)
    <3>1. ws' = "full" /\ bookCh' = bookCh /\ ws = "publish"
      BY <2>2 DEF Publish
    <3> QED  BY <1>0, <1>1, <3>1 DEF BooksOK, PublishOK, NewestIsForwarded, FeedTypeOK
  <2>3. CASE DropOldest /\ bookCh # <<>>
    <3>1. ws' = "retry" /\ bookCh' = Tail(bookCh) /\ ws = "full"
      BY <2>3 DEF DropOldest
    <3>2. BooksOK' /\ bookCh' \in Seq(1 .. market') /\ Len(bookCh') = Len(bookCh) - 1
      BY <1>0, <1>1, <2>3, <3>1, PopBook
    <3>3. Len(bookCh') < BookChCap
      BY <1>0, <3>2
    <3>4. PublishOK' /\ NewestIsForwarded'
      BY <1>0, <1>1, <3>1, <3>3 DEF PublishOK, NewestIsForwarded
    <3> QED  BY <1>0, <3>1, <3>2, <3>3, <3>4
  <2>4. CASE DropOldest /\ bookCh = <<>>
    <3>1. ws' = "retry" /\ bookCh' = bookCh /\ ws = "full" /\ Len(bookCh) = 0
      BY <2>4 DEF DropOldest
    <3>2. Len(bookCh') < BookChCap
      BY <1>0, <3>1
    <3> QED  BY <1>0, <1>1, <3>1, <3>2 DEF BooksOK, PublishOK, NewestIsForwarded, FeedTypeOK
  <2>5. CASE PublishAgain /\ ~(Len(bookCh) < BookChCap)
    BY <1>0, <2>5 DEF PublishAgain, PublishOK
  <2> QED  BY <2>1, <2>2, <2>3, <2>4, <2>5
<1>4. FeedTypeOK'
  <2>1. market' \in Nat /\ market <= market'
    BY <1>0, <1>1
  <2>2. /\ peer' \in [Clients -> {"none", "dialled", "reading", "stalled", "gone"}]
        /\ clients' \subseteq Clients /\ todo' \subseteq Clients
        /\ accepting' \in Clients \cup {NoClient} /\ writing' \in Clients \cup {NoClient}
        /\ tick' \in 0 .. market' /\ seen' \in [Clients -> 0 .. market']
    BY <1>0, <1>1, <2>1, FeedFrame
  <2> QED  BY <1>0, <1>1, <1>3, <2>2 DEF FeedTypeOK
<1> QED  BY <1>1, <1>2, <1>3, <1>4 DEF FeedInv

\* The forwarder takes the oldest tick, which is the newest if it is the last.
LEMMA TakeSide ==
    ASSUME FeedInv, TakeTick
    PROVE  FeedInv' /\ latestBook' = latestBook /\ seen' = seen
<1>0. /\ FeedTypeOK /\ StreamOK /\ BooksOK /\ SeenOK /\ PublishOK /\ NewestIsForwarded
      /\ market \in Nat /\ BookChCap \in Nat \ {0} /\ tick \in Nat
      /\ Len(bookCh) <= BookChCap
  BY MarketAssumption DEF FeedInv, FeedTypeOK, MarketAssumption
<1>1. /\ UNCHANGED <<market, connectedAt, link, stream, ws, latestBook, ctxDone>>
      /\ UNCHANGED <<peer, clients, accepting, writing, seen>>
      /\ bookCh # <<>> /\ bookCh' = Tail(bookCh) /\ tick' = Head(bookCh) /\ todo' = clients
  BY DEF TakeTick, TakeBook
<1>2. /\ BooksOK' /\ bookCh' \in Seq(1 .. market') /\ Len(bookCh') = Len(bookCh) - 1
      /\ Len(bookCh) \in Nat
      /\ tick <= tick' /\ tick' \in 0 .. market'
      /\ IF bookCh' = <<>> THEN Head(bookCh) = bookCh[Len(bookCh)]
         ELSE bookCh'[Len(bookCh')] = bookCh[Len(bookCh)]
  BY <1>0, <1>1, PopBook
<1>3. Len(bookCh') <= BookChCap /\ (ws = "retry" => Len(bookCh') < BookChCap)
  BY <1>0, <1>2 DEF PublishOK
<1>4. PublishOK' /\ NewestIsForwarded'
  BY <1>0, <1>1, <1>2, <1>3 DEF PublishOK, NewestIsForwarded
<1>5. StreamOK'
  BY <1>0, <1>1 DEF StreamOK
<1>6. SeenOK'
  <2> SUFFICES ASSUME NEW c \in Clients PROVE seen[c] <= tick'
    BY <1>1 DEF SeenOK
  <2>1. seen[c] \in Nat /\ seen[c] <= tick
    BY <1>0 DEF FeedTypeOK, SeenOK
  <2> QED  BY <1>0, <1>2, <2>1
<1>7. FeedTypeOK'
  BY <1>0, <1>1, <1>2, <1>3 DEF FeedTypeOK
<1> QED  BY <1>1, <1>2, <1>4, <1>5, <1>6, <1>7 DEF FeedInv

\* Everything else touches the terminals and what they saw: a write hands a
\* terminal the tick under way, which is the newest it can have seen.
LEMMA TerminalSide ==
    ASSUME FeedInv,
           \/ FeedStep \/ PickClient \/ WriteTick \/ WriteFails \/ Cancel
           \/ \E c \in Clients : PeerStep(c)
           \/ UNCHANGED vars
    PROVE  FeedInv' /\ latestBook' = latestBook /\ \A c \in Clients : seen[c] <= seen'[c]
<1>0. /\ FeedTypeOK /\ StreamOK /\ BooksOK /\ SeenOK /\ PublishOK /\ NewestIsForwarded
      /\ market \in Nat /\ tick \in 0 .. market
      /\ \A c \in Clients : seen[c] \in Nat
  BY MarketAssumption DEF FeedInv, FeedTypeOK, MarketAssumption
<1>1. UNCHANGED <<market, connectedAt, link, stream, ws, latestBook, bookCh, tick>>
  BY DEF FeedStep, AcceptClient, AddClient, PickClient, WriteTick, WriteFails, Cancel,
         PeerStep, PeerBecomes, marketVars, feedVars, vars
<1>2. /\ ctxDone' \in BOOLEAN
      /\ peer' \in [Clients -> {"none", "dialled", "reading", "stalled", "gone"}]
      /\ clients' \subseteq Clients /\ todo' \subseteq Clients
      /\ accepting' \in Clients \cup {NoClient} /\ writing' \in Clients \cup {NoClient}
  BY <1>0 DEF FeedStep, AcceptClient, AddClient, PickClient, WriteTick, WriteFails, Cancel,
         PeerStep, PeerBecomes, marketVars, feedVars, vars, FeedTypeOK
<1>3. seen' = seen \/ \E c \in Clients : seen' = [seen EXCEPT ![c] = tick]
  BY <1>0 DEF FeedStep, AcceptClient, AddClient, PickClient, WriteTick, WriteFails, Cancel,
         PeerStep, PeerBecomes, marketVars, feedVars, vars, FeedTypeOK
<1>4. /\ seen' \in [Clients -> 0 .. market] /\ SeenOK'
      /\ \A c \in Clients : seen[c] <= seen'[c]
  <2>1. CASE seen' = seen
    BY <1>0, <1>1, <2>1 DEF FeedTypeOK, SeenOK
  <2>2. ASSUME NEW d \in Clients, seen' = [seen EXCEPT ![d] = tick]
        PROVE  /\ seen' \in [Clients -> 0 .. market]
               /\ \A c \in Clients : seen'[c] <= tick /\ seen[c] <= seen'[c]
    <3>1. seen' \in [Clients -> 0 .. market]
      BY <1>0, <2>2 DEF FeedTypeOK
    <3>2. \A c \in Clients : seen'[c] = IF c = d THEN tick ELSE seen[c]
      BY <1>0, <2>2 DEF FeedTypeOK
    <3>3. \A c \in Clients : seen[c] <= tick
      BY <1>0 DEF SeenOK
    <3> HIDE <2>2
    <3> QED  BY <1>0, <3>1, <3>2, <3>3
  <2> QED  BY <1>1, <1>3, <2>1, <2>2 DEF SeenOK
<1>5. FeedTypeOK'
  BY <1>0, <1>1, <1>2, <1>4 DEF FeedTypeOK
<1>6. StreamOK' /\ BooksOK' /\ PublishOK' /\ NewestIsForwarded'
  BY <1>0, <1>1 DEF StreamOK, BooksOK, PublishOK, NewestIsForwarded
<1> QED  BY <1>1, <1>4, <1>5, <1>6 DEF FeedInv

-----------------------------------------------------------------------------
\* Every step keeps the invariant and moves nothing back.
LEMMA FeedStepKeeps ==
    ASSUME FeedInv, [Next]_vars
    PROVE  FeedInv' /\ latestBook <= latestBook' /\ \A c \in Clients : seen[c] <= seen'[c]
<1>0. latestBook \in Int /\ \A c \in Clients : seen[c] \in Int
  BY DEF FeedInv, FeedTypeOK
<1>1. CASE BingXStep \/ (StreamStep /\ ~(Publish \/ DropOldest \/ PublishAgain))
  <2>1. FeedSame
    BY <1>1 DEF BingXStep, StreamStep, feedVars, FeedSame
  <2>2. FeedInv' /\ latestBook <= latestBook'
    BY <1>1, <2>1, StreamSide DEF StreamStep, WsStep
  <2> QED  BY <1>0, <2>1, <2>2 DEF FeedSame
<1>2. CASE StreamStep /\ (Publish \/ DropOldest \/ PublishAgain)
  <2>1. FeedSame
    BY <1>2 DEF StreamStep, feedVars, FeedSame
  <2> QED  BY <1>0, <1>2, <2>1, PublishSide DEF FeedSame
<1>3. CASE TakeTick
  BY <1>0, <1>3, TakeSide
<1>4. CASE \/ FeedStep \/ PickClient \/ WriteTick \/ WriteFails \/ Cancel
           \/ \E c \in Clients : PeerStep(c)
           \/ UNCHANGED vars
  BY <1>0, <1>4, TerminalSide
<1> QED  BY <1>1, <1>2, <1>3, <1>4 DEF Next, ForwardStep

\* Before the first dial there is no tick anywhere.
LEMMA FeedInitially == Init => FeedInv
<1> SUFFICES ASSUME Init PROVE FeedInv
  OBVIOUS
<1> USE DEF Init, MarketInit, FeedInit
<1>1. /\ market = 0 /\ stream = <<>> /\ bookCh = <<>> /\ latestBook = 0 /\ tick = 0
      /\ Len(stream) = 0 /\ Len(bookCh) = 0 /\ DOMAIN stream = {} /\ DOMAIN bookCh = {}
      /\ ws = "dial"
  OBVIOUS
<1>2. StreamOK /\ BooksOK /\ PublishOK /\ NewestIsForwarded
  BY <1>1 DEF StreamOK, BooksOK, PublishOK, NewestIsForwarded
<1>3. SeenOK
  BY DEF SeenOK
<1>4. FeedTypeOK
  <2>1. /\ peer \in [Clients -> {"none", "dialled", "reading", "stalled", "gone"}]
        /\ seen \in [Clients -> 0 .. market]
    OBVIOUS
  <2>2. /\ market \in 0 .. MaxTicks /\ latestBook \in 0 .. market /\ tick \in 0 .. market
        /\ Len(stream) <= MaxStream /\ Len(bookCh) <= BookChCap
    BY <1>1, MarketAssumption DEF MarketAssumption
  <2>3. stream \in Seq(0 .. market) /\ bookCh \in Seq(1 .. market)
    BY <1>1
  <2>4. /\ link \in {"none", "up", "broken", "silent"}
        /\ ws \in {"dial", "reading", "publish", "full", "retry", "pause", "stopped"}
        /\ clients \subseteq Clients /\ todo \subseteq Clients
        /\ accepting \in Clients \cup {NoClient}
        /\ writing \in Clients \cup {NoClient}
    OBVIOUS
  <2>5. ctxDone \in BOOLEAN
    OBVIOUS
  <2> QED  BY <2>1, <2>2, <2>3, <2>4, <2>5 DEF FeedTypeOK
<1> QED  BY <1>2, <1>3, <1>4 DEF FeedInv

\* The invariant the theorems below draw on.
LEMMA FeedInvariant == Spec => []FeedInv
<1>1. FeedInv /\ [Next]_vars => FeedInv'
  BY FeedStepKeeps
<1> QED  BY FeedInitially, <1>1, PTL DEF Spec

\* Types, and the bounds of the channel.
THEOREM FeedTyped == Spec => []FeedTypeOK
<1>1. FeedInv => FeedTypeOK
  BY DEF FeedInv
<1> QED  BY <1>1, FeedInvariant, PTL

\* Whatever is dropped, the newest tick is not: between two messages the last
\* tick of bookCh, or the forwarder's, is the book (ws_realtime.go:196-208).
THEOREM NewestForwarded == Spec => []NewestIsForwarded
<1>1. FeedInv => NewestIsForwarded
  BY DEF FeedInv
<1> QED  BY <1>1, FeedInvariant, PTL

\* Neither the book nor any terminal ever goes back to an older tick, over
\* drops, reconnections and broadcasts.
THEOREM NothingGoesBack == Spec => NeverBackwards
<1>1. FeedInv /\ [Next]_vars =>
         [latestBook' >= latestBook /\ \A c \in Clients : seen'[c] >= seen[c]]_vars
  <2> SUFFICES ASSUME FeedInv, [Next]_vars
               PROVE  latestBook' >= latestBook /\ \A c \in Clients : seen'[c] >= seen[c]
    OBVIOUS
  <2> QED  BY FeedStepKeeps
<1> QED  BY <1>1, FeedInvariant, PTL DEF Spec, NeverBackwards
-----------------------------------------------------------------------------
\* A tick is under way until the reader stores it: only a step that appends to
\* the stream, reads from it or dials disturbs this.
LEMMA CurrentKept ==
    ASSUME FeedInv, BookIsCurrent, [Next]_vars
    PROVE  BookIsCurrent'
<1> SUFFICES ASSUME link' = "up"
             PROVE  \/ market' \in {latestBook', connectedAt'}
                    \/ \E i \in DOMAIN stream' : stream'[i] = market'
  BY DEF BookIsCurrent
<1>0. /\ StreamOK /\ FeedTypeOK /\ market \in Nat /\ market + 1 \in Nat
      /\ stream \in Seq(0 .. market) /\ stream \in Seq(0 .. market + 1)
  <2>1. market \in Nat /\ StreamOK /\ FeedTypeOK /\ stream \in Seq(0 .. market)
    BY MarketAssumption DEF FeedInv, FeedTypeOK, MarketAssumption
  <2>2. 0 .. market \subseteq 0 .. market + 1
    BY <2>1
  <2> QED  BY <2>1, <2>2, SeqGrows
<1>1. CASE Dial
  BY <1>1, <1>0 DEF Dial, BookIsCurrent
<1>2. CASE MarketMoves \/ OtherMessage
  <2>1. PICK m \in 0 .. market + 1 : stream' = Append(stream, m) /\ (m = market' \/ market' = market)
    BY <1>0, <1>2 DEF MarketMoves, OtherMessage
  <2>2. /\ Append(stream, m)[Len(stream) + 1] = m
        /\ Len(stream) + 1 \in DOMAIN Append(stream, m)
        /\ \A i \in DOMAIN stream : i \in DOMAIN Append(stream, m) /\ Append(stream, m)[i] = stream[i]
    <3>1. /\ DOMAIN stream = 1 .. Len(stream) /\ Len(stream) \in Nat
          /\ DOMAIN Append(stream, m) = 1 .. Len(stream) + 1
          /\ Append(stream, m)[Len(stream) + 1] = m
          /\ \A i \in 1 .. Len(stream) : Append(stream, m)[i] = stream[i]
      BY <1>0, AppendFacts
    <3> QED  BY <3>1
  <2>3. CASE m = market'
    BY <2>1, <2>2, <2>3
  <2>4. CASE market' = market
    <3>1. link = "up" /\ UNCHANGED <<latestBook, connectedAt>>
      BY <1>2 DEF MarketMoves, OtherMessage
    <3> QED  BY <2>1, <2>2, <2>4, <3>1 DEF BookIsCurrent
  <2> QED  BY <2>1, <2>3, <2>4
<1>3. CASE ReadTick \/ ReadOther
  <2>1. /\ stream # <<>> /\ stream' = Tail(stream) /\ UNCHANGED <<market, link, connectedAt>>
        /\ \/ latestBook' = Head(stream)
           \/ latestBook' = latestBook /\ Head(stream) = 0
    BY <1>3 DEF ReadTick, ReadOther
  <2>2. /\ Len(stream) \in Nat \ {0} /\ DOMAIN stream = 1 .. Len(stream)
        /\ Head(stream) = stream[1] /\ DOMAIN Tail(stream) = 1 .. Len(stream) - 1
        /\ \A i \in 1 .. Len(stream) - 1 : Tail(stream)[i] = stream[i + 1]
    BY <1>0, <2>1, TailFacts
  <2>3. ASSUME NEW i \in DOMAIN stream, stream[i] = market, i # 1
        PROVE  i - 1 \in DOMAIN Tail(stream) /\ Tail(stream)[i - 1] = market
    BY <2>2, <2>3
  <2>4. CASE \E i \in DOMAIN stream : stream[i] = market /\ i # 1
    BY <2>1, <2>3, <2>4
  <2>5. CASE Head(stream) = market
    <3>1. CASE latestBook' = Head(stream)
      BY <2>1, <2>5, <3>1
    <3>2. CASE latestBook' = latestBook /\ Head(stream) = 0
      <4>1. market = 0 /\ latestBook = market
        <5>1. market = 0
          BY <2>5, <3>2
        <5>2. latestBook \in 0 .. market
          BY <1>0 DEF FeedTypeOK
        <5> QED  BY <5>1, <5>2
      <4> QED  BY <2>1, <3>2, <4>1
    <3> QED  BY <2>1, <3>1, <3>2
  <2>6. CASE market = connectedAt
    BY <2>1, <2>6
  <2>7. CASE market = latestBook /\ Head(stream) # market
    <3>1. CASE latestBook' = Head(stream) /\ Head(stream) # 0
      <4>1. 1 \in DOMAIN stream /\ stream[1] # 0
        BY <2>2, <3>1
      <4>2. market <= stream[1] /\ stream[1] \in 0 .. market
        BY <1>0, <2>7, <4>1 DEF StreamOK
      <4> QED  BY <1>0, <2>2, <2>7, <4>2
    <3>2. CASE latestBook' = latestBook
      BY <2>1, <2>7, <3>2
    <3>3. Head(stream) = 0 => latestBook' = latestBook
      BY <1>3 DEF ReadTick, ReadOther
    <3> QED  BY <2>1, <3>1, <3>2, <3>3
  <2> QED  BY <2>1, <2>2, <2>4, <2>5, <2>6, <2>7 DEF BookIsCurrent
<1>4. CASE UNCHANGED <<market, connectedAt, link, stream, latestBook>>
  BY <1>4 DEF BookIsCurrent
<1>5. CASE LinkFails \/ StopReading
  BY <1>5 DEF LinkFails, StopReading, Disconnect
<1>6. \/ Dial \/ MarketMoves \/ OtherMessage \/ ReadTick \/ ReadOther
      \/ LinkFails \/ StopReading
      \/ UNCHANGED <<market, connectedAt, link, stream, latestBook>>
  BY DEF Next, BingXStep, StreamStep, WsStep, Publish, DropOldest, PublishAgain, PauseEnds,
         FeedStep, AcceptClient, AddClient, ForwardStep, TakeTick, TakeBook, PickClient,
         WriteTick, WriteFails, PeerStep, PeerBecomes, Cancel, marketVars, vars
<1> QED  BY <1>1, <1>2, <1>3, <1>4, <1>5, <1>6

\* While the connection is up, the market's last tick is the book or on its way
\* to it (what ws_realtime.go:61-64 builds on).
THEOREM BookCurrent == Spec => []BookIsCurrent
<1>1. Init => BookIsCurrent
  BY DEF Init, MarketInit, BookIsCurrent
<1>2. FeedInv /\ BookIsCurrent /\ [Next]_vars => BookIsCurrent'
  BY CurrentKept
<1> QED  BY <1>1, <1>2, FeedInvariant, PTL DEF Spec
=============================================================================
