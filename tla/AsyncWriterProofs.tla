-------------------------- MODULE AsyncWriterProofs --------------------------
(***************************************************************************)
(* What the event writer promises, for any buffer, any number of events    *)
(* and kills, and a file that may refuse any event.                        *)
(***************************************************************************)
EXTENDS AsyncWriter, TLAPS

Increasing(q) == \A i, j \in DOMAIN q : i < j => q[i] < q[j]

(* A goroutine that has left its loop left nothing in the channel, and main
   writes no more once the context is done. *)
PlacesOK ==
    /\ ctxDone => mainPc # "loop"
    /\ chClosed => mainPc # "loop"
    /\ mainPc \in {"waiting", "stopped"} => chClosed
    /\ writer = "drain" => ctxDone
    /\ writer \in {"lastFlush", "done"} => eventCh = <<>> /\ mainPc # "loop"
    /\ writer = "done" => batch = <<>>
    /\ mainPc \in {"stopped", "down"} => writer = "done"

(* How full the batch may be at each place.                                *)
RoomOK ==
    /\ writer = "select" => Len(batch) < BufferSize
    /\ writer = "flush" => Len(batch) <= BufferSize
    /\ writer = "drain" => Len(batch) + Len(eventCh) <= 2 * BufferSize - 1
    /\ writer = "lastFlush" => Len(batch) <= 2 * BufferSize - 1

(* The batch is older than the channel, and each is in order.              *)
OrderOK ==
    /\ Increasing(batch) /\ Increasing(eventCh)
    /\ \A a \in ToSet(batch), b \in ToSet(eventCh) : a < b
    /\ InMemory \subseteq 1 .. written

FatesOK == 1 .. written = InMemory \cup ToSet(file) \cup failed \cup dropped \cup lost

WriterInv == WriterTypeOK /\ PlacesOK /\ RoomOK /\ OrderOK /\ FatesOK

-----------------------------------------------------------------------------
(* Sequences of numbers.                                                   *)

\* Appending an event adds it to the events a sequence holds.
LEMMA AppendSet ==
    ASSUME NEW S, NEW q \in Seq(S), NEW x \in S
    PROVE  ToSet(Append(q, x)) = ToSet(q) \cup {x}
<1>1. /\ DOMAIN q = 1 .. Len(q) /\ Len(q) \in Nat
      /\ DOMAIN Append(q, x) = 1 .. Len(q) + 1
      /\ Append(q, x)[Len(q) + 1] = x
      /\ \A i \in 1 .. Len(q) : Append(q, x)[i] = q[i]
  OBVIOUS
<1>2. 1 .. Len(q) + 1 = (1 .. Len(q)) \cup {Len(q) + 1}
  BY <1>1
<1> QED  BY <1>1, <1>2 DEF ToSet

\* A sequence holds its head and what its tail holds.
LEMMA HeadTailSet ==
    ASSUME NEW S, NEW q \in Seq(S), q # <<>>
    PROVE  /\ Head(q) \in S /\ Tail(q) \in Seq(S) /\ Len(Tail(q)) = Len(q) - 1
           /\ ToSet(q) = {Head(q)} \cup ToSet(Tail(q))
<1>1. /\ Len(q) \in Nat \ {0} /\ DOMAIN q = 1 .. Len(q) /\ Head(q) = q[1]
      /\ Len(Tail(q)) = Len(q) - 1 /\ DOMAIN Tail(q) = 1 .. Len(q) - 1
      /\ \A i \in 1 .. Len(q) - 1 : Tail(q)[i] = q[i + 1]
      /\ Tail(q) \in Seq(S) /\ Head(q) \in S
  OBVIOUS
<1>2. ASSUME NEW y \in ToSet(q) PROVE y \in {Head(q)} \cup ToSet(Tail(q))
  <2>1. PICK j \in 1 .. Len(q) : q[j] = y
    BY <1>1, <1>2 DEF ToSet
  <2>2. CASE j = 1
    BY <1>1, <2>1, <2>2
  <2>3. CASE j # 1
    <3>1. j - 1 \in DOMAIN Tail(q) /\ Tail(q)[j - 1] = y
      BY <1>1, <2>1, <2>3
    <3> QED  BY <3>1 DEF ToSet
  <2> QED  BY <2>2, <2>3
<1>3. ASSUME NEW y \in {Head(q)} \cup ToSet(Tail(q)) PROVE y \in ToSet(q)
  <2>1. CASE y = Head(q)
    BY <1>1, <2>1 DEF ToSet
  <2>2. CASE y \in ToSet(Tail(q))
    <3>1. PICK i \in 1 .. Len(q) - 1 : Tail(q)[i] = y
      BY <1>1, <2>2 DEF ToSet
    <3>2. i + 1 \in DOMAIN q /\ q[i + 1] = y
      BY <1>1, <3>1
    <3> QED  BY <3>2 DEF ToSet
  <2> QED  BY <1>3, <2>1, <2>2
<1> QED  BY <1>1, <1>2, <1>3

\* A larger number may follow.
LEMMA AppendIncreasing ==
    ASSUME NEW q \in Seq(Int), Increasing(q), NEW x \in Int, \A y \in ToSet(q) : y < x
    PROVE  Increasing(Append(q, x))
<1>1. /\ DOMAIN q = 1 .. Len(q) /\ Len(q) \in Nat
      /\ DOMAIN Append(q, x) = 1 .. Len(q) + 1
      /\ Append(q, x)[Len(q) + 1] = x
      /\ \A i \in 1 .. Len(q) : Append(q, x)[i] = q[i]
  OBVIOUS
<1>2. \A i \in 1 .. Len(q) : q[i] < x
  BY <1>1 DEF ToSet
<1> QED  BY <1>1, <1>2 DEF Increasing

\* The head is the smallest, and smaller than all that follow.
LEMMA TailIncreasing ==
    ASSUME NEW q \in Seq(Int), q # <<>>, Increasing(q)
    PROVE  /\ Increasing(Tail(q))
           /\ \A y \in ToSet(Tail(q)) : Head(q) < y
<1>1. /\ Len(q) \in Nat \ {0} /\ DOMAIN q = 1 .. Len(q) /\ Head(q) = q[1]
      /\ Len(Tail(q)) = Len(q) - 1 /\ DOMAIN Tail(q) = 1 .. Len(q) - 1
      /\ \A i \in 1 .. Len(q) - 1 : Tail(q)[i] = q[i + 1]
  OBVIOUS
<1>2. Increasing(Tail(q))
  <2> SUFFICES ASSUME NEW i \in 1 .. Len(q) - 1, NEW j \in 1 .. Len(q) - 1, i < j
               PROVE  Tail(q)[i] < Tail(q)[j]
    BY <1>1 DEF Increasing
  <2>1. i + 1 \in DOMAIN q /\ j + 1 \in DOMAIN q /\ i + 1 < j + 1
    BY <1>1
  <2> QED  BY <1>1, <2>1 DEF Increasing
<1>3. ASSUME NEW y \in ToSet(Tail(q)) PROVE Head(q) < y
  <2>1. PICK i \in 1 .. Len(q) - 1 : Tail(q)[i] = y
    BY <1>1, <1>3 DEF ToSet
  <2>2. 1 \in DOMAIN q /\ i + 1 \in DOMAIN q /\ 1 < i + 1 /\ q[i + 1] = y
    BY <1>1, <2>1
  <2> QED  BY <1>1, <2>2 DEF Increasing
<1> QED  BY <1>2, <1>3

\* The empty sequence.
LEMMA EmptyFacts == ToSet(<<>>) = {} /\ Increasing(<<>>) /\ Len(<<>>) = 0
BY DEF ToSet, Increasing

\* A sequence over a set is one over every larger set.
LEMMA SeqMonotone ==
    ASSUME NEW S, NEW T, S \subseteq T, NEW q \in Seq(S)
    PROVE  q \in Seq(T)
OBVIOUS

\* Events are numbers.
LEMMA EventSeq ==
    ASSUME NEW q \in Seq(Events)
    PROVE  q \in Seq(Int) /\ ToSet(q) \subseteq Events /\ Len(q) \in Nat
<1>1. Events \subseteq Int
  BY WriterAssumption DEF WriterAssumption, Events
<1>2. q \in Seq(Int)
  BY <1>1, SeqMonotone
<1>3. ToSet(q) \subseteq Events
  BY DEF ToSet
<1> QED  BY <1>2, <1>3

-----------------------------------------------------------------------------
(* What the steps do to the events in memory.                              *)

Held == eventCh \in Seq(Events) /\ batch \in Seq(Events)

\* Write (async_writer.go:50-56): the new event is the youngest in memory.
LEMMA Push ==
    ASSUME Held, OrderOK, written \in Nat, written + 1 \in Events,
           written' = written + 1, eventCh' = Append(eventCh, written + 1), batch' = batch
    PROVE  /\ Held' /\ OrderOK' /\ InMemory' = InMemory \cup {written + 1}
           /\ Len(eventCh') = Len(eventCh) + 1
<1>1. ToSet(eventCh') = ToSet(eventCh) \cup {written + 1}
  BY AppendSet DEF Held
<1>2. InMemory' = InMemory \cup {written + 1}
  BY <1>1 DEF InMemory
<1>3. \A y \in InMemory : y \in Int /\ y < written + 1
  BY DEF OrderOK
<1>4. Increasing(eventCh')
  BY <1>3, AppendIncreasing, EventSeq DEF Held, OrderOK, InMemory
<1>5. \A a \in ToSet(batch'), b \in ToSet(eventCh') : a < b
  BY <1>1, <1>3 DEF OrderOK, InMemory
<1>6. InMemory' \subseteq 1 .. written'
  BY <1>2 DEF OrderOK
<1> QED  BY <1>2, <1>4, <1>5, <1>6 DEF OrderOK, Held

\* A receive moves the oldest event of the channel to the end of the batch.
LEMMA Move ==
    ASSUME Held, OrderOK, eventCh # <<>>,
           batch' = Append(batch, Head(eventCh)), eventCh' = Tail(eventCh), written' = written
    PROVE  /\ Held' /\ OrderOK' /\ InMemory' = InMemory
           /\ Len(batch') = Len(batch) + 1 /\ Len(eventCh') = Len(eventCh) - 1
<1> DEFINE h == Head(eventCh)
<1>1. /\ h \in Events /\ Tail(eventCh) \in Seq(Events)
      /\ Len(Tail(eventCh)) = Len(eventCh) - 1
      /\ ToSet(eventCh) = {h} \cup ToSet(Tail(eventCh))
  BY HeadTailSet DEF Held
<1>2. ToSet(batch') = ToSet(batch) \cup {h}
  BY <1>1, AppendSet DEF Held
<1>3. Increasing(Tail(eventCh)) /\ \A y \in ToSet(Tail(eventCh)) : h < y
  BY EventSeq, TailIncreasing DEF Held, OrderOK
<1>4. \A y \in ToSet(batch) : y < h
  BY <1>1 DEF OrderOK
<1>5. h \in Int /\ batch \in Seq(Int)
  BY <1>1, EventSeq, WriterAssumption DEF Held, Events, WriterAssumption
<1>6. Increasing(batch')
  BY <1>4, <1>5, AppendIncreasing DEF OrderOK
<1>7. InMemory' = InMemory
  BY <1>1, <1>2 DEF InMemory
<1>8. \A a \in ToSet(batch'), b \in ToSet(eventCh') : a < b
  BY <1>1, <1>2, <1>3 DEF OrderOK
<1>9. Held' /\ Len(batch') = Len(batch) + 1 /\ Len(eventCh') = Len(eventCh) - 1
  BY <1>1 DEF Held
<1> HIDE DEF h
<1> QED  BY <1>3, <1>6, <1>7, <1>8, <1>9 DEF OrderOK

\* A flush takes the oldest event in memory.
LEMMA Pop ==
    ASSUME Held, OrderOK, batch # <<>>,
           batch' = Tail(batch), eventCh' = eventCh, written' = written
    PROVE  /\ Held' /\ OrderOK' /\ Len(batch') = Len(batch) - 1
           /\ Head(batch) \in InMemory
           /\ InMemory' = InMemory \ {Head(batch)}
           /\ \A e \in InMemory : Head(batch) <= e
<1> DEFINE h == Head(batch)
<1>1. /\ h \in Events /\ Tail(batch) \in Seq(Events) /\ Len(Tail(batch)) = Len(batch) - 1
      /\ ToSet(batch) = {h} \cup ToSet(Tail(batch))
  BY HeadTailSet DEF Held
<1>2. Increasing(Tail(batch)) /\ \A y \in ToSet(Tail(batch)) : h < y
  BY EventSeq, TailIncreasing DEF Held, OrderOK
<1>3. \A b \in ToSet(eventCh) : h < b
  BY <1>1 DEF OrderOK
<1>4. h \in Int /\ h \in InMemory
  BY <1>1, WriterAssumption DEF Events, WriterAssumption, InMemory
<1>5. h \notin ToSet(Tail(batch)) /\ h \notin ToSet(eventCh)
  BY <1>2, <1>3, <1>4
<1>6. InMemory' = InMemory \ {h}
  BY <1>1, <1>5 DEF InMemory
<1>7. \A e \in InMemory : h <= e
  <2>1. \A e \in InMemory : e \in Int
    BY DEF OrderOK
  <2>2. \A e \in InMemory : e = h \/ h < e
    BY <1>1, <1>2, <1>3 DEF InMemory
  <2> HIDE DEF h
  <2> QED  BY <1>4, <2>1, <2>2
<1>8. \A a \in ToSet(batch'), b \in ToSet(eventCh') : a < b
  BY <1>1 DEF OrderOK
<1>9. Held'
  BY <1>1 DEF Held
<1>10. OrderOK'
  BY <1>2, <1>6, <1>8 DEF OrderOK
<1> QED  BY <1>1, <1>4, <1>6, <1>7, <1>9, <1>10

\* A kill empties the memory.
LEMMA Clear ==
    ASSUME eventCh' = <<>>, batch' = <<>>
    PROVE  Held' /\ OrderOK' /\ InMemory' = {}
BY EmptyFacts DEF Held, OrderOK, InMemory

\* Steps that leave the queue alone.
LEMMA Same ==
    ASSUME Held, OrderOK, UNCHANGED <<eventCh, batch, written>>
    PROVE  Held' /\ OrderOK' /\ InMemory' = InMemory
BY DEF Held, OrderOK, InMemory

-----------------------------------------------------------------------------
(* The invariant.                                                          *)

\* The memory a step leaves is in order and no event appears but a new one.
LEMMA StepOrdered ==
    ASSUME WriterInv, [Next]_writerVars
    PROVE  Held' /\ OrderOK'
<1>0. Held /\ OrderOK /\ written \in Nat
  BY WriterAssumption DEF WriterInv, WriterTypeOK, Held, WriterAssumption
<1>1. CASE Write
  <2>1. written + 1 \in Events /\ written' = written + 1 /\ batch' = batch
    BY <1>0, <1>1, WriterAssumption DEF Write, Events, WriterAssumption
  <2>2. CASE eventCh' = Append(eventCh, written')
    BY <1>0, <2>1, <2>2, Push
  <2>3. CASE eventCh' = eventCh
    BY <1>0, <2>1, <2>3 DEF Held, OrderOK, InMemory
  <2> QED  BY <1>1, <2>2, <2>3 DEF Write
<1>2. CASE Receive \/ Drain
  BY <1>0, <1>2, Move DEF Receive, Drain, GoroutineOnly
<1>3. CASE FlushEvent
  BY <1>0, <1>3, Pop DEF FlushEvent, GoroutineOnly
<1>4. CASE Kill
  BY <1>4, Clear DEF Kill
<1>5. CASE Restart
  BY <1>5, Clear DEF Restart, NewAsyncWriter
<1>6. CASE Tick \/ ContextDone \/ ChannelEnds \/ FlushEnds \/ Cancel \/ Stop \/ StopReturns
           \/ UNCHANGED writerVars
  <2>1. UNCHANGED <<eventCh, batch, written>>
    BY <1>6 DEF Tick, ContextDone, ChannelEnds, FlushEnds, Cancel, Stop, StopReturns,
                GoroutineOnly, writerVars, memoryVars, historyVars
  <2> QED  BY <1>0, <2>1, Same
<1> QED  BY <1>1, <1>2, <1>3, <1>4, <1>5, <1>6 DEF Next, GoroutineStep

\* Where the goroutine goes when it leaves its loop.
LEMMA StepPlaced ==
    ASSUME WriterInv, [Next]_writerVars
    PROVE  PlacesOK'
<1> USE DEF WriterInv, PlacesOK
<1>1. CASE Write
  BY <1>1 DEF Write
<1>2. CASE Receive \/ Drain \/ Tick \/ ContextDone
  BY <1>2 DEF Receive, Drain, Tick, ContextDone, GoroutineOnly
<1>3. CASE ChannelEnds
  BY <1>3 DEF ChannelEnds, LeaveLoop, GoroutineOnly
<1>4. CASE FlushEvent \/ FlushEnds
  BY <1>4 DEF FlushEvent, FlushEnds, GoroutineOnly
<1>5. CASE Cancel \/ Stop \/ StopReturns
  BY <1>5 DEF Cancel, Stop, StopReturns, memoryVars
<1>6. CASE Kill \/ Restart
  BY <1>6 DEF Kill, Restart, NewAsyncWriter
<1>7. CASE UNCHANGED writerVars
  BY <1>7 DEF writerVars, memoryVars
<1> QED  BY <1>1, <1>2, <1>3, <1>4, <1>5, <1>6, <1>7 DEF Next, GoroutineStep

\* The drain loop starts with a batch that is not full and a channel that
\* nobody fills any more (async_writer.go:147-156).
LEMMA StepRoom ==
    ASSUME WriterInv, [Next]_writerVars
    PROVE  RoomOK' /\ Len(eventCh') <= BufferSize
<1>0. /\ Held /\ OrderOK /\ BufferSize \in Nat \ {0} /\ written \in Nat
      /\ Len(batch) \in Nat /\ Len(eventCh) \in Nat /\ Len(eventCh) <= BufferSize
      /\ writer \in {"select", "flush", "drain", "lastFlush", "done"}
  BY WriterAssumption, EventSeq DEF WriterInv, WriterTypeOK, Held, WriterAssumption
<1>1. CASE Write
  <2>1. writer # "drain" /\ writer' = writer /\ batch' = batch
    BY <1>1 DEF Write, WriterInv, PlacesOK
  <2>2. CASE Len(eventCh) < BufferSize /\ eventCh' = Append(eventCh, written')
    <3>1. written + 1 \in Events /\ written' = written + 1
      BY <1>0, <1>1, WriterAssumption DEF Write, Events, WriterAssumption
    <3>2. Len(eventCh') = Len(eventCh) + 1
      BY <1>0, <2>1, <2>2, <3>1, Push
    <3> QED  BY <1>0, <2>1, <2>2, <3>2 DEF WriterInv, RoomOK
  <2>3. CASE eventCh' = eventCh
    BY <1>0, <2>1, <2>3 DEF WriterInv, RoomOK
  <2> QED  BY <1>1, <2>2, <2>3 DEF Write
<1>2. CASE Receive
  <2>1. /\ Len(batch') = Len(batch) + 1 /\ Len(eventCh') = Len(eventCh) - 1
        /\ writer = "select"
        /\ writer' = IF Len(batch') >= BufferSize THEN "flush" ELSE "select"
    BY <1>0, <1>2, Move DEF Receive, GoroutineOnly, BatchFull
  <2> QED  BY <1>0, <2>1 DEF WriterInv, RoomOK
<1>3. CASE Drain
  <2>1. /\ Len(batch') = Len(batch) + 1 /\ Len(eventCh') = Len(eventCh) - 1
        /\ writer = "drain" /\ writer' = "drain"
    BY <1>0, <1>3, Move DEF Drain, GoroutineOnly
  <2> QED  BY <1>0, <2>1 DEF WriterInv, RoomOK
<1>4. CASE FlushEvent
  <2>1. /\ Len(batch') = Len(batch) - 1 /\ eventCh' = eventCh
        /\ writer \in {"flush", "lastFlush"} /\ writer' = writer
    BY <1>0, <1>4, Pop DEF FlushEvent, GoroutineOnly
  <2> QED  BY <1>0, <2>1 DEF WriterInv, RoomOK
<1>5. CASE FlushEnds
  <2>1. batch = <<>> /\ batch' = batch /\ eventCh' = eventCh /\ writer' \in {"select", "done"}
    BY <1>5 DEF FlushEnds
  <2> QED  BY <1>0, <2>1, EmptyFacts DEF RoomOK
<1>6. CASE Tick \/ ContextDone
  <2>1. /\ UNCHANGED <<batch, eventCh>> /\ writer = "select" /\ writer' \in {"flush", "drain"}
    BY <1>6 DEF Tick, ContextDone
  <2> QED  BY <1>0, <2>1 DEF WriterInv, RoomOK
<1>7. CASE ChannelEnds
  <2>1. /\ UNCHANGED <<batch, eventCh>> /\ eventCh = <<>>
        /\ writer \in {"select", "drain"} /\ writer' \in {"lastFlush", "done"}
    BY <1>7 DEF ChannelEnds, LeaveLoop
  <2> QED  BY <1>0, <2>1, EmptyFacts DEF WriterInv, RoomOK
<1>8. CASE Kill \/ Restart
  <2>1. batch' = <<>> /\ eventCh' = <<>> /\ writer' \in {"select", "done"}
    BY <1>8 DEF Kill, Restart, NewAsyncWriter
  <2> QED  BY <1>0, <2>1, EmptyFacts DEF RoomOK
<1>9. CASE Cancel \/ Stop \/ StopReturns \/ UNCHANGED writerVars
  <2>1. UNCHANGED <<batch, eventCh, writer>>
    BY <1>9 DEF Cancel, Stop, StopReturns, memoryVars, writerVars
  <2> QED  BY <1>0, <2>1 DEF WriterInv, RoomOK
<1> QED  BY <1>1, <1>2, <1>3, <1>4, <1>5, <1>6, <1>7, <1>8, <1>9 DEF Next, GoroutineStep

\* Nothing leaves the memory but to the file or to one of the losses.
LEMMA StepFates ==
    ASSUME WriterInv, [Next]_writerVars
    PROVE  /\ FatesOK' /\ written' \in 0 .. MaxEvents
           /\ file' \in Seq(Events)
           /\ failed' \subseteq Events /\ dropped' \subseteq Events /\ lost' \subseteq Events
<1>0. /\ Held /\ OrderOK /\ FatesOK /\ MaxEvents \in Nat
      /\ written \in 0 .. MaxEvents /\ file \in Seq(Events)
      /\ failed \subseteq Events /\ dropped \subseteq Events /\ lost \subseteq Events
      /\ InMemory \subseteq Events
  <2>1. MaxEvents \in Nat
    BY WriterAssumption DEF WriterAssumption
  <2>2. Held /\ InMemory \subseteq Events
    BY EventSeq DEF WriterInv, WriterTypeOK, Held, InMemory
  <2> QED  BY <2>1, <2>2 DEF WriterInv, WriterTypeOK
<1>1. CASE Write
  <2>1. /\ written + 1 \in Events /\ written' = written + 1 /\ batch' = batch
        /\ UNCHANGED <<file, failed, lost>> /\ written' \in 0 .. MaxEvents
    BY <1>0, <1>1 DEF Write, Events
  <2>2. 1 .. written' = (1 .. written) \cup {written + 1}
    BY <1>0, <2>1
  <2>3. CASE eventCh' = Append(eventCh, written') /\ dropped' = dropped
    <3>1. InMemory' = InMemory \cup {written + 1}
      BY <1>0, <2>1, <2>3, Push
    <3> QED  BY <1>0, <2>1, <2>2, <2>3, <3>1 DEF FatesOK
  <2>4. CASE eventCh' = eventCh /\ dropped' = dropped \cup {written'}
    <3>1. InMemory' = InMemory
      BY <2>1, <2>4 DEF InMemory
    <3> QED  BY <1>0, <2>1, <2>2, <2>4, <3>1 DEF FatesOK
  <2> QED  BY <1>1, <2>3, <2>4 DEF Write
<1>2. CASE Receive \/ Drain
  <2>1. InMemory' = InMemory /\ UNCHANGED <<written, file, failed, dropped, lost>>
    BY <1>0, <1>2, Move DEF Receive, Drain, GoroutineOnly
  <2> QED  BY <1>0, <2>1 DEF FatesOK
<1>3. CASE FlushEvent
  <2>1. /\ Head(batch) \in InMemory /\ InMemory' = InMemory \ {Head(batch)}
        /\ UNCHANGED <<written, dropped, lost>>
    BY <1>0, <1>3, Pop DEF FlushEvent, GoroutineOnly
  <2>2. Head(batch) \in Events
    BY <1>0, <2>1
  <2>3. CASE file' = Append(file, Head(batch)) /\ failed' = failed
    <3>1. file' \in Seq(Events) /\ ToSet(file') = ToSet(file) \cup {Head(batch)}
      BY <1>0, <2>2, <2>3, AppendSet
    <3> QED  BY <1>0, <2>1, <2>3, <3>1 DEF FatesOK
  <2>4. CASE failed' = failed \cup {Head(batch)} /\ file' = file
    BY <1>0, <2>1, <2>2, <2>4 DEF FatesOK
  <2> QED  BY <1>3, <2>3, <2>4 DEF FlushEvent
<1>4. CASE Kill
  <2>1. /\ InMemory' = {} /\ lost' = lost \cup InMemory
        /\ UNCHANGED <<written, file, failed, dropped>>
    BY <1>4, Clear DEF Kill
  <2> QED  BY <1>0, <2>1 DEF FatesOK
<1>5. CASE Restart
  <2>1. InMemory' = {} /\ UNCHANGED <<written, file, failed, dropped, lost>>
    BY <1>5, Clear DEF Restart, NewAsyncWriter, historyVars
  <2>2. eventCh = <<>> /\ batch = <<>>
    BY <1>5 DEF Restart, WriterInv, PlacesOK
  <2>3. InMemory = {}
    BY <2>2, EmptyFacts DEF InMemory
  <2> QED  BY <1>0, <2>1, <2>3 DEF FatesOK
<1>6. CASE Tick \/ ContextDone \/ ChannelEnds \/ FlushEnds \/ Cancel \/ Stop \/ StopReturns
           \/ UNCHANGED writerVars
  <2>1. UNCHANGED <<eventCh, batch, written, file, failed, dropped, lost>>
    BY <1>6 DEF Tick, ContextDone, ChannelEnds, FlushEnds, Cancel, Stop, StopReturns,
                GoroutineOnly, writerVars, memoryVars, historyVars
  <2> QED  BY <1>0, <2>1 DEF FatesOK, InMemory
<1> QED  BY <1>1, <1>2, <1>3, <1>4, <1>5, <1>6 DEF Next, GoroutineStep

\* Types, from the lemmas on order, room and fates.
LEMMA StepTyped ==
    ASSUME WriterInv, [Next]_writerVars
    PROVE  WriterTypeOK'
<1>0. WriterTypeOK
  BY DEF WriterInv
<1>1. /\ writer' \in {"select", "flush", "drain", "lastFlush", "done"}
      /\ mainPc' \in {"loop", "cancelled", "waiting", "stopped", "down"}
      /\ chClosed' \in BOOLEAN /\ ctxDone' \in BOOLEAN
  BY <1>0 DEF Next, Write, GoroutineStep, Receive, Tick, ContextDone, Drain, ChannelEnds,
              LeaveLoop, FlushEvent, FlushEnds, Cancel, Stop, StopReturns, Kill, Restart,
              NewAsyncWriter, GoroutineOnly, memoryVars, historyVars, writerVars, WriterTypeOK
<1>2. kills' \in 0 .. MaxKills
  <2>1. kills' = kills \/ (kills < MaxKills /\ kills' = kills + 1)
    BY DEF Next, Write, GoroutineStep, Receive, Tick, ContextDone, Drain, ChannelEnds,
           FlushEvent, FlushEnds, Cancel, Stop, StopReturns, Kill, Restart,
           GoroutineOnly, memoryVars, historyVars, writerVars
  <2> QED  BY <1>0, <2>1, WriterAssumption DEF WriterTypeOK, WriterAssumption
<1> QED  BY <1>1, <1>2, StepOrdered, StepRoom, StepFates DEF WriterTypeOK, Held

\* A new writer is empty.
LEMMA WriterInitially == Init => WriterInv
<1> SUFFICES ASSUME Init PROVE WriterInv
  OBVIOUS
<1> USE DEF Init, FreshWriter
<1>1. InMemory = {} /\ ToSet(file) = {} /\ Increasing(batch) /\ Increasing(eventCh)
      /\ Len(batch) = 0 /\ Len(eventCh) = 0
  BY EmptyFacts DEF InMemory
<1>2. BufferSize \in Nat \ {0} /\ MaxEvents \in Nat /\ MaxKills \in Nat
  BY WriterAssumption DEF WriterAssumption
<1>3. WriterTypeOK
  <2>1. /\ eventCh \in Seq(Events) /\ batch \in Seq(Events) /\ file \in Seq(Events)
        /\ failed \subseteq Events /\ dropped \subseteq Events /\ lost \subseteq Events
    OBVIOUS
  <2>3. /\ chClosed \in BOOLEAN /\ ctxDone \in BOOLEAN
        /\ writer \in {"select", "flush", "drain", "lastFlush", "done"}
        /\ mainPc \in {"loop", "cancelled", "waiting", "stopped", "down"}
    OBVIOUS
  <2>2. Len(eventCh) <= BufferSize /\ written \in 0 .. MaxEvents /\ kills \in 0 .. MaxKills
    BY <1>1, <1>2
  <2> QED  BY <2>1, <2>2, <2>3 DEF WriterTypeOK
<1>4. PlacesOK /\ RoomOK
  BY <1>1, <1>2 DEF PlacesOK, RoomOK
<1>5. OrderOK
  <2>1. ToSet(batch) = {} /\ ToSet(eventCh) = {}
    BY <1>1 DEF InMemory
  <2> QED  BY <1>1, <2>1 DEF OrderOK
<1>6. FatesOK
  BY <1>1 DEF FatesOK
<1> QED  BY <1>3, <1>4, <1>5, <1>6 DEF WriterInv

\* The invariant the theorems below draw on.
LEMMA WriterInvariant == Spec => []WriterInv
<1>1. WriterInv /\ [Next]_writerVars => WriterInv'
  BY StepTyped, StepPlaced, StepRoom, StepOrdered, StepFates DEF WriterInv
<1> QED  BY WriterInitially, <1>1, PTL DEF Spec

\* Types; in particular the channel never holds more than its capacity.
THEOREM WriterTyped == Spec => []WriterTypeOK
<1>1. WriterInv => WriterTypeOK
  BY DEF WriterInv
<1> QED  BY <1>1, WriterInvariant, PTL

\* The batch of async_writer.go:122 never grows past two channels less one event,
\* whatever the goroutine's select takes first at the shutdown.
THEOREM BatchIsBounded == Spec => []BatchBounded
<1>1. WriterInv => BatchBounded
  <2> SUFFICES ASSUME WriterInv PROVE BatchBounded
    OBVIOUS
  <2>1. /\ BufferSize \in Nat \ {0} /\ Len(batch) \in Nat /\ Len(eventCh) \in Nat
        /\ writer \in {"select", "flush", "drain", "lastFlush", "done"}
    BY WriterAssumption, EventSeq DEF WriterInv, WriterTypeOK, WriterAssumption
  <2>2. writer = "done" => Len(batch) = 0
    BY EmptyFacts DEF WriterInv, PlacesOK
  <2> QED  BY <2>1, <2>2 DEF WriterInv, RoomOK, BatchBounded
<1> QED  BY <1>1, WriterInvariant, PTL

\* Every event written is in memory, in the file, or one of the accepted losses,
\* and after Stop returned none is in memory (async_writer.go:107-110 and 147-156).
THEOREM EventsAccounted == Spec => []EveryEventAccounted
<1>1. WriterInv => EveryEventAccounted
  <2> SUFFICES ASSUME WriterInv PROVE EveryEventAccounted
    OBVIOUS
  <2>1. mainPc = "stopped" => eventCh = <<>> /\ batch = <<>>
    BY DEF WriterInv, PlacesOK
  <2>2. mainPc = "stopped" => InMemory = {}
    BY <2>1, EmptyFacts DEF InMemory
  <2> QED  BY <2>2 DEF WriterInv, FatesOK, EveryEventAccounted
<1> QED  BY <1>1, WriterInvariant, PTL

-----------------------------------------------------------------------------
(* The refinement.                                                         *)

\* A received event stays pending, a flushed one is the oldest pending one.
LEMMA StepLogs ==
    ASSUME WriterInv, [Next]_writerVars
    PROVE  [Log!Next]_(Log!logVars)
<1>0. Held /\ OrderOK /\ MaxEvents \in Nat /\ written \in 0 .. MaxEvents
  BY WriterAssumption DEF WriterInv, WriterTypeOK, Held, WriterAssumption
<1>1. CASE Write
  <2>1. /\ written + 1 \in Events /\ written' = written + 1 /\ batch' = batch
        /\ file' = file
    BY <1>0, <1>1 DEF Write, Events
  <2>2. CASE eventCh' = Append(eventCh, written')
    <3>1. InMemory' = InMemory \cup {written'}
      BY <1>0, <2>1, <2>2, Push
    <3> QED  BY <2>1, <3>1 DEF Log!Next, Log!Write
  <2>3. CASE eventCh' = eventCh
    <3>1. InMemory' = InMemory
      BY <2>1, <2>3 DEF InMemory
    <3> QED  BY <2>1, <3>1 DEF Log!Next, Log!Write
  <2> QED  BY <1>1, <2>2, <2>3 DEF Write
<1>2. CASE Receive \/ Drain
  <2>1. InMemory' = InMemory /\ UNCHANGED <<written, file>>
    BY <1>0, <1>2, Move DEF Receive, Drain, GoroutineOnly
  <2> QED  BY <2>1 DEF Log!logVars
<1>3. CASE FlushEvent
  <2>1. /\ Head(batch) \in InMemory /\ InMemory' = InMemory \ {Head(batch)}
        /\ \A e \in InMemory : Head(batch) <= e
        /\ written' = written
    BY <1>0, <1>3, Pop DEF FlushEvent, GoroutineOnly
  <2>2. CASE file' = Append(file, Head(batch))
    <3>1. Log!LogNext
      BY <2>1, <2>2 DEF Log!LogNext
    <3> QED  BY <3>1 DEF Log!Next
  <2>3. CASE file' = file
    <3>1. Log!Lose
      BY <2>1, <2>3 DEF Log!Lose
    <3> QED  BY <3>1 DEF Log!Next
  <2> QED  BY <1>3, <2>2, <2>3 DEF FlushEvent
<1>4. CASE Kill
  <2>1. InMemory' = {} /\ UNCHANGED <<written, file>>
    BY <1>4, Clear DEF Kill
  <2> QED  BY <2>1 DEF Log!Next, Log!Lose
<1>5. CASE Restart
  <2>1. InMemory' = {} /\ UNCHANGED <<written, file>>
    BY <1>5, Clear DEF Restart, NewAsyncWriter, historyVars
  <2> QED  BY <2>1 DEF Log!Next, Log!Lose
<1>6. CASE Tick \/ ContextDone \/ ChannelEnds \/ FlushEnds \/ Cancel \/ Stop \/ StopReturns
           \/ UNCHANGED writerVars
  <2>1. UNCHANGED <<eventCh, batch, written, file>>
    BY <1>6 DEF Tick, ContextDone, ChannelEnds, FlushEnds, Cancel, Stop, StopReturns,
                GoroutineOnly, writerVars, memoryVars, historyVars
  <2> QED  BY <2>1 DEF Log!logVars, InMemory
<1> QED  BY <1>1, <1>2, <1>3, <1>4, <1>5, <1>6 DEF Next, GoroutineStep

\* The writer implements the lossy log: over drops, file errors, shutdowns and
\* kills the file only ever grows, in the order main wrote, each event once.
THEOREM WriterImplementsLog == Spec => LogSpec
<1>1. Init => Log!Init
  <2> SUFFICES ASSUME Init PROVE Log!Init
    OBVIOUS
  <2>1. InMemory = {}
    BY EmptyFacts DEF Init, FreshWriter, InMemory
  <2> QED  BY <2>1 DEF Init, Log!Init
<1>2. WriterInv /\ [Next]_writerVars => [Log!Next]_(Log!logVars)
  BY StepLogs
<1> QED  BY <1>1, <1>2, WriterInvariant, PTL DEF Spec, LogSpec, Log!Spec
=============================================================================
