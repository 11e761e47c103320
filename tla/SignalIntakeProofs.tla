-------------------------- MODULE SignalIntakeProofs --------------------------
(***************************************************************************)
(* What the bridge promises about connection places, the closing of its    *)
(* channel and acknowledged signals, for any number of connections and     *)
(* signals and any channel.                                                *)
(***************************************************************************)
EXTENDS SignalIntake, FiniteSetTheorems, TLAPS

RunningConns == {c \in Conns : handler[c] \in Running}

(* Where each goroutine can be, and what it then holds.                    *)
PlacesOK ==
    /\ \A c \in Conns : c > dialled => handler[c] = "none"
    /\ acceptLoop = "admit" => accepted \in Conns /\ handler[accepted] = "accepted"
    /\ \A c \in Conns : handler[c] \in {"acking", "forwarding"} => inHand[c] \in offered

(* The wait group counts the accept loop and the handlers, the connection
   counter the handlers; a closed channel has seen the wait group at zero. *)
CountsOK ==
    /\ PlacesAreHandlers
    /\ wg = activeConns + (IF acceptLoop = "ended" THEN 0 ELSE 1)
    /\ chClosed => wg = 0

IntakeInv == IntakeTypeOK /\ PlacesOK /\ CountsOK

-----------------------------------------------------------------------------
\* A step changes the set of running handlers by one connection at most: no
\* action of server.go starts or ends two.
LEMMA RunningAdd ==
    ASSUME ServerTypeOK, NEW c \in Conns, handler[c] \notin Running,
           NEW p \in Running, handler' = [handler EXCEPT ![c] = p]
    PROVE  RunningConns' = RunningConns \cup {c} /\ c \notin RunningConns
BY DEF ServerTypeOK, RunningConns, Conns

\* The same for a handler that ends.
LEMMA RunningRemove ==
    ASSUME ServerTypeOK, NEW c \in Conns, handler[c] \in Running,
           NEW p, p \notin Running, handler' = [handler EXCEPT ![c] = p]
    PROVE  RunningConns' = RunningConns \ {c} /\ c \in RunningConns
BY DEF ServerTypeOK, RunningConns, Conns

\* And for steps between two places of a running handler.
LEMMA RunningSame ==
    ASSUME ServerTypeOK,
           \A c \in Conns : handler'[c] \in Running <=> handler[c] \in Running
    PROVE  RunningConns' = RunningConns
BY DEF RunningConns, Conns

\* There are finitely many connections.
LEMMA RunningFinite == IsFiniteSet(RunningConns) /\ Cardinality(RunningConns) \in Nat
<1>1. IsFiniteSet(Conns)
  BY FS_Interval, LinkAssumption DEF Conns, LinkAssumption
<1>2. RunningConns \in SUBSET Conns
  BY DEF RunningConns
<1> QED  BY <1>1, <1>2, FS_Subset, FS_CardinalityType

-----------------------------------------------------------------------------
(* The steps, told apart by what they do to handlers and counters.         *)

CountsSame == UNCHANGED <<activeConns, wg, chClosed>>
AcceptSame == UNCHANGED <<acceptLoop, accepted>>

\* What a handler's own step does (server.go:128-192): it moves between its
\* places, and only the last deferred calls take it out of the running ones.
LEMMA HandlerEffect ==
    ASSUME ServerTypeOK, NEW c \in Conns, HandlerStep(c)
    PROVE  /\ handler[c] \in Running
           /\ \E p \in Running \cup {"closed"} :
                 /\ handler' = [handler EXCEPT ![c] = p]
                 /\ p \in Running => CountsSame
                 /\ p = "closed" => /\ activeConns' = activeConns - 1
                                   /\ wg' = wg - 1
                                   /\ chClosed' = chClosed
           /\ AcceptSame
           /\ dialled' = dialled
BY DEF HandlerStep, LoopTop, ScanHeartbeat, ScanSignal, ScanEnds, ScanTimeout,
       WriteAck, AckFails, Forward, ForwardCancelled, HandlerEnds, HandlerTo,
       SharedUnchanged, TakeUp, WriteDown, linkVars, Running, CountsSame, AcceptSame

\* What the expert advisor's step does to the server: it dials at most one
\* new connection (BridgeClient.mqh:98-139).
LEMMA SenderEffect ==
    ASSUME ServerTypeOK, SenderStep
    PROVE  /\ CountsSame /\ AcceptSame
           /\ \/ handler' = handler /\ dialled' = dialled
              \/ /\ dialled < MaxDials /\ dialled' = dialled + 1
                 /\ handler' = [handler EXCEPT ![dialled + 1] = "backlog"]
<1>1. CASE TryReconnect \/ Reload
  BY <1>1 DEF TryReconnect, Reload, Connect, DialUp, DialFails, serverVars,
              CountsSame, AcceptSame
<1>2. CASE OnTimerHeartbeat \/ OnTickSignal
  BY <1>2 DEF OnTimerHeartbeat, OnTickSignal, SendGoes, SendBreaks, WriteUp,
              serverVars, linkVars, CountsSame, AcceptSame
<1>3. CASE ReceiveReply \/ ReceiveTimeout \/ ReceiveError
  BY <1>3 DEF ReceiveReply, ReceiveTimeout, ReceiveError, serverVars, linkVars,
              CountsSame, AcceptSame
<1> QED  BY <1>1, <1>2, <1>3 DEF SenderStep
-----------------------------------------------------------------------------
(* Types and places, one lemma per actor.                                  *)

\* A sequence over a set is one over every larger set.
LEMMA SeqMonotone ==
    ASSUME NEW S, NEW T, S \subseteq T, NEW q \in Seq(S)
    PROVE  q \in Seq(T)
OBVIOUS

TypedAndPlaced == IntakeTypeOK /\ PlacesOK

\* The start of the server.
LEMMA InitTyped == Init => TypedAndPlaced
<1> SUFFICES ASSUME Init PROVE TypedAndPlaced
  OBVIOUS
<1> USE DEF Init, LinkInit, ServerInit, SenderInit
<1>1. LinkTypeOK
  <2>1. <<>> \in Seq({Heartbeat})
    OBVIOUS
  <2>2. offered \cup {Heartbeat} = {Heartbeat}
    OBVIOUS
  <2>3. up \in [Conns -> Seq(offered \cup {Heartbeat})] /\ \A c \in Conns : up[c] = <<>>
    BY <2>1, <2>2
  <2>4. down \in [Conns -> Nat]
    OBVIOUS
  <2>5. \A c \in Conns : Len(up[c]) <= MaxLines
    BY <2>3, LinkAssumption DEF LinkAssumption
  <2>6. dialled \in 0 .. MaxDials /\ clientOpen \subseteq 1 .. dialled /\ cut \subseteq 1 .. dialled
    BY LinkAssumption DEF LinkAssumption
  <2> QED  BY <2>3, <2>4, <2>5, <2>6 DEF LinkTypeOK
<1>2. ServerTypeOK
  <2>1. /\ handler \in [Conns -> Running \cup {"none", "backlog", "accepted", "closed"}]
        /\ inHand \in [Conns -> offered \cup {Heartbeat}]
    OBVIOUS
  <2>2. /\ accepted \in 0 .. MaxDials
        /\ activeConns \in 0 .. MaxConnections
        /\ wg \in 0 .. MaxConnections + 1
    BY LinkAssumption, ServerAssumption DEF LinkAssumption, ServerAssumption
  <2>3. signalCh \in Seq(offered) /\ Len(signalCh) <= SignalChCap
    BY ServerAssumption DEF ServerAssumption
  <2>4. /\ listening \in BOOLEAN /\ chClosed \in BOOLEAN /\ ctxDone \in BOOLEAN
        /\ acceptLoop \in {"accept", "admit", "ended"}
        /\ acked \subseteq offered
    OBVIOUS
  <2> QED  BY <2>1, <2>2, <2>3, <2>4 DEF ServerTypeOK
<1>3. SenderTypeOK
  <2>1. socket \in 0 .. dialled /\ m_signalSeq \in 0 .. MaxSeq /\ life \in 1 .. MaxLives
    BY SenderAssumption DEF SenderAssumption
  <2>2. /\ m_connected \in BOOLEAN /\ awaiting \in BOOLEAN
        /\ m_connected => socket # 0
        /\ awaiting => m_connected
        /\ offered \subseteq Signals
    OBVIOUS
  <2> QED  BY <2>1, <2>2 DEF SenderTypeOK
<1>4. PlacesOK
  BY DEF PlacesOK
<1> QED  BY <1>1, <1>2, <1>3, <1>4 DEF TypedAndPlaced, IntakeTypeOK

\* Parts of the state a step does not touch keep their types.
LEMMA LinkFrame ==
    ASSUME LinkTypeOK, UNCHANGED <<linkVars, offered>>
    PROVE  LinkTypeOK'
BY DEF LinkTypeOK, linkVars, Conns

\* The advisor keeps its types in steps that are not its own.
LEMMA SenderFrame ==
    ASSUME SenderTypeOK, UNCHANGED senderVars, dialled' \in Nat, dialled' >= dialled, dialled \in Nat
    PROVE  SenderTypeOK'
BY DEF SenderTypeOK, senderVars, Signals

\* Main's steps: it takes from the channel, and Stop closes the backlog.
LEMMA MainTyped ==
    ASSUME TypedAndPlaced, MainStep \/ Cancel
    PROVE  TypedAndPlaced'
<1>0. /\ LinkTypeOK /\ ServerTypeOK /\ SenderTypeOK /\ PlacesOK
      /\ taken \in Seq(offered)
  BY DEF TypedAndPlaced, IntakeTypeOK
<1>1. UNCHANGED <<linkVars, senderVars, acceptLoop, accepted, inHand, activeConns, wg, acked>>
  BY DEF MainStep, Cancel, TakeSignal, FinishSignal, StopListening, StopEnds,
         CloseListener, CloseSignalCh, serverVars
<1>2. LinkTypeOK' /\ SenderTypeOK'
  <2>1. dialled \in Nat /\ dialled' = dialled /\ offered' = offered
    BY <1>0, <1>1, LinkAssumption DEF LinkTypeOK, LinkAssumption, linkVars, senderVars
  <2> QED  BY <1>0, <1>1, <2>1, LinkFrame, SenderFrame
<1>3. CASE TakeSignal
  <2>1. /\ signalCh' \in Seq(offered) /\ Len(signalCh') <= SignalChCap
        /\ taken' \in Seq(offered)
    BY <1>0, <1>3, ServerAssumption DEF TakeSignal, ServerTypeOK, ServerAssumption
  <2>2. UNCHANGED <<offered, dialled>>
    BY <1>1 DEF senderVars, linkVars
  <2>3. ServerTypeOK'
    BY <1>0, <1>3, <2>1, <2>2 DEF TakeSignal, ServerTypeOK, Conns, Running
  <2>4. PlacesOK'
    BY <1>0, <1>3, <2>2 DEF TakeSignal, PlacesOK, Conns
  <2> QED  BY <1>2, <1>3, <2>1, <2>2, <2>3, <2>4
           DEF TypedAndPlaced, IntakeTypeOK, TakeSignal
<1>4. CASE ~TakeSignal
  <2>1. /\ UNCHANGED <<signalCh, taken, offered, dialled>>
        /\ mainPc' \in {"loop", "busy", "cancelled", "waiting", "stopped"}
        /\ listening' \in BOOLEAN /\ chClosed' \in BOOLEAN /\ ctxDone' \in BOOLEAN
        /\ \/ handler' = handler
           \/ handler' = [c \in Conns |-> IF handler[c] = "backlog" THEN "closed" ELSE handler[c]]
    BY <1>0, <1>1, <1>4
       DEF MainStep, Cancel, FinishSignal, StopListening, StopEnds, CloseListener,
           CloseSignalCh, serverVars, senderVars, linkVars, ServerTypeOK
  <2>2. ServerTypeOK'
    BY <1>0, <1>1, <2>1 DEF ServerTypeOK, Conns, Running
  <2>3. PlacesOK'
    BY <1>0, <1>1, <2>1 DEF PlacesOK, ServerTypeOK, Conns
  <2> QED  BY <1>0, <1>2, <2>1, <2>2, <2>3 DEF TypedAndPlaced, IntakeTypeOK
<1> QED  BY <1>3, <1>4
-----------------------------------------------------------------------------
(* The counters.                                                           *)

Counted ==
    /\ CountsOK
    /\ activeConns \in 0 .. MaxConnections
    /\ wg \in 0 .. MaxConnections + 1

\* Steps that start and end no goroutine.
LEMMA SameCounted ==
    ASSUME IntakeInv, CountsSame,
           acceptLoop' = "ended" <=> acceptLoop = "ended",
           \A c \in Conns : handler'[c] \in Running <=> handler[c] \in Running
    PROVE  Counted'
<1>1. RunningConns' = RunningConns
  BY RunningSame DEF IntakeInv, IntakeTypeOK
<1>2. PlacesAreHandlers'
  BY <1>1 DEF IntakeInv, CountsOK, CountsSame, PlacesAreHandlers, RunningConns
<1> QED  BY <1>2 DEF IntakeInv, IntakeTypeOK, ServerTypeOK, CountsOK, CountsSame, Counted

\* A handler that ends gives its place back, whichever way it ended.
LEMMA HandlerCounted ==
    ASSUME IntakeInv, NEW c \in Conns, HandlerStep(c)
    PROVE  Counted'
<1>0. ServerTypeOK /\ CountsOK
  BY DEF IntakeInv, IntakeTypeOK
<1>1. PICK p \in Running \cup {"closed"} :
        /\ handler[c] \in Running
        /\ handler' = [handler EXCEPT ![c] = p]
        /\ p \in Running => CountsSame
        /\ p = "closed" => activeConns' = activeConns - 1 /\ wg' = wg - 1 /\ chClosed' = chClosed
        /\ AcceptSame
  BY <1>0, HandlerEffect
<1>2. CASE p \in Running
  <2>1. \A d \in Conns : handler'[d] \in Running <=> handler[d] \in Running
    BY <1>0, <1>1, <1>2 DEF ServerTypeOK
  <2> QED  BY <1>1, <1>2, <2>1, SameCounted DEF AcceptSame
<1>3. CASE p = "closed"
  <2>1. RunningConns' = RunningConns \ {c} /\ c \in RunningConns
    BY <1>0, <1>1, <1>3, RunningRemove DEF Running
  <2>2. Cardinality(RunningConns') = Cardinality(RunningConns) - 1
    BY <2>1, RunningFinite, FS_RemoveElement
  <2>3. PlacesAreHandlers'
    BY <1>0, <1>1, <1>3, <2>2 DEF CountsOK, PlacesAreHandlers, RunningConns
  <2>4. Cardinality(RunningConns) # 0
    BY <2>1, RunningFinite, FS_EmptySet
  <2>5. activeConns = Cardinality(RunningConns) /\ activeConns \in Nat
    BY <1>0, ServerAssumption DEF CountsOK, PlacesAreHandlers, RunningConns, ServerTypeOK
  <2>6. activeConns > 0
    BY <2>4, <2>5
  <2>7. wg # 0 /\ wg' = activeConns' + (IF acceptLoop' = "ended" THEN 0 ELSE 1)
    BY <1>0, <1>1, <1>3, <2>5, <2>6 DEF CountsOK, AcceptSame
  <2>8. activeConns' \in 0 .. MaxConnections /\ wg' \in 0 .. MaxConnections + 1
    BY <1>0, <1>1, <1>3, <2>6, <2>7, ServerAssumption DEF ServerTypeOK, ServerAssumption
  <2>9. ~chClosed'
    BY <1>0, <1>1, <1>3, <2>7 DEF CountsOK
  <2> QED  BY <2>3, <2>7, <2>8, <2>9 DEF Counted, CountsOK
<1> QED  BY <1>1, <1>2, <1>3

\* Admit counts one up below the limit; the end of the accept loop one down.
LEMMA AcceptCounted ==
    ASSUME IntakeInv, AcceptLoopStep
    PROVE  Counted'
<1>0. ServerTypeOK /\ CountsOK /\ PlacesOK
  BY DEF IntakeInv, IntakeTypeOK
<1>1. CASE \E c \in Conns : Accept(c)
  <2>1. CountsSame /\ acceptLoop # "ended" /\ acceptLoop' # "ended"
    BY <1>1 DEF Accept, CountsSame
  <2>2. \A c \in Conns : handler'[c] \in Running <=> handler[c] \in Running
    BY <1>0, <1>1 DEF Accept, ServerTypeOK, Running
  <2> QED  BY <2>1, <2>2, SameCounted
<1>2. CASE Reject
  <2>1. CountsSame /\ acceptLoop # "ended" /\ acceptLoop' # "ended"
    BY <1>2 DEF Reject, CountsSame
  <2>2. \A c \in Conns : handler'[c] \in Running <=> handler[c] \in Running
    BY <1>0, <1>2 DEF Reject, ServerTypeOK, PlacesOK, Running
  <2> QED  BY <2>1, <2>2, SameCounted
<1>3. CASE Admit
  <2>1. RunningConns' = RunningConns \cup {accepted} /\ accepted \notin RunningConns
    BY <1>0, <1>3, RunningAdd DEF Admit, PlacesOK, Running
  <2>2. Cardinality(RunningConns') = Cardinality(RunningConns) + 1
    BY <2>1, RunningFinite, FS_AddElement
  <2>3. PlacesAreHandlers'
    BY <1>0, <1>3, <2>2 DEF Admit, CountsOK, PlacesAreHandlers, RunningConns
  <2>4. /\ activeConns' \in 0 .. MaxConnections
        /\ wg' = activeConns' + 1 /\ wg' \in 0 .. MaxConnections + 1
        /\ wg # 0
    BY <1>0, <1>3, ServerAssumption
       DEF Admit, Full, ServerTypeOK, ServerAssumption, CountsOK
  <2>5. ~chClosed' /\ acceptLoop' # "ended"
    BY <1>0, <1>3, <2>4 DEF Admit, CountsOK
  <2> QED  BY <2>3, <2>4, <2>5 DEF Counted, CountsOK
<1>4. CASE AcceptLoopEnds
  <2>1. UNCHANGED <<handler, activeConns, chClosed>>
    BY <1>4 DEF AcceptLoopEnds
  <2>2. PlacesAreHandlers'
    BY <1>0, <2>1 DEF CountsOK, PlacesAreHandlers
  <2>3. wg' = activeConns' /\ wg # 0 /\ wg' \in 0 .. MaxConnections + 1
    BY <1>0, <1>4, ServerAssumption
       DEF AcceptLoopEnds, ServerTypeOK, ServerAssumption, CountsOK
  <2>4. acceptLoop' = "ended" /\ ~chClosed'
    BY <1>0, <1>4, <2>3 DEF AcceptLoopEnds, CountsOK
  <2> QED  BY <1>0, <2>1, <2>2, <2>3, <2>4 DEF Counted, CountsOK, ServerTypeOK
<1> QED  BY <1>1, <1>2, <1>3, <1>4 DEF AcceptLoopStep

\* Main's steps end no handler: Stop closes the channel when the group is at
\* zero, and closing the listener drops connections no handler has.
LEMMA MainCounted ==
    ASSUME IntakeInv, MainStep \/ Cancel
    PROVE  Counted'
<1>0. ServerTypeOK /\ CountsOK
  BY DEF IntakeInv, IntakeTypeOK
<1>1. CASE StopEnds
  <2>1. UNCHANGED <<handler, activeConns, wg, acceptLoop>> /\ wg = 0
    BY <1>1 DEF StopEnds, CloseSignalCh
  <2>2. PlacesAreHandlers'
    BY <1>0, <2>1 DEF CountsOK, PlacesAreHandlers
  <2> QED  BY <1>0, <2>1, <2>2 DEF Counted, CountsOK, ServerTypeOK
<1>2. CASE ~StopEnds
  <2>1. CountsSame /\ acceptLoop' = acceptLoop
    BY <1>2 DEF MainStep, Cancel, TakeSignal, FinishSignal, StopListening,
                CloseListener, serverVars, CountsSame
  <2>2. \/ handler' = handler
        \/ handler' = [c \in Conns |-> IF handler[c] = "backlog" THEN "closed" ELSE handler[c]]
    BY <1>2 DEF MainStep, Cancel, TakeSignal, FinishSignal, StopListening,
                CloseListener, serverVars
  <2>3. \A c \in Conns : handler'[c] \in Running <=> handler[c] \in Running
    BY <2>2 DEF Running
  <2> QED  BY <2>1, <2>3, SameCounted
<1> QED  BY <1>1, <1>2

\* The counters, over all steps.
LEMMA StepCounted ==
    ASSUME IntakeInv, [Next]_intakeVars
    PROVE  Counted'
<1>0. ServerTypeOK /\ PlacesOK /\ LinkTypeOK
  BY DEF IntakeInv, IntakeTypeOK
<1>1. CASE MainStep \/ Cancel
  BY <1>1, MainCounted
<1>2. CASE ServerStep
  BY <1>2, AcceptCounted, HandlerCounted DEF ServerStep
<1>3. CASE SenderStep
  <2>1. CountsSame /\ AcceptSame
    BY <1>0, <1>3, SenderEffect
  <2>2. dialled \in Nat
    BY <1>0 DEF LinkTypeOK
  <2>3. \A c \in Conns : handler'[c] \in Running <=> handler[c] \in Running
    <3>1. CASE handler' = handler
      BY <3>1
    <3>2. CASE handler' = [handler EXCEPT ![dialled + 1] = "backlog"] /\ dialled < MaxDials
      <4>1. dialled + 1 \in Conns /\ dialled + 1 > dialled
        BY <2>2, <3>2, LinkAssumption DEF LinkAssumption, Conns
      <4>2. handler[dialled + 1] = "none"
        BY <1>0, <4>1 DEF PlacesOK
      <4> QED  BY <1>0, <3>2, <4>1, <4>2 DEF ServerTypeOK, Running
    <3> QED  BY <1>0, <1>3, <3>1, <3>2, SenderEffect
  <2> QED  BY <2>1, <2>3, SameCounted DEF AcceptSame
<1>4. CASE NetworkCut \/ UNCHANGED intakeVars
  BY <1>4, SameCounted DEF NetworkCut, intakeVars, serverVars, CountsSame
<1> QED  BY <1>1, <1>2, <1>3, <1>4 DEF Next

-----------------------------------------------------------------------------
(* Types and places of the other steps, with the counters from above.      *)

CoreVars == <<linkVars, senderVars, mainPc, taken>>

\* Parts of the state the accept loop does not touch.
LEMMA CoreFrame ==
    ASSUME TypedAndPlaced, UNCHANGED CoreVars
    PROVE  /\ LinkTypeOK' /\ SenderTypeOK'
           /\ mainPc' \in {"loop", "busy", "cancelled", "waiting", "stopped"}
           /\ taken' \in Seq(offered')
<1>1. LinkTypeOK /\ SenderTypeOK /\ UNCHANGED <<linkVars, offered, senderVars, dialled>>
  BY DEF TypedAndPlaced, IntakeTypeOK, CoreVars, senderVars, linkVars
<1>2. dialled \in Nat
  BY <1>1, LinkAssumption DEF LinkTypeOK, LinkAssumption
<1> QED  BY <1>1, <1>2, LinkFrame, SenderFrame DEF TypedAndPlaced, IntakeTypeOK, CoreVars

\* The accept loop touches the place of one connection, which it holds alone.
LEMMA AcceptTyped ==
    ASSUME IntakeInv, AcceptLoopStep, UNCHANGED <<senderVars, mainPc, taken>>
    PROVE  TypedAndPlaced'
<1>0. ServerTypeOK /\ PlacesOK /\ TypedAndPlaced
  BY DEF IntakeInv, IntakeTypeOK, TypedAndPlaced
<1>1. Counted'
  BY AcceptCounted
<1>2. /\ UNCHANGED <<linkVars, inHand, signalCh, acked, listening, chClosed, ctxDone>>
      /\ UNCHANGED <<dialled, offered>>
      /\ UNCHANGED CoreVars
  BY DEF AcceptLoopStep, Accept, Reject, Admit, AcceptLoopEnds, linkVars, senderVars, CoreVars
<1>3. /\ acceptLoop' \in {"accept", "admit", "ended"}
      /\ accepted' \in 0 .. MaxDials
      /\ handler' \in [Conns -> Running \cup {"none", "backlog", "accepted", "closed"}]
  BY <1>0, LinkAssumption
     DEF AcceptLoopStep, Accept, Reject, Admit, AcceptLoopEnds, ServerTypeOK, Running,
         Conns, LinkAssumption
<1>4. ServerTypeOK'
  BY <1>0, <1>1, <1>2, <1>3 DEF ServerTypeOK, Counted
<1>5. PlacesOK'
  BY <1>0, <1>2 DEF AcceptLoopStep, Accept, Reject, Admit, AcceptLoopEnds, PlacesOK,
                    ServerTypeOK, Running
<1> QED  BY <1>0, <1>2, <1>4, <1>5, CoreFrame DEF TypedAndPlaced, IntakeTypeOK

\* A connection that is cut loses its lines and nothing else.
LEMMA NetworkTyped ==
    ASSUME IntakeInv, NetworkCut \/ UNCHANGED intakeVars
    PROVE  TypedAndPlaced'
<1>0. /\ ServerTypeOK /\ PlacesOK /\ LinkTypeOK /\ SenderTypeOK
      /\ taken \in Seq(offered)
      /\ mainPc \in {"loop", "busy", "cancelled", "waiting", "stopped"}
  BY DEF IntakeInv, IntakeTypeOK
<1>1. UNCHANGED <<serverVars, senderVars, mainPc, taken, dialled, clientOpen, offered>>
  BY DEF NetworkCut, Cut, intakeVars, linkVars, senderVars
<1>2. LinkTypeOK'
  <2>1. CASE NetworkCut
    <3>1. PICK c \in 1 .. dialled : c \in Conns /\ Cut(c)
      BY <2>1 DEF NetworkCut, Cut
    <3>2. <<>> \in Seq(offered \cup {Heartbeat}) /\ Len(<<>>) <= MaxLines
      BY LinkAssumption DEF LinkAssumption
    <3>3. up' \in [Conns -> Seq(offered \cup {Heartbeat})]
      BY <1>0, <3>1, <3>2 DEF Cut, LinkTypeOK
    <3>4. \A d \in Conns : Len(up'[d]) <= MaxLines
      BY <1>0, <3>1, <3>2 DEF Cut, LinkTypeOK
    <3>5. down' \in [Conns -> Nat]
      BY <1>0, <3>1 DEF Cut, LinkTypeOK
    <3>6. cut' \subseteq 1 .. dialled
      BY <1>0, <3>1 DEF Cut, LinkTypeOK
    <3> QED  BY <1>0, <1>1, <3>3, <3>4, <3>5, <3>6 DEF LinkTypeOK
  <2>2. CASE UNCHANGED intakeVars
    BY <1>0, <2>2, LinkFrame DEF intakeVars, senderVars
  <2> QED  BY <2>1, <2>2
<1>3. ServerTypeOK' /\ PlacesOK'
  BY <1>0, <1>1 DEF ServerTypeOK, PlacesOK, serverVars
<1>4. SenderTypeOK'
  BY <1>0, <1>1, SenderFrame, LinkAssumption DEF LinkTypeOK, LinkAssumption
<1> QED  BY <1>0, <1>1, <1>2, <1>3, <1>4 DEF TypedAndPlaced, IntakeTypeOK

\* What a handler's step does to the link and to the signals: it takes at most
\* one line from its own connection and writes at most one reply to it.
LEMMA HandlerData ==
    ASSUME LinkTypeOK, ServerTypeOK, PlacesOK, NEW c \in Conns, HandlerStep(c)
    PROVE  /\ UNCHANGED <<dialled, clientOpen, cut>>
           /\ \/ up' = up
              \/ up[c] # <<>> /\ up' = [up EXCEPT ![c] = Tail(@)]
           /\ down' = down \/ down' = [down EXCEPT ![c] = @ + 1]
           /\ UNCHANGED <<listening, chClosed, ctxDone>>
           /\ \/ inHand' = inHand /\ (handler'[c] \in {"acking", "forwarding"} => handler[c] = "acking")
              \/ /\ up[c] # <<>> /\ Head(up[c]) # Heartbeat
                 /\ inHand' = [inHand EXCEPT ![c] = Head(up[c])]
           /\ signalCh' = signalCh \/ /\ Len(signalCh) < SignalChCap
                                      /\ signalCh' = Append(signalCh, inHand[c])
                                      /\ handler[c] = "forwarding"
           /\ acked' = acked \/ (acked' = acked \cup {inHand[c]} /\ handler[c] = "acking")
BY DEF HandlerStep, LoopTop, ScanHeartbeat, ScanSignal, ScanEnds, ScanTimeout,
       WriteAck, AckFails, Forward, ForwardCancelled, HandlerEnds, HandlerTo,
       SharedUnchanged, TakeUp, WriteDown, linkVars, ServerTypeOK, Running

\* A handler's step: a line becomes the signal in hand, then in the channel.
LEMMA HandlerTyped ==
    ASSUME IntakeInv, NEW c \in Conns, HandlerStep(c), UNCHANGED <<senderVars, mainPc, taken>>
    PROVE  TypedAndPlaced'
<1>0. /\ ServerTypeOK /\ PlacesOK /\ LinkTypeOK /\ SenderTypeOK
      /\ taken \in Seq(offered)
      /\ mainPc \in {"loop", "busy", "cancelled", "waiting", "stopped"}
  BY DEF IntakeInv, IntakeTypeOK
<1>1. Counted'
  BY HandlerCounted
<1>2. PICK p \in Running \cup {"closed"} :
        handler[c] \in Running /\ handler' = [handler EXCEPT ![c] = p] /\ AcceptSame
  BY <1>0, HandlerEffect
<1>3. /\ UNCHANGED <<dialled, clientOpen, cut>>
      /\ UNCHANGED <<listening, chClosed, ctxDone>>
      /\ offered' = offered
  BY <1>0, HandlerData DEF senderVars
<1>4. LinkTypeOK'
  <2>1. /\ up' \in [Conns -> Seq(offered \cup {Heartbeat})]
        /\ \A d \in Conns : Len(up'[d]) <= MaxLines
    <3>1. CASE up' = up
      BY <1>0, <3>1 DEF LinkTypeOK
    <3>2. CASE up[c] # <<>> /\ up' = [up EXCEPT ![c] = Tail(@)]
      <4>1. up[c] \in Seq(offered \cup {Heartbeat})
        BY <1>0 DEF LinkTypeOK
      <4>2. Tail(up[c]) \in Seq(offered \cup {Heartbeat}) /\ Len(Tail(up[c])) = Len(up[c]) - 1
            /\ Len(up[c]) \in Nat
        BY <3>2, <4>1
      <4>3. Len(Tail(up[c])) <= MaxLines
        BY <1>0, <4>2, LinkAssumption DEF LinkTypeOK, LinkAssumption
      <4> QED  BY <1>0, <3>2, <4>2, <4>3 DEF LinkTypeOK
    <3> QED  BY <1>0, <3>1, <3>2, HandlerData
  <2>2. down' \in [Conns -> Nat]
    BY <1>0, HandlerData DEF LinkTypeOK
  <2> QED  BY <1>0, <1>3, <2>1, <2>2 DEF LinkTypeOK
<1>5. SenderTypeOK'
  BY <1>0, <1>3, SenderFrame, LinkAssumption DEF LinkTypeOK, LinkAssumption
<1>6. /\ inHand' \in [Conns -> offered \cup {Heartbeat}]
      /\ handler'[c] \in {"acking", "forwarding"} => inHand'[c] \in offered
      /\ \A d \in Conns \ {c} : inHand'[d] = inHand[d] /\ handler'[d] = handler[d]
  <2>0. \A d \in Conns \ {c} : handler'[d] = handler[d]
    BY <1>0, <1>2 DEF ServerTypeOK
  <2>1. CASE inHand' = inHand /\ (handler'[c] \in {"acking", "forwarding"} => handler[c] = "acking")
    BY <1>0, <2>0, <2>1 DEF ServerTypeOK, PlacesOK
  <2>2. CASE /\ up[c] # <<>> /\ Head(up[c]) # Heartbeat
             /\ inHand' = [inHand EXCEPT ![c] = Head(up[c])]
    <3>1. up[c] \in Seq(offered \cup {Heartbeat})
      BY <1>0 DEF LinkTypeOK
    <3>2. Head(up[c]) \in offered
      BY <2>2, <3>1
    <3> QED  BY <1>0, <2>0, <2>2, <3>2 DEF ServerTypeOK
  <2> QED  BY <1>0, <2>1, <2>2, HandlerData
<1>7. signalCh' \in Seq(offered) /\ Len(signalCh') <= SignalChCap
  <2>1. CASE signalCh' = signalCh
    BY <1>0, <2>1 DEF ServerTypeOK
  <2>2. CASE /\ Len(signalCh) < SignalChCap /\ signalCh' = Append(signalCh, inHand[c])
             /\ handler[c] = "forwarding"
    <3>1. inHand[c] \in offered /\ signalCh \in Seq(offered)
      BY <1>0, <2>2 DEF ServerTypeOK, PlacesOK
    <3> QED  BY <2>2, <3>1, ServerAssumption DEF ServerAssumption
  <2> QED  BY <1>0, <2>1, <2>2, HandlerData
<1>8. acked' \subseteq offered
  BY <1>0, HandlerData DEF ServerTypeOK, PlacesOK
<1>9. handler' \in [Conns -> Running \cup {"none", "backlog", "accepted", "closed"}]
  BY <1>0, <1>2 DEF ServerTypeOK
<1>10. ServerTypeOK'
  BY <1>0, <1>1, <1>2, <1>3, <1>6, <1>7, <1>8, <1>9 DEF ServerTypeOK, Counted, AcceptSame
<1>11. PlacesOK'
  <2>1. \A d \in Conns : d > dialled => handler'[d] = "none"
    BY <1>0, <1>2 DEF PlacesOK, ServerTypeOK, Running
  <2>2. acceptLoop' = "admit" => accepted' \in Conns /\ handler'[accepted'] = "accepted"
    BY <1>0, <1>2 DEF PlacesOK, ServerTypeOK, Running, AcceptSame
  <2>3. \A d \in Conns : handler'[d] \in {"acking", "forwarding"} => inHand'[d] \in offered
    BY <1>0, <1>6 DEF PlacesOK
  <2> QED  BY <1>3, <2>1, <2>2, <2>3 DEF PlacesOK
<1> QED  BY <1>0, <1>3, <1>4, <1>5, <1>10, <1>11 DEF TypedAndPlaced, IntakeTypeOK

-----------------------------------------------------------------------------
(* The expert advisor.                                                     *)

\* Signals already offered, wherever they are, stay signals that were offered.
LEMMA OfferedGrows ==
    ASSUME IntakeInv, offered \subseteq offered',
           UNCHANGED <<inHand, signalCh, acked, taken>>
    PROVE  /\ inHand' \in [Conns -> offered' \cup {Heartbeat}]
           /\ signalCh' \in Seq(offered') /\ taken' \in Seq(offered')
           /\ acked' \subseteq offered'
           /\ \A c \in Conns : up[c] \in Seq(offered' \cup {Heartbeat})
<1>1. \A c \in Conns : up[c] \in Seq(offered' \cup {Heartbeat})
  <2> TAKE c \in Conns
  <2>1. up[c] \in Seq(offered \cup {Heartbeat})
    BY DEF IntakeInv, IntakeTypeOK, LinkTypeOK
  <2> QED  BY <2>1, SeqMonotone
<1>2. signalCh \in Seq(offered) /\ taken \in Seq(offered)
  BY DEF IntakeInv, IntakeTypeOK, ServerTypeOK
<1>3. signalCh \in Seq(offered') /\ taken \in Seq(offered')
  BY <1>2, SeqMonotone
<1>4. inHand \in [Conns -> offered' \cup {Heartbeat}] /\ acked \subseteq offered'
  BY DEF IntakeInv, IntakeTypeOK, ServerTypeOK
<1> QED  BY <1>1, <1>3, <1>4

\* What the advisor's steps do to its own end of the link.
SenderEnd ==
    /\ dialled' \in 0 .. MaxDials /\ dialled' >= dialled
    /\ clientOpen' \subseteq 1 .. dialled' /\ cut' = cut
    /\ \/ up' = up
       \/ \E line \in offered' \cup {Heartbeat} :
              Len(up[socket]) < MaxLines /\ up' = [up EXCEPT ![socket] = Append(@, line)]
    /\ down' \in [Conns -> Nat]
    /\ UNCHANGED <<inHand, signalCh, acked, listening, chClosed, ctxDone>>

\* Steps that at most write one line.
LEMMA WriteEnd ==
    ASSUME LinkTypeOK, NEW line \in offered' \cup {Heartbeat},
           UNCHANGED <<dialled, clientOpen, cut, down, serverVars>>,
           \/ up' = up
           \/ Len(up[socket]) < MaxLines /\ up' = [up EXCEPT ![socket] = Append(@, line)]
    PROVE  SenderEnd
<1>1. dialled' \in 0 .. MaxDials /\ dialled' >= dialled
  BY LinkAssumption DEF LinkTypeOK, LinkAssumption
<1>2. clientOpen' \subseteq 1 .. dialled' /\ cut' = cut /\ down' \in [Conns -> Nat]
  BY DEF LinkTypeOK
<1>3. UNCHANGED <<inHand, signalCh, acked, listening, chClosed, ctxDone>>
  BY DEF serverVars
<1> QED  BY <1>1, <1>2, <1>3 DEF SenderEnd

\* Connect leaves the advisor with the new connection or with none.
LEMMA ConnectTyped ==
    ASSUME LinkTypeOK, SenderTypeOK, Connect, offered' = offered
    PROVE  /\ SenderEnd
           /\ socket' \in 0 .. dialled' /\ m_connected' \in BOOLEAN
           /\ m_connected' => socket' # 0
<1>0. dialled \in Nat /\ dialled <= MaxDials
  BY LinkAssumption DEF LinkTypeOK, LinkAssumption
<1>1. CASE DialUp
  <2>1. dialled' = dialled + 1 /\ dialled' \in 0 .. MaxDials /\ dialled' >= dialled
    BY <1>0, <1>1, LinkAssumption DEF DialUp, LinkAssumption
  <2>2. clientOpen' \subseteq 1 .. dialled'
    <3>1. 1 .. dialled \subseteq 1 .. dialled' /\ dialled' \in 1 .. dialled'
      BY <1>0, <2>1
    <3>2. clientOpen' = (clientOpen \ {socket}) \cup {dialled'} /\ clientOpen \subseteq 1 .. dialled
      BY <1>1 DEF DialUp, LinkTypeOK
    <3> QED  BY <3>1, <3>2
  <2>3. socket' \in 0 .. dialled' /\ socket' # 0 /\ m_connected' = TRUE
    BY <1>0, <1>1, <2>1 DEF DialUp
  <2> QED  BY <1>1, <2>1, <2>2, <2>3 DEF DialUp, SenderEnd, LinkTypeOK
<1>2. CASE DialFails
  <2>1. dialled' = dialled /\ socket' = 0 /\ m_connected' = FALSE
    BY <1>2 DEF DialFails
  <2>2. clientOpen' \subseteq 1 .. dialled'
    BY <1>2, <2>1 DEF DialFails, LinkTypeOK
  <2>3. socket' \in 0 .. dialled' /\ dialled' \in 0 .. MaxDials /\ dialled' >= dialled
    BY <1>0, <2>1, LinkAssumption DEF LinkAssumption
  <2> QED  BY <1>2, <2>1, <2>2, <2>3 DEF DialFails, SenderEnd, LinkTypeOK, serverVars
<1> QED  BY <1>1, <1>2 DEF Connect

\* The advisor's own variables: at most one new number, one new signal.
LEMMA SenderOwnTyped ==
    ASSUME LinkTypeOK, ServerTypeOK, SenderTypeOK, SenderStep
    PROVE  SenderTypeOK' /\ SenderEnd /\ offered \subseteq offered'
<1>0. /\ dialled \in Nat /\ dialled <= MaxDials
      /\ m_signalSeq \in 0 .. MaxSeq /\ life \in 1 .. MaxLives
      /\ MaxSeq \in Nat /\ MaxLives \in Nat
      /\ offered \subseteq Signals /\ socket \in 0 .. dialled
  BY LinkAssumption, SenderAssumption
     DEF LinkTypeOK, SenderTypeOK, LinkAssumption, SenderAssumption
<1>1. CASE TryReconnect
  <2>1. UNCHANGED <<m_signalSeq, life, awaiting, offered>> /\ Connect /\ ~awaiting
    BY <1>1 DEF TryReconnect
  <2> QED  BY <2>1, ConnectTyped DEF SenderTypeOK, Signals
<1>2. CASE Reload
  <2>1. /\ Connect /\ ~awaiting /\ ~awaiting' /\ offered' = offered
        /\ m_signalSeq' = 0 /\ life' = life + 1 /\ life < MaxLives
    BY <1>2 DEF Reload, SenderTypeOK
  <2>2. m_signalSeq' \in 0 .. MaxSeq /\ life' \in 1 .. MaxLives
    BY <1>0, <2>1
  <2>3. awaiting' \in BOOLEAN
    BY <1>2 DEF Reload, SenderTypeOK
  <2> QED  BY <2>1, <2>2, <2>3, ConnectTyped DEF SenderTypeOK, Signals
<1>3. CASE OnTimerHeartbeat
  <2>1. /\ UNCHANGED <<dialled, clientOpen, cut, down, serverVars, socket, m_signalSeq,
                       life, awaiting, offered>>
        /\ ~awaiting /\ m_connected
        /\ m_connected' = m_connected \/ m_connected' = FALSE
        /\ \/ up' = up
           \/ Len(up[socket]) < MaxLines /\ up' = [up EXCEPT ![socket] = Append(@, Heartbeat)]
    BY <1>3 DEF OnTimerHeartbeat, SendGoes, SendBreaks, WriteUp, linkVars
  <2>2. SenderEnd
    BY <2>1, WriteEnd
  <2>3. SenderTypeOK'
    BY <2>1 DEF SenderTypeOK, Signals
  <2> QED  BY <2>1, <2>2, <2>3
<1>4. CASE OnTickSignal
  <2> DEFINE s == [seq |-> m_signalSeq', life |-> life]
  <2>1. /\ UNCHANGED <<dialled, clientOpen, cut, down, serverVars, socket, life>>
        /\ ~awaiting /\ m_connected
        /\ m_signalSeq < MaxSeq /\ m_signalSeq' = m_signalSeq + 1
        /\ \/ /\ m_connected' = m_connected /\ awaiting' = TRUE
              /\ offered' = offered \cup {s}
              /\ \/ up' = up
                 \/ Len(up[socket]) < MaxLines /\ up' = [up EXCEPT ![socket] = Append(@, s)]
           \/ m_connected' = FALSE /\ UNCHANGED <<awaiting, offered, up>>
    <3>1. CASE SendGoes(s) /\ awaiting' = TRUE /\ offered' = offered \cup {s}
      BY <1>4, <3>1 DEF OnTickSignal, SendGoes, WriteUp
    <3>2. CASE SendBreaks /\ UNCHANGED <<awaiting, offered>>
      BY <1>4, <3>2 DEF OnTickSignal, SendBreaks, linkVars
    <3> QED  BY <1>4, <3>1, <3>2 DEF OnTickSignal
  <2>2. m_signalSeq' \in 1 .. MaxSeq /\ s \in Signals
    BY <1>0, <2>1 DEF Signals
  <2>3. offered' \subseteq Signals /\ offered \subseteq offered'
    BY <1>0, <2>1, <2>2
  <2>4. SenderEnd
    <3>1. CASE offered' = offered \cup {s}
      <4>1. s \in offered' \cup {Heartbeat}
        BY <3>1
      <4> HIDE DEF s
      <4> QED  BY <2>1, <4>1, WriteEnd
    <3>2. CASE up' = up
      <4>1. Heartbeat \in offered' \cup {Heartbeat}
        OBVIOUS
      <4> HIDE DEF s
      <4> QED  BY <2>1, <3>2, <4>1, WriteEnd
    <3> QED  BY <2>1, <3>1, <3>2
  <2>5. /\ m_connected' \in BOOLEAN /\ awaiting' \in BOOLEAN
        /\ m_connected' => socket' # 0
        /\ awaiting' => m_connected'
    <3>1. /\ m_connected /\ ~awaiting /\ socket' = socket
          /\ \/ m_connected' = m_connected /\ awaiting' = TRUE
             \/ m_connected' = FALSE /\ awaiting' = awaiting
      BY <2>1
    <3>2. m_connected \in BOOLEAN /\ awaiting \in BOOLEAN /\ socket # 0
      BY <3>1 DEF SenderTypeOK
    <3>3. CASE m_connected' = m_connected /\ awaiting' = TRUE
      BY <3>1, <3>2, <3>3, Zenon
    <3>4. CASE m_connected' = FALSE /\ awaiting' = awaiting
      BY <3>1, <3>2, <3>4, Zenon
    <3> QED  BY <3>1, <3>3, <3>4, Zenon
  <2>6. socket' \in 0 .. dialled' /\ m_signalSeq' \in 0 .. MaxSeq /\ life' \in 1 .. MaxLives
    <3>1. socket' = socket /\ dialled' = dialled /\ life' = life
      BY <2>1
    <3>2. m_signalSeq' \in 1 .. MaxSeq
      BY <2>2
    <3> QED  BY <1>0, <3>1, <3>2
  <2> QED  BY <2>3, <2>4, <2>5, <2>6 DEF SenderTypeOK, Signals
<1>5. CASE ReceiveReply \/ ReceiveTimeout \/ ReceiveError
  <2>1. /\ UNCHANGED <<dialled, clientOpen, cut, up, serverVars, socket, m_signalSeq,
                       life, offered>>
        /\ awaiting' = FALSE /\ awaiting
        /\ m_connected' = m_connected \/ m_connected' = FALSE
        /\ \/ down' = down
           \/ \E n \in 0 .. down[socket] - 1 : down' = [down EXCEPT ![socket] = n]
    BY <1>5 DEF ReceiveReply, ReceiveTimeout, ReceiveError, linkVars
  <2>2. down' \in [Conns -> Nat]
    <3>1. \A n \in 0 .. down[socket] - 1 : n \in Nat
      OBVIOUS
    <3> QED  BY <2>1, <3>1 DEF LinkTypeOK
  <2>3. SenderEnd
    BY <1>0, <2>1, <2>2, LinkAssumption DEF SenderEnd, serverVars, LinkTypeOK, LinkAssumption
  <2>4. SenderTypeOK'
    BY <2>1 DEF SenderTypeOK, Signals
  <2> QED  BY <2>1, <2>3, <2>4
<1> QED  BY <1>1, <1>2, <1>3, <1>4, <1>5 DEF SenderStep

\* The whole state after a step of the advisor.
LEMMA SenderTyped ==
    ASSUME IntakeInv, SenderStep, Idle
    PROVE  TypedAndPlaced'
<1>0. /\ ServerTypeOK /\ PlacesOK /\ LinkTypeOK /\ SenderTypeOK
      /\ mainPc \in {"loop", "busy", "cancelled", "waiting", "stopped"}
      /\ mainPc' = mainPc /\ taken' = taken
  BY DEF IntakeInv, IntakeTypeOK, Idle
<1>1. SenderTypeOK' /\ SenderEnd /\ offered \subseteq offered'
  BY <1>0, SenderOwnTyped
<1>2. /\ inHand' \in [Conns -> offered' \cup {Heartbeat}]
      /\ signalCh' \in Seq(offered') /\ taken' \in Seq(offered')
      /\ acked' \subseteq offered'
      /\ \A c \in Conns : up[c] \in Seq(offered' \cup {Heartbeat})
  BY <1>0, <1>1, OfferedGrows DEF SenderEnd
<1>3. /\ CountsSame /\ AcceptSame
      /\ \/ handler' = handler /\ dialled' = dialled
         \/ /\ dialled < MaxDials /\ dialled' = dialled + 1
            /\ handler' = [handler EXCEPT ![dialled + 1] = "backlog"]
  BY <1>0, SenderEffect
<1>4. LinkTypeOK'
  <2>1. /\ up' \in [Conns -> Seq(offered' \cup {Heartbeat})]
        /\ \A c \in Conns : Len(up'[c]) <= MaxLines
    <3>1. CASE up' = up
      BY <1>0, <1>2, <3>1 DEF LinkTypeOK
    <3>2. ASSUME NEW line \in offered' \cup {Heartbeat}, Len(up[socket]) < MaxLines,
                 up' = [up EXCEPT ![socket] = Append(@, line)]
          PROVE  /\ up' \in [Conns -> Seq(offered' \cup {Heartbeat})]
                 /\ \A c \in Conns : Len(up'[c]) <= MaxLines
      <4> USE <1>0, <3>2
      <4>1. ASSUME NEW c \in Conns
            PROVE  up'[c] \in Seq(offered' \cup {Heartbeat}) /\ Len(up'[c]) <= MaxLines
        <5>1. up[c] \in Seq(offered' \cup {Heartbeat}) /\ Len(up[c]) <= MaxLines
          BY <1>2 DEF LinkTypeOK
        <5>2. CASE c = socket
          BY <5>1, <5>2, LinkAssumption DEF LinkTypeOK, LinkAssumption
        <5>3. CASE c # socket
          BY <5>1, <5>3 DEF LinkTypeOK
        <5> QED  BY <5>2, <5>3
      <4>2. up' = [c \in Conns |-> up'[c]]
        BY DEF LinkTypeOK
      <4> HIDE <3>2
      <4> QED  BY <4>1, <4>2
    <3> QED  BY <1>1, <3>1, <3>2 DEF SenderEnd
  <2>2. cut' \subseteq 1 .. dialled'
    BY <1>0, <1>1, LinkAssumption DEF SenderEnd, LinkTypeOK, LinkAssumption
  <2> QED  BY <1>1, <2>1, <2>2 DEF LinkTypeOK, SenderEnd
<1>5. handler' \in [Conns -> Running \cup {"none", "backlog", "accepted", "closed"}]
  BY <1>0, <1>3 DEF ServerTypeOK
<1>6. ServerTypeOK'
  BY <1>0, <1>1, <1>2, <1>3, <1>5 DEF ServerTypeOK, SenderEnd, CountsSame, AcceptSame
<1>7. PlacesOK'
  <2>1. dialled \in Nat /\ dialled <= MaxDials
    BY <1>0, LinkAssumption DEF LinkTypeOK, LinkAssumption
  <2>2. CASE handler' = handler /\ dialled' = dialled
    BY <1>0, <1>1, <1>3, <2>2 DEF PlacesOK, SenderEnd, AcceptSame
  <2>3. CASE /\ dialled < MaxDials /\ dialled' = dialled + 1
             /\ handler' = [handler EXCEPT ![dialled + 1] = "backlog"]
    <3>1. dialled + 1 \in Conns /\ dialled + 1 > dialled
      BY <2>1, <2>3, LinkAssumption DEF LinkAssumption, Conns
    <3>2. handler[dialled + 1] = "none"
      BY <1>0, <3>1 DEF PlacesOK
    <3>3. \A c \in Conns : c > dialled' => handler'[c] = "none"
      BY <1>0, <2>1, <2>3, <3>1 DEF PlacesOK, ServerTypeOK, Conns
    <3>4. acceptLoop' = "admit" => accepted' \in Conns /\ handler'[accepted'] = "accepted"
      BY <1>0, <1>3, <2>3, <3>1, <3>2 DEF PlacesOK, ServerTypeOK, AcceptSame
    <3>5. \A c \in Conns : handler'[c] \in {"acking", "forwarding"} => inHand'[c] \in offered'
      BY <1>0, <1>1, <2>3, <3>1 DEF PlacesOK, ServerTypeOK, SenderEnd
    <3> QED  BY <3>3, <3>4, <3>5 DEF PlacesOK
  <2> QED  BY <1>3, <2>2, <2>3
<1> QED  BY <1>0, <1>1, <1>2, <1>4, <1>6, <1>7 DEF TypedAndPlaced, IntakeTypeOK

-----------------------------------------------------------------------------
\* The invariant, over all steps.
LEMMA IntakeStep ==
    ASSUME IntakeInv, [Next]_intakeVars
    PROVE  IntakeInv'
<1>1. Counted'
  BY StepCounted
<1>2. TypedAndPlaced'
  <2>1. CASE MainStep \/ Cancel
    BY <2>1, MainTyped DEF IntakeInv, TypedAndPlaced
  <2>2. CASE ServerStep
    BY <2>2, AcceptTyped, HandlerTyped DEF ServerStep
  <2>3. CASE SenderStep /\ Idle
    BY <2>3, SenderTyped
  <2>4. CASE NetworkCut \/ UNCHANGED intakeVars
    BY <2>4, NetworkTyped
  <2> QED  BY <2>1, <2>2, <2>3, <2>4 DEF Next
<1> QED  BY <1>1, <1>2 DEF IntakeInv, Counted, TypedAndPlaced

\* Only the accept loop runs at the start.
LEMMA InitCounted == Init => CountsOK
<1> SUFFICES ASSUME Init PROVE CountsOK
  OBVIOUS
<1>1. RunningConns = {} /\ activeConns = 0 /\ wg = 1 /\ acceptLoop = "accept" /\ chClosed = FALSE
  BY DEF Init, ServerInit, RunningConns, Running
<1>2. PlacesAreHandlers
  BY <1>1, FS_EmptySet DEF PlacesAreHandlers, RunningConns
<1> QED  BY <1>1, <1>2 DEF CountsOK

\* The invariant the theorems below draw on.
LEMMA IntakeInvariant == Spec => []IntakeInv
<1>1. Init => IntakeInv
  BY InitTyped, InitCounted DEF TypedAndPlaced, IntakeInv
<1>2. IntakeInv /\ [Next]_intakeVars => IntakeInv'
  BY IntakeStep
<1> QED  BY <1>1, <1>2, PTL DEF Spec

\* Types, the limit on connections and the bound of the channel; and nothing is
\* queued, acknowledged or handed to main that the advisor did not send.
THEOREM IntakeTyped == Spec => []IntakeTypeOK
<1>1. IntakeInv => IntakeTypeOK
  BY DEF IntakeInv
<1> QED  BY <1>1, IntakeInvariant, PTL

\* The counter that main's limit is compared with is exactly the number of
\* handlers that run (server.go:111-124 and 129-130).
THEOREM PlacesCounted == Spec => []PlacesAreHandlers
<1>1. IntakeInv => PlacesAreHandlers
  BY DEF IntakeInv, CountsOK
<1> QED  BY <1>1, IntakeInvariant, PTL

\* A closed channel has no handler left that could send on it
\* (server.go:81-82 against 187).
THEOREM ClosedIsQuiet == Spec => []NoSendAfterClose
<1>1. IntakeInv => NoSendAfterClose
  <2> SUFFICES ASSUME IntakeInv, chClosed, NEW c \in Conns, c \in RunningConns
               PROVE  FALSE
    BY DEF NoSendAfterClose, RunningConns
  <2>1. wg = 0 /\ activeConns \in Nat /\ activeConns = Cardinality(RunningConns)
        /\ wg = activeConns + (IF acceptLoop = "ended" THEN 0 ELSE 1)
    BY ServerAssumption
       DEF IntakeInv, CountsOK, PlacesAreHandlers, RunningConns, IntakeTypeOK, ServerTypeOK
  <2>2. Cardinality(RunningConns) = 0
    BY <2>1
  <2> QED  BY <2>2, RunningFinite, FS_EmptySet
<1> QED  BY <1>1, IntakeInvariant, PTL

-----------------------------------------------------------------------------
(* Acknowledged signals.                                                   *)

Has(q, s) == \E i \in DOMAIN q : q[i] = s

Kept(s) ==
    \/ \E c \in Conns : handler[c] = "forwarding" /\ inHand[c] = s
    \/ Has(signalCh, s)
    \/ Has(taken, s)

\* A new element of a sequence is in it, and so is every old one.
LEMMA AppendKeeps ==
    ASSUME NEW S, NEW q \in Seq(S), NEW x \in S
    PROVE  Has(Append(q, x), x) /\ \A y : Has(q, y) => Has(Append(q, x), y)
<1>1. /\ Append(q, x) \in Seq(S) /\ Len(Append(q, x)) = Len(q) + 1 /\ Len(q) \in Nat
      /\ DOMAIN Append(q, x) = 1 .. Len(q) + 1
      /\ DOMAIN q = 1 .. Len(q)
      /\ Append(q, x)[Len(q) + 1] = x
      /\ \A i \in 1 .. Len(q) : Append(q, x)[i] = q[i]
  OBVIOUS
<1>2. Len(q) + 1 \in DOMAIN Append(q, x) /\ DOMAIN q \subseteq DOMAIN Append(q, x)
  BY <1>1
<1> QED  BY <1>1, <1>2 DEF Has

\* What leaves the front of a sequence is its head; the rest stays.
LEMMA TailKeeps ==
    ASSUME NEW S, NEW q \in Seq(S), q # <<>>, NEW y, Has(q, y)
    PROVE  y = Head(q) \/ Has(Tail(q), y)
<1>1. /\ Len(q) \in Nat \ {0} /\ DOMAIN q = 1 .. Len(q) /\ Head(q) = q[1]
      /\ Len(Tail(q)) = Len(q) - 1 /\ DOMAIN Tail(q) = 1 .. Len(q) - 1
      /\ \A i \in 1 .. Len(q) - 1 : Tail(q)[i] = q[i + 1]
  OBVIOUS
<1>2. PICK j \in 1 .. Len(q) : q[j] = y
  BY <1>1 DEF Has
<1>3. CASE j = 1
  BY <1>1, <1>2, <1>3
<1>4. CASE j # 1
  <2>1. j - 1 \in DOMAIN Tail(q) /\ Tail(q)[j - 1] = y
    BY <1>1, <1>2, <1>4
  <2> QED  BY <2>1 DEF Has
<1> QED  BY <1>3, <1>4

\* One signal moves from the handler to the channel and from there to main; no
\* step drops it unless the context is done.
LEMMA KeptStep ==
    ASSUME IntakeInv, Next, ~ctxDone', NEW s, Kept(s)
    PROVE  Kept(s)'
<1>0. /\ ServerTypeOK /\ PlacesOK /\ LinkTypeOK
      /\ signalCh \in Seq(offered) /\ taken \in Seq(offered)
  BY DEF IntakeInv, IntakeTypeOK, ServerTypeOK
<1>1. CASE TakeSignal
  <2>1. /\ signalCh # <<>> /\ signalCh' = Tail(signalCh)
        /\ taken' = Append(taken, Head(signalCh))
        /\ UNCHANGED <<handler, inHand>>
    BY <1>1 DEF TakeSignal
  <2>2. Head(signalCh) \in offered
    BY <1>0, <2>1
  <2>3. /\ Has(Append(taken, Head(signalCh)), Head(signalCh))
        /\ Has(taken, s) => Has(Append(taken, Head(signalCh)), s)
    BY <1>0, <2>2, AppendKeeps
  <2>4. Has(signalCh, s) => s = Head(signalCh) \/ Has(Tail(signalCh), s)
    BY <1>0, <2>1, TailKeeps
  <2> QED  BY <2>1, <2>3, <2>4 DEF Kept
<1>2. CASE (MainStep /\ ~TakeSignal) \/ Cancel
  <2>1. UNCHANGED <<signalCh, taken, inHand>>
    BY <1>2 DEF MainStep, Cancel, FinishSignal, StopListening, StopEnds,
                CloseListener, CloseSignalCh, serverVars
  <2>2. \A c \in Conns : handler[c] = "forwarding" => handler'[c] = "forwarding"
    BY <1>2 DEF MainStep, Cancel, FinishSignal, StopListening, StopEnds,
                CloseListener, CloseSignalCh, serverVars
  <2> QED  BY <2>1, <2>2 DEF Kept
<1>3. CASE AcceptLoopStep /\ UNCHANGED <<senderVars, mainPc, taken>>
  <2>1. UNCHANGED <<signalCh, taken, inHand>>
    BY <1>3 DEF AcceptLoopStep, Accept, Reject, Admit, AcceptLoopEnds
  <2>2. \A c \in Conns : handler[c] = "forwarding" => handler'[c] = "forwarding"
    BY <1>0, <1>3 DEF AcceptLoopStep, Accept, Reject, Admit, AcceptLoopEnds,
                      ServerTypeOK, PlacesOK
  <2> QED  BY <2>1, <2>2 DEF Kept
<1>4. ASSUME NEW c \in Conns, HandlerStep(c), UNCHANGED <<senderVars, mainPc, taken>>
      PROVE  Kept(s)'
  <2>0. taken' = taken
    BY <1>4
  <2>1. CASE Forward(c)
    <3>1. /\ signalCh' = Append(signalCh, inHand[c]) /\ inHand' = inHand
          /\ handler[c] = "forwarding" /\ handler' = [handler EXCEPT ![c] = "top"]
      BY <2>1 DEF Forward, HandlerTo
    <3>2. inHand[c] \in offered
      BY <1>0, <3>1 DEF PlacesOK
    <3>3. /\ Has(Append(signalCh, inHand[c]), inHand[c])
          /\ Has(signalCh, s) => Has(Append(signalCh, inHand[c]), s)
      BY <1>0, <3>2, AppendKeeps
    <3>4. \A d \in Conns \ {c} : handler'[d] = handler[d]
      BY <1>0, <3>1 DEF ServerTypeOK
    <3> QED  BY <2>0, <3>1, <3>3, <3>4 DEF Kept
  <2>2. CASE ~Forward(c)
    <3>1. /\ signalCh' = signalCh
          /\ \A d \in Conns : handler[d] = "forwarding" =>
                handler'[d] = "forwarding" /\ inHand'[d] = inHand[d]
      BY <1>0, <1>4, <2>2
         DEF HandlerStep, LoopTop, ScanHeartbeat, ScanSignal, ScanEnds, ScanTimeout,
             WriteAck, AckFails, ForwardCancelled, HandlerEnds, HandlerTo,
             SharedUnchanged, ServerTypeOK
    <3> QED  BY <2>0, <3>1 DEF Kept
  <2> QED  BY <2>1, <2>2
<1>5. CASE SenderStep /\ Idle
  <2>1. UNCHANGED <<signalCh, inHand, taken>>
    BY <1>0, <1>5, SenderOwnTyped DEF SenderEnd, Idle, IntakeInv, IntakeTypeOK
  <2>2. \A c \in Conns : handler[c] = "forwarding" => handler'[c] = "forwarding"
    <3>1. CASE handler' = handler
      BY <3>1
    <3>2. CASE handler' = [handler EXCEPT ![dialled + 1] = "backlog"] /\ dialled < MaxDials
      <4>1. dialled + 1 \in Conns /\ dialled + 1 > dialled
        BY <1>0, <3>2, LinkAssumption DEF LinkTypeOK, LinkAssumption, Conns
      <4>2. handler[dialled + 1] = "none"
        BY <1>0, <4>1 DEF PlacesOK
      <4> QED  BY <1>0, <3>2, <4>1, <4>2 DEF ServerTypeOK
    <3> QED  BY <1>0, <1>5, <3>1, <3>2, SenderEffect
  <2> QED  BY <2>1, <2>2 DEF Kept
<1>6. CASE NetworkCut
  BY <1>6 DEF NetworkCut, serverVars, Kept
<1> QED  BY <1>1, <1>2, <1>3, <1>4, <1>5, <1>6 DEF Next, ServerStep

\* A signal is acknowledged by the handler that holds it, so it is kept from
\* the ACK on.
LEMMA AckedStep ==
    ASSUME IntakeInv, AckedIsKept, [Next]_intakeVars
    PROVE  AckedIsKept'
<1> SUFFICES ASSUME ~ctxDone', NEW s \in acked' PROVE Kept(s)'
  BY DEF AckedIsKept, Kept, Has
<1>1. CASE UNCHANGED intakeVars
  BY <1>1 DEF intakeVars, serverVars, AckedIsKept, Kept, Has
<1>2. CASE Next
  <2>1. ~ctxDone
    BY <1>2 DEF Next, MainStep, Cancel, TakeSignal, FinishSignal, StopListening, StopEnds,
           CloseListener, CloseSignalCh, ServerStep, AcceptLoopStep, Accept, Reject, Admit,
           AcceptLoopEnds, HandlerStep, LoopTop, ScanHeartbeat, ScanSignal, ScanEnds,
           ScanTimeout, WriteAck, AckFails, Forward, ForwardCancelled, HandlerEnds,
           SharedUnchanged, NetworkCut, serverVars, SenderStep, TryReconnect, Reload,
           Connect, DialUp, DialFails, OnTimerHeartbeat, OnTickSignal, SendGoes, SendBreaks,
           ReceiveReply, ReceiveTimeout, ReceiveError
  <2>2. CASE s \in acked
    BY <1>2, <2>1, <2>2, KeptStep DEF AckedIsKept, Kept, Has
  <2>3. CASE s \notin acked
    <3>1. PICK c \in Conns : WriteAck(c)
      BY <1>2, <2>3 DEF Next, MainStep, Cancel, TakeSignal, FinishSignal, StopListening, StopEnds,
           CloseListener, CloseSignalCh, ServerStep, AcceptLoopStep, Accept, Reject, Admit,
           AcceptLoopEnds, HandlerStep, LoopTop, ScanHeartbeat, ScanSignal, ScanEnds,
           ScanTimeout, AckFails, Forward, ForwardCancelled, HandlerEnds,
           NetworkCut, serverVars, SenderStep, TryReconnect, Reload,
           Connect, DialUp, DialFails, OnTimerHeartbeat, OnTickSignal, SendGoes, SendBreaks,
           ReceiveReply, ReceiveTimeout, ReceiveError
    <3>2. s = inHand[c] /\ inHand' = inHand
      BY <2>3, <3>1 DEF WriteAck
    <3>3. handler'[c] = "forwarding"
      BY <3>1 DEF WriteAck, HandlerTo, IntakeInv, IntakeTypeOK, ServerTypeOK
    <3> QED  BY <3>2, <3>3 DEF Kept
  <2> QED  BY <2>2, <2>3
<1> QED  BY <1>1, <1>2

\* The ACK is written before the signal is queued (server.go:175 and 188), yet
\* until the shutdown no acknowledged signal is lost.
THEOREM AckedKept == Spec => []AckedIsKept
<1>1. Init => AckedIsKept
  BY DEF Init, ServerInit, AckedIsKept
<1>2. IntakeInv /\ AckedIsKept /\ [Next]_intakeVars => AckedIsKept'
  BY AckedStep
<1> QED  BY <1>1, <1>2, IntakeInvariant, PTL DEF Spec

-----------------------------------------------------------------------------
(* The refinement of SignalDelivery: a signal is in one place at a time.   *)

\* No signal is twice in a sequence; heartbeats may be.
Once(q) == \A i, j \in DOMAIN q : q[i] = q[j] /\ q[i] # Heartbeat => i = j

Holding(c) == handler[c] \in {"acking", "forwarding"}

\* The number the advisor gives out next was never sent (BridgeClient.mqh:226).
NumbersFresh ==
    \A s \in offered : s.life < life \/ (s.life = life /\ s.seq <= m_signalSeq)

\* Before its acknowledgement a signal is on one connection, once, or in the
\* hand of one handler.
BeforeAck ==
    /\ \A c \in Conns : Once(up[c])
    /\ \A c, d \in Conns : \A s \in offered : Has(up[c], s) /\ Has(up[d], s) => c = d
    /\ \A c, d \in Conns : Holding(c) /\ Holding(d) /\ inHand[c] = inHand[d] => c = d
    /\ \A s \in acked : \A c \in Conns :
          /\ ~Has(up[c], s)
          /\ handler[c] = "acking" => inHand[c] # s
    /\ \A c, d \in Conns : handler[d] = "acking" => ~Has(up[c], inHand[d])

\* After it the signal is in a hand, in the channel or with main, once.
AfterAck ==
    /\ \A c \in Conns : handler[c] = "forwarding" =>
          inHand[c] \in acked /\ ~Has(signalCh, inHand[c]) /\ ~Has(taken, inHand[c])
    /\ \A s \in offered :
          /\ Has(signalCh, s) => s \in acked /\ ~Has(taken, s)
          /\ Has(taken, s) => s \in acked
    /\ Once(signalCh)

\* Main reads the channel before it cancels the context only (main.go:160).
LoopIsOpen == mainPc \in {"loop", "busy"} => ~ctxDone

DeliveryInv == NumbersFresh /\ BeforeAck /\ AfterAck /\ LoopIsOpen

\* What a sequence has after it grew or lost its head.
LEMMA HasAppend ==
    ASSUME NEW S, NEW q \in Seq(S), NEW x \in S
    PROVE  \A y : Has(Append(q, x), y) <=> Has(q, y) \/ y = x
<1>1. /\ Len(q) \in Nat /\ DOMAIN q = 1 .. Len(q)
      /\ DOMAIN Append(q, x) = 1 .. Len(q) + 1
      /\ Append(q, x)[Len(q) + 1] = x
      /\ \A i \in 1 .. Len(q) : Append(q, x)[i] = q[i]
  OBVIOUS
<1>2. \A i \in 1 .. Len(q) + 1 : i \in 1 .. Len(q) \/ i = Len(q) + 1
  BY <1>1
<1>3. Len(q) + 1 \in 1 .. Len(q) + 1 /\ 1 .. Len(q) \subseteq 1 .. Len(q) + 1
  BY <1>1
<1> QED BY <1>1, <1>2, <1>3 DEF Has

LEMMA OnceAppend ==
    ASSUME NEW S, NEW q \in Seq(S), NEW x \in S, Once(q), x = Heartbeat \/ ~Has(q, x)
    PROVE  Once(Append(q, x))
<1>1. /\ Len(q) \in Nat /\ DOMAIN q = 1 .. Len(q)
      /\ DOMAIN Append(q, x) = 1 .. Len(q) + 1
      /\ Append(q, x)[Len(q) + 1] = x
      /\ \A i \in 1 .. Len(q) : Append(q, x)[i] = q[i]
  OBVIOUS
<1>2. \A i \in 1 .. Len(q) + 1 : i \in 1 .. Len(q) \/ i = Len(q) + 1
  BY <1>1
<1> HIDE DEF Heartbeat
<1> QED BY <1>1, <1>2 DEF Has, Once

LEMMA OnceTail ==
    ASSUME NEW S, NEW q \in Seq(S), q # <<>>, Once(q)
    PROVE  /\ Once(Tail(q))
           /\ \A y : Has(Tail(q), y) => Has(q, y)
           /\ Has(q, Head(q))
           /\ Head(q) # Heartbeat => ~Has(Tail(q), Head(q))
<1>1. /\ Len(q) \in Nat \ {0} /\ DOMAIN q = 1 .. Len(q) /\ Head(q) = q[1]
      /\ DOMAIN Tail(q) = 1 .. Len(q) - 1
      /\ \A i \in 1 .. Len(q) - 1 : Tail(q)[i] = q[i + 1]
  OBVIOUS
<1>2. \A i \in 1 .. Len(q) - 1 : i + 1 \in 1 .. Len(q) /\ i + 1 # 1 /\ i \in Int
  BY <1>1
<1>3. 1 \in 1 .. Len(q)
  BY <1>1
<1>4. Once(Tail(q))
  <2> SUFFICES ASSUME NEW i \in 1 .. Len(q) - 1, NEW j \in 1 .. Len(q) - 1,
                      Tail(q)[i] = Tail(q)[j], Tail(q)[i] # Heartbeat
               PROVE  i = j
    BY <1>1 DEF Once
  <2>1. i + 1 = j + 1
    BY <1>1, <1>2 DEF Once
  <2> QED BY <1>2, <2>1
<1>5. \A y : Has(Tail(q), y) => Has(q, y)
  BY <1>1, <1>2 DEF Has
<1>6. Head(q) # Heartbeat => ~Has(Tail(q), Head(q))
  BY <1>1, <1>2, <1>3 DEF Has, Once
<1> QED BY <1>1, <1>3, <1>4, <1>5, <1>6 DEF Has

-----------------------------------------------------------------------------
(* Steps that hand no signal on.                                           *)

SignalsStay == UNCHANGED <<inHand, signalCh, taken, acked, offered>>

HandsStay == \A c \in Conns : Holding(c)' => handler'[c] = handler[c]

\* Lines disappear, or heartbeats come.
LinesShrink ==
    \A c \in Conns : Once(up'[c]) /\ \A s \in offered : Has(up'[c], s) => Has(up[c], s)

LEMMA DeliveryFrame ==
    ASSUME IntakeInv, BeforeAck, AfterAck, SignalsStay, HandsStay, LinesShrink
    PROVE  BeforeAck' /\ AfterAck'
<1>1. /\ \A c \in Conns : Holding(c) => inHand[c] \in offered
      /\ acked \subseteq offered
  BY DEF IntakeInv, IntakeTypeOK, ServerTypeOK, PlacesOK, Holding
<1>2. BeforeAck'
  BY <1>1 DEF BeforeAck, SignalsStay, HandsStay, LinesShrink, Holding
<1>3. AfterAck'
  BY DEF AfterAck, SignalsStay, HandsStay, Holding
<1> QED BY <1>2, <1>3

LEMMA LinesSame ==
    ASSUME BeforeAck, up' = up
    PROVE  LinesShrink
BY DEF BeforeAck, LinesShrink

\* A line is read from one connection.
LEMMA LineRead ==
    ASSUME IntakeInv, BeforeAck, NEW c \in Conns, up[c] # <<>>,
           up' = [up EXCEPT ![c] = Tail(@)]
    PROVE  /\ LinesShrink
           /\ Head(up[c]) # Heartbeat =>
                 /\ Head(up[c]) \in offered /\ Has(up[c], Head(up[c]))
                 /\ ~Has(up'[c], Head(up[c]))
<1>1. up[c] \in Seq(offered \cup {Heartbeat}) /\ Once(up[c])
  BY DEF IntakeInv, IntakeTypeOK, LinkTypeOK, BeforeAck
<1>2. up'[c] = Tail(up[c]) /\ \A d \in Conns \ {c} : up'[d] = up[d]
  BY DEF IntakeInv, IntakeTypeOK, LinkTypeOK
<1>3. Head(up[c]) \in offered \cup {Heartbeat}
  BY <1>1
<1>4. LinesShrink
  BY <1>1, <1>2, OnceTail DEF LinesShrink, BeforeAck
<1> QED BY <1>1, <1>2, <1>3, <1>4, OnceTail

-----------------------------------------------------------------------------
(* Steps that hand one on.                                                 *)

LEMMA DeliveryScan ==
    ASSUME IntakeInv, BeforeAck, AfterAck, NEW c \in Conns, ScanSignal(c),
           UNCHANGED <<senderVars, taken>>
    PROVE  BeforeAck' /\ AfterAck'
<1> DEFINE s == Head(up[c])
<1>0. /\ handler \in [Conns -> Running \cup {"none", "backlog", "accepted", "closed"}]
      /\ inHand \in [Conns -> offered \cup {Heartbeat}]
      /\ acked \subseteq offered
      /\ \A d \in Conns : Holding(d) => inHand[d] \in offered
  BY DEF IntakeInv, IntakeTypeOK, ServerTypeOK, PlacesOK, Holding
<1>1. /\ up[c] # <<>> /\ s # Heartbeat /\ up' = [up EXCEPT ![c] = Tail(@)]
      /\ UNCHANGED <<signalCh, acked, offered, taken>>
  BY DEF ScanSignal, TakeUp, senderVars
<1>2. /\ handler'[c] = "acking" /\ inHand'[c] = s
      /\ \A d \in Conns \ {c} : handler'[d] = handler[d] /\ inHand'[d] = inHand[d]
  BY <1>0 DEF ScanSignal, HandlerTo
<1>3. LinesShrink /\ s \in offered /\ Has(up[c], s) /\ ~Has(up'[c], s)
  BY <1>1, LineRead
<1>4. s \notin acked /\ \A d \in Conns : Holding(d) => inHand[d] # s
  BY <1>3 DEF BeforeAck, AfterAck, Holding
<1>5. \A d \in Conns : ~Has(up'[d], s)
  BY <1>3 DEF BeforeAck, LinesShrink
<1> HIDE DEF s
<1>6. BeforeAck'
  <2>1. \A d \in Conns : Once(up'[d])
    BY <1>3 DEF LinesShrink
  <2>2. \A d, e \in Conns : \A t \in offered' : Has(up'[d], t) /\ Has(up'[e], t) => d = e
    BY <1>1, <1>3 DEF LinesShrink, BeforeAck
  <2>3. \A d, e \in Conns : Holding(d)' /\ Holding(e)' /\ inHand'[d] = inHand'[e] => d = e
    BY <1>2, <1>4 DEF BeforeAck, Holding
  <2>4. \A t \in acked' : \A d \in Conns :
           ~Has(up'[d], t) /\ (handler'[d] = "acking" => inHand'[d] # t)
    BY <1>0, <1>1, <1>2, <1>3, <1>4 DEF LinesShrink, BeforeAck
  <2>5. \A d, e \in Conns : handler'[e] = "acking" => ~Has(up'[d], inHand'[e])
    BY <1>0, <1>2, <1>3, <1>5 DEF LinesShrink, BeforeAck, Holding
  <2> QED BY <2>1, <2>2, <2>3, <2>4, <2>5 DEF BeforeAck
<1>7. AfterAck'
  BY <1>1, <1>2 DEF AfterAck
<1> QED BY <1>6, <1>7

LEMMA DeliveryAck ==
    ASSUME IntakeInv, BeforeAck, AfterAck, NEW c \in Conns, WriteAck(c),
           UNCHANGED <<senderVars, taken>>
    PROVE  /\ BeforeAck' /\ AfterAck'
           /\ inHand[c] \in offered \ acked /\ acked' = acked \cup {inHand[c]}
<1>0. /\ handler \in [Conns -> Running \cup {"none", "backlog", "accepted", "closed"}]
      /\ acked \subseteq offered
      /\ inHand[c] \in offered
  BY DEF IntakeInv, IntakeTypeOK, ServerTypeOK, PlacesOK, WriteAck
<1>1. /\ UNCHANGED <<up, inHand, signalCh, offered, taken>>
      /\ acked' = acked \cup {inHand[c]}
      /\ handler[c] = "acking" /\ handler'[c] = "forwarding"
      /\ \A d \in Conns \ {c} : handler'[d] = handler[d]
  BY <1>0 DEF WriteAck, HandlerTo, WriteDown, senderVars
<1>2. /\ inHand[c] \notin acked
      /\ \A d \in Conns : ~Has(up[d], inHand[c])
      /\ \A d \in Conns \ {c} : Holding(d) => inHand[d] # inHand[c]
  BY <1>1 DEF BeforeAck, Holding
<1>3. ~Has(signalCh, inHand[c]) /\ ~Has(taken, inHand[c])
  BY <1>0, <1>2 DEF AfterAck
<1>4. BeforeAck'
  BY <1>1, <1>2 DEF BeforeAck, Holding
<1>5. AfterAck'
  BY <1>1, <1>3 DEF AfterAck
<1> QED BY <1>0, <1>1, <1>2, <1>4, <1>5

LEMMA DeliveryForward ==
    ASSUME IntakeInv, BeforeAck, AfterAck, NEW c \in Conns, Forward(c),
           UNCHANGED <<senderVars, taken>>
    PROVE  BeforeAck' /\ AfterAck'
<1>0. /\ handler \in [Conns -> Running \cup {"none", "backlog", "accepted", "closed"}]
      /\ signalCh \in Seq(offered)
      /\ inHand[c] \in offered
  BY DEF IntakeInv, IntakeTypeOK, ServerTypeOK, PlacesOK, Forward
<1>1. /\ UNCHANGED <<up, inHand, acked, offered, taken>>
      /\ signalCh' = Append(signalCh, inHand[c])
      /\ handler[c] = "forwarding" /\ handler'[c] = "top"
      /\ \A d \in Conns \ {c} : handler'[d] = handler[d]
  BY <1>0 DEF Forward, HandlerTo, linkVars, senderVars
<1>2. \A s : Has(signalCh', s) <=> Has(signalCh, s) \/ s = inHand[c]
  BY <1>0, <1>1, HasAppend
<1>3. /\ inHand[c] \in acked /\ ~Has(signalCh, inHand[c]) /\ ~Has(taken, inHand[c])
      /\ \A d \in Conns \ {c} : Holding(d) => inHand[d] # inHand[c]
  BY <1>1 DEF AfterAck, BeforeAck, Holding
<1>4. Once(signalCh')
  BY <1>0, <1>1, <1>3, OnceAppend DEF AfterAck
<1>5. BeforeAck'
  BY <1>1 DEF BeforeAck, Holding
<1>6. AfterAck'
  BY <1>1, <1>2, <1>3, <1>4 DEF AfterAck, Holding
<1> QED BY <1>5, <1>6

LEMMA DeliveryTake ==
    ASSUME IntakeInv, BeforeAck, AfterAck, TakeSignal
    PROVE  /\ BeforeAck' /\ AfterAck'
           /\ \E s \in acked : ~Has(taken, s) /\ taken' = Append(taken, s)
<1> DEFINE s == Head(signalCh)
<1>0. /\ signalCh \in Seq(offered) /\ taken \in Seq(offered) /\ signalCh # <<>>
      /\ offered \subseteq Signals
  BY DEF IntakeInv, IntakeTypeOK, ServerTypeOK, SenderTypeOK, TakeSignal
<1>1. /\ UNCHANGED <<up, inHand, handler, acked, offered>>
      /\ signalCh' = Tail(signalCh) /\ taken' = Append(taken, s)
  BY DEF TakeSignal, linkVars, senderVars
<1>2. s \in offered /\ s # Heartbeat
  BY <1>0 DEF Signals, Heartbeat
<1>3. /\ Once(signalCh') /\ Has(signalCh, s) /\ ~Has(signalCh', s)
      /\ \A t : Has(signalCh', t) => Has(signalCh, t)
  BY <1>0, <1>1, <1>2, OnceTail DEF AfterAck
<1>4. s \in acked /\ ~Has(taken, s)
  BY <1>2, <1>3 DEF AfterAck
<1>5. \A t : Has(taken', t) <=> Has(taken, t) \/ t = s
  BY <1>0, <1>1, <1>2, HasAppend
<1> HIDE DEF s
<1>6. BeforeAck'
  BY <1>1 DEF BeforeAck, Holding
<1>7. AfterAck'
  BY <1>1, <1>3, <1>4, <1>5 DEF AfterAck
<1> QED BY <1>1, <1>4, <1>6, <1>7

LEMMA DeliveryOffer ==
    ASSUME IntakeInv, NumbersFresh, BeforeAck, AfterAck, OnTickSignal,
           UNCHANGED <<taken>>
    PROVE  /\ NumbersFresh' /\ BeforeAck' /\ AfterAck'
           /\ \/ offered' = offered
              \/ \E s \in Signals \ offered : offered' = offered \cup {s}
<1> DEFINE s == [seq |-> m_signalSeq', life |-> life]
<1>0. /\ m_signalSeq \in 0 .. MaxSeq /\ life \in 1 .. MaxLives /\ MaxSeq \in Nat
      /\ MaxLives \in Nat /\ offered \subseteq Signals /\ acked \subseteq offered
      /\ signalCh \in Seq(offered) /\ taken \in Seq(offered)
      /\ \A c \in Conns : up[c] \in Seq(offered \cup {Heartbeat})
      /\ up \in [Conns -> Seq(offered \cup {Heartbeat})]
      /\ \A c \in Conns : Holding(c) => inHand[c] \in offered
  BY SenderAssumption
     DEF IntakeInv, IntakeTypeOK, SenderTypeOK, ServerTypeOK, LinkTypeOK, PlacesOK, Holding
<1>1. /\ m_signalSeq' = m_signalSeq + 1 /\ m_signalSeq < MaxSeq /\ life' = life
      /\ UNCHANGED <<inHand, handler, signalCh, acked>>
      /\ \/ offered' = offered /\ up' = up
         \/ /\ offered' = offered \cup {s}
            /\ \/ up' = up
               \/ up' = [up EXCEPT ![socket] = Append(@, s)]
  BY DEF OnTickSignal, SendGoes, SendBreaks, WriteUp, serverVars, linkVars
<1>2. s \in Signals /\ s \notin offered /\ s # Heartbeat
  <2>1. s \in Signals /\ s # Heartbeat
    BY <1>0, <1>1 DEF Signals, Heartbeat
  <2>2. s \notin offered
    BY <1>0, <1>1 DEF NumbersFresh
  <2> QED BY <2>1, <2>2
<1>3. NumbersFresh'
  <2>1. \A t \in offered : t.seq \in Int /\ t.life \in Int
    BY <1>0 DEF Signals
  <2> QED BY <1>0, <1>1, <2>1 DEF NumbersFresh
<1>4. \A c \in Conns : ~Has(up[c], s)
  <2>1. \A c \in Conns : \A i \in DOMAIN up[c] : up[c][i] \in offered \cup {Heartbeat}
    BY <1>0
  <2> QED BY <1>2, <2>1 DEF Has
<1>5. ~Has(signalCh, s) /\ ~Has(taken, s)
  <2>1. /\ \A i \in DOMAIN signalCh : signalCh[i] \in offered
        /\ \A i \in DOMAIN taken : taken[i] \in offered
    BY <1>0
  <2> QED BY <1>2, <2>1 DEF Has
<1>6. ASSUME NEW c \in Conns
      PROVE  /\ Once(up'[c])
             /\ \A t : Has(up'[c], t) => Has(up[c], t) \/ (t = s /\ c = socket)
  <2> HIDE DEF s
  <2>1. Once(up[c]) /\ up[c] \in Seq(offered \cup {Heartbeat} \cup {s})
    BY <1>0, SeqMonotone DEF BeforeAck
  <2>2. CASE up' = up
    BY <2>1, <2>2
  <2>3. CASE up' = [up EXCEPT ![socket] = Append(@, s)] /\ c = socket
    <3>1. up'[c] = Append(up[c], s)
      BY <1>0, <2>3
    <3>2. s \in offered \cup {Heartbeat} \cup {s}
      OBVIOUS
    <3> QED BY <1>4, <2>1, <2>3, <3>1, <3>2, OnceAppend, HasAppend
  <2>4. CASE up' = [up EXCEPT ![socket] = Append(@, s)] /\ c # socket
    <3>1. up'[c] = up[c]
      BY <1>0, <2>4
    <3> QED BY <2>1, <3>1
  <2> QED BY <1>1, <2>2, <2>3, <2>4
<1> HIDE DEF s
<1>7. BeforeAck'
  <2>1. \A c \in Conns : Once(up'[c])
    BY <1>6
  <2>2. \A c, d \in Conns : \A t \in offered' : Has(up'[c], t) /\ Has(up'[d], t) => c = d
    BY <1>1, <1>4, <1>6 DEF BeforeAck
  <2>3. \A c, d \in Conns : Holding(c)' /\ Holding(d)' /\ inHand'[c] = inHand'[d] => c = d
    BY <1>1 DEF BeforeAck, Holding
  <2>4. \A t \in acked' : \A c \in Conns :
           ~Has(up'[c], t) /\ (handler'[c] = "acking" => inHand'[c] # t)
    BY <1>0, <1>1, <1>2, <1>6 DEF BeforeAck
  <2>5. \A c, d \in Conns : handler'[d] = "acking" => ~Has(up'[c], inHand'[d])
    BY <1>0, <1>1, <1>2, <1>6 DEF BeforeAck, Holding
  <2> QED BY <2>1, <2>2, <2>3, <2>4, <2>5 DEF BeforeAck
<1>8. AfterAck'
  BY <1>1, <1>5 DEF AfterAck
<1> QED BY <1>1, <1>2, <1>3, <1>7, <1>8

-----------------------------------------------------------------------------
\* The refinement, one lemma per actor.
DeliveryStep == DeliveryInv' /\ [Delivery!Next]_(Delivery!deliveryVars)

LEMMA HandlerDelivers ==
    ASSUME IntakeInv, DeliveryInv, NEW c \in Conns, HandlerStep(c),
           UNCHANGED <<senderVars, mainPc, taken>>
    PROVE  DeliveryStep
<1>0. /\ BeforeAck /\ AfterAck /\ NumbersFresh /\ LoopIsOpen
      /\ LinkTypeOK /\ ServerTypeOK /\ PlacesOK
  BY DEF DeliveryInv, IntakeInv, IntakeTypeOK
<1>1. UNCHANGED <<ctxDone, offered, taken, mainPc, m_signalSeq, life>>
  BY <1>0, HandlerData DEF senderVars
<1>2. NumbersFresh' /\ LoopIsOpen'
  BY <1>0, <1>1 DEF NumbersFresh, LoopIsOpen
<1>3. CASE ScanSignal(c)
  <2>1. acked' = acked
    BY <1>3 DEF ScanSignal
  <2> QED BY <1>0, <1>1, <1>2, <1>3, <2>1, DeliveryScan
          DEF DeliveryStep, DeliveryInv, Delivery!deliveryVars
<1>4. CASE WriteAck(c)
  <2>1. BeforeAck' /\ AfterAck' /\ inHand[c] \in offered \ acked /\ acked' = acked \cup {inHand[c]}
    BY <1>0, <1>1, <1>4, DeliveryAck
  <2>2. Delivery!Acknowledge
    BY <1>1, <2>1 DEF Delivery!Acknowledge
  <2> QED BY <1>2, <2>1, <2>2 DEF DeliveryStep, DeliveryInv, Delivery!Next
<1>5. CASE Forward(c)
  <2>1. acked' = acked
    BY <1>5 DEF Forward
  <2> QED BY <1>0, <1>1, <1>2, <1>5, <2>1, DeliveryForward
          DEF DeliveryStep, DeliveryInv, Delivery!deliveryVars
<1>6. CASE /\ LoopTop(c) \/ ScanHeartbeat(c) \/ ScanEnds(c) \/ ScanTimeout(c)
              \/ AckFails(c) \/ ForwardCancelled(c) \/ HandlerEnds(c)
  <2>1. SignalsStay
    BY <1>1, <1>6 DEF LoopTop, ScanHeartbeat, ScanEnds, ScanTimeout, AckFails,
       ForwardCancelled, HandlerEnds, SignalsStay
  <2>2. HandsStay
    BY <1>0, <1>6 DEF LoopTop, ScanHeartbeat, ScanEnds, ScanTimeout, AckFails,
       ForwardCancelled, HandlerEnds, HandlerTo, HandsStay, Holding, ServerTypeOK
  <2>3. LinesShrink
    <3>1. CASE ScanHeartbeat(c)
      BY <1>0, <3>1, LineRead DEF ScanHeartbeat, TakeUp
    <3>2. CASE ~ScanHeartbeat(c)
      <4>1. up' = up
        BY <1>6, <3>2 DEF LoopTop, ScanEnds, ScanTimeout, AckFails, ForwardCancelled,
           HandlerEnds, WriteDown, linkVars
      <4> QED BY <1>0, <4>1, LinesSame
    <3> QED BY <3>1, <3>2
  <2>4. BeforeAck' /\ AfterAck'
    BY <1>0, <2>1, <2>2, <2>3, DeliveryFrame
  <2> QED BY <1>1, <1>2, <2>1, <2>4
          DEF DeliveryStep, DeliveryInv, SignalsStay, Delivery!deliveryVars
<1> QED BY <1>3, <1>4, <1>5, <1>6 DEF HandlerStep

LEMMA MainDelivers ==
    ASSUME IntakeInv, DeliveryInv, MainStep \/ Cancel
    PROVE  DeliveryStep
<1>0. BeforeAck /\ AfterAck /\ NumbersFresh /\ LoopIsOpen
  BY DEF DeliveryInv
<1>1. UNCHANGED <<linkVars, senderVars, inHand, acked>>
  BY DEF MainStep, Cancel, TakeSignal, FinishSignal, StopListening, StopEnds,
     CloseListener, CloseSignalCh, serverVars
<1>2. NumbersFresh'
  BY <1>0, <1>1 DEF NumbersFresh, senderVars
<1>3. CASE TakeSignal
  <2>1. /\ BeforeAck' /\ AfterAck'
        /\ \E s \in acked : ~Has(taken, s) /\ taken' = Append(taken, s)
    BY <1>0, <1>3, DeliveryTake
  <2>2. LoopIsOpen' /\ ~ctxDone /\ ctxDone' = ctxDone
    BY <1>0, <1>3 DEF TakeSignal, LoopIsOpen
  <2>3. Delivery!Consume
    BY <1>1, <2>1, <2>2 DEF Delivery!Consume, Delivery!Consumed, Has, senderVars
  <2> QED BY <1>2, <2>1, <2>2, <2>3 DEF DeliveryStep, DeliveryInv, Delivery!Next
<1>4. CASE ~TakeSignal
  <2>1. SignalsStay /\ up' = up
    BY <1>1, <1>4 DEF MainStep, Cancel, FinishSignal, StopListening, StopEnds,
       CloseListener, CloseSignalCh, serverVars, senderVars, linkVars, SignalsStay
  <2>2. HandsStay
    BY <1>4 DEF MainStep, Cancel, FinishSignal, StopListening, StopEnds, CloseListener,
       CloseSignalCh, serverVars, HandsStay, Holding
  <2>3. BeforeAck' /\ AfterAck'
    BY <1>0, <2>1, <2>2, LinesSame, DeliveryFrame
  <2>4. CASE Cancel
    <3>1. LoopIsOpen' /\ ~ctxDone /\ ctxDone'
      BY <1>0, <2>4 DEF Cancel, LoopIsOpen
    <3>2. Delivery!Close
      BY <2>1, <3>1 DEF Delivery!Close, SignalsStay
    <3> QED BY <1>2, <2>3, <3>1, <3>2 DEF DeliveryStep, DeliveryInv, Delivery!Next
  <2>5. CASE FinishSignal \/ StopListening \/ StopEnds
    <3>1. ctxDone' = ctxDone
      BY <2>5 DEF FinishSignal, StopListening, StopEnds, CloseListener, CloseSignalCh, serverVars
    <3>2. LoopIsOpen'
      BY <1>0, <2>5, <3>1 DEF FinishSignal, StopListening, StopEnds, LoopIsOpen
    <3> QED BY <1>2, <2>1, <2>3, <3>1, <3>2
            DEF DeliveryStep, DeliveryInv, SignalsStay, Delivery!deliveryVars
  <2> QED BY <1>4, <2>4, <2>5 DEF MainStep
<1> QED BY <1>3, <1>4

LEMMA AcceptDelivers ==
    ASSUME IntakeInv, DeliveryInv, AcceptLoopStep, UNCHANGED <<senderVars, mainPc, taken>>
    PROVE  DeliveryStep
<1>1. UNCHANGED <<up, inHand, signalCh, taken, acked, offered, ctxDone, mainPc, m_signalSeq, life>>
  BY DEF AcceptLoopStep, Accept, Reject, Admit, AcceptLoopEnds, linkVars, senderVars
<1>2. HandsStay
  BY DEF AcceptLoopStep, Accept, Reject, Admit, AcceptLoopEnds, HandsStay, Holding,
     IntakeInv, IntakeTypeOK, ServerTypeOK
<1>3. BeforeAck' /\ AfterAck'
  BY <1>1, <1>2, LinesSame, DeliveryFrame DEF DeliveryInv, SignalsStay
<1>4. NumbersFresh' /\ LoopIsOpen'
  BY <1>1 DEF DeliveryInv, NumbersFresh, LoopIsOpen
<1> QED BY <1>1, <1>3, <1>4 DEF DeliveryStep, DeliveryInv, Delivery!deliveryVars

LEMMA NetworkDelivers ==
    ASSUME IntakeInv, DeliveryInv, NetworkCut \/ UNCHANGED intakeVars
    PROVE  DeliveryStep
<1>1. UNCHANGED <<handler, inHand, signalCh, taken, acked, offered, ctxDone, mainPc,
                  m_signalSeq, life>>
  BY DEF NetworkCut, intakeVars, serverVars, senderVars
<1>2. LinesShrink
  <2>1. CASE NetworkCut
    <3>1. PICK c \in Conns : up' = [up EXCEPT ![c] = <<>>]
      BY <2>1 DEF NetworkCut, Cut
    <3>2. \A d \in Conns : up'[d] = up[d] \/ up'[d] = <<>>
      BY <3>1 DEF IntakeInv, IntakeTypeOK, LinkTypeOK
    <3>3. Once(<<>>) /\ \A s : ~Has(<<>>, s)
      BY DEF Once, Has
    <3> QED BY <3>2, <3>3 DEF LinesShrink, DeliveryInv, BeforeAck
  <2>2. CASE UNCHANGED intakeVars
    BY <2>2, LinesSame DEF intakeVars, linkVars, DeliveryInv
  <2> QED BY <2>1, <2>2
<1>3. BeforeAck' /\ AfterAck'
  BY <1>1, <1>2, DeliveryFrame DEF DeliveryInv, SignalsStay, HandsStay
<1>4. NumbersFresh' /\ LoopIsOpen'
  BY <1>1 DEF DeliveryInv, NumbersFresh, LoopIsOpen
<1> QED BY <1>1, <1>3, <1>4 DEF DeliveryStep, DeliveryInv, Delivery!deliveryVars

LEMMA SenderDelivers ==
    ASSUME IntakeInv, DeliveryInv, SenderStep, Idle
    PROVE  DeliveryStep
<1>0. /\ BeforeAck /\ AfterAck /\ NumbersFresh /\ LoopIsOpen
      /\ LinkTypeOK /\ ServerTypeOK /\ SenderTypeOK /\ PlacesOK
      /\ UNCHANGED <<mainPc, taken>>
  BY DEF DeliveryInv, IntakeInv, IntakeTypeOK, Idle
<1>1. UNCHANGED <<inHand, signalCh, acked, ctxDone>>
  BY <1>0, SenderOwnTyped DEF SenderEnd
<1>2. LoopIsOpen'
  BY <1>0, <1>1 DEF LoopIsOpen
<1>3. CASE OnTickSignal
  <2>1. /\ NumbersFresh' /\ BeforeAck' /\ AfterAck'
        /\ \/ offered' = offered
           \/ \E s \in Signals \ offered : offered' = offered \cup {s}
    BY <1>0, <1>3, DeliveryOffer
  <2>2. [Delivery!Next]_(Delivery!deliveryVars)
    BY <1>0, <1>1, <2>1 DEF Delivery!Next, Delivery!Offer, Delivery!deliveryVars
  <2> QED BY <1>2, <2>1, <2>2 DEF DeliveryStep, DeliveryInv
<1>4. CASE SenderStep /\ ~OnTickSignal
  <2>1. offered' = offered
    BY <1>4 DEF SenderStep, TryReconnect, OnTimerHeartbeat, ReceiveReply, ReceiveTimeout,
       ReceiveError, Reload
  <2>2. NumbersFresh'
    <3>1. \/ UNCHANGED <<m_signalSeq, life>>
          \/ life' = life + 1
      BY <1>4 DEF SenderStep, TryReconnect, OnTimerHeartbeat, ReceiveReply,
         ReceiveTimeout, ReceiveError, Reload
    <3>2. life \in Int /\ \A s \in offered : s.life \in Int
      BY <1>0, SenderAssumption DEF SenderTypeOK, Signals
    <3> QED BY <1>0, <2>1, <3>1, <3>2 DEF NumbersFresh
  <2>3. HandsStay
    <3>1. CASE handler' = handler
      BY <3>1 DEF HandsStay
    <3>2. CASE handler' = [handler EXCEPT ![dialled + 1] = "backlog"]
      BY <1>0, <3>2 DEF HandsStay, Holding, ServerTypeOK
    <3> QED BY <1>0, <1>4, <3>1, <3>2, SenderEffect
  <2>4. LinesShrink
    <3>1. CASE up' = up
      BY <1>0, <3>1, LinesSame
    <3>2. CASE OnTimerHeartbeat /\ up' # up
      <4>1. up' = [up EXCEPT ![socket] = Append(@, Heartbeat)]
        BY <3>2 DEF OnTimerHeartbeat, SendGoes, SendBreaks, WriteUp, linkVars
      <4>2. ASSUME NEW c \in Conns, c = socket
            PROVE  Once(up'[c]) /\ \A s \in offered : Has(up'[c], s) => Has(up[c], s)
        <5>1. up'[c] = Append(up[c], Heartbeat) /\ up[c] \in Seq(offered \cup {Heartbeat})
          BY <1>0, <4>1, <4>2 DEF LinkTypeOK
        <5>2. Heartbeat \in offered \cup {Heartbeat} /\ Heartbeat \notin offered
          BY <1>0 DEF SenderTypeOK, Signals, Heartbeat
        <5>3. Once(up[c])
          BY <1>0 DEF BeforeAck
        <5> QED BY <5>1, <5>2, <5>3, OnceAppend, HasAppend
      <4>3. \A c \in Conns : c # socket => up'[c] = up[c]
        BY <1>0, <4>1 DEF LinkTypeOK
      <4> QED BY <1>0, <4>2, <4>3 DEF LinesShrink, BeforeAck
    <3>3. CASE ~OnTimerHeartbeat
      <4>1. up' = up
        BY <1>4, <3>3 DEF SenderStep, TryReconnect, Reload, Connect, DialUp, DialFails,
           ReceiveReply, ReceiveTimeout, ReceiveError, linkVars
      <4> QED BY <1>0, <4>1, LinesSame
    <3> QED BY <3>1, <3>2, <3>3
  <2>5. BeforeAck' /\ AfterAck'
    BY <1>0, <1>1, <2>1, <2>3, <2>4, DeliveryFrame DEF SignalsStay
  <2> QED BY <1>0, <1>1, <1>2, <2>1, <2>2, <2>5
          DEF DeliveryStep, DeliveryInv, Delivery!deliveryVars
<1> QED BY <1>3, <1>4

LEMMA DeliveryStart == Init => DeliveryInv /\ Delivery!Init
<1> SUFFICES ASSUME Init PROVE DeliveryInv /\ Delivery!Init
  OBVIOUS
<1> USE DEF Init, LinkInit, ServerInit, SenderInit
<1>1. /\ Once(<<>>) /\ \A s : ~Has(<<>>, s)
  BY DEF Once, Has
<1>2. BeforeAck /\ AfterAck
  BY <1>1 DEF BeforeAck, AfterAck, Holding
<1>3. NumbersFresh /\ LoopIsOpen /\ Delivery!Init
  BY DEF NumbersFresh, LoopIsOpen, Delivery!Init
<1> QED BY <1>2, <1>3 DEF DeliveryInv

\* The bridge implements SignalDelivery: whatever connections are dropped, refused
\* or abandoned and whenever the advisor is loaded again, main gets a signal only
\* after it was sent and acknowledged, once, and none after the context is done
\* (server.go:146-192, main.go:160, BridgeClient.mqh:226).
THEOREM DeliversOnce == Spec => DeliverySpec
<1>1. IntakeInv /\ DeliveryInv /\ [Next]_intakeVars => DeliveryStep
  BY MainDelivers, HandlerDelivers, AcceptDelivers, SenderDelivers, NetworkDelivers
     DEF Next, ServerStep
<1>2. IntakeInv /\ DeliveryInv /\ [Next]_intakeVars
          => DeliveryInv' /\ [Delivery!Next]_(Delivery!deliveryVars)
  BY <1>1 DEF DeliveryStep
<1> QED BY <1>2, DeliveryStart, IntakeInvariant, PTL DEF Spec, DeliverySpec, Delivery!Spec
=============================================================================
