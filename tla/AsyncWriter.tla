---------------------------- MODULE AsyncWriter -----------------------------
(***************************************************************************)
(* The asynchronous event writer (storage/async_writer.go) with main, its  *)
(* only caller: main writes one event per signal, never blocking, and at   *)
(* the end cancels the context, stops the bridge and then stops the        *)
(* writer.  The events are numbered as main writes them.  flush writes one *)
(* event after the other; here the batch shrinks as it does, and the next  *)
(* batch starts empty as batch[:0] does.                                   *)
(***************************************************************************)
EXTENDS Integers, Sequences, SequencesExt, FiniteSets

CONSTANTS BufferSize,   \* buffer_size: capacity of eventCh and batch size
          MaxEvents,    \* bound: events written in a behaviour
          MaxKills      \* bound: times the process is killed

ASSUME WriterAssumption ==
    /\ BufferSize \in Nat \ {0}
    /\ MaxEvents \in Nat
    /\ MaxKills \in Nat

VARIABLES eventCh, chClosed,
          batch,
          writer,     \* "select", "flush", "drain", "lastFlush" or "done"
          file,       \* the events in the file
          mainPc,     \* "loop", "cancelled", "waiting", "stopped" or "down"
          ctxDone,
          written,
          failed,     \* history: events that could not be written to the file
          dropped,    \* history: events that found the channel full
          lost,       \* history: events a killed process had in memory
          kills

memoryVars == <<eventCh, chClosed, batch, writer, ctxDone>>
historyVars == <<written, failed, dropped, lost, kills>>
writerVars == <<memoryVars, file, mainPc, historyVars>>

Events == 1 .. MaxEvents

(* NewAsyncWriter and Start: an empty channel, the goroutine at its select. *)
FreshWriter ==
    /\ eventCh = <<>> /\ chClosed = FALSE
    /\ batch = <<>> /\ writer = "select"
    /\ ctxDone = FALSE /\ mainPc = "loop"

(* The same, in a process that takes over from another. *)
NewAsyncWriter ==
    /\ eventCh' = <<>> /\ chClosed' = FALSE
    /\ batch' = <<>> /\ writer' = "select"
    /\ ctxDone' = FALSE /\ mainPc' = "loop"

Init ==
    /\ FreshWriter
    /\ file = <<>>
    /\ written = 0
    /\ failed = {} /\ dropped = {} /\ lost = {}
    /\ kills = 0

InMemory == ToSet(batch) \cup ToSet(eventCh)

-----------------------------------------------------------------------------
(* Write, called by main's loop.                                           *)
Write ==
    /\ mainPc = "loop"
    /\ written < MaxEvents
    /\ written' = written + 1
    /\ IF Len(eventCh) < BufferSize
       THEN eventCh' = Append(eventCh, written') /\ UNCHANGED dropped
       ELSE dropped' = dropped \cup {written'} /\ UNCHANGED eventCh
    /\ UNCHANGED <<chClosed, batch, writer, ctxDone, file, mainPc, failed, lost, kills>>

-----------------------------------------------------------------------------
(* run, the writer's goroutine.                                            *)

GoroutineOnly == UNCHANGED <<chClosed, ctxDone, mainPc, written, dropped, lost, kills>>

BatchFull(b) == Len(b) >= BufferSize

(* Mutant of Receive: the new event goes first.                            *)
ReceiveFirst ==
    /\ writer = "select"
    /\ eventCh # <<>>
    /\ batch' = <<Head(eventCh)>> \o batch
    /\ eventCh' = Tail(eventCh)
    /\ writer' = IF BatchFull(batch') THEN "flush" ELSE "select"
    /\ GoroutineOnly
    /\ UNCHANGED <<file, failed>>

Receive ==
    /\ writer = "select"
    /\ eventCh # <<>>
    /\ batch' = Append(batch, Head(eventCh))
    /\ eventCh' = Tail(eventCh)
    /\ writer' = IF BatchFull(batch') THEN "flush" ELSE "select"
    /\ GoroutineOnly
    /\ UNCHANGED <<file, failed>>

(* Both ways out flush what is left, if anything, and close the file.      *)
LeaveLoop == writer' = IF batch = <<>> THEN "done" ELSE "lastFlush"

(* Mutant of Tick: only full batches are flushed.                          *)
TickNothing == FALSE

Tick ==
    /\ writer = "select"
    /\ batch # <<>>
    /\ writer' = "flush"
    /\ GoroutineOnly
    /\ UNCHANGED <<eventCh, batch, file, failed>>

(* Mutant of ContextDone: the channel is not drained.                      *)
ContextDoneUndrained ==
    /\ writer = "select"
    /\ ctxDone
    /\ LeaveLoop
    /\ GoroutineOnly
    /\ UNCHANGED <<eventCh, batch, file, failed>>

ContextDone ==
    /\ writer = "select"
    /\ ctxDone
    /\ writer' = "drain"
    /\ GoroutineOnly
    /\ UNCHANGED <<eventCh, batch, file, failed>>

Drain ==
    /\ writer = "drain"
    /\ eventCh # <<>>
    /\ batch' = Append(batch, Head(eventCh))
    /\ eventCh' = Tail(eventCh)
    /\ GoroutineOnly
    /\ UNCHANGED <<writer, file, failed>>

(* The channel is closed and empty, at the select or in the drain loop.    *)
ChannelEnds ==
    /\ writer \in {"select", "drain"}
    /\ eventCh = <<>> /\ chClosed
    /\ LeaveLoop
    /\ GoroutineOnly
    /\ UNCHANGED <<eventCh, batch, file, failed>>

(* One event of flush; an error is logged and the event skipped.           *)
FlushEvent ==
    /\ writer \in {"flush", "lastFlush"}
    /\ batch # <<>>
    /\ \/ file' = Append(file, Head(batch)) /\ UNCHANGED failed
       \/ failed' = failed \cup {Head(batch)} /\ UNCHANGED file
    /\ batch' = Tail(batch)
    /\ GoroutineOnly
    /\ UNCHANGED <<eventCh, writer>>

FlushEnds ==
    /\ writer \in {"flush", "lastFlush"}
    /\ batch = <<>>
    /\ writer' = IF writer = "flush" THEN "select" ELSE "done"
    /\ GoroutineOnly
    /\ UNCHANGED <<eventCh, batch, file, failed>>

GoroutineStep ==
    \/ Receive \/ Tick \/ ContextDone \/ Drain \/ ChannelEnds \/ FlushEvent \/ FlushEnds

-----------------------------------------------------------------------------
(* main: the end of the process.                                           *)

Cancel ==
    /\ mainPc = "loop"
    /\ mainPc' = "cancelled"
    /\ ctxDone' = TRUE
    /\ UNCHANGED <<eventCh, chClosed, batch, writer, file, historyVars>>

(* Mutant of Stop: the channel is not closed.                              *)
StopWithoutClose ==
    /\ mainPc = "cancelled"
    /\ mainPc' = "waiting"
    /\ UNCHANGED <<memoryVars, file, historyVars>>

(* Stop, once the bridge has stopped.                                      *)
Stop ==
    /\ mainPc = "cancelled"
    /\ mainPc' = "waiting"
    /\ chClosed' = TRUE
    /\ UNCHANGED <<eventCh, batch, writer, ctxDone, file, historyVars>>

StopReturns ==
    /\ mainPc = "waiting"
    /\ writer = "done"
    /\ mainPc' = "stopped"
    /\ UNCHANGED <<memoryVars, file, historyVars>>

(* The process is killed; what the file has, it keeps.                     *)
Kill ==
    /\ mainPc \notin {"stopped", "down"}
    /\ kills < MaxKills
    /\ kills' = kills + 1
    /\ mainPc' = "down"
    /\ lost' = lost \cup InMemory
    /\ eventCh' = <<>>
    /\ batch' = <<>>
    /\ writer' = "done"
    /\ UNCHANGED <<chClosed, ctxDone, file, written, failed, dropped>>

Restart ==
    /\ mainPc = "down"
    /\ NewAsyncWriter
    /\ UNCHANGED <<file, historyVars>>

Next ==
    \/ Write
    \/ GoroutineStep
    \/ Cancel \/ Stop \/ StopReturns
    \/ Kill \/ Restart

Spec == Init /\ [][Next]_writerVars

(* The scheduler runs the goroutine and main; the ticker is one of the
   goroutine's steps, so a batch that nothing adds to is flushed. *)
FairSpec == Spec /\ WF_writerVars(GoroutineStep) /\ WF_writerVars(Stop \/ StopReturns)

-----------------------------------------------------------------------------
WriterTypeOK ==
    /\ eventCh \in Seq(Events) /\ Len(eventCh) <= BufferSize
    /\ batch \in Seq(Events)
    /\ file \in Seq(Events)
    /\ writer \in {"select", "flush", "drain", "lastFlush", "done"}
    /\ mainPc \in {"loop", "cancelled", "waiting", "stopped", "down"}
    /\ chClosed \in BOOLEAN /\ ctxDone \in BOOLEAN
    /\ written \in 0 .. MaxEvents
    /\ failed \subseteq Events /\ dropped \subseteq Events /\ lost \subseteq Events
    /\ kills \in 0 .. MaxKills

\* The memory the writer holds is bounded: the drain loop of async_writer.go:149
\* appends to a batch that was not full at most one full channel, because
\* nobody writes between cancel() and Stop.
BatchBounded == Len(batch) <= 2 * BufferSize - 1

\* Every event has one fate: it is in memory, in the file, or one of the
\* losses the code accepts (channel full, file error, kill); the shutdown
\* itself loses none, whichever case the select of the goroutine takes.
EveryEventAccounted ==
    /\ 1 .. written = InMemory \cup ToSet(file) \cup failed \cup dropped \cup lost
    /\ mainPc = "stopped" => InMemory = {}

\* An event that found room in the channel reaches the file, however few
\* follow it, unless the file or the process fails.
AcceptedIsLogged ==
    \A e \in Events : e \in InMemory ~> e \in ToSet(file) \cup failed \cup lost

\* Stop returns.  The drain loop ends only when Stop closes the channel, and
\* Stop waits for the goroutine: neither waits for the other for ever.
WriterStops == mainPc = "cancelled" ~> mainPc \in {"stopped", "down"}

\* The writer implements LossyLog.
Log == INSTANCE LossyLog WITH pending <- InMemory, log <- file

LogSpec == Log!Spec
=============================================================================
