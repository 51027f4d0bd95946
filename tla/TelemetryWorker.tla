--------------------------- MODULE TelemetryWorker ---------------------------
(***************************************************************************)
(* The telemetry worker, internal/telemetry/worker.go: a buffered channel  *)
(* between the goroutines that serve requests and the one goroutine that   *)
(* counts events, and a Shutdown that closes the channel under the write   *)
(* lock of the RWMutex every Emit reads under.                             *)
(*                                                                         *)
(* An event is named by the Emit call that carries it.  Its type only      *)
(* picks the counter, so one count per event stands for the counters.  The *)
(* writer that waits for the RWMutex keeps new readers out, as in Go.      *)
(***************************************************************************)
EXTENDS Naturals, Sequences, SequencesExt

CONSTANTS
    Emitter,        \* the calls of Emit
    Stopper,        \* the calls of Shutdown
    NoStopper,
    BufferSize      \* the channel's capacity (256 in the code)

ASSUME WorkerAssumption ==
    /\ NoStopper \notin Stopper
    /\ BufferSize \in Nat \ {0}

VARIABLES
    emitting,       \* where an Emit is
    stopping,       \* where a Shutdown is
    once,           \* stopOnce: "new", "running" or "done"
    writer,         \* who waits for the write lock or has it
    closed,         \* the field closed
    channelClosed,  \* close(events) has run
    events,         \* the events in the channel
    loop,           \* the worker goroutine: "new", "idle", "busy" or "done"
    hand,           \* the event it has received
    counted         \* how often an event has been counted

vars == <<emitting, stopping, once, writer, closed, channelClosed,
          events, loop, hand, counted>>

Reading == {"check", "send"}
Emitted == {"sent", "dropped", "refused"}
EmitLabel == {"idle", "called"} \cup Reading \cup Emitted

Stopped == {"nil", "timeout"}
StopLabel == {"idle", "once", "lock", "close", "unlock", "wait"} \cup Stopped

Init ==
    /\ emitting = [e \in Emitter |-> "idle"]
    /\ stopping = [s \in Stopper |-> "idle"]
    /\ once = "new"
    /\ writer = NoStopper
    /\ closed = FALSE
    /\ channelClosed = FALSE
    /\ events = <<>>
    /\ loop = "new"
    /\ hand = {}
    /\ counted = [e \in Emitter |-> 0]

-----------------------------------------------------------------------------
(* Emit                                                                    *)

EmitAt(e, from, to) == emitting[e] = from /\ emitting' = [emitting EXCEPT ![e] = to]

Readers == {e \in Emitter : emitting[e] \in Reading}

CallEmit(e) ==
    /\ EmitAt(e, "idle", "called")
    /\ UNCHANGED <<stopping, once, writer, closed, channelClosed, events, loop, hand, counted>>

\* RLock
EmitLock(e) ==
    /\ EmitAt(e, "called", "check")
    /\ writer = NoStopper
    /\ UNCHANGED <<stopping, once, writer, closed, channelClosed, events, loop, hand, counted>>

EmitCheck(e) ==
    /\ IF closed THEN EmitAt(e, "check", "refused") ELSE EmitAt(e, "check", "send")
    /\ UNCHANGED <<stopping, once, writer, closed, channelClosed, events, loop, hand, counted>>

\* Mutant: a queue without a bound.
EmitUnbounded(e) ==
    /\ EmitAt(e, "send", "sent")
    /\ events' = Append(events, e)
    /\ UNCHANGED <<stopping, once, writer, closed, channelClosed, loop, hand, counted>>

\* Mutant: a full channel makes room by forgetting its oldest event.
EmitOverwrite(e) ==
    /\ EmitAt(e, "send", "sent")
    /\ events' = Append(IF Len(events) < BufferSize THEN events ELSE Tail(events), e)
    /\ UNCHANGED <<stopping, once, writer, closed, channelClosed, loop, hand, counted>>

\* The select: the event goes into the channel, or else the channel is full
\* and EmitDrop counts it as dropped.  The deferred RUnlock follows.
EmitSend(e) ==
    /\ EmitAt(e, "send", "sent")
    /\ Len(events) < BufferSize
    /\ events' = Append(events, e)
    /\ UNCHANGED <<stopping, once, writer, closed, channelClosed, loop, hand, counted>>

\* Mutant: the default case gives up without counting the drop.
EmitDropSilently(e) ==
    /\ EmitAt(e, "send", "refused")
    /\ Len(events) = BufferSize
    /\ UNCHANGED <<stopping, once, writer, closed, channelClosed, events, loop, hand, counted>>

EmitDrop(e) ==
    /\ EmitAt(e, "send", "dropped")
    /\ Len(events) = BufferSize
    /\ UNCHANGED <<stopping, once, writer, closed, channelClosed, events, loop, hand, counted>>

-----------------------------------------------------------------------------
(* Shutdown                                                                *)

StopAt(s, from, to) == stopping[s] = from /\ stopping' = [stopping EXCEPT ![s] = to]

CallShutdown(s) ==
    /\ StopAt(s, "idle", "once")
    /\ UNCHANGED <<emitting, once, writer, closed, channelClosed, events, loop, hand, counted>>

\* stopOnce.Do: the first caller runs the function, another waits for its end.
StopOnce(s) ==
    /\ \/ /\ once = "new"
          /\ StopAt(s, "once", "lock")
          /\ once' = "running"
       \/ /\ once = "done"
          /\ StopAt(s, "once", "wait")
          /\ UNCHANGED once
    /\ UNCHANGED <<emitting, writer, closed, channelClosed, events, loop, hand, counted>>

\* Lock announces the writer ...
StopAnnounce(s) ==
    /\ stopping[s] = "lock"
    /\ writer = NoStopper
    /\ writer' = s
    /\ UNCHANGED <<emitting, stopping, once, closed, channelClosed, events, loop, hand, counted>>

\* Mutant: the lock does not wait for the readers.
StopLockAtOnce(s) ==
    /\ StopAt(s, "lock", "close")
    /\ writer = s
    /\ closed' = TRUE
    /\ UNCHANGED <<emitting, once, writer, channelClosed, events, loop, hand, counted>>

\* ... and has the lock when the last reader has left.
StopLock(s) ==
    /\ StopAt(s, "lock", "close")
    /\ writer = s
    /\ Readers = {}
    /\ closed' = TRUE
    /\ UNCHANGED <<emitting, once, writer, channelClosed, events, loop, hand, counted>>

\* Mutant: the flag is set and the channel stays open.
StopOnlyFlag(s) ==
    /\ StopAt(s, "close", "unlock")
    /\ UNCHANGED <<emitting, once, writer, closed, channelClosed, events, loop, hand, counted>>

StopClose(s) ==
    /\ StopAt(s, "close", "unlock")
    /\ channelClosed' = TRUE
    /\ UNCHANGED <<emitting, once, writer, closed, events, loop, hand, counted>>

\* Mutant: the write lock is kept.
StopKeepLock(s) ==
    /\ StopAt(s, "unlock", "wait")
    /\ once' = "done"
    /\ UNCHANGED <<emitting, writer, closed, channelClosed, events, loop, hand, counted>>

StopUnlock(s) ==
    /\ StopAt(s, "unlock", "wait")
    /\ writer' = NoStopper
    /\ once' = "done"
    /\ UNCHANGED <<emitting, closed, channelClosed, events, loop, hand, counted>>

StopDone(s) ==
    /\ StopAt(s, "wait", "nil")
    /\ loop = "done"
    /\ UNCHANGED <<emitting, once, writer, closed, channelClosed, events, loop, hand, counted>>

\* The caller's context ends first, or at the same time.
StopTimeout(s) ==
    /\ StopAt(s, "wait", "timeout")
    /\ UNCHANGED <<emitting, once, writer, closed, channelClosed, events, loop, hand, counted>>

-----------------------------------------------------------------------------
(* The worker goroutine                                                    *)

Start ==
    /\ loop = "new"
    /\ loop' = "idle"
    /\ UNCHANGED <<emitting, stopping, once, writer, closed, channelClosed, events, hand, counted>>

Receive ==
    /\ loop = "idle"
    /\ events # <<>>
    /\ hand' = {Head(events)}
    /\ events' = Tail(events)
    /\ loop' = "busy"
    /\ UNCHANGED <<emitting, stopping, once, writer, closed, channelClosed, counted>>

ProcessEvent ==
    /\ loop = "busy"
    /\ counted' = [e \in Emitter |-> IF e \in hand THEN counted[e] + 1 ELSE counted[e]]
    /\ hand' = {}
    /\ loop' = "idle"
    /\ UNCHANGED <<emitting, stopping, once, writer, closed, channelClosed, events>>

\* Mutant: the loop ends as soon as the worker is closed.
LoopQuits ==
    /\ loop = "idle"
    /\ closed
    /\ loop' = "done"
    /\ UNCHANGED <<emitting, stopping, once, writer, closed, channelClosed, events, hand, counted>>

\* range ends when the channel is closed and empty; the deferred close(done).
LoopEnds ==
    /\ loop = "idle"
    /\ channelClosed
    /\ events = <<>>
    /\ loop' = "done"
    /\ UNCHANGED <<emitting, stopping, once, writer, closed, channelClosed, events, hand, counted>>

-----------------------------------------------------------------------------
Emit(e) == EmitLock(e) \/ EmitCheck(e) \/ EmitSend(e) \/ EmitDrop(e)

Shutdown(s) ==
    \/ StopOnce(s) \/ StopAnnounce(s) \/ StopLock(s) \/ StopClose(s) \/ StopUnlock(s)
    \/ StopDone(s)

Worker == Start \/ Receive \/ ProcessEvent \/ LoopEnds

Next ==
    \/ \E e \in Emitter : CallEmit(e) \/ Emit(e)
    \/ \E s \in Stopper : CallShutdown(s) \/ Shutdown(s) \/ StopTimeout(s)
    \/ Worker

Spec == Init /\ [][Next]_vars

\* The scheduler runs each goroutine that can take a step, and main starts the
\* worker before anything else (main.go:136).  A context need not end.
FairSpec ==
    /\ Spec
    /\ \A e \in Emitter : WF_vars(Emit(e))
    /\ \A s \in Stopper : WF_vars(Shutdown(s))
    /\ WF_vars(Worker)

-----------------------------------------------------------------------------
\* The types of the worker's state.
TypeOK ==
    /\ emitting \in [Emitter -> EmitLabel]
    /\ stopping \in [Stopper -> StopLabel]
    /\ once \in {"new", "running", "done"}
    /\ writer \in Stopper \cup {NoStopper}
    /\ closed \in BOOLEAN
    /\ channelClosed \in BOOLEAN
    /\ events \in Seq(Emitter)
    /\ Len(events) <= BufferSize
    /\ loop \in {"new", "idle", "busy", "done"}
    /\ hand \subseteq Emitter
    /\ counted \in [Emitter -> Nat]

\* An Emit that found the worker open never sends on a closed channel, and no
\* Shutdown closes it a second time: either would panic ("prevenir send on
\* closed channel", worker.go:49; "idempotente", worker.go:65).
NoPanic ==
    /\ \A e \in Emitter : emitting[e] = "send" => ~ channelClosed
    /\ \A s \in Stopper : stopping[s] = "close" => ~ channelClosed

InChannel(e) == \E i \in DOMAIN events : events[i] = e

\* An event that was sent is in exactly one place: once in the channel, in the
\* worker's hand, or counted once; any other event is in none.  The channel
\* (worker.go:57-62, 88) neither loses an event nor delivers one twice.
SentOnce ==
    /\ \A i, j \in DOMAIN events : events[i] = events[j] => i = j
    /\ \A e \in Emitter :
          /\ InChannel(e) => e \notin hand
          /\ InChannel(e) \/ e \in hand => emitting[e] = "sent"
          /\ counted[e] = IF emitting[e] = "sent" /\ ~ InChannel(e) /\ e \notin hand
                          THEN 1 ELSE 0

\* When the worker is done, and so when Shutdown returns nil, every event that
\* was sent has been counted, whatever was sent while Shutdown began ("drena
\* e processa todos os eventos previamente enfileirados", worker.go:67).
DrainedWhenDone ==
    /\ loop = "done" => \A e \in Emitter : emitting[e] = "sent" => counted[e] = 1
    /\ \A s \in Stopper : stopping[s] = "nil" => loop = "done"

\* A call of Emit never blocks for ever ("sem bloquear o fluxo chamador"), not on
\* a full channel and not on a Shutdown in progress, and the worker comes round
\* to counting what it took, whether or not it is ever shut down.
EmitSettles ==
    \A e \in Emitter :
        emitting[e] = "called" ~> emitting[e] \in {"dropped", "refused"} \/ counted[e] = 1

\* Shutdown gets its answer, without the help of a timeout.
ShutdownReturns == \A s \in Stopper : stopping[s] = "once" ~> stopping[s] \in Stopped

EventFate ==
    [e \in Emitter |->
        CASE emitting[e] \in {"dropped", "refused"} -> emitting[e]
          [] emitting[e] = "sent" -> IF counted[e] = 0 THEN "queued" ELSE "counted"
          [] OTHER -> "none"]

SinkState == IF loop = "done" THEN "done" ELSE IF closed THEN "closed" ELSE "open"

Sink == INSTANCE EventSink WITH Event <- Emitter, fate <- EventFate, sink <- SinkState

\* The lock, the flag, the channel and the two Onces together keep the promise:
\* no event is refused by an open worker, none is dropped while nothing waits,
\* and the worker ends with every one it took counted (worker.go:50-93).
ImplementsEventSink == Sink!Spec
=============================================================================
