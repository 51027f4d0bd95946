------------------------ MODULE TelemetryWorkerProofs ------------------------
(***************************************************************************)
(* What holds of the telemetry worker for any number of callers and any    *)
(* capacity of the channel.                                                *)
(*                                                                         *)
(* NoPanic is not inductive: that an Emit past its check meets an open     *)
(* channel rests on who holds the RWMutex, and that the worker is done     *)
(* only when every sent event is counted rests on NoPanic, because an      *)
(* event sent after the end of the loop would be lost.  LockInv states the *)
(* first part, DoneInv the second.                                         *)
(***************************************************************************)
EXTENDS TelemetryWorker, TLAPS, SequenceTheorems

Inside == {"lock", "close", "unlock"}

\* The state of stopOnce and of the RWMutex says which Shutdown is inside its
\* function and how far it is.
LockInv ==
    /\ \A s \in Stopper : stopping[s] \in Inside => once = "running"
    /\ \A s, t \in Stopper : stopping[s] \in Inside /\ stopping[t] \in Inside => s = t
    /\ \A s \in Stopper : stopping[s] \in {"close", "unlock"} =>
          writer = s /\ closed /\ Readers = {}
    /\ \A s \in Stopper : stopping[s] = "lock" => ~ closed
    /\ \A s \in Stopper : stopping[s] = "close" => ~ channelClosed
    /\ once = "new" => ~ closed
    /\ channelClosed => closed
    /\ \A e \in Emitter : emitting[e] = "send" => ~ closed

\* The worker ends with nothing left, and holds one event, while it is busy.
DoneInv ==
    /\ loop = "done" => channelClosed /\ events = <<>>
    /\ hand # {} => loop = "busy"
    /\ hand = {} \/ \E e : hand = {e}
    /\ \A s \in Stopper : stopping[s] = "nil" => loop = "done"

WorkerInv == TypeOK /\ LockInv /\ SentOnce /\ DoneInv

-----------------------------------------------------------------------------
(* The channel as a sequence                                               *)

LEMMA AppendElements ==
    ASSUME NEW S, NEW q \in Seq(S), NEW x \in S
    PROVE  /\ Append(q, x) \in Seq(S)
           /\ Len(Append(q, x)) = Len(q) + 1
           /\ DOMAIN Append(q, x) = DOMAIN q \cup {Len(q) + 1}
           /\ \A i \in DOMAIN q : Append(q, x)[i] = q[i]
           /\ Append(q, x)[Len(q) + 1] = x
           /\ Len(q) + 1 \notin DOMAIN q
  OBVIOUS

LEMMA TailElements ==
    ASSUME NEW S, NEW q \in Seq(S), q # <<>>
    PROVE  /\ Tail(q) \in Seq(S)
           /\ Len(Tail(q)) = Len(q) - 1
           /\ Head(q) = q[1]
           /\ 1 \in DOMAIN q
           /\ q[1] \in S
           /\ \A i \in DOMAIN Tail(q) : i + 1 \in DOMAIN q /\ Tail(q)[i] = q[i + 1]
           /\ \A i \in DOMAIN q : i # 1 => i - 1 \in DOMAIN Tail(q) /\ Tail(q)[i - 1] = q[i]
           /\ DOMAIN Tail(q) \subseteq Nat \ {0}
           /\ DOMAIN q \subseteq Nat \ {0}
  OBVIOUS

-----------------------------------------------------------------------------
LEMMA WorkerInitInv == Init => WorkerInv
  <1> SUFFICES ASSUME Init PROVE WorkerInv
    OBVIOUS
  <1>1. TypeOK
    <2>1. BufferSize \in Nat
      BY WorkerAssumption
    <2>2. events = <<>> /\ <<>> \in Seq(Emitter) /\ Len(<<>>) = 0
      BY DEF Init
    <2>3. events \in Seq(Emitter) /\ Len(events) <= BufferSize
      BY <2>1, <2>2
    <2>4. counted \in [Emitter -> Nat]
      BY DEF Init
    <2> QED BY <2>3, <2>4 DEF Init, TypeOK, EmitLabel, StopLabel
  <1>2. LockInv
    <2>1. ~ closed /\ ~ channelClosed
      BY DEF Init
    <2>2. \A s \in Stopper : stopping[s] = "idle"
      BY DEF Init
    <2> QED BY <2>1, <2>2 DEF LockInv, Inside
  <1>3. SentOnce
    BY DEF Init, SentOnce, InChannel
  <1>4. DoneInv
    BY DEF Init, DoneInv
  <1> QED BY <1>1, <1>2, <1>3, <1>4 DEF WorkerInv

\* Types: each action writes labels of its process and members of Emitter.
LEMMA WorkerTypeStep ==
    ASSUME TypeOK, [Next]_vars
    PROVE  TypeOK'
  <1> USE DEF TypeOK, EmitLabel, StopLabel, Reading, Emitted, Stopped, EmitAt, StopAt
  <1>1. ASSUME NEW e \in Emitter, CallEmit(e) \/ EmitLock(e) \/ EmitCheck(e) \/ EmitDrop(e)
        PROVE  TypeOK'
    BY <1>1 DEF CallEmit, EmitLock, EmitCheck, EmitDrop
  <1>2. ASSUME NEW e \in Emitter, EmitSend(e) PROVE TypeOK'
    <2>1. /\ Append(events, e) \in Seq(Emitter)
          /\ Len(Append(events, e)) = Len(events) + 1
      BY AppendElements
    <2>2. Len(events') <= BufferSize /\ events' \in Seq(Emitter)
      BY <1>2, <2>1, WorkerAssumption DEF EmitSend
    <2> QED BY <1>2, <2>2 DEF EmitSend
  <1>3. ASSUME NEW s \in Stopper,
               CallShutdown(s) \/ StopOnce(s) \/ StopDone(s) \/ StopTimeout(s)
        PROVE  TypeOK'
    BY <1>3 DEF CallShutdown, StopOnce, StopDone, StopTimeout
  <1>4. ASSUME NEW s \in Stopper,
               StopAnnounce(s) \/ StopLock(s) \/ StopClose(s) \/ StopUnlock(s)
        PROVE  TypeOK'
    BY <1>4 DEF StopAnnounce, StopLock, StopClose, StopUnlock
  <1>5. CASE Start \/ LoopEnds
    BY <1>5 DEF Start, LoopEnds
  <1>6. CASE Receive
    <2>1. events # <<>> BY <1>6 DEF Receive
    <2>2. /\ Tail(events) \in Seq(Emitter)
          /\ Len(Tail(events)) = Len(events) - 1
          /\ Head(events) \in Emitter
      BY <2>1, TailElements
    <2>3. events' \in Seq(Emitter) /\ Len(events') <= BufferSize /\ hand' \subseteq Emitter
      BY <1>6, <2>2, WorkerAssumption DEF Receive
    <2> QED BY <1>6, <2>3 DEF Receive
  <1>7. CASE ProcessEvent
    <2>1. counted' \in [Emitter -> Nat]
      BY <1>7 DEF ProcessEvent
    <2> QED BY <1>7, <2>1 DEF ProcessEvent
  <1>8. CASE UNCHANGED vars
    BY <1>8 DEF vars
  <1> QED BY <1>1, <1>2, <1>3, <1>4, <1>5, <1>6, <1>7, <1>8
          DEF Next, Emit, Shutdown, Worker

\* Who holds what: the emitters and the Shutdown calls exclude each other.
LEMMA WorkerLockStep ==
    ASSUME TypeOK, LockInv, [Next]_vars
    PROVE  LockInv'
  <1> USE DEF TypeOK, LockInv, Inside, Readers, Reading, Emitted, Stopped, EmitAt, StopAt
  <1>1. ASSUME NEW e \in Emitter, CallEmit(e) PROVE LockInv'
    BY <1>1 DEF CallEmit
  <1>2. ASSUME NEW e \in Emitter, EmitLock(e) PROVE LockInv'
    BY <1>2, WorkerAssumption DEF EmitLock
  <1>3. ASSUME NEW e \in Emitter, EmitCheck(e) PROVE LockInv'
    BY <1>3 DEF EmitCheck
  <1>4. ASSUME NEW e \in Emitter, EmitSend(e) \/ EmitDrop(e) PROVE LockInv'
    BY <1>4 DEF EmitSend, EmitDrop
  <1>5. ASSUME NEW s \in Stopper, CallShutdown(s) \/ StopDone(s) \/ StopTimeout(s)
        PROVE  LockInv'
    BY <1>5 DEF CallShutdown, StopDone, StopTimeout
  <1>6. ASSUME NEW s \in Stopper, StopOnce(s) PROVE LockInv'
    BY <1>6 DEF StopOnce
  <1>7. ASSUME NEW s \in Stopper, StopAnnounce(s) PROVE LockInv'
    BY <1>7, WorkerAssumption DEF StopAnnounce
  <1>8. ASSUME NEW s \in Stopper, StopLock(s) PROVE LockInv'
    BY <1>8 DEF StopLock
  <1>9. ASSUME NEW s \in Stopper, StopClose(s) PROVE LockInv'
    BY <1>9 DEF StopClose
  <1>10. ASSUME NEW s \in Stopper, StopUnlock(s) PROVE LockInv'
    BY <1>10 DEF StopUnlock
  <1>11. CASE Worker
    BY <1>11 DEF Worker, Start, Receive, ProcessEvent, LoopEnds
  <1>12. CASE UNCHANGED vars
    BY <1>12 DEF vars
  <1> QED BY <1>1, <1>2, <1>3, <1>4, <1>5, <1>6, <1>7, <1>8, <1>9, <1>10, <1>11, <1>12
          DEF Next, Emit, Shutdown

\* The worker ends after the last send: an Emit past its check excludes a
\* closed channel, so nothing arrives once the loop has ended.
LEMMA WorkerDoneStep ==
    ASSUME TypeOK, LockInv, DoneInv, [Next]_vars
    PROVE  DoneInv'
  <1> USE DEF TypeOK, DoneInv, EmitAt, StopAt
  <1>1. ASSUME NEW e \in Emitter, CallEmit(e) \/ EmitLock(e) \/ EmitCheck(e) \/ EmitDrop(e)
        PROVE  DoneInv'
    BY <1>1 DEF CallEmit, EmitLock, EmitCheck, EmitDrop
  <1>2. ASSUME NEW e \in Emitter, EmitSend(e) PROVE DoneInv'
    <2>1. ~ channelClosed BY <1>2 DEF EmitSend, LockInv
    <2> QED BY <1>2, <2>1 DEF EmitSend
  <1>3. ASSUME NEW s \in Stopper, CallShutdown(s) \/ Shutdown(s) \/ StopTimeout(s)
        PROVE  DoneInv'
    BY <1>3 DEF CallShutdown, Shutdown, StopOnce, StopAnnounce, StopLock, StopClose,
                StopUnlock, StopDone, StopTimeout
  <1>4. CASE Worker
    BY <1>4 DEF Worker, Start, Receive, ProcessEvent, LoopEnds
  <1>5. CASE UNCHANGED vars
    BY <1>5 DEF vars
  <1> QED BY <1>1, <1>2, <1>3, <1>4, <1>5 DEF Next, Emit

\* An event moves from its Emit to the channel, the hand and the count, and is
\* in one of the places at a time.
LEMMA WorkerSentStep ==
    ASSUME TypeOK, DoneInv, SentOnce, [Next]_vars
    PROVE  SentOnce'
  <1>1. ASSUME NEW e \in Emitter, CallEmit(e) \/ EmitLock(e) \/ EmitCheck(e) \/ EmitDrop(e)
        PROVE  SentOnce'
    <2>1. UNCHANGED <<events, hand, counted>>
      BY <1>1 DEF CallEmit, EmitLock, EmitCheck, EmitDrop
    <2>2. \A f \in Emitter : emitting'[f] = "sent" <=> emitting[f] = "sent"
      BY <1>1 DEF TypeOK, EmitAt, CallEmit, EmitLock, EmitCheck, EmitDrop
    <2> QED BY <2>1, <2>2 DEF SentOnce, InChannel
  <1>2. ASSUME NEW e \in Emitter, EmitSend(e) PROVE SentOnce'
    <2>1. /\ emitting[e] = "send"
          /\ emitting' = [emitting EXCEPT ![e] = "sent"]
          /\ events' = Append(events, e)
          /\ UNCHANGED <<hand, counted>>
      BY <1>2 DEF EmitSend, EmitAt
    <2>2. /\ DOMAIN events' = DOMAIN events \cup {Len(events) + 1}
          /\ \A i \in DOMAIN events : events'[i] = events[i]
          /\ events'[Len(events) + 1] = e
          /\ Len(events) + 1 \notin DOMAIN events
      BY <2>1, AppendElements DEF TypeOK
    <2>3. ~ InChannel(e) /\ e \notin hand /\ counted[e] = 0
      BY <2>1 DEF SentOnce
    <2>4. \A f \in Emitter : InChannel(f)' <=> InChannel(f) \/ f = e
      BY <2>2 DEF InChannel
    <2>5. \A f \in Emitter : emitting'[f] = IF f = e THEN "sent" ELSE emitting[f]
      BY <2>1 DEF TypeOK
    <2>6. \A i, j \in DOMAIN events' : events'[i] = events'[j] => i = j
      BY <2>2, <2>3 DEF SentOnce, InChannel
    <2>7. \A f \in Emitter :
            /\ InChannel(f)' => f \notin hand'
            /\ InChannel(f)' \/ f \in hand' => emitting'[f] = "sent"
            /\ counted'[f] = IF emitting'[f] = "sent" /\ ~ InChannel(f)' /\ f \notin hand'
                             THEN 1 ELSE 0
      BY <2>1, <2>3, <2>4, <2>5 DEF SentOnce
    <2> QED BY <2>6, <2>7 DEF SentOnce
  <1>3. ASSUME NEW s \in Stopper, CallShutdown(s) \/ Shutdown(s) \/ StopTimeout(s)
        PROVE  SentOnce'
    <2>1. UNCHANGED <<emitting, events, hand, counted>>
      BY <1>3 DEF CallShutdown, Shutdown, StopOnce, StopAnnounce, StopLock, StopClose,
                  StopUnlock, StopDone, StopTimeout
    <2> QED BY <2>1 DEF SentOnce, InChannel
  <1>4. CASE Start \/ LoopEnds
    <2>1. UNCHANGED <<emitting, events, hand, counted>>
      BY <1>4 DEF Start, LoopEnds
    <2> QED BY <2>1 DEF SentOnce, InChannel
  <1>5. CASE Receive
    <2> DEFINE x == Head(events)
    <2>1. /\ loop = "idle"
          /\ events # <<>>
          /\ hand' = {x}
          /\ events' = Tail(events)
          /\ UNCHANGED <<emitting, counted>>
      BY <1>5 DEF Receive
    <2>2. hand = {}
      BY <2>1 DEF DoneInv
    <2>3. /\ x = events[1]
          /\ 1 \in DOMAIN events
          /\ x \in Emitter
          /\ \A i \in DOMAIN events' : i + 1 \in DOMAIN events /\ events'[i] = events[i + 1]
          /\ \A i \in DOMAIN events :
                i # 1 => i - 1 \in DOMAIN events' /\ events'[i - 1] = events[i]
          /\ DOMAIN events' \subseteq Nat \ {0}
      BY <2>1, TailElements DEF TypeOK
    <2>4. InChannel(x)
      BY <2>3 DEF InChannel
    <2>5. \A i, j \in DOMAIN events' : events'[i] = events'[j] => i = j
      <3> SUFFICES ASSUME NEW i \in DOMAIN events', NEW j \in DOMAIN events',
                          events'[i] = events'[j]
                   PROVE  i = j
        OBVIOUS
      <3>1. events[i + 1] = events[j + 1] BY <2>3
      <3>2. i + 1 = j + 1 BY <2>3, <3>1 DEF SentOnce
      <3> QED BY <2>3, <3>2
    <2>6. \A i \in DOMAIN events' : events'[i] # x
      <3> SUFFICES ASSUME NEW i \in DOMAIN events', events'[i] = x PROVE FALSE
        OBVIOUS
      <3>1. events[i + 1] = events[1] /\ i + 1 \in DOMAIN events BY <2>3
      <3>2. i + 1 = 1 BY <2>3, <3>1 DEF SentOnce
      <3> QED BY <2>3, <3>2
    <2>7. \A f \in Emitter : InChannel(f)' <=> InChannel(f) /\ f # x
      <3> SUFFICES ASSUME NEW f \in Emitter PROVE InChannel(f)' <=> InChannel(f) /\ f # x
        OBVIOUS
      <3>1. InChannel(f)' => InChannel(f) /\ f # x
        BY <2>3, <2>6 DEF InChannel
      <3>2. ASSUME InChannel(f), f # x PROVE InChannel(f)'
        <4>1. PICK i \in DOMAIN events : events[i] = f BY <3>2 DEF InChannel
        <4>2. i # 1 BY <4>1, <3>2, <2>3
        <4>3. i - 1 \in DOMAIN events' /\ events'[i - 1] = f BY <4>1, <4>2, <2>3
        <4> QED BY <4>3 DEF InChannel
      <3> QED BY <3>1, <3>2
    <2>8. \A f \in Emitter :
            /\ InChannel(f)' => f \notin hand'
            /\ InChannel(f)' \/ f \in hand' => emitting'[f] = "sent"
            /\ counted'[f] = IF emitting'[f] = "sent" /\ ~ InChannel(f)' /\ f \notin hand'
                             THEN 1 ELSE 0
      <3> SUFFICES ASSUME NEW f \in Emitter
                   PROVE  /\ InChannel(f)' => f \notin hand'
                          /\ InChannel(f)' \/ f \in hand' => emitting'[f] = "sent"
                          /\ counted'[f] = IF /\ emitting'[f] = "sent"
                                              /\ ~ InChannel(f)'
                                              /\ f \notin hand'
                                           THEN 1 ELSE 0
        OBVIOUS
      <3> HIDE DEF x
      <3>1. f \in hand' <=> f = x BY <2>1
      <3>2. /\ InChannel(f) => emitting[f] = "sent"
            /\ counted[f] = IF emitting[f] = "sent" /\ ~ InChannel(f) THEN 1 ELSE 0
        BY <2>2 DEF SentOnce
      <3>3. emitting'[f] = emitting[f] /\ counted'[f] = counted[f] BY <2>1
      <3> QED BY <2>4, <2>7, <3>1, <3>2, <3>3
    <2> QED BY <2>5, <2>8 DEF SentOnce
  <1>6. CASE ProcessEvent
    <2>1. /\ hand' = {}
          /\ UNCHANGED <<emitting, events>>
          /\ \A f \in Emitter : counted'[f] = IF f \in hand THEN counted[f] + 1 ELSE counted[f]
      BY <1>6 DEF ProcessEvent
    <2>2. \A f \in Emitter : InChannel(f)' <=> InChannel(f)
      BY <2>1 DEF InChannel
    <2>3. \A f \in Emitter : f \in hand =>
            ~ InChannel(f) /\ counted[f] = 0 /\ emitting[f] = "sent"
      BY DEF SentOnce
    <2>4. \A f \in Emitter :
            counted'[f] = IF emitting'[f] = "sent" /\ ~ InChannel(f)' /\ f \notin hand'
                          THEN 1 ELSE 0
      BY <2>1, <2>2, <2>3 DEF SentOnce
    <2> QED BY <2>1, <2>2, <2>4 DEF SentOnce
  <1>7. CASE UNCHANGED vars
    BY <1>7 DEF vars, SentOnce, InChannel
  <1> QED BY <1>1, <1>2, <1>3, <1>4, <1>5, <1>6, <1>7 DEF Next, Emit, Worker

LEMMA WorkerInvariant == Spec => []WorkerInv
  <1>1. WorkerInv /\ [Next]_vars => WorkerInv'
    BY WorkerTypeStep, WorkerLockStep, WorkerDoneStep, WorkerSentStep DEF WorkerInv
  <1> QED BY <1>1, WorkerInitInv, PTL DEF Spec

-----------------------------------------------------------------------------
\* The worker's state has its types, and the channel never holds more than its
\* capacity.
THEOREM WorkerTypes == Spec => []TypeOK
  <1>1. WorkerInv => TypeOK BY DEF WorkerInv
  <1> QED BY <1>1, WorkerInvariant, PTL

\* No Emit sends on the closed channel and no Shutdown closes it again, for
\* any number of calls of either (worker.go:50-83).
THEOREM WorkerNeverPanics == Spec => []NoPanic
  <1>1. WorkerInv => NoPanic BY DEF WorkerInv, LockInv, NoPanic
  <1> QED BY <1>1, WorkerInvariant, PTL

\* An event that was sent is in the channel, in the worker's hand or counted,
\* in exactly one of the three.
THEOREM EventsSentOnce == Spec => []SentOnce
  <1>1. WorkerInv => SentOnce BY DEF WorkerInv
  <1> QED BY <1>1, WorkerInvariant, PTL

\* A Shutdown that returns nil has seen every sent event counted.
THEOREM ShutdownDrains == Spec => []DrainedWhenDone
  <1>1. WorkerInv => DrainedWhenDone
    <2> SUFFICES ASSUME WorkerInv PROVE DrainedWhenDone
      OBVIOUS
    <2>1. ASSUME loop = "done", NEW e \in Emitter, emitting[e] = "sent"
          PROVE  counted[e] = 1
      <3>1. events = <<>> /\ hand = {} BY <2>1 DEF WorkerInv, DoneInv
      <3>2. ~ InChannel(e) BY <3>1 DEF InChannel
      <3> QED BY <2>1, <3>1, <3>2 DEF WorkerInv, SentOnce
    <2> QED BY <2>1 DEF DrainedWhenDone, WorkerInv, DoneInv
  <1> QED BY <1>1, WorkerInvariant, PTL

-----------------------------------------------------------------------------
(* The refinement of EventSink.                                            *)

svars == <<EventFate, SinkState>>

\* Fates change only with an Emit or a count.
LEMMA SinkKept ==
    ASSUME emitting' = emitting, counted' = counted
    PROVE  EventFate' = EventFate
  BY DEF EventFate

LEMMA FateOf ==
    ASSUME NEW e \in Emitter
    PROVE  EventFate[e] = CASE emitting[e] \in {"dropped", "refused"} -> emitting[e]
                            [] emitting[e] = "sent" -> IF counted[e] = 0 THEN "queued" ELSE "counted"
                            [] OTHER -> "none"
  BY DEF EventFate

\* An Emit that ends gives its event a fate, and no other event one.
LEMMA FateGiven ==
    ASSUME WorkerInv, NEW e \in Emitter, NEW from, NEW to, NEW fate,
           EmitAt(e, from, to), counted' = counted,
           from \notin Emitted,
           \/ to \in {"dropped", "refused"} /\ fate = to
           \/ to = "sent" /\ counted[e] = 0 /\ fate = "queued"
           \/ to \notin Emitted /\ fate = "none"
    PROVE  /\ EventFate[e] = "none"
           /\ EventFate' = [EventFate EXCEPT ![e] = fate]
<1>1. emitting \in [Emitter -> EmitLabel]
    BY DEF WorkerInv, TypeOK
<1>2. emitting[e] = from /\ emitting' = [emitting EXCEPT ![e] = to]
    BY DEF EmitAt
<1>3. EventFate[e] = "none"
    BY <1>2, FateOf DEF Emitted
<1>4. \A f \in Emitter : EventFate'[f] = IF f = e THEN fate ELSE EventFate[f]
    BY <1>1, <1>2 DEF EventFate, Emitted
<1>5. DOMAIN EventFate = Emitter /\ DOMAIN EventFate' = Emitter
    BY DEF EventFate
<1>6. EventFate' = [f \in Emitter |-> EventFate'[f]]
    BY DEF EventFate
<1>7. EventFate = [f \in Emitter |-> EventFate[f]]
    BY DEF EventFate
<1>8. [EventFate EXCEPT ![e] = fate] = [f \in Emitter |-> IF f = e THEN fate ELSE EventFate[f]]
    BY <1>5
<1> HIDE DEF EventFate
<1> QED
    BY <1>3, <1>4, <1>6, <1>8

LEMMA SinkEmitStep ==
    ASSUME WorkerInv, NEW e \in Emitter, Emit(e)
    PROVE  [Sink!Next]_svars
<1>1. /\ counted' = counted /\ closed' = closed /\ loop' = loop
    BY DEF Emit, EmitLock, EmitCheck, EmitSend, EmitDrop
<1>2. SinkState' = SinkState
    BY <1>1 DEF SinkState
<1>3. LockInv /\ SentOnce /\ DoneInv /\ TypeOK
    BY DEF WorkerInv
<1>4. CASE EmitLock(e)
  <2>1. EventFate' = [EventFate EXCEPT ![e] = "none"] /\ EventFate[e] = "none"
      BY <1>1, <1>4, FateGiven DEF EmitLock, Emitted
  <2>2. EventFate' = EventFate
      BY <2>1 DEF EventFate
  <2> QED
      BY <1>2, <2>2 DEF svars
<1>5. CASE EmitCheck(e) /\ ~ closed
  <2>1. EventFate' = [EventFate EXCEPT ![e] = "none"] /\ EventFate[e] = "none"
      BY <1>1, <1>5, FateGiven DEF EmitCheck, Emitted
  <2>2. EventFate' = EventFate
      BY <2>1 DEF EventFate
  <2> QED
      BY <1>2, <2>2 DEF svars
<1>6. CASE EmitCheck(e) /\ closed
  <2>1. EventFate' = [EventFate EXCEPT ![e] = "refused"] /\ EventFate[e] = "none"
      BY <1>1, <1>6, FateGiven DEF EmitCheck, Emitted
  <2>2. SinkState # "open"
      BY <1>6 DEF SinkState
  <2>3. Sink!Refuse(e)
      BY <1>2, <2>1, <2>2 DEF Sink!Refuse, Sink!Settle
  <2> QED
      BY <2>3 DEF Sink!Next
<1>7. ASSUME emitting[e] = "send" PROVE SinkState = "open"
  <2>1. ~ closed
      BY <1>3, <1>7 DEF LockInv
  <2> QED
      BY <1>3, <2>1 DEF SinkState, LockInv, DoneInv
<1>8. CASE EmitSend(e)
  <2>1. counted[e] = 0
      BY <1>3, <1>8 DEF EmitSend, EmitAt, SentOnce
  <2>2. EventFate' = [EventFate EXCEPT ![e] = "queued"] /\ EventFate[e] = "none"
      BY <1>1, <1>8, <2>1, FateGiven DEF EmitSend, Emitted
  <2>3. Sink!Accept(e)
      BY <1>2, <1>7, <1>8, <2>2 DEF EmitSend, EmitAt, Sink!Accept, Sink!Settle
  <2> QED
      BY <2>3 DEF Sink!Next
<1>9. CASE EmitDrop(e)
  <2>1. EventFate' = [EventFate EXCEPT ![e] = "dropped"] /\ EventFate[e] = "none"
      BY <1>1, <1>9, FateGiven DEF EmitDrop, Emitted
  <2>2. Len(events) = BufferSize /\ BufferSize \in Nat \ {0} /\ events \in Seq(Emitter)
      BY <1>3, <1>9, WorkerAssumption DEF EmitDrop, TypeOK
  <2>3. 1 \in DOMAIN events /\ events[1] \in Emitter
      BY <2>2
  <2>4. PICK f \in Emitter : InChannel(f)
      BY <2>3 DEF InChannel
  <2>5. emitting[f] = "sent" /\ counted[f] = 0
      BY <1>3, <2>4 DEF SentOnce
  <2>6. EventFate[f] = "queued"
      BY <2>5, FateOf
  <2>7. Sink!Drop(e)
      BY <1>2, <1>7, <1>9, <2>1, <2>6
      DEF EmitDrop, EmitAt, Sink!Drop, Sink!Settle, Sink!Queued
  <2> QED
      BY <2>7 DEF Sink!Next
<1> QED
    BY <1>4, <1>5, <1>6, <1>8, <1>9 DEF Emit

LEMMA SinkStopStep ==
    ASSUME WorkerInv, NEW s \in Stopper, CallShutdown(s) \/ Shutdown(s) \/ StopTimeout(s)
    PROVE  [Sink!Next]_svars
<1>1. emitting' = emitting /\ counted' = counted /\ loop' = loop
    BY DEF CallShutdown, Shutdown, StopOnce, StopAnnounce, StopLock, StopClose, StopUnlock,
           StopDone, StopTimeout
<1>2. EventFate' = EventFate
    BY <1>1, SinkKept
<1>3. CASE StopLock(s)
  <2>1. ~ closed /\ closed' /\ loop # "done"
      BY <1>3 DEF WorkerInv, LockInv, DoneInv, StopLock, StopAt
  <2>2. SinkState = "open" /\ SinkState' = "closed"
      BY <1>1, <2>1 DEF SinkState
  <2> QED
      BY <1>2, <2>2 DEF Sink!Next, Sink!Close
<1>4. CASE ~ StopLock(s)
  <2>1. closed' = closed
      BY <1>4 DEF CallShutdown, Shutdown, StopOnce, StopAnnounce, StopClose, StopUnlock,
                  StopDone, StopTimeout
  <2> QED
      BY <1>1, <1>2, <2>1 DEF SinkState, svars
<1> QED
    BY <1>3, <1>4

LEMMA SinkWorkerStep ==
    ASSUME WorkerInv, Worker
    PROVE  [Sink!Next]_svars
<1>1. LockInv /\ SentOnce /\ DoneInv /\ TypeOK
    BY DEF WorkerInv
<1>2. CASE Start \/ Receive
  <2>1. emitting' = emitting /\ counted' = counted /\ SinkState' = SinkState
      BY <1>2 DEF Start, Receive, SinkState
  <2> QED
      BY <2>1, SinkKept DEF svars
<1>3. CASE ProcessEvent
  <2>1. /\ emitting' = emitting /\ SinkState' = SinkState
        /\ \A e \in Emitter : counted'[e] = IF e \in hand THEN counted[e] + 1 ELSE counted[e]
      BY <1>3 DEF ProcessEvent, SinkState
  <2>2. \A e \in hand : e \in Emitter /\ emitting[e] = "sent" /\ counted[e] = 0
      BY <1>1 DEF TypeOK, SentOnce
  <2>3. CASE hand = {}
    <3>1. \A e \in Emitter : counted'[e] = counted[e]
        BY <2>1, <2>3
    <3>2. EventFate' = EventFate
        BY <2>1, <3>1 DEF EventFate
    <3> QED
        BY <2>1, <3>2 DEF svars
  <2>4. CASE \E e : hand = {e}
    <3>1. PICK e \in Emitter : hand = {e}
        BY <2>2, <2>4
    <3>2. emitting[e] = "sent" /\ counted[e] = 0 /\ counted'[e] = 1
        BY <2>1, <2>2, <3>1
    <3>3. \A f \in Emitter : EventFate'[f] = IF f = e THEN "counted" ELSE EventFate[f]
        BY <2>1, <3>1, <3>2 DEF EventFate
    <3>4. /\ EventFate = [f \in Emitter |-> EventFate[f]]
          /\ EventFate' = [f \in Emitter |-> EventFate'[f]]
        BY DEF EventFate
    <3>5. EventFate[e] = "queued"
        BY <3>2, FateOf
    <3> HIDE DEF EventFate
    <3>6. EventFate' = [EventFate EXCEPT ![e] = "counted"]
        BY <3>3, <3>4
    <3>7. Sink!Count(e)
        BY <2>1, <3>5, <3>6 DEF Sink!Count, Sink!Settle
    <3> QED
        BY <3>7 DEF Sink!Next
  <2> QED
      BY <1>1, <1>3, <2>3, <2>4 DEF DoneInv
<1>4. CASE LoopEnds
  <2>1. /\ loop = "idle" /\ loop' = "done" /\ channelClosed /\ events = <<>>
        /\ emitting' = emitting /\ counted' = counted
      BY <1>4 DEF LoopEnds
  <2>2. SinkState = "closed" /\ SinkState' = "done"
      BY <1>1, <2>1 DEF SinkState, LockInv
  <2>3. \A e \in Emitter : EventFate[e] # "queued"
    <3> SUFFICES ASSUME NEW e \in Emitter, emitting[e] = "sent" PROVE counted[e] # 0
        BY FateOf DEF TypeOK
    <3>1. ~ InChannel(e) /\ e \notin hand
        BY <1>1, <2>1 DEF InChannel, DoneInv
    <3> QED
        BY <1>1, <3>1 DEF SentOnce
  <2>4. Sink!Finish
      BY <2>1, <2>2, <2>3, SinkKept DEF Sink!Finish, Sink!Queued
  <2> QED
      BY <2>4 DEF Sink!Next
<1> QED
    BY <1>2, <1>3, <1>4 DEF Worker

LEMMA SinkInit == Init => Sink!Init
<1> SUFFICES ASSUME Init PROVE Sink!Init
    OBVIOUS
<1>1. SinkState = "open"
    BY DEF Init, SinkState
<1>2. EventFate = [e \in Emitter |-> "none"]
    BY DEF Init, EventFate
<1> QED
    BY <1>1, <1>2 DEF Sink!Init

\* Every step of the worker is a step of the sink or none: what it promises of
\* an event holds for any number of callers and any capacity.
THEOREM WorkerImplementsEventSink == Spec => ImplementsEventSink
<1>1. ASSUME WorkerInv, [Next]_vars PROVE [Sink!Next]_svars
  <2>1. CASE UNCHANGED vars
      BY <2>1, SinkKept DEF vars, SinkState, svars
  <2>2. ASSUME NEW e \in Emitter, CallEmit(e) PROVE [Sink!Next]_svars
    <3>1. EventFate' = [EventFate EXCEPT ![e] = "none"] /\ EventFate[e] = "none"
        BY <1>1, <2>2, FateGiven DEF CallEmit, Emitted
    <3>2. EventFate' = EventFate
        BY <3>1 DEF EventFate
    <3> QED
        BY <2>2, <3>2 DEF CallEmit, SinkState, svars
  <2> QED
      BY <1>1, <2>1, <2>2, SinkEmitStep, SinkStopStep, SinkWorkerStep DEF Next
<1> QED
    BY SinkInit, WorkerInvariant, <1>1, PTL DEF Spec, ImplementsEventSink, Sink!Spec, svars
=============================================================================
