--------------------------- MODULE SimulatorProofs ---------------------------
(***************************************************************************)
(* Proofs about Simulator, for any number of devices and any flow.         *)
(*                                                                         *)
(* DeviceInv ties what the client knows of a device to what the API holds  *)
(* for it through the handler between them, which may outlive the client's *)
(* interest.  StopInv says what main may rely on at each point of its stop *)
(* unless server.Shutdown ran out of time.                                 *)
(***************************************************************************)
EXTENDS Simulator, TLAPS

Ended(c) == device[c] \in {"recorded", "gone"}

\* What the handler in hand has done for the device.
HandlerInv(c) ==
    /\ handler[c] = "none" => call[c] = 0
    /\ handler[c] \in {"sent"} \cup InHand => call[c] = step[c] + 1 /\ step[c] < Calls
    /\ handler[c] = "stored" => call[c] \in Notifying
    /\ handler[c] \in {"sent", "running"} => held[c] = step[c]
    /\ handler[c] \in {"stored", "ok"} => held[c] = step[c] + 1
    /\ held[c] \in {step[c], step[c] + 1}
    /\ handler[c] = "ok" /\ call[c] \in Notifying => fate[<<c, call[c]>>] # "none"

DeviceInv(c) ==
    /\ HandlerInv(c)
    /\ device[c] = "ready" => handler[c] = "none" /\ held[c] = step[c] /\ step[c] < Calls
    /\ device[c] = "asked" => handler[c] \in {"sent"} \cup InHand
    /\ Ended(c) <=> results[c] # "none"
    /\ results[c] = "completed" => step[c] = Calls /\ held[c] = Calls /\ handler[c] = "none"
    /\ \A k \in Notifying : k <= step[c] => fate[<<c, k>>] # "none"

RunInv ==
    /\ run # "waiting" => \A c \in Client : device[c] = "gone"
    /\ run = "reported" =>
          report = [completed |-> {c \in Client : results[c] = "completed"},
                    failed |-> {c \in Client : results[c] = "failed"}]

StopInv ==
    /\ main \in {"listening", "draining", "drained"} => sink = "open"
    /\ main = "closing" => sink # "open"
    /\ main \in {"drained", "closing"} \/ ending = "returned" \/ sink # "open" =>
          "http" \in errors \/ \A c \in Client : handler[c] \notin InHand
    /\ main \in {"listening", "draining"} => errors = {}
    /\ sink = "done" => \A e \in Event : fate[e] # "queued"
    /\ ending = "returned" => sink = "done" \/ "worker" \in errors
    /\ (\E e \in Event : fate[e] = "refused") => "http" \in errors

SimInv == TypeOK /\ (\A c \in Client : DeviceInv(c)) /\ RunInv /\ StopInv

-----------------------------------------------------------------------------
LEMMA TypeInit == Init => TypeOK
<1> SUFFICES ASSUME Init PROVE TypeOK
    OBVIOUS
<1>1. 0 \in 0..Calls
    BY FlowAssumption
<1>2. ApiTypeOK
    BY <1>1 DEF Init, ApiInit, ApiTypeOK, Alive, Telemetry!Init
<1> QED
    BY <1>1, <1>2 DEF Init, TypeOK

\* What a step of the telemetry worker or of a notification can do.
LEMMA FateStep ==
    ASSUME ApiTypeOK, NEW e \in Event,
           \/ Telemetry!Accept(e) \/ Telemetry!Drop(e)
           \/ Telemetry!Refuse(e) \/ Telemetry!Count(e)
    PROVE  /\ fate' \in [Event -> {"none", "queued", "counted", "dropped", "refused"}]
           /\ sink' = sink
           /\ fate'[e] # "none"
           /\ \A f \in Event : fate[f] # "none" => fate'[f] # "none"
           /\ \A f \in Event : fate'[f] = "queued" => fate[f] = "queued" \/ sink = "open"
           /\ \A f \in Event : fate'[f] = "refused" => fate[f] = "refused" \/ sink # "open"
  BY DEF ApiTypeOK, Telemetry!Accept, Telemetry!Drop, Telemetry!Refuse, Telemetry!Count,
         Telemetry!Settle

LEMMA NotifyStep ==
    ASSUME TypeOK, NEW c \in Client, DeviceInv(c), Notify(c)
    PROVE  /\ Alive /\ handler[c] = "stored" /\ handler' = [handler EXCEPT ![c] = "ok"]
           /\ UNCHANGED <<process, call, held>>
           /\ fate' \in [Event -> {"none", "queued", "counted", "dropped", "refused"}]
           /\ sink' = sink
           /\ fate'[<<c, call[c]>>] # "none"
           /\ \A f \in Event : fate[f] # "none" => fate'[f] # "none"
           /\ \A f \in Event : fate'[f] = "queued" => fate[f] = "queued" \/ sink = "open"
           /\ \A f \in Event : fate'[f] = "refused" => fate[f] = "refused" \/ sink # "open"
<1>1. handler[c] = "stored" /\ handler' = [handler EXCEPT ![c] = "ok"] /\ Alive
      /\ UNCHANGED <<process, call, held>>
    BY DEF Notify, Move
<1>2. <<c, call[c]>> \in Event
    BY <1>1 DEF DeviceInv, HandlerInv, Event
<1>3. \/ Telemetry!Accept(<<c, call[c]>>) \/ Telemetry!Drop(<<c, call[c]>>)
      \/ Telemetry!Refuse(<<c, call[c]>>)
    BY DEF Notify
<1> QED
    BY <1>1, <1>2, <1>3, FateStep DEF TypeOK

LEMMA CountStep ==
    ASSUME TypeOK, Count
    PROVE  /\ Alive /\ UNCHANGED <<process, handling>>
           /\ fate' \in [Event -> {"none", "queued", "counted", "dropped", "refused"}]
           /\ \A f \in Event : fate[f] # "none" => fate'[f] # "none"
           /\ \A f \in Event : fate'[f] = "refused" => fate[f] = "refused"
           /\ \A f \in Event : fate'[f] = "queued" => fate[f] = "queued"
           /\ \/ sink' = sink
              \/ sink = "closed" /\ sink' = "done" /\ \A f \in Event : fate'[f] # "queued"
<1>1. Alive /\ UNCHANGED <<process, handling>>
    BY DEF Count
<1>2. CASE Telemetry!Finish
    BY <1>1, <1>2 DEF TypeOK, ApiTypeOK, Telemetry!Finish, Telemetry!Queued
<1>3. ASSUME NEW e \in Event, Telemetry!Count(e)
      PROVE  fate[e] = "queued" /\ fate' = [fate EXCEPT ![e] = "counted"] /\ sink' = sink
    BY <1>3 DEF Telemetry!Count, Telemetry!Settle
<1>4. ASSUME NEW e \in Event, Telemetry!Count(e)
      PROVE  /\ fate' \in [Event -> {"none", "queued", "counted", "dropped", "refused"}]
             /\ \A f \in Event : fate[f] # "none" => fate'[f] # "none"
             /\ \A f \in Event : fate'[f] = "refused" => fate[f] = "refused"
             /\ \A f \in Event : fate'[f] = "queued" => fate[f] = "queued"
    BY <1>3, <1>4 DEF TypeOK, ApiTypeOK
<1> QED
    BY <1>1, <1>2, <1>3, <1>4 DEF Count

-----------------------------------------------------------------------------
(* Types                                                                   *)

LEMMA TypeNext ==
    ASSUME TypeOK, \A c \in Client : DeviceInv(c), [Next]_vars
    PROVE  TypeOK'
<1> USE DEF TypeOK, ApiTypeOK, Alive
<1>1. ASSUME NEW c \in Client, Ask(c) PROVE TypeOK'
  <2>1. step[c] + 1 \in 0..Calls
      BY <1>1, FlowAssumption, SMT DEF Ask, DeviceInv
  <2> QED
      BY <1>1, <2>1 DEF Ask, Send, Move, process, worker
<1>2. ASSUME NEW c \in Client, Respond(c) PROVE ApiTypeOK'
  <2>1. 0 \in 0..Calls
      BY FlowAssumption
  <2> QED
      BY <1>2, <2>1 DEF Respond, process, worker
<1>3. ASSUME NEW c \in Client, Answered(c) PROVE TypeOK'
  <2>1. step[c] < Calls /\ step[c] \in 0..Calls
      BY <1>3 DEF Answered, DeviceInv, HandlerInv, InHand
  <2>2. step[c] + 1 \in 0..Calls
      BY <2>1, FlowAssumption, SMT
  <2> QED
      BY <1>2, <1>3, <2>2 DEF Answered, Record
<1>4. ASSUME NEW c \in Client, Failed(c) \/ Discard(c) PROVE TypeOK'
    BY <1>2, <1>4 DEF Failed, Discard, Record, simulator
<1>5. ASSUME NEW c \in Client, Unanswered(c) \/ Leave(c) PROVE TypeOK'
  <2>1. ApiTypeOK'
      BY <1>5 DEF Unanswered, Leave, api, process, handling, worker
  <2> QED
      BY <1>5, <2>1 DEF Unanswered, Leave, Record
<1>6. ASSUME NEW c \in Client, Accept(c) \/ Carry(c) \/ Reject(c), UNCHANGED simulator
      PROVE  TypeOK'
  <2>1. ApiTypeOK'
    <3>1. held' \in [Client -> 0..Calls]
        BY <1>6 DEF Accept, Carry, Reject
    <3> QED
        BY <1>6, <3>1 DEF Accept, Carry, Reject, Move, InHand, process, worker
  <2> QED
      BY <1>6, <2>1 DEF simulator
<1>7. ASSUME NEW c \in Client, Notify(c), UNCHANGED simulator PROVE TypeOK'
    BY <1>7, NotifyStep DEF InHand, process, simulator
<1>8. CASE Count /\ UNCHANGED simulator
    BY <1>8, CountStep DEF process, handling, simulator
<1>9. CASE (Signal \/ Expire \/ Stop \/ Abort) /\ UNCHANGED simulator
    BY <1>9 DEF Signal, Expire, Stop, HttpStopped, HttpTimeout, CloseWorker, WorkerStopped,
                WorkerTimeout, Abort, Exit, Telemetry!Close, handling, worker, simulator
<1>10. CASE Wait \/ Report
  <2>1. ApiTypeOK'
      BY <1>10 DEF Wait, Report, api, process, handling, worker
  <2>2. report'.completed \subseteq Client /\ report'.failed \subseteq Client
      BY <1>10 DEF Wait, Report
  <2> QED
      BY <1>10, <2>1, <2>2 DEF Wait, Report
<1>11. CASE UNCHANGED vars
  <2>1. ApiTypeOK'
      BY <1>11 DEF vars, api, process, handling, worker
  <2> QED
      BY <1>11, <2>1 DEF vars, simulator
<1> QED
    BY <1>1, <1>2, <1>3, <1>5, <1>6, <1>7, <1>8, <1>9, <1>10, <1>11, <1>4 DEF Next, Device, Serve

-----------------------------------------------------------------------------
(* The device, and what the API holds for it                               *)

\* A step that leaves a device's goroutine and its call alone can only give its
\* events a fate.
LEMMA DeviceKept ==
    ASSUME NEW c \in Client, DeviceInv(c),
           device'[c] = device[c], step'[c] = step[c], results'[c] = results[c],
           call'[c] = call[c], handler'[c] = handler[c], held'[c] = held[c],
           \A f \in Event : fate[f] # "none" => fate'[f] # "none"
    PROVE  DeviceInv(c)'
<1>1. \A k \in Notifying : <<c, k>> \in Event
    BY DEF Event
<1>2. HandlerInv(c)'
    BY <1>1 DEF DeviceInv, HandlerInv
<1> QED
    BY <1>1, <1>2 DEF DeviceInv, Ended

LEMMA AskDevice ==
    ASSUME TypeOK, NEW c \in Client, DeviceInv(c), Ask(c)
    PROVE  DeviceInv(c)'
<1>1. /\ handler'[c] = "sent" /\ call'[c] = step[c] + 1 /\ held' = held
      /\ device[c] = "ready" /\ device'[c] = "asked"
      /\ step' = step /\ results' = results /\ fate' = fate
    BY DEF TypeOK, ApiTypeOK, Ask, Send, Move, worker
<1>2. HandlerInv(c)'
    BY <1>1 DEF DeviceInv, HandlerInv, InHand
<1> QED
    BY <1>1, <1>2 DEF DeviceInv, Ended, InHand

LEMMA AnsweredDevice ==
    ASSUME TypeOK, NEW c \in Client, DeviceInv(c), Answered(c)
    PROVE  DeviceInv(c)'
<1>1. /\ handler[c] = "ok" /\ handler'[c] = "none" /\ call'[c] = 0 /\ held' = held
      /\ device[c] = "asked" /\ step'[c] = step[c] + 1 /\ fate' = fate
    BY DEF TypeOK, ApiTypeOK, Answered, Respond, worker
<1>2. call[c] = step[c] + 1 /\ step[c] < Calls /\ held[c] = step[c] + 1 /\ step[c] \in Nat
    BY <1>1 DEF DeviceInv, HandlerInv, InHand, TypeOK
<1>3. HandlerInv(c)'
    BY <1>1, <1>2 DEF HandlerInv, InHand
<1>4. \A k \in Notifying : k <= step[c] + 1 => fate[<<c, k>>] # "none"
  <2>1. \A k \in Notifying : k <= step[c] + 1 => k <= step[c] \/ k = call[c]
      BY <1>2, FlowAssumption, SMT
  <2> QED
      BY <1>1, <2>1 DEF DeviceInv, HandlerInv
<1>5. results[c] = "none"
    BY <1>1 DEF DeviceInv, Ended, TypeOK
<1>6. CASE step[c] + 1 = Calls
  <2>1. device'[c] = "recorded" /\ results'[c] = "completed"
      BY <1>6 DEF Answered, Record, TypeOK
  <2> QED
      BY <1>1, <1>2, <1>3, <1>4, <1>6, <2>1 DEF DeviceInv, Ended
<1>7. CASE step[c] + 1 # Calls
  <2>1. device'[c] = "ready" /\ results'[c] = "none"
      BY <1>5, <1>7 DEF Answered, TypeOK
  <2>2. step[c] + 1 < Calls
      BY <1>2, <1>7, FlowAssumption, SMT
  <2> QED
      BY <1>1, <1>2, <1>3, <1>4, <2>1, <2>2 DEF DeviceInv, Ended
<1> QED
    BY <1>6, <1>7

\* A device that is given up keeps what was done for it, and the handler that
\* may still do more.
LEMMA GivenUpDevice ==
    ASSUME TypeOK, NEW c \in Client, DeviceInv(c), Failed(c) \/ Unanswered(c)
    PROVE  DeviceInv(c)'
<1>1. /\ device'[c] = "recorded" /\ results'[c] = "failed"
      /\ step' = step /\ held' = held /\ fate' = fate
    BY DEF TypeOK, Failed, Unanswered, Record, Respond, api, handling, worker
<1>2. HandlerInv(c)'
  <2>1. \/ handler'[c] = "none" /\ call'[c] = 0
        \/ handler' = handler /\ call' = call
      BY DEF TypeOK, ApiTypeOK, Failed, Unanswered, Respond, api, handling
  <2> QED
      BY <1>1, <2>1 DEF DeviceInv, HandlerInv, InHand
<1> QED
    BY <1>1, <1>2 DEF DeviceInv, Ended

LEMMA ServeDevice ==
    ASSUME TypeOK, NEW c \in Client, DeviceInv(c), Serve(c) \/ Discard(c), UNCHANGED simulator
    PROVE  DeviceInv(c)'
<1>1. device' = device /\ step' = step /\ results' = results
    BY DEF simulator
<1>6. CASE Accept(c)
  <2>1. /\ handler[c] = "sent" /\ handler'[c] = "running" /\ call' = call
        /\ held' = held /\ fate' = fate
      BY <1>6 DEF TypeOK, ApiTypeOK, Accept, Move, worker
  <2>2. HandlerInv(c)'
      BY <1>1, <2>1 DEF DeviceInv, HandlerInv, InHand
  <2> QED
      BY <1>1, <2>1, <2>2 DEF DeviceInv, Ended, InHand
<1>2. CASE Carry(c)
  <2>1. /\ handler[c] = "running" /\ call' = call /\ held'[c] = call[c] /\ fate' = fate
        /\ handler'[c] = IF call[c] \in Notifying THEN "stored" ELSE "ok"
      BY <1>2 DEF TypeOK, ApiTypeOK, Carry, Move, worker
  <2>2. HandlerInv(c)'
      BY <1>1, <2>1 DEF DeviceInv, HandlerInv, InHand
  <2> QED
      BY <1>1, <2>1, <2>2 DEF DeviceInv, Ended, InHand
<1>3. CASE Reject(c)
  <2>1. /\ handler[c] = "running" /\ call' = call /\ fate' = fate
        /\ handler'[c] = "error"
        /\ held'[c] = call[c] \/ held'[c] = held[c]
      BY <1>3 DEF TypeOK, ApiTypeOK, Reject, Move, worker
  <2>2. HandlerInv(c)'
      BY <1>1, <2>1 DEF DeviceInv, HandlerInv, InHand
  <2> QED
      BY <1>1, <2>1, <2>2 DEF DeviceInv, Ended, InHand
<1>4. CASE Notify(c)
  <2>1. /\ handler[c] = "stored" /\ handler'[c] = "ok" /\ call' = call /\ held' = held
        /\ fate'[<<c, call[c]>>] # "none"
        /\ \A f \in Event : fate[f] # "none" => fate'[f] # "none"
      BY <1>4, NotifyStep DEF TypeOK, ApiTypeOK
  <2>2. HandlerInv(c)'
      BY <1>1, <2>1 DEF DeviceInv, HandlerInv, InHand
  <2>3. \A k \in Notifying : <<c, k>> \in Event
      BY DEF Event
  <2> QED
      BY <1>1, <2>1, <2>2, <2>3 DEF DeviceInv, Ended, InHand
<1>5. CASE Discard(c)
  <2>1. /\ handler'[c] = "none" /\ call'[c] = 0 /\ held' = held /\ fate' = fate
        /\ device[c] # "asked"
      BY <1>5 DEF TypeOK, ApiTypeOK, Discard, Respond, worker
  <2>2. HandlerInv(c)'
      BY <1>1, <2>1 DEF DeviceInv, HandlerInv, InHand
  <2> QED
      BY <1>1, <2>1, <2>2 DEF DeviceInv, Ended
<1> QED
    BY <1>2, <1>3, <1>4, <1>5, <1>6 DEF Serve

\* A step of one device leaves another's goroutine and call alone.
LEMMA OtherDevice ==
    ASSUME TypeOK, NEW c \in Client, NEW d \in Client, c # d, DeviceInv(c), DeviceInv(d),
           Device(d) \/ (Serve(d) /\ UNCHANGED simulator) \/ Discard(d)
    PROVE  DeviceInv(c)'
<1>1. /\ device'[c] = device[c] /\ step'[c] = step[c] /\ results'[c] = results[c]
    BY DEF TypeOK, Device, Ask, Answered, Failed, Unanswered, Leave, Record, Serve, Discard,
           simulator
<1>2. \/ call'[c] = call[c] /\ handler'[c] = handler[c] /\ held'[c] = held[c] /\ fate' = fate
      \/ Notify(d)
    BY DEF TypeOK, ApiTypeOK, Device, Ask, Answered, Failed, Unanswered, Leave, Serve, Discard,
           Send, Accept, Respond, Carry, Reject, Move, api, handling, worker
<1>3. CASE Notify(d)
  <2>1. /\ handler' = [handler EXCEPT ![d] = "ok"] /\ call' = call /\ held' = held
        /\ \A f \in Event : fate[f] # "none" => fate'[f] # "none"
      BY <1>3, NotifyStep
  <2>2. handler'[c] = handler[c]
      BY <2>1 DEF TypeOK, ApiTypeOK
  <2> QED
      BY <1>1, <2>1, <2>2, DeviceKept
<1> QED
    BY <1>1, <1>2, <1>3, DeviceKept

LEMMA DeviceNext ==
    ASSUME TypeOK, \A c \in Client : DeviceInv(c), [Next]_vars
    PROVE  \A c \in Client : DeviceInv(c)'
<1> SUFFICES ASSUME NEW c \in Client PROVE DeviceInv(c)'
    OBVIOUS
<1>1. CASE Leave(c)
    BY <1>1 DEF Leave, TypeOK, DeviceInv, HandlerInv, Ended, api, handling, worker
<1>2. ASSUME NEW d \in Client,
             Device(d) \/ (Serve(d) /\ UNCHANGED simulator) \/ Discard(d)
      PROVE  DeviceInv(c)'
  <2>1. CASE d # c
      BY <1>2, <2>1, OtherDevice
  <2>2. CASE d = c
      BY <1>1, <1>2, <2>2, AskDevice, AnsweredDevice, GivenUpDevice, ServeDevice
      DEF Device, Discard
  <2> QED
      BY <2>1, <2>2
<1>3. CASE (Count \/ Signal \/ Expire \/ Stop \/ Abort) /\ UNCHANGED simulator
  <2>1. UNCHANGED <<handling, simulator>>
      BY <1>3 DEF Count, Signal, Expire, Stop, HttpStopped, HttpTimeout, CloseWorker,
                  WorkerStopped, WorkerTimeout, Abort
  <2>2. \A f \in Event : fate[f] # "none" => fate'[f] # "none"
    <3>1. CASE Count
        BY <3>1, CountStep
    <3>2. CASE Signal \/ Expire \/ Stop \/ Abort
        BY <3>2 DEF Signal, Expire, Stop, HttpStopped, HttpTimeout, CloseWorker, WorkerStopped,
                    WorkerTimeout, Abort, Telemetry!Close, worker
    <3> QED
        BY <1>3, <3>1, <3>2
  <2> QED
      BY <2>1, <2>2, DeviceKept DEF handling, simulator
<1>4. CASE Wait \/ Report \/ UNCHANGED vars
    BY <1>4, DeviceKept DEF Wait, Report, vars, api, handling, worker, simulator
<1> QED
    BY <1>2, <1>3, <1>4 DEF Next

-----------------------------------------------------------------------------
(* Run and main                                                            *)

LEMMA RunNext ==
    ASSUME TypeOK, \A c \in Client : DeviceInv(c), RunInv, [Next]_vars
    PROVE  RunInv'
<1>1. CASE Wait
    BY <1>1 DEF Wait, RunInv
<1>2. CASE Report
    BY <1>2 DEF Report, RunInv
<1>3. CASE UNCHANGED simulator
    BY <1>3 DEF simulator, RunInv
<1>4. ASSUME NEW c \in Client, Device(c) PROVE RunInv'
  <2>1. run' = run /\ report' = report
      BY <1>4 DEF Device, Ask, Answered, Failed, Unanswered, Leave
  <2>2. device[c] # "gone"
      BY <1>4 DEF Device, Ask, Answered, Failed, Unanswered, Leave
  <2> QED
      BY <2>1, <2>2 DEF RunInv, TypeOK
<1> QED
    BY <1>1, <1>2, <1>3, <1>4 DEF Next, Discard, vars

\* No handler starts after a server.Shutdown that has returned nil.
LEMMA HandlersStay ==
    ASSUME TypeOK, [Next]_vars, main \notin {"listening", "draining"}, "http" \notin errors
    PROVE  \A c \in Client : handler[c] \notin InHand => handler'[c] \notin InHand
<1> USE DEF TypeOK, ApiTypeOK, InHand
<1>1. ASSUME NEW c \in Client, NEW d \in Client, handler[d] \notin InHand,
             Answered(c) \/ Failed(c) \/ Discard(c)
      PROVE  handler'[d] \notin InHand
    BY <1>1 DEF Answered, Failed, Discard, Respond
<1>2. ASSUME NEW c \in Client, NEW d \in Client, handler[d] \notin InHand, Serve(c)
      PROVE  handler'[d] \notin InHand
    BY <1>2 DEF Serve, Accept, Carry, Reject, Notify, Move
<1>3. ASSUME NEW c \in Client, Unanswered(c) \/ Leave(c) PROVE handler' = handler
    BY <1>3 DEF Unanswered, Leave, api, handling
<1>4. ASSUME NEW c \in Client PROVE ~ Ask(c)
    BY DEF Ask, Send
<1>5. CASE Count \/ Signal \/ Expire \/ Stop \/ Abort \/ Wait \/ Report \/ UNCHANGED vars
    BY <1>5 DEF Count, Signal, Expire, Stop, HttpStopped, HttpTimeout, CloseWorker,
                WorkerStopped, WorkerTimeout, Abort, Wait, Report, vars, api, handling
<1> QED
    BY <1>1, <1>2, <1>3, <1>4, <1>5 DEF Next, Device

LEMMA StopNext ==
    ASSUME SimInv, [Next]_vars
    PROVE  StopInv'
<1> USE DEF SimInv
<1>1. ApiTypeOK
    BY DEF TypeOK
<1>2. main \in {"listening", "draining"} \/ "http" \in errors
      \/ \A c \in Client : handler[c] \notin InHand => handler'[c] \notin InHand
    BY HandlersStay
<1>3. ASSUME UNCHANGED <<process, worker>> PROVE StopInv'
  <2>1. main \in {"listening", "draining"} => sink = "open" /\ errors = {} /\ ending = "none"
      BY <1>1 DEF StopInv, ApiTypeOK, Alive
  <2> QED
      BY <1>2, <1>3, <2>1 DEF StopInv, process, worker
<1>4. ASSUME NEW c \in Client, Ask(c) \/ Answered(c) \/ Failed(c) \/ Unanswered(c) \/ Leave(c)
                               \/ Discard(c) \/ Accept(c) \/ Carry(c) \/ Reject(c)
      PROVE  StopInv'
  <2>1. UNCHANGED <<process, worker>>
      BY <1>4 DEF Ask, Answered, Failed, Unanswered, Leave, Discard, Carry, Reject, Accept, Send,
                  Respond, api
  <2> QED
      BY <1>3, <2>1
<1>5. ASSUME NEW c \in Client, Notify(c) PROVE StopInv'
  <2>1. /\ handler[c] = "stored" /\ UNCHANGED process /\ sink' = sink
        /\ \A f \in Event : fate'[f] = "queued" => fate[f] = "queued" \/ sink = "open"
        /\ \A f \in Event : fate'[f] = "refused" => fate[f] = "refused" \/ sink # "open"
        /\ handler[c] \in InHand
      BY <1>5, NotifyStep DEF InHand
  <2>2. main = "listening" => sink = "open" /\ errors = {} /\ ending = "none"
      BY <1>1 DEF StopInv, ApiTypeOK, Alive
  <2> QED
      BY <1>2, <2>1, <2>2 DEF StopInv, process
<1>6. CASE Count
  <2>1. /\ UNCHANGED <<process, handling>>
        /\ \A f \in Event : fate'[f] = "refused" => fate[f] = "refused"
        /\ \A f \in Event : fate'[f] = "queued" => fate[f] = "queued"
        /\ \/ sink' = sink
           \/ sink = "closed" /\ sink' = "done" /\ \A f \in Event : fate'[f] # "queued"
      BY <1>6, CountStep
  <2> QED
      BY <2>1 DEF StopInv, process, handling
<1>7. CASE Signal \/ Expire \/ Abort
  <2>1. UNCHANGED <<errors, handling, worker>>
      BY <1>7 DEF Signal, Expire, Abort
  <2>2. CASE Signal \/ Expire
      BY <2>1, <2>2 DEF Signal, Expire, StopInv, handling, worker
  <2>3. CASE Abort
    <3>1. main' = "exited" /\ ending' = "aborted"
        BY <2>3 DEF Abort, Exit
    <3> QED
        BY <2>1, <3>1 DEF StopInv, handling, worker
  <2> QED
      BY <1>7, <2>2, <2>3
<1>8. CASE HttpStopped \/ HttpTimeout
    BY <1>8 DEF HttpStopped, HttpTimeout, StopInv, handling, worker
<1>9. CASE CloseWorker
    BY <1>9 DEF CloseWorker, Telemetry!Close, StopInv, handling
<1>10. CASE WorkerStopped \/ WorkerTimeout
    BY <1>10 DEF WorkerStopped, WorkerTimeout, Exit, StopInv, handling, worker
<1>11. CASE Wait \/ Report \/ UNCHANGED vars
    BY <1>3, <1>11 DEF Wait, Report, vars, api
<1> QED
    BY <1>4, <1>5, <1>6, <1>7, <1>8, <1>9, <1>10, <1>11 DEF Next, Device, Serve, Stop

LEMMA SimInit == Init => SimInv
<1> SUFFICES ASSUME Init PROVE SimInv
    OBVIOUS
<1>1. 0 < Calls /\ \A k \in Notifying : ~ (k <= 0)
    BY FlowAssumption, SMT
<1>2. ASSUME NEW c \in Client PROVE DeviceInv(c)
    BY <1>1 DEF Init, ApiInit, DeviceInv, HandlerInv, Ended, InHand
<1>3. RunInv
    BY DEF Init, RunInv
<1>4. StopInv
    BY DEF Init, ApiInit, Telemetry!Init, StopInv, InHand
<1> QED
    BY TypeInit, <1>2, <1>3, <1>4 DEF SimInv

LEMMA SimAlways == Spec => []SimInv
<1>1. SimInv /\ [Next]_vars => SimInv'
    BY TypeNext, DeviceNext, RunNext, StopNext DEF SimInv
<1> QED
    BY SimInit, <1>1, PTL DEF Spec

-----------------------------------------------------------------------------
\* The process and the simulator stay within their types: no device makes a
\* call its flow does not have.
THEOREM SimulatorTypes == Spec => []TypeOK
<1>1. SimInv => TypeOK
    BY DEF SimInv
<1> QED
    BY SimAlways, <1>1, PTL

\* What the simulator records and reports of a device is what the API holds,
\* for any number of devices, whatever calls are given up or cut.
THEOREM ReportIsTrue == Spec => []ReportAgreesWithApi
<1>1. SimInv => ReportAgreesWithApi
  <2> SUFFICES ASSUME SimInv PROVE ReportAgreesWithApi
      OBVIOUS
  <2> USE DEF SimInv
  <2>1. ASSUME NEW c \in Client
        PROVE  /\ results[c] = "completed" =>
                     held[c] = Calls /\ \A k \in Notifying : fate[<<c, k>>] # "none"
               /\ results[c] = "failed" => held[c] \in {step[c], step[c] + 1}
    <3>1. DeviceInv(c) /\ HandlerInv(c)
        BY DEF DeviceInv
    <3>2. \A k \in Notifying : k <= Calls
        BY FlowAssumption, SMT
    <3> QED
        BY <3>1, <3>2 DEF DeviceInv, HandlerInv
  <2>2. ASSUME run = "reported"
        PROVE  /\ report.completed \cup report.failed = Client
               /\ report.completed \cap report.failed = {}
               /\ \A c \in report.completed : held[c] = Calls
    <3>1. /\ report.completed = {c \in Client : results[c] = "completed"}
          /\ report.failed = {c \in Client : results[c] = "failed"}
          /\ \A c \in Client : device[c] = "gone"
        BY <2>2 DEF RunInv
    <3>2. \A c \in Client : results[c] \in {"completed", "failed"}
        BY <3>1 DEF DeviceInv, Ended, TypeOK
    <3> QED
        BY <2>1, <3>1, <3>2
  <2> QED
      BY <2>1, <2>2 DEF ReportAgreesWithApi
<1> QED
    BY SimAlways, <1>1, PTL

\* An API that stops without an error has answered every call it took and lost
\* no event, and only the end of the 5 s lets a handler meet a closed worker.
THEOREM QuietStop == Spec => []QuietStopLosesNothing
<1>1. SimInv => QuietStopLosesNothing
  <2> SUFFICES ASSUME SimInv PROVE QuietStopLosesNothing
      OBVIOUS
  <2> USE DEF SimInv
  <2>1. ASSUME ending = "returned", errors = {}
        PROVE  /\ \A c \in Client : handler[c] \notin InHand
               /\ \A e \in Event : fate[e] # "none" => fate[e] \in Settled
    <3>1. \A c \in Client : handler[c] \notin InHand
        BY <2>1 DEF StopInv
    <3>2. \A e \in Event : fate[e] # "queued" /\ fate[e] # "refused"
        BY <2>1 DEF StopInv
    <3> QED
        BY <3>1, <3>2 DEF TypeOK, ApiTypeOK, Settled
  <2> QED
      BY <2>1 DEF QuietStopLosesNothing, StopInv
<1> QED
    BY SimAlways, <1>1, PTL
=============================================================================
