------------------------ MODULE SessionServiceProofs ------------------------
(***************************************************************************)
(* Proofs about SessionService, for every number of requests, devices,     *)
(* cells, addresses and restarts.  Who is inside a critical section and    *)
(* what it may write (ControlInv) is proved also when a write may take     *)
(* effect and be answered with an error; who owns an address (AddressInv)  *)
(* only when none does (AmbiguousWrites is FALSE).                         *)
(***************************************************************************)
EXTENDS SessionService, IPPoolProofs

\* What a handler's local variables hold at each point of its code: they are
\* read under the device's mutex and nobody changes the row meanwhile.
HandlerOK(r) ==
    /\ pc[r] = "idle" => session[r] = NoSession
    /\ pc[r] \in {"wait"} \cup Critical => call[r] \in Call
    /\ call[r].op = "attach" =>
         /\ pc[r] \in {"wait", "locked", "store"} => session[r] = NoSession
         /\ pc[r] \in {"store", "undo"} =>
              /\ copy[r] \in Session /\ copy[r].id = r
              /\ copy[r].device = call[r].device /\ copy[r].status = "CONNECTED"
         /\ pc[r] \in {"free", "report_stale", "report"} => copy[r] \in Session
         /\ pc[r] \in {"free", "report_stale"} => stale[r] \in Session
    /\ call[r].op \in {"handover", "detach"} /\ pc[r] \in {"wait"} \cup Critical =>
         /\ session[call[r].session] \in Session
         /\ session[call[r].session].device = call[r].device
    /\ call[r].op = "handover" /\ pc[r] = "store" =>
         /\ Connected(call[r].session)
         /\ copy[r] = Moved(session[call[r].session], call[r].cell)
    /\ call[r].op = "detach" /\ pc[r] = "store" =>
         /\ Connected(call[r].session)
         /\ copy[r] = Closed(session[call[r].session], "VOLUNTARY_DETACH")
    /\ call[r].op \in {"handover", "detach"} /\ pc[r] \in {"free", "report"} =>
         copy[r] \in Session

HandlerInv == \A r \in Request : HandlerOK(r)

ControlInv ==
    /\ PoolInv
    /\ ServiceTypeOK
    /\ HandlerInv
    /\ DeviceExclusive
    /\ OneActivePerDevice

AddressInv == AddressesExclusive /\ AllocatedIsOwned

\* A request inside the critical section names a device, and it alone is in.
LEMMA Inside ==
    ASSUME ControlInv, NEW r \in Request, pc[r] \in Critical
    PROVE  /\ call[r] \in Call /\ call[r].device \in Device /\ call[r].session \in Request
           /\ lock[call[r].device] = r
           /\ \A q \in Request : pc[q] \in Critical /\ q # r => call[q].device # call[r].device
  BY DEF ControlInv, HandlerInv, HandlerOK, DeviceExclusive, Call

\* The steps inside, and the step out, leave no mutex held by nobody.
LEMMA StepInside ==
    ASSUME ControlInv, NEW r \in Request, pc[r] \in Critical,
           NEW label \in Critical, Goto(r, label), UNCHANGED <<lock, call>>
    PROVE  DeviceExclusive'
  BY DEF ControlInv, ServiceTypeOK, DeviceExclusive, Goto

LEMMA StepOut ==
    ASSUME ControlInv, NEW r \in Request, pc[r] \in Critical,
           NEW answer \in Answered, Return(r, answer), UNCHANGED call
    PROVE  DeviceExclusive'
<1>1. /\ pc' = [pc EXCEPT ![r] = answer]
      /\ lock' = [lock EXCEPT ![call[r].device] = NoRequest]
      /\ answer \notin Critical
  BY DEF Return, Goto, Answered, Critical
<1>2. \A q \in Request : pc'[q] \in Critical => lock'[call'[q].device] = q
  BY <1>1, Inside DEF ControlInv, ServiceTypeOK, DeviceExclusive
<1>3. \A d \in Device : lock'[d] # NoRequest =>
          pc'[lock'[d]] \in Critical /\ call'[lock'[d]].device = d
  BY <1>1, Inside DEF ControlInv, ServiceTypeOK, DeviceExclusive
<1>. QED
  BY <1>2, <1>3 DEF DeviceExclusive

\* PoolInv only speaks of the pool.
LEMMA PoolUnchanged ==
    ASSUME ControlInv, UNCHANGED poolVars
    PROVE  PoolInv'
  BY DEF ControlInv, PoolInv, PoolTypeOK, NoDoubleBooking, Issued, poolVars

LEMMA TableUnchanged ==
    ASSUME ControlInv, UNCHANGED session
    PROVE  OneActivePerDevice'
  BY DEF ControlInv, OneActivePerDevice, Connected

\* The values a handler builds are sessions.
LEMMA NewSessionTyped ==
    ASSUME NEW id \in Request, NEW d \in Device, NEW c \in Cell, NEW ip \in Address
    PROVE  LET s == NewSession(id, d, c, ip) IN
             s \in Session /\ s.id = id /\ s.device = d /\ s.ip = ip /\ s.status = "CONNECTED"
  BY DEF NewSession, Session

LEMMA MovedTyped ==
    ASSUME NEW s \in Session, NEW c \in Cell
    PROVE  LET m == Moved(s, c) IN
             m \in Session /\ m.id = s.id /\ m.device = s.device /\ m.ip = s.ip /\ m.status = s.status
  BY DEF Moved, Session

LEMMA ClosedTyped ==
    ASSUME NEW s \in Session, NEW why \in {"VOLUNTARY_DETACH", "STALE_DISCONNECT"}
    PROVE  LET m == Closed(s, why) IN
             m \in Session /\ m.id = s.id /\ m.device = s.device /\ m.ip = s.ip /\ m.status = "DISCONNECTED"
  BY DEF Closed, Session

LEMMA ConnectedTyped ==
    ASSUME ServiceTypeOK, NEW s \in Request
    PROVE  /\ NoSession.status = "ABSENT"
           /\ NoSession \notin Session
           /\ session[s] \in Session <=> session[s] # NoSession
           /\ Connected(s) => session[s] \in Session
<1>1. NoSession.status = "ABSENT" /\ \A x \in Session : x.status # "ABSENT"
  BY DEF NoSession, Session
<1>. QED
  BY <1>1 DEF ServiceTypeOK, Connected

LEMMA EmitTyped ==
    ASSUME ServiceTypeOK, NEW kind \in EventKind, NEW s \in Session, Emit(kind, s)
    PROVE  log' \in [Device -> Seq([kind : EventKind, session : Request, cell : Cell])]
<1>. DEFINE Event == [kind : EventKind, session : Request, cell : Cell]
            e == [kind |-> kind, session |-> s.id, cell |-> s.cell]
<1>1. e \in Event /\ s.device \in Device
  BY DEF Session
<1>2. log \in [Device -> Seq(Event)] /\ log' = [log EXCEPT ![s.device] = Append(@, e)]
  BY DEF ServiceTypeOK, Emit
<1>. HIDE DEF Event, e
<1>3. Append(log[s.device], e) \in Seq(Event)
  BY <1>1, <1>2, AppendProperties
<1>4. log' \in [Device -> Seq(Event)]
  BY <1>2, <1>3
<1>. QED
  BY <1>4 DEF Event

\* A step of r changes no row but those of the device r has locked, adds no row
\* but the one r names, and moves no row to another device.
RowsKept(r) ==
    \A t \in Request :
      /\ session[t] \in Session =>
           session'[t] \in Session /\ session'[t].device = session[t].device
      /\ session[t] \in Session /\ session'[t] # session[t] =>
           session[t].device = call[r].device
      /\ session[t] = NoSession => session'[t] = NoSession \/ t = r

\* Such a step leaves every other handler's locals true.
LEMMA OthersUndisturbed ==
    ASSUME ControlInv, NEW r \in Request, pc[r] \in Critical,
           NEW q \in Request, q # r,
           pc'[q] = pc[q], call'[q] = call[q], copy'[q] = copy[q], stale'[q] = stale[q],
           RowsKept(r)
    PROVE  HandlerOK(q)'
<1>1. HandlerOK(q)
  BY DEF ControlInv, HandlerInv
<1>2. /\ pc[q] \in Critical => call[q].device # call[r].device
      /\ session[q] = NoSession => session'[q] = NoSession
      /\ call[q] \in Call => call[q].session \in Request
  BY Inside DEF Call, RowsKept
<1>3. ASSUME call[q].op \in {"handover", "detach"}, pc[q] \in {"wait"} \cup Critical
      PROVE  /\ session'[call[q].session] \in Session
             /\ session'[call[q].session].device = call[q].device
             /\ pc[q] \in Critical => session'[call[q].session] = session[call[q].session]
  BY <1>1, <1>2, <1>3 DEF HandlerOK, RowsKept
<1>. QED
  BY <1>1, <1>2, <1>3 DEF HandlerOK, Connected, Critical

LEMMA ReturnTyped ==
    ASSUME ControlInv, NEW r \in Request, pc[r] \in Critical,
           NEW answer \in Answered, Return(r, answer)
    PROVE  /\ lock' \in [Device -> Request \cup {NoRequest}]
           /\ pc' \in [Request -> Label]
           /\ copy' \in [Request -> Session \cup {NoSession}]
           /\ stale' \in [Request -> Session \cup {NoSession}]
  BY Inside DEF ControlInv, ServiceTypeOK, Return, Goto, Label

\* Repository.Update of the row a handler has read under the lock.
LEMMA WriteBack ==
    ASSUME ControlInv, NEW r \in Request, pc[r] = "store",
           call[r].op \in {"handover", "detach"},
           session' = [session EXCEPT ![call[r].session] = copy[r]]
    PROVE  /\ session' \in [Request -> Session \cup {NoSession}]
           /\ copy[r] \in Session /\ copy[r].device = call[r].device
           /\ session'[call[r].session] = copy[r]
           /\ \A t \in Request : t # call[r].session => session'[t] = session[t]
           /\ RowsKept(r)
           /\ OneActivePerDevice'
<1>. DEFINE row == call[r].session
<1>1. pc[r] \in Critical /\ ServiceTypeOK /\ OneActivePerDevice /\ HandlerOK(r)
  BY DEF Critical, ControlInv, HandlerInv
<1>2. /\ row \in Request /\ session[row] \in Session /\ session[row].device = call[r].device
      /\ Connected(row) /\ call[r].cell \in Cell
  BY <1>1, Inside DEF HandlerOK, Call
<1>3. copy[r] \in Session /\ copy[r].device = session[row].device
  BY <1>1, <1>2, MovedTyped, ClosedTyped DEF HandlerOK
<1>4. \A t \in Request : session'[t] = IF t = row THEN copy[r] ELSE session[t]
  BY <1>1, <1>2 DEF ServiceTypeOK
<1>5. OneActivePerDevice'
  BY <1>1, <1>2, <1>3, <1>4 DEF OneActivePerDevice, Connected
<1>6. session' \in [Request -> Session \cup {NoSession}]
  BY <1>1, <1>3 DEF ServiceTypeOK
<1>. QED
  BY <1>1, <1>2, <1>3, <1>4, <1>5, <1>6, ConnectedTyped DEF RowsKept

LEMMA RefuseControl ==
    ASSUME ControlInv, NEW r \in Request, Refuse(r)
    PROVE  ControlInv'
<1>. USE DEF ControlInv, Refuse, Goto
<1>1. PoolInv'
  BY PoolUnchanged
<1>2. ServiceTypeOK'
  BY DEF ServiceTypeOK, Label, Critical, Answered
<1>3. HandlerInv'
  BY DEF ServiceTypeOK, HandlerInv, HandlerOK, Critical, Answered, Connected
<1>4. DeviceExclusive'
  BY DEF ServiceTypeOK, DeviceExclusive, Critical
<1>5. OneActivePerDevice'
  BY TableUnchanged
<1>. QED
  BY <1>1, <1>2, <1>3, <1>4, <1>5

LEMMA StartAttachControl ==
    ASSUME ControlInv, NEW r \in Request, NEW d \in Device, NEW c \in Cell, StartAttach(r, d, c)
    PROVE  ControlInv'
<1>. USE DEF ControlInv, StartAttach, Goto
<1>1. PoolInv'
  BY PoolUnchanged
<1>2. ServiceTypeOK'
  BY DEF ServiceTypeOK, Label, Call
<1>3. HandlerInv'
  BY DEF ServiceTypeOK, HandlerInv, HandlerOK, Critical, Answered, Connected, Call
<1>4. DeviceExclusive'
  BY DEF ServiceTypeOK, DeviceExclusive, Critical
<1>5. OneActivePerDevice'
  BY TableUnchanged
<1>. QED
  BY <1>1, <1>2, <1>3, <1>4, <1>5

LEMMA FindControl ==
    ASSUME ControlInv, NEW r \in Request, NEW op \in {"handover", "detach"}, NEW t \in Request, NEW c \in Cell, Find(r, op, t, c)
    PROVE  ControlInv'
<1>. USE DEF ControlInv, Find, Goto
<1>1. PoolInv'
  BY PoolUnchanged
<1>2. ServiceTypeOK'
  BY DEF ServiceTypeOK, Label, Call, Session
<1>3. HandlerInv'
  <2>1. session[t] \in Session /\ session[t].device \in Device
    BY ConnectedTyped DEF Session
  <2>2. call'[r] = [op |-> op, device |-> session[t].device, session |-> t, cell |-> c]
    BY DEF ServiceTypeOK
  <2>3. HandlerOK(r)'
    BY <2>1, <2>2 DEF ServiceTypeOK, HandlerOK, Critical, Call
  <2>4. ASSUME NEW q \in Request, q # r
        PROVE  HandlerOK(q)'
    BY <2>4 DEF ServiceTypeOK, HandlerInv, HandlerOK, Connected
  <2>. QED
    BY <2>3, <2>4 DEF HandlerInv
<1>4. DeviceExclusive'
  BY DEF ServiceTypeOK, DeviceExclusive, Critical
<1>5. OneActivePerDevice'
  BY TableUnchanged
<1>. QED
  BY <1>1, <1>2, <1>3, <1>4, <1>5

LEMMA LockDeviceControl ==
    ASSUME ControlInv, NEW r \in Request, LockDevice(r)
    PROVE  ControlInv'
<1>. USE DEF ControlInv, LockDevice, Goto
<1>0. call[r] \in Call /\ call[r].device \in Device
  BY DEF HandlerInv, HandlerOK, Call
<1>1. PoolInv'
  BY PoolUnchanged
<1>2. ServiceTypeOK'
  BY DEF ServiceTypeOK, HandlerInv, HandlerOK, Label, Critical
<1>3. HandlerInv'
  BY DEF ServiceTypeOK, HandlerInv, HandlerOK, Critical, Answered, Connected
<1>4. DeviceExclusive'
  <2>1. /\ pc' = [pc EXCEPT ![r] = "locked"] /\ call' = call
        /\ lock' = [lock EXCEPT ![call[r].device] = r]
        /\ lock[call[r].device] = NoRequest
        /\ pc[r] \notin Critical
    BY DEF Critical
  <2>2. ASSUME NEW q \in Request, pc'[q] \in Critical
        PROVE  lock'[call'[q].device] = q
    <3>1. CASE q = r
      BY <1>0, <2>1, <3>1 DEF ServiceTypeOK
    <3>2. CASE q # r
      <4>1. pc[q] \in Critical /\ call'[q] = call[q]
        BY <2>1, <2>2, <3>2 DEF ServiceTypeOK
      <4>2. lock[call[q].device] = q /\ call[q].device \in Device
        BY <4>1, Inside
      <4>. QED
        BY <1>0, <2>1, <4>1, <4>2, ServiceAssumption DEF ServiceTypeOK
    <3>. QED
      BY <3>1, <3>2
  <2>3. ASSUME NEW d \in Device, lock'[d] # NoRequest
        PROVE  pc'[lock'[d]] \in Critical /\ call'[lock'[d]].device = d
    <3>1. CASE d = call[r].device
      BY <1>0, <2>1, <3>1 DEF ServiceTypeOK, Critical
    <3>2. CASE d # call[r].device
      BY <1>0, <2>1, <2>3, <3>2 DEF ServiceTypeOK, DeviceExclusive
    <3>. QED
      BY <3>1, <3>2
  <2>. QED
    BY <2>2, <2>3 DEF DeviceExclusive
<1>5. OneActivePerDevice'
  BY TableUnchanged
<1>. QED
  BY <1>1, <1>2, <1>3, <1>4, <1>5

LEMMA AttachAllocateControl ==
    ASSUME ControlInv, NEW r \in Request, AttachAllocate(r)
    PROVE  ControlInv'
<1>. USE DEF ControlInv, AttachAllocate, Goto, At
<1>0. pc[r] \in Critical
  BY DEF At, Critical
<1>1. PoolInv'
  BY AllocateEffect
<1>2. ServiceTypeOK'
  <2>1. PICK ip \in Address : copy' = [copy EXCEPT ![r] = NewSession(r, call[r].device, call[r].cell, ip)]
    OBVIOUS
  <2>2. NewSession(r, call[r].device, call[r].cell, ip) \in Session
    BY <1>0, Inside, NewSessionTyped DEF Call
  <2>. QED
    BY <2>1, <2>2 DEF ServiceTypeOK, Label, Critical
<1>3. HandlerInv'
  <2>1. ASSUME NEW q \in Request, q # r
        PROVE  HandlerOK(q)'
    BY <1>0, <2>1, OthersUndisturbed DEF ServiceTypeOK, RowsKept
  <2>2. HandlerOK(r)'
    <3>1. PICK ip \in Address : copy' = [copy EXCEPT ![r] = NewSession(r, call[r].device, call[r].cell, ip)]
      OBVIOUS
    <3>2. copy'[r] = NewSession(r, call[r].device, call[r].cell, ip)
      BY <3>1 DEF ServiceTypeOK
    <3>3. call[r].device \in Device /\ call[r].cell \in Cell
      BY <1>0, Inside DEF Call
    <3>4. /\ copy'[r] \in Session /\ copy'[r].id = r
          /\ copy'[r].device = call[r].device /\ copy'[r].status = "CONNECTED"
      BY <3>2, <3>3, NewSessionTyped
    <3>. QED
      BY <1>0, <3>4, Inside DEF HandlerInv, HandlerOK, ServiceTypeOK, Critical
  <2>. QED
    BY <2>1, <2>2 DEF HandlerInv
<1>4. DeviceExclusive'
  BY <1>0, StepInside DEF Critical, Answered
<1>5. OneActivePerDevice'
  BY TableUnchanged
<1>. QED
  BY <1>1, <1>2, <1>3, <1>4, <1>5

LEMMA AttachExhaustedControl ==
    ASSUME ControlInv, NEW r \in Request, AttachExhausted(r)
    PROVE  ControlInv'
<1>. USE DEF ControlInv, AttachExhausted, Goto, At, Return
<1>0. pc[r] \in Critical
  BY DEF At, Critical
<1>1. PoolInv'
  BY PoolUnchanged
<1>2. ServiceTypeOK'
  BY <1>0, Inside DEF ServiceTypeOK, Label, Critical, Answered
<1>3. HandlerInv'
  BY <1>0, Inside DEF ServiceTypeOK, HandlerInv, HandlerOK, Critical, Answered, Connected
<1>4. DeviceExclusive'
  BY <1>0, StepOut DEF Critical, Answered
<1>5. OneActivePerDevice'
  BY TableUnchanged
<1>. QED
  BY <1>1, <1>2, <1>3, <1>4, <1>5

\* Repository.AttachSession: the rows of the device after it.
LEMMA AttachRows ==
    ASSUME ControlInv, NEW r \in Request, pc[r] = "store", call[r].op = "attach",
           NEW old \in Replaced(call[r].device), AttachSession(copy[r], old)
    PROVE  /\ old # NoRequest =>
                /\ old \in Request /\ old # r /\ Connected(old) /\ session[old] \in Session
                /\ session[old].device = call[r].device
                /\ session'[old] = Closed(session[old], "STALE_DISCONNECT")
           /\ session'[r] = copy[r] /\ copy[r] \in Session /\ copy[r].device = call[r].device
           /\ copy[r].status = "CONNECTED"
           /\ \A t \in Request \ {r, old} : session'[t] = session[t]
           /\ \A t \in Request \ {r, old} : Connected(t) => session[t].device # call[r].device
           /\ session' \in [Request -> Session \cup {NoSession}]
           /\ RowsKept(r)
           /\ OneActivePerDevice'
<1>1. pc[r] \in Critical /\ ServiceTypeOK /\ OneActivePerDevice /\ HandlerOK(r)
  BY DEF Critical, ControlInv, HandlerInv
<1>2. /\ copy[r] \in Session /\ copy[r].id = r /\ copy[r].device = call[r].device
      /\ copy[r].status = "CONNECTED" /\ session[r] = NoSession
  BY <1>1 DEF HandlerOK
<1>3. ASSUME old # NoRequest
      PROVE  /\ old \in Request /\ old # r /\ Connected(old) /\ session[old] \in Session
             /\ session[old].device = call[r].device
  <2>1. old \in ActiveSessions(call[r].device)
    BY <1>3 DEF Replaced
  <2>. QED
    BY <1>1, <1>2, <2>1, ConnectedTyped DEF ActiveSessions, Connected
<1>4. /\ session' \in [Request -> Session \cup {NoSession}]
      /\ session'[r] = copy[r]
      /\ \A t \in Request \ {r, old} : session'[t] = session[t]
      /\ old # NoRequest => session'[old] = Closed(session[old], "STALE_DISCONNECT")
  <2>1. \A t \in Request : session'[t] = IF t = r THEN copy[r]
                                       ELSE IF t = old THEN Closed(session[t], "STALE_DISCONNECT")
                                       ELSE session[t]
    BY <1>2 DEF AttachSession
  <2>2. \A t \in Request : session'[t] \in Session \cup {NoSession}
    BY <1>1, <1>2, <1>3, <2>1, ClosedTyped, ServiceAssumption DEF ServiceTypeOK
  <2>3. session' = [t \in Request |-> session'[t]]
    BY DEF AttachSession
  <2>. QED
    BY <1>3, <2>1, <2>2, <2>3
<1>5. ASSUME NEW t \in Request \ {r, old}, Connected(t)
      PROVE  session[t].device # call[r].device
  BY <1>1, <1>3, <1>5, ServiceAssumption DEF Replaced, ActiveSessions, OneActivePerDevice
<1>6. old # NoRequest =>
        /\ session'[old] \in Session /\ session'[old].device = session[old].device
        /\ session'[old].status = "DISCONNECTED"
  BY <1>3, <1>4, ClosedTyped
<1>7. OneActivePerDevice'
  <2>1. \A t \in Request : Connected(t)' => t = r \/ (t # old /\ Connected(t) /\ session'[t] = session[t])
    BY <1>3, <1>4, <1>6, ServiceAssumption DEF Connected
  <2>. QED
    BY <1>1, <1>2, <1>4, <1>5, <2>1 DEF OneActivePerDevice
<1>8. RowsKept(r)
  BY <1>1, <1>2, <1>3, <1>4, <1>6, ConnectedTyped, ServiceAssumption DEF RowsKept
<1>. QED
  BY <1>2, <1>3, <1>4, <1>5, <1>7, <1>8

LEMMA AttachStoreControl ==
    ASSUME ControlInv, NEW r \in Request, AttachStore(r)
    PROVE  ControlInv'
<1>. USE DEF ControlInv, AttachStore, Goto, At
<1>0. pc[r] \in Critical
  BY DEF At, Critical
<1>01. PICK old \in Replaced(call[r].device) :
         /\ AttachSession(copy[r], old)
         /\ \/ /\ old = NoRequest
               /\ pc' = [pc EXCEPT ![r] = "report"]
               /\ stale' = stale
            \/ /\ old # NoRequest
               /\ pc' = [pc EXCEPT ![r] = "free"]
               /\ stale' = [stale EXCEPT ![r] = Closed(session[old], "STALE_DISCONNECT")]
  OBVIOUS
<1>02. old # NoRequest => Closed(session[old], "STALE_DISCONNECT") \in Session
  BY <1>01, AttachRows, ClosedTyped
<1>1. PoolInv'
  BY PoolUnchanged
<1>2. ServiceTypeOK'
  <2>1. session' \in [Request -> Session \cup {NoSession}]
    BY <1>01, AttachRows
  <2>2. stale' \in [Request -> Session \cup {NoSession}]
    BY <1>01, <1>02 DEF ServiceTypeOK
  <2>3. pc' \in [Request -> Label]
    BY <1>01 DEF ServiceTypeOK, Label, Critical
  <2>. QED
    BY <2>1, <2>2, <2>3 DEF ServiceTypeOK
<1>3. HandlerInv'
  <2>1. ASSUME NEW q \in Request, q # r
        PROVE  HandlerOK(q)'
    <3>1. pc'[q] = pc[q] /\ call'[q] = call[q] /\ copy'[q] = copy[q] /\ stale'[q] = stale[q]
      BY <1>01, <2>1 DEF ServiceTypeOK
    <3>. QED
      BY <1>0, <1>01, <2>1, <3>1, AttachRows, OthersUndisturbed
  <2>2. copy'[r] \in Session
    BY <1>01, AttachRows
  <2>3. call'[r] = call[r] /\ call[r] \in Call /\ call[r].op = "attach"
    <3>1. call' = call /\ call[r].op = "attach"
      OBVIOUS
    <3>2. call[r] \in Call
      BY <1>0, Inside
    <3>. QED
      BY <3>1, <3>2
  <2>5. pc'[r] = "report" \/ (pc'[r] = "free" /\ stale'[r] \in Session)
    BY <1>01, <1>02 DEF ServiceTypeOK
  <2>4. HandlerOK(r)'
    BY <2>2, <2>3, <2>5 DEF HandlerOK
  <2>. QED
    BY <2>1, <2>4 DEF HandlerInv
<1>4. DeviceExclusive'
  BY <1>0, <1>01, "report" \in Critical, "free" \in Critical, StepInside DEF Critical
<1>5. OneActivePerDevice'
  BY <1>01, AttachRows
<1>. QED
  BY <1>1, <1>2, <1>3, <1>4, <1>5

LEMMA AttachStoreFailsControl ==
    ASSUME ControlInv, NEW r \in Request, AttachStoreFails(r)
    PROVE  ControlInv'
<1>. USE DEF ControlInv
<1>0. /\ pc[r] = "store" /\ call[r].op = "attach" /\ pc[r] \in Critical
      /\ pc' = [pc EXCEPT ![r] = "undo"] /\ pc \in [Request -> Label]
      /\ UNCHANGED <<poolVars, lock, call, copy, stale, log, restarts>>
  BY DEF AttachStoreFails, At, Goto, Critical, ServiceTypeOK
<1>01. \/ UNCHANGED session
       \/ \E old \in Replaced(call[r].device) : AttachSession(copy[r], old)
  BY DEF AttachStoreFails
<1>02. /\ session' \in [Request -> Session \cup {NoSession}]
       /\ RowsKept(r)
       /\ OneActivePerDevice'
  <2>1. CASE UNCHANGED session
    BY <2>1, TableUnchanged DEF ServiceTypeOK, RowsKept
  <2>2. ASSUME NEW old \in Replaced(call[r].device), AttachSession(copy[r], old)
        PROVE  /\ session' \in [Request -> Session \cup {NoSession}]
               /\ RowsKept(r)
               /\ OneActivePerDevice'
    BY <1>0, <2>2, AttachRows
  <2>. QED
    BY <1>01, <2>1, <2>2
<1>1. PoolInv'
  BY <1>0, PoolUnchanged
<1>2. ServiceTypeOK'
  BY <1>0, <1>02 DEF ServiceTypeOK, Label, Critical
<1>3. HandlerInv'
  <2>1. ASSUME NEW q \in Request, q # r
        PROVE  HandlerOK(q)'
    BY <1>0, <1>02, <2>1, OthersUndisturbed
  <2>2. HandlerOK(r)'
    BY <1>0, Inside DEF HandlerInv, HandlerOK, Critical
  <2>. QED
    BY <2>1, <2>2 DEF HandlerInv
<1>4. DeviceExclusive'
  BY <1>0, "undo" \in Critical, StepInside DEF Goto, Critical
<1>5. OneActivePerDevice'
  BY <1>02
<1>. QED
  BY <1>1, <1>2, <1>3, <1>4, <1>5

LEMMA AttachUndoControl ==
    ASSUME ControlInv, NEW r \in Request, AttachUndo(r)
    PROVE  ControlInv'
<1>. USE DEF ControlInv, AttachUndo, Goto, At, Return
<1>0. pc[r] \in Critical
  BY DEF At, Critical
<1>1. PoolInv'
  BY ReleaseEffect
<1>2. ServiceTypeOK'
  BY <1>0, Inside DEF ServiceTypeOK, Label, Critical, Answered
<1>3. HandlerInv'
  BY <1>0, Inside DEF ServiceTypeOK, HandlerInv, HandlerOK, Critical, Answered, Connected
<1>4. DeviceExclusive'
  BY <1>0, StepOut DEF Critical, Answered
<1>5. OneActivePerDevice'
  BY TableUnchanged
<1>. QED
  BY <1>1, <1>2, <1>3, <1>4, <1>5

LEMMA AttachFreeStaleControl ==
    ASSUME ControlInv, NEW r \in Request, AttachFreeStale(r)
    PROVE  ControlInv'
<1>. USE DEF ControlInv, AttachFreeStale, Goto, At
<1>0. pc[r] \in Critical
  BY DEF At, Critical
<1>1. PoolInv'
  BY ReleaseEffect
<1>2. ServiceTypeOK'
  BY <1>0, Inside DEF ServiceTypeOK, Label, Critical, Answered
<1>3. HandlerInv'
  BY <1>0, Inside DEF ServiceTypeOK, HandlerInv, HandlerOK, Critical, Answered, Connected
<1>4. DeviceExclusive'
  BY <1>0, StepInside DEF Critical, Answered
<1>5. OneActivePerDevice'
  BY TableUnchanged
<1>. QED
  BY <1>1, <1>2, <1>3, <1>4, <1>5

LEMMA AttachReportStaleControl ==
    ASSUME ControlInv, NEW r \in Request, AttachReportStale(r)
    PROVE  ControlInv'
<1>. USE DEF ControlInv, AttachReportStale, Goto, At
<1>0. pc[r] \in Critical
  BY DEF At, Critical
<1>1. PoolInv'
  BY PoolUnchanged
<1>2. ServiceTypeOK'
  <2>1. stale[r] \in Session
    BY DEF HandlerInv, HandlerOK
  <2>2. log' \in [Device -> Seq([kind : EventKind, session : Request, cell : Cell])]
    BY <2>1, EmitTyped DEF EventKind
  <2>. QED
    BY <1>0, <2>2, Inside DEF ServiceTypeOK, Label, Critical, Answered
<1>3. HandlerInv'
  BY <1>0, Inside DEF ServiceTypeOK, HandlerInv, HandlerOK, Critical, Answered, Connected
<1>4. DeviceExclusive'
  BY <1>0, StepInside DEF Critical, Answered
<1>5. OneActivePerDevice'
  BY TableUnchanged
<1>. QED
  BY <1>1, <1>2, <1>3, <1>4, <1>5

LEMMA AttachReportControl ==
    ASSUME ControlInv, NEW r \in Request, AttachReport(r)
    PROVE  ControlInv'
<1>. USE DEF ControlInv, AttachReport, Goto, At, Report, Return
<1>0. pc[r] \in Critical
  BY DEF At, Critical
<1>1. PoolInv'
  BY PoolUnchanged
<1>2. ServiceTypeOK'
  <2>1. copy[r] \in Session
    BY DEF HandlerInv, HandlerOK
  <2>2. log' \in [Device -> Seq([kind : EventKind, session : Request, cell : Cell])]
    BY <2>1, EmitTyped DEF EventKind
  <2>. QED
    BY <1>0, <2>2, Inside DEF ServiceTypeOK, Label, Critical, Answered
<1>3. HandlerInv'
  BY <1>0, Inside DEF ServiceTypeOK, HandlerInv, HandlerOK, Critical, Answered, Connected
<1>4. DeviceExclusive'
  BY <1>0, StepOut DEF Critical, Answered
<1>5. OneActivePerDevice'
  BY TableUnchanged
<1>. QED
  BY <1>1, <1>2, <1>3, <1>4, <1>5

LEMMA RereadFailsControl ==
    ASSUME ControlInv, NEW r \in Request, RereadFails(r)
    PROVE  ControlInv'
<1>. USE DEF ControlInv, RereadFails
<1>0. pc[r] \in Critical
  BY DEF Critical
<1>1. PoolInv'
  BY PoolUnchanged
<1>2. ServiceTypeOK'
  <2>1. \E answer \in Answered : Return(r, answer)
    BY DEF Answered
  <2>. QED
    BY <1>0, <2>1, ReturnTyped DEF ServiceTypeOK
<1>3. HandlerInv'
  BY <1>0, Inside DEF ServiceTypeOK, HandlerInv, HandlerOK, Critical, Answered, Connected, Return, Goto
<1>4. DeviceExclusive'
  <2>1. \E answer \in Answered : Return(r, answer)
    BY DEF Answered
  <2>. QED
    BY <1>0, <2>1, StepOut
<1>5. OneActivePerDevice'
  BY TableUnchanged
<1>. QED
  BY <1>1, <1>2, <1>3, <1>4, <1>5

LEMMA HandoverNothingControl ==
    ASSUME ControlInv, NEW r \in Request, HandoverNothing(r)
    PROVE  ControlInv'
<1>. USE DEF ControlInv, HandoverNothing, At
<1>0. pc[r] \in Critical
  BY DEF At, Critical
<1>1. PoolInv'
  BY PoolUnchanged
<1>2. ServiceTypeOK'
  <2>1. \E answer \in Answered : Return(r, answer)
    BY DEF Answered
  <2>. QED
    BY <1>0, <2>1, ReturnTyped DEF ServiceTypeOK
<1>3. HandlerInv'
  BY <1>0, Inside DEF ServiceTypeOK, HandlerInv, HandlerOK, Critical, Answered, Connected, Return, Goto
<1>4. DeviceExclusive'
  <2>1. \E answer \in Answered : Return(r, answer)
    BY DEF Answered
  <2>. QED
    BY <1>0, <2>1, StepOut
<1>5. OneActivePerDevice'
  BY TableUnchanged
<1>. QED
  BY <1>1, <1>2, <1>3, <1>4, <1>5

LEMMA HandoverMoveControl ==
    ASSUME ControlInv, NEW r \in Request, HandoverMove(r)
    PROVE  ControlInv'
<1>. USE DEF ControlInv, HandoverMove, Goto, At
<1>0. pc[r] \in Critical
  BY DEF At, Critical
<1>1. PoolInv'
  BY PoolUnchanged
<1>2. ServiceTypeOK'
  <2>1. Moved(Reread(r), call[r].cell) \in Session
    BY <1>0, Inside, ConnectedTyped, MovedTyped DEF Reread, Connected, Call
  <2>. QED
    BY <2>1 DEF ServiceTypeOK, Label, Critical
<1>3. HandlerInv'
  <2>1. ASSUME NEW q \in Request, q # r
        PROVE  HandlerOK(q)'
    BY <1>0, <2>1, OthersUndisturbed DEF ServiceTypeOK, RowsKept
  <2>2. HandlerOK(r)'
    BY <1>0, Inside DEF HandlerInv, HandlerOK, ServiceTypeOK, Critical, Reread, Connected
  <2>. QED
    BY <2>1, <2>2 DEF HandlerInv
<1>4. DeviceExclusive'
  BY <1>0, StepInside DEF Critical, Answered
<1>5. OneActivePerDevice'
  BY TableUnchanged
<1>. QED
  BY <1>1, <1>2, <1>3, <1>4, <1>5

LEMMA HandoverStoreControl ==
    ASSUME ControlInv, NEW r \in Request, HandoverStore(r)
    PROVE  ControlInv'
<1>. USE DEF ControlInv, HandoverStore, Goto, At
<1>0. pc[r] \in Critical
  BY DEF At, Critical
<1>1. PoolInv'
  BY PoolUnchanged
<1>2. ServiceTypeOK'
  BY <1>0, WriteBack DEF ServiceTypeOK, Label, Critical
<1>3. HandlerInv'
  <2>1. ASSUME NEW q \in Request, q # r
        PROVE  HandlerOK(q)'
    BY <1>0, <2>1, WriteBack, OthersUndisturbed DEF ServiceTypeOK, RowsKept
  <2>2. session'[call[r].session] \in Session /\ session'[call[r].session].device = call[r].device
    BY WriteBack
  <2>3. pc'[r] \in {"report", "free"} /\ call'[r] = call[r] /\ call[r] \in Call
    BY <1>0, Inside DEF ServiceTypeOK
  <2>4. copy'[r] \in Session
    BY WriteBack
  <2>5. HandlerOK(r)'
    BY <2>2, <2>3, <2>4 DEF HandlerOK
  <2>. QED
    BY <2>1, <2>5 DEF HandlerInv
<1>4. DeviceExclusive'
  BY <1>0, StepInside DEF Critical, Answered
<1>5. OneActivePerDevice'
  BY WriteBack
<1>. QED
  BY <1>1, <1>2, <1>3, <1>4, <1>5

\* A write-back that fails, with or without effect, is the handler's last step.
LEMMA WriteBackFailsControl ==
    ASSUME ControlInv, NEW r \in Request, pc[r] = "store",
           call[r].op \in {"handover", "detach"},
           \/ UNCHANGED session
           \/ session' = [session EXCEPT ![call[r].session] = copy[r]],
           Return(r, "failed"), UNCHANGED <<poolVars, call, log, restarts>>
    PROVE  ControlInv'
<1>. USE DEF ControlInv
<1>0. pc[r] \in Critical /\ "failed" \in Answered
  BY DEF Critical, Answered
<1>01. /\ session' \in [Request -> Session \cup {NoSession}]
       /\ RowsKept(r)
       /\ OneActivePerDevice'
  <2>1. CASE UNCHANGED session
    BY <2>1, TableUnchanged DEF ServiceTypeOK, RowsKept
  <2>2. CASE session' = [session EXCEPT ![call[r].session] = copy[r]]
    BY <2>2, WriteBack
  <2>. QED
    BY <2>1, <2>2
<1>1. PoolInv'
  BY PoolUnchanged
<1>2. ServiceTypeOK'
  BY <1>0, <1>01, ReturnTyped DEF ServiceTypeOK
<1>3. HandlerInv'
  <2>1. ASSUME NEW q \in Request, q # r
        PROVE  HandlerOK(q)'
    BY <1>0, <1>01, <2>1, OthersUndisturbed DEF ServiceTypeOK, Return, Goto
  <2>2. pc'[r] = "failed" /\ call'[r] = call[r]
    BY DEF ServiceTypeOK, Return, Goto
  <2>3. HandlerOK(r)'
    BY <2>2 DEF HandlerOK, Critical
  <2>. QED
    BY <2>1, <2>3 DEF HandlerInv
<1>4. DeviceExclusive'
  BY <1>0, StepOut
<1>5. OneActivePerDevice'
  BY <1>01
<1>. QED
  BY <1>1, <1>2, <1>3, <1>4, <1>5

LEMMA HandoverStoreFailsControl ==
    ASSUME ControlInv, NEW r \in Request, HandoverStoreFails(r)
    PROVE  ControlInv'
  BY WriteBackFailsControl DEF HandoverStoreFails, At

LEMMA HandoverReportControl ==
    ASSUME ControlInv, NEW r \in Request, HandoverReport(r)
    PROVE  ControlInv'
<1>. USE DEF ControlInv, HandoverReport, Goto, At, Report, Return
<1>0. pc[r] \in Critical
  BY DEF At, Critical
<1>1. PoolInv'
  BY PoolUnchanged
<1>2. ServiceTypeOK'
  <2>1. copy[r] \in Session
    BY DEF HandlerInv, HandlerOK
  <2>2. log' \in [Device -> Seq([kind : EventKind, session : Request, cell : Cell])]
    BY <2>1, EmitTyped DEF EventKind
  <2>. QED
    BY <1>0, <2>2, Inside DEF ServiceTypeOK, Label, Critical, Answered
<1>3. HandlerInv'
  BY <1>0, Inside DEF ServiceTypeOK, HandlerInv, HandlerOK, Critical, Answered, Connected
<1>4. DeviceExclusive'
  BY <1>0, StepOut DEF Critical, Answered
<1>5. OneActivePerDevice'
  BY TableUnchanged
<1>. QED
  BY <1>1, <1>2, <1>3, <1>4, <1>5

LEMMA DetachNothingControl ==
    ASSUME ControlInv, NEW r \in Request, DetachNothing(r)
    PROVE  ControlInv'
<1>. USE DEF ControlInv, DetachNothing, At
<1>0. pc[r] \in Critical
  BY DEF At, Critical
<1>1. PoolInv'
  BY PoolUnchanged
<1>2. ServiceTypeOK'
  <2>1. \E answer \in Answered : Return(r, answer)
    BY DEF Answered
  <2>. QED
    BY <1>0, <2>1, ReturnTyped DEF ServiceTypeOK
<1>3. HandlerInv'
  BY <1>0, Inside DEF ServiceTypeOK, HandlerInv, HandlerOK, Critical, Answered, Connected, Return, Goto
<1>4. DeviceExclusive'
  <2>1. \E answer \in Answered : Return(r, answer)
    BY DEF Answered
  <2>. QED
    BY <1>0, <2>1, StepOut
<1>5. OneActivePerDevice'
  BY TableUnchanged
<1>. QED
  BY <1>1, <1>2, <1>3, <1>4, <1>5

LEMMA DetachCloseControl ==
    ASSUME ControlInv, NEW r \in Request, DetachClose(r)
    PROVE  ControlInv'
<1>. USE DEF ControlInv, DetachClose, Goto, At
<1>0. pc[r] \in Critical
  BY DEF At, Critical
<1>1. PoolInv'
  BY PoolUnchanged
<1>2. ServiceTypeOK'
  <2>1. Closed(Reread(r), "VOLUNTARY_DETACH") \in Session
    BY <1>0, Inside, ConnectedTyped, ClosedTyped DEF Reread, Connected
  <2>. QED
    BY <2>1 DEF ServiceTypeOK, Label, Critical
<1>3. HandlerInv'
  <2>1. ASSUME NEW q \in Request, q # r
        PROVE  HandlerOK(q)'
    BY <1>0, <2>1, OthersUndisturbed DEF ServiceTypeOK, RowsKept
  <2>2. HandlerOK(r)'
    BY <1>0, Inside DEF HandlerInv, HandlerOK, ServiceTypeOK, Critical, Reread, Connected
  <2>. QED
    BY <2>1, <2>2 DEF HandlerInv
<1>4. DeviceExclusive'
  BY <1>0, StepInside DEF Critical, Answered
<1>5. OneActivePerDevice'
  BY TableUnchanged
<1>. QED
  BY <1>1, <1>2, <1>3, <1>4, <1>5

LEMMA DetachStoreControl ==
    ASSUME ControlInv, NEW r \in Request, DetachStore(r)
    PROVE  ControlInv'
<1>. USE DEF ControlInv, DetachStore, Goto, At
<1>0. pc[r] \in Critical
  BY DEF At, Critical
<1>1. PoolInv'
  BY PoolUnchanged
<1>2. ServiceTypeOK'
  BY <1>0, WriteBack DEF ServiceTypeOK, Label, Critical
<1>3. HandlerInv'
  <2>1. ASSUME NEW q \in Request, q # r
        PROVE  HandlerOK(q)'
    BY <1>0, <2>1, WriteBack, OthersUndisturbed DEF ServiceTypeOK, RowsKept
  <2>2. session'[call[r].session] \in Session /\ session'[call[r].session].device = call[r].device
    BY WriteBack
  <2>3. pc'[r] \in {"report", "free"} /\ call'[r] = call[r] /\ call[r] \in Call
    BY <1>0, Inside DEF ServiceTypeOK
  <2>4. copy'[r] \in Session
    BY WriteBack
  <2>5. HandlerOK(r)'
    BY <2>2, <2>3, <2>4 DEF HandlerOK
  <2>. QED
    BY <2>1, <2>5 DEF HandlerInv
<1>4. DeviceExclusive'
  BY <1>0, StepInside DEF Critical, Answered
<1>5. OneActivePerDevice'
  BY WriteBack
<1>. QED
  BY <1>1, <1>2, <1>3, <1>4, <1>5

LEMMA DetachStoreFailsControl ==
    ASSUME ControlInv, NEW r \in Request, DetachStoreFails(r)
    PROVE  ControlInv'
  BY WriteBackFailsControl DEF DetachStoreFails, At

LEMMA DetachFreeControl ==
    ASSUME ControlInv, NEW r \in Request, DetachFree(r)
    PROVE  ControlInv'
<1>. USE DEF ControlInv, DetachFree, Goto, At
<1>0. pc[r] \in Critical
  BY DEF At, Critical
<1>1. PoolInv'
  BY ReleaseEffect
<1>2. ServiceTypeOK'
  BY <1>0, Inside DEF ServiceTypeOK, Label, Critical, Answered
<1>3. HandlerInv'
  BY <1>0, Inside DEF ServiceTypeOK, HandlerInv, HandlerOK, Critical, Answered, Connected
<1>4. DeviceExclusive'
  BY <1>0, StepInside DEF Critical, Answered
<1>5. OneActivePerDevice'
  BY TableUnchanged
<1>. QED
  BY <1>1, <1>2, <1>3, <1>4, <1>5

LEMMA DetachReportControl ==
    ASSUME ControlInv, NEW r \in Request, DetachReport(r)
    PROVE  ControlInv'
<1>. USE DEF ControlInv, DetachReport, Goto, At, Report, Return
<1>0. pc[r] \in Critical
  BY DEF At, Critical
<1>1. PoolInv'
  BY PoolUnchanged
<1>2. ServiceTypeOK'
  <2>1. copy[r] \in Session
    BY DEF HandlerInv, HandlerOK
  <2>2. log' \in [Device -> Seq([kind : EventKind, session : Request, cell : Cell])]
    BY <2>1, EmitTyped DEF EventKind
  <2>. QED
    BY <1>0, <2>2, Inside DEF ServiceTypeOK, Label, Critical, Answered
<1>3. HandlerInv'
  BY <1>0, Inside DEF ServiceTypeOK, HandlerInv, HandlerOK, Critical, Answered, Connected
<1>4. DeviceExclusive'
  BY <1>0, StepOut DEF Critical, Answered
<1>5. OneActivePerDevice'
  BY TableUnchanged
<1>. QED
  BY <1>1, <1>2, <1>3, <1>4, <1>5

\* A restart leaves no handler running and no mutex held, and the warmed-up
\* pool holds the addresses of the connected rows.
LEMMA RestartControl ==
    ASSUME ControlInv, Restart
    PROVE  ControlInv'
<1>. USE DEF ControlInv, Restart
<1>1. PoolInv'
  <2>1. /\ allocated' = {HostToIPv4(h) : h \in ConnectedHosts}
        /\ recycled' = <<>>
        /\ nextHost' \in {MinHost} \cup {h + 1 : h \in ConnectedHosts}
        /\ \A h \in ConnectedHosts : h < nextHost' /\ h \in Host
    BY DEF WarmUpIPPool, ConnectedHosts
  <2>2. nextHost' \in MinHost..MaxHost + 1
    BY <2>1, HostRange DEF Host
  <2>3. \A h \in ConnectedHosts : h \in MinHost..nextHost' - 1
    BY <2>1, <2>2, HostRange DEF Host
  <2>4. Issued' = {HostToIPv4(h) : h \in MinHost..nextHost' - 1}
    BY DEF Issued
  <2>5. allocated' \subseteq Issued' /\ allocated' \subseteq Address
    BY <2>1, <2>3, <2>4 DEF Address
  <2>6. recycled' \in Seq(Address) /\ DOMAIN recycled' = {}
    BY <2>1
  <2>. QED
    BY <2>2, <2>5, <2>6 DEF PoolInv, PoolTypeOK, NoDoubleBooking
<1>2. ServiceTypeOK'
  BY ServiceAssumption DEF ServiceTypeOK, Label, Answered
<1>3. HandlerInv'
  BY DEF ServiceTypeOK, HandlerInv, HandlerOK, Critical, Answered
<1>4. DeviceExclusive'
  BY DEF ServiceTypeOK, DeviceExclusive, Critical, Answered
<1>5. OneActivePerDevice'
  BY TableUnchanged
<1>. QED
  BY <1>1, <1>2, <1>3, <1>4, <1>5

\* The two ways a handler writes the table, noticed or not: AttachSession, and
\* Update of the row read under the lock.
Inserts(r) ==
    /\ pc[r] = "store" /\ call[r].op = "attach"
    /\ \E old \in Replaced(call[r].device) : AttachSession(copy[r], old)

WritesBack(r) ==
    /\ pc[r] = "store" /\ call[r].op \in {"handover", "detach"}
    /\ session' = [session EXCEPT ![call[r].session] = copy[r]]

\* No other step writes it.
LEMMA TableStep ==
    ASSUME [Next]_vars
    PROVE  UNCHANGED session \/ \E r \in Request : Inserts(r) \/ WritesBack(r)
<1>1. CASE Restart \/ UNCHANGED vars
  BY <1>1 DEF Restart, vars, serviceVars
<1>2. ASSUME NEW r \in Request, Arrive(r) \/ LockDevice(r) \/ RereadFails(r)
      PROVE  UNCHANGED session
  BY <1>2 DEF Arrive, LockDevice, RereadFails, Refuse, StartAttach, StartHandover, StartDetach, Find
<1>3. ASSUME NEW r \in Request, Attach(r)
      PROVE  UNCHANGED session \/ Inserts(r)
  BY <1>3 DEF Attach, AttachAllocate, AttachExhausted, AttachStore, AttachStoreFails, AttachUndo,
              AttachFreeStale, AttachReportStale, AttachReport, Report, At, Inserts
<1>4. ASSUME NEW r \in Request, Handover(r)
      PROVE  UNCHANGED session \/ WritesBack(r)
  BY <1>4 DEF Handover, HandoverNothing, HandoverMove, HandoverStore, HandoverStoreFails,
              HandoverReport, Report, At, WritesBack
<1>5. ASSUME NEW r \in Request, Detach(r)
      PROVE  UNCHANGED session \/ WritesBack(r)
  BY <1>5 DEF Detach, DetachNothing, DetachClose, DetachStore, DetachStoreFails, DetachFree,
              DetachReport, Report, At, WritesBack
<1>. QED
  BY <1>1, <1>2, <1>3, <1>4, <1>5 DEF Next, Serve

\* No step writes a DISCONNECTED row.
LEMMA ClosedRowKept ==
    ASSUME ControlInv, [Next]_vars, NEW s \in Request, session[s].status = "DISCONNECTED"
    PROVE  session'[s] = session[s]
<1>1. CASE UNCHANGED session
  BY <1>1
<1>2. ASSUME NEW r \in Request, Inserts(r)
      PROVE  session'[s] = session[s]
  <2>1. PICK old \in Replaced(call[r].device) : AttachSession(copy[r], old)
    BY <1>2 DEF Inserts
  <2>2. session[r] = NoSession
    BY <1>2 DEF Inserts, ControlInv, HandlerInv, HandlerOK
  <2>3. s # r /\ s # old
    BY <1>2, <2>1, <2>2, AttachRows, ServiceAssumption DEF Inserts, NoSession, Connected
  <2>. QED
    BY <1>2, <2>1, <2>3, AttachRows DEF Inserts
<1>3. ASSUME NEW r \in Request, WritesBack(r)
      PROVE  session'[s] = session[s]
  <2>1. Connected(call[r].session)
    BY <1>3 DEF WritesBack, ControlInv, HandlerInv, HandlerOK
  <2>2. s # call[r].session
    BY <2>1 DEF Connected
  <2>. QED
    BY <1>3, <2>2, WriteBack DEF WritesBack
<1>. QED
  BY <1>1, <1>2, <1>3, TableStep

\* A step is a crash or one request's: the other requests keep their locals,
\* and what the request asks for is fixed when it arrives.
LEMMA OneActor ==
    ASSUME ControlInv, NEW r \in Request, Arrive(r) \/ Serve(r)
    PROVE  /\ \A q \in Request \ {r} :
                /\ pc'[q] = pc[q] /\ call'[q] = call[q]
                /\ copy'[q] = copy[q] /\ stale'[q] = stale[q]
           /\ pc[r] # "idle" => call'[r] = call[r]
<1>. USE DEF ControlInv, ServiceTypeOK, Goto
<1>1. CASE Arrive(r)
  BY <1>1 DEF Arrive, Refuse, StartAttach, StartHandover, StartDetach, Find
<1>2. CASE LockDevice(r) \/ RereadFails(r)
  BY <1>2 DEF LockDevice, RereadFails, Return
<1>3. CASE Attach(r)
  <2>1. CASE AttachAllocate(r) \/ AttachExhausted(r) \/ AttachUndo(r) \/ AttachStoreFails(r)
    BY <2>1 DEF AttachAllocate, AttachExhausted, AttachUndo, AttachStoreFails, Return
  <2>2. CASE AttachStore(r)
    BY <2>2 DEF AttachStore
  <2>3. CASE AttachFreeStale(r) \/ AttachReportStale(r) \/ AttachReport(r)
    BY <2>3 DEF AttachFreeStale, AttachReportStale, AttachReport, Report, Return
  <2>. QED
    BY <1>3, <2>1, <2>2, <2>3 DEF Attach
<1>4. CASE Handover(r)
  BY <1>4 DEF Handover, HandoverNothing, HandoverMove, HandoverStore, HandoverStoreFails,
              HandoverReport, Report, Return
<1>5. CASE Detach(r)
  BY <1>5 DEF Detach, DetachNothing, DetachClose, DetachStore, DetachStoreFails, DetachFree,
              DetachReport, Report, Return
<1>. QED
  BY <1>1, <1>2, <1>3, <1>4, <1>5 DEF Serve

\* A row stays on its device.
LEMMA RowStays ==
    ASSUME ControlInv, [Next]_vars, NEW s \in Request, session[s] # NoSession
    PROVE  session'[s] # NoSession /\ session'[s].device = session[s].device
<1>1. session[s] \in Session
  BY ConnectedTyped DEF ControlInv
<1>2. CASE UNCHANGED session
  BY <1>2
<1>3. ASSUME NEW r \in Request, Inserts(r) \/ WritesBack(r)
      PROVE  RowsKept(r)
  BY <1>3, AttachRows, WriteBack DEF Inserts, WritesBack
<1>4. NoSession \notin Session
  BY ConnectedTyped DEF ControlInv
<1>. QED
  BY <1>1, <1>2, <1>3, <1>4, TableStep DEF RowsKept

LEMMA ControlInit == Init => ControlInv
<1>. SUFFICES ASSUME Init
              PROVE  ControlInv
  OBVIOUS
<1>1. PoolInv
  BY PoolInitInv DEF Init
<1>2. ServiceTypeOK
  BY ServiceAssumption DEF Init, ServiceTypeOK, Label
<1>3. HandlerInv
  BY DEF Init, HandlerInv, HandlerOK, Critical, NoCall
<1>4. DeviceExclusive
  BY DEF Init, DeviceExclusive, Critical
<1>5. OneActivePerDevice
  BY DEF Init, OneActivePerDevice, Connected, NoSession
<1>. QED
  BY <1>1, <1>2, <1>3, <1>4, <1>5 DEF ControlInv

LEMMA ControlStep ==
    ASSUME ControlInv, [Next]_vars
    PROVE  ControlInv'
<1>1. CASE Restart
  BY <1>1, RestartControl
<1>2. ASSUME NEW r \in Request, Arrive(r)
      PROVE  ControlInv'
  <2>1. CASE Refuse(r)
    BY <2>1, RefuseControl
  <2>2. ASSUME NEW d \in Device, NEW c \in Cell, StartAttach(r, d, c)
        PROVE  ControlInv'
    BY <2>2, StartAttachControl
  <2>3. ASSUME NEW t \in Request, NEW c \in Cell, StartHandover(r, t, c)
        PROVE  ControlInv'
    BY <2>3, FindControl DEF StartHandover
  <2>4. ASSUME NEW t \in Request, StartDetach(r, t)
        PROVE  ControlInv'
    <3>1. session[t].cell \in Cell
      BY <2>4, ConnectedTyped DEF StartDetach, ControlInv, Session
    <3>. QED
      BY <2>4, <3>1, FindControl DEF StartDetach
  <2>. QED
    BY <1>2, <2>1, <2>2, <2>3, <2>4 DEF Arrive
<1>3. ASSUME NEW r \in Request, Attach(r)
      PROVE  ControlInv'
  BY <1>3, AttachAllocateControl, AttachExhaustedControl, AttachStoreControl,
     AttachStoreFailsControl, AttachUndoControl, AttachFreeStaleControl,
     AttachReportStaleControl, AttachReportControl DEF Attach
<1>4. ASSUME NEW r \in Request, Handover(r)
      PROVE  ControlInv'
  BY <1>4, HandoverNothingControl, HandoverMoveControl, HandoverStoreControl,
     HandoverStoreFailsControl, HandoverReportControl DEF Handover
<1>5. ASSUME NEW r \in Request, Detach(r)
      PROVE  ControlInv'
  BY <1>5, DetachNothingControl, DetachCloseControl, DetachStoreControl,
     DetachStoreFailsControl, DetachFreeControl, DetachReportControl DEF Detach
<1>6. CASE UNCHANGED vars
  <2>1. UNCHANGED poolVars /\ UNCHANGED <<session, lock, pc, call, copy, stale, log, restarts>>
    BY <1>6 DEF vars, serviceVars
  <2>2. ServiceTypeOK'
    BY <2>1 DEF ControlInv, ServiceTypeOK
  <2>3. HandlerInv'
    BY <2>1 DEF ControlInv, HandlerInv, HandlerOK, Connected
  <2>4. DeviceExclusive'
    BY <2>1 DEF ControlInv, DeviceExclusive
  <2>. QED
    BY <2>1, <2>2, <2>3, <2>4, PoolUnchanged, TableUnchanged DEF ControlInv
<1>. QED
  BY <1>1, <1>2, <1>3, <1>4, <1>5, <1>6, LockDeviceControl, RereadFailsControl DEF Next, Serve

-----------------------------------------------------------------------------
(* The addresses: how an operation moves ownership of one.                 *)

\* AddressInv, address by address.
LEMMA OwnedPointwise ==
    ASSUME AddressInv, NEW ip
    PROVE  ip \in allocated <=> \/ \E s \in Request : Connected(s) /\ session[s].ip = ip
                               \/ \E r \in Request : Holds(r) /\ HeldIP(r) = ip
  BY DEF AddressInv, AllocatedIsOwned

LEMMA OwnedPointwisePrime ==
    ASSUME \A ip : ip \in allocated' <=>
                \/ \E s \in Request : Connected(s)' /\ session'[s].ip = ip
                \/ \E r \in Request : Holds(r)' /\ HeldIP(r)' = ip
    PROVE  AllocatedIsOwned'
  BY DEF AllocatedIsOwned

\* Nothing changes hands.
OwnersKept ==
    /\ allocated' = allocated
    /\ \A s \in Request :
         /\ Connected(s)' <=> Connected(s)
         /\ Connected(s) => session'[s].ip = session[s].ip
    /\ \A q \in Request :
         /\ Holds(q)' <=> Holds(q)
         /\ Holds(q) => HeldIP(q)' = HeldIP(q)

LEMMA OwnersUnchanged ==
    ASSUME AddressInv, OwnersKept
    PROVE  AddressInv'
<1>1. AddressesExclusive'
  BY DEF AddressInv, AddressesExclusive, OwnersKept
<1>2. AllocatedIsOwned'
  BY OwnedPointwise, OwnedPointwisePrime DEF OwnersKept
<1>. QED
  BY <1>1, <1>2 DEF AddressInv

\* A request takes an address nobody has.
LEMMA OwnerGained ==
    ASSUME AddressInv, NEW r \in Request, NEW ip, ip \notin allocated,
           allocated' = allocated \cup {ip},
           ~ Holds(r), Holds(r)', HeldIP(r)' = ip,
           UNCHANGED session,
           \A q \in Request \ {r} :
             /\ Holds(q)' <=> Holds(q)
             /\ Holds(q) => HeldIP(q)' = HeldIP(q)
    PROVE  AddressInv'
<1>1. \A s \in Request :
        /\ Connected(s)' <=> Connected(s)
        /\ session'[s].ip = session[s].ip
        /\ Connected(s) => session[s].ip # ip
  BY OwnedPointwise DEF Connected
<1>2. \A q \in Request \ {r} : Holds(q)' => HeldIP(q)' # ip
  BY OwnedPointwise
<1>3. AddressesExclusive'
  BY <1>1, <1>2 DEF AddressInv, AddressesExclusive
<1>4. AllocatedIsOwned'
  BY <1>1, OwnedPointwise, OwnedPointwisePrime
<1>. QED
  BY <1>3, <1>4 DEF AddressInv

\* A request gives its address back to the pool.
LEMMA OwnerGone ==
    ASSUME AddressInv, NEW r \in Request,
           allocated' = allocated \ {HeldIP(r)},
           Holds(r), ~ Holds(r)',
           UNCHANGED session,
           \A q \in Request \ {r} :
             /\ Holds(q)' <=> Holds(q)
             /\ Holds(q) => HeldIP(q)' = HeldIP(q)
    PROVE  AddressInv'
<1>1. \A s \in Request :
        /\ Connected(s)' <=> Connected(s)
        /\ session'[s].ip = session[s].ip
        /\ Connected(s) => session[s].ip # HeldIP(r)
  BY DEF Connected, AddressInv, AddressesExclusive
<1>2. \A q \in Request \ {r} : Holds(q) => HeldIP(q) # HeldIP(r)
  BY DEF AddressInv, AddressesExclusive
<1>3. AddressesExclusive'
  BY <1>1 DEF AddressInv, AddressesExclusive
<1>4. AllocatedIsOwned'
  BY <1>1, <1>2, OwnedPointwise, OwnedPointwisePrime
<1>. QED
  BY <1>3, <1>4 DEF AddressInv

\* A session written by an attach takes over the address its request held,
\* and the request takes over the address of the session replaced.
LEMMA OwnersAfterAttach ==
    ASSUME ControlInv, AddressInv, NEW r \in Request, AttachStore(r)
    PROVE  AddressInv'
<1>0. At(r, "attach", "store") /\ UNCHANGED <<nextHost, allocated, recycled, call, copy>>
  BY DEF AttachStore, poolVars
<1>1. PICK old \in Replaced(call[r].device) :
        /\ AttachSession(copy[r], old)
        /\ \/ /\ old = NoRequest
              /\ pc' = [pc EXCEPT ![r] = "report"]
              /\ stale' = stale
           \/ /\ old # NoRequest
              /\ pc' = [pc EXCEPT ![r] = "free"]
              /\ stale' = [stale EXCEPT ![r] = Closed(session[old], "STALE_DISCONNECT")]
  BY DEF AttachStore, Goto
<1>2. /\ pc[r] = "store" /\ call[r].op = "attach"
      /\ pc \in [Request -> Label] /\ stale \in [Request -> Session \cup {NoSession}]
      /\ session[r] = NoSession
  BY <1>0 DEF At, ControlInv, ServiceTypeOK, HandlerInv, HandlerOK
<1>3. Holds(r) /\ HeldIP(r) = copy[r].ip
  BY <1>2 DEF Holds, HeldIP
<1>4. ASSUME NEW q \in Request \ {r}
      PROVE  /\ Holds(q)' <=> Holds(q)
             /\ Holds(q) => HeldIP(q)' = HeldIP(q)
  <2>1. pc'[q] = pc[q] /\ stale'[q] = stale[q] /\ call' = call /\ copy' = copy
    BY <1>0, <1>1, <1>2
  <2>. QED
    BY <2>1 DEF Holds, HeldIP
<1>5. /\ Connected(r)' /\ session'[r].ip = copy[r].ip /\ ~ Connected(r)
      /\ \A t \in Request \ {r, old} : session'[t] = session[t]
  <2>1. /\ session'[r] = copy[r] /\ copy[r].status = "CONNECTED"
        /\ \A t \in Request \ {r, old} : session'[t] = session[t]
    BY <1>1, <1>2, AttachRows
  <2>2. session[r].status # "CONNECTED"
    BY <1>2 DEF NoSession
  <2>. QED
    BY <2>1, <2>2 DEF Connected
<1>6. CASE old = NoRequest
  <2>1. ~ Holds(r)'
    BY <1>0, <1>1, <1>2, <1>6 DEF Holds
  <2>2. \A t \in Request \ {r} : session'[t] = session[t] /\ (Connected(t)' <=> Connected(t))
    BY <1>5, <1>6, ServiceAssumption DEF Connected
  <2>3. AddressesExclusive'
    BY <1>3, <1>4, <1>5, <2>1, <2>2 DEF AddressInv, AddressesExclusive
  <2>4. AllocatedIsOwned'
    BY <1>0, <1>3, <1>4, <1>5, <2>1, <2>2, OwnedPointwise, OwnedPointwisePrime
  <2>. QED
    BY <2>3, <2>4 DEF AddressInv
<1>7. CASE old # NoRequest
  <2>1. /\ old \in Request /\ old # r /\ Connected(old) /\ session[old] \in Session
        /\ session'[old] = Closed(session[old], "STALE_DISCONNECT")
    BY <1>1, <1>2, <1>7, AttachRows
  <2>2. ~ Connected(old)'
    BY <2>1, ClosedTyped DEF Connected
  <2>3. Holds(r)' /\ HeldIP(r)' = session[old].ip
    <3>1. stale'[r] = Closed(session[old], "STALE_DISCONNECT") /\ pc'[r] = "free" /\ call' = call
      BY <1>0, <1>1, <1>2, <1>7
    <3>. QED
      BY <1>2, <2>1, <3>1, ClosedTyped DEF Holds, HeldIP
  <2>4. \A t \in Request \ {r, old} : session'[t] = session[t] /\ (Connected(t)' <=> Connected(t))
    BY <1>5 DEF Connected
  <2>5. AddressesExclusive'
    <3>1. ASSUME NEW a \in Request, NEW b \in Request, Connected(a)', Connected(b)', a # b
          PROVE  session'[a].ip # session'[b].ip
      BY <1>3, <1>5, <2>2, <2>4, <3>1 DEF AddressInv, AddressesExclusive
    <3>2. ASSUME NEW q \in Request, NEW a \in Request, Holds(q)', Connected(a)'
          PROVE  HeldIP(q)' # session'[a].ip
      BY <1>3, <1>4, <1>5, <2>1, <2>2, <2>3, <2>4, <3>2 DEF AddressInv, AddressesExclusive
    <3>3. ASSUME NEW q \in Request, NEW p \in Request, Holds(q)', Holds(p)', q # p
          PROVE  HeldIP(q)' # HeldIP(p)'
      BY <1>4, <2>1, <2>3, <3>3 DEF AddressInv, AddressesExclusive
    <3>. QED
      BY <3>1, <3>2, <3>3 DEF AddressesExclusive
  <2>6. AllocatedIsOwned'
    <3>1. ASSUME NEW ip
          PROVE  ip \in allocated' <=>
                   \/ \E s \in Request : Connected(s)' /\ session'[s].ip = ip
                   \/ \E q \in Request : Holds(q)' /\ HeldIP(q)' = ip
      <4>1. CASE ip = copy[r].ip
        BY <1>0, <1>3, <1>5, <4>1, OwnedPointwise
      <4>2. CASE ip = session[old].ip
        BY <1>0, <2>1, <2>3, <4>2, OwnedPointwise
      <4>3. CASE ip # copy[r].ip /\ ip # session[old].ip
        BY <1>0, <1>3, <1>4, <1>5, <2>1, <2>2, <2>3, <2>4, <4>3, OwnedPointwise
      <4>. QED
        BY <4>1, <4>2, <4>3
    <3>. QED
      BY <3>1, OwnedPointwisePrime
  <2>. QED
    BY <2>5, <2>6 DEF AddressInv
<1>. QED
  BY <1>6, <1>7

\* A detach takes over the address of the session it has closed.
LEMMA OwnersAfterDetach ==
    ASSUME ControlInv, AddressInv, NEW r \in Request, DetachStore(r)
    PROVE  AddressInv'
<1>0. pc[r] \in Critical
  BY DEF DetachStore, At, Critical
<1>. PICK row \in Request : row = call[r].session
  BY <1>0, Inside
<1>1. /\ pc[r] = "store" /\ call[r].op = "detach"
      /\ pc' = [pc EXCEPT ![r] = "free"] /\ pc \in [Request -> Label]
      /\ UNCHANGED <<allocated, call, copy, stale>>
      /\ session' = [session EXCEPT ![call[r].session] = copy[r]]
  BY DEF DetachStore, At, Goto, poolVars, ControlInv, ServiceTypeOK
<1>2. /\ Connected(row) /\ session[row] \in Session
      /\ copy[r] = Closed(session[row], "VOLUNTARY_DETACH")
      /\ session'[row] = copy[r]
      /\ \A t \in Request \ {row} : session'[t] = session[t]
  <2>1. HandlerOK(r)
    BY DEF ControlInv, HandlerInv
  <2>2. /\ Connected(row)
        /\ copy[r] = Closed(session[row], "VOLUNTARY_DETACH")
    BY <1>1, <2>1 DEF HandlerOK
  <2>3. session[row] \in Session
    BY <2>2, ConnectedTyped DEF ControlInv
  <2>4. session'[row] = copy[r] /\ \A t \in Request \ {row} : session'[t] = session[t]
    BY <1>1, WriteBack
  <2>. QED
    BY <2>2, <2>3, <2>4
<1>3. ~ Connected(row)' /\ copy[r].ip = session[row].ip
  BY <1>2, ClosedTyped DEF Connected
<1>4. ~ Holds(r) /\ Holds(r)' /\ HeldIP(r)' = session[row].ip
  BY <1>1, <1>3 DEF Holds, HeldIP
<1>5. ASSUME NEW q \in Request \ {r}
      PROVE  /\ Holds(q)' <=> Holds(q)
             /\ Holds(q) => HeldIP(q)' = HeldIP(q)
  BY <1>1 DEF Holds, HeldIP
<1>6. \A t \in Request \ {row} : Connected(t)' <=> Connected(t)
  BY <1>2 DEF Connected
<1>7. AddressesExclusive'
  BY <1>2, <1>3, <1>4, <1>5, <1>6 DEF AddressInv, AddressesExclusive
<1>8. AllocatedIsOwned'
  BY <1>1, <1>2, <1>3, <1>4, <1>5, <1>6, OwnedPointwise, OwnedPointwisePrime
<1>. QED
  BY <1>7, <1>8 DEF AddressInv

\* After a crash only connected sessions own addresses, those of the new pool.
LEMMA OwnersAfterRestart ==
    ASSUME ControlInv, AddressInv, Restart
    PROVE  AddressInv'
<1>1. \A r \in Request : ~ Holds(r)'
  <2>1. \A r \in Request : pc'[r] \in {"idle", "failed"} \cup Answered
    BY DEF Restart
  <2>. QED
    BY <2>1 DEF Holds, Answered
<1>2. \A s \in Request : (Connected(s)' <=> Connected(s)) /\ session'[s] = session[s]
  BY DEF Restart, Connected
<1>3. \A s \in Request : Connected(s) => session[s].ip \in Address
  BY ConnectedTyped DEF ControlInv, Session
<1>4. allocated' = {HostToIPv4(h) : h \in ConnectedHosts}
  BY DEF Restart, WarmUpIPPool
<1>5. ASSUME NEW ip
      PROVE  ip \in allocated' <=> \E s \in Request : Connected(s) /\ session[s].ip = ip
  BY <1>3, <1>4 DEF ConnectedHosts, Address
<1>6. AllocatedIsOwned'
  BY <1>1, <1>2, <1>5, OwnedPointwisePrime
<1>7. AddressesExclusive'
  BY <1>1, <1>2 DEF AddressInv, AddressesExclusive
<1>. QED
  BY <1>6, <1>7 DEF AddressInv

\* A step that writes no row and leaves the pool alone moves no address when r
\* holds one after it if and only if it held the same one before.
LEMMA QuietStep ==
    ASSUME ServiceTypeOK, NEW r \in Request, NEW label,
           Goto(r, label), UNCHANGED <<allocated, session>>,
           \A q \in Request \ {r} :
             call'[q] = call[q] /\ copy'[q] = copy[q] /\ stale'[q] = stale[q],
           Holds(r)' <=> Holds(r),
           Holds(r) => HeldIP(r)' = HeldIP(r)
    PROVE  OwnersKept
<1>1. \A q \in Request \ {r} :
        (Holds(q)' <=> Holds(q)) /\ (Holds(q) => HeldIP(q)' = HeldIP(q))
  BY DEF ServiceTypeOK, Goto, Holds, HeldIP
<1>2. \A s \in Request : (Connected(s)' <=> Connected(s)) /\ session'[s] = session[s]
  BY DEF Connected
<1>. QED
  BY <1>1, <1>2 DEF OwnersKept

\* A handler that returns without an address in its hands.
LEMMA QuietReturn ==
    ASSUME ServiceTypeOK, NEW r \in Request, NEW answer \in Answered,
           Return(r, answer), UNCHANGED <<allocated, session, call>>, ~ Holds(r)
    PROVE  OwnersKept
<1>1. ~ Holds(r)'
  BY DEF ServiceTypeOK, Return, Goto, Holds, Answered
<1>. QED
  BY <1>1, QuietStep DEF ServiceTypeOK, Return

\* A handover writes a row, but neither its status nor its address.
LEMMA HandoverKeepsOwners ==
    ASSUME ControlInv, NEW r \in Request, WritesBack(r), call[r].op = "handover",
           NEW label \in {"report", "failed"}, Goto(r, label), UNCHANGED <<allocated, call>>,
           \A q \in Request \ {r} : copy'[q] = copy[q] /\ stale'[q] = stale[q]
    PROVE  OwnersKept
<1>0. pc[r] \in Critical /\ pc[r] = "store" /\ pc \in [Request -> Label]
  BY DEF WritesBack, Critical, ControlInv, ServiceTypeOK
<1>. PICK row \in Request : row = call[r].session
  BY <1>0, Inside
<1>2. /\ Connected(row) /\ copy[r].ip = session[row].ip /\ copy[r].status = session[row].status
      /\ session'[row] = copy[r]
      /\ \A t \in Request \ {row} : session'[t] = session[t]
  <2>1. HandlerOK(r)
    BY DEF ControlInv, HandlerInv
  <2>2. /\ Connected(row)
        /\ copy[r] = Moved(session[row], call[r].cell)
    BY <1>0, <2>1 DEF HandlerOK
  <2>3. session[row] \in Session /\ call[r].cell \in Cell
    BY <1>0, <2>2, ConnectedTyped, Inside DEF ControlInv, Call
  <2>4. session'[row] = copy[r] /\ \A t \in Request \ {row} : session'[t] = session[t]
    BY WriteBack DEF WritesBack
  <2>. QED
    BY <2>2, <2>3, <2>4, MovedTyped
<1>3. \A q \in Request : (Holds(q)' <=> Holds(q)) /\ (Holds(q) => HeldIP(q)' = HeldIP(q))
  BY <1>0 DEF Holds, HeldIP, Goto
<1>4. \A t \in Request :
        /\ Connected(t)' <=> Connected(t)
        /\ Connected(t) => session'[t].ip = session[t].ip
  BY <1>2 DEF Connected
<1>. QED
  BY <1>3, <1>4 DEF OwnersKept

LEMMA OwnersAfterAllocate ==
    ASSUME ControlInv, AddressInv, NEW r \in Request, AttachAllocate(r)
    PROVE  AddressInv'
<1>1. /\ pc[r] = "locked" /\ call[r].op = "attach" /\ ServiceTypeOK
      /\ pc' = [pc EXCEPT ![r] = "store"] /\ UNCHANGED <<session, call, stale>>
  BY DEF AttachAllocate, At, Goto, ControlInv
<1>2. PICK ip \in Address :
        /\ Allocate(ip)
        /\ copy' = [copy EXCEPT ![r] = NewSession(r, call[r].device, call[r].cell, ip)]
  BY DEF AttachAllocate
<1>3. ip \notin allocated /\ allocated' = allocated \cup {ip}
  BY <1>2, AllocateEffect DEF ControlInv
<1>4. ~ Holds(r) /\ Holds(r)' /\ HeldIP(r)' = ip
  BY <1>1, <1>2 DEF ServiceTypeOK, Holds, HeldIP, NewSession
<1>5. \A q \in Request \ {r} :
        (Holds(q)' <=> Holds(q)) /\ (Holds(q) => HeldIP(q)' = HeldIP(q))
  BY <1>1, <1>2 DEF ServiceTypeOK, Holds, HeldIP
<1>. QED
  BY <1>1, <1>3, <1>4, <1>5, OwnerGained

\* The three releases: of a new address after a failed write, of the address
\* of a replaced session, of the address of a detached one.
LEMMA OwnersAfterRelease ==
    ASSUME ControlInv, AddressInv, NEW r \in Request,
           AttachUndo(r) \/ AttachFreeStale(r) \/ DetachFree(r)
    PROVE  AddressInv'
<1>1. /\ Holds(r) /\ ServiceTypeOK /\ UNCHANGED <<session, call>>
      /\ Release(HeldIP(r))
      /\ \A q \in Request \ {r} :
            pc'[q] = pc[q] /\ copy'[q] = copy[q] /\ stale'[q] = stale[q]
      /\ pc'[r] \notin {"store", "undo", "free"}
  BY DEF AttachUndo, AttachFreeStale, DetachFree, At, Goto, Return, Holds, HeldIP,
         ControlInv, ServiceTypeOK
<1>2. allocated' = allocated \ {HeldIP(r)}
  BY <1>1, ReleaseEffect DEF ControlInv
<1>3. ~ Holds(r)'
  BY <1>1 DEF Holds
<1>4. \A q \in Request \ {r} :
        (Holds(q)' <=> Holds(q)) /\ (Holds(q) => HeldIP(q)' = HeldIP(q))
  BY <1>1 DEF Holds, HeldIP
<1>. QED
  BY <1>1, <1>2, <1>3, <1>4, OwnerGone

\* A write that took effect, closed a session and was answered with an error.
ClosesUnnoticed(r) ==
    /\ session' # session
    /\ AttachStoreFails(r) \/ DetachStoreFails(r)

\* These are the only steps by which an address changes hands.
LEMMA OwnerSteps ==
    ASSUME ControlInv, [Next]_vars
    PROVE  \/ OwnersKept
           \/ Restart
           \/ \E r \in Request :
                \/ AttachAllocate(r) \/ AttachStore(r) \/ DetachStore(r)
                \/ AttachUndo(r) \/ AttachFreeStale(r) \/ DetachFree(r)
                \/ ClosesUnnoticed(r)
<1>. USE DEF ControlInv, At, Goto
<1>2. ASSUME NEW r \in Request, Arrive(r)
      PROVE  OwnersKept
  <2>1. CASE Refuse(r)
    BY <2>1, QuietStep DEF Refuse, poolVars, Holds, ServiceTypeOK
  <2>2. ASSUME NEW d \in Device, NEW c \in Cell, StartAttach(r, d, c)
        PROVE  OwnersKept
    BY <2>2, QuietStep DEF StartAttach, poolVars, Holds, ServiceTypeOK
  <2>3. ASSUME NEW op, NEW t, NEW c, Find(r, op, t, c)
        PROVE  OwnersKept
    BY <2>3, QuietStep DEF Find, poolVars, Holds, ServiceTypeOK
  <2>. QED
    BY <1>2, <2>1, <2>2, <2>3 DEF Arrive, StartHandover, StartDetach
<1>3. ASSUME NEW r \in Request, LockDevice(r)
      PROVE  OwnersKept
  BY <1>3, QuietStep DEF LockDevice, poolVars, Holds, ServiceTypeOK
<1>4. ASSUME NEW r \in Request, Attach(r)
      PROVE  \/ OwnersKept \/ ClosesUnnoticed(r)
             \/ AttachAllocate(r) \/ AttachStore(r) \/ AttachUndo(r) \/ AttachFreeStale(r)
  <2>1. CASE AttachExhausted(r)
    BY <2>1, QuietReturn DEF AttachExhausted, Holds, poolVars, Answered
  <2>2. CASE AttachStoreFails(r) /\ session' = session
    BY <2>2, QuietStep DEF AttachStoreFails, poolVars, Holds, HeldIP, ServiceTypeOK
  <2>3. CASE AttachReportStale(r)
    BY <2>3, QuietStep DEF AttachReportStale, poolVars, Holds, ServiceTypeOK
  <2>4. CASE AttachReport(r)
    BY <2>4, QuietReturn DEF AttachReport, Report, poolVars, Holds, Answered
  <2>. QED
    BY <1>4, <2>1, <2>2, <2>3, <2>4 DEF Attach, ClosesUnnoticed
<1>5. ASSUME NEW r \in Request, Handover(r)
      PROVE  OwnersKept
  <2>1. CASE HandoverNothing(r)
    <3>1. \E answer \in Answered : Return(r, answer)
      BY <2>1 DEF HandoverNothing, Answered
    <3>. QED
      BY <2>1, <3>1, QuietReturn DEF HandoverNothing, poolVars, Holds
  <2>2. CASE HandoverMove(r)
    BY <2>2, QuietStep DEF HandoverMove, poolVars, Holds, ServiceTypeOK
  <2>3. CASE HandoverStore(r)
    BY <2>3, HandoverKeepsOwners DEF HandoverStore, WritesBack, poolVars
  <2>4. CASE HandoverStoreFails(r)
    <3>1. CASE session' = session
      BY <2>4, <3>1, QuietReturn DEF HandoverStoreFails, poolVars, Holds, Answered
    <3>2. CASE session' # session
      BY <2>4, <3>2, HandoverKeepsOwners
         DEF HandoverStoreFails, WritesBack, poolVars, Return, ServiceTypeOK
    <3>. QED
      BY <3>1, <3>2
  <2>5. CASE HandoverReport(r)
    BY <2>5, QuietReturn DEF HandoverReport, Report, poolVars, Holds, Answered
  <2>. QED
    BY <1>5, <2>1, <2>2, <2>3, <2>4, <2>5 DEF Handover
<1>6. ASSUME NEW r \in Request, Detach(r)
      PROVE  OwnersKept \/ ClosesUnnoticed(r) \/ DetachStore(r) \/ DetachFree(r)
  <2>1. CASE DetachNothing(r)
    <3>1. \E answer \in Answered : Return(r, answer)
      BY <2>1 DEF DetachNothing, Answered
    <3>. QED
      BY <2>1, <3>1, QuietReturn DEF DetachNothing, poolVars, Holds
  <2>2. CASE DetachClose(r)
    BY <2>2, QuietStep DEF DetachClose, poolVars, Holds, ServiceTypeOK
  <2>3. CASE DetachStoreFails(r) /\ session' = session
    BY <2>3, QuietReturn DEF DetachStoreFails, poolVars, Holds, Answered
  <2>4. CASE DetachReport(r)
    BY <2>4, QuietReturn DEF DetachReport, Report, poolVars, Holds, Answered
  <2>. QED
    BY <1>6, <2>1, <2>2, <2>3, <2>4 DEF Detach, ClosesUnnoticed
<1>7. CASE UNCHANGED vars
  BY <1>7 DEF OwnersKept, vars, serviceVars, poolVars, Connected, Holds, HeldIP
<1>8. ASSUME NEW r \in Request, RereadFails(r)
      PROVE  OwnersKept
  BY <1>8, QuietReturn DEF RereadFails, Holds, poolVars, Answered
<1>. QED
  BY <1>2, <1>3, <1>4, <1>5, <1>6, <1>7, <1>8 DEF Next, Serve

LEMMA AddressStep ==
    ASSUME ~ AmbiguousWrites, ControlInv, AddressInv, [Next]_vars
    PROVE  AddressInv'
<1>1. \A r \in Request : ~ ClosesUnnoticed(r)
  BY DEF ClosesUnnoticed, AttachStoreFails, DetachStoreFails
<1>. QED
  BY <1>1, OwnerSteps, OwnersUnchanged, OwnersAfterRestart, OwnersAfterAllocate,
     OwnersAfterAttach, OwnersAfterDetach, OwnersAfterRelease

LEMMA AddressInit == Init => AddressInv
<1>. SUFFICES ASSUME Init
              PROVE  AddressInv
  OBVIOUS
<1>1. \A s \in Request : ~ Connected(s)
  BY DEF Init, Connected, NoSession
<1>2. \A r \in Request : ~ Holds(r)
  BY DEF Init, Holds
<1>3. allocated = {}
  BY DEF Init, PoolInit
<1>. QED
  BY <1>1, <1>2, <1>3 DEF AddressInv, AddressesExclusive, AllocatedIsOwned

LEMMA ControlHolds == Spec => []ControlInv
  BY ControlInit, ControlStep, PTL DEF Spec

LEMMA AddressesHold ==
    ASSUME ~ AmbiguousWrites
    PROVE  Spec => [](ControlInv /\ AddressInv)
<1>1. Init => ControlInv /\ AddressInv
  BY ControlInit, AddressInit
<1>2. ControlInv /\ AddressInv /\ [Next]_vars => (ControlInv /\ AddressInv)'
  BY ControlStep, AddressStep
<1>. QED
  BY <1>1, <1>2, PTL DEF Spec

-----------------------------------------------------------------------------
\* The pool and the service keep their types.
THEOREM TypesHold == Spec => []TypeOK
<1>1. ControlInv => TypeOK
  BY DEF ControlInv, PoolInv, TypeOK
<1>. QED
  BY <1>1, ControlHolds, PTL

\* Two requests are never inside the critical section of one device
\* (lockDevice, service.go:51-62).
THEOREM MutualExclusion == Spec => []DeviceExclusive
<1>1. ControlInv => DeviceExclusive
  BY DEF ControlInv
<1>. QED
  BY <1>1, ControlHolds, PTL

\* A device has at most one CONNECTED session, for any number of concurrent
\* attaches, handovers and detaches, failed writes and crashes.
THEOREM AtMostOneActive == Spec => []OneActivePerDevice
<1>1. ControlInv => OneActivePerDevice
  BY DEF ControlInv
<1>. QED
  BY <1>1, ControlHolds, PTL

\* No address has two owners among the connected sessions and the requests in
\* flight, across failed writes and restarts (service.go:79-107, 183-190).
THEOREM AddressesOwnedOnce ==
    ASSUME ~ AmbiguousWrites
    PROVE  Spec => []AddressesExclusive
<1>1. AddressInv => AddressesExclusive
  BY DEF AddressInv
<1>. QED
  BY <1>1, AddressesHold, PTL

\* The pool's allocated addresses are exactly the ones with an owner: none of
\* them is free for the next attach, and none leaks while the process runs
\* (service.go:79-107, 183-190; the warm-up of main.go).
THEOREM PoolMatchesOwners ==
    ASSUME ~ AmbiguousWrites
    PROVE  Spec => []AllocatedIsOwned
<1>1. AddressInv => AllocatedIsOwned
  BY DEF AddressInv
<1>. QED
  BY <1>1, AddressesHold, PTL

\* The same of the pool's own bookkeeping, in the service and across restarts.
THEOREM ServicePoolNeverDoubleBooks == Spec => []NoDoubleBooking
<1>1. ControlInv => NoDoubleBooking
  BY DEF ControlInv, PoolInv
<1>. QED
  BY <1>1, ControlHolds, PTL

\* A DISCONNECTED session is never written again.
THEOREM ClosedStaysClosed == Spec => DisconnectIsFinal
<1>1. ControlInv /\ [Next]_vars =>
        [\A s \in Request :
            session[s].status = "DISCONNECTED" => session'[s] = session[s]]_vars
  BY ClosedRowKept
<1>2. Spec => []ControlInv /\ [][Next]_vars
  BY ControlHolds, PTL DEF Spec
<1>. QED
  BY <1>1, <1>2, PTL DEF DisconnectIsFinal

\* The half of it that an attach of unknown outcome breaks: the address of a
\* connected session is in the pool's allocated set, so no other attach gets it.
THEOREM ConnectedStaysAllocated ==
    ASSUME ~ AmbiguousWrites
    PROVE  Spec => []ConnectedIsAllocated
<1>1. AddressInv => ConnectedIsAllocated
  BY DEF AddressInv, AllocatedIsOwned, ConnectedIsAllocated
<1>. QED
  BY <1>1, AddressesHold, PTL

-----------------------------------------------------------------------------
(* The addresses a warm-up skips.                                          *)

\* Between two crashes the service only allocates and releases.
LEMMA ServiceUsesPool ==
    ASSUME ControlInv, [Next]_vars
    PROVE  \/ Restart
           \/ [PoolUse]_poolVars /\ restarts' = restarts
<1>. USE DEF poolVars
<1>1. ASSUME NEW ip, Release(ip)
      PROVE  [PoolUse]_poolVars
  <2>1. ip \in allocated => ip \in Address
    BY DEF ControlInv, PoolInv, PoolTypeOK
  <2>. QED
    BY <1>1, <2>1 DEF Release, ReleaseAllocated, ReleaseUnknown, PoolUse
<1>2. CASE UNCHANGED vars
  BY <1>2 DEF vars, serviceVars
<1>3. ASSUME NEW r \in Request, Arrive(r) \/ LockDevice(r) \/ RereadFails(r)
      PROVE  UNCHANGED poolVars /\ restarts' = restarts
  BY <1>3 DEF Arrive, Refuse, StartAttach, StartHandover, StartDetach, Find, LockDevice, RereadFails
<1>4. ASSUME NEW r \in Request, Attach(r)
      PROVE  [PoolUse]_poolVars /\ restarts' = restarts
  <2>1. CASE AttachAllocate(r)
    BY <2>1 DEF AttachAllocate, PoolUse
  <2>2. CASE AttachUndo(r) \/ AttachFreeStale(r)
    BY <1>1, <2>2 DEF AttachUndo, AttachFreeStale
  <2>3. CASE \/ AttachExhausted(r) \/ AttachStore(r) \/ AttachStoreFails(r)
             \/ AttachReportStale(r) \/ AttachReport(r)
    BY <2>3 DEF AttachExhausted, AttachStore, AttachStoreFails, AttachReportStale, AttachReport, Report
  <2>. QED
    BY <1>4, <2>1, <2>2, <2>3 DEF Attach
<1>5. ASSUME NEW r \in Request, Handover(r)
      PROVE  UNCHANGED poolVars /\ restarts' = restarts
  BY <1>5 DEF Handover, HandoverNothing, HandoverMove, HandoverStore, HandoverStoreFails,
              HandoverReport, Report
<1>6. ASSUME NEW r \in Request, Detach(r)
      PROVE  [PoolUse]_poolVars /\ restarts' = restarts
  <2>1. CASE DetachFree(r)
    BY <1>1, <2>1 DEF DetachFree
  <2>2. CASE \/ DetachNothing(r) \/ DetachClose(r) \/ DetachStore(r)
             \/ DetachStoreFails(r) \/ DetachReport(r)
    BY <2>2 DEF DetachNothing, DetachClose, DetachStore, DetachStoreFails, DetachReport, Report
  <2>. QED
    BY <1>6, <2>1, <2>2 DEF Detach
<1>. QED
  BY <1>2, <1>3, <1>4, <1>5, <1>6 DEF Next, Serve

LEMMA RestartCounted ==
    ASSUME ControlInv, Restart
    PROVE  restarts' # 0
  BY ServiceAssumption DEF Restart, ControlInv, ServiceTypeOK

\* What the warm-up costs, and nothing else does: until the first restart the
\* pool refuses an attach only when every address of the block is in use,
\* whatever writes fail and whichever requests interleave (ippool.go:41-64).
THEOREM EarlyExhaustionNeedsRestart == Spec => [](restarts = 0 => ExhaustedOnlyWhenFull)
<1>. DEFINE Inv == restarts = 0 => NoAddressLost
<1>1. Init => Inv
  BY EmptyPoolLosesNone DEF Init
<1>2. ControlInv /\ Inv /\ [Next]_vars => Inv'
  <2>. SUFFICES ASSUME ControlInv, Inv, [Next]_vars, restarts' = 0
                PROVE  NoAddressLost'
    OBVIOUS
  <2>1. [PoolUse]_poolVars /\ restarts = 0
    BY ServiceUsesPool, RestartCounted
  <2>. QED
    BY <2>1, PoolUseLosesNone DEF ControlInv
<1>3. ControlInv /\ Inv => (restarts = 0 => ExhaustedOnlyWhenFull)
  BY ExhaustedIsFull DEF ControlInv
<1>. QED
  BY <1>1, <1>2, <1>3, ControlHolds, PTL DEF Spec
=============================================================================
