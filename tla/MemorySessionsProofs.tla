------------------------ MODULE MemorySessionsProofs ------------------------
(***************************************************************************)
(* Proofs about MemorySessions: for every number of requests, devices,     *)
(* cells and addresses, the in-memory backend keeps its index exact and    *)
(* does what the service over the table does.  The two need each other: a  *)
(* step is one of the service because the index is exact, and the index    *)
(* stays exact because the service's invariants hold.                      *)
(***************************************************************************)
EXTENDS MemorySessions, SessionServiceProofs

\* A row is stored under its own id.
RowsNamed == \A t \in Request : session[t] # NoSession => session[t].id = t

MemoryInv ==
    /\ ControlInv
    /\ RowsNamed
    /\ AddressInv
    /\ activeByDevice \in [Device -> Request \cup {NoRequest}]
    /\ IndexIsExact

\* What AttachSession of the in-memory backend finds is what the table holds,
\* and the address of the new session is in no connected row.
LEMMA StaleIsReplaced ==
    ASSUME MemoryInv, NEW r \in Request, At(r, "attach", "store")
    PROVE  /\ StaleSession(call[r].device) \in Replaced(call[r].device)
           /\ ~ AddressTaken(copy[r].ip, StaleSession(call[r].device))
<1>. DEFINE d == call[r].device
<1>1. d \in Device
  BY Inside DEF MemoryInv, At, Critical
<1>2. StaleSession(d) \in Replaced(d)
  <2>1. CASE StaleSession(d) = NoRequest
    <3>1. \A s \in Request : ~ (Connected(s) /\ session[s].device = d)
      <4>1. SUFFICES ASSUME NEW s \in Request, Connected(s), session[s].device = d
                     PROVE  FALSE
        OBVIOUS
      <4>2. activeByDevice[d] = s
        BY <1>1, <4>1 DEF MemoryInv, IndexIsExact
      <4>3. StaleSession(d) = s
        BY <4>1, <4>2, ServiceAssumption DEF StaleSession
      <4>. QED
        BY <2>1, <4>3, ServiceAssumption
    <3>. QED
      BY <2>1, <3>1 DEF Replaced, ActiveSessions
  <2>2. CASE StaleSession(d) # NoRequest
    <3>1. /\ StaleSession(d) = activeByDevice[d]
          /\ activeByDevice[d] # NoRequest /\ Connected(activeByDevice[d])
      BY <2>2 DEF StaleSession
    <3>2. activeByDevice[d] \in Request
      BY <1>1, <3>1 DEF MemoryInv
    <3>3. session[activeByDevice[d]].device = d
      BY <1>1, <3>2 DEF MemoryInv, IndexIsExact
    <3>4. activeByDevice[d] \in ActiveSessions(d)
      BY <3>1, <3>2, <3>3 DEF ActiveSessions
    <3>. QED
      BY <3>1, <3>4 DEF Replaced
  <2>. QED
    BY <2>1, <2>2
<1>3. ~ AddressTaken(copy[r].ip, StaleSession(d))
  <2>1. Holds(r) /\ HeldIP(r) = copy[r].ip
    BY DEF At, Holds, HeldIP
  <2>. QED
    BY <2>1 DEF MemoryInv, AddressInv, AddressesExclusive, AddressTaken
<1>. QED
  BY <1>2, <1>3

LEMMA MemoryAttachIsAttach ==
    ASSUME MemoryInv, NEW r \in Request, MemoryAttachStore(r)
    PROVE  /\ AttachStore(r)
           /\ AttachSession(copy[r], StaleSession(call[r].device))
<1>. DEFINE old == StaleSession(call[r].device)
<1>1. At(r, "attach", "store")
  BY DEF MemoryAttachStore
<1>2. old \in Replaced(call[r].device) /\ ~ AddressTaken(copy[r].ip, old)
  BY <1>1, StaleIsReplaced
<1>3. AttachSession(copy[r], old)
  BY <1>2 DEF MemoryAttachStore, MemoryAttachSession, AttachSession
<1>4. /\ IF old = NoRequest
         THEN Goto(r, "report") /\ UNCHANGED stale
         ELSE Goto(r, "free") /\ stale' = [stale EXCEPT ![r] = Closed(session[old], "STALE_DISCONNECT")]
      /\ UNCHANGED <<poolVars, lock, call, copy, log, restarts>>
  BY DEF MemoryAttachStore
<1>. HIDE DEF old
<1>5. AttachStore(r)
  BY <1>1, <1>2, <1>3, <1>4 DEF AttachStore
<1>. QED
  BY <1>3, <1>5 DEF old

\* Every step of the in-memory service is a step of the service.
LEMMA MemoryStepIsStep ==
    ASSUME MemoryInv, MemoryNext
    PROVE  Next
<1>1. ASSUME NEW r \in Request, MemoryAttachStore(r)
      PROVE  Next
  BY <1>1, MemoryAttachIsAttach DEF Next, Serve, Attach
<1>2. ASSUME NEW r \in Request, MemoryUpdate(r)
      PROVE  Next
  BY <1>2 DEF MemoryUpdate, Next, Serve, Handover, Detach
<1>3. ASSUME NEW r \in Request, ElsewhereStep(r)
      PROVE  Next
  BY <1>3 DEF ElsewhereStep, Next, Serve, Attach, Handover, Detach
<1>. QED
  BY <1>1, <1>2, <1>3 DEF MemoryNext

-----------------------------------------------------------------------------
\* The steps that call no repository method that writes leave the table alone.
LEMMA ElsewhereKeepsTable ==
    ASSUME ~ AmbiguousWrites, NEW r \in Request, ElsewhereStep(r)
    PROVE  UNCHANGED session
<1>1. CASE Arrive(r) \/ LockDevice(r)
  BY <1>1 DEF Arrive, LockDevice, Refuse, StartAttach, StartHandover, StartDetach, Find
<1>2. CASE AttachAllocate(r) \/ AttachExhausted(r) \/ AttachStoreFails(r) \/ AttachUndo(r)
  BY <1>2 DEF AttachAllocate, AttachExhausted, AttachStoreFails, AttachUndo
<1>3. CASE AttachFreeStale(r) \/ AttachReportStale(r) \/ AttachReport(r)
  BY <1>3 DEF AttachFreeStale, AttachReportStale, AttachReport, Report
<1>4. CASE HandoverNothing(r) \/ HandoverMove(r) \/ HandoverReport(r)
  BY <1>4 DEF HandoverNothing, HandoverMove, HandoverReport, Report
<1>5. CASE DetachNothing(r) \/ DetachClose(r) \/ DetachFree(r) \/ DetachReport(r)
  BY <1>5 DEF DetachNothing, DetachClose, DetachFree, DetachReport, Report
<1>. QED
  BY <1>1, <1>2, <1>3, <1>4, <1>5 DEF ElsewhereStep

LEMMA IndexTyped ==
    ASSUME MemoryInv, MemoryNext
    PROVE  activeByDevice' \in [Device -> Request \cup {NoRequest}]
<1>1. ASSUME NEW r \in Request, MemoryAttachStore(r)
      PROVE  activeByDevice' \in [Device -> Request \cup {NoRequest}]
  <2>1. pc[r] = "store" /\ call[r].op = "attach"
    BY <1>1 DEF MemoryAttachStore, At
  <2>2. copy[r].id = r
    BY <2>1 DEF MemoryInv, ControlInv, HandlerInv, HandlerOK
  <2>3. activeByDevice' = [activeByDevice EXCEPT ![copy[r].device] = copy[r].id]
    BY <1>1 DEF MemoryAttachStore, MemoryAttachSession
  <2>. QED
    BY <2>2, <2>3 DEF MemoryInv
<1>2. ASSUME NEW r \in Request, MemoryUpdate(r)
      PROVE  activeByDevice' \in [Device -> Request \cup {NoRequest}]
  BY <1>2 DEF MemoryUpdate, SyncEntry, MemoryInv
<1>. QED
  BY <1>1, <1>2 DEF MemoryNext, MemoryInv

\* After an attach the entry of the device names the new session, and the one
\* it named is closed.
LEMMA IndexAfterAttach ==
    ASSUME MemoryInv, NEW r \in Request, MemoryAttachStore(r)
    PROVE  IndexIsExact'
<1>. DEFINE old == StaleSession(call[r].device)
<1>1. pc[r] = "store" /\ call[r].op = "attach" /\ call[r].device \in Device
  BY Inside DEF MemoryAttachStore, At, MemoryInv, Critical
<1>2. old \in Replaced(call[r].device) /\ AttachSession(copy[r], old)
  BY StaleIsReplaced, MemoryAttachIsAttach DEF MemoryAttachStore
<1>3. copy[r].id = r /\ copy[r].device = call[r].device /\ session[r] = NoSession
  BY <1>1 DEF MemoryInv, ControlInv, HandlerInv, HandlerOK
<1>. HIDE DEF old
<1>4. /\ old # NoRequest =>
           /\ old \in Request /\ old # r /\ session[old] \in Session
           /\ session[old].device = call[r].device
           /\ session'[old] = Closed(session[old], "STALE_DISCONNECT")
      /\ session'[r] = copy[r] /\ copy[r].status = "CONNECTED"
      /\ \A t \in Request \ {r, old} : session'[t] = session[t]
      /\ \A t \in Request \ {r, old} : Connected(t) => session[t].device # call[r].device
  BY <1>1, <1>2, AttachRows DEF MemoryInv
<1>5. activeByDevice' = [activeByDevice EXCEPT ![call[r].device] = r]
  BY <1>3 DEF MemoryAttachStore, MemoryAttachSession
<1>6. ~ Connected(r)
  BY <1>3 DEF Connected, NoSession
<1>7. ASSUME NEW d \in Device, NEW s \in Request
      PROVE  activeByDevice'[d] = s <=> Connected(s)' /\ session'[s].device = d
  <2>1. CASE s = r
    <3>1. Connected(s)' /\ session'[s].device = call[r].device
      BY <1>3, <1>4, <2>1 DEF Connected
    <3>2. activeByDevice[d] # r
      BY <1>6 DEF MemoryInv, IndexIsExact
    <3>. QED
      BY <1>1, <1>5, <2>1, <3>1, <3>2 DEF MemoryInv
  <2>2. CASE s = old /\ s # r
    <3>1. ~ Connected(s)' /\ session[s].device = call[r].device
      BY <1>4, <2>2, ClosedTyped, ServiceAssumption DEF Connected
    <3>2. activeByDevice'[d] # s
      BY <1>1, <1>5, <2>2, <3>1 DEF MemoryInv, IndexIsExact
    <3>. QED
      BY <3>1, <3>2
  <2>3. CASE s # old /\ s # r
    <3>1. session'[s] = session[s] /\ (Connected(s) => session[s].device # call[r].device)
      BY <1>4, <2>3
    <3>2. Connected(s)' <=> Connected(s)
      BY <3>1 DEF Connected
    <3>3. CASE d = call[r].device
      BY <1>1, <1>5, <2>3, <3>1, <3>2, <3>3 DEF MemoryInv
    <3>4. CASE d # call[r].device
      BY <1>5, <3>1, <3>2, <3>4 DEF MemoryInv, IndexIsExact
    <3>. QED
      BY <3>3, <3>4
  <2>. QED
    BY <2>1, <2>2, <2>3
<1>. QED
  BY <1>7 DEF IndexIsExact

\* A handover leaves the entry, a detach deletes the one that names the session.
LEMMA IndexAfterUpdate ==
    ASSUME MemoryInv, NEW r \in Request, MemoryUpdate(r)
    PROVE  IndexIsExact'
<1>. DEFINE row == call[r].session
<1>1. /\ pc[r] = "store" /\ call[r].op \in {"handover", "detach"}
      /\ session' = [session EXCEPT ![row] = copy[r]]
      /\ SyncEntry(copy[r])
  BY DEF MemoryUpdate, HandoverStore, DetachStore, At
<1>2. ControlInv /\ HandlerOK(r) /\ pc[r] \in Critical
  BY <1>1 DEF MemoryInv, ControlInv, HandlerInv, Critical
<1>3. /\ row \in Request /\ session[row] \in Session
      /\ session[row].device = call[r].device
      /\ call[r].device \in Device /\ call[r].cell \in Cell
  BY <1>1, <1>2, Inside DEF HandlerOK, Call
<1>4. /\ Connected(row)
      /\ call[r].op = "handover" => copy[r] = Moved(session[row], call[r].cell)
      /\ call[r].op = "detach" => copy[r] = Closed(session[row], "VOLUNTARY_DETACH")
  BY <1>1, <1>2 DEF HandlerOK
<1>5. /\ session'[row] = copy[r]
      /\ \A t \in Request : t # row => session'[t] = session[t]
  BY <1>1, <1>2, WriteBack
<1>6. activeByDevice[call[r].device] = row
  BY <1>3, <1>4 DEF MemoryInv, IndexIsExact
<1>7. /\ copy[r].id = session[row].id /\ copy[r].device = session[row].device
      /\ call[r].op = "handover" => copy[r].status = session[row].status
      /\ call[r].op = "detach" => copy[r].status = "DISCONNECTED"
  BY <1>3, <1>4, <1>1, MovedTyped, ClosedTyped
<1>8. copy[r].id = row
  BY <1>2, <1>3, <1>7, ConnectedTyped DEF MemoryInv, RowsNamed, ControlInv
<1>9. activeByDevice' = IF call[r].op = "detach"
                        THEN [activeByDevice EXCEPT ![call[r].device] = NoRequest]
                        ELSE activeByDevice
  <2>1. session[row].status = "CONNECTED"
    BY <1>4 DEF Connected
  <2>. QED
    BY <1>1, <1>3, <1>6, <1>7, <1>8, <2>1 DEF SyncEntry
<1>10. ASSUME NEW d \in Device, NEW s \in Request
       PROVE  activeByDevice'[d] = s <=> Connected(s)' /\ session'[s].device = d
  <2>1. CASE s = row
    <3>1. session'[s].device = call[r].device /\ (Connected(s)' <=> call[r].op = "handover")
      BY <1>1, <1>3, <1>4, <1>5, <1>7, <2>1 DEF Connected
    <3>2. CASE call[r].op = "handover"
      BY <1>4, <1>9, <2>1, <1>3, <3>1, <3>2 DEF MemoryInv, IndexIsExact
    <3>3. CASE call[r].op = "detach"
      <4>1. d # call[r].device => activeByDevice[d] # s
        BY <1>3, <2>1 DEF MemoryInv, IndexIsExact
      <4>. QED
        BY <1>3, <1>9, <3>1, <3>3, <4>1, ServiceAssumption DEF MemoryInv
    <3>. QED
      BY <1>1, <3>2, <3>3
  <2>2. CASE s # row
    <3>1. session'[s] = session[s] /\ (Connected(s)' <=> Connected(s))
      BY <1>5, <2>2 DEF Connected
    <3>2. activeByDevice'[d] = s <=> activeByDevice[d] = s
      BY <1>3, <1>6, <1>9, <2>2, ServiceAssumption DEF MemoryInv
    <3>. QED
      BY <3>1, <3>2 DEF MemoryInv, IndexIsExact
  <2>. QED
    BY <2>1, <2>2
<1>. QED
  BY <1>10 DEF IndexIsExact

\* Attach stores the session under its id; a write back keeps the id.
LEMMA RowsStayNamed ==
    ASSUME ~ AmbiguousWrites, MemoryInv, MemoryNext
    PROVE  RowsNamed'
<1>1. ASSUME NEW r \in Request, MemoryAttachStore(r)
      PROVE  RowsNamed'
  <2>. DEFINE old == StaleSession(call[r].device)
  <2>1. pc[r] = "store" /\ call[r].op = "attach" /\ old \in Replaced(call[r].device)
        /\ AttachSession(copy[r], old)
    BY <1>1, StaleIsReplaced, MemoryAttachIsAttach DEF MemoryAttachStore, At
  <2>2. copy[r].id = r
    BY <2>1 DEF MemoryInv, ControlInv, HandlerInv, HandlerOK
  <2>. HIDE DEF old
  <2>3. /\ old # NoRequest =>
             /\ old \in Request /\ session[old] \in Session
             /\ session'[old] = Closed(session[old], "STALE_DISCONNECT")
        /\ session'[r] = copy[r]
        /\ \A t \in Request \ {r, old} : session'[t] = session[t]
    BY <2>1, AttachRows DEF MemoryInv
  <2>4. old # NoRequest => session'[old].id = session[old].id /\ session[old] # NoSession
    BY <2>3, ClosedTyped, ConnectedTyped DEF MemoryInv, ControlInv
  <2>5. ASSUME NEW t \in Request, session'[t] # NoSession
        PROVE  session'[t].id = t
    <3>1. CASE t = r
      BY <2>2, <2>3, <3>1
    <3>2. CASE t = old
      BY <2>3, <2>4, <3>2, ServiceAssumption DEF MemoryInv, RowsNamed
    <3>3. CASE t # r /\ t # old
      BY <2>3, <2>5, <3>3 DEF MemoryInv, RowsNamed
    <3>. QED
      BY <3>1, <3>2, <3>3
  <2>. QED
    BY <2>5 DEF RowsNamed
<1>2. ASSUME NEW r \in Request, MemoryUpdate(r)
      PROVE  RowsNamed'
  <2>. DEFINE row == call[r].session
  <2>1. /\ pc[r] = "store" /\ call[r].op \in {"handover", "detach"}
        /\ session' = [session EXCEPT ![row] = copy[r]]
        /\ pc[r] \in Critical /\ HandlerOK(r)
    BY <1>2 DEF MemoryUpdate, HandoverStore, DetachStore, At, MemoryInv, ControlInv, HandlerInv, Critical
  <2>2. row \in Request /\ session[row] \in Session /\ session[row] # NoSession /\ call[r].cell \in Cell
    BY <2>1, Inside, ConnectedTyped DEF HandlerOK, Call, MemoryInv, ControlInv
  <2>3. copy[r].id = session[row].id
    BY <2>1, <2>2, MovedTyped, ClosedTyped DEF HandlerOK
  <2>4. session'[row] = copy[r] /\ \A t \in Request : t # row => session'[t] = session[t]
    BY <2>1, WriteBack DEF MemoryInv
  <2>5. session[row].id = row
    BY <2>2 DEF MemoryInv, RowsNamed
  <2>. HIDE DEF row
  <2>. QED
    BY <2>3, <2>4, <2>5 DEF MemoryInv, RowsNamed
<1>3. ASSUME NEW r \in Request, ElsewhereStep(r)
      PROVE  RowsNamed'
  BY <1>3, ElsewhereKeepsTable DEF MemoryInv, RowsNamed
<1>. QED
  BY <1>1, <1>2, <1>3 DEF MemoryNext

LEMMA MemoryInvInit == MemoryInit => MemoryInv
<1>. SUFFICES ASSUME MemoryInit PROVE MemoryInv
  OBVIOUS
<1>1. ControlInv /\ AddressInv
  BY ControlInit, AddressInit DEF MemoryInit
<1>2. \A s \in Request : session[s] = NoSession /\ ~ Connected(s)
  BY DEF MemoryInit, Init, Connected, NoSession
<1>3. activeByDevice = [d \in Device |-> NoRequest]
  BY DEF MemoryInit
<1>. QED
  BY <1>1, <1>2, <1>3, ServiceAssumption DEF MemoryInv, RowsNamed, IndexIsExact

LEMMA MemoryInvStep ==
    ASSUME ~ AmbiguousWrites, MemoryInv, [MemoryNext]_memoryVars
    PROVE  MemoryInv' /\ [Next]_vars
<1>1. CASE MemoryNext
  <2>1. [Next]_vars
    BY <1>1, MemoryStepIsStep
  <2>2. ControlInv' /\ AddressInv'
    BY <2>1, ControlStep, AddressStep DEF MemoryInv
  <2>3. ASSUME NEW r \in Request, ElsewhereStep(r), UNCHANGED activeByDevice
        PROVE  IndexIsExact'
    BY <2>3, ElsewhereKeepsTable DEF MemoryInv, IndexIsExact, Connected
  <2>4. IndexIsExact'
    BY <1>1, <2>3, IndexAfterAttach, IndexAfterUpdate DEF MemoryNext
  <2>. QED
    BY <1>1, <2>1, <2>2, <2>4, IndexTyped, RowsStayNamed DEF MemoryInv
<1>2. CASE UNCHANGED memoryVars
  <2>1. UNCHANGED vars /\ UNCHANGED activeByDevice
    BY <1>2 DEF memoryVars
  <2>2. ControlInv' /\ AddressInv'
    BY <2>1, ControlStep, AddressStep DEF MemoryInv
  <2>3. UNCHANGED session
    BY <2>1 DEF vars, serviceVars
  <2>. QED
    BY <2>1, <2>2, <2>3 DEF MemoryInv, RowsNamed, IndexIsExact, Connected
<1>. QED
  BY <1>1, <1>2

-----------------------------------------------------------------------------
\* The entries of activeByDevice are exactly the CONNECTED sessions, for any
\* requests and devices: ActiveCount (memory_repository.go:117-122) counts
\* the active sessions and the connected devices at once.
THEOREM IndexStaysExact ==
    ASSUME ~ AmbiguousWrites
    PROVE  MemorySpec => []IndexIsExact
<1>1. MemoryInv => IndexIsExact
  BY DEF MemoryInv
<1>. QED
  BY <1>1, MemoryInvInit, MemoryInvStep, PTL DEF MemorySpec

\* The in-memory backend implements the service over the sessions table, so
\* every safety theorem about SessionService holds of it as well.
THEOREM MemoryImplementsTable ==
    ASSUME ~ AmbiguousWrites
    PROVE  MemorySpec => ImplementsTable
<1>1. MemoryInit => Init
  BY DEF MemoryInit
<1>. QED
  BY <1>1, MemoryInvInit, MemoryInvStep, PTL DEF MemorySpec, ImplementsTable, Spec

\* What that gives the in-memory backend, which has no unique index to fall back
\* on: one active session per device, one owner per address, a pool that
\* knows exactly the addresses in use, and closed sessions that stay closed.
THEOREM MemorySessionsSafe ==
    ASSUME ~ AmbiguousWrites
    PROVE  MemorySpec => /\ [](OneActivePerDevice /\ AddressesExclusive /\ AllocatedIsOwned)
                         /\ DisconnectIsFinal
<1>1. ImplementsTable <=> Spec
  BY DEF ImplementsTable
<1>. QED
  BY <1>1, MemoryImplementsTable, AtMostOneActive, AddressesOwnedOnce, PoolMatchesOwners,
     ClosedStaysClosed, PTL

\* Nothing but Allocate and Release touches the pool of the in-memory backend.
LEMMA MemoryUsesPool ==
    ASSUME MemoryInv, [MemoryNext]_memoryVars
    PROVE  [PoolUse]_poolVars
<1>. USE DEF vars, serviceVars, memoryVars, poolVars
<1>1. ASSUME NEW ip, Release(ip) PROVE [PoolUse]_poolVars
  <2>1. ip \in allocated => ip \in Address
    BY DEF MemoryInv, ControlInv, PoolInv, PoolTypeOK
  <2>. QED
    BY <1>1, <2>1 DEF Release, ReleaseAllocated, ReleaseUnknown, PoolUse
<1>2. ASSUME NEW r \in Request, MemoryAttachStore(r) \/ MemoryUpdate(r)
      PROVE  UNCHANGED poolVars
  BY <1>2 DEF MemoryAttachStore, MemoryUpdate, HandoverStore, DetachStore
<1>3. ASSUME NEW r \in Request, ElsewhereStep(r)
      PROVE  [PoolUse]_poolVars
  <2>1. CASE AttachAllocate(r)
    BY <2>1 DEF AttachAllocate, PoolUse
  <2>2. CASE AttachUndo(r) \/ AttachFreeStale(r) \/ DetachFree(r)
    BY <1>1, <2>2 DEF AttachUndo, AttachFreeStale, DetachFree
  <2>3. CASE \/ Arrive(r) \/ LockDevice(r)
             \/ AttachExhausted(r) \/ AttachStoreFails(r)
             \/ AttachReportStale(r) \/ AttachReport(r)
             \/ HandoverNothing(r) \/ HandoverMove(r) \/ HandoverReport(r)
             \/ DetachNothing(r) \/ DetachClose(r) \/ DetachReport(r)
    BY <2>3 DEF Arrive, Refuse, StartAttach, StartHandover, StartDetach, Find, LockDevice,
                AttachExhausted, AttachStoreFails, AttachReportStale, AttachReport,
                HandoverNothing, HandoverMove, HandoverReport, DetachNothing, DetachClose,
                DetachReport, Report
  <2>. QED
    BY <1>3, <2>1, <2>2, <2>3 DEF ElsewhereStep
<1>. QED
  BY <1>2, <1>3 DEF MemoryNext

\* The pool of the in-memory backend loses no address: with no warm-up, whatever
\* it has handed out is in use or waits to be reused.
THEOREM MemoryLosesNoAddress ==
    ASSUME ~ AmbiguousWrites
    PROVE  MemorySpec => []NoAddressLost
<1>1. MemoryInit => PoolInit
  BY DEF MemoryInit, Init
<1>2. MemorySpec => FreshPoolSpec
  BY <1>1, MemoryInvInit, MemoryInvStep, MemoryUsesPool, PTL DEF MemorySpec, FreshPoolSpec
<1>. QED
  BY <1>2, FreshPoolLosesNone, PTL
=============================================================================
