----------------------- MODULE MCSessionServiceProofs -----------------------
(***************************************************************************)
(* Proofs of the properties MCSessionService compares the service with:    *)
(* the abstract service of Connectivity, the addresses a failed write may  *)
(* cost, and the reader of the events.  They hold for every number of      *)
(* requests, devices, cells, addresses and restarts, and none of them      *)
(* needs AmbiguousWrites to be FALSE.                                      *)
(***************************************************************************)
EXTENDS MCSessionService, SessionServiceProofs, WellFoundedInduction

\* The session of a device, whichever way it is chosen.
LEMMA TheActive ==
    ASSUME OneActivePerDevice, NEW s \in Request, Connected(s)
    PROVE  /\ ActiveSessions(session[s].device) # {}
           /\ (CHOOSE t \in ActiveSessions(session[s].device) : TRUE) = s
<1>1. ActiveSessions(session[s].device) = {s}
  BY DEF OneActivePerDevice, ActiveSessions
<1>. QED
  BY <1>1

\* What the abstract service and the reader see of a connected session.
LEMMA SeenOn ==
    ASSUME OneActivePerDevice, NEW s \in Request, Connected(s)
    PROVE  /\ LinkOf(session[s].device) =
                [id |-> session[s].id, cell |-> session[s].cell, ip |-> session[s].ip]
           /\ Truth(session[s].device) = <<session[s].id, session[s].cell>>
  BY TheActive DEF LinkOf, Truth

LEMMA SeenOff ==
    ASSUME NEW d, \A s \in Request : Connected(s) => session[s].device # d
    PROVE  LinkOf(d) = NoSession /\ Truth(d) = Off
<1>1. ActiveSessions(d) = {}
  BY DEF ActiveSessions
<1>. QED
  BY <1>1 DEF LinkOf, Truth

\* A device on which no row changes looks the same after the step.
LEMMA SeenSame ==
    ASSUME NEW d,
           \A s \in Request :
             \/ session'[s] = session[s]
             \/ /\ Connected(s) => session[s].device # d
                /\ Connected(s)' => session'[s].device # d
    PROVE  LinkOf(d)' = LinkOf(d) /\ Truth(d)' = Truth(d)
<1>1. ActiveSessions(d)' = ActiveSessions(d)
  BY DEF ActiveSessions, Connected
<1>2. CASE ActiveSessions(d) = {}
  BY <1>1, <1>2 DEF LinkOf, Truth
<1>3. CASE ActiveSessions(d) # {}
  <2>. DEFINE t == CHOOSE x \in ActiveSessions(d) : TRUE
  <2>1. t \in ActiveSessions(d)
    BY <1>3
  <2>2. session'[t] = session[t]
    BY <2>1 DEF ActiveSessions
  <2>3. (CHOOSE x \in ActiveSessions(d)' : TRUE) = t
    BY <1>1
  <2>. QED
    BY <1>1, <1>3, <2>2, <2>3 DEF LinkOf, Truth
<1>. QED
  BY <1>2, <1>3

LEMMA LinkTyped ==
    ASSUME ControlInv, NEW d \in Device, LinkOf(d) # NoSession
    PROVE  \E s \in Request :
             /\ Connected(s) /\ session[s].device = d /\ session[s] \in Session
             /\ LinkOf(d) = [id |-> session[s].id, cell |-> session[s].cell, ip |-> session[s].ip]
<1>1. ActiveSessions(d) # {}
  BY DEF LinkOf
<1>2. PICK s \in Request : Connected(s) /\ session[s].device = d
  BY <1>1 DEF ActiveSessions
<1>. QED
  BY <1>2, SeenOn, ConnectedTyped DEF ControlInv

LEMMA LinkIsLink ==
    ASSUME NEW id, NEW c, NEW ip
    PROVE  [id |-> id, cell |-> c, ip |-> ip] # NoSession
<1>. DEFINE l == [id |-> id, cell |-> c, ip |-> ip]
<1>1. "id" \in DOMAIN l /\ "id" \notin DOMAIN NoSession
  BY DEF NoSession
<1>. HIDE DEF l
<1>2. l # NoSession
  BY <1>1
<1>. QED
  BY <1>2 DEF l

\* The same of the state after a step.
LEMMA SeenOnAfter ==
    ASSUME OneActivePerDevice', NEW s \in Request, Connected(s)',
           NEW d, session'[s].device = d
    PROVE  /\ LinkOf(d)' = [id |-> session'[s].id, cell |-> session'[s].cell, ip |-> session'[s].ip]
           /\ Truth(d)' = <<session'[s].id, session'[s].cell>>
<1>1. ActiveSessions(d)' = {s}
  BY DEF OneActivePerDevice, ActiveSessions
<1>2. ActiveSessions(d)' # {} /\ (CHOOSE t \in ActiveSessions(d)' : TRUE) = s
  BY <1>1
<1>. HIDE <1>1
<1>. QED
  BY <1>2 DEF LinkOf, Truth

LEMMA SeenOffAfter ==
    ASSUME NEW d, \A s \in Request : Connected(s)' => session'[s].device # d
    PROVE  LinkOf(d)' = NoSession /\ Truth(d)' = Off
<1>1. ActiveSessions(d)' = {}
  BY DEF ActiveSessions
<1>. QED
  BY <1>1 DEF LinkOf, Truth

\* A write of r shows on the device r has locked only.
LEMMA SeenElsewhere ==
    ASSUME ControlInv, NEW r \in Request, RowsKept(r),
           session'[r] # session[r] => session'[r].device = call[r].device,
           NEW d, d # call[r].device
    PROVE  LinkOf(d)' = LinkOf(d) /\ Truth(d)' = Truth(d)
<1>1. ASSUME NEW s \in Request, session'[s] # session[s]
      PROVE  /\ Connected(s) => session[s].device # d
             /\ Connected(s)' => session'[s].device # d
  <2>1. CASE session[s] \in Session
    BY <1>1, <2>1 DEF RowsKept
  <2>2. CASE session[s] = NoSession
    BY <1>1, <2>2 DEF RowsKept, NoSession, Connected
  <2>. QED
    BY <2>1, <2>2, ConnectedTyped DEF ControlInv
<1>. QED
  BY <1>1, SeenSame

-----------------------------------------------------------------------------
(* The three writes, as they show on a device.                             *)

\* AttachSession, noticed or not: the device is on the new session, whose
\* address is on no other device.
LEMMA InsertShows ==
    ASSUME ControlInv, NEW r \in Request, Inserts(r), NEW d, d = call[r].device
    PROVE  /\ d \in Device
           /\ session[r] = NoSession /\ session'[r] = copy[r]
           /\ copy[r] \in Session /\ copy[r].id = r /\ copy[r].device = d
           /\ RowsKept(r)
           /\ LinkOf(d)' = [id |-> r, cell |-> copy[r].cell, ip |-> copy[r].ip]
           /\ Truth(d)' = <<r, copy[r].cell>>
           /\ \A e \in Device \ {d} :
                /\ LinkOf(e)' = LinkOf(e) /\ Truth(e)' = Truth(e)
                /\ LinkOf(e) # NoSession => LinkOf(e).ip # copy[r].ip
<1>1. PICK old \in Replaced(call[r].device) : AttachSession(copy[r], old)
  BY DEF Inserts
<1>2. /\ pc[r] = "store" /\ call[r].op = "attach" /\ pc[r] \in Critical
      /\ d \in Device
      /\ session[r] = NoSession /\ copy[r].id = r
  <2>1. pc[r] = "store" /\ call[r].op = "attach" /\ pc[r] \in Critical
    BY DEF Inserts, Critical
  <2>2. d \in Device
    BY <2>1, Inside
  <2>3. session[r] = NoSession /\ copy[r].id = r
    BY <2>1 DEF ControlInv, HandlerInv, HandlerOK
  <2>. QED
    BY <2>1, <2>2, <2>3
<1>3. /\ session'[r] = copy[r] /\ copy[r] \in Session /\ copy[r].device = d
      /\ copy[r].status = "CONNECTED"
      /\ RowsKept(r) /\ OneActivePerDevice'
      /\ old # NoRequest => session[old].device = d
  BY <1>1, <1>2, AttachRows
<1>4. /\ LinkOf(d)' = [id |-> r, cell |-> copy[r].cell, ip |-> copy[r].ip]
      /\ Truth(d)' = <<r, copy[r].cell>>
  BY <1>2, <1>3, SeenOnAfter DEF Connected
<1>5. ASSUME NEW e \in Device \ {d}
      PROVE  /\ LinkOf(e)' = LinkOf(e) /\ Truth(e)' = Truth(e)
             /\ LinkOf(e) # NoSession => LinkOf(e).ip # copy[r].ip
  <2>1. LinkOf(e)' = LinkOf(e) /\ Truth(e)' = Truth(e)
    BY <1>3, SeenElsewhere
  <2>2. ASSUME LinkOf(e) # NoSession
        PROVE  LinkOf(e).ip # copy[r].ip
    <3>1. PICK s \in Request :
             /\ Connected(s) /\ session[s].device = e
             /\ LinkOf(e) = [id |-> session[s].id, cell |-> session[s].cell, ip |-> session[s].ip]
      BY <2>2, LinkTyped
    <3>2. s # old
      BY <1>3, <3>1, ServiceAssumption
    <3>3. session[s].ip # copy[r].ip
      BY <1>1, <3>1, <3>2 DEF AttachSession, AddressTaken
    <3>. QED
      BY <3>1, <3>3
  <2>. QED
    BY <2>1, <2>2
<1>. QED
  BY <1>2, <1>3, <1>4, <1>5

\* Update of the row read under the lock: the device was on that session, and
\* is on its new cell or on none.
LEMMA WriteBackShows ==
    ASSUME ControlInv, NEW r \in Request, WritesBack(r),
           NEW d, d = call[r].device, NEW row, row = call[r].session
    PROVE  LET s == session[row]
           IN  /\ d \in Device /\ s \in Session /\ copy[r].id = s.id
               /\ copy[r] \in Session /\ copy[r].device = d
               /\ RowsKept(r)
               /\ LinkOf(d) = [id |-> s.id, cell |-> s.cell, ip |-> s.ip]
               /\ Truth(d) = <<s.id, s.cell>>
               /\ call[r].op = "handover" =>
                    /\ call[r].cell \in Cell /\ copy[r].cell = call[r].cell
                    /\ LinkOf(d)' = [id |-> s.id, cell |-> call[r].cell, ip |-> s.ip]
                    /\ Truth(d)' = <<s.id, call[r].cell>>
               /\ call[r].op = "detach" =>
                    /\ copy[r].cell = s.cell
                    /\ LinkOf(d)' = NoSession /\ Truth(d)' = Off
               /\ \A e \in Device \ {d} : LinkOf(e)' = LinkOf(e) /\ Truth(e)' = Truth(e)
<1>1. /\ pc[r] = "store" /\ call[r].op \in {"handover", "detach"} /\ pc[r] \in Critical
      /\ row \in Request /\ d \in Device /\ call[r].cell \in Cell
  BY Inside DEF WritesBack, Critical, Call
<1>2. /\ Connected(row) /\ session[row] \in Session /\ session[row].device = d
      /\ call[r].op = "handover" => copy[r] = Moved(session[row], call[r].cell)
      /\ call[r].op = "detach" => copy[r] = Closed(session[row], "VOLUNTARY_DETACH")
  BY <1>1 DEF ControlInv, HandlerInv, HandlerOK, Critical
<1>3. /\ copy[r] \in Session /\ copy[r].device = d /\ session'[row] = copy[r]
      /\ \A t \in Request : t # row => session'[t] = session[t]
      /\ RowsKept(r) /\ OneActivePerDevice'
  BY <1>1, WriteBack DEF WritesBack
<1>4. /\ copy[r].id = session[row].id /\ copy[r].ip = session[row].ip
      /\ call[r].op = "handover" => copy[r].cell = call[r].cell /\ copy[r].status = "CONNECTED"
      /\ call[r].op = "detach" => copy[r].cell = session[row].cell /\ copy[r].status = "DISCONNECTED"
  BY <1>1, <1>2 DEF Moved, Closed, Connected, Session
<1>5. /\ LinkOf(d) = [id |-> session[row].id, cell |-> session[row].cell, ip |-> session[row].ip]
      /\ Truth(d) = <<session[row].id, session[row].cell>>
  BY <1>1, <1>2, SeenOn DEF ControlInv
<1>6. ASSUME call[r].op = "handover"
      PROVE  /\ LinkOf(d)' = [id |-> session[row].id, cell |-> call[r].cell, ip |-> session[row].ip]
             /\ Truth(d)' = <<session[row].id, call[r].cell>>
  <2>1. Connected(row)'
    BY <1>3, <1>4, <1>6 DEF Connected
  <2>. QED
    BY <1>1, <1>3, <1>4, <1>6, <2>1, SeenOnAfter
<1>7. ASSUME call[r].op = "detach"
      PROVE  LinkOf(d)' = NoSession /\ Truth(d)' = Off
  <2>1. ASSUME NEW t \in Request, Connected(t)'
        PROVE  session'[t].device # d
    <3>1. t # row
      BY <1>3, <1>4, <1>7, <2>1 DEF Connected
    <3>2. session'[t] = session[t] /\ Connected(t)
      BY <1>3, <2>1, <3>1 DEF Connected
    <3>. QED
      BY <1>1, <1>2, <3>1, <3>2 DEF ControlInv, OneActivePerDevice
  <2>. QED
    BY <2>1, SeenOffAfter
<1>8. ASSUME NEW e \in Device \ {d}
      PROVE  LinkOf(e)' = LinkOf(e) /\ Truth(e)' = Truth(e)
  <2>1. session'[r] # session[r] => session'[r].device = d
    BY <1>3
  <2>. QED
    BY <1>3, <2>1, SeenElsewhere
<1>. QED
  BY <1>1, <1>2, <1>3, <1>4, <1>5, <1>6, <1>7, <1>8

-----------------------------------------------------------------------------
(* The abstract service.                                                   *)

Link == [d \in Device |-> LinkOf(d)]
Used == {s \in Request : session[s] # NoSession}

\* The link of one device changes.
LEMMA LinkAt ==
    ASSUME NEW d \in Device, NEW l, LinkOf(d)' = l,
           \A e \in Device \ {d} : LinkOf(e)' = LinkOf(e)
    PROVE  Link' = [Link EXCEPT ![d] = l]
<1>1. \A e \in Device : LinkOf(e)' = IF e = d THEN l ELSE LinkOf(e)
  OBVIOUS
<1>. QED
  BY <1>1 DEF Link

\* Rows are added, never removed.
LEMMA UsedAfter ==
    ASSUME ControlInv, NEW r \in Request, RowsKept(r)
    PROVE  Used' = IF session'[r] = NoSession THEN Used ELSE Used \cup {r}
<1>1. \A t \in Request : session[t] # NoSession => session'[t] # NoSession
  BY ConnectedTyped DEF ControlInv, RowsKept
<1>2. \A t \in Request : t # r /\ session[t] = NoSession => session'[t] = NoSession
  BY DEF RowsKept
<1>. QED
  BY <1>1, <1>2 DEF Used

LEMMA InsertConnects ==
    ASSUME ControlInv, NEW r \in Request, Inserts(r)
    PROVE  Promised!Next
<1>. PICK d : d = call[r].device
  OBVIOUS
<1>. DEFINE c == copy[r].cell
            ip == copy[r].ip
<1>1. /\ d \in Device
      /\ session[r] = NoSession /\ session'[r] = copy[r]
      /\ copy[r] \in Session
      /\ RowsKept(r)
      /\ LinkOf(d)' = [id |-> r, cell |-> c, ip |-> ip]
      /\ \A e \in Device \ {d} :
           /\ LinkOf(e)' = LinkOf(e)
           /\ LinkOf(e) # NoSession => LinkOf(e).ip # ip
  BY InsertShows
<1>2. c \in Cell /\ ip \in Address
  BY <1>1 DEF Session
<1>3. Link' = [Link EXCEPT ![d] = [id |-> r, cell |-> c, ip |-> ip]]
  BY <1>1, LinkAt
<1>4. r \in Request \ Used /\ Used' = Used \cup {r}
  BY <1>1, UsedAfter, ConnectedTyped DEF Used, ControlInv
<1>5. \A e \in Device \ {d} : Link[e] # NoSession => Link[e].ip # ip
  BY <1>1 DEF Link
<1>. HIDE DEF c, ip
<1>6. \E id \in Request \ Used :
        /\ Used' = Used \cup {id}
        /\ \E k \in Cell, a \in Address :
             /\ Link' = [Link EXCEPT ![d] = [id |-> id, cell |-> k, ip |-> a]]
             /\ \A e \in Device \ {d} : Link[e] # NoSession => Link[e].ip # a
  <2>. c \in Cell /\ ip \in Address /\ r \in Request \ Used
    BY <1>2, <1>4
  <2>. WITNESS r \in Request \ Used
  <2>2. Used' = Used \cup {r}
    BY <1>4
  <2>3. \E k \in Cell, a \in Address :
          /\ Link' = [Link EXCEPT ![d] = [id |-> r, cell |-> k, ip |-> a]]
          /\ \A e \in Device \ {d} : Link[e] # NoSession => Link[e].ip # a
    <3>. WITNESS c \in Cell, ip \in Address
    <3>. QED
      BY <1>3, <1>5
  <2>. QED
    BY <2>2, <2>3
<1>7. Promised!Connect(d)
  BY <1>6 DEF Promised!Connect, Link, Used
<1>. QED
  BY <1>1, <1>7 DEF Promised!Next

LEMMA WriteBackMovesOrEnds ==
    ASSUME ControlInv, NEW r \in Request, WritesBack(r)
    PROVE  [Promised!Next]_<<Link, Used>>
<1>. PICK d : d = call[r].device
  OBVIOUS
<1>. PICK row : row = call[r].session
  OBVIOUS
<1>. PICK s : s = session[row]
  OBVIOUS
<1>1. /\ d \in Device /\ s \in Session
      /\ RowsKept(r)
      /\ LinkOf(d) = [id |-> s.id, cell |-> s.cell, ip |-> s.ip]
      /\ call[r].op = "handover" =>
           /\ call[r].cell \in Cell
           /\ LinkOf(d)' = [id |-> s.id, cell |-> call[r].cell, ip |-> s.ip]
      /\ call[r].op = "detach" => LinkOf(d)' = NoSession
      /\ \A e \in Device \ {d} : LinkOf(e)' = LinkOf(e)
  BY WriteBackShows
<1>2. call[r].op \in {"handover", "detach"} /\ row \in Request
  BY Inside DEF WritesBack, Critical
<1>3. Used' = Used
  <2>1. session[r] # NoSession \/ session'[r] = NoSession
    <3>1. session[row] # NoSession
      BY <1>1, <1>2, ConnectedTyped DEF ControlInv
    <3>2. \A t \in Request : t # row => session'[t] = session[t]
      BY WriteBack DEF WritesBack
    <3>. QED
      BY <3>1, <3>2
  <2>. QED
    BY <1>1, <2>1, UsedAfter DEF Used
<1>4. Link[d] = [id |-> s.id, cell |-> s.cell, ip |-> s.ip] /\ Link[d] # NoSession
  BY <1>1, LinkIsLink DEF Link
<1>5. CASE call[r].op = "handover"
  <2>. PICK c : c = call[r].cell
    OBVIOUS
  <2>1. Link' = [Link EXCEPT ![d] = [id |-> s.id, cell |-> c, ip |-> s.ip]]
    BY <1>1, <1>5, LinkAt
  <2>2. [Link[d] EXCEPT !.cell = c] = [id |-> s.id, cell |-> c, ip |-> s.ip]
    BY <1>4
  <2>3. CASE c = Link[d].cell
    <3>1. Link' = Link
      BY <1>1, <1>4, <2>1, <2>3 DEF Link
    <3>. QED
      BY <1>3, <3>1
  <2>4. CASE c # Link[d].cell
    <3>1. Link' = [Link EXCEPT ![d] = [@ EXCEPT !.cell = c]] /\ c \in Cell \ {Link[d].cell}
      BY <1>1, <1>5, <2>1, <2>2, <2>4
    <3>2. Promised!Move(d)
      BY <1>3, <1>4, <3>1 DEF Promised!Move, Link, Used
    <3>. QED
      BY <1>1, <3>2 DEF Promised!Next
  <2>. QED
    BY <2>3, <2>4
<1>6. CASE call[r].op = "detach"
  <2>1. Link' = [Link EXCEPT ![d] = NoSession]
    BY <1>1, <1>6, LinkAt
  <2>2. Promised!Disconnect(d)
    BY <1>3, <1>4, <2>1 DEF Promised!Disconnect, Link, Used
  <2>. QED
    BY <1>1, <2>2 DEF Promised!Next
<1>. QED
  BY <1>2, <1>5, <1>6

LEMMA ConnectivityInit == Init => Promised!Init
<1>. SUFFICES ASSUME Init
              PROVE  Promised!Init
  OBVIOUS
<1>1. \A s \in Request : session[s] = NoSession /\ ~ Connected(s)
  BY DEF Init, Connected, NoSession
<1>2. \A d \in Device : LinkOf(d) = NoSession
  BY <1>1, SeenOff
<1>. QED
  BY <1>1, <1>2 DEF Promised!Init

LEMMA ConnectivityStep ==
    ASSUME ControlInv, [Next]_vars
    PROVE  [Promised!Next]_<<Link, Used>>
<1>1. CASE UNCHANGED session
  <2>1. \A d \in Device : LinkOf(d)' = LinkOf(d)
    BY <1>1, SeenSame
  <2>. QED
    BY <1>1, <2>1 DEF Link, Used
<1>2. ASSUME NEW r \in Request, Inserts(r) \/ WritesBack(r)
      PROVE  [Promised!Next]_<<Link, Used>>
  BY <1>2, InsertConnects, WriteBackMovesOrEnds
<1>. QED
  BY <1>1, <1>2, TableStep

\* Seen through the sessions table, the service implements the abstract one:
\* each write of the table is one connect, move or disconnect, also when its
\* answer is lost, and nothing else a handler or a restart does shows.
THEOREM ServiceImplementsConnectivity == Spec => ImplementsConnectivity
<1>1. ControlInv /\ [Next]_vars => [Promised!Next]_<<Link, Used>>
  BY ConnectivityStep
<1>. QED
  BY <1>1, ConnectivityInit, ControlHolds, PTL
     DEF Spec, ImplementsConnectivity, Promised!Spec, Link, Used

-----------------------------------------------------------------------------
(* The addresses a failed write may cost.                                  *)

\* Lost to the failure of r, with what makes that stay so: the session is
\* closed, and its row never changes again.
LostTo(r, ip) ==
    \E s \in Request :
        session[s].status = "DISCONNECTED" /\ session[s].ip = ip /\ ClosedUnnoticed(r, s)

Leaked == allocated \ Owned

LeakInv ==
    \E failure \in Injection(Leaked, Request) :
        \A ip \in Leaked : LostTo(failure[ip], ip)

LEMMA OwnedBy ==
    ASSUME NEW ip
    PROVE  ip \in Owned <=> \/ \E s \in Request : Connected(s) /\ session[s].ip = ip
                          \/ \E r \in Request : Holds(r) /\ HeldIP(r) = ip
  BY DEF Owned

LEMMA OwnedByAfter ==
    ASSUME NEW ip
    PROVE  ip \in Owned' <=> \/ \E s \in Request : Connected(s)' /\ session'[s].ip = ip
                           \/ \E r \in Request : Holds(r)' /\ HeldIP(r)' = ip
  BY DEF Owned

\* A request that failed stays failed; an attach that gives its address back
\* fails next, in its own step or in a crash.
LEMMA FailureStays ==
    ASSUME ControlInv, [Next]_vars, NEW r \in Request
    PROVE  /\ pc[r] = "failed" => pc'[r] = "failed" /\ call'[r] = call[r]
           /\ pc[r] = "undo" /\ call[r].op = "attach" =>
                pc'[r] \in {"undo", "failed"} /\ call'[r] = call[r]
<1>1. CASE Restart
  BY <1>1 DEF Restart, Answered
<1>2. CASE UNCHANGED vars
  BY <1>2 DEF vars, serviceVars
<1>3. ASSUME NEW q \in Request, q # r, Arrive(q) \/ Serve(q)
      PROVE  pc'[r] = pc[r] /\ call'[r] = call[r]
  BY <1>3, OneActor
<1>4. ASSUME Arrive(r) \/ Serve(r)
      PROVE  /\ pc[r] # "failed"
             /\ pc[r] = "undo" => AttachUndo(r)
  <2>1. CASE Arrive(r) \/ LockDevice(r) \/ RereadFails(r)
    BY <2>1 DEF Arrive, Refuse, StartAttach, StartHandover, StartDetach, Find, LockDevice, RereadFails
  <2>2. CASE Attach(r)
    BY <2>2 DEF Attach, At, AttachAllocate, AttachExhausted, AttachStore, AttachStoreFails,
                AttachUndo, AttachFreeStale, AttachReportStale, AttachReport
  <2>3. CASE Handover(r)
    BY <2>3 DEF Handover, At, HandoverNothing, HandoverMove, HandoverStore, HandoverStoreFails,
                HandoverReport
  <2>4. CASE Detach(r)
    BY <2>4 DEF Detach, At, DetachNothing, DetachClose, DetachStore, DetachStoreFails,
                DetachFree, DetachReport
  <2>. QED
    BY <1>4, <2>1, <2>2, <2>3, <2>4 DEF Serve
<1>5. AttachUndo(r) => pc'[r] = "failed" /\ call'[r] = call[r]
  BY DEF AttachUndo, Return, Goto, ControlInv, ServiceTypeOK
<1>. QED
  BY <1>1, <1>2, <1>3, <1>4, <1>5 DEF Next

LEMMA LostStays ==
    ASSUME ControlInv, [Next]_vars, NEW r \in Request, NEW ip, LostTo(r, ip)
    PROVE  LostTo(r, ip)'
<1>1. PICK s \in Request :
        session[s].status = "DISCONNECTED" /\ session[s].ip = ip /\ ClosedUnnoticed(r, s)
  BY DEF LostTo
<1>2. session'[s] = session[s]
  BY <1>1, ClosedRowKept
<1>3. session[r] # NoSession => session'[r] # NoSession /\ session'[r].device = session[r].device
  BY RowStays
<1>4. ClosedUnnoticed(r, s)'
  <2>1. CASE call[r].op = "detach" /\ pc[r] = "failed"
    BY <1>1, <1>2, <2>1, FailureStays DEF ClosedUnnoticed
  <2>2. CASE call[r].op = "attach" /\ pc[r] \in {"undo", "failed"}
    BY <1>1, <1>2, <1>3, <2>2, FailureStays DEF ClosedUnnoticed
  <2>. QED
    BY <1>1, <2>1, <2>2 DEF ClosedUnnoticed
<1>. QED
  BY <1>1, <1>2, <1>4 DEF LostTo

\* What a step must show of the addresses: the ones it adds to the pool's
\* allocated set have an owner after it, and so have those it had one for,
\* unless the pool has them back.  One at most is excepted, which is lost to
\* the failure of the request that was about to write.
KeptBut(except) ==
    \A ip \in allocated' \ except : (ip \in Owned \/ ip \notin allocated) => ip \in Owned'

Kept ==
    \/ KeptBut({})
    \/ \E r \in Request : pc[r] = "store" /\ \E gone : LostTo(r, gone)' /\ KeptBut({gone})

LEMMA KeptByQuiet ==
    ASSUME OwnersKept
    PROVE  KeptBut({})
<1>1. \A ip : ip \in Owned' <=> ip \in Owned
  BY OwnedBy, OwnedByAfter DEF OwnersKept
<1>. QED
  BY <1>1 DEF KeptBut, OwnersKept

LEMMA KeptByRestart ==
    ASSUME ControlInv, Restart
    PROVE  KeptBut({})
<1>1. allocated' = {HostToIPv4(h) : h \in ConnectedHosts}
  BY DEF Restart, WarmUpIPPool
<1>2. ASSUME NEW ip \in allocated'
      PROVE  \E s \in Request : Connected(s)' /\ session'[s].ip = ip
  BY <1>1 DEF ConnectedHosts, Connected, Restart
<1>. QED
  BY <1>2, OwnedByAfter DEF KeptBut

LEMMA KeptByAllocate ==
    ASSUME ControlInv, NEW r \in Request, AttachAllocate(r)
    PROVE  KeptBut({})
<1>1. /\ pc[r] = "locked" /\ call[r].op = "attach" /\ ServiceTypeOK
      /\ pc' = [pc EXCEPT ![r] = "store"] /\ UNCHANGED <<session, call, stale>>
  BY DEF AttachAllocate, At, Goto, ControlInv
<1>2. PICK new \in Address :
        /\ Allocate(new)
        /\ copy' = [copy EXCEPT ![r] = NewSession(r, call[r].device, call[r].cell, new)]
  BY DEF AttachAllocate
<1>3. allocated' = allocated \cup {new}
  BY <1>2, AllocateEffect DEF ControlInv
<1>4. Holds(r)' /\ HeldIP(r)' = new
  BY <1>1, <1>2 DEF ServiceTypeOK, Holds, HeldIP, NewSession
<1>5. \A q \in Request : Holds(q) => Holds(q)' /\ HeldIP(q)' = HeldIP(q)
  BY <1>1, <1>2 DEF ServiceTypeOK, Holds, HeldIP
<1>6. \A ip : ip \in Owned => ip \in Owned'
  BY <1>1, <1>5, OwnedBy, OwnedByAfter DEF Connected
<1>7. new \in Owned'
  BY <1>4, OwnedByAfter
<1>. QED
  BY <1>3, <1>6, <1>7 DEF KeptBut

\* AttachSession, noticed or not, up to the address of the session it closes.
LEMMA KeptByInsert ==
    ASSUME ControlInv, NEW r \in Request, pc[r] = "store", call[r].op = "attach",
           NEW old \in Replaced(call[r].device), AttachSession(copy[r], old),
           UNCHANGED <<allocated, call, copy>>,
           \A q \in Request \ {r} : pc'[q] = pc[q] /\ stale'[q] = stale[q],
           NEW except, old # NoRequest => session[old].ip \in Owned' \cup except
    PROVE  KeptBut(except)
<1>1. /\ Holds(r) /\ HeldIP(r) = copy[r].ip
      /\ \A q \in Request \ {r} : Holds(q) => Holds(q)' /\ HeldIP(q)' = HeldIP(q)
  BY DEF Holds, HeldIP
<1>2. /\ Connected(r)' /\ session'[r].ip = copy[r].ip
      /\ \A t \in Request \ {r, old} : session'[t] = session[t]
      /\ ~ Connected(r)
  BY AttachRows DEF Connected, ControlInv, HandlerInv, HandlerOK, NoSession
<1>3. copy[r].ip \in Owned'
  BY <1>2, OwnedByAfter
<1>4. ASSUME NEW ip \in Owned
      PROVE  ip \in Owned' \cup except
  <2>1. ASSUME NEW s \in Request, Connected(s), session[s].ip = ip
        PROVE  ip \in Owned' \cup except
    <3>1. CASE s = old
      BY <2>1, <3>1, ServiceAssumption
    <3>2. CASE s # old
      BY <1>2, <2>1, <3>2, OwnedByAfter DEF Connected
    <3>. QED
      BY <3>1, <3>2
  <2>2. ASSUME NEW q \in Request, Holds(q), HeldIP(q) = ip
        PROVE  ip \in Owned'
    BY <1>1, <1>3, <2>2, OwnedByAfter
  <2>. QED
    BY <2>1, <2>2, OwnedBy
<1>. QED
  BY <1>4 DEF KeptBut

LEMMA KeptByAttachStore ==
    ASSUME ControlInv, NEW r \in Request, AttachStore(r)
    PROVE  KeptBut({})
<1>0. /\ pc[r] = "store" /\ call[r].op = "attach" /\ UNCHANGED <<allocated, call, copy>>
      /\ pc \in [Request -> Label] /\ stale \in [Request -> Session \cup {NoSession}]
  BY DEF AttachStore, At, poolVars, ControlInv, ServiceTypeOK
<1>1. PICK old \in Replaced(call[r].device) :
        /\ AttachSession(copy[r], old)
        /\ \/ /\ old = NoRequest
              /\ pc' = [pc EXCEPT ![r] = "report"]
              /\ stale' = stale
           \/ /\ old # NoRequest
              /\ pc' = [pc EXCEPT ![r] = "free"]
              /\ stale' = [stale EXCEPT ![r] = Closed(session[old], "STALE_DISCONNECT")]
  BY DEF AttachStore, Goto
<1>. PICK gone : gone = session[old].ip
  OBVIOUS
<1>2. ASSUME old # NoRequest
      PROVE  gone \in Owned'
  <2>1. session[old] \in Session
    BY <1>0, <1>1, <1>2, AttachRows
  <2>2. stale'[r].ip = gone
    BY <1>0, <1>1, <1>2, <2>1, ClosedTyped
  <2>3. Holds(r)' /\ HeldIP(r)' = gone
    BY <1>0, <1>1, <1>2, <2>2 DEF Holds, HeldIP
  <2>. QED
    BY <2>3, OwnedByAfter
<1>3. \A q \in Request \ {r} : pc'[q] = pc[q] /\ stale'[q] = stale[q]
  BY <1>0, <1>1
<1>. QED
  BY <1>0, <1>1, <1>2, <1>3, KeptByInsert

\* The attach fails although its session is stored: what the session it closed
\* had is lost, and the new session has the address the attach gives back next.
LEMMA KeptByUnnoticedAttach ==
    ASSUME ControlInv, NEW r \in Request, AttachStoreFails(r), session' # session
    PROVE  Kept
<1>0. /\ pc[r] = "store" /\ call[r].op = "attach" /\ UNCHANGED <<allocated, call, copy, stale>>
      /\ pc \in [Request -> Label] /\ pc' = [pc EXCEPT ![r] = "undo"]
  BY DEF AttachStoreFails, At, Goto, poolVars, ControlInv, ServiceTypeOK
<1>1. PICK old \in Replaced(call[r].device) : AttachSession(copy[r], old)
  BY DEF AttachStoreFails
<1>. PICK gone : gone = session[old].ip
  OBVIOUS
<1>2. ASSUME old # NoRequest
      PROVE  LostTo(r, gone)'
  <2>1. /\ old \in Request /\ session[old] \in Session /\ session[old].device = call[r].device
        /\ session'[old] = Closed(session[old], "STALE_DISCONNECT")
        /\ session'[r] = copy[r] /\ copy[r] \in Session /\ copy[r].device = call[r].device
    BY <1>0, <1>1, <1>2, AttachRows
  <2>2. /\ session'[old].status = "DISCONNECTED" /\ session'[old].ip = gone
        /\ session'[old].device = call[r].device
        /\ session'[old].reason = "STALE_DISCONNECT"
    BY <2>1 DEF Closed, Session
  <2>3. session'[r] # NoSession /\ session'[r].device = session'[old].device
    BY <2>1, <2>2, ConnectedTyped DEF ControlInv
  <2>4. call'[r].op = "attach" /\ pc'[r] = "undo"
    BY <1>0
  <2>. QED
    BY <2>1, <2>2, <2>3, <2>4 DEF LostTo, ClosedUnnoticed
<1>3. \A q \in Request \ {r} : pc'[q] = pc[q] /\ stale'[q] = stale[q]
  BY <1>0
<1>4. CASE old = NoRequest
  <2>1. KeptBut({})
    BY <1>0, <1>1, <1>3, <1>4, KeptByInsert
  <2>. QED
    BY <2>1 DEF Kept
<1>5. CASE old # NoRequest
  <2>1. KeptBut({gone})
    BY <1>0, <1>1, <1>3, KeptByInsert
  <2>. QED
    BY <1>0, <1>2, <1>5, <2>1 DEF Kept
<1>. QED
  BY <1>4, <1>5

\* Detach closes a row: its handler holds the address next, or it is lost.
LEMMA KeptByDetach ==
    ASSUME ControlInv, NEW r \in Request, WritesBack(r), call[r].op = "detach",
           NEW label \in {"free", "failed"}, Goto(r, label),
           UNCHANGED <<allocated, call>>, label = "free" => UNCHANGED copy,
           \A q \in Request \ {r} : copy'[q] = copy[q] /\ stale'[q] = stale[q]
    PROVE  Kept
<1>0. pc[r] \in Critical /\ pc[r] = "store" /\ pc \in [Request -> Label]
  BY DEF WritesBack, Critical, ControlInv, ServiceTypeOK
<1>. PICK row \in Request : row = call[r].session
  BY <1>0, Inside
<1>. PICK gone : gone = session[row].ip
  OBVIOUS
<1>1. /\ session[row] \in Session
      /\ copy[r] = Closed(session[row], "VOLUNTARY_DETACH")
      /\ session'[row] = copy[r]
      /\ \A t \in Request \ {row} : session'[t] = session[t]
  <2>1. Connected(row) /\ copy[r] = Closed(session[row], "VOLUNTARY_DETACH")
    BY <1>0 DEF ControlInv, HandlerInv, HandlerOK
  <2>2. session[row] \in Session
    BY <2>1, ConnectedTyped DEF ControlInv
  <2>3. session'[row] = copy[r] /\ \A t \in Request \ {row} : session'[t] = session[t]
    BY WriteBack DEF WritesBack
  <2>. QED
    BY <2>1, <2>2, <2>3
<1>2. copy[r].ip = gone /\ copy[r].status = "DISCONNECTED" /\ copy[r].reason = "VOLUNTARY_DETACH"
  BY <1>1 DEF Closed, Session
<1>3. \A q \in Request : Holds(q) => q # r /\ Holds(q)' /\ HeldIP(q)' = HeldIP(q)
  BY <1>0 DEF Goto, Holds, HeldIP
<1>4. ASSUME NEW except, gone \in Owned' \cup except
      PROVE  KeptBut(except)
  <2>1. ASSUME NEW ip \in Owned
        PROVE  ip \in Owned' \cup except
    <3>1. ASSUME NEW s \in Request, Connected(s), session[s].ip = ip
          PROVE  ip \in Owned' \cup except
      <4>1. CASE s = row
        BY <1>4, <3>1, <4>1
      <4>2. CASE s # row
        BY <1>1, <3>1, <4>2, OwnedByAfter DEF Connected
      <4>. QED
        BY <4>1, <4>2
    <3>. QED
      BY <1>3, <3>1, OwnedBy, OwnedByAfter
  <2>. QED
    BY <2>1 DEF KeptBut
<1>5. CASE label = "free"
  <2>1. Holds(r)' /\ HeldIP(r)' = gone
    BY <1>0, <1>2, <1>5 DEF Goto, Holds, HeldIP
  <2>2. gone \in Owned' \cup {}
    BY <2>1, OwnedByAfter
  <2>. QED
    BY <1>4, <2>2 DEF Kept
<1>6. CASE label = "failed"
  <2>1. call'[r].op = "detach" /\ pc'[r] = "failed" /\ call'[r].session = row
    BY <1>0, <1>6 DEF Goto
  <2>2. LostTo(r, gone)'
    BY <1>1, <1>2, <2>1 DEF LostTo, ClosedUnnoticed
  <2>3. KeptBut({gone})
    BY <1>4
  <2>. QED
    BY <1>0, <2>2, <2>3 DEF Kept
<1>. QED
  BY <1>5, <1>6

LEMMA KeptByRelease ==
    ASSUME ControlInv, NEW r \in Request, AttachUndo(r) \/ AttachFreeStale(r) \/ DetachFree(r)
    PROVE  KeptBut({})
<1>1. /\ ServiceTypeOK /\ UNCHANGED <<session, call>>
      /\ Release(HeldIP(r))
      /\ \A q \in Request \ {r} :
            pc'[q] = pc[q] /\ copy'[q] = copy[q] /\ stale'[q] = stale[q]
  BY DEF AttachUndo, AttachFreeStale, DetachFree, At, Goto, Return, Holds, HeldIP,
         ControlInv, ServiceTypeOK
<1>2. allocated' = allocated \ {HeldIP(r)}
  BY <1>1, ReleaseEffect DEF ControlInv
<1>3. \A q \in Request \ {r} : Holds(q) => Holds(q)' /\ HeldIP(q)' = HeldIP(q)
  BY <1>1 DEF Holds, HeldIP
<1>4. \A ip : ip \in Owned /\ ip # HeldIP(r) => ip \in Owned'
  BY <1>1, <1>3, OwnedBy, OwnedByAfter DEF Connected
<1>. QED
  BY <1>2, <1>4 DEF KeptBut

LEMMA LeakStep ==
    ASSUME ControlInv, LeakInv, [Next]_vars
    PROVE  LeakInv'
<1>1. Kept
  <2>1. ASSUME NEW r \in Request, DetachStore(r)
        PROVE  Kept
    BY <2>1, KeptByDetach DEF DetachStore, At, WritesBack, poolVars
  <2>2. ASSUME NEW r \in Request, DetachStoreFails(r), session' # session
        PROVE  Kept
    BY <2>2, KeptByDetach DEF DetachStoreFails, At, WritesBack, Return, poolVars, ControlInv,
                              ServiceTypeOK
  <2>. QED
    BY <2>1, <2>2, OwnerSteps, KeptByQuiet, KeptByRestart, KeptByAllocate, KeptByAttachStore,
       KeptByUnnoticedAttach, KeptByRelease DEF Kept, ClosesUnnoticed
<1>2. PICK failure \in Injection(Leaked, Request) :
        \A ip \in Leaked : LostTo(failure[ip], ip)
  BY DEF LeakInv
<1>3. /\ failure \in [Leaked -> Request]
      /\ \A a, b \in Leaked : failure[a] = failure[b] => a = b
  BY DEF Injection, IsInjective
<1>. PICK leaked : leaked = Leaked'
  OBVIOUS
<1>4. CASE KeptBut({})
  <2>. DEFINE after == [ip \in leaked |-> failure[ip]]
  <2>1. leaked \subseteq Leaked
    BY <1>4 DEF KeptBut, Leaked
  <2>2. after \in Injection(leaked, Request)
    BY <1>3, <2>1 DEF Injection, IsInjective
  <2>3. ASSUME NEW ip \in leaked
        PROVE  LostTo(after[ip], ip)'
    <3>1. PICK r \in Request : r = failure[ip]
      BY <1>3, <2>1
    <3>2. LostTo(r, ip)'
      BY <1>2, <2>1, <3>1, LostStays
    <3>. QED
      BY <3>1, <3>2
  <2>. QED
    BY <2>2, <2>3 DEF LeakInv
<1>5. ASSUME NEW r \in Request, pc[r] = "store", NEW gone, LostTo(r, gone)', KeptBut({gone})
      PROVE  LeakInv'
  <2>. PICK after : after = [ip \in leaked |-> IF ip \in Leaked THEN failure[ip] ELSE r]
    OBVIOUS
  <2>1. \A ip \in leaked : ip \in Leaked \/ ip = gone
    BY <1>5 DEF KeptBut, Leaked
  <2>2. \A ip \in Leaked : failure[ip] # r
    BY <1>2, <1>5 DEF LostTo, ClosedUnnoticed
  <2>3. after \in Injection(leaked, Request)
    BY <1>3, <2>1, <2>2 DEF Injection, IsInjective
  <2>4. ASSUME NEW ip \in leaked
        PROVE  LostTo(after[ip], ip)'
    <3>1. CASE ip \in Leaked
      BY <1>2, <1>3, <3>1, LostStays
    <3>2. CASE ip \notin Leaked
      BY <1>5, <2>1, <3>2
    <3>. QED
      BY <3>1, <3>2
  <2>. QED
    BY <2>3, <2>4 DEF LeakInv
<1>. QED
  BY <1>1, <1>4, <1>5 DEF Kept

\* An address nobody owns stays allocated only after a write that took effect
\* and was answered with an error (service.go:88-108, 179-190): no other order
\* of failures, repeated detaches, re-attaches and crashes costs the pool one,
\* and each such write costs it one at most.
THEOREM LeaksNeedFailure == Spec => []LeakNeedsFailure
<1>1. Init => LeakInv
  <2>. SUFFICES ASSUME Init
                PROVE  LeakInv
    OBVIOUS
  <2>1. Leaked = {}
    BY DEF Init, PoolInit, Leaked
  <2>2. [ip \in Leaked |-> NoRequest] \in Injection(Leaked, Request)
    BY <2>1 DEF Injection, IsInjective
  <2>. QED
    BY <2>1, <2>2 DEF LeakInv
<1>2. ControlInv /\ LeakInv /\ [Next]_vars => LeakInv'
  BY LeakStep
<1>3. LeakInv => LeakNeedsFailure
  BY DEF LeakInv, LeakNeedsFailure, Leaked, LostTo, NoSession
<1>. QED
  BY <1>1, <1>2, <1>3, ControlHolds, PTL DEF Spec

-----------------------------------------------------------------------------
(* Replay, one event after the other.                                      *)

\* Induction over the naturals, of a set.
LEMMA NumbersReached ==
    ASSUME NEW S, 0 \in S, \A n \in Nat : n \in S => n + 1 \in S
    PROVE  \A n \in Nat : n \in S
<1>. DEFINE T == Nat \ S
            Below == OpToRel(<, Nat)
<1>. SUFFICES ASSUME T # {}
              PROVE  FALSE
  OBVIOUS
<1>1. \A x, y \in Nat : y < x => <<y, x>> \in Below
  BY DEF OpToRel
<1>2. IsWellFoundedOn(Below, Nat)
  BY NatLessThanWellFounded
<1>. HIDE DEF Below, T
<1>3. T \subseteq Nat
  BY DEF T
<1>4. PICK x \in T : \A y \in T : ~ (<<y, x>> \in Below)
  BY <1>2, <1>3, WFMin
<1>5. x \in Nat /\ x # 0 /\ x - 1 \in Nat /\ x - 1 < x
  BY <1>4 DEF T
<1>6. x - 1 \notin T
  BY <1>1, <1>4, <1>5
<1>7. (x - 1) + 1 \in S
  BY <1>5, <1>6 DEF T
<1>. QED
  BY <1>4, <1>5, <1>7 DEF T

\* A reader's beliefs along the first n of a sequence of events.
Beliefs(f, events, n) ==
    f = [i \in 0..n |-> IF i = 0 THEN Off ELSE Believe(f[i - 1], events[i])]

LEMMA BeliefsExist ==
    ASSUME NEW events, NEW n \in Nat
    PROVE  \E f : Beliefs(f, events, n)
<1>. DEFINE S == {m \in Nat : \E f : Beliefs(f, events, m)}
<1>1. 0 \in S
  <2>1. Beliefs([i \in 0..0 |-> Off], events, 0)
    BY DEF Beliefs
  <2>. QED
    BY <2>1
<1>2. ASSUME NEW m \in Nat, m \in S
      PROVE  m + 1 \in S
  <2>1. PICK f : Beliefs(f, events, m)
    BY <1>2
  <2>. DEFINE g == [i \in 0..m + 1 |->
                      IF i = m + 1 THEN Believe(f[m], events[m + 1]) ELSE f[i]]
  <2>2. \A i \in 0..m : f[i] = IF i = 0 THEN Off ELSE Believe(f[i - 1], events[i])
    BY <2>1 DEF Beliefs
  <2>3. ASSUME NEW i \in 0..m + 1
        PROVE  g[i] = IF i = 0 THEN Off ELSE Believe(g[i - 1], events[i])
    <3>1. CASE i = 0
      BY <2>2, <3>1
    <3>2. CASE i # 0
      <4>1. i - 1 \in 0..m /\ g[i - 1] = f[i - 1]
        BY <3>2
      <4>2. CASE i = m + 1
        BY <3>2, <4>1, <4>2
      <4>3. CASE i # m + 1
        BY <2>2, <3>2, <4>1, <4>3
      <4>. QED
        BY <4>2, <4>3
    <3>. QED
      BY <3>1, <3>2
  <2>4. g = [i \in 0..m + 1 |-> g[i]]
    OBVIOUS
  <2>. HIDE DEF g
  <2>5. Beliefs(g, events, m + 1)
    BY <2>3, <2>4 DEF Beliefs
  <2>. QED
    BY <2>5
<1>. HIDE DEF S
<1>3. n \in S
  BY <1>1, <1>2, NumbersReached
<1>. QED
  BY <1>3 DEF S

\* They depend on the first n events only.
LEMMA BeliefsAgree ==
    ASSUME NEW n \in Nat,
           NEW events, NEW more, \A i \in 1..n : more[i] = events[i],
           NEW f, NEW g, Beliefs(f, events, n), Beliefs(g, more, n + 1)
    PROVE  f[n] = g[n]
<1>. DEFINE S == {i \in Nat : i <= n => f[i] = g[i]}
<1>1. /\ \A i \in 0..n : f[i] = IF i = 0 THEN Off ELSE Believe(f[i - 1], events[i])
      /\ \A i \in 0..n + 1 : g[i] = IF i = 0 THEN Off ELSE Believe(g[i - 1], more[i])
  BY DEF Beliefs
<1>2. 0 \in S
  BY <1>1
<1>3. ASSUME NEW i \in Nat, i \in S
      PROVE  i + 1 \in S
  <2>1. ASSUME i + 1 <= n
        PROVE  f[i + 1] = g[i + 1]
    <3>1. /\ f[i + 1] = Believe(f[i], events[i + 1])
          /\ g[i + 1] = Believe(g[i], more[i + 1])
          /\ more[i + 1] = events[i + 1]
          /\ f[i] = g[i]
      BY <1>1, <1>3, <2>1
    <3>. QED
      BY <3>1
  <2>. QED
    BY <2>1
<1>. HIDE DEF S
<1>4. n \in S
  BY <1>2, <1>3, NumbersReached
<1>. QED
  BY <1>4 DEF S

LEMMA ReplayIsLast ==
    ASSUME NEW S, NEW events \in Seq(S)
    PROVE  \E f : Beliefs(f, events, Len(events)) /\ Replay(events) = f[Len(events)]
<1>. DEFINE f == CHOOSE g : Beliefs(g, events, Len(events))
<1>1. Beliefs(f, events, Len(events))
  BY BeliefsExist, LenProperties
<1>2. Replay(events) = f[Len(events)]
  BY DEF Replay, Beliefs
<1>. QED
  BY <1>1, <1>2

LEMMA ReplayNothing == Replay(<<>>) = Off
<1>1. <<>> \in Seq({}) /\ Len(<<>>) = 0
  OBVIOUS
<1>2. PICK f : Beliefs(f, <<>>, 0) /\ Replay(<<>>) = f[0]
  BY <1>1, ReplayIsLast
<1>. QED
  BY <1>2 DEF Beliefs

LEMMA ReplayOneMore ==
    ASSUME NEW S, NEW events \in Seq(S), NEW e \in S
    PROVE  Replay(Append(events, e)) = Believe(Replay(events), e)
<1>. DEFINE n == Len(events)
            more == Append(events, e)
<1>1. /\ n \in Nat /\ more \in Seq(S) /\ Len(more) = n + 1
      /\ more[n + 1] = e /\ \A i \in 1..n : more[i] = events[i]
  BY AppendProperties, LenProperties
<1>2. PICK f : Beliefs(f, events, n) /\ Replay(events) = f[n]
  BY ReplayIsLast
<1>3. PICK g : Beliefs(g, more, n + 1) /\ Replay(more) = g[n + 1]
  BY <1>1, ReplayIsLast
<1>. HIDE DEF n, more
<1>4. f[n] = g[n]
  BY <1>1, <1>2, <1>3, BeliefsAgree
<1>5. g[n + 1] = Believe(g[n], more[n + 1])
  BY <1>1, <1>3 DEF Beliefs
<1>. QED
  BY <1>1, <1>2, <1>3, <1>4, <1>5 DEF more

\* The events that follow a belief.
LEMMA BelieveOne ==
    ASSUME NEW e, NEW b
    PROVE  /\ e.kind = "ATTACH" /\ b = Off => Believe(b, e) = <<e.session, e.cell>>
           /\ \A c : e.kind = "CELL_HANDOVER" /\ b = <<e.session, c>> =>
                Believe(b, e) = <<e.session, e.cell>>
           /\ e.kind \in {"DETACH", "STALE_DISCONNECT"} /\ b = <<e.session, e.cell>> =>
                Believe(b, e) = Off
<1>1. \A x, y : <<x, y>> # Off /\ Len(<<x, y>>) = 2
  BY DEF Off
<1>. QED
  BY <1>1 DEF Believe

-----------------------------------------------------------------------------
(* The reader of the events.                                               *)

Told(d) == Replay(log[d])

Place(s) == <<s.id, s.cell>>

\* What the reader of d's events believes while r is inside the critical
\* section of d: what r has written and not yet reported, undone.
Midway(r, d) ==
    /\ pc[r] \in {"locked", "store", "undo"} => Told(d) = Truth(d)
    /\ call[r].op = "attach" =>
         /\ pc[r] \in {"free", "report_stale", "report"} =>
              copy[r].device = d /\ Truth(d) = Place(copy[r])
         /\ pc[r] \in {"free", "report_stale"} => stale[r].device = d /\ Told(d) = Place(stale[r])
         /\ pc[r] = "report" => Told(d) = Off
    /\ call[r].op = "handover" /\ pc[r] = "report" =>
         /\ copy[r].device = d /\ Truth(d) = Place(copy[r])
         /\ \E c \in Cell : Told(d) = <<copy[r].id, c>>
    /\ call[r].op = "detach" /\ pc[r] \in {"free", "report"} =>
         copy[r].device = d /\ Truth(d) = Off /\ Told(d) = Place(copy[r])

ReaderInv ==
    /\ \A d \in Device : lock[d] = NoRequest => Told(d) = Truth(d)
    /\ \A r \in Request, d \in Device : pc[r] \in Critical /\ call[r].device = d => Midway(r, d)

EventsInv == restarts = 0 /\ ~ AmbiguousWrites => ReaderInv

LEMMA NothingToldOrSeen ==
    ASSUME UNCHANGED <<session, log>>
    PROVE  \A e : Told(e)' = Told(e) /\ Truth(e)' = Truth(e)
  BY SeenSame DEF Told

LEMMA OneEvent ==
    ASSUME ServiceTypeOK, NEW kind \in EventKind, NEW s \in Session, Emit(kind, s)
    PROVE  /\ Told(s.device)' = Believe(Told(s.device), [kind |-> kind, session |-> s.id, cell |-> s.cell])
           /\ \A e \in Device \ {s.device} : Told(e)' = Told(e)
<1>. DEFINE Event == [kind : EventKind, session : Request, cell : Cell]
            e == [kind |-> kind, session |-> s.id, cell |-> s.cell]
            d == s.device
<1>1. e \in Event /\ d \in Device
  BY DEF Session
<1>2. log \in [Device -> Seq(Event)] /\ log' = [log EXCEPT ![d] = Append(@, e)]
  BY DEF ServiceTypeOK, Emit
<1>. HIDE DEF Event, e, d
<1>3. log[d] \in Seq(Event) /\ log'[d] = Append(log[d], e) /\ \A x \in Device \ {d} : log'[x] = log[x]
  BY <1>1, <1>2
<1>4. Replay(log'[d]) = Believe(Replay(log[d]), e)
  BY <1>1, <1>3, ReplayOneMore
<1>. QED
  BY <1>3, <1>4 DEF Told, e, d

\* A step of r inside the critical section of d shows on no other device.
LEMMA OnlyOnDevice ==
    ASSUME ControlInv, ReaderInv, NEW r \in Request, pc[r] \in Critical, Serve(r),
           NEW d, d = call[r].device,
           \A e \in Device \ {d} :
             Told(e)' = Told(e) /\ Truth(e)' = Truth(e) /\ lock'[e] = lock[e],
           lock'[d] = NoRequest => Told(d)' = Truth(d)',
           pc'[r] \in Critical => Midway(r, d)'
    PROVE  ReaderInv'
<1>1. /\ \A q \in Request \ {r} :
           pc'[q] = pc[q] /\ call'[q] = call[q] /\ copy'[q] = copy[q] /\ stale'[q] = stale[q]
      /\ call'[r] = call[r]
  BY OneActor DEF Critical
<1>2. ASSUME NEW e \in Device, lock'[e] = NoRequest
      PROVE  Told(e)' = Truth(e)'
  BY <1>2 DEF ReaderInv
<1>3. ASSUME NEW q \in Request, NEW e \in Device, pc'[q] \in Critical, call'[q].device = e
      PROVE  Midway(q, e)'
  <2>1. CASE q = r
    BY <1>1, <1>3, <2>1
  <2>2. CASE q # r
    <3>1. pc[q] \in Critical /\ call[q].device = e /\ e # d
      BY <1>1, <1>3, <2>2, Inside
    <3>2. Midway(q, e) /\ Told(e)' = Told(e) /\ Truth(e)' = Truth(e)
      BY <3>1 DEF ReaderInv
    <3>. QED
      BY <1>1, <2>2, <3>2 DEF Midway, Place
  <2>. QED
    BY <2>1, <2>2
<1>. QED
  BY <1>2, <1>3 DEF ReaderInv

\* A request that is not inside, and one that goes in.
LEMMA ReaderOutside ==
    ASSUME ControlInv, ReaderInv, NEW r \in Request, Arrive(r)
    PROVE  ReaderInv'
<1>1. /\ UNCHANGED <<session, log, lock>> /\ pc[r] = "idle" /\ pc'[r] \in {"failed", "wait"}
      /\ \A q \in Request \ {r} :
           pc'[q] = pc[q] /\ call'[q] = call[q] /\ copy'[q] = copy[q] /\ stale'[q] = stale[q]
  <2>1. UNCHANGED <<session, log, lock>> /\ pc[r] = "idle" /\ pc'[r] \in {"failed", "wait"}
    BY DEF Arrive, Refuse, StartAttach, StartHandover, StartDetach, Find, Goto, ControlInv, ServiceTypeOK
  <2>. QED
    BY <2>1, OneActor
<1>2. \A e : Told(e)' = Told(e) /\ Truth(e)' = Truth(e)
  BY <1>1, NothingToldOrSeen
<1>3. ASSUME NEW e \in Device, lock'[e] = NoRequest
      PROVE  Told(e)' = Truth(e)'
  BY <1>1, <1>2, <1>3 DEF ReaderInv
<1>4. ASSUME NEW q \in Request, NEW e \in Device, pc'[q] \in Critical, call'[q].device = e
      PROVE  Midway(q, e)'
  <2>1. q # r
    BY <1>1, <1>4 DEF Critical
  <2>2. Midway(q, e)
    BY <1>1, <1>4, <2>1 DEF ReaderInv
  <2>. QED
    BY <1>1, <1>2, <2>1, <2>2 DEF Midway, Place
<1>. QED
  BY <1>3, <1>4 DEF ReaderInv

LEMMA ReaderEnters ==
    ASSUME ControlInv, ReaderInv, NEW r \in Request, LockDevice(r)
    PROVE  ReaderInv'
<1>. PICK d : d = call[r].device
  OBVIOUS
<1>1. /\ pc[r] = "wait" /\ pc' = [pc EXCEPT ![r] = "locked"] /\ lock[d] = NoRequest
      /\ lock' = [lock EXCEPT ![d] = r]
      /\ UNCHANGED <<session, log, call, copy, stale>>
  BY DEF LockDevice, Goto
<1>2. d \in Device /\ ServiceTypeOK
  BY <1>1 DEF ControlInv, HandlerInv, HandlerOK, Call
<1>3. \A e : Told(e)' = Told(e) /\ Truth(e)' = Truth(e)
  BY <1>1, NothingToldOrSeen
<1>4. ASSUME NEW e \in Device, lock'[e] = NoRequest
      PROVE  Told(e)' = Truth(e)'
  <2>1. lock[e] = NoRequest
    BY <1>1, <1>2, <1>4 DEF ServiceTypeOK
  <2>. QED
    BY <1>3, <2>1 DEF ReaderInv
<1>5. ASSUME NEW q \in Request, NEW e \in Device, pc'[q] \in Critical, call'[q].device = e
      PROVE  Midway(q, e)'
  <2>1. CASE q = r
    <3>1. pc'[r] = "locked" /\ e = d
      BY <1>1, <1>2, <1>5, <2>1 DEF ServiceTypeOK
    <3>2. Told(e)' = Truth(e)'
      BY <1>1, <1>2, <1>3, <3>1 DEF ReaderInv
    <3>. QED
      BY <2>1, <3>1, <3>2 DEF Midway
  <2>2. CASE q # r
    <3>1. pc'[q] = pc[q]
      BY <1>1, <1>2, <2>2 DEF ServiceTypeOK
    <3>2. Midway(q, e)
      BY <1>1, <1>5, <3>1 DEF ReaderInv
    <3>. QED
      BY <1>1, <1>3, <3>1, <3>2 DEF Midway, Place
  <2>. QED
    BY <2>1, <2>2
<1>. QED
  BY <1>4, <1>5 DEF ReaderInv

\* A handler that returns leaves its device to the next one.
LEMMA LockAfterReturn ==
    ASSUME ServiceTypeOK, NEW r \in Request, NEW answer, Return(r, answer), NEW d, d = call[r].device
    PROVE  pc'[r] = answer /\ \A e \in Device \ {d} : lock'[e] = lock[e]
  BY DEF ServiceTypeOK, Return, Goto

\* The steps inside that neither write a row nor report an event.
LEMMA ReaderQuiet ==
    ASSUME ControlInv, ReaderInv, NEW r \in Request, pc[r] \in Critical, Serve(r),
           UNCHANGED <<session, log>>, NEW d, d = call[r].device,
           \A e \in Device \ {d} : lock'[e] = lock[e],
           lock'[d] = NoRequest => Told(d) = Truth(d),
           pc'[r] \in Critical =>
             \/ pc'[r] \in {"locked", "store", "undo"} /\ Told(d) = Truth(d)
             \/ /\ pc'[r] \in {"report_stale", "report"} /\ pc[r] = "free"
                /\ call[r].op = "attach" => pc'[r] = "report_stale"
                /\ call[r].op # "handover"
                /\ copy'[r] = copy[r] /\ stale'[r] = stale[r]
    PROVE  ReaderInv'
<1>1. \A e : Told(e)' = Told(e) /\ Truth(e)' = Truth(e)
  BY NothingToldOrSeen
<1>2. d \in Device /\ Midway(r, d) /\ call'[r] = call[r]
  BY Inside, OneActor DEF ReaderInv, Critical
<1>3. ASSUME pc'[r] \in Critical
      PROVE  Midway(r, d)'
  <2>1. CASE pc'[r] \in {"locked", "store", "undo"}
    BY <1>1, <1>3, <2>1 DEF Midway
  <2>2. CASE pc'[r] \notin {"locked", "store", "undo"}
    BY <1>1, <1>2, <1>3, <2>2 DEF Midway, Place
  <2>. QED
    BY <2>1, <2>2
<1>. QED
  BY <1>1, <1>3, OnlyOnDevice

LEMMA ReaderQuietReturn ==
    ASSUME ControlInv, ReaderInv, NEW r \in Request, pc[r] \in {"locked", "store", "undo"}, Serve(r),
           NEW answer \in Answered, Return(r, answer), UNCHANGED <<session, log>>
    PROVE  ReaderInv'
<1>. PICK d : d = call[r].device
  OBVIOUS
<1>1. pc[r] \in Critical /\ d \in Device
  BY Inside DEF Critical
<1>2. Told(d) = Truth(d)
  BY <1>1 DEF ReaderInv, Midway
<1>3. pc'[r] \notin Critical /\ \A e \in Device \ {d} : lock'[e] = lock[e]
  BY LockAfterReturn DEF ControlInv, Answered, Critical
<1>. QED
  BY <1>1, <1>2, <1>3, ReaderQuiet

LEMMA ReaderQuietStay ==
    ASSUME ControlInv, ReaderInv, NEW r \in Request, pc[r] \in {"locked", "store"}, Serve(r),
           NEW label \in {"store", "undo"}, Goto(r, label), UNCHANGED <<session, log, lock>>
    PROVE  ReaderInv'
<1>. PICK d : d = call[r].device
  OBVIOUS
<1>1. pc[r] \in Critical /\ d \in Device /\ pc'[r] = label
  BY Inside DEF Critical, Goto, ControlInv, ServiceTypeOK
<1>2. Told(d) = Truth(d)
  BY <1>1 DEF ReaderInv, Midway
<1>. QED
  BY <1>1, <1>2, ReaderQuiet

LEMMA ReaderFree ==
    ASSUME ControlInv, ReaderInv, NEW r \in Request, AttachFreeStale(r) \/ DetachFree(r)
    PROVE  ReaderInv'
<1>. PICK d : d = call[r].device
  OBVIOUS
<1>1. /\ pc[r] = "free" /\ pc[r] \in Critical /\ UNCHANGED <<session, log, lock, copy, stale>>
      /\ \/ call[r].op = "attach" /\ pc'[r] = "report_stale"
         \/ call[r].op = "detach" /\ pc'[r] = "report"
  BY DEF AttachFreeStale, DetachFree, At, Goto, Critical, ControlInv, ServiceTypeOK
<1>2. lock[d] # NoRequest
  BY <1>1, Inside, ServiceAssumption
<1>3. Serve(r)
  BY DEF Serve, Attach, Detach
<1>. QED
  BY <1>1, <1>2, <1>3, ReaderQuiet

\* The three writes: the table runs ahead of the events.
LEMMA ReaderAttachStore ==
    ASSUME ControlInv, ReaderInv, NEW r \in Request, AttachStore(r)
    PROVE  ReaderInv'
<1>. PICK d : d = call[r].device
  OBVIOUS
<1>0. /\ pc[r] = "store" /\ call[r].op = "attach" /\ pc[r] \in Critical
      /\ UNCHANGED <<lock, call, copy, log>>
      /\ pc \in [Request -> Label] /\ stale \in [Request -> Session \cup {NoSession}]
  BY DEF AttachStore, At, Critical, ControlInv, ServiceTypeOK
<1>1. PICK old \in Replaced(call[r].device) :
        /\ AttachSession(copy[r], old)
        /\ \/ /\ old = NoRequest
              /\ pc' = [pc EXCEPT ![r] = "report"]
              /\ stale' = stale
           \/ /\ old # NoRequest
              /\ pc' = [pc EXCEPT ![r] = "free"]
              /\ stale' = [stale EXCEPT ![r] = Closed(session[old], "STALE_DISCONNECT")]
  BY DEF AttachStore, Goto
<1>2. /\ d \in Device /\ copy[r].id = r /\ copy[r].device = d
      /\ Truth(d)' = <<r, copy[r].cell>>
      /\ \A e \in Device \ {d} : Truth(e)' = Truth(e)
  BY <1>0, <1>1, InsertShows DEF Inserts
<1>3. Told(d) = Truth(d) /\ \A e : Told(e)' = Told(e)
  BY <1>0, <1>2 DEF ReaderInv, Midway, Told
<1>4. lock'[d] # NoRequest
  BY <1>0, Inside, ServiceAssumption
<1>5. CASE old = NoRequest
  <2>1. pc'[r] = "report"
    BY <1>0, <1>1, <1>5
  <2>2. ActiveSessions(d) = {}
    BY <1>1, <1>5, ServiceAssumption DEF Replaced, ActiveSessions
  <2>3. Truth(d) = Off
    BY <2>2 DEF Truth
  <2>4. Midway(r, d)'
    BY <1>0, <1>2, <1>3, <2>1, <2>3 DEF Midway, Place
  <2>5. Serve(r)
    BY DEF Serve, Attach
  <2>. QED
    BY <1>0, <1>2, <1>3, <1>4, <2>4, <2>5, OnlyOnDevice
<1>6. CASE old # NoRequest
  <2>1. pc'[r] = "free" /\ stale'[r] = Closed(session[old], "STALE_DISCONNECT")
    BY <1>0, <1>1, <1>6
  <2>2. /\ old \in Request /\ Connected(old) /\ session[old] \in Session
        /\ session[old].device = d
    BY <1>0, <1>1, <1>6, AttachRows
  <2>3. Truth(d) = Place(session[old])
    BY <2>2, SeenOn DEF Place, ControlInv
  <2>4. stale'[r].device = d /\ Place(stale'[r]) = Place(session[old])
    BY <2>1, <2>2 DEF Place, Closed, Session
  <2>5. Midway(r, d)'
    BY <1>0, <1>2, <1>3, <2>1, <2>3, <2>4 DEF Midway, Place
  <2>6. Serve(r)
    BY DEF Serve, Attach
  <2>. QED
    BY <1>0, <1>2, <1>3, <1>4, <2>5, <2>6, OnlyOnDevice
<1>. QED
  BY <1>5, <1>6

LEMMA ReaderWriteBack ==
    ASSUME ControlInv, ReaderInv, NEW r \in Request, HandoverStore(r) \/ DetachStore(r)
    PROVE  ReaderInv'
<1>. PICK d : d = call[r].device
  OBVIOUS
<1>. PICK row : row = call[r].session
  OBVIOUS
<1>0. /\ pc[r] = "store" /\ pc[r] \in Critical /\ WritesBack(r)
      /\ UNCHANGED <<lock, call, copy, stale, log>>
      /\ \/ call[r].op = "handover" /\ pc'[r] = "report"
         \/ call[r].op = "detach" /\ pc'[r] = "free"
  BY DEF HandoverStore, DetachStore, WritesBack, At, Goto, Critical, ControlInv, ServiceTypeOK
<1>1. /\ d \in Device /\ session[row] \in Session
      /\ copy[r].id = session[row].id /\ copy[r].device = d
      /\ Truth(d) = <<session[row].id, session[row].cell>>
      /\ call[r].op = "handover" =>
           copy[r].cell = call[r].cell /\ Truth(d)' = <<session[row].id, call[r].cell>>
      /\ call[r].op = "detach" => copy[r].cell = session[row].cell /\ Truth(d)' = Off
      /\ \A e \in Device \ {d} : Truth(e)' = Truth(e)
  BY <1>0, WriteBackShows
<1>2. Told(d) = Truth(d) /\ \A e : Told(e)' = Told(e)
  BY <1>0, <1>1 DEF ReaderInv, Midway, Told
<1>3. lock'[d] # NoRequest
  BY <1>0, Inside, ServiceAssumption
<1>4. CASE call[r].op = "handover"
  <2>1. session[row].cell \in Cell
    BY <1>1 DEF Session
  <2>2. Midway(r, d)'
    BY <1>0, <1>1, <1>2, <1>4, <2>1 DEF Midway, Place
  <2>3. Serve(r)
    BY DEF Serve, Handover, Detach
  <2>. QED
    BY <1>0, <1>1, <1>2, <1>3, <2>2, <2>3, OnlyOnDevice
<1>5. CASE call[r].op = "detach"
  <2>1. Midway(r, d)'
    BY <1>0, <1>1, <1>2, <1>5 DEF Midway, Place
  <2>2. Serve(r)
    BY DEF Serve, Handover, Detach
  <2>. QED
    BY <1>0, <1>1, <1>2, <1>3, <2>1, <2>2, OnlyOnDevice
<1>. QED
  BY <1>0, <1>4, <1>5

\* The four reports: the events catch up.
LEMMA ReaderReportStale ==
    ASSUME ControlInv, ReaderInv, NEW r \in Request, AttachReportStale(r)
    PROVE  ReaderInv'
<1>. PICK d : d = call[r].device
  OBVIOUS
<1>. PICK s : s = stale[r]
  OBVIOUS
<1>0. /\ pc[r] = "report_stale" /\ call[r].op = "attach" /\ pc[r] \in Critical
      /\ UNCHANGED <<session, lock, call, copy, stale>> /\ pc'[r] = "report"
      /\ Emit("STALE_DISCONNECT", s)
  BY DEF AttachReportStale, At, Goto, Critical, ControlInv, ServiceTypeOK
<1>1. d \in Device /\ Midway(r, d) /\ lock'[d] # NoRequest
  BY <1>0, Inside, ServiceAssumption DEF ReaderInv
<1>2. /\ s \in Session /\ s.device = d /\ Told(d) = Place(s)
      /\ copy[r].device = d /\ Truth(d) = Place(copy[r])
  BY <1>0, <1>1 DEF Midway, ControlInv, HandlerInv, HandlerOK
<1>3. /\ Told(d)' = Believe(Told(d), [kind |-> "STALE_DISCONNECT", session |-> s.id, cell |-> s.cell])
      /\ \A e \in Device \ {d} : Told(e)' = Told(e)
  BY <1>0, <1>2, OneEvent DEF EventKind, ControlInv
<1>4. Told(d)' = Off
  BY <1>2, <1>3, BelieveOne DEF Place
<1>5. \A e : Truth(e)' = Truth(e)
  BY <1>0, SeenSame
<1>6. Midway(r, d)'
  BY <1>0, <1>2, <1>4, <1>5 DEF Midway, Place
<1>7. Serve(r)
  BY DEF Serve, Attach
<1>. QED
  BY <1>0, <1>1, <1>3, <1>5, <1>6, <1>7, OnlyOnDevice

LEMMA ReaderReport ==
    ASSUME ControlInv, ReaderInv, NEW r \in Request,
           AttachReport(r) \/ HandoverReport(r) \/ DetachReport(r)
    PROVE  ReaderInv'
<1>. PICK d : d = call[r].device
  OBVIOUS
<1>. PICK s : s = copy[r]
  OBVIOUS
<1>. PICK kind : kind = CASE call[r].op = "attach" -> "ATTACH"
                          [] call[r].op = "handover" -> "CELL_HANDOVER"
                          [] OTHER -> "DETACH"
  OBVIOUS
<1>0. /\ pc[r] = "report" /\ call[r].op \in {"attach", "handover", "detach"} /\ pc[r] \in Critical
      /\ UNCHANGED session /\ Return(r, "ok") /\ Emit(kind, s)
  BY DEF AttachReport, HandoverReport, DetachReport, Report, At, Critical
<1>1. d \in Device /\ Midway(r, d)
  BY <1>0, Inside DEF ReaderInv
<1>2. /\ s \in Session /\ s.device = d
      /\ call[r].op = "attach" => Truth(d) = Place(s) /\ Told(d) = Off
      /\ call[r].op = "handover" => Truth(d) = Place(s) /\ \E c \in Cell : Told(d) = <<s.id, c>>
      /\ call[r].op = "detach" => Truth(d) = Off /\ Told(d) = Place(s)
  BY <1>0, <1>1 DEF Midway, ControlInv, HandlerInv, HandlerOK
<1>3. /\ Told(d)' = Believe(Told(d), [kind |-> kind, session |-> s.id, cell |-> s.cell])
      /\ \A e \in Device \ {d} : Told(e)' = Told(e)
  BY <1>0, <1>2, OneEvent DEF EventKind, ControlInv
<1>4. Told(d)' = Truth(d)
  <2>. DEFINE e == [kind |-> kind, session |-> s.id, cell |-> s.cell]
  <2>1. e.kind = kind /\ e.session = s.id /\ e.cell = s.cell
    OBVIOUS
  <2>. HIDE DEF e
  <2>2. Told(d)' = Believe(Told(d), e)
    BY <1>3 DEF e
  <2>3. CASE call[r].op = "attach"
    BY <1>2, <2>1, <2>2, <2>3, BelieveOne DEF Place
  <2>4. CASE call[r].op = "handover"
    BY <1>2, <2>1, <2>2, <2>4, BelieveOne DEF Place
  <2>5. CASE call[r].op = "detach"
    BY <1>2, <2>1, <2>2, <2>5, BelieveOne DEF Place
  <2>. QED
    BY <1>0, <2>3, <2>4, <2>5
<1>5. \A e : Truth(e)' = Truth(e)
  BY <1>0, SeenSame
<1>6. pc'[r] \notin Critical /\ \A e \in Device \ {d} : lock'[e] = lock[e]
  BY <1>0, LockAfterReturn DEF ControlInv, Critical
<1>7. Serve(r)
  BY DEF Serve, Attach, Handover, Detach
<1>. QED
  BY <1>0, <1>1, <1>3, <1>4, <1>5, <1>6, <1>7, OnlyOnDevice

LEMMA ReaderStep ==
    ASSUME ControlInv, ReaderInv, ~ AmbiguousWrites, [Next]_vars, ~ Restart
    PROVE  ReaderInv'
<1>. USE DEF At
<1>1. CASE UNCHANGED vars
  <2>1. UNCHANGED <<session, log, lock, pc, call, copy, stale>>
    BY <1>1 DEF vars, serviceVars
  <2>2. \A e : Told(e)' = Told(e) /\ Truth(e)' = Truth(e)
    BY <2>1, NothingToldOrSeen
  <2>. QED
    BY <2>1, <2>2 DEF ReaderInv, Midway, Place
<1>2. ASSUME NEW r \in Request, RereadFails(r)
      PROVE  ReaderInv'
  BY <1>2, ReaderQuietReturn DEF RereadFails, Answered, Serve
<1>3. ASSUME NEW r \in Request, Attach(r)
      PROVE  ReaderInv'
  <2>0. Serve(r)
    BY <1>3 DEF Serve
  <2>1. CASE AttachAllocate(r)
    BY <2>0, <2>1, ReaderQuietStay DEF AttachAllocate
  <2>2. CASE AttachExhausted(r)
    BY <2>0, <2>2, ReaderQuietReturn DEF AttachExhausted, Answered
  <2>3. CASE AttachStoreFails(r)
    BY <2>0, <2>3, ReaderQuietStay DEF AttachStoreFails
  <2>4. CASE AttachUndo(r)
    BY <2>0, <2>4, ReaderQuietReturn DEF AttachUndo, Answered
  <2>. QED
    BY <1>3, <2>1, <2>2, <2>3, <2>4, ReaderAttachStore, ReaderFree, ReaderReportStale, ReaderReport
       DEF Attach
<1>4. ASSUME NEW r \in Request, Handover(r)
      PROVE  ReaderInv'
  <2>0. Serve(r)
    BY <1>4 DEF Serve
  <2>1. CASE HandoverNothing(r)
    BY <2>0, <2>1, ReaderQuietReturn DEF HandoverNothing, Answered
  <2>2. CASE HandoverMove(r)
    BY <2>0, <2>2, ReaderQuietStay DEF HandoverMove
  <2>3. CASE HandoverStoreFails(r)
    BY <2>0, <2>3, ReaderQuietReturn DEF HandoverStoreFails, Answered
  <2>. QED
    BY <1>4, <2>1, <2>2, <2>3, ReaderWriteBack, ReaderReport DEF Handover
<1>5. ASSUME NEW r \in Request, Detach(r)
      PROVE  ReaderInv'
  <2>0. Serve(r)
    BY <1>5 DEF Serve
  <2>1. CASE DetachNothing(r)
    BY <2>0, <2>1, ReaderQuietReturn DEF DetachNothing, Answered
  <2>2. CASE DetachClose(r)
    BY <2>0, <2>2, ReaderQuietStay DEF DetachClose
  <2>3. CASE DetachStoreFails(r)
    BY <2>0, <2>3, ReaderQuietReturn DEF DetachStoreFails, Answered
  <2>. QED
    BY <1>5, <2>1, <2>2, <2>3, ReaderWriteBack, ReaderFree, ReaderReport DEF Detach
<1>. QED
  BY <1>1, <1>2, <1>3, <1>4, <1>5, ReaderOutside, ReaderEnters DEF Next, Serve

LEMMA EventsStep ==
    ASSUME ControlInv, EventsInv, [Next]_vars
    PROVE  EventsInv'
<1>. SUFFICES ASSUME restarts' = 0, ~ AmbiguousWrites
              PROVE  ReaderInv'
  BY DEF EventsInv
<1>1. restarts = 0 /\ ~ Restart
  BY ServiceUsesPool, RestartCounted
<1>2. ReaderInv
  BY <1>1 DEF EventsInv
<1>. QED
  BY <1>1, <1>2, ReaderStep

LEMMA EventsInit == Init => EventsInv
<1>. SUFFICES ASSUME Init
              PROVE  ReaderInv
  BY DEF EventsInv
<1>1. \A s \in Request : ~ Connected(s)
  BY DEF Init, Connected, NoSession
<1>2. \A d \in Device : Told(d) = Off /\ Truth(d) = Off
  BY <1>1, SeenOff, ReplayNothing DEF Init, Told
<1>. QED
  BY <1>2 DEF Init, ReaderInv, Critical

\* Whenever no request is inside a device's critical section, replaying the
\* events emitted about it gives the session and the cell the table has: no
\* transition is reported twice, never, or out of order (service.go:102-112,
\* 155, 193), however many requests interleave and writes fail.
THEOREM EventsReplay == Spec => []EventsReplayToTable
<1>1. ControlInv /\ EventsInv /\ [Next]_vars => EventsInv'
  BY EventsStep
<1>2. EventsInv => EventsReplayToTable
  BY DEF EventsInv, ReaderInv, EventsReplayToTable, Told
<1>. QED
  BY <1>1, <1>2, EventsInit, ControlHolds, PTL DEF Spec
=============================================================================
