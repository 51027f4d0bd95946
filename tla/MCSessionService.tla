-------------------------- MODULE MCSessionService --------------------------
(***************************************************************************)
(* SessionService as TLC checks it, with the properties that compare it    *)
(* with an abstract service and with a reader of its events.               *)
(***************************************************************************)
EXTENDS SessionService

\* Sessions are named by requests, so both are permuted together.
Symmetry == Permutations(Request) \cup Permutations(Device) \cup Permutations(Cell)

LinkOf(d) ==
    IF ActiveSessions(d) = {} THEN NoSession
    ELSE LET s == session[CHOOSE t \in ActiveSessions(d) : TRUE]
         IN  [id |-> s.id, cell |-> s.cell, ip |-> s.ip]

Promised == INSTANCE Connectivity WITH
    SessionId <- Request,
    NoLink <- NoSession,
    link <- [d \in Device |-> LinkOf(d)],
    used <- {s \in Request : session[s] # NoSession}

\* Seen through the sessions table, every operation is one atomic step of the
\* abstract service, whatever interleaves with its steps.
ImplementsConnectivity == Promised!Spec

-----------------------------------------------------------------------------
(* What a write of unknown outcome may cost the pool.                      *)

Owned ==
    {session[s].ip : s \in {t \in Request : Connected(t)}}
      \cup {HeldIP(r) : r \in {q \in Request : Holds(q)}}

\* r failed although its write took effect, and that write closed s.
ClosedUnnoticed(r, s) ==
    \/ /\ call[r].op = "detach" /\ pc[r] = "failed"
       /\ call[r].session = s /\ session[s].reason = "VOLUNTARY_DETACH"
    \/ /\ call[r].op = "attach" /\ pc[r] \in {"undo", "failed"}
       /\ session[r] # NoSession /\ session[r].device = session[s].device
       /\ session[s].reason = "STALE_DISCONNECT"

\* An address nobody owns stays allocated only after a write that took effect
\* and was answered with an error: the address of the session that write
\* closed, which no retry releases (service.go:88-108, 179-190).  No other
\* order of failures, repeated detaches and re-attaches costs the pool an
\* address, and each such write costs it one at most.
LeakNeedsFailure ==
    \E failure \in Injection(allocated \ Owned, Request) :
        \A ip \in allocated \ Owned :
            \E s \in Request :
                session[s] # NoSession /\ session[s].ip = ip /\ ClosedUnnoticed(failure[ip], s)

-----------------------------------------------------------------------------
(* A reader of the events about one device: the session and cell it        *)
(* believes the device is on, or Confused by an event that cannot follow   *)
(* the ones before it.                                                     *)

Off == <<>>
Confused == <<"confused">>

Believe(b, e) ==
    CASE e.kind = "ATTACH" /\ b = Off -> <<e.session, e.cell>>
      [] e.kind = "CELL_HANDOVER" /\ b # Off /\ b[1] = e.session /\ Len(b) = 2 -> <<e.session, e.cell>>
      [] e.kind \in {"DETACH", "STALE_DISCONNECT"} /\ b = <<e.session, e.cell>> -> Off
      [] OTHER -> Confused

\* What the reader believes after a sequence of events: Believe folded over
\* it, as a function that a theorem can be about.
Replay(events) ==
    LET belief[n \in 0..Len(events)] ==
            IF n = 0 THEN Off ELSE Believe(belief[n - 1], events[n])
    IN  belief[Len(events)]

Truth(d) ==
    IF ActiveSessions(d) = {} THEN Off
    ELSE LET s == session[CHOOSE t \in ActiveSessions(d) : TRUE] IN <<s.id, s.cell>>

\* Whenever no request is inside a device's critical section, replaying the
\* events emitted about the device gives the session and the cell the table
\* has: no transition is reported twice, never, or out of order.  (A crash
\* loses the events of the process, and a write of unknown outcome is not
\* reported.)
EventsReplayToTable ==
    restarts = 0 /\ ~ AmbiguousWrites =>
        \A d \in Device :
            lock[d] = NoRequest => Replay(log[d]) = Truth(d)
=============================================================================
