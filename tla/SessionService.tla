--------------------------- MODULE SessionService ---------------------------
(***************************************************************************)
(* The session service, internal/session/service.go, with the address      *)
(* pool it shares (IPPool), the sessions table it writes and the mutex per *)
(* device that serialises attach, handover and detach.                     *)
(*                                                                         *)
(* A request is one HTTP call, served by a goroutine of its own; a UUID v4 *)
(* is never drawn twice, so the session an attach creates is named by the  *)
(* request.  Every pool method and every repository method is one step,    *)
(* and any other request may run between two steps.  A write may fail with *)
(* no effect; when AmbiguousWrites holds it may also take effect and still *)
(* be answered with an error, as a COMMIT whose answer is lost.  Restart   *)
(* is a crash of the process followed by the warm-up of the pool.          *)
(***************************************************************************)
EXTENDS IPPool

CONSTANTS
    Request,            \* the HTTP requests ever made
    NoRequest,          \* nobody holds a mutex
    Device,             \* the registered devices
    Cell,               \* the cells of network/cell.go
    AmbiguousWrites,    \* may a write take effect and return an error?
    MaxRestarts         \* bound on the crashes of a behaviour

ASSUME ServiceAssumption ==
    /\ NoRequest \notin Request
    /\ AmbiguousWrites \in BOOLEAN
    /\ MaxRestarts \in Nat

VARIABLES
    session,    \* the sessions table, by session id
    lock,       \* the mutex of a device: the request inside, or NoRequest
    pc,         \* where a request is in its handler
    call,       \* what a request asks for
    copy,       \* the *Session value in a handler's hands
    stale,      \* the session an attach has replaced
    log,        \* the events emitted about a device, in order
    restarts    \* the crashes so far

serviceVars == <<session, lock, pc, call, copy, stale, log, restarts>>
vars == <<poolVars, serviceVars>>

-----------------------------------------------------------------------------
Session == [id : Request, device : Device, cell : Cell, ip : Address,
            status : {"CONNECTED", "DISCONNECTED"},
            reason : {"", "VOLUNTARY_DETACH", "STALE_DISCONNECT"}]

NoSession == [status |-> "ABSENT"]

Call == [op : {"attach", "handover", "detach"}, device : Device,
         session : Request, cell : Cell]

NoCall == [op |-> "none"]

Critical == {"locked", "store", "undo", "free", "report_stale", "report"}
Answered == {"ok", "failed"}
Label == {"idle", "wait"} \cup Critical \cup Answered

EventKind == {"ATTACH", "CELL_HANDOVER", "DETACH", "STALE_DISCONNECT"}

\* session.New
NewSession(id, d, c, ip) ==
    [id |-> id, device |-> d, cell |-> c, ip |-> ip,
     status |-> "CONNECTED", reason |-> ""]

\* Mutant: status and reason swapped.
ClosedSwapped(s, why) == [s EXCEPT !.status = why, !.reason = "DISCONNECTED"]

\* Session.Detach on a connected session
Closed(s, why) == [s EXCEPT !.status = "DISCONNECTED", !.reason = why]

\* Session.Handover on a connected session
Moved(s, c) == [s EXCEPT !.cell = c]

Connected(s) == session[s].status = "CONNECTED"

ActiveSessions(d) == {s \in Request : Connected(s) /\ session[s].device = d}

Init ==
    /\ PoolInit
    /\ session = [s \in Request |-> NoSession]
    /\ lock = [d \in Device |-> NoRequest]
    /\ pc = [r \in Request |-> "idle"]
    /\ call = [r \in Request |-> NoCall]
    /\ copy = [r \in Request |-> NoSession]
    /\ stale = [r \in Request |-> NoSession]
    /\ log = [d \in Device |-> <<>>]
    /\ restarts = 0

-----------------------------------------------------------------------------
At(r, op, label) == pc[r] = label /\ call[r].op = op

Goto(r, label) == pc' = [pc EXCEPT ![r] = label]

\* Mutant: the mutex is not unlocked.
ReturnLocked(r, answer) ==
    /\ Goto(r, answer)
    /\ copy' = [copy EXCEPT ![r] = NoSession]
    /\ stale' = [stale EXCEPT ![r] = NoSession]
    /\ UNCHANGED lock

\* The handler returns, and its deferred unlock runs.
Return(r, answer) ==
    /\ Goto(r, answer)
    /\ lock' = [lock EXCEPT ![call[r].device] = NoRequest]
    /\ copy' = [copy EXCEPT ![r] = NoSession]
    /\ stale' = [stale EXCEPT ![r] = NoSession]

Emit(kind, s) ==
    log' = [log EXCEPT ![s.device] =
                Append(@, [kind |-> kind, session |-> s.id, cell |-> s.cell])]

\* EmitSessionEvent, then the step the handler goes on to.
Report(r, kind) ==
    /\ Emit(kind, copy[r])
    /\ Return(r, "ok")
    /\ UNCHANGED <<poolVars, session, call, restarts>>

-----------------------------------------------------------------------------
(* The part of a handler before the device is locked.                      *)

\* An unknown cell, a device that cannot attach, a session that cannot be read.
Refuse(r) ==
    /\ pc[r] = "idle"
    /\ Goto(r, "failed")
    /\ UNCHANGED <<poolVars, session, lock, call, copy, stale, log, restarts>>

StartAttach(r, d, c) ==
    /\ pc[r] = "idle"
    /\ Goto(r, "wait")
    /\ call' = [call EXCEPT ![r] =
                    [op |-> "attach", device |-> d, session |-> r, cell |-> c]]
    /\ UNCHANGED <<poolVars, session, lock, copy, stale, log, restarts>>

\* The first FindByID, outside the lock, only names the device to lock.
Find(r, op, s, c) ==
    /\ pc[r] = "idle"
    /\ session[s] # NoSession
    /\ Goto(r, "wait")
    /\ call' = [call EXCEPT ![r] =
                    [op |-> op, device |-> session[s].device, session |-> s, cell |-> c]]
    /\ copy' = [copy EXCEPT ![r] = session[s]]
    /\ UNCHANGED <<poolVars, session, lock, stale, log, restarts>>

StartHandover(r, s, c) == Find(r, "handover", s, c)

StartDetach(r, s) == session[s] # NoSession /\ Find(r, "detach", s, session[s].cell)

\* Mutant: each request locks a mutex of its own.
LockNothing(r) ==
    /\ pc[r] = "wait"
    /\ lock' = [lock EXCEPT ![call[r].device] = r]
    /\ Goto(r, "locked")
    /\ UNCHANGED <<poolVars, session, call, copy, stale, log, restarts>>

LockDevice(r) ==
    /\ pc[r] = "wait"
    /\ lock[call[r].device] = NoRequest
    /\ lock' = [lock EXCEPT ![call[r].device] = r]
    /\ Goto(r, "locked")
    /\ UNCHANGED <<poolVars, session, call, copy, stale, log, restarts>>

\* Mutant: the handler goes on with what it read before it had the lock.
FirstRead(r) == copy[r]

\* The second FindByID, under the lock: what the handler goes on with.
Reread(r) == session[call[r].session]

\* The second FindByID fails.
RereadFails(r) ==
    /\ pc[r] = "locked"
    /\ call[r].op \in {"handover", "detach"}
    /\ Return(r, "failed")
    /\ UNCHANGED <<poolVars, session, call, log, restarts>>

-----------------------------------------------------------------------------
(* Attach                                                                  *)

AttachAllocate(r) ==
    /\ At(r, "attach", "locked")
    /\ \E ip \in Address :
         /\ Allocate(ip)
         /\ copy' = [copy EXCEPT ![r] = NewSession(r, call[r].device, call[r].cell, ip)]
    /\ Goto(r, "store")
    /\ UNCHANGED <<session, lock, call, stale, log, restarts>>

AttachExhausted(r) ==
    /\ At(r, "attach", "locked")
    /\ Exhausted
    /\ Return(r, "failed")
    /\ UNCHANGED <<poolVars, session, call, log, restarts>>

\* Mutant: no unique index on the address.
AddressNeverTaken(ip, old) == FALSE

\* Migration 3 allows an address to one CONNECTED row only.
AddressTaken(ip, old) ==
    \E s \in Request \ {old} : Connected(s) /\ session[s].ip = ip

Replaced(d) == IF ActiveSessions(d) = {} THEN {NoRequest} ELSE ActiveSessions(d)

\* Mutant: the old session is not closed.
InsertSession(new, old) ==
    /\ ~ AddressTaken(new.ip, old)
    /\ session' = [session EXCEPT ![new.id] = new]

\* Repository.AttachSession: one transaction closes the device's connected
\* session, if it has one, and inserts the new one.
AttachSession(new, old) ==
    /\ ~ AddressTaken(new.ip, old)
    /\ session' = [s \in Request |->
                     IF s = new.id THEN new
                     ELSE IF s = old THEN Closed(session[s], "STALE_DISCONNECT")
                     ELSE session[s]]

AttachStore(r) ==
    /\ At(r, "attach", "store")
    /\ \E old \in Replaced(call[r].device) :
         /\ AttachSession(copy[r], old)
         /\ IF old = NoRequest
            THEN Goto(r, "report") /\ UNCHANGED stale
            ELSE Goto(r, "free") /\ stale' = [stale EXCEPT ![r] = Closed(session[old], "STALE_DISCONNECT")]
    /\ UNCHANGED <<poolVars, lock, call, copy, log, restarts>>

\* AttachSession, or session.New before it, returns an error.
AttachStoreFails(r) ==
    /\ At(r, "attach", "store")
    /\ \/ UNCHANGED session
       \/ /\ AmbiguousWrites
          /\ \E old \in Replaced(call[r].device) : AttachSession(copy[r], old)
    /\ Goto(r, "undo")
    /\ UNCHANGED <<poolVars, lock, call, copy, stale, log, restarts>>

\* Mutant: the address is not given back.
AttachGiveUp(r) ==
    /\ At(r, "attach", "undo")
    /\ Return(r, "failed")
    /\ UNCHANGED <<poolVars, session, call, log, restarts>>

AttachUndo(r) ==
    /\ At(r, "attach", "undo")
    /\ Release(copy[r].ip)
    /\ Return(r, "failed")
    /\ UNCHANGED <<session, call, log, restarts>>

\* Mutant: no event for the session that was replaced.
AttachFreeSilently(r) ==
    /\ At(r, "attach", "free")
    /\ Release(stale[r].ip)
    /\ Goto(r, "report")
    /\ UNCHANGED <<session, lock, call, copy, stale, log, restarts>>

AttachFreeStale(r) ==
    /\ At(r, "attach", "free")
    /\ Release(stale[r].ip)
    /\ Goto(r, "report_stale")
    /\ UNCHANGED <<session, lock, call, copy, stale, log, restarts>>

AttachReportStale(r) ==
    /\ At(r, "attach", "report_stale")
    /\ Emit("STALE_DISCONNECT", stale[r])
    /\ Goto(r, "report")
    /\ UNCHANGED <<poolVars, session, lock, call, copy, stale, restarts>>

AttachReport(r) == At(r, "attach", "report") /\ Report(r, "ATTACH")

-----------------------------------------------------------------------------
(* Handover                                                                *)

\* ErrSessionNotConnected, and the no-op on the session's own cell.
HandoverNothing(r) ==
    /\ At(r, "handover", "locked")
    /\ \/ Reread(r).status # "CONNECTED" /\ Return(r, "failed")
       \/ /\ Reread(r).status = "CONNECTED"
          /\ Reread(r).cell = call[r].cell
          /\ Return(r, "ok")
    /\ UNCHANGED <<poolVars, session, call, log, restarts>>

HandoverMove(r) ==
    /\ At(r, "handover", "locked")
    /\ Reread(r).status = "CONNECTED"
    /\ Reread(r).cell # call[r].cell
    /\ copy' = [copy EXCEPT ![r] = Moved(Reread(r), call[r].cell)]
    /\ Goto(r, "store")
    /\ UNCHANGED <<poolVars, session, lock, call, stale, log, restarts>>

\* Repository.Update writes the whole row from the handler's copy.
HandoverStore(r) ==
    /\ At(r, "handover", "store")
    /\ session' = [session EXCEPT ![call[r].session] = copy[r]]
    /\ Goto(r, "report")
    /\ UNCHANGED <<poolVars, lock, call, copy, stale, log, restarts>>

HandoverStoreFails(r) ==
    /\ At(r, "handover", "store")
    /\ \/ UNCHANGED session
       \/ AmbiguousWrites /\ session' = [session EXCEPT ![call[r].session] = copy[r]]
    /\ Return(r, "failed")
    /\ UNCHANGED <<poolVars, call, log, restarts>>

HandoverReport(r) == At(r, "handover", "report") /\ Report(r, "CELL_HANDOVER")

-----------------------------------------------------------------------------
(* Detach                                                                  *)

\* The session is already disconnected: success, with nothing freed and nothing
\* emitted.
DetachNothing(r) ==
    /\ At(r, "detach", "locked")
    /\ Reread(r).status = "DISCONNECTED"
    /\ Return(r, "ok")
    /\ UNCHANGED <<poolVars, session, call, log, restarts>>

\* Mutant: a closed session is closed again.
DetachCloseAgain(r) ==
    /\ At(r, "detach", "locked")
    /\ copy' = [copy EXCEPT ![r] = Closed(Reread(r), "VOLUNTARY_DETACH")]
    /\ Goto(r, "store")
    /\ UNCHANGED <<poolVars, session, lock, call, stale, log, restarts>>

DetachClose(r) ==
    /\ At(r, "detach", "locked")
    /\ Reread(r).status = "CONNECTED"
    /\ copy' = [copy EXCEPT ![r] = Closed(Reread(r), "VOLUNTARY_DETACH")]
    /\ Goto(r, "store")
    /\ UNCHANGED <<poolVars, session, lock, call, stale, log, restarts>>

DetachStore(r) ==
    /\ At(r, "detach", "store")
    /\ session' = [session EXCEPT ![call[r].session] = copy[r]]
    /\ Goto(r, "free")
    /\ UNCHANGED <<poolVars, lock, call, copy, stale, log, restarts>>

\* Mutant: the address is released although the session stays connected.
DetachReleaseAnyway(r) ==
    /\ At(r, "detach", "store")
    /\ Release(copy[r].ip)
    /\ Return(r, "failed")
    /\ UNCHANGED <<session, call, log, restarts>>

\* The update fails: the address is not released.
DetachStoreFails(r) ==
    /\ At(r, "detach", "store")
    /\ \/ UNCHANGED session
       \/ AmbiguousWrites /\ session' = [session EXCEPT ![call[r].session] = copy[r]]
    /\ Return(r, "failed")
    /\ UNCHANGED <<poolVars, call, log, restarts>>

DetachFree(r) ==
    /\ At(r, "detach", "free")
    /\ Release(copy[r].ip)
    /\ Goto(r, "report")
    /\ UNCHANGED <<session, lock, call, copy, stale, log, restarts>>

DetachReport(r) == At(r, "detach", "report") /\ Report(r, "DETACH")

-----------------------------------------------------------------------------
(* A crash, and the start-up that follows it: warmUpIPPool marks the       *)
(* address of every CONNECTED row in a new pool before the server listens. *)

\* Mutant: no WHERE status = 'CONNECTED'.
StoredHosts ==
    {h \in Host : \E s \in Request : session[s] # NoSession /\ session[s].ip = HostToIPv4(h)}

ConnectedHosts ==
    {h \in Host : \E s \in Request : Connected(s) /\ session[s].ip = HostToIPv4(h)}

\* Mutant: nextHost stays at the start of the block.
WarmUpFromStart ==
    /\ allocated' = {HostToIPv4(h) : h \in ConnectedHosts}
    /\ recycled' = <<>>
    /\ nextHost' = MinHost

WarmUpIPPool ==
    /\ allocated' = {HostToIPv4(h) : h \in ConnectedHosts}
    /\ recycled' = <<>>
    /\ nextHost' \in {MinHost} \cup {h + 1 : h \in ConnectedHosts}
    /\ \A h \in ConnectedHosts : h < nextHost'

Restart ==
    /\ restarts < MaxRestarts
    /\ restarts' = restarts + 1
    /\ WarmUpIPPool
    /\ lock' = [d \in Device |-> NoRequest]
    /\ pc' = [r \in Request |-> IF pc[r] \in {"idle"} \cup Answered THEN pc[r] ELSE "failed"]
    /\ copy' = [r \in Request |-> NoSession]
    /\ stale' = [r \in Request |-> NoSession]
    /\ log' = [d \in Device |-> <<>>]
    /\ UNCHANGED <<session, call>>

-----------------------------------------------------------------------------
Arrive(r) ==
    \/ Refuse(r)
    \/ \E d \in Device, c \in Cell : StartAttach(r, d, c)
    \/ \E s \in Request, c \in Cell : StartHandover(r, s, c)
    \/ \E s \in Request : StartDetach(r, s)

Attach(r) ==
    \/ AttachAllocate(r) \/ AttachExhausted(r) \/ AttachStore(r) \/ AttachStoreFails(r)
    \/ AttachUndo(r) \/ AttachFreeStale(r) \/ AttachReportStale(r) \/ AttachReport(r)

Handover(r) ==
    \/ HandoverNothing(r) \/ HandoverMove(r) \/ HandoverStore(r)
    \/ HandoverStoreFails(r) \/ HandoverReport(r)

Detach(r) ==
    \/ DetachNothing(r) \/ DetachClose(r) \/ DetachStore(r)
    \/ DetachStoreFails(r) \/ DetachFree(r) \/ DetachReport(r)

Serve(r) == LockDevice(r) \/ RereadFails(r) \/ Attach(r) \/ Handover(r) \/ Detach(r)

Next == Restart \/ \E r \in Request : Arrive(r) \/ Serve(r)

Spec == Init /\ [][Next]_vars

\* The Go scheduler runs every goroutine that can take a step; nothing makes
\* a client send a request or the process crash.
FairSpec == Spec /\ \A r \in Request : WF_vars(Serve(r))

-----------------------------------------------------------------------------
\* The types of the service's state.
ServiceTypeOK ==
    /\ session \in [Request -> Session \cup {NoSession}]
    /\ lock \in [Device -> Request \cup {NoRequest}]
    /\ pc \in [Request -> Label]
    /\ call \in [Request -> Call \cup {NoCall}]
    /\ copy \in [Request -> Session \cup {NoSession}]
    /\ stale \in [Request -> Session \cup {NoSession}]
    /\ log \in [Device -> Seq([kind : EventKind, session : Request, cell : Cell])]
    /\ restarts \in 0..MaxRestarts

TypeOK == PoolTypeOK /\ ServiceTypeOK

\* Two requests are never inside the critical section of one device
\* (lockDevice, service.go:51-62), whichever path the one inside returns by.
DeviceExclusive ==
    /\ \A r \in Request : pc[r] \in Critical => lock[call[r].device] = r
    /\ \A d \in Device : lock[d] # NoRequest =>
          pc[lock[d]] \in Critical /\ call[lock[d]].device = d

\* A device has at most one CONNECTED session ("no máximo 1 sessão ativa"),
\* also when an attach replaces one while a handover writes it back.
OneActivePerDevice ==
    \A s, t \in Request :
        Connected(s) /\ Connected(t) /\ session[s].device = session[t].device => s = t

\* The address a request must still store or give back: the new one of an
\* attach until the row is written, the old one of a replaced or detached
\* session until it is released.
Holds(r) ==
    \/ call[r].op = "attach" /\ pc[r] \in {"store", "undo", "free"}
    \/ call[r].op = "detach" /\ pc[r] = "free"

HeldIP(r) == IF call[r].op = "attach" /\ pc[r] = "free" THEN stale[r].ip ELSE copy[r].ip

\* No address has two owners, among connected sessions and requests in flight.
AddressesExclusive ==
    /\ \A s, t \in Request :
          Connected(s) /\ Connected(t) /\ s # t => session[s].ip # session[t].ip
    /\ \A r, s \in Request : Holds(r) /\ Connected(s) => HeldIP(r) # session[s].ip
    /\ \A q, r \in Request : Holds(q) /\ Holds(r) /\ q # r => HeldIP(q) # HeldIP(r)

\* The pool's allocated set is exactly the addresses with an owner: none in
\* use is free for the next attach, and none stays allocated for nobody.
AllocatedIsOwned ==
    allocated = {session[s].ip : s \in {t \in Request : Connected(t)}}
                  \cup {HeldIP(r) : r \in {q \in Request : Holds(q)}}

\* The half of it that a write of unknown outcome breaks: an address of a
\* connected session is never in the pool for another attach ("previne
\* corrupção de pool por liberações indevidas").
ConnectedIsAllocated ==
    \A s \in Request : Connected(s) => session[s].ip \in allocated

\* A DISCONNECTED session never changes again: neither its status nor the
\* reason it was closed for (Detach is idempotent, Handover is refused).
DisconnectIsFinal ==
    [][\A s \in Request :
          session[s].status = "DISCONNECTED" => session'[s] = session[s]]_vars

\* Every request that arrived is answered: no mutex stays held and no two
\* requests wait for each other.
EveryRequestAnswered ==
    \A r \in Request : pc[r] # "idle" ~> pc[r] \in Answered
=============================================================================
