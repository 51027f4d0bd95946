--------------------------- MODULE MemorySessions ---------------------------
(***************************************************************************)
(* The session service on its in-memory backend,                           *)
(* internal/session/memory_repository.go: the rows of the table are the    *)
(* map byID, and a second map, activeByDevice, names the connected session *)
(* of a device.  AttachSession closes the session the second map names,    *)
(* ActiveCount counts its entries, and no unique index guards an address.  *)
(* Each method runs under the repository's mutex, so it is one step.       *)
(*                                                                         *)
(* An Update or FindByID of a stored session cannot fail; the one failure  *)
(* between Allocate and the end of an attach is session.New's.  A crash    *)
(* takes the tables with the process, so a restart is another Init.        *)
(***************************************************************************)
EXTENDS SessionService

VARIABLE activeByDevice     \* the session a device is on, or NoRequest

memoryVars == <<vars, activeByDevice>>

MemoryInit ==
    /\ Init
    /\ activeByDevice = [d \in Device |-> NoRequest]

-----------------------------------------------------------------------------
\* The session AttachSession closes.
StaleSession(d) ==
    LET old == activeByDevice[d]
    IN  IF old # NoRequest /\ Connected(old) THEN old ELSE NoRequest

\* Mutant: the entry of the device is set only when it had none.
MemoryAttachSessionOnce(new, old) ==
    /\ session' = [s \in Request |->
                     IF s = new.id THEN new
                     ELSE IF s = old THEN Closed(session[s], "STALE_DISCONNECT")
                     ELSE session[s]]
    /\ activeByDevice' = [activeByDevice EXCEPT ![new.device] = IF old = NoRequest THEN new.id ELSE @]

MemoryAttachSession(new, old) ==
    /\ session' = [s \in Request |->
                     IF s = new.id THEN new
                     ELSE IF s = old THEN Closed(session[s], "STALE_DISCONNECT")
                     ELSE session[s]]
    /\ activeByDevice' = [activeByDevice EXCEPT ![new.device] = new.id]

MemoryAttachStore(r) ==
    LET old == StaleSession(call[r].device) IN
    /\ At(r, "attach", "store")
    /\ MemoryAttachSession(copy[r], old)
    /\ IF old = NoRequest
       THEN Goto(r, "report") /\ UNCHANGED stale
       ELSE Goto(r, "free") /\ stale' = [stale EXCEPT ![r] = Closed(session[old], "STALE_DISCONNECT")]
    /\ UNCHANGED <<poolVars, lock, call, copy, log, restarts>>

\* Mutant: the entry is deleted whichever session it names, and whatever the
\* status written.
DeleteEntry(s) == activeByDevice' = [activeByDevice EXCEPT ![s.device] = NoRequest]

\* Update of a disconnected session deletes the entry that names it.
SyncEntry(s) ==
    activeByDevice' =
        IF s.status = "DISCONNECTED" /\ activeByDevice[s.device] = s.id
        THEN [activeByDevice EXCEPT ![s.device] = NoRequest]
        ELSE activeByDevice

MemoryUpdate(r) == (HandoverStore(r) \/ DetachStore(r)) /\ SyncEntry(copy[r])

\* The steps of a handler that write nothing to the repository.
ElsewhereStep(r) ==
    \/ Arrive(r) \/ LockDevice(r)
    \/ AttachAllocate(r) \/ AttachExhausted(r) \/ AttachStoreFails(r) \/ AttachUndo(r)
    \/ AttachFreeStale(r) \/ AttachReportStale(r) \/ AttachReport(r)
    \/ HandoverNothing(r) \/ HandoverMove(r) \/ HandoverReport(r)
    \/ DetachNothing(r) \/ DetachClose(r) \/ DetachFree(r) \/ DetachReport(r)

MemoryNext ==
    \E r \in Request :
        \/ MemoryAttachStore(r)
        \/ MemoryUpdate(r)
        \/ ElsewhereStep(r) /\ UNCHANGED activeByDevice

MemorySpec == MemoryInit /\ [][MemoryNext]_memoryVars

\* Sessions are named by requests, so both are permuted together.
Symmetry == Permutations(Request) \cup Permutations(Device) \cup Permutations(Cell)

-----------------------------------------------------------------------------
\* The second map never drifts from the first, whatever re-attach and late
\* detach meet: its entries are exactly the CONNECTED sessions, one a device,
\* so ActiveCount is both the number of active sessions and of connected
\* devices ("invariante 1:1", metrics.go:66).
IndexIsExact ==
    \A d \in Device, s \in Request :
        activeByDevice[d] = s <=> Connected(s) /\ session[s].device = d

\* Without a unique index and with an index of its own, the in-memory backend
\* does only what the sessions table of PostgreSQL allows: every step is one
\* of SessionService (or none).
ImplementsTable == Spec
=============================================================================
