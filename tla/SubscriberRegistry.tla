-------------------------- MODULE SubscriberRegistry --------------------------
(***************************************************************************)
(* The subscribers, internal/subscriber: provisioning with unique          *)
(* identities and the life cycle PENDING_ACTIVATION, ACTIVE, SUSPENDED,    *)
(* DEACTIVATED.                                                            *)
(*                                                                         *)
(* A request reads, decides and writes in separate repository calls, with  *)
(* no lock around them; each call is one step.  A subscriber has the name  *)
(* of the request that provisions it (UUID v4).  Reasons and timestamps    *)
(* are left out.                                                           *)
(***************************************************************************)
CONSTANTS Request, IMSI, MSISDN

VARIABLES
    subscriber,     \* the subscribers table, by id
    pc,             \* where a request is in its handler
    call,           \* what it asks for
    decided,        \* the status it is about to write
    terminated      \* history: the subscribers ever stored as DEACTIVATED

registryVars == <<subscriber, pc, call, decided, terminated>>

Status == {"PENDING_ACTIVATION", "ACTIVE", "SUSPENDED", "DEACTIVATED"}

Subscriber == [imsi : IMSI, msisdn : MSISDN, status : Status]

NoSubscriber == [status |-> "ABSENT"]

Change == {"activate", "suspend", "deactivate"}

Call == [op : {"provision"}, id : Request, imsi : IMSI, msisdn : MSISDN]
          \cup [op : Change, id : Request]

NoCall == [op |-> "none"]

Label == {"idle", "check", "save", "update", "ok", "failed"}

Stored == {s \in Request : subscriber[s] # NoSubscriber}

RegistryInit ==
    /\ subscriber = [s \in Request |-> NoSubscriber]
    /\ pc = [r \in Request |-> "idle"]
    /\ call = [r \in Request |-> NoCall]
    /\ decided = [r \in Request |-> "ABSENT"]
    /\ terminated = {}

Goto(r, from, to) == pc[r] = from /\ pc' = [pc EXCEPT ![r] = to]

-----------------------------------------------------------------------------
\* Bad input, an unknown id, a read that fails.
Refuse(r) ==
    /\ Goto(r, "idle", "failed")
    /\ UNCHANGED <<subscriber, call, decided, terminated>>

\* subscriber.New
StartProvision(r, i, m) ==
    /\ Goto(r, "idle", "check")
    /\ call' = [call EXCEPT ![r] = [op |-> "provision", id |-> r, imsi |-> i, msisdn |-> m]]
    /\ decided' = [decided EXCEPT ![r] = "PENDING_ACTIVATION"]
    /\ UNCHANGED <<subscriber, terminated>>

ExistsByIMSIOrMSISDN(i, m) ==
    \E s \in Stored : subscriber[s].imsi = i \/ subscriber[s].msisdn = m

\* The read fails or finds one of the two identities; or it finds neither.
CheckUnique(r) ==
    /\ \/ Goto(r, "check", "failed")
       \/ /\ Goto(r, "check", "save")
          /\ ~ ExistsByIMSIOrMSISDN(call[r].imsi, call[r].msisdn)
    /\ UNCHANGED <<subscriber, call, decided, terminated>>

\* Mutant: the check alone keeps identities apart.
SaveUnchecked(r) ==
    /\ Goto(r, "save", "ok")
    /\ subscriber' = [subscriber EXCEPT ![call[r].id] =
           [imsi |-> call[r].imsi, msisdn |-> call[r].msisdn, status |-> decided[r]]]
    /\ UNCHANGED <<call, decided, terminated>>

\* The repository's own uniqueness: the maps byIMSI and byMSISDN, or the
\* unique indexes of migration 1.
Save(r) ==
    /\ \/ /\ Goto(r, "save", "ok")
          /\ ~ ExistsByIMSIOrMSISDN(call[r].imsi, call[r].msisdn)
          /\ subscriber' = [subscriber EXCEPT ![call[r].id] =
                 [imsi |-> call[r].imsi, msisdn |-> call[r].msisdn, status |-> decided[r]]]
       \/ /\ Goto(r, "save", "failed")
          /\ ExistsByIMSIOrMSISDN(call[r].imsi, call[r].msisdn)
          /\ UNCHANGED subscriber
    /\ UNCHANGED <<call, decided, terminated>>

\* The write fails with no effect.
StoreFails(r) ==
    /\ Goto(r, "save", "failed") \/ Goto(r, "update", "failed")
    /\ UNCHANGED <<subscriber, call, decided, terminated>>

-----------------------------------------------------------------------------
\* Mutant: a subscriber may be suspended before it is activated.
AllowsEarly(op, status) == status # "DEACTIVATED"

\* Mutant: DEACTIVATED is not terminal.
AllowsRevival(op, status) == op = "suspend" => status # "PENDING_ACTIVATION"

\* Activate, Suspend and Deactivate of the entity: from which status, to which.
Allows(op, status) ==
    /\ status # "DEACTIVATED"
    /\ op = "suspend" => status # "PENDING_ACTIVATION"

Target(op) ==
    CASE op = "activate" -> "ACTIVE"
      [] op = "suspend" -> "SUSPENDED"
      [] op = "deactivate" -> "DEACTIVATED"

\* Mutant: a subscriber that was not found is changed all the same.
DecideUnknown(r, op, id) ==
    /\ Goto(r, "idle", "update")
    /\ Allows(op, subscriber[id].status)
    /\ decided' = [decided EXCEPT ![r] = Target(op)]
    /\ call' = [call EXCEPT ![r] = [op |-> op, id |-> id]]
    /\ UNCHANGED <<subscriber, terminated>>

\* FindByID, then the entity's method on the copy it returned.
Decide(r, op, id) ==
    /\ id \in Stored
    /\ IF Allows(op, subscriber[id].status)
       THEN Goto(r, "idle", "update") /\ decided' = [decided EXCEPT ![r] = Target(op)]
       ELSE Goto(r, "idle", "failed") /\ UNCHANGED decided
    /\ call' = [call EXCEPT ![r] = [op |-> op, id |-> id]]
    /\ UNCHANGED <<subscriber, terminated>>

\* Update writes the copy's status over whatever the row has now.
Update(r) ==
    /\ Goto(r, "update", "ok")
    /\ subscriber' = [subscriber EXCEPT ![call[r].id].status = decided[r]]
    /\ terminated' = IF decided[r] = "DEACTIVATED" THEN terminated \cup {call[r].id}
                                                   ELSE terminated
    /\ UNCHANGED <<call, decided>>

-----------------------------------------------------------------------------
Step(r) ==
    \/ Refuse(r)
    \/ \E i \in IMSI, m \in MSISDN : StartProvision(r, i, m)
    \/ CheckUnique(r)
    \/ Save(r)
    \/ StoreFails(r)
    \/ \E op \in Change, id \in Request : Decide(r, op, id)
    \/ Update(r)

RegistryNext == \E r \in Request : Step(r)

RegistrySpec == RegistryInit /\ [][RegistryNext]_registryVars

-----------------------------------------------------------------------------
\* The types of the registry's state; a pending write names a row that exists.
RegistryTypeOK ==
    /\ subscriber \in [Request -> Subscriber \cup {NoSubscriber}]
    /\ pc \in [Request -> Label]
    /\ call \in [Request -> Call \cup {NoCall}]
    /\ decided \in [Request -> Status \cup {"ABSENT"}]
    /\ terminated \subseteq Request
    /\ \A r \in Request : pc[r] = "update" => call[r].id \in Stored

\* No two subscribers share an IMSI or an MSISDN, although two provisionings
\* can both pass the check before either saves (service.go:26-44).
UniqueIdentities ==
    \A s, t \in Stored :
        subscriber[s].imsi = subscriber[t].imsi \/ subscriber[s].msisdn = subscriber[t].msisdn
            => s = t

Edge == {<<"PENDING_ACTIVATION", "ACTIVE">>, <<"ACTIVE", "SUSPENDED">>, <<"SUSPENDED", "ACTIVE">>}
          \cup {<<from, "DEACTIVATED">> : from \in Status}

\* A subscriber is deactivated, and every write still pending on it was decided
\* to deactivate it.
Settled(s) ==
    /\ subscriber[s].status = "DEACTIVATED"
    /\ \A r \in Request : pc[r] = "update" /\ call[r].id = s => decided[r] = "DEACTIVATED"

\* However the requests interleave, the identity of a subscriber never changes
\* and its status only along an edge of the state machine, but for a stale
\* copy that makes a DEACTIVATED one ACTIVE or SUSPENDED again.  That takes a
\* write decided before the deactivation: once every one pending is itself a
\* deactivation, the subscriber stays DEACTIVATED, since what is decided later is
\* refused (subscriber.go:75-121, service.go:47-98).
LegalTransitions ==
    [][\A s \in Stored :
          /\ subscriber'[s].imsi = subscriber[s].imsi
          /\ subscriber'[s].msisdn = subscriber[s].msisdn
          /\ \/ subscriber'[s].status = subscriber[s].status
             \/ subscriber[s].status = "DEACTIVATED" /\ subscriber'[s].status \in {"ACTIVE", "SUSPENDED"}
             \/ <<subscriber[s].status, subscriber'[s].status>> \in Edge
          /\ Settled(s) => Settled(s)']_registryVars

\* "DEACTIVATED (estado terminal irreversível; rejeita qualquer transição
\* posterior)": a subscriber stored as DEACTIVATED stays so.
DeactivatedIsFinal == \A s \in terminated : subscriber[s].status = "DEACTIVATED"
=============================================================================
