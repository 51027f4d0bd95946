------------------------- MODULE DeviceRegistryProofs -------------------------
(***************************************************************************)
(* What holds of subscribers and devices for any number of requests,       *)
(* although every request reads and writes in separate steps.              *)
(*                                                                         *)
(* Identities stay unique because the save looks again; PendingInv says    *)
(* what a request still knows when it writes: a provisioning writes a row  *)
(* that is not there yet, and a suspension decided on some earlier status  *)
(* never meets a row that is PENDING_ACTIVATION.  OwnerInv says that the   *)
(* check of a registration stays true of the past.                         *)
(***************************************************************************)
EXTENDS DeviceRegistry, TLAPS

Provision == [op : {"provision"}, id : Request, imsi : IMSI, msisdn : MSISDN]

Registering == [op : {"register"}, subscriber : Request, imei : IMEI]

PendingInv ==
    \A r \in Request :
        /\ pc[r] \in {"check", "save"} =>
              call[r] \in Provision /\ call[r].id = r /\ decided[r] = "PENDING_ACTIVATION"
        /\ pc[r] \in {"idle", "check", "save"} => r \notin Stored
        /\ pc[r] = "update" =>
              /\ call[r] \in [op : Change, id : Request]
              /\ decided[r] \in {"ACTIVE", "SUSPENDED", "DEACTIVATED"}
              /\ decided[r] = "SUSPENDED" =>
                    subscriber[call[r].id].status # "PENDING_ACTIVATION"

RegistryInv == RegistryTypeOK /\ PendingInv /\ UniqueIdentities

OwnerInv ==
    /\ \A s \in Request : subscriber[s].status = "ACTIVE" => s \in wasActive
    /\ \A q \in Registration : dpc[q] \in {"active", "imei", "save"} => dcall[q] \in Registering
    /\ \A q \in Registration : dpc[q] \in {"imei", "save"} => dcall[q].subscriber \in wasActive

DeviceInv == DeviceTypeOK /\ OwnerInv /\ UniqueIMEI /\ OwnerWasActive

-----------------------------------------------------------------------------
(* Rows                                                                    *)

LEMMA StoredRow ==
    ASSUME RegistryTypeOK, NEW s \in Request
    PROVE  /\ s \in Stored <=> subscriber[s] \in Subscriber
           /\ s \in Stored => subscriber[s].status \in Status
           /\ s \notin Stored => subscriber[s].status = "ABSENT"
  <1>1. subscriber[s] \in Subscriber \/ subscriber[s] = NoSubscriber
    BY DEF RegistryTypeOK
  <1>2. ASSUME NEW x \in Subscriber PROVE x # NoSubscriber /\ x.status \in Status
    <2>1. x.status \in Status BY DEF Subscriber
    <2>2. x.status # "ABSENT" BY <2>1 DEF Status
    <2> QED BY <2>1, <2>2 DEF NoSubscriber
  <1>3. NoSubscriber.status = "ABSENT" BY DEF NoSubscriber
  <1> QED BY <1>1, <1>2, <1>3 DEF Stored

\* A step that leaves the subscribers alone keeps what is said about them.
LEMMA SameSubscribers ==
    ASSUME subscriber' = subscriber
    PROVE  /\ Stored' = Stored
           /\ UniqueIdentities => UniqueIdentities'
  BY DEF Stored, UniqueIdentities

\* The row a provisioning inserts.
NewRow(r) == [imsi |-> call[r].imsi, msisdn |-> call[r].msisdn, status |-> decided[r]]

LEMMA SaveEffect ==
    ASSUME RegistryInv, NEW r \in Request, pc[r] = "save",
           subscriber' = [subscriber EXCEPT ![call[r].id] = NewRow(r)]
    PROVE  /\ r \notin Stored
           /\ NewRow(r) \in Subscriber
           /\ NewRow(r) # NoSubscriber
           /\ NewRow(r).status = "PENDING_ACTIVATION"
           /\ subscriber'[r] = NewRow(r)
           /\ \A s \in Request \ {r} : subscriber'[s] = subscriber[s]
           /\ Stored' = Stored \cup {r}
  <1>1. /\ call[r] \in Provision
        /\ call[r].id = r
        /\ decided[r] = "PENDING_ACTIVATION"
        /\ r \notin Stored
    BY DEF RegistryInv, PendingInv
  <1>2. call[r].imsi \in IMSI /\ call[r].msisdn \in MSISDN
    BY <1>1 DEF Provision
  <1>3. NewRow(r) \in Subscriber /\ NewRow(r).status = "PENDING_ACTIVATION"
    BY <1>1, <1>2 DEF NewRow, Subscriber, Status
  <1>4. NewRow(r) # NoSubscriber
    BY <1>3 DEF NoSubscriber
  <1>5. subscriber'[r] = NewRow(r) /\ \A s \in Request \ {r} : subscriber'[s] = subscriber[s]
    BY <1>1 DEF RegistryInv, RegistryTypeOK
  <1>6. Stored' = Stored \cup {r}
    BY <1>4, <1>5 DEF Stored
  <1> QED BY <1>1, <1>3, <1>4, <1>5, <1>6

LEMMA UpdateEffect ==
    ASSUME RegistryInv, NEW r \in Request, Update(r)
    PROVE  /\ call[r].id \in Stored
           /\ decided[r] \in {"ACTIVE", "SUSPENDED", "DEACTIVATED"}
           /\ subscriber' \in [Request -> Subscriber \cup {NoSubscriber}]
           /\ subscriber'[call[r].id].imsi = subscriber[call[r].id].imsi
           /\ subscriber'[call[r].id].msisdn = subscriber[call[r].id].msisdn
           /\ subscriber'[call[r].id].status = decided[r]
           /\ \A s \in Request \ {call[r].id} : subscriber'[s] = subscriber[s]
           /\ Stored' = Stored
  <1> DEFINE t == call[r].id
  <1>1. pc[r] = "update" /\ subscriber' = [subscriber EXCEPT ![t].status = decided[r]]
    BY DEF Update, Goto
  <1>2. /\ t \in Stored
        /\ t \in Request
        /\ decided[r] \in {"ACTIVE", "SUSPENDED", "DEACTIVATED"}
    BY <1>1 DEF RegistryInv, RegistryTypeOK, PendingInv, Stored
  <1>3. subscriber[t] \in Subscriber
    BY <1>2, StoredRow DEF RegistryInv
  <1> DEFINE row == [subscriber[t] EXCEPT !.status = decided[r]]
  <1>4. /\ row \in Subscriber
        /\ row.imsi = subscriber[t].imsi
        /\ row.msisdn = subscriber[t].msisdn
        /\ row.status = decided[r]
    BY <1>2, <1>3 DEF Subscriber, Status
  <1>5. subscriber'[t] = row /\ \A s \in Request \ {t} : subscriber'[s] = subscriber[s]
    BY <1>1, <1>2 DEF RegistryInv, RegistryTypeOK
  <1>6. subscriber' \in [Request -> Subscriber \cup {NoSubscriber}]
    BY <1>1, <1>2, <1>4 DEF RegistryInv, RegistryTypeOK
  <1>7. row # NoSubscriber
    BY <1>2, <1>4 DEF NoSubscriber
  <1>8. Stored' = Stored
    BY <1>2, <1>5, <1>7 DEF Stored
  <1> QED BY <1>2, <1>4, <1>5, <1>6, <1>8

-----------------------------------------------------------------------------
LEMMA RegistryInitInv == RegistryInit => RegistryInv
  <1> SUFFICES ASSUME RegistryInit PROVE RegistryInv
    OBVIOUS
  <1>1. Stored = {} BY DEF RegistryInit, Stored
  <1>2. RegistryTypeOK
    BY DEF RegistryInit, RegistryTypeOK, Label
  <1>3. PendingInv
    <2>1. \A r \in Request : pc[r] = "idle" BY DEF RegistryInit
    <2> QED BY <1>1, <2>1 DEF PendingInv
  <1>4. UniqueIdentities BY <1>1 DEF UniqueIdentities
  <1> QED BY <1>2, <1>3, <1>4 DEF RegistryInv

\* The steps of a request that leave the table alone.
LEMMA QuietStep ==
    ASSUME RegistryInv, NEW r \in Request,
           \/ Refuse(r) \/ StoreFails(r) \/ CheckUnique(r)
           \/ \E i \in IMSI, m \in MSISDN : StartProvision(r, i, m)
           \/ \E op \in Change, id \in Request : Decide(r, op, id)
    PROVE  RegistryInv' /\ subscriber' = subscriber
  <1> USE DEF RegistryInv, Goto
  <1>1. subscriber' = subscriber
    BY DEF Refuse, StoreFails, CheckUnique, StartProvision, Decide
  <1>2. Stored' = Stored /\ UniqueIdentities'
    BY <1>1, SameSubscribers
  <1>3. CASE Refuse(r) \/ StoreFails(r)
    <2>1. RegistryTypeOK' BY <1>2, <1>3 DEF Refuse, StoreFails, RegistryTypeOK, Label
    <2>2. PendingInv' BY <1>2, <1>3 DEF Refuse, StoreFails, PendingInv, RegistryTypeOK
    <2> QED BY <1>1, <1>2, <2>1, <2>2
  <1>4. CASE CheckUnique(r)
    <2>1. PICK to \in {"failed", "save"} :
             pc[r] = "check" /\ pc' = [pc EXCEPT ![r] = to]
      BY <1>4 DEF CheckUnique
    <2>2. UNCHANGED <<subscriber, call, decided, terminated>>
      BY <1>4 DEF CheckUnique
    <2>3. RegistryTypeOK' BY <1>2, <2>1, <2>2 DEF RegistryTypeOK, Label
    <2>4. PendingInv' BY <1>2, <2>1, <2>2 DEF PendingInv, RegistryTypeOK
    <2> QED BY <1>1, <1>2, <2>3, <2>4
  <1>5. ASSUME NEW i \in IMSI, NEW m \in MSISDN, StartProvision(r, i, m)
        PROVE  RegistryTypeOK' /\ PendingInv'
    <2> DEFINE c == [op |-> "provision", id |-> r, imsi |-> i, msisdn |-> m]
    <2>1. /\ pc[r] = "idle"
          /\ pc' = [pc EXCEPT ![r] = "check"]
          /\ call' = [call EXCEPT ![r] = c]
          /\ decided' = [decided EXCEPT ![r] = "PENDING_ACTIVATION"]
          /\ UNCHANGED <<subscriber, terminated>>
      BY <1>5 DEF StartProvision
    <2>2. c \in Provision /\ c \in Call /\ c.id = r
      BY DEF Provision, Call
    <2> HIDE DEF c
    <2>3. RegistryTypeOK' BY <1>2, <2>1, <2>2 DEF RegistryTypeOK, Label, Status
    <2>4. PendingInv' BY <1>2, <2>1, <2>2 DEF PendingInv, RegistryTypeOK
    <2> QED BY <2>3, <2>4
  <1>6. ASSUME NEW op \in Change, NEW id \in Request, Decide(r, op, id)
        PROVE  RegistryTypeOK' /\ PendingInv'
    <2> DEFINE c == [op |-> op, id |-> id]
    <2>1. /\ id \in Stored
          /\ pc[r] = "idle"
          /\ call' = [call EXCEPT ![r] = c]
          /\ UNCHANGED <<subscriber, terminated>>
      BY <1>6 DEF Decide
    <2>2. c \in [op : Change, id : Request] /\ c \in Call /\ c.id = id
      BY DEF Call
    <2>3. Target(op) \in {"ACTIVE", "SUSPENDED", "DEACTIVATED"}
      BY DEF Target, Change
    <2>4. Target(op) = "SUSPENDED" => op = "suspend"
      BY DEF Target, Change
    <2> HIDE DEF c
    <2>5. CASE Allows(op, subscriber[id].status)
      <3>1. pc' = [pc EXCEPT ![r] = "update"] /\ decided' = [decided EXCEPT ![r] = Target(op)]
        BY <1>6, <2>5 DEF Decide
      <3>2. Target(op) = "SUSPENDED" => subscriber[id].status # "PENDING_ACTIVATION"
        BY <2>4, <2>5 DEF Allows
      <3>3. RegistryTypeOK'
        BY <1>2, <2>1, <2>2, <2>3, <3>1 DEF RegistryTypeOK, Label, Status
      <3>4. PendingInv'
        BY <1>2, <2>1, <2>2, <2>3, <3>1, <3>2 DEF PendingInv, RegistryTypeOK
      <3> QED BY <3>3, <3>4
    <2>6. CASE ~ Allows(op, subscriber[id].status)
      <3>1. pc' = [pc EXCEPT ![r] = "failed"] /\ decided' = decided
        BY <1>6, <2>6 DEF Decide
      <3>2. RegistryTypeOK' BY <1>2, <2>1, <2>2, <3>1 DEF RegistryTypeOK, Label
      <3>3. PendingInv' BY <1>2, <2>1, <2>2, <3>1 DEF PendingInv, RegistryTypeOK
      <3> QED BY <3>2, <3>3
    <2> QED BY <2>5, <2>6
  <1> QED BY <1>1, <1>2, <1>3, <1>4, <1>5, <1>6

LEMMA SaveStep ==
    ASSUME RegistryInv, NEW r \in Request, Save(r)
    PROVE  RegistryInv'
  <1> USE DEF RegistryInv
  <1>1. CASE ExistsByIMSIOrMSISDN(call[r].imsi, call[r].msisdn)
    <2>1. /\ pc[r] = "save"
          /\ pc' = [pc EXCEPT ![r] = "failed"]
          /\ UNCHANGED <<subscriber, call, decided, terminated>>
      BY <1>1 DEF Save, Goto
    <2>2. Stored' = Stored /\ UniqueIdentities' BY <2>1, SameSubscribers
    <2>3. RegistryTypeOK' BY <2>1, <2>2 DEF RegistryTypeOK, Label
    <2>4. PendingInv' BY <2>1, <2>2 DEF PendingInv, RegistryTypeOK
    <2> QED BY <2>2, <2>3, <2>4
  <1>2. CASE ~ ExistsByIMSIOrMSISDN(call[r].imsi, call[r].msisdn)
    <2>1. /\ pc[r] = "save"
          /\ pc' = [pc EXCEPT ![r] = "ok"]
          /\ subscriber' = [subscriber EXCEPT ![call[r].id] = NewRow(r)]
          /\ UNCHANGED <<call, decided, terminated>>
      BY <1>2 DEF Save, Goto, NewRow
    <2>2. /\ r \notin Stored
          /\ NewRow(r) \in Subscriber
          /\ subscriber'[r] = NewRow(r)
          /\ \A s \in Request \ {r} : subscriber'[s] = subscriber[s]
          /\ Stored' = Stored \cup {r}
      BY <2>1, SaveEffect
    <2>3. RegistryTypeOK' BY <2>1, <2>2 DEF RegistryTypeOK, Label
    <2>4. PendingInv'
      <3> SUFFICES ASSUME NEW q \in Request
                   PROVE  /\ pc'[q] \in {"check", "save"} =>
                               /\ call'[q] \in Provision
                               /\ call'[q].id = q
                               /\ decided'[q] = "PENDING_ACTIVATION"
                          /\ pc'[q] \in {"idle", "check", "save"} => q \notin Stored'
                          /\ pc'[q] = "update" =>
                               /\ call'[q] \in [op : Change, id : Request]
                               /\ decided'[q] \in {"ACTIVE", "SUSPENDED", "DEACTIVATED"}
                               /\ decided'[q] = "SUSPENDED" =>
                                     subscriber'[call'[q].id].status # "PENDING_ACTIVATION"
        BY DEF PendingInv
      <3>1. CASE q = r BY <2>1, <3>1 DEF RegistryTypeOK
      <3>2. CASE q # r
        <4>1. pc'[q] = pc[q] /\ call'[q] = call[q] /\ decided'[q] = decided[q]
          BY <2>1, <3>2 DEF RegistryTypeOK
        <4>2. pc[q] = "update" => call[q].id \in Stored
          BY DEF RegistryTypeOK
        <4>3. pc[q] = "update" => subscriber'[call[q].id] = subscriber[call[q].id]
          BY <2>2, <4>2 DEF Stored
        <4> QED BY <2>2, <3>2, <4>1, <4>3 DEF PendingInv
      <3> QED BY <3>1, <3>2
    <2>5. \A s \in Stored :
            subscriber[s].imsi # call[r].imsi /\ subscriber[s].msisdn # call[r].msisdn
      BY <1>2 DEF ExistsByIMSIOrMSISDN
    <2>6. subscriber'[r].imsi = call[r].imsi /\ subscriber'[r].msisdn = call[r].msisdn
      BY <2>2 DEF NewRow
    <2>7. \A s \in Stored : s # r /\ subscriber'[s] = subscriber[s]
      BY <2>2 DEF Stored
    <2>8. UniqueIdentities'
      BY <2>2, <2>5, <2>6, <2>7 DEF UniqueIdentities
    <2> QED BY <2>3, <2>4, <2>8
  <1> QED BY <1>1, <1>2

LEMMA UpdateStep ==
    ASSUME RegistryInv, NEW r \in Request, Update(r)
    PROVE  RegistryInv'
  <1> USE DEF RegistryInv
  <1> DEFINE t == call[r].id
  <1>1. /\ pc[r] = "update"
        /\ pc' = [pc EXCEPT ![r] = "ok"]
        /\ UNCHANGED <<call, decided>>
        /\ terminated' \subseteq terminated \cup {t}
    BY DEF Update, Goto
  <1>2. /\ t \in Stored
        /\ decided[r] \in {"ACTIVE", "SUSPENDED", "DEACTIVATED"}
        /\ subscriber' \in [Request -> Subscriber \cup {NoSubscriber}]
        /\ subscriber'[t].imsi = subscriber[t].imsi
        /\ subscriber'[t].msisdn = subscriber[t].msisdn
        /\ subscriber'[t].status = decided[r]
        /\ \A s \in Request \ {t} : subscriber'[s] = subscriber[s]
        /\ Stored' = Stored
    BY UpdateEffect
  <1> HIDE DEF t
  <1>3. t \in Request /\ Stored \subseteq Request BY <1>2 DEF Stored
  <1>4. RegistryTypeOK' BY <1>1, <1>2, <1>3 DEF RegistryTypeOK, Label
  <1>5. PendingInv'
    <2>1. \A s \in Request : subscriber[s].status # "PENDING_ACTIVATION"
                               => subscriber'[s].status # "PENDING_ACTIVATION"
      BY <1>2
    <2>2. \A q \in Request : pc[q] = "update" => call[q].id \in Request
      BY <1>3 DEF RegistryTypeOK
    <2> QED BY <1>1, <1>2, <2>1, <2>2 DEF PendingInv, RegistryTypeOK
  <1>6. \A s \in Request : subscriber'[s].imsi = subscriber[s].imsi
                             /\ subscriber'[s].msisdn = subscriber[s].msisdn
    BY <1>2
  <1>7. UniqueIdentities' BY <1>2, <1>3, <1>6 DEF UniqueIdentities
  <1> QED BY <1>4, <1>5, <1>7

LEMMA RegistryStep == RegistryInv /\ RegistryNext => RegistryInv'
  BY QuietStep, SaveStep, UpdateStep DEF RegistryNext, Step

LEMMA RegistryStutter == RegistryInv /\ UNCHANGED registryVars => RegistryInv'
  BY DEF registryVars, RegistryInv, RegistryTypeOK, PendingInv, UniqueIdentities, Stored

LEMMA RegistryInvariant == Spec => []RegistryInv
  <1>1. Init => RegistryInv BY RegistryInitInv DEF Init
  <1>2. RegistryInv /\ [Next]_vars => RegistryInv'
    <2> SUFFICES ASSUME RegistryInv, [Next]_vars PROVE RegistryInv'
      OBVIOUS
    <2>1. CASE SubscriberStep BY <2>1, RegistryStep DEF SubscriberStep
    <2>2. ASSUME NEW q \in Registration, Register(q) \/ AdmitAttach(q)
          PROVE  RegistryInv'
      <3>1. UNCHANGED registryVars
        BY <2>2 DEF Register, RefuseDevice, StartRegister, CheckSubscriberActive, CheckIMEI,
                    SaveDevice, SaveDeviceFails, AdmitAttach
      <3> QED BY <3>1, RegistryStutter
    <2>3. CASE UNCHANGED vars BY <2>3, RegistryStutter DEF vars
    <2> QED BY <2>1, <2>2, <2>3 DEF Next
  <1> QED BY <1>1, <1>2, PTL DEF Spec

-----------------------------------------------------------------------------
\* No two subscribers share an IMSI or an MSISDN, for any number of concurrent
\* provisionings (subscriber/service.go:25-44).
THEOREM IdentitiesUnique == Spec => []UniqueIdentities
  <1>1. RegistryInv => UniqueIdentities BY DEF RegistryInv
  <1> QED BY <1>1, RegistryInvariant, PTL

\* The types of the subscribers and of the requests about them.
THEOREM RegistryTypes == Spec => []RegistryTypeOK
  <1>1. RegistryInv => RegistryTypeOK BY DEF RegistryInv
  <1> QED BY <1>1, RegistryInvariant, PTL

\* A deactivation that no other decision is pending on stays: what is decided
\* from now on is refused.
LEMMA SettledStep ==
    ASSUME RegistryInv, [RegistryNext]_registryVars, NEW s \in Request, Settled(s)
    PROVE  Settled(s)'
<1>. USE DEF Goto
<1>0. s \in Stored /\ pc \in [Request -> Label] /\ call \in [Request -> Call \cup {NoCall}]
        /\ decided \in [Request -> Status \cup {"ABSENT"}]
  BY StoredRow DEF Settled, RegistryInv, RegistryTypeOK
<1>1. CASE UNCHANGED registryVars
  BY <1>1 DEF registryVars, Settled
<1>2. ASSUME NEW r \in Request,
             \/ Refuse(r) \/ CheckUnique(r) \/ StoreFails(r)
             \/ \E i \in IMSI, m \in MSISDN : StartProvision(r, i, m)
      PROVE  Settled(s)'
  BY <1>0, <1>2 DEF Refuse, CheckUnique, StoreFails, StartProvision, Settled
<1>3. ASSUME NEW r \in Request, Save(r)
      PROVE  Settled(s)'
  <2>1. subscriber'[s] = subscriber[s]
    BY <1>0, <1>3, SaveEffect DEF Save, NewRow
  <2>. QED
    BY <1>0, <1>3, <2>1 DEF Save, Settled
<1>4. ASSUME NEW r \in Request, NEW op \in Change, NEW id \in Request, Decide(r, op, id)
      PROVE  Settled(s)'
  <2>1. id = s => ~ Allows(op, subscriber[id].status)
    BY DEF Allows, Settled
  <2>2. /\ subscriber' = subscriber /\ call'[r].id = id
        /\ \A q \in Request \ {r} : pc'[q] = pc[q] /\ call'[q] = call[q] /\ decided'[q] = decided[q]
        /\ pc'[r] = "update" => Allows(op, subscriber[id].status)
    BY <1>0, <1>4 DEF Decide
  <2>. QED
    BY <2>1, <2>2 DEF Settled
<1>5. ASSUME NEW r \in Request, Update(r)
      PROVE  Settled(s)'
  <2>1. /\ pc[r] = "update" /\ pc' = [pc EXCEPT ![r] = "ok"] /\ UNCHANGED <<call, decided>>
        /\ subscriber'[s].status = IF s = call[r].id THEN decided[r] ELSE subscriber[s].status
    BY <1>5, UpdateEffect DEF Update
  <2>. QED
    BY <1>0, <2>1 DEF Settled
<1>. QED
  BY <1>1, <1>2, <1>3, <1>4, <1>5 DEF RegistryNext, Step

\* Whatever stale copies are written back, a subscriber that is not DEACTIVATED
\* only follows the edges of the state machine, and one that is DEACTIVATED, with
\* no other decision pending, stays so: for any number of requests
\* (subscriber.go:75-121, service.go:47-98).
THEOREM TransitionsLegal == Spec => LegalTransitions
  <1> DEFINE Legal ==
        \A s \in Stored :
          /\ subscriber'[s].imsi = subscriber[s].imsi
          /\ subscriber'[s].msisdn = subscriber[s].msisdn
          /\ \/ subscriber'[s].status = subscriber[s].status
             \/ subscriber[s].status = "DEACTIVATED" /\ subscriber'[s].status \in {"ACTIVE", "SUSPENDED"}
             \/ <<subscriber[s].status, subscriber'[s].status>> \in Edge
  <1>1. RegistryInv /\ [Next]_vars => [Legal]_registryVars
    <2> SUFFICES ASSUME RegistryInv, [Next]_vars PROVE Legal \/ UNCHANGED registryVars
      OBVIOUS
    <2>1. ASSUME subscriber' = subscriber PROVE Legal
      BY <2>1
    <2>2. ASSUME NEW r \in Request, Save(r) PROVE Legal
      <3>1. CASE subscriber' = subscriber BY <2>1, <3>1
      <3>2. CASE subscriber' # subscriber
        <4>1. pc[r] = "save" /\ subscriber' = [subscriber EXCEPT ![call[r].id] = NewRow(r)]
          BY <2>2, <3>2 DEF Save, Goto, NewRow
        <4>2. r \notin Stored /\ \A s \in Request \ {r} : subscriber'[s] = subscriber[s]
          BY <4>1, SaveEffect
        <4>3. \A s \in Stored : subscriber'[s] = subscriber[s] BY <4>2 DEF Stored
        <4> QED BY <4>3
      <3> QED BY <3>1, <3>2
    <2>3. ASSUME NEW r \in Request, Update(r) PROVE Legal
      <3> DEFINE t == call[r].id
      <3>1. /\ t \in Stored
            /\ decided[r] \in {"ACTIVE", "SUSPENDED", "DEACTIVATED"}
            /\ subscriber'[t].imsi = subscriber[t].imsi
            /\ subscriber'[t].msisdn = subscriber[t].msisdn
            /\ subscriber'[t].status = decided[r]
            /\ \A s \in Request \ {t} : subscriber'[s] = subscriber[s]
        BY <2>3, UpdateEffect
      <3>2. decided[r] = "SUSPENDED" => subscriber[t].status # "PENDING_ACTIVATION"
        BY <2>3 DEF Update, Goto, RegistryInv, PendingInv
      <3>3. subscriber[t].status \in Status
        BY <3>1, StoredRow DEF RegistryInv, Stored
      <3> HIDE DEF t
      <3>4. \/ subscriber'[t].status = subscriber[t].status
            \/ subscriber[t].status = "DEACTIVATED" /\ subscriber'[t].status \in {"ACTIVE", "SUSPENDED"}
            \/ <<subscriber[t].status, subscriber'[t].status>> \in Edge
        BY <3>1, <3>2, <3>3 DEF Edge, Status
      <3>5. \A s \in Stored : s # t => subscriber'[s] = subscriber[s]
        BY <3>1 DEF Stored
      <3> QED BY <3>1, <3>4, <3>5
    <2>4. CASE SubscriberStep
      <3> HIDE DEF Legal
      <3> QED BY <2>1, <2>2, <2>3, <2>4, QuietStep DEF SubscriberStep, RegistryNext, Step
    <2>5. ASSUME NEW q \in Registration, Register(q) \/ AdmitAttach(q)
          PROVE  UNCHANGED registryVars
      BY <2>5 DEF Register, RefuseDevice, StartRegister, CheckSubscriberActive, CheckIMEI,
                  SaveDevice, SaveDeviceFails, AdmitAttach
    <2> HIDE DEF Legal
    <2> QED BY <2>4, <2>5 DEF Next, vars
  <1>2. RegistryInv /\ [Next]_vars => [\A s \in Request : Settled(s) => Settled(s)']_registryVars
    <2> SUFFICES ASSUME RegistryInv, [Next]_vars, registryVars' # registryVars
                 PROVE  \A s \in Request : Settled(s) => Settled(s)'
      OBVIOUS
    <2>1. [RegistryNext]_registryVars
      <3>1. ASSUME NEW q \in Registration, Register(q) \/ AdmitAttach(q)
            PROVE  UNCHANGED registryVars
        BY <3>1 DEF Register, RefuseDevice, StartRegister, CheckSubscriberActive, CheckIMEI,
                    SaveDevice, SaveDeviceFails, AdmitAttach
      <3> QED BY <3>1 DEF Next, SubscriberStep, vars
    <2> QED BY <2>1, SettledStep
  <1>3. RegistryInv /\ [Next]_vars =>
          [Legal /\ \A s \in Stored : Settled(s) => Settled(s)']_registryVars
    <2> HIDE DEF Legal
    <2> QED BY <1>1, <1>2 DEF Stored
  <1>4. [Legal /\ \A s \in Stored : Settled(s) => Settled(s)']_registryVars =>
          [\A s \in Stored :
             /\ subscriber'[s].imsi = subscriber[s].imsi
             /\ subscriber'[s].msisdn = subscriber[s].msisdn
             /\ \/ subscriber'[s].status = subscriber[s].status
                \/ subscriber[s].status = "DEACTIVATED" /\ subscriber'[s].status \in {"ACTIVE", "SUSPENDED"}
                \/ <<subscriber[s].status, subscriber'[s].status>> \in Edge
             /\ Settled(s) => Settled(s)']_registryVars
    OBVIOUS
  <1> QED BY <1>3, <1>4, RegistryInvariant, PTL DEF Spec, LegalTransitions

-----------------------------------------------------------------------------
(* Devices                                                                 *)

LEMMA DeviceInitInv == Init => DeviceInv
  <1> SUFFICES ASSUME Init PROVE DeviceInv
    OBVIOUS
  <1>1. Registered = {} BY DEF Init, Registered
  <1>2. DeviceTypeOK BY DEF Init, DeviceTypeOK
  <1>3. \A s \in Request : subscriber[s].status = "ABSENT"
    BY DEF Init, RegistryInit, NoSubscriber
  <1>4. \A q \in Registration : dpc[q] = "idle" BY DEF Init
  <1>5. OwnerInv BY <1>3, <1>4 DEF OwnerInv
  <1> QED BY <1>1, <1>2, <1>5 DEF DeviceInv, UniqueIMEI, OwnerWasActive

\* No row of the subscribers is ever removed.
LEMMA StoredGrows ==
    ASSUME RegistryInv, RegistryNext
    PROVE  Stored \subseteq Stored'
  <1>1. ASSUME subscriber' = subscriber PROVE Stored \subseteq Stored'
    BY <1>1, SameSubscribers
  <1>2. ASSUME NEW r \in Request, Save(r), subscriber' # subscriber
        PROVE  Stored \subseteq Stored'
    <2>1. pc[r] = "save" /\ subscriber' = [subscriber EXCEPT ![call[r].id] = NewRow(r)]
      BY <1>2 DEF Save, Goto, NewRow
    <2>2. Stored' = Stored \cup {r} BY <2>1, SaveEffect
    <2> QED BY <2>2
  <1>3. ASSUME NEW r \in Request, Update(r) PROVE Stored \subseteq Stored'
    BY <1>3, UpdateEffect
  <1> QED BY <1>1, <1>2, <1>3, QuietStep DEF RegistryNext, Step

LEMMA SubscriberStepInv ==
    ASSUME RegistryInv, DeviceInv, SubscriberStep
    PROVE  DeviceInv'
  <1>1. /\ RegistryNext
        /\ wasActive' = wasActive \cup {s \in Request : subscriber'[s].status = "ACTIVE"}
        /\ UNCHANGED <<device, dpc, dcall, granted>>
    BY DEF SubscriberStep
  <1>2. Stored \subseteq Stored' BY <1>1, StoredGrows
  <1>3. Registered' = Registered BY <1>1 DEF Registered
  <1>4. DeviceTypeOK' BY <1>1 DEF DeviceInv, DeviceTypeOK
  <1>5. OwnerInv' BY <1>1 DEF DeviceInv, OwnerInv
  <1>6. UniqueIMEI' BY <1>1, <1>3 DEF DeviceInv, UniqueIMEI
  <1>7. OwnerWasActive' BY <1>1, <1>2, <1>3 DEF DeviceInv, OwnerWasActive
  <1> QED BY <1>4, <1>5, <1>6, <1>7 DEF DeviceInv

\* The steps of a registration that leave the devices table alone.
LEMMA QuietRegistration ==
    ASSUME RegistryInv, DeviceInv, NEW q \in Registration,
           \/ RefuseDevice(q) \/ CheckSubscriberActive(q) \/ CheckIMEI(q) \/ SaveDeviceFails(q)
           \/ \E s \in Request, i \in IMEI : StartRegister(q, s, i)
    PROVE  DeviceInv'
  <1> USE DEF DeviceInv, DGoto
  <1>1. UNCHANGED <<subscriber, device, wasActive, granted>>
    BY DEF RefuseDevice, CheckSubscriberActive, CheckIMEI, SaveDeviceFails, StartRegister,
           registryVars
  <1>2. UniqueIMEI' /\ OwnerWasActive'
    BY <1>1 DEF UniqueIMEI, OwnerWasActive, Registered, Stored
  <1>3. CASE RefuseDevice(q) \/ SaveDeviceFails(q)
    <2>1. dpc' = [dpc EXCEPT ![q] = "failed"] /\ dcall' = dcall
      BY <1>3 DEF RefuseDevice, SaveDeviceFails
    <2>2. DeviceTypeOK' BY <1>1, <2>1 DEF DeviceTypeOK
    <2>3. OwnerInv' BY <1>1, <2>1 DEF OwnerInv, DeviceTypeOK
    <2> QED BY <1>2, <2>2, <2>3
  <1>4. CASE CheckSubscriberActive(q)
    <2>1. PICK to \in {"imei", "failed"} :
            /\ dpc[q] = "active"
            /\ dpc' = [dpc EXCEPT ![q] = to]
            /\ to = "imei" => subscriber[dcall[q].subscriber].status = "ACTIVE"
      BY <1>4 DEF CheckSubscriberActive
    <2>2. dcall' = dcall BY <1>4 DEF CheckSubscriberActive
    <2>3. dcall[q] \in Registering /\ dcall[q].subscriber \in Request
      BY <2>1 DEF OwnerInv, Registering
    <2>4. to = "imei" => dcall[q].subscriber \in wasActive
      BY <2>1, <2>3 DEF OwnerInv
    <2>5. DeviceTypeOK' BY <1>1, <2>1, <2>2 DEF DeviceTypeOK
    <2>6. OwnerInv' BY <1>1, <2>1, <2>2, <2>3, <2>4 DEF OwnerInv, DeviceTypeOK
    <2> QED BY <1>2, <2>5, <2>6
  <1>5. CASE CheckIMEI(q)
    <2>1. PICK to \in {"save", "failed"} : dpc[q] = "imei" /\ dpc' = [dpc EXCEPT ![q] = to]
      BY <1>5 DEF CheckIMEI
    <2>2. dcall' = dcall BY <1>5 DEF CheckIMEI
    <2>3. DeviceTypeOK' BY <1>1, <2>1, <2>2 DEF DeviceTypeOK
    <2>4. OwnerInv' BY <1>1, <2>1, <2>2 DEF OwnerInv, DeviceTypeOK
    <2> QED BY <1>2, <2>3, <2>4
  <1>6. ASSUME NEW s \in Request, NEW i \in IMEI, StartRegister(q, s, i)
        PROVE  DeviceTypeOK' /\ OwnerInv'
    <2> DEFINE c == [op |-> "register", subscriber |-> s, imei |-> i]
    <2>1. dpc' = [dpc EXCEPT ![q] = "active"] /\ dcall' = [dcall EXCEPT ![q] = c]
      BY <1>6 DEF StartRegister
    <2>2. c \in Registering BY DEF Registering
    <2> HIDE DEF c
    <2>3. DeviceTypeOK' BY <1>1, <2>1, <2>2 DEF DeviceTypeOK, Registering
    <2>4. OwnerInv' BY <1>1, <2>1, <2>2 DEF OwnerInv, DeviceTypeOK
    <2> QED BY <2>3, <2>4
  <1> QED BY <1>2, <1>3, <1>4, <1>5, <1>6

LEMMA SaveDeviceInv ==
    ASSUME RegistryInv, DeviceInv, NEW q \in Registration, SaveDevice(q)
    PROVE  DeviceInv'
  <1> USE DEF DeviceInv
  <1>1. /\ dpc[q] = "save"
        /\ dpc' = [dpc EXCEPT ![q] = "ok"]
        /\ ~ IMEITaken(dcall[q].imei)
        /\ dcall[q].subscriber \in Stored
        /\ device' = [device EXCEPT ![q] = NewDevice(q)]
        /\ UNCHANGED <<subscriber, dcall, wasActive, granted>>
    BY DEF SaveDevice, DGoto, registryVars
  <1>2. dcall[q] \in Registering /\ dcall[q].subscriber \in wasActive
    BY <1>1 DEF OwnerInv
  <1>3. /\ NewDevice(q) \in Device
        /\ NewDevice(q).imei = dcall[q].imei
        /\ NewDevice(q).subscriber = dcall[q].subscriber
    BY <1>2 DEF NewDevice, Device, Registering
  <1>4. device'[q] = NewDevice(q) /\ \A d \in Registration \ {q} : device'[d] = device[d]
    BY <1>1 DEF DeviceTypeOK
  <1>5. DeviceTypeOK' BY <1>1, <1>3 DEF DeviceTypeOK
  <1>6. OwnerInv' BY <1>1 DEF OwnerInv, DeviceTypeOK
  <1>7. \A d \in Registered' : d # q => d \in Registered /\ device'[d] = device[d]
    BY <1>4 DEF Registered
  <1>8. \A d \in Registered : device[d].imei # dcall[q].imei
    BY <1>1 DEF IMEITaken
  <1>9. UniqueIMEI'
    BY <1>3, <1>4, <1>7, <1>8 DEF UniqueIMEI
  <1>10. OwnerWasActive'
    <2>1. Stored' = Stored BY <1>1, SameSubscribers
    <2> QED BY <1>1, <1>2, <1>3, <1>4, <1>7, <2>1 DEF OwnerWasActive
  <1> QED BY <1>5, <1>6, <1>9, <1>10

LEMMA AdmitInv ==
    ASSUME RegistryInv, DeviceInv, NEW d \in Registration, AdmitAttach(d)
    PROVE  DeviceInv'
  <1> USE DEF DeviceInv
  <1>1. /\ d \in Registered
        /\ granted' = granted \cup {subscriber[device[d].subscriber].status}
        /\ UNCHANGED <<subscriber, device, dpc, dcall, wasActive>>
    BY DEF AdmitAttach, registryVars
  <1>2. device[d].subscriber \in Stored BY <1>1 DEF OwnerWasActive
  <1>3. subscriber[device[d].subscriber].status \in Status
    BY <1>2, StoredRow DEF Stored, RegistryInv
  <1>4. DeviceTypeOK' BY <1>1, <1>3 DEF DeviceTypeOK
  <1>5. OwnerInv' /\ UniqueIMEI' /\ OwnerWasActive'
    BY <1>1 DEF OwnerInv, UniqueIMEI, OwnerWasActive, Registered, Stored
  <1> QED BY <1>4, <1>5

LEMMA DeviceInvariant == Spec => []DeviceInv
  <1>1. RegistryInv /\ DeviceInv /\ [Next]_vars => DeviceInv'
    <2> SUFFICES ASSUME RegistryInv, DeviceInv, [Next]_vars PROVE DeviceInv'
      OBVIOUS
    <2>1. CASE SubscriberStep BY <2>1, SubscriberStepInv
    <2>2. ASSUME NEW q \in Registration, Register(q) \/ AdmitAttach(q)
          PROVE  DeviceInv'
      BY <2>2, QuietRegistration, SaveDeviceInv, AdmitInv DEF Register
    <2>3. CASE UNCHANGED vars
      BY <2>3 DEF vars, registryVars, deviceVars, DeviceInv, DeviceTypeOK, OwnerInv,
                  UniqueIMEI, OwnerWasActive, Registered, Stored
    <2> QED BY <2>1, <2>2, <2>3 DEF Next
  <1> QED BY <1>1, DeviceInitInv, RegistryInvariant, PTL DEF Spec

\* No two devices share an IMEI, for any number of concurrent registrations.
THEOREM IMEIsUnique == Spec => []UniqueIMEI
  <1>1. DeviceInv => UniqueIMEI BY DEF DeviceInv
  <1> QED BY <1>1, DeviceInvariant, PTL

\* The subscriber of a device exists and was ACTIVE when the registration asked,
\* whatever became of it before the save.
THEOREM OwnersWereActive == Spec => []OwnerWasActive
  <1>1. DeviceInv => OwnerWasActive BY DEF DeviceInv
  <1> QED BY <1>1, DeviceInvariant, PTL

\* The types of the devices and of the registrations.
THEOREM DeviceTypes == Spec => []DeviceTypeOK
  <1>1. DeviceInv => DeviceTypeOK BY DEF DeviceInv
  <1> QED BY <1>1, DeviceInvariant, PTL

-----------------------------------------------------------------------------
(* What is left of the promise that an attach checks its subscriber.       *)

\* A subscriber that was ACTIVE is never PENDING_ACTIVATION again.
GrantedInv ==
    /\ \A s \in wasActive : s \in Stored /\ subscriber[s].status # "PENDING_ACTIVATION"
    /\ "PENDING_ACTIVATION" \notin granted

AttachAfterActivation == granted \subseteq {"ACTIVE", "SUSPENDED", "DEACTIVATED"}

LEMMA GrantedStep ==
    ASSUME RegistryInv, DeviceInv, GrantedInv, [Next]_vars
    PROVE  GrantedInv'
<1>1. CASE SubscriberStep
  <2>0. /\ wasActive' = wasActive \cup {s \in Request : subscriber'[s].status = "ACTIVE"}
        /\ granted' = granted /\ wasActive \subseteq Request
    BY <1>1 DEF SubscriberStep, DeviceInv, DeviceTypeOK
  <2>1. \A s \in Request : subscriber'[s].status = "ACTIVE" => s \in Stored'
    BY DEF Stored, NoSubscriber
  <2>2. ASSUME NEW s \in wasActive
        PROVE  s \in Stored' /\ subscriber'[s].status # "PENDING_ACTIVATION"
    <3>1. s \in Request /\ s \in Stored /\ subscriber[s].status # "PENDING_ACTIVATION"
      BY <2>0 DEF GrantedInv
    <3>2. CASE subscriber'[s] = subscriber[s]
      BY <3>1, <3>2 DEF Stored
    <3>3. ASSUME NEW r \in Request, Save(r)
          PROVE  subscriber'[s] = subscriber[s]
      BY <3>1, <3>3, SaveEffect DEF Save, NewRow, Goto
    <3>4. ASSUME NEW r \in Request, Update(r)
          PROVE  s \in Stored' /\ subscriber'[s].status # "PENDING_ACTIVATION"
      BY <3>1, <3>4, UpdateEffect
    <3>5. ASSUME NEW r \in Request, Step(r), ~ Save(r), ~ Update(r)
          PROVE  subscriber' = subscriber
      BY <3>5 DEF Step, Refuse, StartProvision, CheckUnique, StoreFails, Decide
    <3>. QED
      BY <1>1, <3>2, <3>3, <3>4, <3>5 DEF SubscriberStep, RegistryNext
  <2>. QED
    BY <2>0, <2>1, <2>2 DEF GrantedInv
<1>2. ASSUME NEW d \in Registration, AdmitAttach(d)
      PROVE  GrantedInv'
  <2>1. subscriber[device[d].subscriber].status # "PENDING_ACTIVATION"
    BY <1>2 DEF AdmitAttach, DeviceInv, OwnerWasActive, GrantedInv
  <2>. QED
    BY <1>2, <2>1 DEF AdmitAttach, GrantedInv, registryVars, Stored
<1>3. ASSUME NEW q \in Registration, Register(q)
      PROVE  GrantedInv'
  BY <1>3 DEF Register, RefuseDevice, StartRegister, CheckSubscriberActive, CheckIMEI, SaveDevice,
              SaveDeviceFails, GrantedInv, registryVars, Stored
<1>4. CASE UNCHANGED vars
  BY <1>4 DEF vars, registryVars, deviceVars, GrantedInv, Stored
<1>. QED
  BY <1>1, <1>2, <1>3, <1>4 DEF Next

\* What is left of "valida assinante ativo" for attaches: the subscriber of the
\* device may be suspended or deactivated by then, but it has been activated.
THEOREM AttachesFollowActivation == Spec => []AttachAfterActivation
<1>1. Init => GrantedInv
  BY DEF Init, GrantedInv
<1>2. RegistryInv /\ DeviceInv /\ GrantedInv /\ [Next]_vars => GrantedInv'
  BY GrantedStep
<1>3. DeviceInv /\ GrantedInv => AttachAfterActivation
  BY DEF DeviceInv, DeviceTypeOK, Status, GrantedInv, AttachAfterActivation
<1>. QED
  BY <1>1, <1>2, <1>3, RegistryInvariant, DeviceInvariant, PTL DEF Spec
=============================================================================
