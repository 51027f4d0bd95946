---------------------------- MODULE DeviceRegistry ----------------------------
(***************************************************************************)
(* The devices, internal/device, beside the subscribers they belong to: a  *)
(* registration asks whether the subscriber is active, then whether the    *)
(* IMEI is free, then saves, and the subscriber may change in between.     *)
(* The answer an attach gets from deviceCheckerAdapter (cmd/api/main.go)   *)
(* is here too.                                                            *)
(*                                                                         *)
(* A device has the name of the request that registers it.  Its status     *)
(* never changes once it is REGISTERED, so it is left out.                 *)
(***************************************************************************)
EXTENDS SubscriberRegistry

CONSTANTS Registration, IMEI

VARIABLES
    device,     \* the devices table, by id
    dpc,        \* where a registration is in its handler
    dcall,      \* what it asks for
    wasActive,  \* history: the subscribers ever ACTIVE
    granted     \* history: the status of the subscriber when an attach was let in

deviceVars == <<device, dpc, dcall, wasActive, granted>>
vars == <<registryVars, deviceVars>>

Device == [subscriber : Request, imei : IMEI]

NoDevice == [imei |-> "none"]

Registered == {d \in Registration : device[d] # NoDevice}

Init ==
    /\ RegistryInit
    /\ device = [d \in Registration |-> NoDevice]
    /\ dpc = [q \in Registration |-> "idle"]
    /\ dcall = [q \in Registration |-> [op |-> "none"]]
    /\ wasActive = {}
    /\ granted = {}

DGoto(q, from, to) == dpc[q] = from /\ dpc' = [dpc EXCEPT ![q] = to]

-----------------------------------------------------------------------------
\* device.New; bad input is refused.
RefuseDevice(q) ==
    /\ DGoto(q, "idle", "failed")
    /\ UNCHANGED <<registryVars, device, dcall, wasActive, granted>>

StartRegister(q, s, i) ==
    /\ DGoto(q, "idle", "active")
    /\ dcall' = [dcall EXCEPT ![q] = [op |-> "register", subscriber |-> s, imei |-> i]]
    /\ UNCHANGED <<registryVars, device, wasActive, granted>>

\* Mutant: any subscriber that exists will do.
CheckExists(q) ==
    /\ \/ DGoto(q, "active", "failed")
       \/ DGoto(q, "active", "imei") /\ dcall[q].subscriber \in Stored
    /\ UNCHANGED <<registryVars, device, dcall, wasActive, granted>>

\* The read fails, finds no subscriber or one that is not active; or an active one.
CheckSubscriberActive(q) ==
    /\ \/ DGoto(q, "active", "failed")
       \/ DGoto(q, "active", "imei") /\ subscriber[dcall[q].subscriber].status = "ACTIVE"
    /\ UNCHANGED <<registryVars, device, dcall, wasActive, granted>>

IMEITaken(i) == \E d \in Registered : device[d].imei = i

\* FindByIMEI: only a device that is found stops the registration, an error
\* of the read does not.
CheckIMEI(q) ==
    /\ \/ DGoto(q, "imei", "failed") /\ IMEITaken(dcall[q].imei)
       \/ DGoto(q, "imei", "save")
    /\ UNCHANGED <<registryVars, device, dcall, wasActive, granted>>

\* Mutant: the two ids are swapped.
NewDeviceSwapped(q) == [subscriber |-> dcall[q].imei, imei |-> dcall[q].subscriber]

NewDevice(q) == [subscriber |-> dcall[q].subscriber, imei |-> dcall[q].imei]

\* Mutant: Save without the unique index.
SaveDeviceUnchecked(q) ==
    /\ DGoto(q, "save", "ok")
    /\ device' = [device EXCEPT ![q] = NewDevice(q)]
    /\ UNCHANGED <<registryVars, dcall, wasActive, granted>>

SaveDevice(q) ==
    /\ DGoto(q, "save", "ok")
    /\ ~ IMEITaken(dcall[q].imei)
    /\ dcall[q].subscriber \in Stored
    /\ device' = [device EXCEPT ![q] = NewDevice(q)]
    /\ UNCHANGED <<registryVars, dcall, wasActive, granted>>

\* ErrDuplicateIMEI, or an error of the store.
SaveDeviceFails(q) ==
    /\ DGoto(q, "save", "failed")
    /\ UNCHANGED <<registryVars, device, dcall, wasActive, granted>>

-----------------------------------------------------------------------------
\* CheckDeviceAttachable: the device is found, and it is always REGISTERED.
AdmitAttach(d) ==
    /\ d \in Registered
    /\ granted' = granted \cup {subscriber[device[d].subscriber].status}
    /\ UNCHANGED <<registryVars, device, dpc, dcall, wasActive>>

-----------------------------------------------------------------------------
Register(q) ==
    \/ RefuseDevice(q)
    \/ \E s \in Request, i \in IMEI : StartRegister(q, s, i)
    \/ CheckSubscriberActive(q)
    \/ CheckIMEI(q)
    \/ SaveDevice(q)
    \/ SaveDeviceFails(q)

\* A step of a subscriber's request; the subscribers it makes active are noted.
SubscriberStep ==
    /\ RegistryNext
    /\ wasActive' = wasActive \cup {s \in Request : subscriber'[s].status = "ACTIVE"}
    /\ UNCHANGED <<device, dpc, dcall, granted>>

Next ==
    \/ SubscriberStep
    \/ \E q \in Registration : Register(q) \/ AdmitAttach(q)

Spec == Init /\ [][Next]_vars

-----------------------------------------------------------------------------
\* The types of the device registry's state.
DeviceTypeOK ==
    /\ device \in [Registration -> Device \cup {NoDevice}]
    /\ dpc \in [Registration -> {"idle", "active", "imei", "save", "ok", "failed"}]
    /\ dcall \in [Registration -> [op : {"register"}, subscriber : Request, imei : IMEI]
                                    \cup {[op |-> "none"]}]
    /\ wasActive \subseteq Request
    /\ granted \subseteq Status

\* No two devices share an IMEI, although the service's own look-up comes
\* before the save and lets an error of the read pass (service.go:42-48).
UniqueIMEI ==
    \A d, e \in Registered : device[d].imei = device[e].imei => d = e

\* What is left of "only for an active subscriber" when the check and the save
\* are apart: the subscriber of a device exists and has been ACTIVE.
OwnerWasActive ==
    \A d \in Registered : device[d].subscriber \in Stored \cap wasActive

\* "ATTACH: ... Valida assinante ativo": no attach is let in for a device whose
\* subscriber is not ACTIVE.
AttachNeedsActive == granted \subseteq {"ACTIVE"}
=============================================================================
