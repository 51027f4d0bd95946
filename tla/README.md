# NEXUS Core Lab: a formal model

TLA+ models of the Go service in `src/` (a modular monolith that simulates the
core of a mobile network), TLC runs that check them on small instances, and
TLAPS proofs of the most important properties for instances of every size.
Line numbers refer to the files under `src/`.

## 1. The system

One process (`cmd/api`) serves an HTTP API. Each request runs in a goroutine
of its own, straight through handler, service and repository. State lives in
two places: the repositories (in memory, or PostgreSQL when `DATABASE_URL` is
set) and a few shared objects of the process (the address pool, the device
mutexes, the telemetry channel).

| Component | State it keeps | Operations |
|---|---|---|
| Address pool, `network/ippool.go` | `nextHost`, `allocated`, `recycled` under one mutex | `Allocate`, `Release`, `MarkAllocated` |
| Cell catalogue, `network/cell.go` | a constant map of three cells | look-ups |
| Session service, `session/service.go`, `session.go` | one mutex per device, made on demand | `Attach`, `Handover`, `Detach`, two reads |
| Session repositories | the sessions; in memory also `activeByDevice` | `AttachSession`, `Update`, `FindByID`, `FindActiveByDevice`, `ActiveCount`, `Save` |
| Subscriber registry, `subscriber/` | the subscribers with unique IMSI and MSISDN | `Provision`, `Activate`, `Suspend`, `Deactivate`, reads |
| Device registry, `device/` | the devices with unique IMEI | `Register`, reads |
| Telemetry worker, `telemetry/worker.go` | a buffered channel, an RWMutex, `closed`, two `sync.Once` | `Emit`, `Start`, `Shutdown`, the loop |
| Telemetry metrics and endpoint | atomic counters | `Snapshot` |
| HTTP handlers, server, middleware | a request counter | decode, call the service, map the error |
| API process, `cmd/api/main.go` | the wiring of all of these | adapters, warm-up, start, graceful shutdown |
| PostgreSQL access, `platform/postgres`, `migrations/` | the schema and its unique indexes | `Open`, `ValidateSchema` |
| Migration tool, `cmd/migrate` | the table `schema_migrations` | `runUp`, `runDown` |
| Load simulator, `cmd/simulator` | results of virtual devices | a client of the API |

How they interact:

- `Attach` calls the cell catalogue, the device checker (an adapter over the
  device service), the pool, `AttachSession`, the pool again for the address of a
  replaced session, and the telemetry adapter, the last four under the mutex of
  the device.
- `Handover` and `Detach` read the session once to learn its device, lock the
  device, and read it again before they decide.
- `Register` of a device asks the subscriber service whether the subscriber is
  active, through an adapter.
- The telemetry adapter calls `Worker.Emit`, which never blocks; `main` calls
  `Shutdown` after the HTTP server has stopped or given up.
- On PostgreSQL, `main` rebuilds the pool from the CONNECTED rows before it
  listens.

What is hard here, and what correctness means for each part:

- *Session service*: concurrent operations on one device, and operations on other
  devices between its steps; a write that fails, or that took effect and still
  returns an error; a crash between any two steps. A device has at most one
  active session, an address at most one owner, no address is lost, a closed
  session stays closed, and the events tell what happened.
- *Pool*: reuse in last-in first-out order, reservations out of order, the end of
  the block and the boundary between octets. No address is given out twice.
- *Registries*: every request reads, decides and writes in separate repository
  calls without a lock. Identities are unique, the life cycle of a subscriber
  follows its state machine, a device belongs to a subscriber that was active.
- *Telemetry worker*: `Emit` against `Shutdown`. No send on a closed channel, no
  accepted event lost, no caller blocked.
- *API process*: calls in hand when the process is told to stop, one deadline for two
  shutdowns, handlers that hang. A stop that reports no error has cut no call and lost
  no event, and every stop ends.
- *Migration tool*: several tools at once, each stopped anywhere; what is pending or
  latest is read outside the transaction that uses it. The version table never claims
  a table that is missing.
- *Load simulator*: timeouts while the server goes on, results collected from many
  goroutines. The report agrees with what the API holds.

## 2. The modules

| Module | Models | Main correspondence |
|---|---|---|
| `AddressPool` | abstract: what the plan promises of a pool | `fresh`, `returned`, `used`; `Take`, `GiveBack`, `Reserve` |
| `IPPool` | `network/ippool.go` | one action per method (each runs under the pool's mutex), one disjunct per outcome |
| `Connectivity` | abstract: what the service promises a client | a device has a link or none; `Connect`, `Move`, `Disconnect` are atomic |
| `SessionService` | `session/service.go` with its table, pool, events and the warm-up | see below |
| `MCSessionService` | | symmetry, the refinement mapping to `Connectivity`, what a write of unknown outcome may cost, the reader of events |
| `MemorySessions` | `session/memory_repository.go` under the same service | the second map, and the three writes that touch it |
| `EventSink` | abstract: what the worker promises of each event | accepted and counted, dropped, or refused |
| `TelemetryWorker` | `telemetry/worker.go` | one action per blocking point or shared access |
| `SubscriberRegistry` | `subscriber/service.go`, `subscriber.go`, the repositories | one action per repository call |
| `DeviceRegistry` | `device/service.go` and the two checker adapters of `main.go`, on top of `SubscriberRegistry` | one action per repository call |
| `MCDeviceRegistry` | | symmetry |
| `Migrations` | `cmd/migrate/main.go`, `ValidateSchema`, the database between them | one action per SQL statement |
| `ApiProcess` | `main()` of `cmd/api/main.go` while it serves and stops, over `EventSink` | handlers by their calls, `main` by its waits |
| `Simulator` | `cmd/simulator`, composed with `ApiProcess` | a goroutine per device, and `Run` |
| `*Proofs` | | the theorems of section 5 |

How they are composed: `SessionService` extends `IPPool`; `MemorySessions` and
`MCSessionService` extend `SessionService`; `DeviceRegistry` extends
`SubscriberRegistry`; `ApiProcess` uses the telemetry worker through `EventSink`, which
`TelemetryWorker` is proved to implement; `Simulator` extends `ApiProcess`.

**IPPool.** An address is the pair of its last two octets, computed from the
host number as `hostToIPv4String` does, bytes included. `DropFirst` removes one
copy from `recycled`, as the loop with `break` does, so that the absence of
duplicates is a result and not an assumption.

**SessionService.** `pc[r]` is the place of request `r` in its handler: `wait`
for the mutex, `locked`, and then `store`, `undo`, `free`, `report_stale`,
`report`, up to `ok` or `failed`. `copy[r]` is the `*Session` the handler works
on, `stale[r]` the session an attach replaced. Every pool call, repository call
and emitted event is one action, because other requests run in between; code that touches
only local variables goes with the step before it. `Return` stands for a return
with the deferred unlock. The first `FindByID` happens before the lock (`Find`)
and the second (`Reread`) with the decision after it, in one step: nothing else
can change the row while the mutex is held, which is itself a consequence that is
checked and proved. A session is named by the attach that creates it, since a
UUID v4 is not drawn twice. `AttachSession` is one step: a transaction in
PostgreSQL, one critical section in memory. `AddressTaken` is the partial unique
index of migration 3; without ambiguous writes it never matters, so the model also
stands for the in-memory repository. The other partial index, one CONNECTED row per
device, is left out: the service must not need it.

A write may fail with no effect. With `AmbiguousWrites` it may also take effect and
return an error, as a `COMMIT` whose answer is lost. `Restart` drops everything
the process holds and rebuilds the pool with `WarmUpIPPool`; requests in
flight fail. It models the PostgreSQL backend; in memory a restart begins an empty
system again. Start-up has no other state, so warm-up and start are one step: the
server does not listen before it is done.

**MemorySessions.** The in-memory repository has a second map, `activeByDevice`, and
neither an index on addresses nor a transaction. Each of its methods runs under one mutex, so
`MemoryAttachSession` and `MemoryUpdate` (with `SyncEntry`) are single steps. Its writes
cannot fail here, and a restart is a new `Init`. `ImplementsTable` is
`SessionService`'s own `Spec`.

**TelemetryWorker.** `writer` and `Readers` are the RWMutex: a writer announces
itself, new readers wait, and it enters when the last reader has left. `Emit`
reads `closed` and sends in two steps. Events are named by the `Emit` that carries
them; one count per event replaces the counters by type. The context of a
`Shutdown` may end at any time (`StopTimeout`). Seen through `EventFate` and
`SinkState` it is `EventSink`: an event is dropped only when others wait, and refused
only once the worker is closed.

**SubscriberRegistry and DeviceRegistry.** `Decide` is `FindByID` with the entity's
method on the copy; `Update` writes the decided status over whatever the row has by
then. A check may fail with an error at any time; `CheckIMEI` goes on after an
error, as `device/service.go:42` does. `terminated`, `wasActive` and `granted`
are history variables used by properties only. A device keeps the status
REGISTERED for ever, since no code sets another, so the status is left out.

**Migrations.** Version `v` creates one table that refers to those of the versions before
it; what else a file does is left out. A run of the tool is a list of SQL statements, so each is an
action, at PostgreSQL's READ COMMITTED: a statement sees what is committed, and cannot be
taken while another transaction holds the table or the row it needs (`OthersBuild`,
`OthersWrite`). `Fail` stands for every error, a broken deadlock, the 30 s context and a kill;
`Commit` may take effect and lose its answer. `ValidateSchema` and `WarmUp` are the start-up of one
API beside the tools.

**ApiProcess and Simulator.** `handler[c]` is where a client's call is, `held[c]`
how much of the client's flow the store has carried out. A call is `sent` until the
server reads it, which may be after its client has left, `running` until the
service has stored its change, `stored` until it has notified the worker, then `ok` or
`error` until the answer is written. `Reject` may have stored the change and lost the
answer. `main` waits in `server.Shutdown` (`draining`) until no call is in hand or the
context has `expired`, closes the worker, and waits for it with the same context
(`closing`). A connection made before `server.Shutdown` may still bring its first call after it.
The simulator's `Unanswered` is any call that ends without an answer: the 10 s of the
client, the signal that ends the run's context, a connection refused or cut. The API
goes on with such a call, and `Discard` is its answer that nobody reads. The
subscriber, device and session calls themselves are the other modules' subject; here they
are steps of a flow. The telemetry query after `wg.Wait` changes nothing but the last
part of the report and is part of `Wait`.

Definitions called a mutant in their comment are wrong on purpose; nothing in the
specification uses them. They name a plausible bug each, and a property is worth
keeping only if TLC sees it violated when the mutant takes the place of the
definition that follows it.

## 3. Runs

All bounds are in the `.cfg` files. Requests, emits, registrations and runs of a tool
are made at most once each, so a behaviour ends when all are served; the runs of these
modules switch the deadlock check off for that reason. The pool's run leaves it on.

| Run | Checks | Instance | States |
|---|---|---|---|
| `pool` | types, `NoDoubleBooking`, `ImplementsAddressPool`, with reservations at any time (the program makes them at start only) | hosts 254 to 258: five addresses on both sides of the octet boundary, and a host outside | 872 |
| `sessions` | types, mutual exclusion, one active session, exclusive addresses, no leak, events, finality, refinement of `Connectivity` | 4 requests, 2 devices, 2 cells, 3 addresses, 1 crash | 211 thousand |
| `sessions_ambiguous` | what survives writes of unknown outcome, what they cost (`LeakNeedsFailure`: an address each, at most), every request is answered | 3 requests, 2 devices, 2 cells, 2 addresses, 1 crash | 438 thousand |
| `sessions_memory` | `IndexIsExact`, `NoAddressLost`, `ImplementsTable` | 4 requests, 2 devices, 2 cells, 3 addresses | 40 thousand |
| `telemetry` | no panic, exact counting, drain, no blocked caller, refinement of `EventSink` | 4 emits, 2 shutdowns, a channel of 2 | 114 thousand |
| `registry` | unique identities, legal transitions, owners | 4 subscriber requests, 2 registrations, 1 IMSI, 2 MSISDNs, 1 IMEI | 55 thousand |
| `migrations` | ledger and schema, what an `-up` that ends well means, what `ValidateSchema` means | 3 runs of the tool, 3 versions, 1 API | 41 thousand |
| `simulator` | the report, the quiet stop, and that both end | 2 devices, a flow of 4 calls of which 2 notify | 620 thousand |
| `sessions_warmup_loss` | `ExhaustedOnlyWhenFull` is **violated** | 3 requests, 2 addresses, 1 crash | |
| `sessions_lost_attach` | `ConnectedIsAllocated` is **violated** | 2 requests, 2 addresses | |
| `registry_resurrected` | `DeactivatedIsFinal` is **violated** | 3 requests on one subscriber | |
| `registry_attach` | `AttachNeedsActive` is **violated** | 3 requests, 1 registration | |

Why these bounds are enough to be interesting. Two devices and four requests allow
a replacement, a handover and a detach of one device to overlap with an attach of
another that takes the released address, before or after a crash. Three addresses for
four attaches bring the pool to reuse; two in `sessions_ambiguous` bring it to
exhaustion and put a warm-up at the end of the block. Two shutdowns meet in `stopOnce`,
and four emits overflow a channel of two and still leave one to arrive late. Two
provisionings, and two changes of one subscriber, are what a lost update needs; the
fourth request lets a provisioning race with them. Three tools are what a stale
`-down` takes (below); three versions are what the code has. The simulator's flow has six calls, of which the
last three notify; the run shortens it to four, of which the last two notify, so that
its liveness check stays within minutes. The flow's length enters the code only as the end
of the list, two silent calls and two notifying ones leave one of each kind in the
middle, and the theorems of section 5 cover every length.

**Symmetry** is used in safety runs only, over sets no formula tells
apart. Requests name sessions and subscribers, so one permutation moves both.

**Fairness.** `FairSpec` of `SessionService` is weak fairness of each request's
steps after it arrives: the Go scheduler runs a goroutine that can run, a call of
the repository returns (handlers that hang are in `Simulator` only), and a mutex acquired
here is never contended for ever because the requests are finite. Nothing obliges a client
to send or the process to crash. The worker's `FairSpec` is weak
fairness of each `Emit`, each `Shutdown` and the loop; a context need not
end, so `ShutdownReturns` does not rest on a timeout, and `main` starts the worker
first (`main.go:136`). The `FairSpec` of `Simulator` is weak fairness of the
simulator's goroutines and of `main`, and of the 5 s timer; the 10 s of the client
are the fairness of `Unanswered`. Handlers and the telemetry worker have none: they may hang
for ever, and `StopAndRunEnd` holds all the same.

## 4. What the violations show

- `registry_resurrected`: `Activate`, `Suspend` and `Deactivate` read a copy and
  write it back with no lock and no condition. A request that read the subscriber
  before it was deactivated stores ACTIVE over DEACTIVATED, which the plan
  calls irreversible. `LegalTransitions` shows that no other illegal edge is taken, and
  that this takes a write decided before the deactivation: once none but other
  deactivations is pending (`Settled`), the status is final.
- `registry_attach`: the plan has an attach validate that the subscriber is
  active; the code looks at the device only. `AttachesFollowActivation` proves what is
  left of it: the subscriber has been activated, and may be suspended or deactivated by then.
- `sessions_warmup_loss`: `MarkAllocated` moves `nextHost` past the host it reserves
  and nobody can get the hosts in between until the next restart. It takes a restart:
  `EarlyExhaustionNeedsRestart` proves the property of a process until its first one.
- `sessions_lost_attach`: when `AttachSession` returns an error its transaction may
  have committed; the compensation then releases an address in use
  (`ConnectedStaysAllocated` proves that without such an answer this cannot happen). The
  unique index catches the double use, at the price of failed attaches, which is
  what `ImplementsConnectivity` in `sessions_ambiguous` rests on.

Four more disagreements the models contain, without a run of their own:

- A device can be registered for a subscriber that stopped being active between the
  check and the save (`device/service.go:37-46`), against the plan's milestone 2;
  `OwnerWasActive` is the weaker fact that holds.
- An MSISDN of a plus sign and 15 digits passes the pattern
  (`subscriber/subscriber.go:33`) and does not fit in `VARCHAR(15)`: a store failure.
- A detach that was stored and answered with an error keeps its address until a
  restart, and so does the session replaced by such an attach. `LeakNeedsFailure` shows that
  nothing else loses one, and that each such write loses one at most.
- `runDown` reads the highest version outside its transaction. When two other runs undo
  and apply that version again in between, its `DROP TABLE IF EXISTS` may come before the other's
  commit and its `DELETE` after it: a table without its row, on which a later `-up` fails.
  `DriftNeedsStaleDown` shows that this is the only way, and it takes three runs of the
  tool.

## 5. Proofs

| Theorems | Statements |
|---|---|
| `IPPoolProofs!PoolNeverDoubleBooks`, `PoolTypes`, `PoolImplementsAddressPool` | `PoolSpec =>` `[](PoolTypeOK /\ NoDoubleBooking)`, `[]PoolTypeOK`, `ImplementsAddressPool` |
| `IPPoolProofs!FreshPoolLosesNone` | `FreshPoolSpec => []NoAddressLost` |
| `SessionServiceProofs!TypesHold`, `MutualExclusion`, `AtMostOneActive`, `AddressesOwnedOnce`, `PoolMatchesOwners`, `ServicePoolNeverDoubleBooks`, `ClosedStaysClosed` | `Spec =>` `[]TypeOK`, `[]DeviceExclusive`, `[]OneActivePerDevice`, `[]AddressesExclusive`, `[]AllocatedIsOwned`, `[]NoDoubleBooking`, `DisconnectIsFinal` |
| `SessionServiceProofs!ConnectedStaysAllocated`, `EarlyExhaustionNeedsRestart` | `Spec =>` `[]ConnectedIsAllocated`, `[](restarts = 0 => ExhaustedOnlyWhenFull)` |
| `MCSessionServiceProofs!ServiceImplementsConnectivity`, `LeaksNeedFailure`, `EventsReplay` | `Spec =>` `ImplementsConnectivity`, `[]LeakNeedsFailure`, `[]EventsReplayToTable` |
| `MemorySessionsProofs!IndexStaysExact`, `MemoryImplementsTable`, `MemoryLosesNoAddress`, `MemorySessionsSafe` | `MemorySpec =>` `[]IndexIsExact`, `ImplementsTable`, `[]NoAddressLost`, and the safety of the service with `DisconnectIsFinal` |
| `TelemetryWorkerProofs!WorkerTypes`, `WorkerNeverPanics`, `EventsSentOnce`, `ShutdownDrains`, `WorkerImplementsEventSink` | `Spec =>` `[]TypeOK`, `[]NoPanic`, `[]SentOnce`, `[]DrainedWhenDone`, `ImplementsEventSink` |
| `DeviceRegistryProofs!RegistryTypes`, `IdentitiesUnique`, `TransitionsLegal`, `DeviceTypes`, `IMEIsUnique`, `OwnersWereActive` | `Spec =>` `[]RegistryTypeOK`, `[]UniqueIdentities`, `LegalTransitions`, `[]DeviceTypeOK`, `[]UniqueIMEI`, `[]OwnerWasActive` |
| `DeviceRegistryProofs!AttachesFollowActivation` | `Spec => []AttachAfterActivation` |
| `MigrationsProofs!MigrationsTypeOK`, `LedgerIsBacked`, `SchemaCheckSuffices`, `OnlyAStaleDownDrifts`, `UpAppliesAll` | `Spec =>` `[]TypeOK`, `[]RecordedAreBuilt`, `BootsOnCompleteSchema`, `[]DriftNeedsStaleDown`, `[]UpMeansApplied` |
| `SimulatorProofs!SimulatorTypes`, `ReportIsTrue`, `QuietStop` | `Spec =>` `[]TypeOK`, `[]ReportAgreesWithApi`, `[]QuietStopLosesNothing` |

Assumptions. The constants' own: a block of hosts within two octets
(`HostRange`), model values that are not members of the sets they stand beside
(`ServiceAssumption`, `WorkerAssumption`), a channel of at least one place, at least one
version (`LatestAssumption`), a flow of at least one call (`FlowAssumption`). Sets of
requests, devices, addresses and tools, and the number of restarts, are arbitrary.

Writes of unknown outcome are allowed in every theorem about the session service but
three: `AddressesOwnedOnce`, `PoolMatchesOwners` and `ConnectedStaysAllocated` assume
`~ AmbiguousWrites`, and `sessions_lost_attach` is the counterexample without it.
`EventsReplayToTable` has the condition in itself, with the one that no crash has dropped the
events: a write that took effect and returned an error is not reported. The theorems of
`MemorySessionsProofs` assume it too, since a write of the in-memory repository has no other
outcome than the one it returns.

Arguments.

- *Pool.* `PoolInv`, types and `NoDoubleBooking`, is inductive. That fresh hosts are
  not recycled needs `HostInjective`, which is where the width of the octets matters.
  The refinement maps the hosts not issued yet to `fresh` and the recycled ones to
  `returned`; the same invariant shows that an allocation takes exactly one of them,
  and that a reservation takes its address out of `recycled` and skips only fresh ones.
- *Sessions.* `OneActivePerDevice` says nothing about the row a handler is about to
  write. `HandlerInv` does: what the local copy has to do with the row, at each place
  of the handler, as long as the mutex is held. `ControlInv` (pool, types, handlers,
  mutual exclusion, one active session) is inductive, and says nothing of who owns an
  address, so that it survives a write that took effect and returned an error:
  one active session and the finality of closed ones do not rest on the pool. `AddressInv` (exclusive
  addresses and exact allocation) is inductive on top of it as long as there is no such write.
  Each action changes the set of owners and the pool in step, so there is one lemma for
  each way the owners change: a new address, a stored attach, a release, a quiet step.
- *Session service against `Connectivity`.* A step writes the table in one of three ways, an
  attach that inserts, a handover or detach that writes its copy back, or not at all,
  whatever it returns (`TableStep`). `HandlerInv` says what the copy is, which makes the
  first a `Connect`, the second a `Move` or a `Disconnect`. That the new session's address is
  not another's, although the pool may have given it out twice, is the unique index.
- *Cost of a failed write.* `LeakInv` is `LeakNeedsFailure` with the closed status of the
  session, which makes a witness permanent: a closed row never changes (`ClosedRowKept`), a failed
  request stays failed (`FailureStays`). `Kept` is what every step shows of the addresses:
  allocated ones keep an owner, but for one at most, lost to the request that was
  about to write. That request was not yet a witness of another address, so the
  injection from lost addresses to failed requests extends.
- *Events.* `EventsReplayToTable` says nothing while a request is in the critical section.
  `ReaderInv` does: `Midway` says where the reader is and where the table, by the place of the
  request inside in its handler, and so which events it still owes. That a log of any length
  replays is an induction: `Replay` is a recursive function, and the induction is over the set of
  lengths it is known for (`NumbersReached`), by well-foundedness of the order on the naturals.
- *In-memory sessions.* The step of the service and the exact index need each other:
  `MemoryInv` joins the invariants of the service with `IndexIsExact`, each step of
  `MemoryNext` is one of `Next` because the index names what the table would find, and the
  index stays exact because of what `HandlerInv` says of the row written. That its
  pool loses nothing follows from `FreshPoolLosesNone`, since without a warm-up nothing
  reserves addresses. `EarlyExhaustionNeedsRestart` uses the same of the service before a restart.
- *Worker.* That an `Emit` past its check meets an open channel rests on who holds
  the RWMutex (`LockInv`); that a finished worker has counted everything rests on
  `NoPanic`, since a later send would be lost (`DoneInv`). The refinement maps an
  event to its fate by where it is: in the channel, in the hand of the loop, counted.
- *Registries.* `PendingInv` says what a request still knows when it writes: a
  provisioning's row does not exist yet, and a suspension never meets a row that is
  PENDING_ACTIVATION. `OwnerInv` keeps the answer of the check true of the past, and
  `GrantedInv` the fact that an activated subscriber is never pending again. That a
  settled deactivation stays is a step property by itself (`SettledStep`).
- *Migrations.* `Stage` says what a run has in hand at each statement, `Held` what its
  open transaction may rely on (the table it creates is nobody's, the one it drops is
  referred to by none), `Apart` what the locks of one transaction keep from another.
  `RecordedAreBuilt` and the drift follow. `Progress` ties the loop of an up to the
  versions it has passed, each of which is recorded or was undone by a down.
- *API and simulator.* `DeviceInv` relates a device, its call and what the store holds for it,
  including the call a client has given up; `StopInv` says that once `server.Shutdown` has
  returned nil no handler is left or starts. The report then follows from `RunInv`:
  every device has left before it is written.

Only model-checked: the liveness properties `EmitSettles`, `ShutdownReturns`,
`EveryRequestAnswered` and `StopAndRunEnd`, because fairness and ENABLED are out of the
prover's reach. Every other property of a run that passes is a theorem.

The proofs depend on the code: with the address of a failed attach not given
back, or the event of a replaced session left out, the step lemmas that use these actions
(`KeptByRelease`, the reader's lemma for that step) are no longer proved.

## 6. Not modelled

Wording of errors and status codes, JSON, timestamps, reasons of subscribers, the
syntax of IMSI, MSISDN and IMEI, logging, HTTP timeouts other than the client's, the
identities the simulator generates, and read-only endpoints. Cancelled request contexts
appear as failing calls. A write that takes effect and returns an error does so before the
handler goes on: a `COMMIT` that PostgreSQL carries out only after the mutex is
released, or after a restart, is left out. So is the `sqlDB.Close` of an exit; `net/http`'s
`Shutdown` is modelled by its documented behaviour. `Save` of the session repositories, which no path of the server
calls, is left out. What remains of the telemetry endpoint, the cell catalogue, the HTTP server and the
opening of the database keeps no state a property could be about; `PROJECT.json` says of
each what is missing.

## 7. Plan

The models the code calls for are there, and so are the theorems for the safety
properties they are checked for. Left to do, in this order:

1. What the composition of the API and the telemetry worker shares, as one theorem: the
   safety properties of `ApiProcess` with `TelemetryWorker` in the place of `EventSink`.
2. What a failed request leaves behind on a pool with no free address
   (`session/service.go:81`): a re-attach needs a free one although it will return one.
3. `ImplementsConnectivity` of the in-memory backend, by composing the two refinements.
