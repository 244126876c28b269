# Verification of the Spaghetti Lab firmware and its protocols

TLA+ models of the control core of this repository, on both sides of the wire:

- the backbone firmware under `src/firmware/backbone` (C, Zephyr), which owns
  hardware modules, runs rules on their records, keeps a configuration in flash
  and replaces its own image;
- the editor under `src/software/micro-flow-editor` (TypeScript), which calls the
  firmware, deploys configurations to one board or to several, and keeps projects
  in the browser's storage.

Paths that begin with `subsys/` or `include/` are relative to
`src/firmware/backbone/`, those that begin with `packages/` to
`src/software/micro-flow-editor/`.

Contents: 1 inventory, 2 plan, 3 modules and code, 4 runs, 5 bounds, 6 fairness,
7 proofs, 8 findings, 9 what is not modelled, 10 how to run.

## 1. Inventory

### 1.1 Components of the core

| Component | Source | State it keeps | Operations |
|---|---|---|---|
| Module Manager | `subsys/module_manager/module_manager.c` | `slots[]` with `used`, `reserved`, `busy`, the request, `read_sequence` | configure, remove, read, command, start_events, stop_events |
| Port | `subsys/port/port.c` | owners and active transport of each Port | acquire, release, bus transfers |
| Runtime | `subsys/runtime/runtime.c` | `runtime_state`, `jobs[]`, rule contexts, `active_operations`, an event queue, two semaphores | configure, start, stop, the worker loop, event emission, post |
| Record delivery | `subsys/data/record_delivery.c` | a ring of records, a cursor per consumer, loss counters, a boot epoch | push, peek, ack, set_consumer_active, init |
| Communication | `subsys/communication/communication.c` | replay cache, mutation slots and queue, job slots and queue | handle_request, two workers, job status, invalidate |
| Config | `subsys/config/config.c` | current configuration, generation, hash | validate, apply, get_snapshot |
| Update | `subsys/services/update/update.c`, `update_mcuboot.c` | one session: state, owner, deadline, timer; the secondary slot | arm, begin, write, finish, cancel, the timeout |
| Update adapters | `subsys/services/maintenance_link/maintenance_mgmt.c`, `subsys/services/ota/ota_ble.c`, `ota.c`, `field_update.c` | what each believes of its own transfer | the image handlers of UART, UDP, BLE and CAN; the UDP window |
| Core | `subsys/core/core.c`, `health.c`, `factory_reset.c` | boot mode, trial state, heartbeats | boot, confirm, factory reset |
| Connectivity | `subsys/connectivity/connectivity.c`, `subsys/services/service_manager.c` | policy, lease, state of each service | set_policy, acquire and release of a lease, transitions |
| Protocol SDK | `packages/protocol-sdk/src/client/spaghetti-client.ts`, `transports/webserial-transport.ts` | pending map, attempt and timers of each call, known boot id, the queue of frames to write | request with retries and abort, handleResponse, handleEvent, dispose; send |
| Deployment | `packages/config-deployment/src/deploy.ts`, transferConfig and getConfig of the SDK, `subsys/communication/operations/config_ops.c` | expected generation, the chunks read so far; the upload slot of the Core | deployConfig; validate, apply, get |
| Distributed deployment | `packages/app/src/lib/distributed-deployment.ts` | per target: what was read, what was written, whether it is uncertain | prepare, apply, commit, rollback |
| Hardware tests | `packages/app/src/lib/recipe-hardware-test.ts`, `display-tool-runtime.ts` | the lock of each Core, what a test parked, the generation it applies with | runRecipeHardwareTest, runDisplayProgram |
| Project store | `packages/project-store/src/project-autosave-store.ts`, `packages/app/src/lib/local-storage-adapter.ts` | the keys `meta` and `rev:<n>` of a project | save, load, history |
| Editor sessions | `packages/core-session` | session state, mirrored configuration | connect, synchronize |

`PROJECT.json` lists all 39 components with their sources and a status.

### 1.2 How they interact

- An **adapter** thread (USB, CAN, BLE) hands a decoded request to Communication.
  Reads execute on the adapter's thread; mutations are queued to one worker while
  the adapter sleeps on a semaphore without a timeout; asynchronous requests get a
  job id at once and are polled.
- A mutation may call **Config**, which under `config_lock` stops **Runtime**,
  removes and configures Modules through the **Module Manager**, loads the plan,
  reconfigures MQTT and connectivity, writes the record to Storage and starts
  Runtime again; any failure starts the rollback.
- **Core** does the same at boot, with the stored record.
- Runtime's worker reads Modules, publishes what they return to **Record
  delivery** and dispatches it to rules, which may command other Modules. Drivers
  emit events from interrupt or driver threads into Runtime's queue.
- The **Module Manager** calls drivers, **Port** and power with its lock released:
  `busy` and `reserved` stand for the lock meanwhile.
- The **update adapters** share one session of Update. MCUboot swaps the images at
  the next boot; Core confirms the new one after a trial, or MCUboot goes back.
- The editor's **SpaghettiClient** sends a request over a serial port, a WebSocket
  or MQTT, and sends it again with the same correlation id when no answer comes;
  the replay cache of Communication answers what already ran. What the two
  together promise is one **remote call**.
- **deployConfig** uploads a configuration in chunks, validates and applies it with
  the generation it knows, and reads back; when the answer is lost it decides from
  what it reads. **prepareRemoteDeployment** does it for several boards and
  restores those already written when one of them refuses.
- A **hardware test** parks the configuration of a Core, gives the Port its pins,
  applies a configuration of its own and puts the parked one back.
- The **project store** keeps every revision of a project under a key of its own
  and one `meta` key that names them; all tabs of the browser share the keys.

### 1.3 What is hard here

- locks released around callbacks, and flags that stand for them (Module Manager);
- hand-shakes over semaphores that are reset, and counters of open work (Runtime);
- modular indices, overflow, several readers of one ring (Record delivery);
- a cache whose lookup and store are separate, slots handed between threads, late
  polls (Communication);
- multi-phase transactions with collected rollback errors and loss of power
  between any two phases (Config);
- one session, four transports, a timer whose handler may already be waiting for
  the lock, erase failures, trial boots (Update);
- answers that come after their call was given up, retries that cross a restart,
  a transport that writes one frame at a time (SpaghettiClient);
- chunks of several editors in one upload slot, a configuration that changes while
  it is read, generations that start again after a restart (ConfigDeployment,
  DistributedDeployment);
- a temporary configuration that must go away again whatever fails (HardwareTest);
- no transaction over several keys, pages closed between any two awaits, several
  tabs (ProjectStore).

### 1.4 What makes each component correct

| Component | Correct when |
|---|---|
| Module Manager | live Modules never collide; one thread per Module; a driver is called only with a live context and outlives its events; whatever fails, nothing leaks and no slot stays marked |
| Runtime | STOPPED means that nothing is open; rules outlive their dispatch; no wake-up is lost; start arms all or nothing; every stop ends |
| Record delivery | each consumer sees one first-in first-out queue that may lose its oldest elements only by overflow |
| Communication | an answer belongs to its request; a slot has one holder; a verdict is final; everyone admitted is answered |
| Config | a failed apply restores everything or says `-EIO`; flash holds a configuration that was in force; no lost update; Modules change only at rest |
| Update | a discarded image never boots; the image to go back to survives a trial; a receiving session has an owner; sessions end |
| Protocol SDK | an operation runs at most once in one life of the Core however often it is sent; its caller is told what a run of it answered; exactly the calls that can be answered are pending; every call ends |
| Deployment | what is in force is one author's whole configuration; a download is of one snapshot; only what was in force is recorded as deployed; a verdict is not overtaken by a late request |
| Distributed deployment | an upload that is not committed leaves no board changed, or names it; a commit is of all boards; nothing is replaced that was not read |
| Hardware tests | a temporary configuration stays only if the test says so; no test parks that of another; the Core is free again when a test has ended |
| Project store | a confirmed save is found again wherever a later operation is cut off; the history names only what can be read; recovery never goes back |

The hazards of the code, each at its line, with the properties that would catch
it, are in `PROJECT.json` under `hazards`; those without a property yet say why.

## 2. Plan

Done, the most central first. Firmware: ModuleManager (with Port), Runtime over
ModuleManager, RecordDelivery over RecordQueues, Communication,
ConfigTransaction, Update. Editor: SpaghettiClient over RemoteCall,
ConfigDeployment and DistributedDeployment, which take RemoteCall's promise for
their calls, HardwareTest, and ProjectStore. Theorems for all of them: every
safety property, action property and refinement that a passing run checks is proved (section 7).

Next, extending the model:

1. `CoreSession`: connect, handshake and synchronize of the editor, over RemoteCall.
2. `Connectivity` with the service states: the policy, the leases, transitions
   that start before they stop. Properties: BLE and Wi-Fi are never active
   together; a lease that ended leaves no service of its own behind.
3. `FieldUpdate`: the master and its receivers over CAN and ESP-NOW, with lost and
   repeated frames, windows and ACKs. Abstract specification: every receiver gets
   a prefix of the image.
4. `CoreBoot`: the order of initialisation, factory reset with a loss of power
   between two deletions, the health supervisor.
5. The consumer loops of `mqtt.c` and the USB stream over RecordDelivery.

Every module is written for both: parameters are CONSTANTS with named
assumptions, one action per critical section, callback or await of the code, and
no module declares a RECURSIVE operator.

## 3. Modules and code

A step of a model is what the code does between two points at which another
thread can see or change shared state: one critical section, one call of a
driver, one write to flash; in the editor, one macrotask of the page with the
microtasks it starts, up to the next await of a transport or a storage. `PROJECT.json` "map" names the lines of every
definition.

### Port, ModuleManager

`Port` has `owners` and `transport` and is the exclusive or shared acquisition of
`port.c`, as an operator library that ModuleManager uses inside its own steps
(`port_lock` is a leaf lock, so acquire is one step).

`ModuleManager` has `slots` (the array), `pc` and `at` (where each thread is, and
on which slot), and three history-like external sets: `contexts` (init
succeeded, deinit not yet called), `armed` (the driver may emit) and `loads`
(attached to a power rail). `configure` is Reserve, AcquirePort or PortRefused,
AttachPower or PowerRefused, InitDriver or InitFails, with the code's unwinding
order DetachPower, ReleasePort, ClearSlot; `remove` is BeginRemove, StopDriver or
StopFails, Deinit and the same tail. `read`, `command`, `start_events` and
`stop_events` are Borrow and one of the Finish actions. What is abstracted: the
content of records, property sets, and rail admission.

### Runtime

Instantiates ModuleManager (`Manager`) with its worker, its callers and other
hosts as the threads, so that `-EBUSY`, `-EALREADY` and the borrowed Module are the
Manager's own. `worker.place` follows `runtime_worker_entry`; `caller[c].place`
follows start, stop and configure, which hold `runtime_lock` (`lock`). `wake` and
`stopped` are binary semaphores; a reset of either is in the step that does it.
`EmitPut` and `EmitGive` are the two halves of a driver's emission. `Tick` makes a
deadline pass. The state and the promises are declared in `RuntimeState`, which the proofs
share. Abstracted: record contents, what a rule computes (it may command
any `Commandable` Module), and priorities.

### RecordDelivery, RecordQueues

`RecordDelivery` keeps the ring as the code does: absolute indices, slots taken
modulo `Capacity`, 32-bit counters modulo `Modulus`, one `consumers[c]` each. Every
call runs under one mutex and is one action; a consumer's thread holds a `cursor`
between peek and ack, so an overflow can fall in between. `Reboot` is a new epoch.
`RecordQueues` is the promise: one bounded queue for every consumer. The
refinement maps a consumer's queue to the records from its next index to the
write index (`Window`).

### Communication

One record for each adapter (`adapters[a]`), the cache as an array with its
rotating victim, the slots and queues of mutations and jobs, and two workers.
Lookup and store of the cache are separate steps because the code releases
`communication_lock` in between. The job worker's check of the deadline, its
execution and its write of the verdict are separate from a poll's
(`ExpiredByPoll`), which is how the code runs. `Tick` ages cache entries and
deadlines. Operations succeed or fail; authorization is a choice (`Deny`, `Admit`). State and promises
are in `CommunicationState`.

### ConfigTransaction

`tx.at` is the phase of `apply_config_with_transaction`; each phase succeeds or
fails, and a failing phase may leave what it was changing on either side where the
code can. The rollback collects its first error and goes on, as the code does.
`Quiesce` and `Drained` are others' stops of Runtime, which do not take
`config_lock`. `Reboot` is enabled in every state and keeps only `flash`. Core is
one more caller, that reads the record at boot (`ReadStored`), possibly while a
client's transaction is in progress. Abstracted: `spaghetti_config_validate` is the
predicate `Valid` and the set `Configs`; equal hashes are equal configurations; a
write that comes too early is a refusal that may happen once something was
written.

### Update

`status`, `expired`, `timer` and `slot` are `update.c` and MCUboot's secondary slot;
`slot.image` is the sequence of transports whose chunks were written, so that the
model can tell whose bytes an image holds. `Arm`, `Begin`, `Write`, `Finish`, `Cancel`
and `Timeout` are whole critical sections of `update_lock`, with an erase that may
fail. `TimerFires` and `Timeout` are separate: a handler that runs cannot be
cancelled any more. `at[a]` is the next call of an adapter's image handler, so
other adapters and the timer fall between an adapter's calls; BLE and CAN handlers
make theirs under locks of their own and are one action each. `window` and
`handover` are the UDP window and OPEN_WIFI_UPDATE. `Reboot` swaps images as MCUboot
does, and a trial that is not confirmed goes back. Simplified: the policy hook
always allows (its weak default); VERIFYING is not visible outside the lock; a
retransmitted chunk is refused like a failing write; a listener that does not
open is `OpenWindow` and then `CloseWindow`.

### RemoteCall, SpaghettiClient

`RemoteCall` is the promise: `runs`, `answers` and `outcome` of each call; a call runs
at most once between two restarts, and `outcome` is "ok" or "error" only when a run
answered that.

`SpaghettiClient` is the client, a transport, the line and the Core's replay cache.
`phase`, `attempt`, `aborted` and `settled` are where the loop of `request()` is and
what its promise was settled with; `pending` is the map of the same name; `queue` is
`sendQueue` of the serial transport, whose head is on the wire until a response
comes or `WriteTimeout` fires. `Proceed` is what the loop does once its promise is
settled. `toCore` and `toHost` are the two directions of the line: frames keep their
order and may be lost (`Lose`). `Replay` and `Execute` are `handle_request` with the
cache of `communication.c`, here with the slot a store takes. `Reboot` clears the
Core; `HandleEvent` is the STATUS event that tells the client a boot id.
Abstracted: payloads, the operations, the lengths of the timers. A correlation id
is its call: `allocateCorrelationId` gives no id that is pending, and ids repeat
only after 2^32 calls.

### ConfigDeployment

`config`, `generation` and `upload` are the Core's; `inbox`, `call`, `waiting`, `reply` and
`served` are the calls of each editor, one at a time, as RemoteCall promises them:
a request that is sent again is answered as before (`served`) unless the Core
restarted since. `pc`, `why`, `expected`, `applied` and `download` follow `deployConfig`,
`transferConfig` and `getConfig`. `RefuseChunk` and `StoreChunk` are
`decode_config_upload`; the last chunk goes on to `Validate`, `RefuseApply` or
`AcceptApply`. `Verdict` is the three reconciliations. Abstracted: a configuration is
the sequence of its chunks, each named after its author, so that a mixture can be
seen; the hash is the sequence. An apply that the Core accepts succeeds: what
happens inside is ConfigTransaction, and its failures are the answer "refused".

### DistributedDeployment

`live`, `generation`, `boot` and `inbox` belong to the boards; `original`, `applied`,
`uncertain`, `committed` and `failures` are the variables of
`prepareRemoteDeployment`, whose loops are at target `at`. `Host` is the upload to the
board on USB, which stands between `apply` and `commit` in `DeployDiffScreen.tsx` and
may fail. A call that is given up (`TimeOut`) may still be carried out by its board
later. `ForeignWrite` is another editor, `Close` the closing of the page. The
snapshot in a request also holds the boot it was read in, for the properties only.
Abstracted: a program is "old", "new" or "foreign"; a write is one request, since
chunks are ConfigDeployment's.

### HardwareTest

`active` is the entry of the Core in `activeHardwareTests`; `stage` is the call a test
awaits, `parked` what it will put back, `expected` the generation it applies with,
`final` whether it is in its `catch` or `finally`. Recipes and display programs share the
actions up to the trial and differ in what a failure leads to: a recipe whose pins
are refused returns (`PinsFail`), a display program restores. `Release`, `Wire`, `Wired`
and `ApplyTrial` are `ensureRecipeTestI2cPhysical`; `Restore` and `PutBack` are
`restoreParkedConfig`. `TimeOut` gives a call up, which the Core may still carry out:
requests of the page reach it in order. `ForeignWrite` is another editor. Abstracted:
a configuration is the user's, another editor's, or one of the two a test makes; the
commands of a display program are one step; the profile a test installs. What a user sees
of the tests, and their promises, are in `TestVerdicts`.

### ProjectStore

`content` is the keys `rev:<n>`, `history` the `meta` key and `damaged` whether it can be
parsed. A tab is at the storage call it awaits (`pc`). `Save` and `Load` begin, `GetMeta`
reads the meta key and decides (conflict, recovery, next step), `ListKeys` and
`Rebuild` are `reconstructMeta`, `Fetch` is `loadRevision` with the fall-back to older
revisions, `WriteSnapshot`, `Commit` and `Cleanup` are the three parts of `save`. `CutOff`
ends an operation at any of its calls, and the key being written may be left
damaged. `Overlap` says whether operations of two tabs may be under way together.
Abstracted: a project is the number of the save that wrote it; several removals of
`Cleanup` are one step, as they concern keys nobody is told of any more.

## 4. Runs

| Run | Checks | Shows |
|---|---|---|
| `module_manager` | ClaimsCompatible, OneThreadPerModule, CallsReachLiveContext, EventsEndBeforeContext, ResourcesFollowSlots, SlotsComeBack | two threads use the six operations while every external call may fail; the flags really replace the lock |
| `runtime` | StoppedIsQuiet, RulesOutliveDispatch, NoLostWakeup, StopCompletes | worker, caller, host and drivers interleave on three Modules; Config may rely on STOPPED |
| `record_delivery` | RingHoldsWindow, DeliversQueues | the ring implements one queue per consumer through overflow, wrap-around, (de)activation and reboot |
| `communication` | AnswerIsForRequest, SlotsOwned, VerdictKept, RequestsAnswered | two adapters and both workers on single slots: every limit is reached |
| `config_transaction` | RestoredOrBroken, FlashIsWhole, NoLostUpdate | three callers, failures at each phase, a reboot anywhere |
| `update` | DiscardedNeverBoots, ReceivingIsClaimed, TrialKeepsRollback, SessionsEnd | four transports, timer, erase failures, window, handover, trial boots |
| `spaghetti_client` | PendingIsWaiting, ImplementsRemoteCall, CallsEnd | lost frames, late answers, retries, aborts, dispose, restarts: client, line and Core implement one remote call |
| `config_deployment` | WholeConfig, DownloadIsOne, RecordWasInForce, VerdictIsFinal, DeployEnds | two editors and one upload slot; every deployment ends in a verdict that stays true |
| `distributed_deployment` | RollbackOrReport, CommitMeansAll, ReplacesWhatWasRead | two boards, late writes, another editor, restarts, a page that closes |
| `hardware_test` | LeftBehindIsTold, ParksTheUsers, LockIsFreed | a recipe and a display program on one Core; calls given up and carried out late, refused pins, another editor, a restart |
| `project_store` | ConfirmedIsFound, HistoryIsReadable, NeverGoesBack | two tabs, one operation at a time, cut off at any storage call |
| `config_boot` | BootKeepsProject, violated | section 8 |

Every property of a passing run has a mutant in `PROJECT.json`: a definition of the
model changed as a plausible bug would change the code (a dropped guard, a missing
reset, a swapped order, a counter not raised), with which TLC finds that property
violated. The changed definitions stand in the modules just before the ones they
replace, under names of their own, and nothing else uses them.

Deadlock is checked in the runs of the firmware: none of those systems may stop
for good. It is not in the runs of the editor: once every call, deployment or
save the bounds allow has ended, nothing has to happen any more.

The modules also define properties that the runs leave out. Their type invariants
hold in every run, as do WindowBounds of RecordDelivery, ActiveCountsWork and
RunningMeansArmed of Runtime, JobsEnd of Communication and ModulesChangeAtRest of ConfigTransaction, which the
listed ones mostly imply. Section 8 names those that do not hold.

## 5. Bounds

- `module_manager`: two Ports, two slots, two threads, seven requests. Two slots are
  what a conflict needs; the requests meet each rule of configure (duplicate key,
  I2C addresses, overlapping lines, exclusive endpoint, the wrong transport, no Port
  at all). `MaxOwners` is 2, so a third owner is refused. Sequences wrap after 2.
- `runtime`: three Modules (events; events and polling; polling only), two
  configurations that replace one another, one caller, one host, a queue of one
  event, so it is full as soon as it is not empty; `MaxDepth` 1 limits rule commands
  for one record.
- `record_delivery`: capacity 2, counters modulo 2, two consumers, two sources with
  equal sequences, five pushes (`MaxPushes`) wrap the ring twice; two boot epochs.
- `communication`: `Inflight` and `Window` are 1, the smallest the Kconfig allows:
  queues and cache are full at once and the cache evicts. The requests share a
  correlation id across an operation, a job and a poll.
- `config_transaction`: two keys and three snapshots, which change, add and remove
  Modules and change plan, MQTT and policy; `MaxGeneration` 3 reaches the last
  generation. The two clients are interchangeable, hence the symmetry; the run has
  no liveness property.
- `update`: all four transports and images of two chunks, the first of which holds
  the header that the second does not.

- `spaghetti_client`: two calls, one retry each, two starts of the Core and a cache of
  two entries. Two calls are needed for an answer to meet the wrong call, and for
  a frame to wait behind another; one retry is where an operation could run twice.
  The theorem covers every other number of calls, retries, restarts and slots.
- `config_deployment`: two editors, two chunks, one restart. Two chunks are the
  fewest that can be mixed; both editors may deploy once, and either may find the
  other's generation, its own, or the one after a restart.
- `distributed_deployment`: two boards, so that one can be written and the next
  refuse; one foreign write in all and one restart of each.
- `hardware_test`: one recipe and one display program, the two forms of a test, on one
  Core, which a third test could only find locked or free; one foreign write and one
  restart, after which generations repeat.
- `project_store`: a history of two, so that the fourth save prunes and the recovery
  has an older revision to fall back to; five saves, three cut-offs.

## 6. Fairness

- ModuleManager: weak fairness of `Continue(t)`. Once inside an operation a thread
  is preempted but goes on; driver calls return (they have timeouts). Nobody has to
  begin an operation.
- Runtime: the worker and the callers go on, hosts finish their calls. `RulesDone`
  is strongly fair: a dispatch ends, though it may command Modules any number
  of times before; rules are finite. Drivers need not emit and time need not pass.
- Communication: adapters that wait and both workers go on. Requests need not come.
- Update: time passes (`Expire`), the kernel fires a due timer, and the workqueue
  serves it. No adapter has to continue: this is what SessionsEnd is about.
- SpaghettiClient: timers fire (`WriteTimeout`, `SendDeadline`, `GiveUp` or `RetryLater`,
  `Resend`), which the event loop of a page that stays open guarantees. Nothing is
  assumed of the line, of the Core or of the user.
- ConfigDeployment: weak fairness of `Flow(e)`, the steps of the editor itself and
  the end of a call without an answer. The first is the event loop; the second is
  CallsEnd of SpaghettiClient. The Core need not answer.
- HardwareTest: weak fairness of `Flow(t)`, the steps of the page and its timers
  (10 and 15 seconds for a call). The Core need not answer.
- RecordDelivery, ConfigTransaction, DistributedDeployment and ProjectStore are
  checked for safety only.

## 7. Proofs

Eight modules of theorems, checked by TLAPS for every value of the constants that
satisfies the named assumptions of the modules (`*Assumption`) and, where a theorem
has an ASSUME, its hypotheses. Three of the proof modules have a second subject, which
they INSTANCE under a name: Runtime is with the Manager it calls (`Run`),
Communication with the client at the other end of its protocol (`Core`), HardwareTest
with the other program of the editor that writes a Core's configuration (`Test`). An
ASSUME of an instantiated module is not an assumption of the proof, so what is used of
it is repeated as a named hypothesis of the theorem (`RuntimeLimits`, `Limits`,
`NobodyTests`). The promises of these three are definitions over the state alone, in
`RuntimeState`, `CommunicationState` and `TestVerdicts`, which the component and the
proof module both extend, so that theorem and run speak of the same definition.

**ModuleManager_proofs.** `Safety` proves the invariant `SafeInv`: types, at most one
thread per slot (`SlotsApart`), and `PhaseInv`: what the place of a thread implies of
the flags of its slot, and what the flags imply of `contexts` and `armed`.
OneThreadPerModule is not inductive by itself: that nobody else is on a slot when it
is reserved or borrowed follows only from the flags, and that the flags are up follows
only from where each thread is. From it: `TypeCorrect`, `MutualExclusion`,
`NoDeadContext`, `EventsFirst`. `Compatible` then proves ClaimsCompatible: `Reserve`
compares with all claimed slots under the lock and every other step only shrinks the
set of claims (lemma `FinishShrinks`). `NothingLeaks` proves ResourcesFollowSlots from
`ResourceInv`, which names for every place of a thread whether its slot holds a Port
claim (`Holders`) and a load (`Loaded`), and says that every mark is somebody's
(`MarksInv`); that releasing a key takes no other Module's claim away needs
ClaimsCompatible.

**ModuleManager_proofs, Runtime.** `Quiet` is about Runtime alone (the fields of
`worker` are there): the active count is exact (ActiveCountsWork), STOPPED means
nothing is open, and the rules being dispatched are the installed ones. A stop looks
at the count, and not at the worker; what makes StoppedIsQuiet inductive is that the
worker raises the count in the step in which it still reads RUNNING, and lowers it
only after it has left the driver. From it `StopIsQuiet`, `RulesAreAlive` and
`WakeupsArrive`, without any hypothesis. `RunInv` then composes: Quiet, the Manager's
SafeInv, the types of Runtime's variables, who holds the lock (`CallersGood`), and
`DriversMatch`, which says that a thread is inside a driver in the Manager's `pc`
exactly when it is in Runtime's own places. `CompositionKeeps` shows step by step that
what Runtime does with the Manager's variables is a step of the Manager or a stutter
(`RuntimeUsesTheManager`), so that SafeInv is kept by the Manager's own proof, and
`ModulesAreSharedSafely` carries the Manager's promise over to the program that uses
it. `StoppedLeavesDrivers` joins the two accounts: in STOPPED the worker is inside no
driver in the Manager's books. Hypotheses: `RuntimeLimits` (what RuntimeAssumption
says of jobs, threads and installed Modules) and `SameThreads` (the Manager's threads
are Runtime's).

**RecordDelivery_proofs.** The invariant `Ring` is TypeOK, WindowBounds and
RingHoldsWindow. The arithmetic is in three lemmas: two indices closer than the
capacity differ modulo it (`OffsetsApart`), reclaiming stops at the slowest consumer
(`ReclaimStops`), and a smaller window of a good ring is good (`Shrink`). `PushStep`
is the long one: it may first reclaim, then drop the oldest record and move consumers,
then write. From it: `RingSafe`, `DeliveryTypes`, `DeliveryBounds`,
`NothingOverwritten`, for every capacity, modulus and set of consumers.
`RingImplementsQueues` proves the refinement DeliversQueues. A queue of RecordQueues
is the `Copy` of a stretch of the ring; the lemmas say what an append, the loss of the
oldest record and a reclaim do to such a copy. The specification keeps what the
slowest consumer needs, which is a maximum over queue lengths, and the code reclaims
up to the smallest next index: they agree because of `Tight` (`OldestIsNeeded`), that
the oldest index is the next one of some active consumer. Ring alone does not say so,
and without it the two sides would lose different records on overflow.

**ConfigTransaction_proofs.** Assumption: the keys are `1 .. n`, every configuration
has a module or none under each of them, and the default one is empty. The invariant
has four parts. `Shape` types the variables. `GenerationInv` says that the caller
under the lock has read the generation in force, and that whoever has read that
generation has read the configuration in force: it gives `NothingIsLost`. `FlashInv`
tells from `candidate_persisted` and the phase which configuration the record holds:
it gives `RecordIsWhole`. `LiveInv` is the long one, and claims nothing once a
rollback was answered with -EIO: on the way forward (`ForwardInv`) what is live under
a key follows from whether the key is among those removed and added; on the way back
(`BackInv`), until an error is noted, every key is as before, still to be put back, or
a source that a failed stop left in ERROR, and then Runtime cannot start, so that the
error is noted. `RollbackRestores` needs both, and that `Min` and `Max` pick a member
of a set of keys, which is a well-foundedness argument (`MinOfKeys`, `MaxOfKeys`).

**Update_proofs.** The invariant `Inv` is a session invariant (types,
DiscardedNeverBoots, and that a receiving session has an owner and an upload in its
slot), the other types, ReceivingIsClaimed and `TrialBoot`: while Core waits to
confirm, the image is not confirmed and Update's state is TRIAL_BOOT; and while it is
not confirmed, Update neither receives nor has marked the slot. TrialKeepsRollback is
an action property, and it needs TrialBoot: a call that would erase the slot is
refused because of that state. Update's own calls are lemmas (`ArmInv` ...
`CancelInv`, `DiscardInv`); each adapter action combines them. From it: `TypeCorrect`,
`DiscardedStaysOut`, `Claimed`, `RollbackKept`, for images of any number of chunks.

**SpaghettiClient_proofs.** Assumption: `Cardinality(Calls) <= Slots`, every call that
may still be sent again has room in the replay cache. Without it the promise does not
hold: an entry that is evicted before its retry arrives lets the operation run again
(the default is three entries, `Kconfig.resources`, and the client does not limit its
calls). The invariant `Inv` is TypeOK and four facts: whoever was told "ok" or "error"
was told what a run answered (`Told`), and so is what a call that sleeps or waits may
yet be told (`Sleepers`); every response on the line is an answer of its call's
handler (`Answered`); and in this life of the Core a call has run at most once, and if
it has, its answer is in the cache (`Remembered`). The last is the heart: it needs
that the cache is filled from its first slot on, one slot for each call, so that a
call that has not run yet finds a free slot and evicts nobody (lemma `SlotIsNext`),
which is a counting argument. `StepRefines` then maps every action to Run, End,
Restart or a stutter of RemoteCall, and `ClientImplementsRemoteCall` concludes.
`PendingWaits` uses a second invariant, PendingIsWaiting with "a call that is at rest
has nothing settled".

**SpaghettiClient_proofs, Communication.** `CoreInv` has a part for each table of the
dispatcher. `Adapted`: what an adapter has in hand fits its place and is about its own
request. `CacheInv`: an entry of the replay cache is an answer to the request it is
kept for, so a reused entry never answers for the one evicted. `MutationInv`: every
slot that is taken has one holder whose request is in it, is in one place, and its
outcome, when done, is that request's. `JobInv`: a job slot is once in the queue or
with the worker while it is pending. AnswerIsForRequest needs the last conjunct of
MutationInv, as the worker writes its result through a slot number and not through an
adapter. From it `AnswersMatch`, `MutationsHaveOneHolder` (the cardinalities of
SlotsOwned are counted from the invariant, which names the one holder),
`DispatcherTypes` and the action property `VerdictsStay`, for every number of
adapters, slots and entries. Hypothesis `Limits`: the sizes are positive, every
request is a read, a mutation or asynchronous, and None is no request.

**ConfigDeployment_proofs.** The invariant is about the Core (`CoreInv`: types;
`SlotInv`, that the pieces in the upload slot all belong to the editor the slot is
kept for; `InForce`, that what is in force is some editor's whole configuration) and
about every editor: `CallInv`, that nothing is under way once a call is answered and
that every answer, and every one that would be repeated, is `Honest` about the Core;
`DownloadInv`, that the pieces read so far are the beginning of what their hash stands
for; `OutcomeInv`, that a verdict leaves no request under way except after an unknown
outcome. WholeConfig needs SlotInv since the slot is shared; DownloadIsOne needs
Honest, as what ties a piece to the snapshot it was cut from. From it:
`ConfigIsWhole`, `DownloadsAreOne`, `RecordedWasInForce`, and the action property
`VerdictsAreFinal`, for every number of editors, chunks and restarts.

**ConfigDeployment_proofs, HardwareTest.** LeftBehindIsTold speaks of the moment after
a test has ended, and requests it gave up may still be carried out then. `TestInv`
says why they do no harm: one test at a time holds the lock (`Alone`); a test that has
put everything back has neither its configuration in force nor a request under way
that would bring it back (`CleanStays`); the answer a restoring test waits for is that
to its newest request, and that is the restoring one (`RestoreIsLast`), so that every
older request of it has been carried out or refused before; and a configuration of a
test in a request is its own, or that of a test which reported it left behind
(`OwnOrGivenUp`). From it `LeftIsTold` and `UsersAreParked`, for every number of
tests, foreign writes and restarts. Hypothesis `NobodyTests`: no test is called
Nobody.

**DistributedDeployment_proofs.** The invariant `Inv` is TypeOK and four facts: where
the loops are and what may wait (`AtInv`); that a snapshot which arrived still tells
whether its board holds the new program (`ReplyInv`); which targets are settled, or
named among the failures, at each stage (`StageInv`); and for each board (`BoardInv`)
that a settled one is clean, with no request under way that could write it, unless it
is named. `NothingLeftUnsaid`, `CommittedIsEverywhere` and `WritesReplaceWhatWasRead`
follow for every number of boards, losses, foreign writes and restarts.

**ProjectStore_proofs.** Assumption: `~Overlap`; with overlap ConfirmedIsKept fails
(section 8) and the argument about what a tab has read does not hold. The invariant
says what a tab in the middle of an operation knows of the storage: what `GetMeta`
found is still what the meta key says, or what the recovery made of it; the next
revision is above everything readable that the history names; a snapshot that is being
committed is readable. With it `HistoryReadable`, `ConfirmedFound` (a load finds a
confirmed save or a later one) and `NoWayBack` (an action property: the newest
revision that can be loaded never becomes older) hold for all tabs, saves, crashes and
histories of at least two.

Only model-checked: liveness under fairness (SlotsComeBack, StopCompletes,
RequestsAnswered, SessionsEnd, CallsEnd, DeployEnds, LockIsFreed) and ENABLED, which
are beyond the proof system. Outside the
assumptions of the proofs, overlapping saves and a replay cache with too little room,
the properties do not hold and nothing is claimed (section 8). The invariants of the proofs were checked by TLC on the runs' instances
before they were proved. Induction over data and RECURSIVE operators are out of the
prover's reach too; the models use none of the latter.

## 8. Findings

The run `config_boot` shows a disagreement between the code and its own comment: when
Runtime does not start at boot, the rollback writes the empty configuration over
the stored project. Quotation and line are in `PROJECT.json`.

The following are definitions of the modules that TLC violates when they are added
to the `.cfg` of the module's run (INVARIANT or PROPERTY as their form says):

- `StopDisarms` (Runtime): `stop_armed_events_locked` (`runtime.c:668`) ignores the
  `-EBUSY` of a Module in use and forgets that it was armed; its driver emits after
  STOPPED. `subsys/runtime/README.md:20`: "Stop disarms events first, then drains the
  queue."
- `AckConfirmsPeeked` (RecordDelivery): ack compares boot and sequence
  (`record_delivery.c:366`), but sequences are per source; after an overflow it may
  confirm a record of another source that was never peeked.
- `AsyncReturnsJob` (Communication): a finished job keeps its slot until reboot
  (`communication.c:404`), so asynchronous requests are refused with none in flight.
- `WritersOwnTheSession` (Update): an adapter whose session expired may write into
  the session of another one (`update.c:358`).
- `HandoverUploads` (Update): OPEN_WIFI_UPDATE begins the UDP session
  (`connectivity_ops.c:292`); the client's first chunk begins it again, is refused
  and cancels it.
- `RebootEndsCalls` (SpaghettiClient): a changed boot id rejects what is in the
  pending map (`spaghetti-client.ts:274`); a call that sleeps before its retry is not
  in the map and is sent again to the restarted Core, which no longer remembers it.
- `RebootIsReconciled` (ConfigDeployment): the Core applies and restarts, the last chunk is
  sent again and refused for its generation, and `resolveStaleGeneration`
  (`deploy.ts:182`) answers STALE_GENERATION though the editor's own configuration is
  in force.
- `NeverReplacesForeign` (DistributedDeployment): generations start again after a
  restart, so a write with an old generation may replace a program of another editor
  that came to the same number. ReplacesWhatWasRead is the part that holds.
- `AlwaysTries` (HardwareTest): when the pins are refused after the user's modules were
  taken out of the configuration, a recipe test returns from an inner `catch`
  (`recipe-hardware-test.ts:827`) and does not put them back, though lines 802-803 keep
  the parked configuration "for restore".
- `ForeignSurvives` (HardwareTest): restoring reads the generation anew
  (`recipe-hardware-test.ts:377`), so what another editor wrote during a test is
  overwritten.
- `ConfirmedIsKept` (ProjectStore, with `Overlap = TRUE`): `save` compares the revision and
  writes in later awaits without a lock; two tabs that read the same revision both
  pass, and the second overwrites what the first was told is saved.
  `project-autosave-store.ts:92` says of the key "written once, never overwritten".
- `LeftoversHeal` (ProjectStore): a revision left by a crash during the cleanup is in no
  later history and is never removed; `project-autosave-store.ts:254` says "a leftover
  old revision is harmless and self-heals on the next save".

Seen while reading, outside what the models say: pins changed for a hardware test
are not changed back; the replay cache holds three
entries while the client allows any number of concurrent calls; a rollback's
restore is not repeated on BUSY, as the first write is; `mqtt.c:426` puts the boot id
1 in every STATUS event and the USB and BLE adapters send none, so that the client
learns of a restart on few transports.

## 9. What is not modelled, and why

- Pure conversion and validation (CBOR, framing, property sets, SHA-256, schemas,
  profile parsing): data without control, covered by vectors and unit tests. Where
  control depends on their answers, the answers are choices.
- Bus transfers, displays, consoles, discovery of tags: I/O behind one call.
- Connectivity, services, Wi-Fi profiles, MQTT's connection, the field update
  protocol, Core's boot order, factory reset, health, editor sessions: planned, see 2.
- The editor's screens, its graph and recipe models, the compiler of a graph to a
  configuration, the catalogues of blocks and drivers: rendering, pure functions of
  their inputs and tables. They are by far the most lines of the editor, and they
  have no steps whose order could be wrong; unit tests cover them.
- Dashboard, community hub, tag studio, hardware files, contracts and examples:
  applications and data beside the firmware.

Four components are marked "partly": Port leaves out transfers, Update the other
maintenance commands and Runtime's quiescence before a BLE transfer, the
Protocol SDK its decoders of events and the BLE transport, and the hardware tests
the profiles they install.

Known hazards that the list in `PROJECT.json` leaves out, because nothing in the
code or its documents says what should happen or their component is not modelled:
an event of a driver carries a pointer into `jobs[]` and names whichever job has that
index after a reconfiguration (`runtime.c:268`); rule actions may keep the event queue
full and due jobs waiting (`runtime.c:481`); a record that MQTT cannot format
blocks those behind it (`mqtt.c:1162`); a stop that times out inside apply leaves Runtime
stopping (`config.c:1049`); a BLE transfer that is cancelled does not start
Runtime again (`ota_ble.c:229`); a lease is cleared though its transition failed
(`connectivity.c:250`); a page that closes between the apply to remote boards and the
commit leaves their new programs, with nobody to roll back
(`DeployDiffScreen.tsx:656`); power may fail between two deletions of a factory reset
(`factory_reset.c:214`).

## 10. Running

    tlc -workers 2 -config MCRuntime.cfg MCRuntime
    tlapm ModuleManager_proofs.tla

The passing runs take from 4 seconds to 2 minutes each with two workers, between
120,000 and 1,010,000 distinct states; the proofs of a module take at most two minutes.
