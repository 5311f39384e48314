# A verification project for ASFireWire

ASFireWire is a DriverKit driver for OHCI 1394 controllers on macOS: it brings the
controller up and down, handles bus resets, runs asynchronous transactions, discovers
devices, and carries SBP-2 storage, AV/C, DV and audio on top. The driver itself is
under `ASFWDriver/`; the Swift application, the laboratory driver, the scripts and the
captures around it are not part of its logic.

This directory holds TLA+ modules that model the core of that driver, the TLC
configurations that check them on small instances, and TLAPS proofs of theorems that
hold for every value of the constants. `PROJECT.json` maps every definition that models
code to the lines it models, and lists the components, the runs, the mutants, the
findings, the hazards and the theorems.

## 1. Inventory

Everything that matters runs on DriverKit dispatch queues. One queue, *Default*, takes
interrupts, timers, power changes and most of the work; other queues (user clients,
audio, SCSI) submit transactions and touch registers. Blocks of one queue never overlap;
blocks of two queues do, and hardware moves all the time. Sleeping on the Default queue
(`IOSleep` in polls, the discovery delay, the watchdog of a manual reset) holds up all
of it.

| component | state it keeps | operations | what is hard | what makes it correct |
|---|---|---|---|---|
| Runtime lifecycle (`Service/Lifecycle`, `ASFWDriver.cpp`, `Controller/ControllerStateMachine.cpp`) | controller state, start ledger, `teardownActive_`, built graph, wake verification attempt | Start, Stop, sleep, wake, wake verification, provider termination, failed start | a revocation racing any other handler; a start that fails half way | one teardown at a time, quiesced means detached, the ledger never understates |
| Hardware access (`Hardware/HardwareAccessGate.hpp`, `HardwareInterface.cpp`) | gate, provider, gone reason | begin and end a scope, attach, detach, revoke and drain | a scope held while the provider goes away | no register access through a closed provider |
| Async transaction tracking (`Async/Track`, `Async/Core`, `Async/Commands`) | label bitmap, transaction table, transaction objects, reset gate, callbacks | submit, AT completion, AR response, timeouts with three kinds of retry, cancel, bus reset, teardown | submitters on other queues against completions on Default; label reuse | one owner, one callback, no lost labels, answers go to the right generation |
| Bus reset coordinator (`Bus/BusResetCoordinator*.cpp`, `Bus/Timing`) | eight-state machine, interrupt latches, masked interrupt, pending software reset, holdoff, watchdogs, timing anchor | interrupts, runs of the machine, reset requests, discovery blocks | a reset during the handling of a reset; masked edges; stale completion bits; polls that must reschedule themselves | no stranded work, catches up with the bus, requests keep their strength when merged |
| AT and AR contexts (`Async/Contexts`, `Async/Engine`, `Async/Tx`, `Async/Rx`) | descriptor rings, context state, AR stream position | submit a chain, wake, drain, stop, flush, reassemble | branch patching against a running DMA engine | no lost and no repeated descriptor |
| Payload registry, generation tracker | payloads by epoch, last confirmed generation | attach, release by epoch, confirm | eight-bit wrap, attach after post | a payload lives as long as its transaction |
| Self-ID capture, topology (`Bus/SelfID*`, `Bus/TopologyManager.cpp`) | decoded packets, tree | decode, normalise, build | inconsistent Self-ID streams | the tree is the one the packets describe |
| Bus manager, gap count, election, role policies (`Bus/BusManager*`, `Bus/Role`) | election state, gap in flight, role decisions | compete for the manager, correct the gap, choose a root | several nodes deciding at once; a policy that resets the bus for ever | at most one manager; policies converge |
| IRM client and stream reservations (`Bus/IRM`, `Audio/Protocols/Backends/DuplexIRMReservations.hpp`) | operation in progress with its retries, entries of the stream | allocate channel and bandwidth, release, roll back, invalidate after a reset | two locks that must both succeed, other initiators, lost answers, a reset in between | what is recorded is backed by the IRM; what is given up is given back |
| Local CSR space (`Bus/CSR`) | register values, topology map with its counter | read, write, lock by remote nodes | publication while a node reads | readers see one version |
| Config ROM, discovery (`ConfigROM`, `Discovery`, `Controller/ControllerCoreDiscovery.cpp`) | scan session, nodes in flight, device records, route tokens, published devices and their index | scan, retry, abort, manual read, match devices across resets | answers of an aborted scan, a scan that ends while a reset begins, a GUID seen twice | no stranded node, tables agree, a lapsed route never becomes valid again |
| Isochronous engine (`Isoch`) | transmit and receive rings, event groups | start, refill, stop | refill against the DMA position | never overtakes or underruns silently |
| SBP-2, SCSI (`Protocols/SBP2`, `SCSIController`) | session, fetch agent, command executor, bridge queue, readiness gate | login, reconnect, logout, one command at a time, logical unit reset, probes, shutdown | late status blocks, writes that fail after their effect, a reset at any point | each task is answered once, commands live within their login |
| AV/C, FCP, CMP, DV (`Protocols/AVC`, `Protocols/DV`) | outstanding command, plug leases | send, interim, response, connect, break | interim and bus reset | one answer per command; leases are given back |
| Audio duplex control (`Audio/Core/AudioCoordinator.cpp`, `Audio/Protocols/Backends`) | stored restart session, operation gate, clock requests, recovery queue, host transport | staged start with rollback, stop, clock change, timing loss, rebind, removal, teardown | four threads, failing stages, recovery queued before a stop | a session that says it runs does run, at its rate and in its generation; a stop releases everything |
| Audio engine, device protocols | engine cursors, register choreography | - | - | - |
| Scheduling, shared memory, user client, diagnostics, profiles | queues, DMA cursors, rings of records | thin wrappers, tables, observers | - | - |

How they interact: `ControllerCore` fans an interrupt out to the AT and AR contexts, to
the isochronous service and to the bus reset coordinator. The coordinator closes and
opens the async gate (`OnBusResetBegin`, `OnBusResetComplete`), confirms generations to
the async subsystem, builds the topology, and hands it to discovery by a delayed block.
The role and bus manager policies ask the coordinator for software resets. Discovery,
SBP-2, AV/C and audio submit transactions through the async subsystem from their own
queues. The lifecycle coordinator stops all of them, in order, and detaches the hardware.

## 2. Modules

| module | models | sources |
|---|---|---|
| `RuntimeLifecycle` | lifecycle coordinator, state machine, start pipeline, teardown executor, access gate | `Service/Lifecycle/RuntimeLifecycleCoordinator.cpp`, `ASFWDriver.cpp`, `Controller/ControllerStateMachine.cpp`, `Hardware/HardwareAccessGate.hpp`, `Hardware/HardwareInterface.cpp` |
| `AsyncTransactions` | label allocator, transaction table, submit path, completions, timeouts, cancellation, bus reset | `Async/Track/*`, `Async/Core/*`, `Async/Commands/AsyncCommandImpl.hpp`, `Async/AsyncSubsystem*.cpp` |
| `RequestTracking` | abstract specification: what the subsystem promises the owner of a request | implemented by `AsyncTransactions` |
| `BusResetCoordinator` | bus reset machine, software resets, async gate, timing anchor, discovery hand-off | `Bus/BusResetCoordinator*.cpp`, `Bus/Timing/PostResetTimingCoordinator.cpp`, `Controller/ControllerCoreInterrupts.cpp` |
| `SCSITarget`, `SBP2Command`, `SBP2Storage` | the SCSI side, the command plane and the session of one SBP-2 target; each extends the one before, and `SBP2Storage` composes them | `SCSIController/*`, `Protocols/SBP2/Session/*` |
| `AudioDuplex` | the duplex stream of one audio device | `Audio/Protocols/Backends/*`, `Audio/Core/AudioCoordinator.cpp`, `Isoch/IsochService.cpp` |
| `IRMClient` | IRM client, stream reservations, the IRM and its other users | `Bus/IRM/IRMClient.cpp`, `Audio/Protocols/Backends/DuplexIRMReservations.hpp`, `IsochDuplexHostTransport.cpp` |
| `DeviceTable`, `Discovery` | registry and manager of devices; scans of the Config ROMs and what becomes of their results | `Discovery/*`, `ConfigROM/Remote/*`, `Controller/ControllerCoreDiscovery.cpp` |
| `MC...` | the same, instantiated for TLC | - |
| `RuntimeLifecycleProofs`, `AsyncTransactionsProofs`, `BusResetCoordinatorProofs`, `DiscoveryProofs`, `IRMClientProofs`, `SBP2StorageProofs`, `AudioDuplexProofs` | theorems and proofs | - |

The modules name their variables after the members they stand for, have one action per
handler, step or lock-delimited part of a handler, and contain the mutated forms of
their definitions that show each property can fail (`..._NoRun`, `..._KeepsLabel` and so
on, each beside the definition it mutates, and used nowhere else).

Where the code calls from handler to handler within one block of a queue (SBP-2,
devices), a handler is an operator from the state to the state after it, and an action
applies one of them; the calls then nest as in the code.

### RuntimeLifecycle

Two handlers have a control point each: `service` (Start, Stop, SetPowerState, the wake
verification timer) and `notify` (provider termination). `StartRuntime` is one action per
stage, each of which may fail; a failure is turned into a quiesce plan from the ledger
`completedStartStage`. `ExecuteRuntimeTeardown` is one action per phase: fence, drain,
stop the producers, check for cleanup, cleanup, detach, complete. A third actor, `user`,
stands for the code on other queues that holds a `HardwareAccessScope`; the gate's lock is
`scope`, so the drain is a step that waits for it. The variable `serialQueue`, chosen in
`Init` and never changed, says whether the two handlers are serialised by one queue, which
is how DriverKit delivers them, or race, which is what the coordinator's lock and its
comments are written for.

Abstracted: what a stage brings up beyond the parts other stages look at, register
sequences, and the logs. Attaching the provider, `MarkStageComplete` and arming the
notifications (`ASFWDriver.cpp:380-389`) are one step; arming can fail without a word
(`113-140`), in which case no revocation comes, which the model has as a behaviour anyway.

### AsyncTransactions

The state is the bitmap and the round-robin cursor of the label allocator, the table of
transactions, the transaction objects with their states, the reset gate, and the counters
of callbacks. A submitter's path is split where another thread can get in between:
`PrepareTransactionContext`, the allocation of the label, the installation in the table,
the hand-over to the AT context, and `OnTxPosted`. What the Default queue runs is a job
with the labels it still has to visit, and a transaction being finished has its own
control point, because extracting it, freeing its label and running its callback are
three steps that another thread sees one at a time, in an order that is not the same on
every path (a bus reset calls back before it frees the label).

The AT context is a queue of descriptors that complete in order with one of the OHCI
event codes; the device answers, or never answers, the requests that reached it.

`load`, chosen in `Init` among `Workloads`, says who submits, with which completion
strategies, and which acknowledges the AT context reports.

`RequestTracking` is what the owner of a request sees: it is registered, perhaps posted,
taken out of the table and answered, each once and in this order. The refinement mapping
`Phase` reads that off the transaction table, the deadline and the count of callbacks;
`TracksRequests` says that every step of the detailed specification is one of the abstract
one or none.

Abstracted: `FindByMatchKey` compares the node too, and here there is one remote node.
`Allocate` may skip a free label when its weak compare-and-swap fails spuriously, which
only changes which free label is taken. The fall-back for reads without a strategy
cannot be reached. A descriptor orphaned by a stop is reported as `evt_flushed`.
`Submit` tests the label and hands the chain over in one step (`AsyncCommandImpl.hpp:55` and
`152`), and `PrepareTransactionContext` looks at the gate and reads the generation in one
step, so a reset that falls exactly between these is left out. A teardown comes when no
submitter is inside; the code does not wait for them (`AsyncSubsystemLifecycle.cpp:568-629`).
Generations are not wrapped. `MaxTx` bounds the transactions, `MaxResets` the resets.

### BusResetCoordinator

Interrupts, runs of the machine, requests, discovery blocks and watchdogs are blocks of
one queue and never start while the machine runs; within a run, one action is one
iteration of the loop in `RunStateMachine`, with the iteration bound. The controller,
the bus and the clock move between any two of them: a bus reset, the completion of its
Self-IDs, transmission, the Self-ID timeout, the end of the holdoff.

Points that carry the interesting behaviour and are therefore exact:

- `HandleInterrupt` acknowledges neither `busReset` nor the Self-ID events. A reset edge
  that comes while `busReset` is masked leaves no latch; `ClearBusReset` clears its event
  bit together with the one being handled.
- a bus reset clears `selfIDComplete` in the controller but not the sticky
  `selfIDComplete2`;
- `ClearConsumedSelfIDInterrupts` clears the bits that were latched, not the bits that
  are set;
- `BeginNewResetCycle` drops the pending software reset and clears `stopFlushIssued_`;
  the late Self-ID path (`HandleStraySelfID`) does neither.

Abstracted: hardware events fall between the steps of the machine, never inside one.
Several queued runs are one run. Blocks of the queue may run in any order, where
DriverKit runs them in the order they were queued; the violations below do not need
another order. The outcome of Self-ID decoding, of topology building and of
`EvaluateGapPolicy` is a choice. Setting the contender bit belongs to root delegation and
changes nothing here. `EvaluateRootDelegation` and `ResetDelegationRetryCounter` have no
caller in the driver and `delegateAttemptActive_` no reader, so they are left out, as are
the bus manager's own gap bookkeeping, the escalation of the discovery delay, and metrics.

### SCSITarget, SBP2Command, SBP2Storage

One target. Every action is one block of the Default queue: the completion of a write, a
status block from the target, a timer, a login edge, a probe, a run of the bridge's pump,
a task of the host adapter (before or after the shutdown), a bus reset, a scan's result,
shutdown. The target answers
when and if it likes; ORB addresses are handed out again first fit, so a late status block
may name the ORB of the next command, and the model lets it. What the code does not decide
(whether a write is accepted, whether an allocation succeeds, what TEST UNIT READY finds)
is a record `o` of outcomes that the action chooses. So are the refusals of `CreateSession`
that depend on others (`free`), and whether the data of a command that succeeded can be read
(`"failed"` with a delivered status).

Abstracted: the contents of ORBs and status blocks beyond what the handlers test, page
tables and data buffers, doorbells, the user client's sessions. Writes in flight at a bus
reset are dropped, since the handlers compare the generation of the completion. The write
retries left are kept with the agent, which every `Submit` refills, in place of each ORB;
that differs only for an ORB whose pointer is still being written when the next one is
submitted.

`bridge.silent` is history: it says that the session failed without a call of the login
callback (a refused allocation or write, `LoginSession.cpp:95, 127, 171, 195`), or that the
stop dropped the edge of a session already released, and that no edge has been sent since.
`NoSilentRelogin` excludes exactly those logins. `StopDrains` excludes the adapter that such
a session leaves up when the bridge has no handle at its stop: it is told only
`if (handle != 0)` (`SBP2TargetBridge.cpp:172`), so the bound is that a stopped bridge with
the adapter up had a silent end and has no record.

### AudioDuplex

Four threads: CoreAudio's (`io`), a rate change (`clock`), the backend's work queue
(`recovery`) and discovery, whose removal and teardown have a control point of their own.
An operation takes the gate, loads the stored session, and runs stage by stage; between
any two stages the others run, the bus resets, the device goes away. Each stage may fail,
and the host may refuse to stop either context or both. Three profiles stand for the start
shapes of `DuplexStreamProfile.hpp:443-505` and the backends that run them: `dice` (the
default), `avc` (`ApogeeInterleaved`: host contexts start before the device's side, and the
stop interleaves too; it keeps the clock lock stage, which only the CMP shape turns off) and
`cmp` (`CmpReceiveThenTransmit`, BeBoB and others: no clock lock). They differ in the order of
the stages and of the stop and in how a recovery is queued. A recovery is asked for by lost
timing, by an inconsistent cycle (DICE) and by the return of the device after a reset. The
device is reported lost by the scan after a reset, and also with its route still live, by a
scan of some other node alone.

Abstracted: a check and the store that follows it under the same lock or on the same
thread without a blocking call are one step; rates are two numbers; one stream per
direction. A runtime fault reported when there is no stored session is dropped at once,
where the code queues a block whose policy then declines. Not modelled: the start guard of an
endpoint, the MOTU backend with its own timing recovery, the transmit-first start shape (two
stages of `cmp` or `dice` exchanged), loops over several streams, the attempt budget and the
settling time of AV/C timing losses, several devices at once. `kRecoverAfterLockLoss` and
`kRecoverAfterTxFault` are raised nowhere.

`removal.left` is history. The removal of a device does not wait: `ClearSession` frees the
operation gate whether or not an operation still runs (`"operation"`), and the removal goes
on when the host refused to stop or when the stream was not the active one (`"host"`, which
a later successful stop of the whole host takes back). `RunningIsTrue` and `StopReleases`
are about the behaviours in which that has not happened; section 5 says what happens
otherwise.

### IRMClient

The owner's thread waits for each answer (with its time limit); the client's operation is
a record with its stage, retries and outstanding request; the IRM has two registers that
other initiators change and a reset restores. A request or its answer may be lost, and a
request that was carried out may be reported as failed. `ledger` is history: who really
holds what. Three flags name what the code cannot know or undo: `uncertain` (the
answer to a lock was lost), `gaveUp` (a release reported failure), `spoiled` (something
was released that was not ours). `abandoned` is the set of channels whose entries
`StopAllAfterBusReset` dropped in the generation in which they were made. That function
looks at no generation and takes no lock, so the action is enabled whenever there are entries,
also while the owner's thread is in the middle of an operation: `OnDeviceRemoved`
(`AudioCoordinator.cpp:147-150`) calls it for every device reported lost, and a ROM read by
hand of another node (`ConfigROMHandler.cpp:166-184`) ends in a scan that reports the others
lost without any reset (`ControllerCoreDiscovery.cpp:665-687`).

A request that fails is a timeout, with its retry, or any other error, which ends the
operation at once.

Abstracted: the two words of CHANNELS_AVAILABLE are one register. The 12 s wait of the
owner's thread ends only an operation whose next request the reset gate refused, which would
never end otherwise; that it also ends one which is still retrying when the time is over, and
goes on beside it, is left out. The local IRM, reached
through the controller's CSR registers, is not modelled.

### DeviceTable, Discovery

`DeviceTable` has the methods of `DeviceRegistry` and `DeviceManager` as operators, each
a critical section. `Discovery` has the queue's blocks: the reset interrupt, the machine
that aborts the scan, the Self-ID phase, the delayed start, the results and delayed
retries of reads, a manual read, and `OnDiscoveryScanComplete`. What is at the nodes after
a reset is chosen among `Layouts`: both devices, exchanged, one absent, one GUID twice, a
node without GUID.

Between the interrupt and the run of the machine that it queues, other blocks of the queue
can run: those that were queued while the interrupt's own block waited. That is why a
result can complete a scan after the routes were invalidated and before the scan is
aborted. `crossed` records that a scan completed outside its own generation.

Left out: the IRM check (off in the driver), the evidence about the root's capability, the
discovery delay and its back-off, the table of the speed policy, the wrap of the
generation after 256 resets, a topology in which the local node is not known
(`DiscoveryConvergence.hpp:11-13`), a second interrupt between the first one's and the machine
it queued (it would invalidate what is invalid already), the bytes of the ROM (a detail is read completely or not),
the audio catalogue's quarantine, the observers of units.

## 3. Runs

| run | configuration | checks | what it shows |
|---|---|---|---|
| `lifecycle` | `Lifecycle.cfg` | `TypeOK`, `ScopeHoldsProvider`, `OneTeardown`, `QuiescedIsDetached`, `LedgerCoversProvider`, `StoppedIsReleased`, `TeardownTerminates`, `RevocationStops` | the contract of the coordinator holds when a revocation races every other handler; on one queue a stopped driver has released its graph |
| `async` | `Async.cfg` | `TypeOK`, `Exclusive`, `AnsweredOnce`, `LabelsAgree`, `LiveIsCurrent`, `AnswerMatches`, `TracksRequests` | two workloads: a submitter on another queue against completions, timeouts, cancellation and a bus reset; and submissions on the Default queue alone, also from callbacks, where a reset leaves nothing behind and no packet of before it ends a transaction of after it. Both implement `RequestTracking` |
| `async_answers` | `AsyncAnswers.cfg` | `EveryPostedAnswered` | whatever the device does, a posted transaction is answered |
| `reset` | `Reset.cfg` | `TypeOK`, `WorkIsScheduled`, `ConservativeGap`, `MergeKeepsStrength`, `PublishesAccepted`, `CatchesUp` | two bus resets and a request in any order, with runs cut after three steps: no stranded work, requests keep their strength, and the machine comes to rest on the generation of the bus |
| `storage` | `Storage.cfg` | `TypeOK`, `AnsweredOnce`, `CommandsWithinLogin`, `StopDrains`, `NoSilentRelogin` | discovery, login, reconnect and logout with a reset, lost writes, late status blocks and timeouts anywhere, under a host task and probes: one answer per task, no command outside its login, nothing left in a stopped bridge, nor a target with the adapter unless its session ended unreported, and no login under an adapter that was not told |
| `audio` | `Audio.cfg` | `TypeOK`, `RunningIsTrue`, `StopReleases` | starts, stops, clock changes, timing losses, inconsistent cycles, resets, removal, failing stages and teardown on four threads, for three profiles: a session that says it streams does, and a stop that succeeds leaves nothing on |
| `irm` | `IRM.cfg` | `TypeOK`, `HeldIsBacked`, `NothingLeaks`, `OwnerReturns` | two streams against an IRM that others use, with a reset, a lost packet, a failing request and removals at any moment: entries are backed, and what stays behind at the IRM is what was dropped unreleased |
| `discovery` | `Discovery.cfg` | `TypeOK`, `NoNodeStranded`, `TablesAgree`, `SettledIsBound`, `TokenNeverRevives`, `ScanEnds` | scans of two nodes, one reset at any moment, a manual read, failing reads |

Four further runs are expected to find a violation; section 5 tells of them.

**Bounds.** The lifecycle has no unbounded part but the attempts of the wake verification
(two of the code's five: the first that rebuilds and the last that gives up). Two
transactions and two labels are enough for every race of two threads over one label and
for a label to be reused: a bus reset clears the allocator, so the first transaction after
it gets the first label again. One bus reset gives a before and an after. The retry limits
are zero or one instead of two and three, so that both the retried and the exhausted case
occur; the `Racing` workload uses the acknowledges that end, keep or flush a request, the
other one more (those left out are handled like one that is in). The bus reset machine
sees two resets, the second of which can fall at any point of the handling of the first,
and the iteration limit is 3 in place of 12, so that runs are cut. Storage: one reset, one
host task beside two probes, one retry of each kind; a task behind a probe is enough for
the queue, the executor and the agent to hold different commands. Audio: `MaxEvents` is
shared by calls, resets, faults, failures, timeouts and the teardown, four of them in any
mixture; a start, a reset, a failing stage and a stop fit. IRM: two channels and bandwidth for two streams,
two changes by others. Discovery: two devices, of which one is a disk (devices with an
SBP-2 unit are kept over a missing scan), one read in flight, one retry, one speed, two
detail reads. `MaxRootFailures` bounds the failures of root directory reads
(`CountFailures`): without that bound scans need not end, which is the run
`discovery_ends`. Deadlock is not checked: the driver may rest, and does so when a bound is
used up.

**Fairness.** The lifecycle: the two handlers keep running, and a register user leaves its
scope. They are strongly fair where another's lock or flag can disable a step for a while;
that is a dispatch queue running what it holds and a lock being handed over. The async
subsystem: a thread inside it keeps running, posted blocks are run, the watchdog keeps
ticking (strongly fair: the Default queue is busy in between), the deadline of a posted
transaction passes, and a bus reset that began is confirmed and completed. Nothing is
assumed of the device or the AT engine. The bus reset machine: the queue runs what it
holds, time passes, the bus finishes initialising, and an event that is set and not masked
keeps interrupting. The last is an assumption on the controller: interrupts are configured
as MSI (`Service/DriverContext.cpp:356`), and whether a chip repeats the message for an
event that was never acknowledged is not in this code. `CatchesUp` also supposes that the
AT contexts run empty in the end, because the machine polls them without a limit. IRM: the
owner's thread and the blocks of the queue run, and an outstanding request is answered,
lost or timed out. Discovery: a queued block runs, a read that is out succeeds or fails
(its transaction is answered, which is `EveryPostedAnswered`), and a reset that began
ends. Storage states fairness of timers, writes and blocks, and none of the target.
`AudioDuplex` has only safety properties and states none.

**Mutants.** Each property of each passing run is shown to fail under one plausible change
of the code: a dropped guard, a swapped order, a missing reset (`mutants` in
`PROJECT.json`).

## 4. Proofs

Seven modules prove, for every value of the constants, every invariant, action property
and refinement that a passing run checks. What they assume of the constants are
`LifecycleAssumption`, `AsyncAssumption`, `BusResetAssumption`, `DiscoveryAssumption`,
`IRMAssumption`, `StorageAssumption`, `ProfilesAssumption` and `BoundsAssumption`, which the
modules declare: the types of the constants and what the code fixes about them, nothing
more. So the numbers of resets, tasks, retries, transactions, failures and events of
section 3 bound only what TLC sees, not what is proved.

**RuntimeLifecycleProofs**

| theorem | statement | the argument |
|---|---|---|
| `TypeCorrect` | `Spec => [](TypeOK /\ VerifyBelowLimit)` | `TypeOK` is not inductive: `ScheduleWakeVerify(attempt + 1)` stays in range only because a rebuild in progress is below the limit, which is `VerifyBelowLimit` |
| `ScopeSafe` | `Spec => []ScopeHoldsProvider` | strengthened by `GateNeedsProvider`: a scope is admitted by an open gate, and the gate is open only on an attached provider; no step closes either under a scope because the drain waits for it |
| `OneTeardownAlways` | `Spec => []OneTeardown` | inductive with the types: the flag is tested and set in the coordinator's lock |
| `QuiescedDetached` | `Spec => []QuiescedIsDetached` | strengthened by three facts (`FrameIsStarting`, `NotifyIsNotified`, `CompleteIsDetached`): only an accepted start or one overtaken by a revocation brings hardware up, and from Detach to the final transition the provider stays closed |
| `LedgerCovers` | `Spec => []LedgerCoversProvider` | `LedgerKept`: the start stage in the coordinator, and the copy of it in every plan, is not behind what the start pipeline has opened |
| `StoppedReleased` | `Spec => []StoppedIsReleased` | `SerialReleased`: on one queue at most one handler is between its steps (`OneHandler`), so a graph that exists belongs to a start in its frame or to a teardown that has yet to release it (`ReleasePending`) |

**AsyncTransactionsProofs**

| theorem | statement | the argument |
|---|---|---|
| `TypeCorrect` | `Spec => []TypeOK` | inductive once the thread frames are typed with it (`Typed`) |
| `ExclusiveAlways` | `Spec => []Exclusive` | `Owned`: the places where an object can be are disjoint (`Ownership`), and an object in any of them has been created, is not finished and has had no callback (`HeldAlive`) |
| `AnsweredOnceAlways` | `Spec => []AnsweredOnce` | from the same invariant: each extraction moves the object, and the callback is the step that ends the last hold |
| `ImplementsTracking` | `Spec => TracksRequests` | each action maps to a step of `RequestTracking` or to a stutter: the phase of a request depends only on where its object is |
| `LabelsAgreeAlways` | `Spec => []LabelsAgree` | `LabelsAccounted`: each marked label has a transaction, or a thread between allocation and registration or between extraction and release; the converse when only the Default queue submits (`SerialLabels`) |
| `LiveIsCurrentAlways` | `Spec => []LiveIsCurrent` | `SerialReset`, `SerialGen`: with one submitting queue the phases of a reset follow one another without a submission between them |
| `AnswerMatchesAlways` | `Spec => []AnswerMatches` | `WireCurrent`: what is on the wire and carries the present generation belongs to a request of that generation, because a reset empties the contexts before the generation is confirmed |

The invariant of all seven is `Tracked`; its last part, `SerialInv`, is conditional on
`Serial`, as the properties are.

**BusResetCoordinatorProofs**

| theorem | statement | the argument |
|---|---|---|
| `TypeCorrect` | `Spec => []TypeOK` | the types by group of variables (`Typed`) |
| `GapStaysConservative` | `Spec => []ConservativeGap` | every step leaves the pending request, drops it, or defers a *sound* one (`PendingStep`), and merging sound requests gives a sound one |
| `MergingKeepsStrength` | `Spec => MergeKeepsStrength` | from the same lemma: long is a disjunction, the kind is the one of the higher rank |
| `WorkAlwaysScheduled` | `Spec => []WorkIsScheduled` | strengthened to `ScheduleInv`: where the cycle may leave the interrupt masked or the gate closed (`OpenAtEnd`), and that a latched completion or an unseen reset still shows in the event register (`LatchShows`, `ResetShows`) |
| `PublishesAcceptedAlways` | `Spec => PublishesAccepted` | `FiltersOpen`: the steps from which a topology is handed on are reached only with the gate open; `BlocksFollow`: a queued hand-off is for the topology held |

**DiscoveryProofs**

| theorem | statement | the argument |
|---|---|---|
| `TypeCorrect` | `Spec => []TypeOK` | from the three invariants below and `CountsInv` |
| `NoNodeStrandedAlways` | `Spec => []NoNodeStranded` | `SessionInv`: the session is `Whole` (each node's outstanding results and timers follow from its state, and the in-flight count is the number of nodes being read) and `Moving` (something is still to come). The core is `PumpWhole`: starting as many idle nodes as there is room for leaves none idle with nothing in flight, by counting |
| `TablesAgreeAlways` | `Spec => []TablesAgree` | every block on the queue changes both tables and the index together; one lemma per block says what it leaves (`BlockOutcome`, `ScanEffect`) |
| `SettledBoundAlways` | `Spec => []SettledIsBound` | `TablesInv`: what each published device is bound to while a scan is on its way (`BoundOK`) |
| `TokensNeverRevive` | `Spec => TokenNeverRevives` | `RoutesInv`: the epoch in a token never exceeds that of its device, and every step that ends a route raises the epoch or leaves it ended |

**IRMClientProofs**

| theorem | statement | the argument |
|---|---|---|
| `TypeCorrect` | `Spec => []TypeOK` | `Typed`: each lock has the shape its stage gives it (`LockShaped`), so what it writes is a value the register can have; what the client does fits where the owner's thread is (`Where`) |
| `HeldIsBackedAlways` | `Spec => []HeldIsBacked` | `GenInv` and `LedgerInv`, below |
| `NothingLeaksAlways` | `Spec => []NothingLeaks` | the same: an owner at rest has no operation, so nothing is claimed beside the entries and what was abandoned |

`GenInv` ties everything to bus generations: an operation or entry of the present
generation exists only while driver, client and bus agree on it, entries are in the order of
their generations, and a success is reported only with both resources granted. `LedgerInv`
is an accounting: the IRM's free channels are those the ledger calls free; the bandwidth
left, ours and others' add up to the maximum; and what is ours is `Claimed`, one share per
current entry, one per abandoned channel, and one more while the operation in progress holds
units not yet recorded or not yet given back. A lost answer or a reported failure loosens it by a named flag, in the
same way as in the properties. The one place where the code needs an argument is
`CreditFits`: a release skips its credit when the value it reads is too high or equals what
an unanswered lock of its own would have written, and the accounting shows that neither
happens to a reservation of the present generation unless an answer was lost.

**SBP2StorageProofs**

| theorem | statement | the argument |
|---|---|---|
| `TypeCorrect` | `Spec => []TypeOK` | `State(n)`: the types of all fields, with probes no newer than the gate's epoch `n`; the probe count needs `Probing`, the retry counts are guarded |
| `AnsweredOnceAlways` | `Spec => []AnsweredOnce` | `Once`: no task stands twice in the bridge's queue or both there and with the executor, and none that is outstanding has been answered |
| `CommandsWithinLoginAlways` | `Spec => []CommandsWithinLogin` | `Legs` and `Carried`: which timers a session can have in which state, so that no timer takes a logged in session out of its login without unbinding the agent and flushing the executor |
| `StopDrainsAlways` | `Spec => []StopDrains` | `Stopped`: a stopped bridge has also no record, edge, scheduled pump or active gate, so a task that comes later is answered at once; an adapter that stays up went through the gate (`Told`), which is shut unless the end was silent (`Reported`) |
| `NoSilentReloginAlways` | `Spec => NoSilentRelogin` | `Reported`: while no login exists the newest edge on its way says so, and if none is on its way the gate is shut already |

The invariant is `InOrder`, the conjunction of these parts over the whole state as one
record. A handler is an operator on that record, so the proof follows the calls: a lemma per
operator says what it keeps (`Carries`: types, ledger, and that nothing was added that was
not outstanding before), from the fetch agent's `FailORB` up to the blocks of the queue.
`Probing` is the one part that was not in a property: the gate waits either for its timer
or for a probe that is outstanding, never for both, which is why a probe that is answered
late, after a relogin, cannot spend the budget of the next round.

**AudioDuplexProofs**

| theorem | statement | the argument |
|---|---|---|
| `TypeCorrect` | `Spec => []TypeOK` | `Proper`: restart ids, tokens and routes that anyone holds lie behind the counters they were drawn from; `Flow`: the registers a program counter needs are set |
| `RunningIsTrueAlways` | `Spec => []RunningIsTrue` | `Staged`, `Stored`: below |
| `StopReleasesAlways` | `Spec => []StopReleases` | `Off`, `Rested`: below |

The invariant `InOrder` says what each thread's control point implies and what the stored
session implies. `Alone` is the gate's promise, one body at a time, which holds as long as
no removal freed the gate under one. Under it a start at stage k has the effects of all the
stages before it on the host and on the device (`Staged`), and since no other body runs,
only a reset or a removal can move the state under it; a reset changes the route, and then
the reservations are no longer claimed to be of the route's generation. A session is marked
running only behind the last stage, so whenever nobody is between two changes (`Still`)
the mark tells the truth (`Truthful`), and an idle session has nothing on (`Rested`). That
second half is what a stop that returns early relies on, and `Off` names the other places
where the host is off: behind the host's own stop, and around an idle clock change.

The inductive invariants were checked with TLC on the instances of the runs, or larger
ones, before they were proved. The proofs go one step per action; what a handler does to
the state is stated once as a lemma and used wherever the handler is called.

Five properties name a case they leave out, by a history field: `NoSilentRelogin`,
`StopDrains`, `NothingLeaks`, `RunningIsTrue` and `StopReleases`. The attempt to prove them without it failed for a
reason that is in the code and, for the two of `AudioDuplex`, beyond the four events of the
run; the table of section 5 has the behaviours.

Only model-checked, and for good: the liveness properties `TeardownTerminates`,
`RevocationStops`, `EveryPostedAnswered`, `CatchesUp`, `OwnerReturns` and `ScanEnds`, since
the prover does not reason about fairness. The runs of section 5 refute what they check,
which needs no proof.

## 5. Where the code and its own words disagree

Each of these four has a run:

- **`async_assert`** (`NeverAsserts`). `Submit` hands the chain to the AT context and then
  calls `OnTxPosted`. A completion handled on the Default queue in between finds the
  transaction in `Submitted` and asks for a transition that `IsValidTransition` refuses,
  where `Transaction::TransitionTo` asserts. The transaction is still answered once
  (`AnsweredOnce` holds in the same model).
- **`reset_flush`** (`QuiescingFlushes`). A reset whose edge was cleared while masked is
  handled by the late Self-ID path with `stopFlushIssued_` left over from the cycle before:
  the async gate is not closed and requests of the old generation stay in the table.
- **`audio_rate`** (`PickHonoured`). A rate picked while idle goes to `appliedClock` only;
  after an earlier start the next one prefers `desiredClock` and goes back to the old rate.
- **`discovery_ends`** (`ScanEnds`). A failed root directory read goes back to the bus info
  block with one retry less, and `StartRootDirRead` refills the retries: with the driver's
  parameters a node whose root directory never reads is retried for ever, and no scan
  completes.

The modules state further sentences of the code's comments that TLC refutes, each within
seconds to a minute when it is put in place of the property of the named configuration
(the two of `AudioDuplex` with six events take a quarter of an hour or more):

| definition | configuration | what happens |
|---|---|---|
| `TimingFollows` (`BusResetCoordinator`) | `ResetFlush.cfg` | the late Self-ID path neither anchors the post-reset timing gates nor arms the holdoff |
| `PublishedOnce` (`BusResetCoordinator`) | `ResetFlush.cfg` | a reset in `WaitingSelfID` is decoded on the completion bit of the one before; its own bit starts a second cycle, and discovery is told twice |
| `TasksAnswered` (`SBP2Storage`) | `Storage.cfg` | a command queues behind an ORB_POINTER write whose ORB has already completed; when that write fails nothing drains the queue |
| `ReadyMeansUsable` (`SBP2Storage`) | `Storage.cfg` | a session caught by a reset while logging in logs in with the old route and is ready while every command is refused |
| `ReconnectSettles` (`SBP2Storage`) | `Storage.cfg` | after a failed reconnect write the retry is refused by the state it is in |
| `NoDanglingORB` (`SBP2Storage`) | `Storage.cfg` | a late status completes a command whose ORB is still with the agent |
| `RebindAlways`, `StopWins` (`AudioDuplex`) | `AudioRate.cfg` | a rebind is refused while a timing loss is outstanding, which is then dropped; a recovery queued before a stop restarts the stopped stream |
| `RunningIsTrue` without `"operation" \notin removal.left` (`AudioDuplex`) | `Audio.cfg` with `MaxEvents = 6` | a removal's `ClearSession` frees the gate of an operation that still runs (`AudioCoordinator.cpp:164`); the next operation enters beside it, and each undoes what the other's session says is on |
| `StopReleases` without `removal.left = {}` (`AudioDuplex`) | `Audio.cfg` with `MaxEvents = 6` | a rollback's or a removal's stop of the host is refused and the removal completes (`AudioCoordinator.cpp:145`); a rate change while idle stores an idle session, and the next stop returns early with success and the host on |
| `NoSilentRelogin` without `bridge'.silent` (`SBP2Storage`) | `Storage.cfg` | a reconnect that cannot allocate its address ranges fails without a callback; the next login starts while the adapter still has the old one |
| `StopDrains` with `~hub` in place of `hub => ...` (`SBP2Storage`) | `Storage.cfg` | after a reset the session cannot reconnect and fails silently; the next publication releases it and gets no new one, so the stop finds handle 0 and does not tell the adapter, which "is a terminal down-edge for the HBA" (`SBP2TargetBridge.cpp:163-172`) |
| `NothingLeaks` with `{}` in place of `ledger.abandoned` (`IRMClient`) | `IRM.cfg` | the device is reported lost without a reset and the entries are dropped unreleased, though "a reset is the allocation invalidation boundary" (`IsochDuplexHostTransport.cpp:214-218`) |
| `ReleaseOfItsGeneration` (`IRMClient`) | `IRM.cfg` | a stop after a reset releases the old reservations in the new generation |
| `HardBoundary` (`Discovery`) | `Discovery.cfg` | a scan that completes between the reset interrupt and the reset machine binds devices to the generation that ended |

## 6. Not modelled, and the plan

Planned, in this order.

1. `BusResetAsync`: composition of the bus reset machine with the async subsystem, in
   place of the two variables (`gate`, `stale`) by which each now sees the other; a
   `StepWaitingSelfID` split between decoding and clearing.
2. `GenerationTracker` and `PayloadRegistry`: epochs, the eight-bit wrap, payloads attached
   after the request was posted.
3. `ATContext`, `ARStream`: descriptor ring, branch and wake protocol, stop and flush,
   reassembly over two buffers. Abstract specification: a queue.
4. `SelfIDTopology`: stream parser, normaliser and tree reconstruction as functions, checked
   against a reference over all small trees.
5. `BusManagerElection`, `RolePolicy`: election by lock, root and gap policies together
   with the bus reset machine (do they converge?).
6. `IsochTxRing`, `FCPTransport`, `CMPClient`.

Theorems worth proving next: those of the modules planned above. No invariant or action
property of a passing run is without one.

Hazards seen and covered by no property: a response after its request timed out matches the
next holder of the label (only the distance of 64 labels stands against it); generations
wrap after 256 resets, and generation 0 means none to the scanner; a reset between
`DecodeSelfID` and `ClearConsumedSelfIDInterrupts`; a software reset that is dropped when
its dispatch fails or when a bus reset edge discards it; delegation that is suppressed for
good; a reset during an agent reset; a clock request queued after the last look at the
queue; a start that goes on while the service is torn down; the missing count of a disk,
which every reset clears.

Left out for good: register sequences and packet layouts (I/O and formats), sample formats
and codecs, the static device profiles, logging and diagnostics (they observe and change
nothing), the Swift application and the tools, and the headers of the vendored SDKs; these
are the greater part of the repository's lines. The retry queue behind `ReadWithRetry` has
no caller in the driver. Durations are not modelled: a block that sleeps on the Default
queue only delays the others.
