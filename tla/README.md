# TLA+ models of nyanpasu-service

nyanpasu-service is a privileged background service that runs one proxy core
(mihomo, clash, clash-rs) for a desktop client. The client talks to it over a
local pipe (HTTP requests and a websocket of events). This directory holds TLA+
models of the parts of the service that keep state and run concurrently, the TLC
configurations that check them, and TLAPS proofs about them. `PROJECT.json` maps
every definition to the source lines it models.

`CM` below is `src/crates/nyanpasu-core-manager/src`, `SR` is
`src/crates/nyanpasu-service-runtime/src`.

## 1. The system

| part | state it keeps | operations | talks to |
|---|---|---|---|
| core manager, `CM/manager/*` | `Ctrl` under one async mutex: current core, last spec, quarantine list; epoch counter; status watch | `start`, `stop`, `shutdown`, `switch`, `restart`, `apply_config`, `recover_quarantine`, construction with an orphan sweep; a forwarder task per installed core | instances, runtime store, status watchers |
| instance, `CM/instance.rs` | status watch (lifecycle and health), cancellation tokens, supervisor handle | spawn, `wait_ready`, `probe_now`, `stop_and_confirm_dead`, drop; a monitor task | supervisor events, probe driver |
| probe driver, `CM/health/driver.rs` | probe in use, pending reconcile answers | periodic attempts, `use_liveness`, `reconcile`, `stop` | monitor |
| health tracker, `CM/health/mod.rs` | state, two streak counters | `observe` | monitor |
| runtime store, `CM/config/runtime_store.rs` | files `config-{epoch}.yaml`, backups, pid records | stage, commit, replace, backup, restore, cleanup, scan | manager |
| adapter, `SR/server/manager_bridge.rs` | control mutex with the closing latch, two check permits, the type echo | one method per IPC request; shutdown | manager, status bridge |
| status bridge and hub, `SR/server/manager_bridge.rs`, `events.rs` | last legacy state; broadcast rings | forward each transition | websocket connections |
| websocket connection, `SR/server/routing/ws.rs` | its ring receivers | snapshot on connect, forward, snapshot on lag | client |
| supervisor and pid-record reaper | process, epoch pid record | spawn, respawn, kill, reap | external crate `nyanpasu-utils` |
| config documents, `CM/config/{mod,clash,diff,mihomo}.rs` | none | derive, diff, classify, patch, verify, zero, overlap test | manager |
| log parser, `CM/log.rs` | one open record per stream, the premium date | `push`, `finish`, the header parsers | instance |
| log archive, `CM/log_sink.rs` | batch, open file, directory | drain, write, rotate, prune, shutdown | log broadcast |
| clash API client, `src/crates/clash-api` | retry iterator, line stream | one method per endpoint | the core's controller |
| IPC client and router, `src/nyanpasu_ipc`, `SR/server/routing` | log buffer | one operation per request, layers, envelope | adapter |
| service process, `src/nyanpasu_service`, `SR/cmds/server.rs` | shutdown token, SCM status, listener | launch, serve, stop | service manager |
| command line, `SR/cmds/*` | none of its own | install, uninstall, start, stop, restart, update, status, rpc | service manager, service |

What makes it hard:

- an operation spans many awaits and holds the mutex over all of them, while the
  core it controls may crash, become ready or stop on its own;
- the death of a process can be uncertain: then its epoch is *quarantined* and
  nothing may be launched until it is proven dead;
- a graceful switch runs two processes at once, the new one without inbound
  listeners until the old one is dead;
- the service itself may be killed at any point; what is on disk then is all the
  next start knows;
- an operation runs inside the future of its HTTP request, so a client that goes
  away drops it at an arbitrary await;
- every status passes through coalescing watches and rings that overflow.

## 2. Modules

### CoreManager

One module for the control plane. An epoch is a number; a revision is an
`(epoch, generation, spec)` record; a config file is absent, `full` at some
revision, or a `bootstrap` document without inbounds. The variables:

- `current`, `lastSpec`, `quarantine`, `proven`, `epoch`: the fields of `Ctrl` and
  the epoch counter (`proven` are the `death_proven` flags);
- `life`, `supervised`, `proc`: for each epoch the published lifecycle of its
  instance, whether the supervisor still runs it, and the process that may be
  alive, with the config it was started from;
- `config`, `record`, `backup`: the files of the epoch;
- `fwd`, `status`: the forwarder's epoch and the published status;
- `pc`, `op`, `held`: the point the running operation has reached, its local data,
  and the instances only it owns; `pc = "idle"` means that the mutex is free.

One action stands for the code between two awaits at which something else can
happen. `stop_and_confirm_dead` is two steps (the request, and the outcome:
confirmed or not), with everything the caller does synchronously in the second
step. Every `?` on a file operation is an alternative with a `Fault`.
`GracefulSpecs` are the specs for which a graceful switch is possible; the
classification of two documents is an input. Further actions are the instance's own
(`InstanceReady`, a crash, a respawn, its end), the forwarder's, the kill of the
service and its next construction, and `DropOperation`, enabled by
`CallerDrops`: the running operation's future is dropped with all it owns.

### ServingSlot

What the manager promises its users: at any time at most one epoch serves
traffic, a new epoch is taken only when the slot is free. `CoreManager`
implements it with the refinement mapping `Slot` (serving = the live processes
started from a full config).

### Instance and HealthTracker

`Instance` is one instance: supervisor (external, from its uses), its event
queue, the monitor task with the biased `select!`, the probe driver, the
startup deadline, one `wait_ready`/`probe_now`/`stop` caller and the drop. A
process is identified by its pid, the n-th start has pid n. Reading the watch and
writing it back are separate steps, as in the code. `HealthTracker` holds
`HealthTracker::observe` as operators on a record; `HealthReference` feeds them
every sequence of results and compares them with a definition over the whole
history.

### StatusStream, ServiceControl, IpcCall (MCService)

`StatusStream` is the path of a status change to a websocket client: manager
watch, echo watch, status bridge (legacy frames deduplicated, suppression of
transients, snapshot frames), ring of bounded capacity, and a client that
connects, receives, lags, gets a snapshot and disconnects. Reading a watch and
sending the frame are separate steps.

`ServiceControl` is the adapter between the requests and the manager: the mutex
with its closing latch, refusals, the type echo that is committed only with
certain answers, the check permits, requests dropped while they wait or run, and
the shutdown of the server (drain, latch, final manager shutdown). The manager is
reduced to the core it runs and an arbitrary outcome of each call.

`IpcCall` follows one request at a time: the contract decides method, path and
body; the router, the timeout and the panic layer may answer before the handler;
the handler maps a manager result (an outcome or an error, inside any number of
durability warnings) to the envelope; the client reads the answer in two stages,
by status and by envelope, and the shortcut asks for data where the contract has
some. A request can be cut off at each stage. The `/logs` buffer is the state that
requests share.

`MCService` is their sum: a behaviour is about one of the three.

### ServiceHost and ServiceCli (MCServiceCli)

`ServiceHost` is the installed service as the operating system sees it. On Windows
the thread of `run_service` and the server thread share the token that
`cmds/server.rs` stores; elsewhere `main` only selects between signal and handler.
Steps are boot, store token, bind (over a stale socket), serve, close, drain,
report. The service manager is external: it launches, delivers stop controls and
answers status queries. When the pending stop cannot be reported (`ReportFails`),
`run_service` leaves before it cancels the server, its guard tells the SCM Stopped
beside a running server, and `service_main` panics (`Panic`). `ServiceCli` adds
command-line processes: a command is the sequence of steps it has left, a query
replaces itself by what the status calls for. Nothing locks commands against each
other, so what they read may be stale. A copy that breaks off leaves a `Torn` binary
in place. The worker thread of `stop`, its eight-second limit, the kill (which looks
for the process by its working directory and may miss it) and the drop of the runtime
that waits for the worker are separate steps.

### LogParser, LogText, PremiumClock, LogArchive

`LogParser` is the record assembler: lines of two streams, an error record held
back until the next root of its stream, continuations, the two texts with their
byte limits (a text is a sequence of pieces, a piece the first n bytes of a line).
`LogText` has the header parsers as operators on sequences of symbols, and for
each parser a printer of what the core means: the properties say that parsing
what was printed gives back what was meant. `PremiumClock` is the date inference
for clash premium, with hours for instants. `LogArchive` is the sink task: the
broadcast ring with lag, `recv`, `try_recv`, cancellation, the writer with its
buffer and every disk call that can fail, an abort, and the death of the process.

### ConfigChange, RuntimeStore, ClashClient

`ConfigChange` takes two documents and computes what the code computes: the
effective documents, the paths that differ, noop/patch/reload/switch, the patch
and the leaves that verification expects, the zeroed bootstrap, the restoration
and the overlap test. Each class of keys that the tables of `mihomo.rs` tell apart
is represented by one or two keys. `Patched` and `Settings` (what a core runs with,
defaults filled in) are the core's own behaviour, external; `RuntimeConfig` is the
typed reply in which the client reads them back.

`RuntimeStore` splits the store's methods into their file system calls. A file is
its document and whether it was synced, the directory is what the process sees and
what a power failure may fall back to; a call may fail, be dropped, or be the last
of the process, and the removal of a staged file may fail unnoticed (`stuck`).
Windows has no directory sync and claims nothing for a power failure (the core
manager's README.md:437-439), so there the promises last until one. `CoreManager`
uses the same operations as one step each.

`ClashClient` is a client, its one call and the controller behind it: an attempt
may be executed before or after its timeout or never, the retry policy decides on
the next one. The table of endpoints carries each operation's method and
`retry_safe` flag from the source. A call whose arguments do not pass the checks of
their constructors is refused before anything is sent; the fields of a `DelayQuery` are
public, so one may also be made without them. The lines of a stream arrive and are
read in separate steps.

`MCComponents` is the sum of these seven and `HealthReference`, and holds the
tables of lines and documents that are tried; `MCConfigChange` holds those of
`ConfigChange`.

## 3. Runs

Passing runs (distinct states, two workers):

| run | states | what it shows |
|---|---|---|
| `manager_safety` | 1.5 M | two full-config processes never coexist; every process that may be alive has its pid record, and is owned by `current`, the running operation or quarantine; between operations the file, the process and the active revision agree; nothing is launched under quarantine; until the first fault the status carries the revision of the retained core (its state may be stale, as `manager_terminal_violated` shows) and says Stopped without one, and no backup is left; `ServingSlot` is implemented |
| `manager_drops` | 0.39 M | every operation ends, also when callers drop operations |
| `instance` | 0.33 M | one readiness acknowledgement per process, health belongs to the current process, `Ok` from stop means dead, a timed-out start never becomes ready; `wait_ready` and `probe_now` answer, a dropped instance ends |
| `service` | 0.1 M | a client that received all its frames knows the current status, and every connected client converges; no core runs after the shutdown, the echo names the running core's type, permits are neither lost nor exceeded, the shutdown completes; an answer is read as what happened, always in the envelope, with the inner kind and outcome; each log line is returned at most once |
| `service_lifecycle` | 0.30 M | a definition never precedes what it needs, and an install that succeeds leaves a binary that can run; a stop that succeeds holds: no relaunch, and no process or one that was told to end; status is probed; an update takes effect off Linux; a stop ends, a stored token stops the process, a launched service comes to listen |
| `components` | 0.94 M | see below |

`components` checks, for each part:

- *log parser*: every line is in exactly one place of one record of its own stream
  or behind a truncation mark; texts respect their limits and characters, and both
  texts of a record stop at the same line; frames leave in the order of their
  roots; the summary is the newest of the worst. The header parsers read back what
  the cores print, for every text over small alphabets of the special characters;
  the inferred premium instant is the printed one;
- *log archive*: every frame is written once, in order, or counted by a gap, and the
  files read back say so; shutdown drains; a file exceeds its limit by one record at
  most; only a last line is torn; the active file is never pruned and retention
  converges;
- *configuration*: a patch makes the running document the desired one, leaf by leaf;
  a core that verifies, having applied all or any part of the patch, has every
  setting as desired that a patch can express. Two things it cannot: a TUN stack the
  client does not know, and null. A field wanted null beside another difference
  keeps its old value and the change still verifies, whereas the core manager's
  README.md:13-17 speaks of fully expressible changes. Nothing in place touches the
  endpoints; a graceful switch starts a bootstrap that listens nowhere and can be
  restored; two epochs never share an endpoint;
- *runtime store*: installed documents are whole after every crash; a commit
  reported durable survives; staged files linger only when their removal fails; a
  successful cleanup leaves nothing, these included; a manager opens on an empty
  directory;
- *clash client*: a call that must not be repeated is executed at most once; giving
  up means that the policy is used up; durations fit what the controller parses them
  into; the error body is the head of what came; a stream gives out every line of its
  body in order before it ends;
- *health tracker*: its state is the hysteresis of the history.

Runs that end in a counterexample; each is a disagreement between the code and
its documentation, described under `findings` in `PROJECT.json`:

| run | behaviour |
|---|---|
| `manager_retained_violated` | unconfirmed death of a rejected bootstrap publishes `Stopped` over a retained, running core |
| `manager_terminal_violated` | `republish_retained` overwrites a terminal state |
| `manager_nocore_violated` | a failed cleanup in `start` returns with the old status still active |
| `manager_dropped_violated` | a dropped operation leaves a process that nobody owns |
| `config_zeroable_violated` | an empty `dns.listen` ends the overlap test before the other inbounds are looked at |
| `service_stop_violated` | a stop control before the token is stored reaches nobody |

### Bounds

- `MaxEpoch` 3 allows a start, a switch and its rollback (each takes an epoch), or
  a start, a kill and a start after the sweep; `MaxGen` 2 lets an apply follow
  another on one epoch. Two specs, one that can overlap and one that cannot,
  give every kind of switch.
- `MaxCrashes`, `MaxFaults`, `MaxKills` of 1 put one such event at every point of
  every operation. Two independent faults in one operation are only covered
  where the code reports them together.
- `manager_drops` has `MaxEpoch` 2: a dropped operation, then another one beside
  what the first left behind.
- `Instance`: two processes (one respawn), thresholds and counter cap of 1, no
  start period; the thresholds themselves are the subject of `HealthReference`
  (thresholds 3 and 2, cap 4, nine results).
- `StatusStream`: a ring shorter than the number of changes, so that it overflows.
- `ServiceControl`: two clients and four requests, so that one request waits for
  the mutex while another holds it and the shutdown starts. `IpcCall`: two
  requests and three lines over a buffer of two, so that lines are evicted.
- `ServiceCli`: two commands at once or in a row, two launches, one fault (crash,
  hang, torn copy, failed step or report, missed kill), two versions, all three
  platforms.
- `LogParser`: four lines, text limit 6, two continuations, so that one record
  overflows in lines and another in bytes while both streams are open.
  `PremiumClock`: three days, correction of up to two hours.
- `LogArchive`: ring of 1, batch of 2, three frames, limit 2, so that lag, full
  batches and rotation inside a batch happen; two runs of the process, one fault.
- `RuntimeStore`: one epoch (files of different epochs share no name), three
  stages, two faults. `ConfigChange`: every pair of documents over each key alone
  and over the pairs of keys that meet in one decision.
- `ClashClient`: two retries, integer widths scaled to 2 and 4, body limit 3.

Deadlock is not checked: an idle manager whose bounds are exhausted, an ended
instance, a stopped server and a finished command really stop.

### Fairness

`CoreManager!FairSpec`: weak fairness of the operation in progress (tokio polls a
woken task) and of the startup deadline of each instance: one that is still
starting or restarting is stopped if it does not become ready, which the deadline
in `instance.rs` guarantees. Requests, forwarders, crashes and kills are not fair.
`Instance!FairSpec`: weak fairness of the monitor, supervisor, timers and the
stopping caller; strong fairness of the driver's command and of the monitor's
drain, which `select!` and the queue do not starve; nothing makes a probe succeed.
`StreamFairness`: the bridge and a connected client's sender; not the client's
disconnect. `ControlFairness`: request handlers and the shutdown sequence, with
strong fairness for the latch's turn at the mutex (tokio's is FIFO).
`HostFairness`: the threads of the service process, scheduled by the operating
system; for the commands only the threads of a `stop`. A hung server takes no
step, whatever fairness says.

## 4. Proofs

The theorems hold for every value of the constants, from the named assumptions of the
module that declares them. The manager's proofs are in the four modules
`CoreManagerInv`, `CoreManagerStop`, `CoreManagerSwitch` and `CoreManagerProofs`, the
instance's in `InstanceProofs`, those of the status stream and the adapter in
`ServiceProofs`, those of the commands and the service process in `ServiceCliProofs`,
and those of the runtime store, the premium clock, the health tracker and the log
directory in `ComponentProofs`.

| module | theorem | statement |
|---|---|---|
| `CoreManagerProofs` | `ControlInvariant` | `Spec => []ControlInv` |
| | `TypeCorrect` | `Spec => []TypeOK` |
| | `RecordKept` | `Spec => []LiveHasRecord` |
| | `QuarantineHolds` | `Spec => QuarantineBlocksLaunch` |
| | `EveryCoreOwned` | `Spec => []LiveIsOwned`, without `CallerDrops` |
| | `OneCoreServes` | `Spec => []OneServingCore`, without `CallerDrops` |
| | `SlotImplemented` | `Spec => ImplementsServingSlot`, without `CallerDrops` |
| | `RevisionCommitted` | `Spec => []CommittedRevision`, without `CallerDrops` |
| | `StatusHolds` | `Spec => []StatusUntilFault`, without `CallerDrops` |
| | `BackupsRemoved` | `Spec => []BackupsUntilFault`, without `CallerDrops` |
| `InstanceProofs` | `InstanceInvariant` | `Spec => []InstanceInv` |
| | `AcknowledgedOnce` | `Spec => []AckOnce` |
| | `StatusNamesItsRun` | `Spec => []HealthMatchesPid` |
| | `StoppedIsDead` | `Spec => []StopOkMeansDead` |
| | `TimeoutIsFinal` | `Spec => TimedOutNeverReady` |
| `ServiceProofs` | `StreamInvariant` | `StreamSpec => []StreamInv` |
| | `QuietClientCurrent` | `StreamSpec => []QuiescentClientIsCurrent` |
| | `LegacyFollows` | `StreamSpec => []LegacyIsCurrent` |
| | `AdapterInvariant` | `ControlSpec => []AdapterInv` |
| | `ShutdownIsFinal` | `ControlSpec => []NoCoreAfterShutdown` |
| | `EchoFollowsCore` | `ControlSpec => []EchoMatchesCore` |
| | `PermitsKept` | `ControlSpec => []ChecksAccounted` |
| `ServiceCliProofs` | `DefinedIsUsable` | `Spec => DefinitionUsable` |
| | `StopsHold` | `Spec => StopHolds` |
| | `ReportsHold` | `Spec => ReportsAreTrue` |
| `ComponentProofs` | `StoreInvariant` | `StoreSpec => []StoreInv` |
| | `StoreKeepsItsWord` | `StoreSpec => []StoreSound` |
| | `StoreLeavesNothing` | `StoreSpec => NothingLeftBehind` |
| | `PremiumDateFollows` | `ClockInit /\ [][ClockNext]_clockVars => []DateFollows` |
| | `TrackerTellsHistory` | `HealthInit /\ [][HealthNext]_healthVars => []TrackerFollowsHistory` |
| | `RetentionHolds` | `ArchiveInit /\ [][ArchiveNext]_archiveVars => RetentionConverges` |

### Core manager

From `SpecsAssumption` and `BoundsAssumption`. The first four theorems hold whether or
not callers drop operations; the other six are stated without dropped operations,
because with them a process can be left that nobody owns, as
`manager_dropped_violated` shows.

*The first invariant.* `LiveHasRecord` alone is not inductive: whether the cleanup of
an epoch may delete a record depends on what the operation has confirmed by then.
`ControlInv` (in `CoreManagerInv`) therefore has one predicate per await, `At...`,
gathered in `PointInv`: whether `ctrl.current` is retained or taken, which instances
the operation owns, which of its revisions are dead, and that a successor has no
inbounds, in its process or its file, until the old core is dead. To these it adds
what holds everywhere: `Ownership` (only owned epochs are supervised, quarantined
ones are not), `Processes` (a proven entry is dead, a live process has an allocated
epoch and a record) and `Control` (no quarantine inside an operation that can launch,
a service that is down has no memory, the epoch counter is ahead of all epochs in
use). The rest of `CoreManagerInv` are lemmas on the building blocks: what a
confirmed stop, an unconfirmed stop, a cleanup, a spawn, a latch change.
`CoreManagerStop` (requests, start, stop, recovery and the environment: crashes,
respawns, drops, kill and construction) and `CoreManagerSwitch` (switch, its
rollbacks and apply) prove that each action preserves `ControlInv`, one lemma per
action; `CoreManagerProofs` puts them together.

*The second invariant.* `OneServingCore` needs more than the processes: a supervisor
may respawn a core from a file that has become full. `OwnerInv` therefore says that
every live process is owned and that at most one epoch *may serve*, now or after a
respawn (`OneMayServe`). In a state without quarantine this follows from `ControlInv`
and ownership (lemma `Alone`); every other step only removes candidates
(`NoNewServer`). For the refinement each step also satisfies `NoHandover`: an epoch
that begins to serve does so when no other served.

*The third invariant.* `CommittedRevision` speaks of idle states only. `RevisionInv`
says which revisions agree with their epoch's file, and with the live process as well,
at each await: the active one always, except between the commit of an in-place apply
and its publication; what the operation is about to launch or install; and what it may
have to fall back to, which is in its file or, for an in-place apply, in the backup
(`Saved`). It rests on `ControlInv` only. It is proved without dropped operations: one
dropped between the commit of an apply and its publication leaves the new file under
the old revision.

*Until a fault.* The status and the backups are right only as long as no fault has
occurred, as `manager_nocore_violated` shows for the status. `StatusInv` says of that
time that nothing is quarantined, that the status names the active revision at the
points where an operation has published nothing yet, and that it is `Stopped` when
there is none. `BackupInv` says that a backup of an epoch *in play* (active, held by
the operation, or not yet handed out) is the one the apply in flight has taken. A
failed rollback may leave its backup behind, but then its epoch is no longer in play.
`StatusInv` is preserved by lemmas in `CoreManagerStop`, `BackupInv` by lemmas in
`CoreManagerSwitch`; both use `ControlInv`, the second one also the first.

### Instance

From `InstanceAssumption` and `ThresholdAssumption`. That a run is acknowledged once
depends on the order in which the monitor learns of runs, and that order is in the
supervisor's event queue. `EventsInv` says that every unread `Started` follows a
`Restarting` (or finds the monitor settled) and that the announced pids grow and lie
above the runs the monitor has begun. `AckInv` then gives a new run an acknowledgement
count of zero, and `StatusInv` carries it over the two-step publication: what the
monitor holds between reading the watch and writing it belongs to the current run.
`StopInv` says that a call that returned has cancelled the supervisor, so nothing is
respawned after it; `TimeoutInv` that after a startup timeout there is neither a
driver nor an unread observation and the monitor sees the cancelled probes before it
begins another run.

### Status stream

From `StreamAssumption`. Currency of the client is a property of quiet states only, so
the invariant says what holds in between: `CurrentFrames` are the frames that agree
with the manager and the echo in each part for which no notification is outstanding;
without a lag the newest status event in the ring is one of them, and if the ring has
none, what the connection has sent or read is (`ConnInv`). The lemma on the ring
(`SendEffect`) says that a receiver that has not lagged loses nothing.

### Adapter

From `ControlAssumption`. `OneInside` identifies the holder of the mutex with the one
handler inside it and says that after the latch nobody is; `EchoInv` covers the window
between the manager's answer and the commit of the echo. The permit account is over
the set of running checks, so its steps use the cardinality of finite sets.

### Service commands and process

From `PlatformsAssumption` and `VersionsAssumption`. A command is a list of steps still
to be done (`todo`), so the invariants say what a list that misses a step implies.
`HostInv`: the service manager says stopped exactly when there is no process, and only
the Windows SCM knows a pending stop. `InstallInv`: a list without the copy means that
a file is in place, one without the grant that the group is, and both hold once the
service is defined; since any number of commands overlap, this is kept for each of
them by the steps of the others. These are `BaseInv`, which gives the first half of
`DefinitionUsable`.
`ReportInv` is for the reports: `ReadInv` fixes the lists of the commands that only
look, `AloneInv` says that a command marked as alone is the only one that changes
anything, and `UpdateInv` gives an update its phase. For an update that is alone, on
the platforms where install and update agree on the path: once the copy is made, the
file is the new version and so is a live process. On macOS, where the manager relaunches
what is loaded, this needs the phases before the copy as well: when the stop has
returned, the job is unloaded and no process is left.
`CourseInv` is for `InstallTakesEffect` and `StopHolds`: the steps an install or a stop
has left are told by the first of them, and at each of these points it says what the
command knows of the service while it is alone. For an install (`InstallKnows`): a whole
binary after the copy, the group after the grant, the definition after it was written.
For a stop (`StopKnows`): once the worker's call was accepted nothing relaunches the
service; once it returned the process is gone or, on Windows, told to end; and off
Windows the call cannot fail, because the service was seen running and neither the kill
nor anybody else has undefined or unloaded it since. The steps of the process keep this
(`KnowsHost`), so do the commands that only look, and no other command changes anything
while a command is alone.

### Runtime store

No assumption on the constants. `StoreTypeOK` includes that configurations and backups
are whole and synced in both images of the directory. `CallInv` says at each file
system call what the ones before it have established (an install has a whole staged
file, the directory sync follows an install, a removal still covers every file of its
epoch), `PromiseInv` that both images keep what was reported, so that any mixture of
them after a power failure does, `GuardInv` that a staged name is not used twice, and
`PhaseInv` that a manager that opens has every remaining file on its list. On Windows
the synced image promises nothing, and a power failure takes the promises with it. The
action property follows step by step: from `PhaseInv` for the opening, and from what an
install, a failed install, a drop and a guard's end remove.

### Premium clock

From `DayAssumption`, for a core that prints at least twice a day, is read within half a
day, and whose clock is set back only within a day (`ClockNext`). `ClockInv` adds to
`DateFollows` that the stored date and time are those of the last line. The step is
arithmetic: an instant is its date and its time of the day, and the time falls by more
than half a day exactly when midnight has passed.

### Health tracker

From `ThresholdAssumption`. The reference reads the whole history, the tracker only two
counters, so `HealthInv` says what the counters tell of it: the lengths of the streaks
of successes and failures at its end, up to the cap, and the last positions at which a
streak reached its threshold. The state is that of the later one of the two. One lemma
for each kind of result (a success, a counted failure, one excused in the start period)
says how these numbers change when it is appended; no induction over the history is
needed, because the reference is stated with sets of positions.

### Log directory

From `LimitAssumption`. What matters for the number of files is which file is the
newest: `ArchiveInv` says that the sink's file is, or was when it stopped. A prune
keeps the files with fewer newer ones than its budget; no two files have the same
number of newer ones, so at most as many are kept as the budget says (`PruneCounts`,
with an injection into an interval). The prune after a rotation never wants the file it
protects, because that is the newest and the budget is positive. `FilesMove` states
what each step does to the directory and gives the action property.

### Only model-checked

- *Liveness*: `OperationsEnd`, `StartupResolves`, `ProbeAnswered`, `DropEndsInstance`,
  `ClientConverges`, `ShutdownCompletes`, `StopsEnd`, `LaunchedServes`.
  Fairness is outside the prover's reach.
- *Recursive definitions*: `AnswersFaithful` (`IpcCall`), `HeadersReadBack`
  (`LogText`), `InPlaceTakesEffect` and `OverlapIsSafe` (`ConfigChange`). The prover
  has no arithmetic or set reasoning in modules with recursive operators, and what
  these compute for every input needs induction over data.
- *Folds over data*: `RecordsFaithful` (the text of a record is summed over its
  parts), `ArchiveSound` (a reader replays the records of a whole archive) and
  `ClientSound` (the body read over all chunks of an answer) compare the code with a
  fold over a sequence of any length, and what a fold computes for every input is
  induction over data again.

## 5. What is not modelled

- *Capability and version resolution* (`CM/capability.rs`) and *core kinds and config
  check* (`CM/kind.rs`, `CM/spec.rs`): tables from a kind to features, arguments and
  environment, a comparison of versions, and one child process run to its end. They
  keep no state and a model would repeat the tables. Their results are inputs of
  `CoreManager` (the specs) and `ServiceControl` (the outcome of a check).
- *Health probes* (`CM/health/probe.rs`): one request or connect under a timeout;
  `Instance` takes its answer as a choice.
- *The supervisor and reaper* are in another crate; `Instance` and `CoreManager` model
  them from their uses.
- *A second service process*: the SCM may launch one between a failed report and the
  panic that ends the first; `ServiceHost` has one process, so a launch waits for the
  panic.
- *Bytes behind a cut root*: when a root record is cut before a wide character, a few
  bytes of room are left, fewer than that character has, and a short continuation may
  follow in them. `RecordsFaithful` allows this and requires that the frame says that it
  was truncated.
- *Data types*: the reply types of the clash API, the IPC types and their serde
  attributes, `core-metadata`. What crosses a boundary is modelled where a property
  is about it: null for unit data, the envelope, integer widths.
- *Access control*: permission bits, ACLs, socket groups beyond whether the user was
  granted access; elevation is a flag of the invocation.
- *Time*: no module has a clock besides `PremiumClock`. A timeout may strike at any
  await, which is more than the code allows, so sums of bounds (the 120 s request
  limit against the manager's own) are not checked.
- *Logging and tracing set-up*, argument parsing, shell completions.

Two restrictions of properties, also listed as hazards: `PatchReaches` and
`GracefulIsSafe` are about documents whose values the patch type can carry (a null
or unknown `tun.stack` is dropped by it), and `UpdateTakesEffectOffLinux` leaves out
Linux, where `install` and `update` use different paths.
