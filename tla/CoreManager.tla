---------------------------- MODULE CoreManager ----------------------------
(***************************************************************************)
(* The control plane of nyanpasu-core-manager: `CoreManager` and its       *)
(* operations start, stop, switch, restart, apply_config,                  *)
(* recover_quarantine and shutdown, with the instances, processes and      *)
(* runtime-directory artifacts they act on.                                *)
(*                                                                         *)
(* An operation holds the `ctrl` mutex from its first to its last line, so *)
(* at most one is in flight; `pc` is the await point it has reached.       *)
(* Between two of its steps the supervisors, the core processes and the    *)
(* status forwarder run, the whole service may be killed, and (when        *)
(* CallerDrops) the caller may drop the operation's future.                *)
(*                                                                         *)
(* An epoch e names the artifacts config-e.yaml and core-e.pid, the        *)
(* instance that owns them and the one process that instance supervises.   *)
(***************************************************************************)
EXTENDS Naturals, FiniteSets

CONSTANTS
    Specs,          \* what a caller may ask to run: a core and a config document
    NoSpec,
    GracefulSpecs,  \* specs for which graceful_degrade_reason returns None
    MaxEpoch,       \* bound on the epoch counter
    MaxGen,         \* bound on a revision's generation
    MaxCrashes,     \* bound on unsolicited process exits
    MaxFaults,      \* bound on failures of the file system, the reaper and stops
    MaxKills,       \* bound on kills of the whole service
    CallerDrops     \* may a caller drop an operation's future half-way?

ASSUME SpecsAssumption ==
    /\ NoSpec \notin Specs
    /\ GracefulSpecs \subseteq Specs

ASSUME BoundsAssumption ==
    /\ MaxEpoch \in Nat /\ MaxGen \in Nat \ {0}
    /\ MaxCrashes \in Nat /\ MaxFaults \in Nat /\ MaxKills \in Nat
    /\ CallerDrops \in BOOLEAN

Epochs == 1..MaxEpoch
Gens == 1..MaxGen

Revs == [epoch : Epochs, gen : Gens, spec : Specs]
NoRev == [epoch |-> 0, gen |-> 0, spec |-> NoSpec]
Rev(e, g, d) == [epoch |-> e, gen |-> g, spec |-> d]

(* A runtime config is derived from a spec; the graceful bootstrap has its *)
(* inbound listeners zeroed, the full one serves traffic.                  *)
Configs == [spec : Specs, full : BOOLEAN]
NoConfig == [spec |-> NoSpec, full |-> FALSE]
Full(d) == [spec |-> d, full |-> TRUE]
BootstrapWithInbounds(d) == [spec |-> d, full |-> TRUE]
Bootstrap(d) == [spec |-> d, full |-> FALSE]

LifeStates == {"Absent", "Starting", "Running", "Restarting", "Stopping", "Stopped"}
CoreStates == {"Stopped", "Starting", "Running", "Restarting", "Switching", "Stopping"}
Modes == {"none", "graceful", "apply", "applyRollback", "switch", "switchRollback"}

(* Await points of start/stop/shutdown, of the two switches, of            *)
(* apply_config, and of spawn_replacement, which four callers share.       *)
PCs == {"idle", "staleStop", "launch", "startSpawn", "startReady", "startInstall",
        "startReject", "stopStale", "stopWait", "hardPrepare", "hardStop",
        "gPrepare", "gSpawn", "gReady", "gReject", "gStopOld", "gAbort", "gCommit",
        "gCommitFail", "gReconcile", "gInstall", "gReplaceStop", "republish",
        "applyCommit", "applyReconcile", "applyPublish", "applyStop",
        "switchPrepare", "switchStop",
        "replaceSpawn", "replaceReady", "replaceReject", "replaceInstall",
        "replacePublish", "recover"}

(* The steps of these points run without an await before them, so a        *)
(* dropped future cannot end there.                                        *)
SyncPCs == {"idle", "startInstall", "gInstall", "republish", "applyPublish",
            "replaceInstall", "replacePublish"}

VARIABLES
    up,          \* a CoreManager exists (FALSE: the service is down)
    epoch,       \* Inner.epoch, the last epoch handed out
    current,     \* Ctrl.current: the active revision (its epoch names the instance)
    lastSpec,    \* Ctrl.last_spec
    quarantine,  \* Ctrl.quarantine: its epochs
    proven,      \* the quarantined epochs with death_proven
    life,        \* InstanceState on the watch channel of each epoch's instance
    supervised,  \* the epoch's supervisor is running and may respawn its process
    proc,        \* the config the epoch's live process has loaded, or NoConfig
    config,      \* config-e.yaml
    record,      \* core-e.pid exists
    backup,      \* config-e.yaml.backup-g
    fwd,         \* forwarder of current: "none", "fresh" (unseen change), "seen"
    status,      \* CoreStatus: its state and revision
    pc, op,      \* the operation in flight and its local variables
    held,        \* epochs whose Instance the operation owns
    crashes, faults, kills

ctrlVars == <<current, lastSpec, quarantine, proven>>
inst == <<life, supervised, proc>>
disk == <<config, record, backup>>
opVars == <<pc, op, held>>
vars == <<up, epoch, ctrlVars, inst, disk, fwd, status, opVars, crashes, faults, kills>>

NoBackups == [g \in Gens |-> NoConfig]
NoOp == [mode |-> "none", spec |-> NoSpec, new |-> NoRev, old |-> NoRev,
         seen |-> "Absent", todo |-> {}, failed |-> FALSE]
Ops == [mode : Modes, spec : Specs \cup {NoSpec}, new : Revs \cup {NoRev},
        old : Revs \cup {NoRev}, seen : LifeStates, todo : SUBSET Epochs,
        failed : BOOLEAN]

CtrlTypeOK ==
    /\ up \in BOOLEAN
    /\ epoch \in 0..MaxEpoch
    /\ current \in Revs \cup {NoRev}
    /\ lastSpec \in Specs \cup {NoSpec}
    /\ quarantine \in SUBSET Epochs
    /\ proven \in SUBSET Epochs
    /\ fwd \in {"none", "fresh", "seen"}
    /\ status \in [state : CoreStates, rev : Revs \cup {NoRev}]

InstTypeOK ==
    /\ life \in [Epochs -> LifeStates]
    /\ supervised \in [Epochs -> BOOLEAN]
    /\ proc \in [Epochs -> Configs \cup {NoConfig}]

DiskTypeOK ==
    /\ config \in [Epochs -> Configs \cup {NoConfig}]
    /\ record \in [Epochs -> BOOLEAN]
    /\ backup \in [Epochs -> [Gens -> Configs \cup {NoConfig}]]

OpTypeOK ==
    /\ pc \in PCs
    /\ op \in Ops
    /\ held \in SUBSET Epochs

CountersOK ==
    crashes \in 0..MaxCrashes /\ faults \in 0..MaxFaults /\ kills \in 0..MaxKills

(* Every component of the state keeps its type: in particular an operation *)
(* never publishes, installs or holds a core that does not exist.          *)
TypeOK == CtrlTypeOK /\ InstTypeOK /\ DiskTypeOK /\ OpTypeOK /\ CountersOK

Live(e) == proc[e] # NoConfig
Serving(e) == proc[e].full

Init ==
    /\ up = TRUE /\ epoch = 0
    /\ current = NoRev /\ lastSpec = NoSpec /\ quarantine = {} /\ proven = {}
    /\ life = [e \in Epochs |-> "Absent"]
    /\ supervised = [e \in Epochs |-> FALSE]
    /\ proc = [e \in Epochs |-> NoConfig]
    /\ config = [e \in Epochs |-> NoConfig]
    /\ record = [e \in Epochs |-> FALSE]
    /\ backup = [e \in Epochs |-> NoBackups]
    /\ fwd = "none"
    /\ status = [state |-> "Stopped", rev |-> NoRev]
    /\ pc = "idle" /\ op = NoOp /\ held = {}
    /\ crashes = 0 /\ faults = 0 /\ kills = 0

-----------------------------------------------------------------------------
(* What the operations are made of.                                        *)

Fault == faults < MaxFaults /\ faults' = faults + 1
NoFault == UNCHANGED faults

Publish(s, r) == status' = [state |-> s, rev |-> r]
PublishTerminalError == Publish("Stopped", NoRev)

Running == current # NoRev /\ life[current.epoch] # "Stopped"

(* take() of ctrl.current, then abort_and_await of its forwarder.          *)
TakeCurrent == current' = NoRev /\ fwd' = "none"

Goto(p) == pc' = p
Finish == pc' = "idle" /\ op' = NoOp /\ held' = {}

(* record_quarantine: a known epoch keeps its death proof.                 *)
RecordQuarantine(E) ==
    /\ quarantine' = quarantine \cup E
    /\ UNCHANGED proven

LatchNothing(E) == UNCHANGED <<quarantine, proven>> /\ PublishTerminalError /\ Finish
LatchQuarantine(E) == RecordQuarantine(E) /\ PublishTerminalError /\ Finish

(* stop_and_confirm_dead up to its first await: a terminal instance keeps  *)
(* its state, any other shows Stopping.                                    *)
BeginStop(e) ==
    life' = [life EXCEPT ![e] = IF @ = "Stopped" THEN @ ELSE "Stopping"]

AssumedDead(e) ==
    /\ life' = [life EXCEPT ![e] = "Stopped"]
    /\ supervised' = [supervised EXCEPT ![e] = FALSE]
    /\ UNCHANGED proc

(* stop_and_confirm_dead returned Ok: the supervisor and the monitor ended *)
(* or the pid record proved the process dead.                              *)
ConfirmedDead(e) ==
    /\ proc' = [proc EXCEPT ![e] = NoConfig]
    /\ life' = [life EXCEPT ![e] = "Stopped"]
    /\ supervised' = [supervised EXCEPT ![e] = FALSE]

(* The record of a dead process may be gone: its supervisor or the reaper  *)
(* removed it.                                                             *)
KeepOrDropRecord(e) == \E b \in {record[e], FALSE} : record' = [record EXCEPT ![e] = b]

(* stop_and_confirm_dead returned StopUnconfirmed. A terminal instance     *)
(* without a pid record is never uncertain. The Instance was consumed, so  *)
(* its drop cancelled the supervisor; the process may live on.             *)
Unconfirmed(e) ==
    /\ life[e] # "Stopped" \/ record[e]
    /\ Fault
    /\ supervised' = [supervised EXCEPT ![e] = FALSE]
    /\ UNCHANGED <<life, proc>>

(* cleanup_epoch deletes the config, then the pid record, then backups and *)
(* temporary files; an error stops it anywhere on the way.                 *)
CleanupOk(e) ==
    /\ config' = [config EXCEPT ![e] = NoConfig]
    /\ record' = [record EXCEPT ![e] = FALSE]
    /\ backup' = [backup EXCEPT ![e] = NoBackups]
    /\ NoFault

CleanupErr(e) ==
    /\ Fault
    /\ UNCHANGED backup
    /\ \/ UNCHANGED config /\ KeepOrDropRecord(e)
       \/ config' = [config EXCEPT ![e] = NoConfig] /\ KeepOrDropRecord(e)

Cleanup(e) == CleanupOk(e) \/ CleanupErr(e)

(* Cleanup of an epoch that has only its config yet, error ignored.        *)
DropConfig(e) == \E c \in {NoConfig, config[e]} : config' = [config EXCEPT ![e] = c]

(* A watch notification reaches the forwarder of the current instance.     *)
Notify(e) ==
    fwd' = IF fwd = "seen" /\ current.epoch = e THEN "fresh" ELSE fwd

(* next_epoch, within the bound an operation checks before it begins.      *)
CanAllocate == epoch < MaxEpoch
NextEpoch == CanAllocate /\ epoch' = epoch + 1

(* Instance::spawn: a fresh watch channel, a process that read the config  *)
(* file, and the epoch pid record that Command writes for it.              *)
SpawnInstance(e) ==
    /\ config[e] # NoConfig
    /\ life' = [life EXCEPT ![e] = "Starting"]
    /\ supervised' = [supervised EXCEPT ![e] = TRUE]
    /\ proc' = [proc EXCEPT ![e] = config[e]]
    /\ record' = [record EXCEPT ![e] = TRUE]

-----------------------------------------------------------------------------
(* start                                                                   *)

(* The common prologue of start and of a switch that finds nothing         *)
(* running: a stale terminal instance is taken and confirmed dead first.   *)
LaunchFresh(d) ==
    /\ op' = [NoOp EXCEPT !.spec = d, !.old = current]
    /\ \/ /\ current = NoRev
          /\ Goto("launch")
          /\ UNCHANGED <<held, current, fwd>>
       \/ /\ current # NoRev
          /\ Goto("staleStop")
          /\ held' = {current.epoch}
          /\ TakeCurrent
    /\ UNCHANGED <<up, epoch, lastSpec, quarantine, proven, inst, disk, status,
                   crashes, faults, kills>>

AdmittedAlways == up /\ pc = "idle"
Admitted == up /\ pc = "idle" /\ quarantine = {}

Start(d) == Admitted /\ CanAllocate /\ ~Running /\ LaunchFresh(d)

(* An error of this cleanup returns without publishing anything.           *)
StaleStopped ==
    LET e == op.old.epoch IN
    /\ pc = "staleStop"
    /\ \/ /\ ConfirmedDead(e) /\ CleanupOk(e)
          /\ Goto("launch") /\ held' = {}
          /\ UNCHANGED <<op, quarantine, proven, status>>
       \/ /\ ConfirmedDead(e) /\ CleanupErr(e)
          /\ Finish
          /\ UNCHANGED <<quarantine, proven, status>>
       \/ /\ Unconfirmed(e)
          /\ LatchQuarantine({e})
          /\ UNCHANGED disk
    /\ UNCHANGED <<up, epoch, current, lastSpec, fwd, crashes, kills>>

(* A failed prepare_launch or prepare_graceful. Staged files vanish when    *)
(* dropped and the caller cleans the epoch; a config installed before a    *)
(* failed directory sync survives when that cleanup fails as well (one     *)
(* fault stands for both).                                                 *)
PrepareFailed(e, c) ==
    \/ NoFault /\ UNCHANGED config
    \/ Fault /\ config' = [config EXCEPT ![e] = c]

(* start_locked up to the spawn: allocate an epoch, prepare and commit its *)
(* config, publish Starting. A config that does not load or check ends it. *)
Launch ==
    LET r == Rev(epoch + 1, 1, op.spec) IN
    /\ pc = "launch"
    /\ NextEpoch
    /\ \/ /\ PrepareFailed(r.epoch, Full(r.spec))
          /\ PublishTerminalError
          /\ Finish
       \/ /\ config' = [config EXCEPT ![r.epoch] = Full(r.spec)]
          /\ Publish("Starting", r)
          /\ op' = [op EXCEPT !.new = r, !.old = NoRev]
          /\ Goto("startSpawn")
          /\ UNCHANGED <<held, faults>>
    /\ UNCHANGED <<up, ctrlVars, inst, record, backup, fwd, crashes, kills>>

StartSpawn ==
    LET e == op.new.epoch IN
    /\ pc = "startSpawn"
    /\ \/ /\ SpawnInstance(e)
          /\ Goto("startReady") /\ held' = {e}
          /\ UNCHANGED <<op, config, backup, status, faults>>
       \/ /\ Cleanup(e)
          /\ PublishTerminalError
          /\ Finish
          /\ UNCHANGED inst
    /\ UNCHANGED <<up, epoch, ctrlVars, fwd, crashes, kills>>

StartReadyOnly ==
    /\ pc = "startReady"
    /\ life[op.new.epoch] = "Running" /\ Goto("startInstall")
    /\ UNCHANGED <<up, epoch, ctrlVars, inst, disk, fwd, status, op, held,
                   crashes, faults, kills>>

(* wait_ready: Running resolves it, Stopped rejects the instance.          *)
StartReady ==
    LET e == op.new.epoch IN
    /\ pc = "startReady"
    /\ \/ life[e] = "Running" /\ Goto("startInstall")
       \/ life[e] = "Stopped" /\ Goto("startReject")
    /\ UNCHANGED <<up, epoch, ctrlVars, inst, disk, fwd, status, op, held,
                   crashes, faults, kills>>

(* The core is published as Running whatever its watch says by now; the    *)
(* forwarder then starts with the latest value unseen.                     *)
InstallNew ==
    /\ Publish("Running", op.new)
    /\ current' = op.new
    /\ lastSpec' = op.new.spec
    /\ fwd' = "fresh"

StartInstall ==
    /\ pc = "startInstall"
    /\ InstallNew
    /\ Finish
    /\ UNCHANGED <<up, epoch, quarantine, proven, inst, disk, crashes, faults, kills>>

StartReject ==
    LET e == op.new.epoch IN
    /\ pc = "startReject"
    /\ \/ /\ ConfirmedDead(e) /\ Cleanup(e)
          /\ PublishTerminalError
          /\ Finish
          /\ UNCHANGED <<quarantine, proven>>
       \/ /\ Unconfirmed(e)
          /\ LatchQuarantine({e})
          /\ UNCHANGED disk
    /\ UNCHANGED <<up, epoch, current, lastSpec, fwd, crashes, kills>>

-----------------------------------------------------------------------------
(* stop and shutdown: admitted in quarantine too.                          *)

Stop ==
    LET e == current.epoch IN
    /\ up /\ pc = "idle" /\ current # NoRev
    /\ op' = [NoOp EXCEPT !.old = current]
    /\ held' = {e}
    /\ TakeCurrent
    /\ \/ /\ life[e] = "Stopped"
          /\ Publish("Stopped", current)
          /\ Goto("stopStale")
          /\ UNCHANGED life
       \/ /\ life[e] # "Stopped"
          /\ Publish("Stopping", current)
          /\ BeginStop(e)
          /\ Goto("stopWait")
    /\ UNCHANGED <<up, epoch, lastSpec, quarantine, proven, supervised, proc, disk,
                   crashes, faults, kills>>

Shutdown ==
    LET e == current.epoch IN
    /\ up /\ pc = "idle" /\ current # NoRev
    /\ op' = [NoOp EXCEPT !.old = current]
    /\ held' = {e}
    /\ TakeCurrent
    /\ Publish("Stopping", current)
    /\ BeginStop(e)
    /\ Goto("stopWait")
    /\ UNCHANGED <<up, epoch, lastSpec, quarantine, proven, supervised, proc, disk,
                   crashes, faults, kills>>

StopDone ==
    LET e == op.old.epoch IN
    /\ pc \in {"stopStale", "stopWait"}
    /\ \/ /\ ConfirmedDead(e) /\ CleanupOk(e)
          /\ IF pc = "stopWait" THEN Publish("Stopped", NoRev) ELSE UNCHANGED status
          /\ Finish
          /\ UNCHANGED <<quarantine, proven>>
       \/ /\ ConfirmedDead(e) /\ CleanupErr(e)
          /\ PublishTerminalError
          /\ Finish
          /\ UNCHANGED <<quarantine, proven>>
       \/ /\ Unconfirmed(e)
          /\ LatchQuarantine({e})
          /\ UNCHANGED disk
    /\ UNCHANGED <<up, epoch, current, lastSpec, fwd, crashes, kills>>

-----------------------------------------------------------------------------
(* switch and restart                                                      *)

(* A running core is switched: to an overlapping successor when nothing    *)
(* degrades the switch, through a stop otherwise. Loading, launchability   *)
(* and feature errors return before anything changed.                      *)
Switch(d) ==
    /\ Admitted /\ CanAllocate
    /\ \/ /\ ~Running
          /\ LaunchFresh(d)
       \/ /\ Running
          /\ op' = [NoOp EXCEPT !.spec = d]
          /\ Goto(IF d \in GracefulSpecs THEN "gPrepare" ELSE "hardPrepare")
          /\ UNCHANGED <<up, epoch, ctrlVars, inst, disk, fwd, status, held,
                         crashes, faults, kills>>

Restart == lastSpec # NoSpec /\ Switch(lastSpec)

(* republish_retained reads the retained instance's state and publishes it *)
(* in a second step: the core may move in between.                         *)
ReadRetained ==
    /\ op' = [op EXCEPT !.seen = life[current.epoch]]
    /\ Goto("republish")

ReturnSilently ==
    /\ pc = "republish"
    /\ Finish
    /\ UNCHANGED <<up, epoch, ctrlVars, inst, disk, fwd, status, crashes, faults, kills>>

Republish ==
    /\ pc = "republish"
    /\ Publish(op.seen, current)
    /\ Finish
    /\ UNCHANGED <<up, epoch, ctrlVars, inst, disk, fwd, crashes, faults, kills>>

HardPrepare ==
    LET r == Rev(epoch + 1, 1, op.spec)
        e == current.epoch IN
    /\ pc = "hardPrepare"
    /\ NextEpoch
    /\ \/ /\ PrepareFailed(r.epoch, Full(r.spec))
          /\ ReadRetained
          /\ UNCHANGED <<current, fwd, life, status, held>>
       \/ /\ config' = [config EXCEPT ![r.epoch] = Full(r.spec)]
          /\ Publish("Switching", r)
          /\ op' = [op EXCEPT !.new = r, !.old = current]
          /\ held' = {e}
          /\ TakeCurrent
          /\ BeginStop(e)
          /\ Goto("hardStop")
          /\ UNCHANGED faults
    /\ UNCHANGED <<up, lastSpec, quarantine, proven, supervised, proc, record,
                   backup, crashes, kills>>

(* The old epoch is confirmed dead and cleaned, then the prepared one is   *)
(* started as start does. When the old core's death stays unconfirmed the  *)
(* new epoch's files are cleaned and the old epoch is quarantined.         *)
HardStopped ==
    LET e == op.old.epoch
        n == op.new.epoch IN
    /\ pc = "hardStop"
    /\ \/ /\ ConfirmedDead(e) /\ CleanupOk(e)
          /\ Publish("Starting", op.new)
          /\ Goto("startSpawn") /\ held' = {}
          /\ UNCHANGED <<op, quarantine, proven>>
       \/ /\ ConfirmedDead(e) /\ CleanupErr(e)
          /\ PublishTerminalError
          /\ Finish
          /\ UNCHANGED <<quarantine, proven>>
       \/ /\ Unconfirmed(e)
          /\ DropConfig(n)
          /\ LatchQuarantine({e})
          /\ UNCHANGED <<record, backup>>
    /\ UNCHANGED <<up, epoch, current, lastSpec, fwd, crashes, kills>>

GracefulPrepare ==
    LET r == Rev(epoch + 1, 1, op.spec) IN
    /\ pc = "gPrepare"
    /\ NextEpoch
    /\ \/ /\ PrepareFailed(r.epoch, Bootstrap(r.spec))
          /\ ReadRetained
          /\ UNCHANGED status
       \/ /\ config' = [config EXCEPT ![r.epoch] = Bootstrap(r.spec)]
          /\ Publish("Switching", r)
          /\ op' = [op EXCEPT !.new = r]
          /\ Goto("gSpawn")
          /\ UNCHANGED faults
    /\ UNCHANGED <<up, ctrlVars, inst, record, backup, fwd, held, crashes, kills>>

GracefulSpawn ==
    LET n == op.new.epoch IN
    /\ pc = "gSpawn"
    /\ \/ /\ SpawnInstance(n)
          /\ Goto("gReady") /\ held' = {n}
          /\ UNCHANGED <<op, config, backup, faults>>
       \/ /\ Cleanup(n)
          /\ ReadRetained
          /\ UNCHANGED <<inst, held>>
    /\ UNCHANGED <<up, epoch, ctrlVars, fwd, status, crashes, kills>>

GracefulReady ==
    LET n == op.new.epoch IN
    /\ pc = "gReady"
    /\ \/ /\ life[n] = "Running"
          /\ op' = [op EXCEPT !.old = current]
          /\ held' = held \cup {current.epoch}
          /\ TakeCurrent
          /\ BeginStop(current.epoch)
          /\ Goto("gStopOld")
       \/ /\ life[n] = "Stopped"
          /\ Goto("gReject")
          /\ UNCHANGED <<op, held, current, fwd, life>>
    /\ UNCHANGED <<up, epoch, lastSpec, quarantine, proven, supervised, proc, disk,
                   status, crashes, faults, kills>>

(* The rejected bootstrap. The old core is still ctrl.current and running, *)
(* also when the bootstrap is quarantined.                                 *)
GracefulReject ==
    LET n == op.new.epoch IN
    /\ pc = "gReject"
    /\ \/ /\ ConfirmedDead(n) /\ Cleanup(n)
          /\ ReadRetained /\ held' = {}
          /\ UNCHANGED <<quarantine, proven, status>>
       \/ /\ Unconfirmed(n)
          /\ LatchQuarantine({n})
          /\ UNCHANGED disk
    /\ UNCHANGED <<up, epoch, current, lastSpec, fwd, crashes, kills>>

GracefulOldStopped ==
    LET e == op.old.epoch
        n == op.new.epoch IN
    /\ pc = "gStopOld"
    /\ \/ /\ ConfirmedDead(e) /\ KeepOrDropRecord(e)
          /\ held' = {n} /\ Goto("gCommit")
          /\ UNCHANGED faults
       \/ /\ life[e] # "Stopped" \/ record[e]
          /\ Fault
          /\ supervised' = [supervised EXCEPT ![e] = FALSE]
          /\ BeginStop(n)
          /\ Goto("gAbort")
          /\ UNCHANGED <<proc, record, held>>
    /\ UNCHANGED <<up, epoch, ctrlVars, config, backup, fwd, status, op, crashes, kills>>

(* The old core's death is unconfirmed: give the new one up as well.       *)
GracefulAbort ==
    LET e == op.old.epoch
        n == op.new.epoch IN
    /\ pc = "gAbort"
    /\ \/ /\ ConfirmedDead(n) /\ Cleanup(n)
          /\ LatchQuarantine({e})
       \/ /\ Unconfirmed(n)
          /\ LatchQuarantine({e, n})
          /\ UNCHANGED disk
    /\ UNCHANGED <<up, epoch, current, lastSpec, fwd, crashes, kills>>

(* commit_replace of the full config, only now that the old core is dead.  *)
GracefulCommit ==
    LET n == op.new.epoch IN
    /\ pc = "gCommit"
    /\ \/ /\ config' = [config EXCEPT ![n] = Full(op.new.spec)]
          /\ Goto("gReconcile")
          /\ UNCHANGED <<life, faults>>
       \/ /\ Fault
          /\ BeginStop(n)
          /\ Goto("gCommitFail")
          /\ UNCHANGED config
    /\ UNCHANGED <<up, epoch, ctrlVars, supervised, proc, record, backup, fwd, status,
                   op, held, crashes, kills>>

GracefulCommitFailed ==
    LET n == op.new.epoch IN
    /\ pc = "gCommitFail"
    /\ \/ /\ ConfirmedDead(n) /\ Cleanup(n)
          /\ PublishTerminalError
          /\ Finish
          /\ UNCHANGED <<quarantine, proven>>
       \/ /\ Unconfirmed(n)
          /\ LatchQuarantine({n})
          /\ UNCHANGED disk
    /\ UNCHANGED <<up, epoch, current, lastSpec, fwd, crashes, kills>>

(* A live process that takes the configuration a request carries, whether  *)
(* or not the answer comes back.                                           *)
MayLoad(e, c) ==
    \/ UNCHANGED proc
    \/ Live(e) /\ proc' = [proc EXCEPT ![e] = c]

(* PATCH the listeners, verify the projection and probe: only a live core  *)
(* that has the full config passes. Anything else restarts the epoch.      *)
GracefulReconcile ==
    LET n == op.new.epoch IN
    /\ pc = "gReconcile"
    /\ \/ /\ Live(n) /\ life[n] = "Running"
          /\ proc' = [proc EXCEPT ![n] = Full(op.new.spec)]
          /\ Goto("gInstall")
          /\ UNCHANGED <<life, op>>
       \/ /\ MayLoad(n, Full(op.new.spec))
          /\ BeginStop(n)
          /\ Goto("gReplaceStop")
          /\ UNCHANGED op
    /\ UNCHANGED <<up, epoch, ctrlVars, supervised, disk, fwd, status, held,
                   crashes, faults, kills>>

(* install_switched, then the old epoch's cleanup.                         *)
GracefulInstall ==
    /\ pc = "gInstall"
    /\ InstallNew
    /\ Cleanup(op.old.epoch)
    /\ Finish
    /\ UNCHANGED <<up, epoch, quarantine, proven, inst, crashes, kills>>

GracefulReplaceStopped ==
    LET n == op.new.epoch IN
    /\ pc = "gReplaceStop"
    /\ \/ /\ ConfirmedDead(n) /\ KeepOrDropRecord(n)
          /\ op' = [op EXCEPT !.mode = "graceful"]
          /\ Goto("replaceSpawn") /\ held' = {}
          /\ UNCHANGED <<quarantine, proven, status, faults>>
       \/ /\ Unconfirmed(n)
          /\ LatchQuarantine({n})
          /\ UNCHANGED record
    /\ UNCHANGED <<up, epoch, current, lastSpec, config, backup, fwd, crashes, kills>>

-----------------------------------------------------------------------------
(* spawn_replacement, shared by the graceful fallback and by the           *)
(* compensated restart and switch of apply_config.                         *)

ReplaceRev == IF op.mode \in {"applyRollback", "switchRollback"} THEN op.old ELSE op.new

KeepDesired(e, g) == UNCHANGED config
RestoreBackup(e, g) == config' = [config EXCEPT ![e] = backup[e][g]]

(* The replacement is known dead. A graceful fallback and a failed         *)
(* rollback end the core; a failed desired revision falls back to the old  *)
(* one, after restoring its file or dropping the new epoch.                *)
ReplaceFailed ==
    \/ /\ op.mode = "graceful"
       /\ Cleanup(op.new.epoch)
       /\ PublishTerminalError /\ Finish
    \/ /\ op.mode = "apply"
       /\ KeepOrDropRecord(op.old.epoch)
       /\ UNCHANGED backup
       /\ \/ /\ RestoreBackup(op.old.epoch, op.new.gen)
             /\ Publish("Restarting", op.old)
             /\ op' = [op EXCEPT !.mode = "applyRollback"]
             /\ Goto("replaceSpawn") /\ held' = {} /\ NoFault
          \/ /\ Fault /\ UNCHANGED config
             /\ PublishTerminalError /\ Finish
    \/ /\ op.mode = "switch"
       /\ Cleanup(op.new.epoch)
       /\ Publish("Restarting", op.old)
       /\ op' = [op EXCEPT !.mode = "switchRollback"]
       /\ Goto("replaceSpawn") /\ held' = {}
    \/ /\ op.mode \in {"applyRollback", "switchRollback"}
       /\ KeepOrDropRecord(op.old.epoch)
       /\ UNCHANGED <<config, backup, faults>>
       /\ PublishTerminalError /\ Finish

ReplaceSpawn ==
    LET e == ReplaceRev.epoch IN
    /\ pc = "replaceSpawn"
    /\ \/ /\ SpawnInstance(e)
          /\ Goto("replaceReady") /\ held' = {e}
          /\ UNCHANGED <<op, config, backup, status, faults>>
       \/ /\ ReplaceFailed
          /\ UNCHANGED inst
    /\ UNCHANGED <<up, epoch, ctrlVars, fwd, crashes, kills>>

ReplaceReady ==
    LET e == ReplaceRev.epoch IN
    /\ pc = "replaceReady"
    /\ \/ life[e] = "Running" /\ Goto("replaceInstall")
       \/ life[e] = "Stopped" /\ Goto("replaceReject")
    /\ UNCHANGED <<up, epoch, ctrlVars, inst, disk, fwd, status, op, held,
                   crashes, faults, kills>>

ReplaceReject ==
    LET e == ReplaceRev.epoch IN
    /\ pc = "replaceReject"
    /\ \/ /\ ConfirmedDead(e)
          /\ ReplaceFailed
          /\ UNCHANGED <<quarantine, proven>>
       \/ /\ Unconfirmed(e)
          /\ LatchQuarantine({e})
          /\ UNCHANGED disk
    /\ UNCHANGED <<up, epoch, current, lastSpec, fwd, crashes, kills>>

(* The compensated paths start the forwarder first and publish Running     *)
(* after it; the graceful fallback goes through install_switched.          *)
ReplaceInstall ==
    /\ pc = "replaceInstall"
    /\ \/ /\ op.mode = "graceful"
          /\ InstallNew
          /\ Cleanup(op.old.epoch)
          /\ Finish
       \/ /\ op.mode # "graceful"
          /\ current' = ReplaceRev
          /\ lastSpec' = ReplaceRev.spec
          /\ fwd' = "fresh"
          /\ Goto("replacePublish") /\ held' = {}
          /\ UNCHANGED <<op, status, disk, faults>>
    /\ UNCHANGED <<up, epoch, quarantine, proven, inst, crashes, kills>>

LeaveBackup(e, g) == UNCHANGED backup /\ NoFault
RemoveBackup(e, g) ==
    \/ backup' = [backup EXCEPT ![e][g] = NoConfig] /\ NoFault
    \/ Fault /\ UNCHANGED backup

ReplacePublish ==
    /\ pc = "replacePublish"
    /\ Publish("Running", ReplaceRev)
    /\ Finish
    /\ \/ /\ op.mode \in {"apply", "applyRollback"}
          /\ RemoveBackup(op.old.epoch, op.new.gen)
          /\ UNCHANGED <<config, record>>
       \/ /\ op.mode = "switch"
          /\ Cleanup(op.old.epoch)
       \/ /\ op.mode = "switchRollback"
          /\ UNCHANGED <<disk, faults>>
    /\ UNCHANGED <<up, epoch, ctrlVars, inst, fwd, crashes, kills>>

-----------------------------------------------------------------------------
(* apply_config                                                            *)

(* Admission: a running core and, when the caller names a revision, that   *)
(* one. A document that equals the active one is a no-op; `class` is what  *)
(* mihomo::classify makes of the others.                                   *)
ApplyConfig(d, expected, class) ==
    /\ Admitted
    /\ Running
    /\ expected \in {NoRev, current}
    /\ d # current.spec
    /\ IF class = "Switch" THEN CanAllocate ELSE current.gen < MaxGen
    /\ op' = [NoOp EXCEPT !.spec = d]
    /\ Goto(IF class = "Switch" THEN "switchPrepare" ELSE "applyCommit")
    /\ UNCHANGED <<up, epoch, ctrlVars, inst, disk, fwd, status, held,
                   crashes, faults, kills>>

(* Stage and check the desired config, back the active one up, replace it. *)
(* The backup must not exist yet; one left behind by a failed sync or a    *)
(* failed removal refuses the apply.                                       *)
ApplyCommit ==
    LET e == current.epoch
        g == current.gen + 1 IN
    /\ pc = "applyCommit"
    /\ \/ /\ Finish
          /\ UNCHANGED <<config, backup, faults>>
       \/ /\ backup[e][g] = NoConfig
          /\ Fault
          /\ \E c \in {NoConfig, config[e]} : backup' = [backup EXCEPT ![e][g] = c]
          /\ Finish
          /\ UNCHANGED config
       \/ /\ backup[e][g] = NoConfig
          /\ backup' = [backup EXCEPT ![e][g] = config[e]]
          /\ config' = [config EXCEPT ![e] = Full(op.spec)]
          /\ op' = [op EXCEPT !.new = Rev(e, g, op.spec), !.old = current]
          /\ Goto("applyReconcile")
          /\ UNCHANGED <<held, faults>>
    /\ UNCHANGED <<up, epoch, ctrlVars, inst, record, fwd, status, crashes, kills>>

(* PATCH or reload in place within reconcile_timeout; when the result is   *)
(* uncertain the epoch is stopped for a compensated restart.               *)
ApplyReconcile ==
    LET e == op.old.epoch IN
    /\ pc = "applyReconcile"
    /\ \/ /\ Live(e) /\ life[e] = "Running"
          /\ proc' = [proc EXCEPT ![e] = Full(op.new.spec)]
          /\ Goto("applyPublish")
          /\ UNCHANGED <<life, held, current, fwd>>
       \/ /\ MayLoad(e, Full(op.new.spec))
          /\ held' = {e}
          /\ TakeCurrent
          /\ BeginStop(e)
          /\ Goto("applyStop")
    /\ UNCHANGED <<up, epoch, lastSpec, quarantine, proven, supervised, disk, status, op,
                   crashes, faults, kills>>

(* The active revision is updated and Running published while the old      *)
(* forwarder keeps running; the backup is removed at last.                 *)
ApplyPublish ==
    /\ pc = "applyPublish"
    /\ current' = op.new
    /\ lastSpec' = op.new.spec
    /\ Publish("Running", op.new)
    /\ RemoveBackup(op.old.epoch, op.new.gen)
    /\ Finish
    /\ UNCHANGED <<up, epoch, quarantine, proven, inst, config, record, fwd,
                   crashes, kills>>

ApplyStopped ==
    LET e == op.old.epoch IN
    /\ pc = "applyStop"
    /\ \/ /\ ConfirmedDead(e) /\ KeepOrDropRecord(e)
          /\ Publish("Restarting", op.new)
          /\ op' = [op EXCEPT !.mode = "apply"]
          /\ Goto("replaceSpawn") /\ held' = {}
          /\ UNCHANGED <<quarantine, proven, faults>>
       \/ /\ Unconfirmed(e)
          /\ LatchQuarantine({e})
          /\ UNCHANGED record
    /\ UNCHANGED <<up, epoch, current, lastSpec, config, backup, fwd, crashes, kills>>

(* switch_with_compensation. A failed prepare returns without cleanup.     *)
SwitchPrepare ==
    LET r == Rev(epoch + 1, 1, op.spec)
        e == current.epoch IN
    /\ pc = "switchPrepare"
    /\ NextEpoch
    /\ \/ /\ PrepareFailed(r.epoch, Full(r.spec))
          /\ Finish
          /\ UNCHANGED <<current, fwd, life>>
       \/ /\ config' = [config EXCEPT ![r.epoch] = Full(r.spec)]
          /\ op' = [op EXCEPT !.new = r, !.old = current]
          /\ held' = {e}
          /\ TakeCurrent
          /\ BeginStop(e)
          /\ Goto("switchStop")
          /\ UNCHANGED faults
    /\ UNCHANGED <<up, lastSpec, quarantine, proven, supervised, proc, record, backup,
                   status, crashes, kills>>

SwitchStopped ==
    LET e == op.old.epoch
        n == op.new.epoch IN
    /\ pc = "switchStop"
    /\ \/ /\ ConfirmedDead(e) /\ KeepOrDropRecord(e)
          /\ Publish("Switching", op.new)
          /\ op' = [op EXCEPT !.mode = "switch"]
          /\ Goto("replaceSpawn") /\ held' = {}
          /\ UNCHANGED <<config, quarantine, proven, faults>>
       \/ /\ Unconfirmed(e)
          /\ DropConfig(n)
          /\ LatchQuarantine({e})
          /\ UNCHANGED record
    /\ UNCHANGED <<up, epoch, current, lastSpec, backup, fwd, crashes, kills>>

-----------------------------------------------------------------------------
(* recover_quarantine                                                      *)

RecoverQuarantine ==
    /\ up /\ pc = "idle" /\ quarantine # {}
    /\ op' = [NoOp EXCEPT !.todo = quarantine]
    /\ Goto("recover")
    /\ UNCHANGED <<up, epoch, ctrlVars, inst, disk, fwd, status, held,
                   crashes, faults, kills>>

(* One entry: unless its death is already proven the pid record must prove *)
(* it (a missing record or a failing reaper keeps the entry), then its     *)
(* artifacts are cleaned. The reaper's successful verdict kills whatever   *)
(* lives and consumes the record.                                          *)
RecoverEntry(e) ==
    /\ pc = "recover" /\ e \in op.todo
    /\ \/ /\ e \notin proven
          /\ \/ ~record[e] /\ NoFault
             \/ record[e] /\ Fault
          /\ op' = [op EXCEPT !.todo = @ \ {e}, !.failed = TRUE]
          /\ UNCHANGED <<quarantine, proven, proc, disk>>
       \/ /\ e \in proven \/ record[e]
          /\ proc' = [proc EXCEPT ![e] = NoConfig]
          /\ \/ /\ CleanupOk(e)
                /\ quarantine' = quarantine \ {e}
                /\ proven' = proven \ {e}
                /\ op' = [op EXCEPT !.todo = @ \ {e}]
             \/ /\ CleanupErr(e)
                /\ proven' = proven \cup {e}
                /\ op' = [op EXCEPT !.todo = @ \ {e}, !.failed = TRUE]
                /\ UNCHANGED quarantine
    /\ UNCHANGED <<up, epoch, current, lastSpec, life, supervised, fwd, status, pc, held,
                   crashes, kills>>

RecoverDone ==
    /\ pc = "recover" /\ op.todo = {}
    /\ IF op.failed THEN UNCHANGED status ELSE Publish("Stopped", NoRev)
    /\ Finish
    /\ UNCHANGED <<up, epoch, ctrlVars, inst, disk, fwd, crashes, faults, kills>>

-----------------------------------------------------------------------------
(* The end and the beginning of a service process.                         *)

(* The service dies: memory is gone, core processes and files stay.        *)
Kill ==
    /\ up /\ kills < MaxKills /\ kills' = kills + 1
    /\ up' = FALSE
    /\ current' = NoRev /\ lastSpec' = NoSpec /\ quarantine' = {} /\ proven' = {}
    /\ life' = [e \in Epochs |-> "Absent"]
    /\ supervised' = [e \in Epochs |-> FALSE]
    /\ fwd' = "none"
    /\ Publish("Stopped", NoRev)
    /\ Finish
    /\ UNCHANGED <<epoch, proc, disk, crashes, faults>>

ArtifactEpochs ==
    {e \in Epochs : config[e] # NoConfig \/ record[e] \/ backup[e] # NoBackups}

(* sweep_orphans: every record is reaped and every epoch cleaned, then the *)
(* counter restarts above the highest epoch seen.                          *)
Construct ==
    /\ ~up /\ up' = TRUE
    /\ proc' = [e \in Epochs |-> IF record[e] THEN NoConfig ELSE proc[e]]
    /\ config' = [e \in Epochs |-> NoConfig]
    /\ record' = [e \in Epochs |-> FALSE]
    /\ backup' = [e \in Epochs |-> NoBackups]
    /\ epoch' \in ArtifactEpochs \cup {0}
    /\ \A e \in ArtifactEpochs : e <= epoch'
    /\ UNCHANGED <<ctrlVars, life, supervised, fwd, status, opVars, crashes, faults, kills>>

(* The sweep fails at epoch k: the lower epochs are clean, k is untouched, *)
(* or reaped and partly removed; no manager is constructed.                *)
ConstructFails(k) ==
    /\ ~up /\ k \in ArtifactEpochs
    /\ Fault
    /\ \E reaped \in {k, k + 1} : \E dropped, unrecorded \in {k, reaped} :
        /\ proc' = [e \in Epochs |->
                       IF e < reaped /\ record[e] THEN NoConfig ELSE proc[e]]
        /\ config' = [e \in Epochs |-> IF e < dropped THEN NoConfig ELSE config[e]]
        /\ record' = [e \in Epochs |-> e >= unrecorded /\ record[e]]
    /\ backup' = [e \in Epochs |-> IF e < k THEN NoBackups ELSE backup[e]]
    /\ UNCHANGED <<up, epoch, ctrlVars, life, supervised, fwd, status, opVars,
                   crashes, kills>>

(* The caller drops the operation's future: the mutex is released and every *)
(* instance the operation owned is dropped, which cancels its supervisor.  *)
DropOperation ==
    /\ CallerDrops /\ pc \notin SyncPCs
    /\ supervised' = [e \in Epochs |-> supervised[e] /\ e \notin held]
    /\ Finish
    /\ UNCHANGED <<up, epoch, ctrlVars, life, proc, disk, fwd, status,
                   crashes, faults, kills>>

-----------------------------------------------------------------------------
(* Instances, processes and the forwarder.                                 *)

(* An instance becomes Running when its process passed its probes.         *)
InstanceReady(e) ==
    /\ supervised[e] /\ Live(e) /\ life[e] \in {"Starting", "Restarting"}
    /\ life' = [life EXCEPT ![e] = "Running"]
    /\ Notify(e)
    /\ UNCHANGED <<up, epoch, ctrlVars, supervised, proc, disk, status, opVars,
                   crashes, faults, kills>>

InstanceRestarting(e) ==
    /\ supervised[e] /\ ~Live(e) /\ life[e] \in {"Starting", "Running"}
    /\ life' = [life EXCEPT ![e] = "Restarting"]
    /\ Notify(e)
    /\ UNCHANGED <<up, epoch, ctrlVars, supervised, proc, disk, status, opVars,
                   crashes, faults, kills>>

(* The supervisor respawns the process from the file that is committed.    *)
Respawn(e) ==
    /\ supervised[e] /\ ~Live(e) /\ life[e] \in {"Restarting", "Stopping"}
    /\ config[e] # NoConfig
    /\ proc' = [proc EXCEPT ![e] = config[e]]
    /\ record' = [record EXCEPT ![e] = TRUE]
    /\ UNCHANGED <<up, epoch, ctrlVars, life, supervised, config, backup, fwd, status,
                   opVars, crashes, faults, kills>>

(* The instance ends on its own: clean exit, budget exhausted or startup   *)
(* timeout. Its process is not taken to be dead; that is for the manager   *)
(* to confirm.                                                             *)
InstanceStopped(e) ==
    /\ supervised[e] /\ life[e] \notin {"Absent", "Stopped"}
    /\ life' = [life EXCEPT ![e] = "Stopped"]
    /\ supervised' = [supervised EXCEPT ![e] = FALSE]
    /\ Notify(e)
    /\ UNCHANGED <<up, epoch, ctrlVars, proc, disk, status, opVars,
                   crashes, faults, kills>>

(* A process exits: a crash when supervised, the end of a cancelled or     *)
(* orphaned one otherwise.                                                 *)
ProcessExit(e) ==
    /\ Live(e)
    /\ IF supervised[e] THEN crashes < MaxCrashes /\ crashes' = crashes + 1
                        ELSE UNCHANGED crashes
    /\ proc' = [proc EXCEPT ![e] = NoConfig]
    /\ KeepOrDropRecord(e)
    /\ UNCHANGED <<up, epoch, ctrlVars, life, supervised, config, backup, fwd, status,
                   opVars, faults, kills>>

(* spawn_forwarder's loop body: publish_epoch_status changes the status    *)
(* only while it belongs to this epoch; a terminal value ends the task.    *)
Forward ==
    LET s == life[current.epoch] IN
    /\ current # NoRev /\ fwd = "fresh"
    /\ fwd' = IF s = "Stopped" THEN "none" ELSE "seen"
    /\ status' = IF status.rev.epoch = current.epoch
                 THEN [status EXCEPT !.state = s] ELSE status
    /\ UNCHANGED <<up, epoch, ctrlVars, inst, disk, opVars, crashes, faults, kills>>

-----------------------------------------------------------------------------
OperationStep ==
    \/ StaleStopped \/ Launch \/ StartSpawn \/ StartReady \/ StartInstall \/ StartReject
    \/ StopDone \/ HardPrepare \/ HardStopped \/ Republish
    \/ GracefulPrepare \/ GracefulSpawn \/ GracefulReady \/ GracefulReject
    \/ GracefulOldStopped \/ GracefulAbort \/ GracefulCommit \/ GracefulCommitFailed
    \/ GracefulReconcile \/ GracefulInstall \/ GracefulReplaceStopped
    \/ ReplaceSpawn \/ ReplaceReady \/ ReplaceReject \/ ReplaceInstall \/ ReplacePublish
    \/ ApplyCommit \/ ApplyReconcile \/ ApplyPublish \/ ApplyStopped
    \/ SwitchPrepare \/ SwitchStopped
    \/ (\E e \in Epochs : RecoverEntry(e)) \/ RecoverDone

Request ==
    \/ \E d \in Specs : Start(d)
    \/ \E d \in Specs : Switch(d)
    \/ \E d \in Specs, expected \in {NoRev, status.rev}, class \in {"InPlace", "Switch"} :
          ApplyConfig(d, expected, class)
    \/ Restart \/ Stop \/ Shutdown \/ RecoverQuarantine

Environment ==
    \/ Kill \/ Construct \/ DropOperation \/ Forward
    \/ \E e \in Epochs :
          \/ ConstructFails(e) \/ InstanceReady(e) \/ InstanceRestarting(e)
          \/ Respawn(e) \/ InstanceStopped(e) \/ ProcessExit(e)

Next == Request \/ OperationStep \/ Environment

Spec == Init /\ [][Next]_vars

(* The runtime runs the operation that holds the mutex, and every instance *)
(* that is starting ends at its startup deadline at the latest. Crashes    *)
(* are bounded, so it either becomes ready or does end.                    *)
StartupDeadline(e) == life[e] \in {"Starting", "Restarting"} /\ InstanceStopped(e)

FairSpec ==
    /\ Spec
    /\ WF_vars(OperationStep)
    /\ \A e \in Epochs : WF_vars(StartupDeadline(e))

-----------------------------------------------------------------------------
(* Properties                                                              *)

(* At no time do two core processes serve traffic: an overlapping          *)
(* successor runs its zero-inbound bootstrap until the old core's death is *)
(* confirmed, and no operation launches beside a core that may live.       *)
OneServingCore == \A e, f \in Epochs : Serving(e) /\ Serving(f) => e = f

(* The manager implements the single serving slot: whatever the switch,    *)
(* the compensation, the crash or the restart of the service, one epoch    *)
(* stops serving before another one starts.                                *)
Slot == INSTANCE ServingSlot WITH serving <- {e \in Epochs : Serving(e)}
ImplementsServingSlot == Slot!Spec

(* cleanup_epoch never deletes the pid record of a live process: the       *)
(* record is the only authority by which a later sweep, stop or recovery   *)
(* may kill it.                                                            *)
LiveHasRecord == \A e \in Epochs : Live(e) => record[e]

(* Every process that may be alive is owned: by the active instance, by    *)
(* the operation in flight, or by an unproven quarantine entry.            *)
LiveIsOwned ==
    up => \A e \in Epochs : Live(e) =>
        \/ current.epoch = e
        \/ e \in held
        \/ e \in quarantine \ proven

(* Between operations the active epoch's file is its committed revision,   *)
(* whatever applies, rollbacks and failures came before, so a supervisor   *)
(* respawn loads that revision; and a live core has loaded it.             *)
CommittedRevision ==
    pc = "idle" /\ current # NoRev =>
        /\ config[current.epoch] = Full(current.spec)
        /\ Live(current.epoch) => proc[current.epoch] = Full(current.spec)

(* While an uncertain epoch is quarantined no operation brings a new       *)
(* instance up, also not one that was half-way when the latch fell.        *)
QuarantineBlocksLaunch ==
    [][\A e \in Epochs : quarantine # {} /\ supervised'[e] => supervised[e]]_vars

(* Between operations the status carries the revision of the core that     *)
(* ctrl.current retains: a failed switch or apply has re-published it.     *)
RetainedIsPublished == pc = "idle" /\ current # NoRev => status.rev = current

(* Between operations, with no core, the status shows no activity: every   *)
(* failed start, switch and apply has published its terminal state.        *)
NoCoreNoActivity == pc = "idle" /\ current = NoRev => status.state = "Stopped"

(* An instance that stopped on its own shows as Stopped once its forwarder *)
(* has ended: the terminal transition is not overwritten.                  *)
TerminalIsPublished ==
    pc = "idle" /\ current # NoRev /\ life[current.epoch] = "Stopped" /\ fwd = "none"
        => status.state = "Stopped"

(* Between operations the active epoch has no backup left: a stranded one  *)
(* would refuse every later in-place apply of that generation.             *)
BackupsConsumed == pc = "idle" /\ current # NoRev => backup[current.epoch] = NoBackups

(* Every operation ends, so the mutex is free again: nothing waits forever *)
(* for an instance that neither becomes ready nor stops.                   *)
OperationsEnd == pc # "idle" ~> pc = "idle"

=============================================================================
