-------------------------- MODULE CoreManagerInv --------------------------
(***************************************************************************)
(* The inductive invariant of the control plane, and what the building     *)
(* blocks of its operations do to it.                                      *)
(***************************************************************************)
EXTENDS CoreManager, TLAPS

USE Z3T(60), SMTT(60), ZenonT(20)

-----------------------------------------------------------------------------
(* What an operation knows at each of its awaits: where the active         *)
(* instance is, which instances it owns, which epochs have no process.     *)

(* The operation owns one instance, r's.                                   *)
Holds(r) == r \in Revs /\ held = {r.epoch}
Retains == current \in Revs /\ held = {}
Took == current = NoRev
Dead(r) == r \in Revs /\ ~Live(r.epoch)

(* r has no inbounds, neither in its process nor in the file that a        *)
(* respawn would load.                                                     *)
Bootstrapped(r) == ~config[r.epoch].full /\ ~proc[r.epoch].full

AnotherEpoch == op.old \in Revs /\ op.new \in Revs /\ op.new.epoch # op.old.epoch
SameEpoch == op.old \in Revs /\ op.new \in Revs /\ op.new.epoch = op.old.epoch
Replaces ==
    \/ op.mode \in {"apply", "applyRollback"} /\ SameEpoch
    \/ op.mode \in {"graceful", "switch", "switchRollback"} /\ AnotherEpoch

AtIdle == op = NoOp /\ held = {}
AtLaunch == Took /\ held = {} /\ op.spec \in Specs
AtStaleStop == Took /\ Holds(op.old) /\ op.spec \in Specs
AtStartSpawn == Took /\ held = {} /\ Dead(op.new)
AtStart == Took /\ Holds(op.new)
AtStop == Took /\ Holds(op.old)
AtPrepare == Retains /\ op.spec \in Specs
AtRepublish == Retains /\ op.seen # "Absent"
AtStopFirst == Took /\ Holds(op.old) /\ AnotherEpoch /\ Dead(op.new)
AtOverlapSpawn ==
    Retains /\ Dead(op.new) /\ op.new.epoch # current.epoch /\ Bootstrapped(op.new)
AtOverlap ==
    /\ current \in Revs /\ Holds(op.new) /\ op.new.epoch # current.epoch
    /\ Bootstrapped(op.new)
AtStopOld ==
    Took /\ AnotherEpoch /\ held = {op.old.epoch, op.new.epoch} /\ Bootstrapped(op.new)
AtAbort == AtStopOld /\ ~supervised[op.old.epoch]
AtReconcile == Took /\ Holds(op.new) /\ AnotherEpoch /\ Dead(op.old)
AtCommit == AtReconcile /\ Bootstrapped(op.new)
AtReplaceSpawn == Took /\ held = {} /\ Replaces /\ Dead(op.old) /\ Dead(op.new)
AtReplace ==
    /\ Took /\ Replaces /\ Holds(ReplaceRev)
    /\ op.mode \in {"graceful", "switch"} => Dead(op.old)
AtReplacePublish ==
    /\ Replaces /\ op.mode # "graceful" /\ current = ReplaceRev /\ held = {}
    /\ op.mode = "switch" => Dead(op.old)
AtApplyCommit == AtPrepare /\ current.gen < MaxGen
AtApply == Retains /\ current = op.old /\ SameEpoch
AtApplyStop == Took /\ Holds(op.old) /\ SameEpoch
AtRecover == held = {} /\ op.todo \subseteq quarantine

PointInv ==
    /\ pc = "idle" => AtIdle
    /\ pc = "launch" => AtLaunch
    /\ pc = "staleStop" => AtStaleStop
    /\ pc = "startSpawn" => AtStartSpawn
    /\ pc \in {"startReady", "startInstall", "startReject"} => AtStart
    /\ pc \in {"stopStale", "stopWait"} => AtStop
    /\ pc \in {"hardPrepare", "gPrepare", "switchPrepare"} => AtPrepare
    /\ pc = "republish" => AtRepublish
    /\ pc \in {"hardStop", "switchStop"} => AtStopFirst
    /\ pc = "gSpawn" => AtOverlapSpawn
    /\ pc \in {"gReady", "gReject"} => AtOverlap
    /\ pc = "gStopOld" => AtStopOld
    /\ pc = "gAbort" => AtAbort
    /\ pc \in {"gCommit", "gCommitFail"} => AtCommit
    /\ pc \in {"gReconcile", "gInstall", "gReplaceStop"} => AtReconcile
    /\ pc = "replaceSpawn" => AtReplaceSpawn
    /\ pc \in {"replaceReady", "replaceReject", "replaceInstall"} => AtReplace
    /\ pc = "replacePublish" => AtReplacePublish
    /\ pc = "applyCommit" => AtApplyCommit
    /\ pc \in {"applyReconcile", "applyPublish"} => AtApply
    /\ pc = "applyStop" => AtApplyStop
    /\ pc = "recover" => AtRecover

-----------------------------------------------------------------------------
(* What holds wherever the operation is.                                   *)

(* A quarantine exists only between operations, in recover_quarantine and  *)
(* in a stop.                                                              *)
QuarantineWindow ==
    pc \notin {"idle", "recover", "stopStale", "stopWait"} => quarantine = {}

(* Its epochs have no instance left.                                       *)
QuarantinedGone ==
    \A e \in quarantine : ~supervised[e] /\ e # current.epoch /\ e \notin held

(* An entry with a death proof has no process.                             *)
ProvenDead == proven \subseteq quarantine /\ \A e \in proven : ~Live(e)

(* Only the active instance and those of the operation are supervised.     *)
SupervisedIsHeld ==
    \A e \in Epochs : supervised[e] => e = current.epoch \/ e \in held

(* A service that is down has no memory.                                   *)
DownIsEmpty == ~up => pc = "idle" /\ current = NoRev /\ quarantine = {}

(* The counter is not below any epoch the manager uses, nor below that of  *)
(* any process or supervisor.                                              *)
EpochsAllocated ==
    current.epoch <= epoch /\ op.new.epoch <= epoch /\ op.old.epoch <= epoch
LiveAllocated == \A e \in Epochs : Live(e) \/ supervised[e] => e <= epoch

(* An instance that is owned has published a state.                        *)
OwnedHasLife ==
    /\ current # NoRev => life[current.epoch] # "Absent"
    /\ \A e \in held : life[e] # "Absent"

Ownership == QuarantinedGone /\ SupervisedIsHeld /\ OwnedHasLife
Processes == ProvenDead /\ LiveAllocated /\ LiveHasRecord
Control == QuarantineWindow /\ DownIsEmpty /\ EpochsAllocated

(* Holds whether or not callers drop operations.                           *)
ControlInv == TypeOK /\ PointInv /\ Ownership /\ Processes /\ Control

(* An epoch that serves, or would serve after a respawn, is the only one.  *)
MayServe(e) == Serving(e) \/ (supervised[e] /\ config[e].full)
OneMayServe == \A e, f \in Epochs : MayServe(e) /\ MayServe(f) => e = f

(* Holds when they do not.                                                 *)
OwnerInv == LiveIsOwned /\ OneMayServe

-----------------------------------------------------------------------------
(* Revisions, configurations and the operation's locals.                   *)

(* The null revision is no revision.                                       *)
LEMMA RevFacts ==
    /\ NoRev \notin Revs /\ NoRev.epoch = 0 /\ NoRev.spec = NoSpec
    /\ \A r \in Revs : r.epoch \in Epochs /\ r.gen \in Gens /\ r.spec \in Specs
    /\ \A e \in Epochs, g \in Gens, d \in Specs :
          /\ Rev(e, g, d) \in Revs
          /\ Rev(e, g, d).epoch = e /\ Rev(e, g, d).gen = g /\ Rev(e, g, d).spec = d
BY SpecsAssumption, Zenon DEF NoRev, Revs, Rev, Epochs, Gens

(* The null configuration is no configuration.                             *)
LEMMA ConfigFacts ==
    /\ NoConfig \notin Configs /\ NoConfig.full = FALSE
    /\ \A c \in Configs : c.full \in BOOLEAN
    /\ \A d \in Specs :
          /\ Full(d) \in Configs /\ Full(d).full = TRUE
          /\ Bootstrap(d) \in Configs /\ Bootstrap(d).full = FALSE
BY SpecsAssumption, Zenon DEF NoConfig, Configs, Full, Bootstrap

(* The null operation is the one that holds nothing.                       *)
LEMMA OpFacts ==
    /\ NoOp \in Ops
    /\ NoOp.mode = "none" /\ NoOp.spec = NoSpec /\ NoOp.new = NoRev /\ NoOp.old = NoRev
    /\ NoOp.seen = "Absent" /\ NoOp.todo = {} /\ NoOp.failed = FALSE
BY Zenon DEF NoOp, Ops, Modes, LifeStates

(* No generation is backed up at first.                                    *)
LEMMA BackupFacts == NoBackups \in [Gens -> Configs \cup {NoConfig}]
BY Zenon DEF NoBackups

(* Epochs are positive numbers up to the bound.                            *)
LEMMA EpochFacts ==
    /\ \A e \in Epochs : e \in Nat /\ e > 0 /\ e <= MaxEpoch
    /\ \A n \in 0..MaxEpoch : n < MaxEpoch => n + 1 \in Epochs
    /\ 1 \in Gens
    /\ \A g \in Gens : g < MaxGen => g + 1 \in Gens
BY BoundsAssumption DEF Epochs, Gens

-----------------------------------------------------------------------------
(* What the building blocks of the operations do, epoch by epoch.          *)

(* A confirmed stop ends process and supervision of its epoch only.        *)
LEMMA DeadEffect ==
    ASSUME InstTypeOK, NEW e \in Epochs, ConfirmedDead(e)
    PROVE  /\ InstTypeOK'
           /\ proc'[e] = NoConfig /\ ~supervised'[e] /\ life'[e] = "Stopped"
           /\ \A f \in Epochs : f # e =>
                proc'[f] = proc[f] /\ supervised'[f] = supervised[f] /\ life'[f] = life[f]
BY Zenon DEF InstTypeOK, ConfirmedDead, LifeStates

(* An unconfirmed one ends the supervision and leaves the process.         *)
LEMMA UnconfirmedEffect ==
    ASSUME InstTypeOK, NEW e \in Epochs, Unconfirmed(e)
    PROVE  /\ InstTypeOK'
           /\ ~supervised'[e] /\ proc' = proc /\ life' = life
           /\ \A f \in Epochs : f # e => supervised'[f] = supervised[f]
           /\ faults < MaxFaults /\ faults' = faults + 1
BY Zenon DEF InstTypeOK, Unconfirmed, Fault

(* Asking an instance to stop changes its published state only.            *)
LEMMA BeginStopEffect ==
    ASSUME InstTypeOK, NEW e \in Epochs, BeginStop(e)
    PROVE  /\ life' \in [Epochs -> LifeStates]
           /\ life'[e] \in {"Stopping", "Stopped"}
           /\ \A f \in Epochs : f # e => life'[f] = life[f]
BY Zenon DEF InstTypeOK, BeginStop, LifeStates

(* A spawned instance is supervised, and its process has its record.       *)
LEMMA SpawnEffect ==
    ASSUME InstTypeOK, DiskTypeOK, NEW e \in Epochs, SpawnInstance(e)
    PROVE  /\ InstTypeOK'
           /\ proc'[e] = config[e] /\ supervised'[e] /\ life'[e] = "Starting"
           /\ \A f \in Epochs : f # e =>
                proc'[f] = proc[f] /\ supervised'[f] = supervised[f] /\ life'[f] = life[f]
           /\ record' \in [Epochs -> BOOLEAN] /\ record'[e]
           /\ \A f \in Epochs : f # e => record'[f] = record[f]
BY Zenon DEF InstTypeOK, DiskTypeOK, SpawnInstance, LifeStates

(* Dropping a pid record touches no other epoch.                           *)
LEMMA RecordEffect ==
    ASSUME DiskTypeOK, NEW e \in Epochs, KeepOrDropRecord(e)
    PROVE  /\ record' \in [Epochs -> BOOLEAN]
           /\ \A f \in Epochs : f # e => record'[f] = record[f]
BY Zenon DEF DiskTypeOK, KeepOrDropRecord

(* cleanup_epoch removes the artifacts of its epoch and of no other.       *)
LEMMA CleanupOkEffect ==
    ASSUME DiskTypeOK, NEW e \in Epochs, CleanupOk(e)
    PROVE  /\ DiskTypeOK'
           /\ \A f \in Epochs : f # e =>
                config'[f] = config[f] /\ record'[f] = record[f]
           /\ config'[e] = NoConfig
           /\ faults' = faults
<1>1. config' \in [Epochs -> Configs \cup {NoConfig}] /\ record' \in [Epochs -> BOOLEAN]
  BY Zenon DEF DiskTypeOK, CleanupOk
<1>2. backup' \in [Epochs -> [Gens -> Configs \cup {NoConfig}]]
  BY BackupFacts, Zenon DEF DiskTypeOK, CleanupOk
<1>3. /\ \A f \in Epochs : f # e => config'[f] = config[f] /\ record'[f] = record[f]
      /\ config'[e] = NoConfig
  BY Zenon DEF DiskTypeOK, CleanupOk
<1> QED BY <1>1, <1>2, <1>3, Zenon DEF DiskTypeOK, CleanupOk, NoFault

(* A failed cleanup_epoch removes at most the artifacts of its epoch.      *)
LEMMA CleanupErrEffect ==
    ASSUME DiskTypeOK, NEW e \in Epochs, CleanupErr(e)
    PROVE  /\ DiskTypeOK'
           /\ \A f \in Epochs : f # e =>
                config'[f] = config[f] /\ record'[f] = record[f]
           /\ config'[e] \in {config[e], NoConfig}
           /\ faults < MaxFaults /\ faults' = faults + 1
<1>1. KeepOrDropRecord(e) /\ backup' = backup
  BY Zenon DEF CleanupErr
<1>2. config' \in [Epochs -> Configs \cup {NoConfig}]
  BY Zenon DEF DiskTypeOK, CleanupErr
<1>3. \A f \in Epochs : f # e => config'[f] = config[f]
  BY Zenon DEF DiskTypeOK, CleanupErr
<1>4. config'[e] \in {config[e], NoConfig}
  BY Zenon DEF DiskTypeOK, CleanupErr
<1> QED BY <1>1, <1>2, <1>3, <1>4, RecordEffect, Zenon DEF DiskTypeOK, CleanupErr, Fault

(* cleanup_epoch touches the files of its epoch only.                      *)
LEMMA CleanupEffect ==
    ASSUME DiskTypeOK, NEW e \in Epochs, Cleanup(e)
    PROVE  /\ DiskTypeOK'
           /\ \A f \in Epochs : f # e =>
                config'[f] = config[f] /\ record'[f] = record[f]
           /\ config'[e] \in {config[e], NoConfig}
           /\ \/ faults' = faults
              \/ faults < MaxFaults /\ faults' = faults + 1
BY CleanupOkEffect, CleanupErrEffect, Zenon DEF Cleanup

(* Removing the configuration of one epoch keeps the others.               *)
LEMMA DropConfigEffect ==
    ASSUME DiskTypeOK, NEW e \in Epochs, DropConfig(e)
    PROVE  /\ config' \in [Epochs -> Configs \cup {NoConfig}]
           /\ config'[e] \in {config[e], NoConfig}
           /\ \A f \in Epochs : f # e => config'[f] = config[f]
BY Zenon DEF DiskTypeOK, DropConfig

(* A failed prepare leaves at most a configuration of its own epoch.       *)
LEMMA PrepareFailedEffect ==
    ASSUME DiskTypeOK, NEW e \in Epochs, NEW c \in Configs, PrepareFailed(e, c)
    PROVE  /\ config' \in [Epochs -> Configs \cup {NoConfig}]
           /\ \A f \in Epochs : f # e => config'[f] = config[f]
           /\ \/ faults' = faults
              \/ faults < MaxFaults /\ faults' = faults + 1
BY Zenon DEF DiskTypeOK, PrepareFailed, Fault, NoFault

(* Removing one backup keeps every other.                                  *)
LEMMA RemoveBackupEffect ==
    ASSUME DiskTypeOK, NEW e \in Epochs, NEW g \in Gens, RemoveBackup(e, g)
    PROVE  /\ backup' \in [Epochs -> [Gens -> Configs \cup {NoConfig}]]
           /\ \/ faults' = faults
              \/ faults < MaxFaults /\ faults' = faults + 1
BY DEF DiskTypeOK, RemoveBackup, Fault, NoFault

(* Whatever a stop comes to, it brings nothing up and keeps the record of  *)
(* every process that still lives.                                         *)
LEMMA StopOutcome ==
    ASSUME InstTypeOK, LiveHasRecord, NEW e \in Epochs,
           \/ ConfirmedDead(e) /\ \A f \in Epochs : f # e => record'[f] = record[f]
           \/ Unconfirmed(e) /\ record' = record
    PROVE  /\ InstTypeOK' /\ LiveHasRecord'
           /\ \A f \in Epochs :
                /\ Live(f)' => Live(f)
                /\ proc'[f].full => proc[f].full
                /\ supervised'[f] => supervised[f] /\ f # e
                /\ life'[f] \in {life[f], "Stopped"}
<1>1. CASE ConfirmedDead(e) /\ \A f \in Epochs : f # e => record'[f] = record[f]
  <2>1. LiveHasRecord'
    BY <1>1, DeadEffect, Zenon DEF LiveHasRecord, Live
  <2> QED BY <1>1, <2>1, DeadEffect, ConfigFacts, Zenon DEF Live
<1>2. CASE Unconfirmed(e) /\ record' = record
  BY <1>2, UnconfirmedEffect, Zenon DEF LiveHasRecord, Live
<1> QED BY <1>1, <1>2, Zenon

(* A failed replacement touches the files of its epoch only.               *)
LEMMA ReplaceFailedEffect ==
    ASSUME DiskTypeOK, Replaces, ReplaceFailed
    PROVE  /\ DiskTypeOK'
           /\ \A f \in Epochs : f # ReplaceRev.epoch => record'[f] = record[f]
<1>1. /\ op.new.epoch \in Epochs /\ op.new.gen \in Gens
      /\ op.old.epoch \in Epochs
  BY RevFacts, Zenon DEF Replaces, SameEpoch, AnotherEpoch
<1>2. CASE op.mode \in {"graceful", "switch"}
  <2>1. Cleanup(op.new.epoch) /\ ReplaceRev = op.new
    BY <1>2, Zenon DEF ReplaceFailed, ReplaceRev
  <2> QED BY <1>1, <2>1, CleanupEffect, Zenon
<1>3. CASE op.mode = "apply"
  <2>1. ReplaceRev.epoch = op.old.epoch
    BY <1>3, Zenon DEF Replaces, SameEpoch, ReplaceRev
  <2>2. /\ KeepOrDropRecord(op.old.epoch) /\ backup' = backup
        /\ RestoreBackup(op.old.epoch, op.new.gen) \/ config' = config
    BY <1>3, Zenon DEF ReplaceFailed
  <2>3. backup[op.old.epoch][op.new.gen] \in Configs \cup {NoConfig}
    BY <1>1, Zenon DEF DiskTypeOK
  <2>4. config' \in [Epochs -> Configs \cup {NoConfig}]
    BY <2>2, <2>3, Zenon DEF DiskTypeOK, RestoreBackup
  <2> QED BY <1>1, <2>1, <2>2, <2>4, RecordEffect, Zenon DEF DiskTypeOK
<1>4. CASE op.mode \in {"applyRollback", "switchRollback"}
  <2>1. /\ KeepOrDropRecord(op.old.epoch) /\ UNCHANGED <<config, backup>>
        /\ ReplaceRev = op.old
    BY <1>4, Zenon DEF ReplaceFailed, ReplaceRev
  <2> QED BY <1>1, <2>1, RecordEffect, Zenon DEF DiskTypeOK
<1> QED BY <1>2, <1>3, <1>4, Zenon DEF ReplaceFailed

-----------------------------------------------------------------------------
(* Steps that bring nothing up keep the invariant when they keep its parts *)
(* about types, control points and owners.                                 *)

(* No process and no supervisor starts; no watch channel disappears.       *)
StartsNothing ==
    \A e \in Epochs :
        /\ Live(e)' => Live(e)
        /\ supervised'[e] => supervised[e]
        /\ life'[e] = "Absent" => life[e] = "Absent"

(* Nobody comes to own an instance that had no owner.                      *)
NoNewOwner ==
    \A e \in Epochs : e = current'.epoch \/ e \in held' => e = current.epoch \/ e \in held

(* What enters the quarantine has been given up.                           *)
LatchesReleased ==
    /\ quarantine \subseteq quarantine'
    /\ \A e \in quarantine' \ quarantine :
          ~supervised'[e] /\ e # current'.epoch /\ e \notin held'

(* A step that starts no process, takes no owner and releases no latch     *)
(* keeps what the invariant says of processes and ownership.               *)
LEMMA Frame ==
    ASSUME ControlInv, StartsNothing, NoNewOwner, LatchesReleased, proven' = proven,
           epoch <= epoch', TypeOK', PointInv', Control', SupervisedIsHeld',
           LiveHasRecord'
    PROVE  ControlInv'
<1>1. QuarantinedGone'
  BY Zenon DEF ControlInv, Ownership, QuarantinedGone, TypeOK, CtrlTypeOK, StartsNothing,
         NoNewOwner, LatchesReleased
<1>2. OwnedHasLife'
  <2>1. current' # NoRev => current'.epoch \in Epochs
    BY RevFacts, Zenon DEF TypeOK, CtrlTypeOK
  <2>2. held' \subseteq Epochs /\ current \in Revs \cup {NoRev}
    BY Zenon DEF ControlInv, TypeOK, CtrlTypeOK, OpTypeOK
  <2>3. \A e \in Epochs : e = current.epoch \/ e \in held => life[e] # "Absent"
    BY <2>2, RevFacts, EpochFacts DEF ControlInv, Ownership, OwnedHasLife
  <2> QED BY <2>1, <2>2, <2>3, Zenon DEF OwnedHasLife, StartsNothing, NoNewOwner
<1>3. ProvenDead' /\ LiveAllocated'
  <2>1. proven \subseteq Epochs /\ \A e \in Epochs : e \in Nat
    BY EpochFacts, Zenon DEF ControlInv, TypeOK, CtrlTypeOK
  <2>2. epoch \in Nat /\ epoch' \in Nat
    BY BoundsAssumption DEF ControlInv, TypeOK, CtrlTypeOK
  <2> QED BY <2>1, <2>2 DEF ControlInv, Processes, ProvenDead, LiveAllocated,
             StartsNothing, LatchesReleased
<1> QED BY <1>1, <1>2, <1>3, Zenon DEF ControlInv, Ownership, Processes

(* A step that leaves the instances and their owners alone.                *)
LEMMA Steady ==
    ASSUME ControlInv, UNCHANGED <<current, held, quarantine, proven>>,
           UNCHANGED <<life, supervised, proc, record>>,
           epoch <= epoch', TypeOK', PointInv', Control'
    PROVE  ControlInv'
<1>1. StartsNothing /\ NoNewOwner /\ LatchesReleased
  BY Zenon DEF StartsNothing, NoNewOwner, LatchesReleased, Live
<1>2. SupervisedIsHeld' /\ LiveHasRecord'
  BY Zenon DEF ControlInv, Ownership, Processes, SupervisedIsHeld, LiveHasRecord, Live
<1> QED BY <1>1, <1>2, Frame, Zenon

(* A step that passes an instance from ctrl.current to the operation, or   *)
(* back, and may ask it to stop.                                           *)
LEMMA Passed ==
    ASSUME ControlInv, UNCHANGED <<quarantine, proven, supervised>>,
           \A e \in Epochs : Live(e)' => Live(e),
           \A e \in Epochs : life'[e] = "Absent" => life[e] = "Absent",
           \A e \in Epochs : e = current'.epoch \/ e \in held'
                                <=> e = current.epoch \/ e \in held,
           epoch <= epoch', TypeOK', PointInv', Control', LiveHasRecord'
    PROVE  ControlInv'
<1>1. StartsNothing /\ NoNewOwner /\ LatchesReleased
  BY Zenon DEF StartsNothing, NoNewOwner, LatchesReleased
<1>2. SupervisedIsHeld'
  BY Zenon DEF ControlInv, Ownership, SupervisedIsHeld
<1> QED BY <1>1, <1>2, Frame, Zenon

(* The end of an operation.                                                *)
LEMMA Finished ==
    ASSUME Finish
    PROVE  /\ OpTypeOK' /\ PointInv' /\ QuarantineWindow'
           /\ op'.new.epoch = 0 /\ op'.old.epoch = 0
           /\ pc' = "idle" /\ held' = {}
<1>1. pc' = "idle" /\ op' = NoOp /\ held' = {}
  BY Zenon DEF Finish
<1>2. OpTypeOK' /\ QuarantineWindow'
  BY <1>1, OpFacts, Zenon DEF OpTypeOK, PCs, QuarantineWindow
<1>3. PointInv'
  BY <1>1, Zenon DEF PointInv, AtIdle
<1> QED BY <1>1, <1>2, <1>3, OpFacts, RevFacts, Zenon

(* A step that releases an instance after its stop, dead or quarantined.   *)
LEMMA Released ==
    ASSUME ControlInv, NEW e \in held, e # current.epoch, held' = held \ {e},
           \/ ConfirmedDead(e) /\ \A f \in Epochs : f # e => record'[f] = record[f]
           \/ Unconfirmed(e) /\ record' = record,
           quarantine' \in {quarantine, quarantine \cup {e}},
           UNCHANGED <<current, proven, epoch>>,
           TypeOK', PointInv', Control'
    PROVE  ControlInv'
<1>1. e \in Epochs /\ epoch \in Nat
  BY BoundsAssumption DEF ControlInv, TypeOK, CtrlTypeOK, OpTypeOK
<1>2. /\ LiveHasRecord'
      /\ \A f \in Epochs : /\ Live(f)' => Live(f)
                           /\ supervised'[f] => supervised[f] /\ f # e
                           /\ life'[f] \in {life[f], "Stopped"}
  BY <1>1, StopOutcome, Zenon DEF ControlInv, TypeOK, Processes
<1>3. StartsNothing /\ NoNewOwner
  BY <1>2, Zenon DEF StartsNothing, NoNewOwner
<1>4. LatchesReleased
  BY <1>1, <1>2, Zenon DEF LatchesReleased
<1>5. SupervisedIsHeld'
  BY <1>2, Zenon DEF ControlInv, Ownership, SupervisedIsHeld
<1> QED BY <1>1, <1>2, <1>3, <1>4, <1>5, Frame

(* An operation that ends with such a step.                                *)
LEMMA Ended ==
    ASSUME ControlInv, NEW e, held = {e}, e # current.epoch, Finish,
           \/ ConfirmedDead(e) /\ \A f \in Epochs : f # e => record'[f] = record[f]
           \/ Unconfirmed(e) /\ record' = record,
           quarantine' \in {quarantine, quarantine \cup {e}}, up,
           status' \in [state : CoreStates, rev : Revs \cup {NoRev}],
           faults' = faults \/ (faults < MaxFaults /\ faults' = faults + 1), DiskTypeOK',
           UNCHANGED <<up, epoch, current, lastSpec, proven, fwd, crashes, kills>>
    PROVE  ControlInv'
<1>1. /\ OpTypeOK' /\ PointInv' /\ QuarantineWindow' /\ held' = {}
      /\ op'.new.epoch = 0 /\ op'.old.epoch = 0
  BY Finished, Zenon
<1>2. e \in Epochs /\ epoch \in Nat
  BY BoundsAssumption DEF ControlInv, TypeOK, CtrlTypeOK, OpTypeOK
<1>3. InstTypeOK'
  BY <1>2, StopOutcome, Zenon DEF ControlInv, TypeOK, Processes
<1>4. CtrlTypeOK'
  BY <1>2, Zenon DEF ControlInv, TypeOK, CtrlTypeOK
<1>5. CountersOK'
  BY BoundsAssumption DEF ControlInv, TypeOK, CountersOK
<1>6. Control'
  BY <1>1, <1>2 DEF ControlInv, Control, DownIsEmpty, EpochsAllocated
<1> QED BY <1>1, <1>3, <1>4, <1>5, <1>6, Released, Zenon DEF TypeOK

(* The end of an operation whose stop stays unconfirmed.                   *)
LEMMA Latched ==
    ASSUME ControlInv, NEW e, held = {e}, e # current.epoch, up,
           Unconfirmed(e), LatchQuarantine({e}), DiskTypeOK',
           UNCHANGED <<up, epoch, current, lastSpec, fwd, crashes, kills, record>>
    PROVE  ControlInv'
<1>1. /\ Finish /\ quarantine' = quarantine \cup {e} /\ proven' = proven
      /\ status' \in [state : CoreStates, rev : Revs \cup {NoRev}]
  BY Zenon DEF LatchQuarantine, RecordQuarantine, PublishTerminalError, Publish, CoreStates
<1>2. faults < MaxFaults /\ faults' = faults + 1
  BY Zenon DEF Unconfirmed, Fault
<1> QED BY <1>1, <1>2, Ended, Zenon

(* An operation that ends with the stop of the one instance it holds.      *)
LEMMA Rejected ==
    ASSUME ControlInv, NEW e \in Epochs, held = {e}, e # current.epoch, up,
           \/ /\ ConfirmedDead(e) /\ Cleanup(e)
              /\ PublishTerminalError /\ Finish /\ UNCHANGED <<quarantine, proven>>
           \/ Unconfirmed(e) /\ LatchQuarantine({e}) /\ UNCHANGED disk,
           UNCHANGED <<up, epoch, current, lastSpec, fwd, crashes, kills>>
    PROVE  ControlInv'
<1>1. DiskTypeOK
  BY Zenon DEF ControlInv, TypeOK
<1>2. CASE Unconfirmed(e) /\ LatchQuarantine({e}) /\ UNCHANGED disk
  BY <1>1, <1>2, Latched, Zenon DEF disk, DiskTypeOK
<1>3. CASE /\ ConfirmedDead(e) /\ Cleanup(e)
           /\ PublishTerminalError /\ Finish /\ UNCHANGED <<quarantine, proven>>
  <2>1. status' \in [state : CoreStates, rev : Revs \cup {NoRev}]
    BY <1>3, Zenon DEF PublishTerminalError, Publish, CoreStates
  <2> QED BY <1>1, <1>3, <2>1, CleanupEffect, Ended, Zenon
<1> QED BY <1>2, <1>3, Zenon

(* A step that spawns the one instance of the operation.                   *)
LEMMA Spawns ==
    ASSUME ControlInv, NEW e \in Epochs, SpawnInstance(e), e <= epoch,
           quarantine = {}, held = {}, held' = {e},
           pc' \in {"startReady", "gReady", "replaceReady"}, op' = op, up,
           UNCHANGED <<up, epoch, current, lastSpec, quarantine, proven, fwd, status>>,
           UNCHANGED <<config, backup, crashes, faults, kills>>,
           PointInv'
    PROVE  ControlInv'
<1>1. /\ InstTypeOK'
      /\ proc'[e] = config[e] /\ supervised'[e] /\ life'[e] = "Starting"
      /\ \A f \in Epochs : f # e =>
            proc'[f] = proc[f] /\ supervised'[f] = supervised[f] /\ life'[f] = life[f]
      /\ record' \in [Epochs -> BOOLEAN] /\ record'[e]
      /\ \A f \in Epochs : f # e => record'[f] = record[f]
  BY SpawnEffect, Zenon DEF ControlInv, TypeOK
<1>2. TypeOK'
  <2>1. CtrlTypeOK' /\ DiskTypeOK' /\ CountersOK'
    BY <1>1, Zenon DEF ControlInv, TypeOK, CtrlTypeOK, DiskTypeOK, CountersOK
  <2>2. OpTypeOK'
    BY Zenon DEF ControlInv, TypeOK, OpTypeOK, PCs
  <2> QED BY <1>1, <2>1, <2>2, Zenon DEF TypeOK
<1>3. Ownership'
  <2>1. QuarantinedGone' /\ SupervisedIsHeld'
    BY <1>1, Zenon DEF ControlInv, Ownership, QuarantinedGone, SupervisedIsHeld
  <2>2. OwnedHasLife'
    BY <1>1, RevFacts, Zenon DEF ControlInv, Ownership, OwnedHasLife, TypeOK, CtrlTypeOK
  <2> QED BY <2>1, <2>2, Zenon DEF Ownership
<1>4. Processes'
  <2>1. ProvenDead'
    BY Zenon DEF ControlInv, Processes, ProvenDead
  <2>2. LiveAllocated' /\ LiveHasRecord'
    BY <1>1, Zenon DEF ControlInv, Processes, LiveAllocated, LiveHasRecord, Live
  <2> QED BY <2>1, <2>2, Zenon DEF Processes
<1>5. Control'
  BY Zenon DEF ControlInv, Control, QuarantineWindow, DownIsEmpty, EpochsAllocated
<1> QED BY <1>2, <1>3, <1>4, <1>5, Zenon DEF ControlInv

(* An operation that ends owning nothing.                                  *)
LEMMA Returns ==
    ASSUME ControlInv, up, held = {}, Finish, epoch' \in {epoch, epoch + 1},
           epoch' <= MaxEpoch, DiskTypeOK', LiveHasRecord',
           status' \in [state : CoreStates, rev : Revs \cup {NoRev}],
           faults' = faults \/ (faults < MaxFaults /\ faults' = faults + 1),
           UNCHANGED <<up, current, lastSpec, quarantine, proven, fwd, crashes, kills>>,
           UNCHANGED <<life, supervised, proc>>
    PROVE  ControlInv'
<1>1. /\ OpTypeOK' /\ PointInv' /\ QuarantineWindow' /\ held' = {}
      /\ op'.new.epoch = 0 /\ op'.old.epoch = 0
  BY Finished, Zenon
<1>2. epoch \in Nat /\ current.epoch \in Nat /\ epoch' \in Nat
  BY RevFacts, EpochFacts DEF ControlInv, TypeOK, CtrlTypeOK
<1>3. CtrlTypeOK' /\ InstTypeOK'
  BY <1>2 DEF ControlInv, TypeOK, CtrlTypeOK, InstTypeOK
<1>4. CountersOK'
  BY BoundsAssumption DEF ControlInv, TypeOK, CountersOK
<1>5. Control'
  BY <1>1, <1>2 DEF ControlInv, Control, DownIsEmpty, EpochsAllocated
<1>6. \A e \in Epochs : Live(e)' => Live(e)
  BY Zenon DEF Live
<1> QED BY <1>1, <1>2, <1>3, <1>4, <1>5, <1>6, Passed DEF TypeOK

(* What an operation in flight may rely on.                                *)
LEMMA InFlight ==
    ASSUME ControlInv, pc # "idle"
    PROVE  /\ up /\ epoch \in Nat /\ epoch <= MaxEpoch
           /\ op \in Ops /\ current \in Revs \cup {NoRev}
           /\ current.epoch \in Nat /\ op.new.epoch \in Nat /\ op.old.epoch \in Nat
           /\ current.epoch <= epoch /\ op.new.epoch <= epoch /\ op.old.epoch <= epoch
           /\ pc \notin {"recover", "stopStale", "stopWait"} => quarantine = {}
<1>1. up /\ (pc \notin {"recover", "stopStale", "stopWait"} => quarantine = {})
  BY Zenon DEF ControlInv, Control, DownIsEmpty, QuarantineWindow
<1>2. op \in Ops /\ current \in Revs \cup {NoRev}
  BY Zenon DEF ControlInv, TypeOK, CtrlTypeOK, OpTypeOK
<1>3. current.epoch \in Nat /\ op.new.epoch \in Nat /\ op.old.epoch \in Nat
  BY <1>2, RevFacts, EpochFacts DEF Ops
<1> QED BY <1>1, <1>2, <1>3 DEF ControlInv, TypeOK, CtrlTypeOK, Control, EpochsAllocated

(* The point at which an operation is about to spawn a replacement.        *)
LEMMA Replacing ==
    ASSUME ControlInv, pc # "idle", current = NoRev, quarantine = {},
           op' \in Ops, op'.new = op.new, op'.old = op.old, pc' = "replaceSpawn",
           held' = {}, AtReplaceSpawn', InstTypeOK', DiskTypeOK',
           status' \in [state : CoreStates, rev : Revs \cup {NoRev}],
           faults' = faults \/ (faults < MaxFaults /\ faults' = faults + 1),
           UNCHANGED <<up, epoch, current, lastSpec, quarantine, proven>>,
           UNCHANGED <<fwd, crashes, kills>>
    PROVE  TypeOK' /\ PointInv' /\ Control'
<1>1. CtrlTypeOK' /\ OpTypeOK'
  BY Zenon DEF ControlInv, TypeOK, CtrlTypeOK, OpTypeOK, PCs
<1>2. CountersOK'
  BY BoundsAssumption DEF ControlInv, TypeOK, CountersOK
<1>3. PointInv'
  BY Zenon DEF PointInv
<1>4. Control'
  BY InFlight, Zenon DEF Control, QuarantineWindow, DownIsEmpty, EpochsAllocated
<1> QED BY <1>1, <1>2, <1>3, <1>4, Zenon DEF TypeOK

(* A confirmed stop that makes room for one.                               *)
LEMMA StopsForReplacement ==
    ASSUME ControlInv, pc \notin {"idle", "recover", "stopStale", "stopWait"},
           current = NoRev, NEW e \in Epochs, held = {e}, held' = {},
           ConfirmedDead(e), \A f \in Epochs : f # e => record'[f] = record[f],
           op' \in Ops, op'.new = op.new, op'.old = op.old, Replaces',
           op.new \in Revs, op.old \in Revs,
           e = op.new.epoch \/ ~Live(op.new.epoch),
           e = op.old.epoch \/ ~Live(op.old.epoch),
           pc' = "replaceSpawn", DiskTypeOK',
           status' \in [state : CoreStates, rev : Revs \cup {NoRev}],
           faults' = faults \/ (faults < MaxFaults /\ faults' = faults + 1),
           UNCHANGED <<up, epoch, current, lastSpec, quarantine, proven>>,
           UNCHANGED <<fwd, crashes, kills>>
    PROVE  ControlInv'
<1>1. quarantine = {} /\ e # current.epoch /\ epoch \in Nat
  BY InFlight, RevFacts, EpochFacts
<1>2. /\ InstTypeOK' /\ proc'[e] = NoConfig
      /\ \A f \in Epochs : f # e => proc'[f] = proc[f]
  BY DeadEffect, Zenon DEF ControlInv, TypeOK
<1>3. AtReplaceSpawn'
  BY <1>2, RevFacts DEF AtReplaceSpawn, Took, Dead, Live
<1>4. TypeOK' /\ PointInv' /\ Control'
  BY <1>1, <1>2, <1>3, Replacing, Zenon
<1> QED BY <1>1, <1>4, Released, Zenon

(* next_epoch hands out an epoch without process and instance.             *)
LEMMA FreshEpoch ==
    ASSUME ControlInv, NextEpoch
    PROVE  /\ epoch + 1 \in Epochs /\ epoch' = epoch + 1 /\ epoch' \in 0..MaxEpoch
           /\ ~Live(epoch + 1) /\ current.epoch # epoch + 1
           /\ \A d \in Specs : LET r == Rev(epoch + 1, 1, d) IN
                 r \in Revs /\ r.epoch = epoch + 1 /\ r.spec = d
<1>1. epoch \in 0..MaxEpoch /\ epoch < MaxEpoch /\ epoch' = epoch + 1
  BY Zenon DEF ControlInv, TypeOK, CtrlTypeOK, NextEpoch, CanAllocate
<1>2. epoch + 1 \in Epochs /\ epoch' \in 0..MaxEpoch
  BY <1>1, EpochFacts, BoundsAssumption
<1>3. ~Live(epoch + 1) /\ current.epoch # epoch + 1
  BY <1>1, <1>2 DEF ControlInv, Processes, LiveAllocated, Control, EpochsAllocated
<1> QED BY <1>1, <1>2, <1>3, RevFacts, EpochFacts

(* Between operations nothing is held.                                     *)
LEMMA IdlePoint ==
    ASSUME ControlInv, pc = "idle"
    PROVE  op = NoOp /\ held = {}
BY Zenon DEF ControlInv, PointInv, AtIdle

(* republish_retained finds the state of the retained instance.            *)
LEMMA RetainedEffect ==
    ASSUME ControlInv, ReadRetained, current \in Revs, op \in Ops
    PROVE  /\ op' \in Ops /\ op'.seen # "Absent" /\ op'.new = op.new /\ op'.old = op.old
           /\ pc' = "republish"
<1>1. pc' = "republish" /\ op' = [op EXCEPT !.seen = life[current.epoch]]
  BY Zenon DEF ReadRetained, Goto
<1>2. life[current.epoch] \in LifeStates /\ life[current.epoch] # "Absent"
  BY RevFacts DEF ControlInv, TypeOK, InstTypeOK, Ownership, OwnedHasLife
<1> QED BY <1>1, <1>2, Zenon DEF Ops

(* The configuration a live process may take in leaves it alive.           *)
LEMMA LoadEffect ==
    ASSUME InstTypeOK, NEW e \in Epochs, NEW c \in Configs,
           MayLoad(e, c) \/ (Live(e) /\ proc' = [proc EXCEPT ![e] = c])
    PROVE  /\ proc' \in [Epochs -> Configs \cup {NoConfig}]
           /\ \A f \in Epochs : Live(f)' <=> Live(f)
BY ConfigFacts, Zenon DEF InstTypeOK, MayLoad, Live

(* A prepared successor whose predecessor is taken and asked to stop.      *)
LEMMA TakesForStop ==
    ASSUME ControlInv, pc \in {"hardPrepare", "switchPrepare"}, AtPrepare, NextEpoch,
           NEW r \in Revs, r.epoch = epoch + 1,
           config' = [config EXCEPT ![r.epoch] = Full(r.spec)],
           op' = [op EXCEPT !.new = r, !.old = current],
           held' = {current.epoch}, TakeCurrent, BeginStop(current.epoch),
           pc' \in {"hardStop", "switchStop"},
           status' \in [state : CoreStates, rev : Revs \cup {NoRev}],
           UNCHANGED <<up, lastSpec, quarantine, proven, supervised, proc, record>>,
           UNCHANGED <<backup, crashes, faults, kills>>
    PROVE  ControlInv'
<1>1. /\ current \in Revs /\ held = {} /\ up /\ op \in Ops /\ epoch \in Nat
      /\ current.epoch <= epoch /\ quarantine = {}
  BY InFlight, Zenon DEF AtPrepare, Retains
<1>2. /\ epoch + 1 \in Epochs /\ epoch' = epoch + 1 /\ epoch' \in 0..MaxEpoch
      /\ ~Live(epoch + 1) /\ current.epoch # epoch + 1 /\ r.spec \in Specs
  BY FreshEpoch, RevFacts, Zenon
<1>3. op' \in Ops /\ op'.new = r /\ op'.old = current
  BY <1>1, <1>2, Zenon DEF Ops
<1>4. current' = NoRev /\ fwd' = "none" /\ current.epoch \in Epochs
  BY <1>1, RevFacts, Zenon DEF TakeCurrent
<1>5. /\ life' \in [Epochs -> LifeStates]
      /\ \A e \in Epochs : life'[e] = "Absent" => life[e] = "Absent"
  BY <1>4, BeginStopEffect, Zenon DEF ControlInv, TypeOK
<1>6. TypeOK'
  <2>1. CtrlTypeOK' /\ InstTypeOK'
    BY <1>2, <1>4, <1>5, Zenon DEF ControlInv, TypeOK, CtrlTypeOK, InstTypeOK
  <2>2. DiskTypeOK'
    BY <1>2, ConfigFacts, Zenon DEF ControlInv, TypeOK, DiskTypeOK
  <2>3. OpTypeOK' /\ CountersOK'
    BY <1>3, <1>4, Zenon DEF ControlInv, TypeOK, OpTypeOK, PCs, CountersOK
  <2> QED BY <2>1, <2>2, <2>3, Zenon DEF TypeOK
<1>7. PointInv'
  BY <1>1, <1>2, <1>4 DEF PointInv, AtStopFirst, Took, Holds, AnotherEpoch, Dead, Live
<1>8. Control'
  BY <1>1, <1>2, <1>4, RevFacts, EpochFacts
     DEF Control, QuarantineWindow, DownIsEmpty, EpochsAllocated
<1>9. \A e \in Epochs : e = current'.epoch \/ e \in held'
                           <=> e = current.epoch \/ e \in held
  BY <1>1, <1>4, RevFacts, EpochFacts
<1>10. LiveHasRecord' /\ \A e \in Epochs : Live(e)' => Live(e)
  BY Zenon DEF ControlInv, Processes, LiveHasRecord, Live
<1> QED BY <1>1, <1>2, <1>5, <1>6, <1>7, <1>8, <1>9, <1>10, Passed

(* install_switched, and the cleanup of an epoch that is dead.             *)
LEMMA InstallsNew ==
    ASSUME ControlInv, pc \in {"gInstall", "replaceInstall"}, current = NoRev,
           Holds(op.new), Dead(op.old), InstallNew, Cleanup(op.old.epoch), Finish,
           UNCHANGED <<up, epoch, quarantine, proven, inst, crashes, kills>>
    PROVE  ControlInv'
<1>1. /\ op.new \in Revs /\ held = {op.new.epoch}
      /\ op.old.epoch \in Epochs /\ ~Live(op.old.epoch)
  BY RevFacts, Zenon DEF Holds, Dead
<1>2. /\ current' = op.new /\ lastSpec' = op.new.spec /\ fwd' = "fresh"
      /\ status' = [state |-> "Running", rev |-> op.new]
  BY Zenon DEF InstallNew, Publish
<1>3. /\ DiskTypeOK' /\ \A f \in Epochs : f # op.old.epoch => record'[f] = record[f]
      /\ faults' = faults \/ (faults < MaxFaults /\ faults' = faults + 1)
  BY <1>1, CleanupEffect, Zenon DEF ControlInv, TypeOK
<1>4. UNCHANGED <<life, supervised, proc>>
  BY Zenon DEF inst
<1>5. /\ OpTypeOK' /\ PointInv' /\ QuarantineWindow' /\ held' = {} /\ pc' = "idle"
      /\ op'.new.epoch = 0 /\ op'.old.epoch = 0
  BY Finished, Zenon
<1>6. TypeOK'
  <2>1. CtrlTypeOK'
    BY <1>1, <1>2, RevFacts, Zenon DEF ControlInv, TypeOK, CtrlTypeOK, CoreStates
  <2>2. InstTypeOK' /\ CountersOK'
    BY <1>3, <1>4, BoundsAssumption DEF ControlInv, TypeOK, InstTypeOK, CountersOK
  <2> QED BY <1>3, <1>5, <2>1, <2>2, Zenon DEF TypeOK
<1>7. Control' /\ epoch <= epoch'
  BY <1>2, <1>5, InFlight DEF Control, DownIsEmpty, EpochsAllocated
<1>8. \A e \in Epochs : e = current'.epoch \/ e \in held'
                           <=> e = current.epoch \/ e \in held
  BY <1>1, <1>2, <1>5, RevFacts, EpochFacts
<1>9. LiveHasRecord' /\ \A e \in Epochs : Live(e)' => Live(e)
  BY <1>1, <1>3, <1>4, Zenon DEF ControlInv, Processes, LiveHasRecord, Live
<1> QED BY <1>4, <1>6, <1>5, <1>7, <1>8, <1>9, Passed, Zenon

-----------------------------------------------------------------------------
(* Which revision the files, the processes and the status show, when       *)
(* callers do not drop operations.                                         *)

(* The revisions whose epoch's file is theirs, and those that a live       *)
(* process of the epoch has loaded as well.                                *)
Filed == {r \in Revs : config[r.epoch] = Full(r.spec)}
Agreed == {r \in Filed : proc[r.epoch] \in {NoConfig, Full(r.spec)}}

(* The backup that an in-place apply would restore.                        *)
Saved == backup[op.old.epoch][op.new.gen] = Full(op.old.spec)

ReplacePCs == {"replaceReady", "replaceReject", "replaceInstall"}
ReplacingPCs == ReplacePCs \cup {"replaceSpawn"}
AgreedPCs == {"startSpawn", "startReady", "startInstall", "hardStop", "switchStop",
              "gInstall", "applyPublish"}
FiledPCs == {"gReconcile", "gReplaceStop", "applyReconcile", "applyStop"}

(* The active core runs its revision, but for an apply between its commit  *)
(* and its publication; what an operation is about to launch or install is *)
(* filed; and what it may fall back to is still in its file or backup.     *)
RevisionInv ==
    /\ current # NoRev /\ pc \notin {"applyReconcile", "applyPublish"} => current \in Agreed
    /\ pc \in AgreedPCs => op.new \in Agreed
    /\ pc \in FiledPCs => op.new \in Filed
    /\ pc \in ReplacingPCs => ReplaceRev \in Agreed
    /\ pc = "switchStop" \/ (pc \in ReplacingPCs /\ op.mode = "switch") => op.old \in Filed
    /\ pc \in {"applyReconcile", "applyStop"} \/ (pc \in ReplacingPCs /\ op.mode = "apply")
          => Saved

(* A step that leaves the file of a revision alone, and loads nothing else *)
(* into its process, keeps it.                                             *)
LEMMA StaysFiled ==
    ASSUME NEW r \in Filed, config'[r.epoch] = config[r.epoch]
    PROVE  /\ r \in Filed'
           /\ r \in Agreed /\ proc'[r.epoch] \in {proc[r.epoch], NoConfig, config[r.epoch]}
                 => r \in Agreed'
           /\ proc'[r.epoch] \in {NoConfig, config[r.epoch]} => r \in Agreed'
BY Zenon DEF Agreed, Filed

(* Where no operation relies on a revision only the active one matters.    *)
LEMMA Settles ==
    ASSUME pc' \notin AgreedPCs \cup FiledPCs \cup ReplacingPCs,
           current' # NoRev => current' \in Agreed'
    PROVE  RevisionInv'
BY Zenon DEF RevisionInv, AgreedPCs, FiledPCs

(* Crashes and respawns: a respawn loads what is filed.                    *)
LEMMA Undisturbed ==
    ASSUME RevisionInv, UNCHANGED <<pc, op, current, config, backup>>,
           \A e \in Epochs : proc'[e] \in {proc[e], NoConfig, config[e]}
    PROVE  RevisionInv'
<1>1. Filed' = Filed
  BY Zenon DEF Filed
<1>2. \A r \in Agreed : r \in Agreed'
  BY StaysFiled, RevFacts, Zenon DEF Agreed, Filed
<1>3. ReplaceRev' = ReplaceRev /\ (Saved' <=> Saved)
  BY Zenon DEF ReplaceRev, Saved
<1> QED BY <1>1, <1>2, <1>3, Zenon DEF RevisionInv

(* A request changes neither file nor process.                             *)
LEMMA RequestRevision ==
    ASSUME ControlInv, RevisionInv, Request
    PROVE  RevisionInv'
<1> DEFINE Asks == /\ pc = "idle" /\ UNCHANGED <<proc, config>>
                   /\ current' \in {current, NoRev}
                   /\ pc' \in {"launch", "staleStop", "stopStale", "stopWait", "gPrepare",
                               "hardPrepare", "applyCommit", "switchPrepare", "recover"}
<1>1. ASSUME Asks
      PROVE  RevisionInv'
  <2>1. current' # NoRev => current' \in Agreed'
    BY <1>1, Zenon DEF RevisionInv, Agreed, Filed
  <2> QED BY <1>1, <2>1, Settles, Zenon DEF AgreedPCs, FiledPCs, ReplacingPCs, ReplacePCs
<1>2. ASSUME NEW d, pc = "idle", LaunchFresh(d)
      PROVE  Asks
  BY <1>2, Zenon DEF LaunchFresh, TakeCurrent, Goto, inst, disk
<1> HIDE DEF Asks
<1>3. ASSUME NEW d, Switch(d)
      PROVE  Asks
  <2>1. pc = "idle"
    BY <1>3, Zenon DEF Switch, Admitted
  <2>2. \/ LaunchFresh(d)
        \/ UNCHANGED <<ctrlVars, inst, disk>> /\ pc' \in {"gPrepare", "hardPrepare"}
    BY <1>3, Zenon DEF Switch, Goto
  <2> QED BY <1>2, <2>1, <2>2, Zenon DEF ctrlVars, inst, disk, Asks
<1>4. CASE \E d \in Specs : Start(d)
  BY <1>1, <1>2, <1>4, Zenon DEF Start, Admitted
<1>5. CASE Restart \/ \E d \in Specs : Switch(d)
  BY <1>1, <1>3, <1>5, Zenon DEF Restart
<1>6. ASSUME NEW d, NEW expected, NEW class, ApplyConfig(d, expected, class)
      PROVE  Asks
  BY <1>6, Zenon DEF ApplyConfig, Admitted, Goto, ctrlVars, inst, disk, Asks
<1>7. CASE Stop \/ Shutdown
  <2>1. Asks
    BY <1>7, Zenon DEF Stop, Shutdown, TakeCurrent, Goto, disk, Asks
  <2> QED BY <1>1, <2>1, Zenon
<1>8. CASE RecoverQuarantine
  <2>1. Asks
    BY <1>8, Zenon DEF RecoverQuarantine, Goto, ctrlVars, inst, disk, Asks
  <2> QED BY <1>1, <2>1, Zenon
<1> QED BY <1>1, <1>4, <1>5, <1>6, <1>7, <1>8, Zenon DEF Request

(* Stops after which no core is active.                                    *)
LEMMA StopRevision ==
    ASSUME ControlInv, RevisionInv,
           \/ StaleStopped \/ StartReject \/ StopDone
           \/ GracefulOldStopped \/ GracefulAbort \/ GracefulCommitFailed
    PROVE  RevisionInv'
<1>1. current' = current
  BY Zenon DEF StaleStopped, StartReject, StopDone, GracefulOldStopped, GracefulAbort,
         GracefulCommitFailed, ctrlVars
<1>2. pc \in {"staleStop", "startReject", "stopStale", "stopWait", "gStopOld", "gAbort",
              "gCommitFail"}
  BY Zenon DEF StaleStopped, StartReject, StopDone, GracefulOldStopped, GracefulAbort,
         GracefulCommitFailed
<1>3. current = NoRev
  BY <1>2, Zenon DEF ControlInv, PointInv, AtStaleStop, AtStart, AtStop, AtStopOld, AtAbort,
              AtCommit, AtReconcile, Took
<1>4. pc' \in {"idle", "launch", "gCommit", "gAbort"}
  BY Zenon DEF StaleStopped, StartReject, StopDone, GracefulOldStopped, GracefulAbort,
         GracefulCommitFailed, LatchQuarantine, Finish, Goto
<1> QED BY <1>1, <1>3, <1>4, Settles, Zenon DEF AgreedPCs, FiledPCs, ReplacingPCs, ReplacePCs

(* Steps beside the retained core: they touch another epoch.               *)
LEMMA RetainedRevision ==
    ASSUME ControlInv, RevisionInv,
           \/ Republish \/ RecoverDone \/ \E e \in Epochs : RecoverEntry(e)
           \/ GracefulPrepare \/ GracefulSpawn \/ GracefulReady \/ GracefulReject
    PROVE  RevisionInv'
<1> DEFINE Beside ==
             /\ pc' \in {"idle", "recover", "republish", "gSpawn", "gReady", "gReject",
                         "gStopOld"}
             /\ current' \in {current, NoRev}
             /\ current # NoRev => /\ config'[current.epoch] = config[current.epoch]
                                   /\ proc'[current.epoch] \in {proc[current.epoch], NoConfig}
<1> DEFINE From == {"republish", "recover", "gPrepare", "gSpawn", "gReady", "gReject"}
<1>1. ASSUME Beside, pc \in From
      PROVE  RevisionInv'
  <2>1. current # NoRev => current \in Agreed /\ current \in Filed
    BY <1>1, Zenon DEF RevisionInv, Agreed
  <2>2. current' # NoRev => current' \in Agreed'
    BY <1>1, <2>1, StaysFiled, Zenon
  <2> QED BY <1>1, <2>2, Settles, Zenon DEF AgreedPCs, FiledPCs, ReplacingPCs, ReplacePCs
<1>2. DiskTypeOK /\ InstTypeOK /\ PointInv /\ (current # NoRev => current.epoch \in Epochs)
  BY RevFacts, Zenon DEF ControlInv, TypeOK, CtrlTypeOK
<1>3. CASE Republish \/ RecoverDone
  <2>1. Beside /\ pc \in From
    BY <1>3, Zenon DEF Republish, RecoverDone, Finish, ctrlVars, inst, disk
  <2> QED BY <1>1, <2>1, Zenon
<1>4. ASSUME NEW e \in Epochs, RecoverEntry(e)
      PROVE  RevisionInv'
  <2>1. UNCHANGED <<current, pc>> /\ pc = "recover" /\ e \in op.todo
    BY <1>4, Zenon DEF RecoverEntry
  <2>2. e # current.epoch
    BY <1>2, <2>1, Zenon DEF PointInv, AtRecover, ControlInv, Ownership, QuarantinedGone
  <2>3. \/ UNCHANGED <<proc, config>>
        \/ proc' = [proc EXCEPT ![e] = NoConfig] /\ (CleanupOk(e) \/ CleanupErr(e))
    BY <1>4, Zenon DEF RecoverEntry, disk
  <2>4. current # NoRev => /\ config'[current.epoch] = config[current.epoch]
                           /\ proc'[current.epoch] = proc[current.epoch]
    BY <1>2, <2>2, <2>3, CleanupOkEffect, CleanupErrEffect, Zenon DEF InstTypeOK
  <2> QED BY <1>1, <2>1, <2>4, Zenon
<1>5. CASE GracefulPrepare
  <2> DEFINE r == Rev(epoch + 1, 1, op.spec)
  <2>1. pc = "gPrepare" /\ op.spec \in Specs /\ NextEpoch /\ UNCHANGED <<current, proc>>
    BY <1>2, <1>5, Zenon DEF GracefulPrepare, PointInv, AtPrepare, ctrlVars, inst
  <2>2. /\ r \in Revs /\ r.epoch = epoch + 1 /\ r.epoch \in Epochs /\ r.epoch # current.epoch
        /\ Bootstrap(r.spec) \in Configs
    BY <2>1, FreshEpoch, ConfigFacts, Zenon
  <2> HIDE DEF r
  <2>3. /\ pc' \in {"republish", "gSpawn"}
        /\ \/ PrepareFailed(r.epoch, Bootstrap(r.spec))
           \/ config' = [config EXCEPT ![r.epoch] = Bootstrap(r.spec)]
    BY <1>5, Zenon DEF GracefulPrepare, ReadRetained, Goto, r
  <2>4. current # NoRev => config'[current.epoch] = config[current.epoch]
    BY <1>2, <2>2, <2>3, PrepareFailedEffect, Zenon DEF DiskTypeOK
  <2> QED BY <1>1, <2>1, <2>3, <2>4, Zenon
<1>6. CASE GracefulSpawn
  <2>1. /\ pc = "gSpawn" /\ op.new.epoch \in Epochs /\ op.new.epoch # current.epoch
        /\ UNCHANGED current
    BY <1>2, <1>6, RevFacts, Zenon DEF GracefulSpawn, PointInv, AtOverlapSpawn, Dead, ctrlVars
  <2>2. /\ pc' \in {"republish", "gReady"}
        /\ \/ SpawnInstance(op.new.epoch) /\ config' = config
           \/ Cleanup(op.new.epoch) /\ proc' = proc
    BY <1>6, Zenon DEF GracefulSpawn, ReadRetained, Goto, inst
  <2>3. current # NoRev => /\ config'[current.epoch] = config[current.epoch]
                           /\ proc'[current.epoch] = proc[current.epoch]
    BY <1>2, <2>1, <2>2, SpawnEffect, CleanupEffect
  <2> QED BY <1>1, <2>1, <2>2, <2>3, Zenon
<1>7. CASE GracefulReady
  <2>1. Beside /\ pc \in From
    BY <1>7, Zenon DEF GracefulReady, TakeCurrent, Goto, disk
  <2> QED BY <1>1, <2>1, Zenon
<1>8. CASE GracefulReject
  <2>1. /\ pc = "gReject" /\ op.new.epoch \in Epochs /\ op.new.epoch # current.epoch
        /\ UNCHANGED current
    BY <1>2, <1>8, RevFacts, Zenon DEF GracefulReject, PointInv, AtOverlap, Holds
  <2>2. /\ pc' \in {"republish", "idle"}
        /\ \/ ConfirmedDead(op.new.epoch) /\ Cleanup(op.new.epoch)
           \/ Unconfirmed(op.new.epoch) /\ config' = config
    BY <1>8, Zenon DEF GracefulReject, ReadRetained, LatchQuarantine, Finish, Goto, disk
  <2>3. current # NoRev => /\ config'[current.epoch] = config[current.epoch]
                           /\ proc'[current.epoch] = proc[current.epoch]
    BY <1>2, <2>1, <2>2, DeadEffect, UnconfirmedEffect, CleanupEffect
  <2> QED BY <1>1, <2>1, <2>2, <2>3, Zenon
<1> QED BY <1>3, <1>4, <1>5, <1>6, <1>7, <1>8, Zenon

(* start, and the hard switch up to it.                                    *)
LEMMA LaunchRevision ==
    ASSUME ControlInv, ControlInv', RevisionInv,
           \/ Launch \/ StartSpawn \/ StartReady \/ StartInstall \/ HardPrepare \/ HardStopped
           \/ SwitchPrepare
    PROVE  RevisionInv'
<1>1. DiskTypeOK /\ InstTypeOK /\ PointInv /\ op \in Ops /\ PointInv'
  BY Zenon DEF ControlInv, TypeOK, OpTypeOK
<1>2. ASSUME pc' \in {"idle", "republish", "startReject"}, current' # NoRev => current' \in Agreed'
      PROVE  RevisionInv'
  BY <1>2, Settles, Zenon DEF AgreedPCs, FiledPCs, ReplacingPCs, ReplacePCs
<1>3. ASSUME pc' \in {"startSpawn", "startReady", "startInstall", "hardStop"},
             current' = NoRev, op'.new \in Agreed'
      PROVE  RevisionInv'
  BY <1>3, Zenon DEF RevisionInv, AgreedPCs, FiledPCs, ReplacingPCs, ReplacePCs
<1>4. ASSUME pc \in {"launch", "hardPrepare", "switchPrepare"}, op.spec \in Specs, NextEpoch,
             proc' = proc, NEW r, r = Rev(epoch + 1, 1, op.spec),
             config' = [config EXCEPT ![r.epoch] = Full(r.spec)]
      PROVE  r \in Agreed' /\ (current # NoRev => current \in Agreed')
  <2>1. r \in Revs /\ r.epoch \in Epochs /\ ~Live(r.epoch) /\ r.epoch # current.epoch
    BY <1>4, FreshEpoch, Zenon
  <2>2. config'[r.epoch] = Full(r.spec) /\ proc'[r.epoch] = NoConfig
    BY <1>1, <1>4, <2>1, Zenon DEF DiskTypeOK, Live
  <2>3. current # NoRev => current \in Agreed /\ current \in Filed /\ current.epoch \in Epochs
    BY <1>4, RevFacts, Zenon DEF RevisionInv, Agreed, Filed
  <2>4. current # NoRev => config'[current.epoch] = config[current.epoch]
    BY <1>1, <1>4, <2>1, <2>3, Zenon DEF DiskTypeOK
  <2> QED BY <1>4, <2>1, <2>2, <2>3, <2>4, StaysFiled, Zenon DEF Agreed, Filed
<1>5. ASSUME pc \in {"hardPrepare", "switchPrepare"}, op.spec \in Specs, NextEpoch, proc' = proc,
             PrepareFailed(epoch + 1, Full(op.spec)), current' = current
      PROVE  current' # NoRev => current' \in Agreed'
  <2>1. epoch + 1 \in Epochs /\ epoch + 1 # current.epoch /\ Full(op.spec) \in Configs
    BY <1>5, FreshEpoch, ConfigFacts, Zenon
  <2>2. current # NoRev => current \in Agreed /\ current \in Filed /\ current.epoch \in Epochs
    BY <1>5, RevFacts, Zenon DEF RevisionInv, Agreed, Filed
  <2>3. current # NoRev => config'[current.epoch] = config[current.epoch]
    BY <1>1, <1>5, <2>1, <2>2, PrepareFailedEffect, Zenon
  <2> QED BY <1>5, <2>2, <2>3, StaysFiled, Zenon
<1> DEFINE s == Rev(epoch + 1, 1, op.spec)
<1>6. s.epoch = epoch + 1 /\ s.spec = op.spec
  BY Zenon DEF Rev
<1> HIDE DEF s
<1>7. CASE Launch
  <2>1. /\ pc = "launch" /\ op.spec \in Specs /\ NextEpoch /\ UNCHANGED <<current, proc>>
        /\ current = NoRev
    BY <1>1, <1>7, Zenon DEF Launch, PointInv, AtLaunch, Took, ctrlVars, inst
  <2>2. \/ pc' = "idle"
        \/ /\ config' = [config EXCEPT ![s.epoch] = Full(s.spec)]
           /\ op' = [op EXCEPT !.new = s, !.old = NoRev] /\ pc' = "startSpawn"
    BY <1>7, Zenon DEF Launch, Finish, Goto, s
  <2>3. CASE pc' = "idle"
    BY <1>2, <2>1, <2>3, Zenon
  <2>4. CASE /\ config' = [config EXCEPT ![s.epoch] = Full(s.spec)]
             /\ op' = [op EXCEPT !.new = s, !.old = NoRev] /\ pc' = "startSpawn"
    <3>1. op'.new = s
      BY <1>1, <2>4, Zenon DEF Ops
    <3>2. s \in Agreed'
      BY <1>4, <2>1, <2>4, Zenon DEF s
    <3> QED BY <1>3, <2>1, <2>4, <3>1, <3>2, Zenon
  <2> QED BY <2>2, <2>3, <2>4, Zenon
<1>8. CASE StartSpawn
  <2>1. /\ pc = "startSpawn" /\ current = NoRev /\ current' = current /\ op.new.epoch \in Epochs
        /\ op.new \in Filed
    BY <1>1, <1>8, RevFacts,
      Zenon DEF StartSpawn, PointInv, AtStartSpawn, Took, Dead, ctrlVars, RevisionInv, AgreedPCs, Agreed
  <2>2. \/ pc' = "idle"
        \/ SpawnInstance(op.new.epoch) /\ pc' = "startReady" /\ UNCHANGED <<op, config>>
    BY <1>8, Zenon DEF StartSpawn, Finish, Goto
  <2>3. CASE SpawnInstance(op.new.epoch) /\ pc' = "startReady" /\ UNCHANGED <<op, config>>
    <3>1. proc'[op.new.epoch] = config[op.new.epoch]
      BY <1>1, <2>1, <2>3, SpawnEffect, Zenon
    <3> QED BY <1>3, <2>1, <2>3, <3>1, StaysFiled, Zenon
  <2> QED BY <1>2, <2>1, <2>2, <2>3, Zenon
<1>9. CASE StartReady
  <2>1. /\ pc = "startReady" /\ current = NoRev /\ UNCHANGED <<current, config, proc, op>>
        /\ pc' \in {"startInstall", "startReject"}
    BY <1>1, <1>9, Zenon DEF StartReady, PointInv, AtStart, Took, Goto, ctrlVars, inst, disk
  <2>2. op'.new \in Agreed'
    BY <2>1, Zenon DEF RevisionInv, AgreedPCs, Agreed, Filed
  <2> QED BY <1>2, <1>3, <2>1, <2>2, Zenon
<1>10. CASE StartInstall
  <2>1. pc = "startInstall" /\ current' = op.new /\ UNCHANGED <<config, proc>> /\ pc' = "idle"
    BY <1>10, Zenon DEF StartInstall, InstallNew, Finish, inst, disk
  <2>2. op.new \in Agreed'
    BY <2>1, Zenon DEF RevisionInv, AgreedPCs, Agreed, Filed
  <2> QED BY <1>2, <2>1, <2>2, Zenon
<1>11. CASE HardPrepare
  <2>1. pc = "hardPrepare" /\ op.spec \in Specs /\ NextEpoch /\ UNCHANGED proc
    BY <1>1, <1>11, Zenon DEF HardPrepare, PointInv, AtPrepare
  <2>2. \/ PrepareFailed(s.epoch, Full(s.spec)) /\ pc' = "republish" /\ current' = current
        \/ /\ config' = [config EXCEPT ![s.epoch] = Full(s.spec)]
           /\ op' = [op EXCEPT !.new = s, !.old = current] /\ pc' = "hardStop"
           /\ current' = NoRev
    BY <1>11, Zenon DEF HardPrepare, ReadRetained, TakeCurrent, Goto, s
  <2>3. CASE PrepareFailed(s.epoch, Full(s.spec)) /\ pc' = "republish" /\ current' = current
    BY <1>2, <1>5, <1>6, <2>1, <2>3, Zenon
  <2>4. CASE /\ config' = [config EXCEPT ![s.epoch] = Full(s.spec)]
             /\ op' = [op EXCEPT !.new = s, !.old = current] /\ pc' = "hardStop"
             /\ current' = NoRev
    <3>1. op'.new = s
      BY <1>1, <2>4, Zenon DEF Ops
    <3>2. s \in Agreed'
      BY <1>4, <2>1, <2>4, Zenon DEF s
    <3> QED BY <1>3, <2>4, <3>1, <3>2, Zenon
  <2> QED BY <2>2, <2>3, <2>4, Zenon
<1>12. CASE SwitchPrepare
  <2>1. pc = "switchPrepare" /\ op.spec \in Specs /\ NextEpoch /\ UNCHANGED proc
        /\ current # NoRev
    BY <1>1, <1>12, RevFacts, Zenon DEF SwitchPrepare, PointInv, AtPrepare, Retains
  <2>2. \/ PrepareFailed(s.epoch, Full(s.spec)) /\ pc' = "idle" /\ current' = current
        \/ /\ config' = [config EXCEPT ![s.epoch] = Full(s.spec)]
           /\ op' = [op EXCEPT !.new = s, !.old = current] /\ pc' = "switchStop"
           /\ current' = NoRev
    BY <1>12, Zenon DEF SwitchPrepare, Finish, TakeCurrent, Goto, s
  <2>3. CASE PrepareFailed(s.epoch, Full(s.spec)) /\ pc' = "idle" /\ current' = current
    BY <1>2, <1>5, <1>6, <2>1, <2>3, Zenon
  <2>4. CASE /\ config' = [config EXCEPT ![s.epoch] = Full(s.spec)]
             /\ op' = [op EXCEPT !.new = s, !.old = current] /\ pc' = "switchStop"
             /\ current' = NoRev
    <3>1. op'.new = s /\ op'.old = current
      BY <1>1, <2>4, Zenon DEF Ops
    <3>2. s \in Agreed' /\ current \in Agreed'
      BY <1>4, <2>1, <2>4, Zenon DEF s
    <3> QED BY <2>4, <3>1, <3>2,
           Zenon DEF RevisionInv, Agreed, AgreedPCs, FiledPCs, ReplacingPCs, ReplacePCs
  <2> QED BY <2>2, <2>3, <2>4, Zenon
<1>13. CASE HardStopped
  <2>1. /\ pc = "hardStop" /\ current = NoRev /\ current' = current
        /\ op.new.epoch \in Epochs /\ op.old.epoch \in Epochs /\ op.new.epoch # op.old.epoch
        /\ op.new \in Agreed /\ op.new \in Filed
    BY <1>1, <1>13, RevFacts,
      Zenon DEF HardStopped, PointInv, AtStopFirst, AnotherEpoch, Took, RevisionInv, AgreedPCs, Agreed
  <2>2. \/ pc' = "idle"
        \/ /\ ConfirmedDead(op.old.epoch) /\ CleanupOk(op.old.epoch)
           /\ op' = op /\ pc' = "startSpawn"
    BY <1>13, Zenon DEF HardStopped, LatchQuarantine, Finish, Goto
  <2>3. CASE /\ ConfirmedDead(op.old.epoch) /\ CleanupOk(op.old.epoch)
             /\ op' = op /\ pc' = "startSpawn"
    <3>1. /\ config'[op.new.epoch] = config[op.new.epoch]
          /\ proc'[op.new.epoch] = proc[op.new.epoch]
      BY <1>1, <2>1, <2>3, CleanupOkEffect, DeadEffect
    <3> QED BY <1>3, <2>1, <2>3, <3>1, StaysFiled, Zenon
  <2> QED BY <1>2, <2>1, <2>2, <2>3, Zenon
<1> QED BY <1>7, <1>8, <1>9, <1>10, <1>11, <1>12, <1>13, Zenon

(* The commit of a graceful switch and what follows it.                    *)
LEMMA GracefulRevision ==
    ASSUME ControlInv, RevisionInv,
           GracefulCommit \/ GracefulReconcile \/ GracefulInstall \/ GracefulReplaceStopped
    PROVE  RevisionInv'
<1> DEFINE n == op.new.epoch
<1>1. DiskTypeOK /\ InstTypeOK /\ op \in Ops
  BY Zenon DEF ControlInv, TypeOK, OpTypeOK
<1>2. pc \in {"gCommit", "gReconcile", "gInstall", "gReplaceStop"}
  BY Zenon DEF GracefulCommit, GracefulReconcile, GracefulInstall, GracefulReplaceStopped
<1>3. /\ current = NoRev /\ op.new \in Revs /\ n \in Epochs
      /\ op.old.epoch \in Epochs /\ n # op.old.epoch
  BY <1>2, RevFacts, Zenon DEF ControlInv, PointInv, AtCommit, AtReconcile, AnotherEpoch, Took
<1>4. pc # "gCommit" => op.new \in Filed
  BY <1>2, Zenon DEF RevisionInv, AgreedPCs, FiledPCs, Agreed
<1> HIDE DEF n
<1>5. CASE GracefulCommit
  <2>1. /\ UNCHANGED <<current, op>>
        /\ \/ pc' = "gCommitFail"
           \/ pc' = "gReconcile" /\ config' = [config EXCEPT ![n] = Full(op.new.spec)]
    BY <1>5, Zenon DEF GracefulCommit, Goto, ctrlVars, n
  <2>2. CASE pc' = "gReconcile" /\ config' = [config EXCEPT ![n] = Full(op.new.spec)]
    <3>1. op.new \in Filed'
      BY <1>1, <1>3, <2>2, Zenon DEF DiskTypeOK, Filed, n
    <3> QED BY <1>3, <2>1, <2>2, <3>1, Zenon DEF RevisionInv, AgreedPCs, FiledPCs, ReplacingPCs, ReplacePCs
  <2> QED BY <1>3, <2>1, <2>2, Settles, Zenon DEF AgreedPCs, FiledPCs, ReplacingPCs, ReplacePCs
<1>6. CASE GracefulReconcile
  <2>1. UNCHANGED <<current, op, config>> /\ pc = "gReconcile"
    BY <1>6, Zenon DEF GracefulReconcile, ctrlVars, disk
  <2>2. \/ pc' = "gReplaceStop"
        \/ pc' = "gInstall" /\ proc' = [proc EXCEPT ![n] = Full(op.new.spec)]
    BY <1>6, Zenon DEF GracefulReconcile, Goto, n
  <2>3. op.new \in Filed'
    BY <1>4, <2>1, StaysFiled, Zenon
  <2>4. pc' = "gInstall" => op.new \in Agreed'
    BY <1>1, <1>3, <2>2, <2>3, Zenon DEF InstTypeOK, Agreed, n
  <2> QED BY <1>3, <2>1, <2>2, <2>3, <2>4,
         Zenon DEF RevisionInv, AgreedPCs, FiledPCs, ReplacingPCs, ReplacePCs
<1>7. CASE GracefulInstall
  <2>1. /\ pc = "gInstall" /\ current' = op.new /\ proc' = proc /\ Cleanup(op.old.epoch)
        /\ pc' = "idle"
    BY <1>7, Zenon DEF GracefulInstall, InstallNew, Finish, inst
  <2>2. config'[n] = config[n]
    BY <1>1, <1>3, <2>1, CleanupEffect, Zenon
  <2>3. op.new \in Agreed
    BY <2>1, Zenon DEF RevisionInv, AgreedPCs
  <2>4. op.new \in Agreed'
    BY <1>4, <2>1, <2>2, <2>3, StaysFiled, Zenon DEF n
  <2> QED BY <2>1, <2>4, Settles, Zenon DEF AgreedPCs, FiledPCs, ReplacingPCs, ReplacePCs
<1>8. CASE GracefulReplaceStopped
  <2>1. /\ UNCHANGED <<current, config>> /\ pc = "gReplaceStop"
        /\ \/ pc' = "idle"
           \/ /\ ConfirmedDead(n) /\ op' = [op EXCEPT !.mode = "graceful"]
              /\ pc' = "replaceSpawn"
    BY <1>8, Zenon DEF GracefulReplaceStopped, LatchQuarantine, Finish, Goto, n
  <2>2. CASE /\ ConfirmedDead(n) /\ op' = [op EXCEPT !.mode = "graceful"]
             /\ pc' = "replaceSpawn"
    <3>1. op'.mode = "graceful" /\ op'.new = op.new
      BY <1>1, <2>2, Zenon DEF Ops
    <3>2. ReplaceRev' = op.new
      BY <3>1, Zenon DEF ReplaceRev
    <3>3. proc'[n] = NoConfig
      BY <1>1, <1>3, <2>2, DeadEffect, Zenon
    <3>4. op.new \in Agreed'
      BY <1>4, <2>1, <3>3, StaysFiled, Zenon DEF n
    <3> QED BY <1>3, <2>1, <2>2, <3>1, <3>2, <3>4,
           Zenon DEF RevisionInv, AgreedPCs, FiledPCs
  <2> QED BY <1>3, <2>1, <2>2, Settles, Zenon DEF AgreedPCs, FiledPCs, ReplacingPCs, ReplacePCs
<1> QED BY <1>5, <1>6, <1>7, <1>8, Zenon

(* A failed replacement ends the operation, or falls back to a revision    *)
(* whose file is there again.                                              *)
LEMMA FallbackRevision ==
    ASSUME ControlInv, RevisionInv, pc \in ReplacingPCs, ReplaceFailed, Replaces,
           current' = NoRev,
           \A f \in Epochs : f # ReplaceRev.epoch => proc'[f] = proc[f],
           proc'[ReplaceRev.epoch] = NoConfig,
           op.mode = "switch" => ~Live(op.old.epoch)
    PROVE  RevisionInv'
<1>1. DiskTypeOK /\ op \in Ops
  BY Zenon DEF ControlInv, TypeOK, OpTypeOK
<1>2. op.old \in Revs /\ op.old.epoch \in Epochs /\ op.new.epoch \in Epochs
  BY RevFacts, Zenon DEF Replaces, SameEpoch, AnotherEpoch
<1>3. ASSUME pc' = "replaceSpawn", op'.mode \in {"applyRollback", "switchRollback"},
             op'.old \in Agreed'
      PROVE  RevisionInv'
  <2>1. ReplaceRev' = op'.old
    BY <1>3, Zenon DEF ReplaceRev
  <2> QED BY <1>3, <2>1, Zenon DEF RevisionInv, AgreedPCs, FiledPCs
<1>4. CASE Finish
  BY <1>4, Settles, Zenon DEF Finish, AgreedPCs, FiledPCs, ReplacingPCs, ReplacePCs
<1>5. CASE op.mode = "apply" /\ ~Finish
  <2>1. /\ RestoreBackup(op.old.epoch, op.new.gen) /\ pc' = "replaceSpawn"
        /\ op' = [op EXCEPT !.mode = "applyRollback"]
    BY <1>5, Zenon DEF ReplaceFailed, Goto
  <2>2. op'.mode = "applyRollback" /\ op'.old = op.old
    BY <1>1, <2>1, Zenon DEF Ops
  <2>3. ReplaceRev.epoch = op.old.epoch
    BY <1>5, Zenon DEF Replaces, SameEpoch, ReplaceRev
  <2>4. config'[op.old.epoch] = Full(op.old.spec)
    BY <1>1, <1>2, <1>5, <2>1, Zenon DEF DiskTypeOK, RestoreBackup, RevisionInv, Saved
  <2>5. op.old \in Agreed'
    BY <1>2, <2>3, <2>4, Zenon DEF Agreed, Filed
  <2> QED BY <1>3, <2>1, <2>2, <2>5, Zenon
<1>6. CASE op.mode = "switch" /\ ~Finish
  <2>1. /\ Cleanup(op.new.epoch) /\ pc' = "replaceSpawn"
        /\ op' = [op EXCEPT !.mode = "switchRollback"]
    BY <1>6, Zenon DEF ReplaceFailed, Goto
  <2>2. op'.mode = "switchRollback" /\ op'.old = op.old
    BY <1>1, <2>1, Zenon DEF Ops
  <2>3. ReplaceRev.epoch # op.old.epoch /\ op.new.epoch # op.old.epoch
    BY <1>6, Zenon DEF Replaces, AnotherEpoch, ReplaceRev
  <2>4. config'[op.old.epoch] = config[op.old.epoch] /\ proc'[op.old.epoch] = NoConfig
    BY <1>1, <1>2, <1>6, <2>1, <2>3, CleanupEffect, Zenon DEF Live
  <2>5. op.old \in Filed
    BY <1>6, Zenon DEF RevisionInv
  <2>6. op.old \in Agreed'
    BY <2>4, <2>5, StaysFiled, Zenon
  <2> QED BY <1>3, <2>1, <2>2, <2>6, Zenon
<1> QED BY <1>4, <1>5, <1>6, Zenon DEF ReplaceFailed

(* spawn_replacement and its callers' ends.                                *)
LEMMA ReplaceRevision ==
    ASSUME ControlInv, RevisionInv,
           ReplaceSpawn \/ ReplaceReady \/ ReplaceReject \/ ReplaceInstall \/ ReplacePublish
    PROVE  RevisionInv'
<1> DEFINE e == ReplaceRev.epoch
<1>1. DiskTypeOK /\ InstTypeOK /\ op \in Ops /\ PointInv
  BY Zenon DEF ControlInv, TypeOK, OpTypeOK
<1>2. pc \in ReplacingPCs \cup {"replacePublish"}
  BY Zenon DEF ReplaceSpawn, ReplaceReady, ReplaceReject, ReplaceInstall, ReplacePublish,
         ReplacingPCs, ReplacePCs
<1>3. Replaces
  BY <1>1, <1>2, Zenon DEF PointInv, AtReplaceSpawn, AtReplace, AtReplacePublish, ReplacingPCs, ReplacePCs
<1>4. /\ op.old \in Revs /\ op.new \in Revs /\ op.old.epoch \in Epochs /\ op.new.epoch \in Epochs
      /\ e \in Epochs
  BY <1>3, RevFacts, Zenon DEF Replaces, SameEpoch, AnotherEpoch, ReplaceRev
<1>5. /\ pc \in ReplacingPCs => current = NoRev /\ ReplaceRev \in Agreed /\ ReplaceRev \in Filed
      /\ pc \in ReplacingPCs /\ op.mode = "switch" => ~Live(op.old.epoch)
  BY <1>1, <1>2,
    Zenon DEF PointInv, AtReplaceSpawn, AtReplace, Took, Dead, ReplacingPCs, ReplacePCs, RevisionInv,
         Agreed
<1> HIDE DEF e
<1>6. ASSUME pc \in ReplacingPCs, pc' \in ReplacingPCs, UNCHANGED <<current, op, config, backup>>,
             ReplaceRev \in Agreed'
      PROVE  RevisionInv'
  <2>1. ReplaceRev' = ReplaceRev /\ (Saved <=> Saved') /\ Filed' = Filed
    BY <1>6, Zenon DEF ReplaceRev, Saved, Filed
  <2> QED BY <1>5, <1>6, <2>1, Zenon DEF RevisionInv, AgreedPCs, FiledPCs, ReplacingPCs, ReplacePCs
<1>7. CASE ReplaceSpawn
  <2>1. pc = "replaceSpawn" /\ current' = current
    BY <1>7, Zenon DEF ReplaceSpawn, ctrlVars
  <2>2. CASE SpawnInstance(e) /\ pc' = "replaceReady" /\ UNCHANGED <<op, config, backup>>
    <3>1. proc'[e] = config[e]
      BY <1>1, <1>4, <2>2, SpawnEffect, Zenon
    <3>2. ReplaceRev \in Agreed'
      BY <1>5, <2>1, <2>2, <3>1, StaysFiled, Zenon DEF ReplacingPCs, e
    <3> QED BY <1>6, <2>1, <2>2, <3>2, Zenon DEF ReplacingPCs, ReplacePCs
  <2>3. CASE ReplaceFailed /\ UNCHANGED inst
    <3>1. proc' = proc /\ proc[e] = NoConfig
      BY <1>1, <2>1, <2>3, Zenon DEF PointInv, AtReplaceSpawn, Dead, Live, ReplaceRev, inst, e
    <3> QED BY <1>3, <1>5, <2>1, <2>3, <3>1, FallbackRevision, Zenon DEF ReplacingPCs, e
  <2> QED BY <1>7, <2>2, <2>3, Zenon DEF ReplaceSpawn, Goto, e
<1>8. CASE ReplaceReady
  <2>1. /\ pc = "replaceReady" /\ UNCHANGED <<current, op, config, backup, proc>>
        /\ pc' \in {"replaceInstall", "replaceReject"}
    BY <1>8, Zenon DEF ReplaceReady, Goto, ctrlVars, inst, disk
  <2>2. ReplaceRev \in Agreed'
    BY <1>5, <2>1, StaysFiled, Zenon DEF ReplacingPCs, ReplacePCs
  <2> QED BY <1>6, <2>1, <2>2, Zenon DEF ReplacingPCs, ReplacePCs
<1>9. CASE ReplaceReject
  <2>1. pc = "replaceReject" /\ current' = current
    BY <1>9, Zenon DEF ReplaceReject
  <2>2. CASE ConfirmedDead(e) /\ ReplaceFailed
    <3>1. proc'[e] = NoConfig /\ \A f \in Epochs : f # e => proc'[f] = proc[f]
      BY <1>1, <1>4, <2>2, DeadEffect, Zenon
    <3> QED BY <1>3, <1>5, <2>1, <2>2, <3>1, FallbackRevision, Zenon DEF ReplacingPCs, ReplacePCs, e
  <2>3. CASE LatchQuarantine({e})
    BY <1>5, <2>1, <2>3, Settles,
      Zenon DEF LatchQuarantine, Finish, AgreedPCs, FiledPCs, ReplacingPCs, ReplacePCs
  <2> QED BY <1>9, <2>2, <2>3, Zenon DEF ReplaceReject, e
<1>10. CASE ReplaceInstall
  <2>1. pc = "replaceInstall" /\ proc' = proc
    BY <1>10, Zenon DEF ReplaceInstall, inst
  <2>2. \/ /\ op.mode = "graceful" /\ Cleanup(op.old.epoch) /\ current' = ReplaceRev
           /\ pc' = "idle"
        \/ config' = config /\ current' = ReplaceRev /\ pc' = "replacePublish"
    BY <1>10, Zenon DEF ReplaceInstall, InstallNew, Finish, Goto, ReplaceRev, disk
  <2>3. op.mode = "graceful" => e # op.old.epoch
    BY <1>3, Zenon DEF Replaces, AnotherEpoch, ReplaceRev, e
  <2>4. config'[e] = config[e]
    BY <1>1, <1>4, <2>2, <2>3, CleanupEffect, Zenon
  <2>5. ReplaceRev \in Agreed'
    BY <1>5, <2>1, <2>4, StaysFiled, Zenon DEF ReplacingPCs, ReplacePCs, e
  <2> QED BY <2>2, <2>5, Settles, Zenon DEF AgreedPCs, FiledPCs, ReplacingPCs, ReplacePCs
<1>11. CASE ReplacePublish
  <2>1. /\ pc = "replacePublish" /\ UNCHANGED <<current, proc>> /\ pc' = "idle"
        /\ config' = config \/ (op.mode = "switch" /\ Cleanup(op.old.epoch))
    BY <1>11, Zenon DEF ReplacePublish, Finish, ctrlVars, inst, disk
  <2>2. current = ReplaceRev /\ (op.mode = "switch" => e # op.old.epoch)
    BY <1>1, <1>3, <2>1,
      Zenon DEF PointInv, AtReplacePublish, Replaces, SameEpoch, AnotherEpoch, ReplaceRev, e
  <2>3. config'[e] = config[e]
    BY <1>1, <1>4, <2>1, <2>2, CleanupEffect, Zenon
  <2>4. current # NoRev => current \in Agreed /\ current \in Filed
    BY <2>1, Zenon DEF RevisionInv, Agreed
  <2>5. current' # NoRev => current' \in Agreed'
    BY <2>1, <2>2, <2>3, <2>4, StaysFiled, Zenon DEF e
  <2> QED BY <2>1, <2>5, Settles, Zenon DEF AgreedPCs, FiledPCs, ReplacingPCs, ReplacePCs
<1> QED BY <1>7, <1>8, <1>9, <1>10, <1>11, Zenon

(* apply_config: the backup is taken from the filed revision, and a core   *)
(* that is published has taken the new one.                                *)
LEMMA ApplyRevision ==
    ASSUME ControlInv, RevisionInv,
           ApplyCommit \/ ApplyReconcile \/ ApplyPublish \/ ApplyStopped \/ SwitchStopped
    PROVE  RevisionInv'
<1>1. DiskTypeOK /\ InstTypeOK /\ op \in Ops /\ PointInv
  BY Zenon DEF ControlInv, TypeOK, OpTypeOK
<1>2. CASE ApplyCommit
  <2> DEFINE e == current.epoch
             g == current.gen + 1
             r == Rev(e, g, op.spec)
  <2>1. /\ pc = "applyCommit" /\ UNCHANGED <<current, proc>>
        /\ current \in Revs /\ op.spec \in Specs /\ current.gen < MaxGen
    BY <1>1, <1>2, Zenon DEF ApplyCommit, PointInv, AtApplyCommit, AtPrepare, Retains, ctrlVars, inst
  <2>2. e \in Epochs /\ g \in Gens /\ r \in Revs /\ r.epoch = e /\ r.gen = g /\ r.spec = op.spec
    <3>1. e \in Epochs /\ g \in Gens
      BY <2>1, RevFacts, EpochFacts, Zenon
    <3> HIDE DEF e, g
    <3> QED BY <2>1, <3>1, RevFacts
  <2>3. current \in Agreed /\ current \in Filed
    BY <2>1, RevFacts, Zenon DEF RevisionInv, Agreed
  <2> HIDE DEF r, g
  <2>4. \/ pc' = "idle" /\ config' = config
        \/ /\ backup' = [backup EXCEPT ![e][g] = config[e]]
           /\ config' = [config EXCEPT ![e] = Full(op.spec)]
           /\ op' = [op EXCEPT !.new = r, !.old = current]
           /\ pc' = "applyReconcile"
    BY <1>2, Zenon DEF ApplyCommit, Finish, Goto, r, g
  <2>5. CASE pc' = "idle" /\ config' = config
    BY <2>1, <2>3, <2>5, Settles, StaysFiled, Zenon DEF AgreedPCs, FiledPCs, ReplacingPCs, ReplacePCs
  <2>6. CASE /\ backup' = [backup EXCEPT ![e][g] = config[e]]
             /\ config' = [config EXCEPT ![e] = Full(op.spec)]
             /\ op' = [op EXCEPT !.new = r, !.old = current]
             /\ pc' = "applyReconcile"
    <3>1. op'.new = r /\ op'.old = current
      BY <1>1, <2>6, Zenon DEF Ops
    <3>2. r \in Filed'
      BY <1>1, <2>2, <2>6, Zenon DEF DiskTypeOK, Filed
    <3>3. backup'[e][g] = Full(current.spec)
      BY <1>1, <2>2, <2>3, <2>6, Zenon DEF DiskTypeOK, Filed
    <3>4. Saved'
      BY <2>2, <3>1, <3>3, Zenon DEF Saved
    <3> QED BY <2>1, <2>6, <3>1, <3>2, <3>4,
           Zenon DEF RevisionInv, AgreedPCs, FiledPCs, ReplacingPCs, ReplacePCs
  <2> QED BY <2>4, <2>5, <2>6, Zenon
<1>3. CASE ApplyReconcile
  <2>1. /\ pc = "applyReconcile" /\ UNCHANGED <<op, config, backup>>
        /\ op.new \in Revs /\ op.new.epoch = op.old.epoch /\ op.old.epoch \in Epochs
    BY <1>1, <1>3, RevFacts, Zenon DEF ApplyReconcile, PointInv, AtApply, SameEpoch, disk
  <2>2. \/ pc' = "applyPublish" /\ proc' = [proc EXCEPT ![op.old.epoch] = Full(op.new.spec)]
        \/ pc' = "applyStop" /\ current' = NoRev
    BY <1>3, Zenon DEF ApplyReconcile, TakeCurrent, Goto
  <2>3. op.new \in Filed' /\ Saved'
    BY <2>1, Zenon DEF RevisionInv, FiledPCs, Filed, Saved
  <2>4. pc' = "applyPublish" => op.new \in Agreed'
    BY <1>1, <2>1, <2>2, <2>3, Zenon DEF InstTypeOK, Agreed
  <2> QED BY <2>1, <2>2, <2>3, <2>4,
         Zenon DEF RevisionInv, AgreedPCs, FiledPCs, ReplacingPCs, ReplacePCs
<1>4. CASE ApplyPublish
  <2>1. pc = "applyPublish" /\ current' = op.new /\ UNCHANGED <<config, proc>> /\ pc' = "idle"
    BY <1>4, Zenon DEF ApplyPublish, Finish, inst
  <2>2. op.new \in Agreed'
    BY <2>1, Zenon DEF RevisionInv, AgreedPCs, Agreed, Filed
  <2> QED BY <2>1, <2>2, Settles, Zenon DEF AgreedPCs, FiledPCs, ReplacingPCs, ReplacePCs
<1>5. CASE ApplyStopped
  <2>1. /\ pc = "applyStop" /\ UNCHANGED <<current, config, backup>> /\ current = NoRev
        /\ op.new.epoch = op.old.epoch /\ op.old.epoch \in Epochs
    BY <1>1, <1>5, RevFacts, Zenon DEF ApplyStopped, PointInv, AtApplyStop, SameEpoch, Took
  <2>2. \/ pc' = "idle"
        \/ /\ ConfirmedDead(op.old.epoch) /\ op' = [op EXCEPT !.mode = "apply"]
           /\ pc' = "replaceSpawn"
    BY <1>5, Zenon DEF ApplyStopped, LatchQuarantine, Finish, Goto
  <2>3. CASE /\ ConfirmedDead(op.old.epoch) /\ op' = [op EXCEPT !.mode = "apply"]
             /\ pc' = "replaceSpawn"
    <3>1. op'.mode = "apply" /\ op'.new = op.new /\ op'.old = op.old
      BY <1>1, <2>3, Zenon DEF Ops
    <3>2. ReplaceRev' = op.new /\ Saved'
      BY <2>1, <3>1, Zenon DEF ReplaceRev, RevisionInv, Saved
    <3>3. op.new \in Filed /\ proc'[op.new.epoch] = NoConfig
      BY <1>1, <2>1, <2>3, DeadEffect, Zenon DEF RevisionInv, FiledPCs
    <3>4. op.new \in Agreed'
      BY <2>1, <3>3, StaysFiled, Zenon
    <3> QED BY <2>1, <2>3, <3>1, <3>2, <3>4, Zenon DEF RevisionInv, AgreedPCs, FiledPCs
  <2> QED BY <2>1, <2>2, <2>3, Settles, Zenon DEF AgreedPCs, FiledPCs, ReplacingPCs, ReplacePCs
<1>6. CASE SwitchStopped
  <2>1. /\ pc = "switchStop" /\ UNCHANGED <<current, backup>> /\ current = NoRev
        /\ op.new.epoch # op.old.epoch /\ op.old.epoch \in Epochs /\ op.new.epoch \in Epochs
    BY <1>1, <1>6, RevFacts, Zenon DEF SwitchStopped, PointInv, AtStopFirst, AnotherEpoch, Took
  <2>2. \/ pc' = "idle"
        \/ /\ ConfirmedDead(op.old.epoch) /\ op' = [op EXCEPT !.mode = "switch"]
           /\ pc' = "replaceSpawn" /\ config' = config
    BY <1>6, Zenon DEF SwitchStopped, LatchQuarantine, Finish, Goto
  <2>3. CASE /\ ConfirmedDead(op.old.epoch) /\ op' = [op EXCEPT !.mode = "switch"]
             /\ pc' = "replaceSpawn" /\ config' = config
    <3>1. op'.mode = "switch" /\ op'.new = op.new /\ op'.old = op.old
      BY <1>1, <2>3, Zenon DEF Ops
    <3>2. ReplaceRev' = op.new
      BY <3>1, Zenon DEF ReplaceRev
    <3>3. /\ op.new \in Agreed /\ op.new \in Filed /\ op.old \in Filed
          /\ proc'[op.new.epoch] = proc[op.new.epoch]
      BY <1>1, <2>1, <2>3, DeadEffect, Zenon DEF RevisionInv, AgreedPCs, Agreed
    <3>4. op.new \in Agreed' /\ op.old \in Filed'
      BY <2>3, <3>3, StaysFiled, Zenon
    <3> QED BY <2>1, <2>3, <3>1, <3>2, <3>4, Zenon DEF RevisionInv, AgreedPCs, FiledPCs
  <2> QED BY <2>1, <2>2, <2>3, Settles, Zenon DEF AgreedPCs, FiledPCs, ReplacingPCs, ReplacePCs
<1> QED BY <1>2, <1>3, <1>4, <1>5, <1>6, Zenon

(* The service and the processes on their own.                             *)
LEMMA EnvironmentRevision ==
    ASSUME ~CallerDrops, ControlInv, RevisionInv, Environment
    PROVE  RevisionInv'
<1>1. InstTypeOK
  BY Zenon DEF ControlInv, TypeOK
<1>2. CASE Kill \/ Construct \/ \E k \in Epochs : ConstructFails(k)
  <2>1. pc' = "idle" /\ current' = NoRev
    BY <1>2, Zenon DEF Kill, Construct, ConstructFails, Finish, ctrlVars, opVars, ControlInv, Control,
                DownIsEmpty
  <2> QED BY <2>1, Settles, Zenon DEF AgreedPCs, FiledPCs, ReplacingPCs, ReplacePCs
<1>3. CASE DropOperation
  BY <1>3, Zenon DEF DropOperation
<1>4. CASE Forward
  BY <1>4, Undisturbed, Zenon DEF Forward, ctrlVars, inst, disk, opVars
<1>5. ASSUME NEW k \in Epochs, InstanceReady(k) \/ InstanceRestarting(k) \/ InstanceStopped(k)
      PROVE  RevisionInv'
  BY <1>5, Undisturbed,
    Zenon DEF InstanceReady, InstanceRestarting, InstanceStopped, ctrlVars, disk, opVars
<1>6. ASSUME NEW k \in Epochs, Respawn(k) \/ ProcessExit(k)
      PROVE  RevisionInv'
  <2>1. UNCHANGED <<pc, op, current, config, backup>>
    BY <1>6, Zenon DEF Respawn, ProcessExit, ctrlVars, opVars
  <2>2. \A e \in Epochs : proc'[e] \in {proc[e], NoConfig, config[e]}
    BY <1>1, <1>6, Zenon DEF Respawn, ProcessExit, InstTypeOK
  <2> QED BY <2>1, <2>2, Undisturbed, Zenon
<1> QED BY <1>2, <1>3, <1>4, <1>5, <1>6, Zenon DEF Environment

(* RevisionInv is inductive.                                               *)
LEMMA NextRevision ==
    ASSUME ~CallerDrops, ControlInv, ControlInv', RevisionInv, [Next]_vars
    PROVE  RevisionInv'
<1>1. CASE Next
  BY <1>1, RequestRevision, StopRevision, RetainedRevision, LaunchRevision, GracefulRevision,
     ReplaceRevision, ApplyRevision, EnvironmentRevision,
    Zenon DEF Next, OperationStep
<1>2. CASE UNCHANGED vars
  BY <1>2, Undisturbed, Zenon DEF vars, ctrlVars, inst, disk, opVars
<1> QED BY <1>1, <1>2, Zenon

-----------------------------------------------------------------------------
(* What is published, as long as no fault has occurred.                    *)

(* Points at which an operation has published nothing yet.                 *)
SettledPCs == {"idle", "hardPrepare", "gPrepare", "applyCommit", "switchPrepare"}

(* The revision of a retained core is published, its absence as Stopped,   *)
(* also while a stop removes what a terminal instance left behind.         *)
Published ==
    /\ pc = "idle" /\ current = NoRev => status.state = "Stopped"
    /\ pc = "stopStale" => status.state = "Stopped"
    /\ pc \in SettledPCs /\ current # NoRev => status.rev = current

(* Without a fault no epoch is quarantined, so that nothing is recovered.  *)
StatusNow == quarantine = {} /\ pc \notin {"recover", "gAbort"} /\ Published
StatusInv == faults = 0 => StatusNow

(* A step that leaves the count at zero has met no fault.                  *)
LEMMA FaultFree ==
    ASSUME ControlInv, faults' = 0
    PROVE  /\ ~Fault /\ \A e : ~Unconfirmed(e) /\ ~CleanupErr(e)
           /\ NoFault => faults = 0
<1>1. ~Fault
  BY DEF Fault, ControlInv, TypeOK, CountersOK
<1> QED BY <1>1, Zenon DEF Unconfirmed, CleanupErr, NoFault

(* What is published is what the status shows.                             *)
LEMMA PublishEffect ==
    /\ \A s, r : Publish(s, r) => status'.state = s /\ status'.rev = r
    /\ PublishTerminalError => status'.state = "Stopped"
<1>1. ASSUME NEW s, NEW r, Publish(s, r)
      PROVE  status'.state = s /\ status'.rev = r
  BY <1>1, Zenon DEF Publish
<1> QED BY <1>1, Zenon DEF PublishTerminalError
=============================================================================
