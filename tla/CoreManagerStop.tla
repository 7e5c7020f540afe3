-------------------------- MODULE CoreManagerStop ---------------------------
(***************************************************************************)
(* ControlInv is preserved by the requests, by the steps of start, stop and *)
(* recover_quarantine, and by the environment.                             *)
(***************************************************************************)
EXTENDS CoreManagerInv

USE Z3T(60), SMTT(60), ZenonT(20)

-----------------------------------------------------------------------------
(* Requests.                                                               *)

(* A request that only enters an operation.                                *)
LEMMA Enters ==
    ASSUME ControlInv, up, pc = "idle", pc' \in PCs, op' \in Ops, PointInv',
           op'.new = NoRev, op'.old \in {current, NoRev}, QuarantineWindow',
           UNCHANGED <<up, epoch, ctrlVars, inst, disk, fwd, status, held,
                       crashes, faults, kills>>
    PROVE  ControlInv'
<1>1. UNCHANGED <<up, epoch, current, lastSpec, quarantine, proven, life, supervised, proc>>
      /\ UNCHANGED <<config, record, backup, fwd, status, held, crashes, faults, kills>>
  BY Zenon DEF ctrlVars, inst, disk
<1>2. TypeOK'
  <2>1. CtrlTypeOK' /\ InstTypeOK'
    BY <1>1, Zenon DEF ControlInv, TypeOK, CtrlTypeOK, InstTypeOK
  <2>2. DiskTypeOK' /\ OpTypeOK' /\ CountersOK'
    BY <1>1, Zenon DEF ControlInv, TypeOK, DiskTypeOK, OpTypeOK, CountersOK
  <2> QED BY <2>1, <2>2, Zenon DEF TypeOK
<1>3. Control' /\ epoch <= epoch'
  BY <1>1, RevFacts
     DEF ControlInv, Control, DownIsEmpty, EpochsAllocated, TypeOK, CtrlTypeOK
<1> QED BY <1>1, <1>2, <1>3, Steady, Zenon

(* start, or a switch that finds nothing running: a stale instance passes  *)
(* from ctrl.current to the operation.                                     *)
LEMMA LaunchFreshStep ==
    ASSUME ControlInv, Admitted, NEW d \in Specs, LaunchFresh(d)
    PROVE  ControlInv'
<1>1. up /\ pc = "idle" /\ quarantine = {} /\ held = {}
  BY IdlePoint, Zenon DEF Admitted
<1>2. current \in Revs \cup {NoRev} /\ epoch \in Nat
  BY BoundsAssumption DEF ControlInv, TypeOK, CtrlTypeOK
<1>3. op' \in Ops /\ op'.spec = d /\ op'.old = current /\ op'.new = NoRev
  <2>1. op' = [NoOp EXCEPT !.spec = d, !.old = current]
    BY Zenon DEF LaunchFresh
  <2> QED BY <1>2, <2>1, OpFacts, Zenon DEF Ops
<1>4. CASE current = NoRev
  <2>1. /\ pc' = "launch"
        /\ UNCHANGED <<up, epoch, ctrlVars, inst, disk, fwd, status, held,
                       crashes, faults, kills>>
    BY <1>4, Zenon DEF LaunchFresh, Goto, ctrlVars
  <2>2. PointInv'
    BY <1>1, <1>3, <1>4, <2>1, Zenon DEF PointInv, AtLaunch, Took, ctrlVars
  <2> QED BY <1>1, <1>3, <2>1, <2>2, Enters, Zenon DEF PCs, QuarantineWindow, ctrlVars
<1>5. CASE current # NoRev
  <2>1. /\ pc' = "staleStop" /\ held' = {current.epoch} /\ current' = NoRev /\ fwd' = "none"
        /\ UNCHANGED <<up, epoch, lastSpec, quarantine, proven, life, supervised, proc>>
        /\ UNCHANGED <<config, record, backup, status, crashes, faults, kills>>
    BY <1>5, Zenon DEF LaunchFresh, Goto, TakeCurrent, inst, disk
  <2>2. current.epoch \in Epochs /\ current.epoch <= epoch
    BY <1>2, <1>5, RevFacts, Zenon DEF ControlInv, Control, EpochsAllocated
  <2>3. TypeOK'
    <3>1. CtrlTypeOK' /\ InstTypeOK'
      BY <2>1, Zenon DEF ControlInv, TypeOK, CtrlTypeOK, InstTypeOK
    <3>2. DiskTypeOK' /\ OpTypeOK' /\ CountersOK'
      BY <1>3, <2>1, <2>2, Zenon DEF ControlInv, TypeOK, DiskTypeOK, OpTypeOK, PCs, CountersOK
    <3> QED BY <3>1, <3>2, Zenon DEF TypeOK
  <2>4. PointInv'
    BY <1>2, <1>3, <1>5, <2>1, Zenon DEF PointInv, AtStaleStop, Took, Holds
  <2>5. Control'
    BY <1>1, <1>2, <1>3, <2>1, <2>2, RevFacts
       DEF Control, QuarantineWindow, DownIsEmpty, EpochsAllocated
  <2>6. \A e \in Epochs : e = current'.epoch \/ e \in held'
                             <=> e = current.epoch \/ e \in held
    BY <1>1, <2>1, RevFacts, EpochFacts
  <2>7. LiveHasRecord' /\ \A e \in Epochs : Live(e)' => Live(e)
    BY <2>1, Zenon DEF ControlInv, Processes, LiveHasRecord, Live
  <2> QED BY <1>2, <2>1, <2>3, <2>4, <2>5, <2>6, <2>7, Passed
<1> QED BY <1>4, <1>5, Zenon

(* start() goes on to a stale core or to a launch.                         *)
LEMMA StartStep ==
    ASSUME ControlInv, NEW d \in Specs, Start(d)
    PROVE  ControlInv'
BY LaunchFreshStep, Zenon DEF Start

(* switch() goes on to a launch, a graceful or a hard switch.              *)
LEMMA SwitchStep ==
    ASSUME ControlInv, NEW d \in Specs, Switch(d)
    PROVE  ControlInv'
<1>1. CASE LaunchFresh(d)
  BY <1>1, LaunchFreshStep, Zenon DEF Switch
<1>2. CASE Running /\ ~LaunchFresh(d)
  <2>1. /\ up /\ pc = "idle" /\ quarantine = {} /\ held = {}
        /\ current \in Revs
    BY <1>2, IdlePoint, Zenon DEF Switch, Admitted, Running, ControlInv, TypeOK, CtrlTypeOK
  <2>2. op' = [NoOp EXCEPT !.spec = d]
    BY <1>2, Zenon DEF Switch
  <2>3. op' \in Ops /\ op'.spec = d /\ op'.new = NoRev /\ op'.old = NoRev
    BY <2>2, OpFacts, Zenon DEF Ops
  <2>4. /\ pc' \in {"gPrepare", "hardPrepare"}
        /\ UNCHANGED <<up, epoch, ctrlVars, inst, disk, fwd, status, held,
                       crashes, faults, kills>>
    BY <1>2, Zenon DEF Switch, Goto
  <2>5. PointInv'
    BY <2>1, <2>3, <2>4, Zenon DEF PointInv, AtPrepare, Retains, ctrlVars
  <2> QED BY <2>1, <2>3, <2>4, <2>5, Enters, Zenon DEF PCs, QuarantineWindow, ctrlVars
<1> QED BY <1>1, <1>2, Zenon DEF Switch

(* apply_config() goes on to a commit on the active epoch or to a switch.  *)
LEMMA ApplyConfigStep ==
    ASSUME ControlInv, NEW d \in Specs, NEW expected, NEW class,
           ApplyConfig(d, expected, class)
    PROVE  ControlInv'
<1>1. /\ up /\ pc = "idle" /\ quarantine = {} /\ held = {}
      /\ current \in Revs /\ op' = [NoOp EXCEPT !.spec = d]
  BY IdlePoint, Zenon DEF ApplyConfig, Admitted, Running, ControlInv, TypeOK, CtrlTypeOK
<1>2. op' \in Ops /\ op'.spec = d /\ op'.new = NoRev /\ op'.old = NoRev
  BY <1>1, OpFacts, Zenon DEF Ops
<1>3. /\ \/ pc' = "switchPrepare"
         \/ pc' = "applyCommit" /\ current.gen < MaxGen
      /\ UNCHANGED <<up, epoch, ctrlVars, inst, disk, fwd, status, held,
                     crashes, faults, kills>>
  BY Zenon DEF ApplyConfig, Goto
<1>4. PointInv'
  BY <1>1, <1>3 DEF PointInv, AtPrepare, AtApplyCommit, Retains, ctrlVars
<1> QED BY <1>1, <1>2, <1>3, <1>4, Enters, Zenon DEF PCs, QuarantineWindow, ctrlVars

(* recover_quarantine() starts with every latched entry still to do.       *)
LEMMA RecoverQuarantineStep ==
    ASSUME ControlInv, RecoverQuarantine
    PROVE  ControlInv'
<1>1. up /\ pc = "idle" /\ held = {} /\ quarantine \subseteq Epochs
  BY IdlePoint, Zenon DEF RecoverQuarantine, ControlInv, TypeOK, CtrlTypeOK
<1>2. op' \in Ops /\ op'.todo = quarantine /\ op'.new = NoRev /\ op'.old = NoRev
  BY <1>1, OpFacts, Zenon DEF RecoverQuarantine, Ops
<1>3. /\ pc' = "recover"
      /\ UNCHANGED <<up, epoch, ctrlVars, inst, disk, fwd, status, held,
                     crashes, faults, kills>>
  BY Zenon DEF RecoverQuarantine, Goto
<1>4. PointInv'
  BY <1>1, <1>2, <1>3, Zenon DEF PointInv, AtRecover, ctrlVars
<1> QED BY <1>1, <1>2, <1>3, <1>4, Enters, Zenon DEF PCs, QuarantineWindow

(* stop and shutdown take the active instance and ask it to stop.          *)
LEMMA StopRequestStep ==
    ASSUME ControlInv, Stop \/ Shutdown
    PROVE  ControlInv'
<1>1. up /\ pc = "idle" /\ held = {} /\ current \in Revs /\ epoch \in Nat
  BY IdlePoint DEF Stop, Shutdown, ControlInv, TypeOK, CtrlTypeOK
<1>2. current.epoch \in Epochs /\ current.epoch <= epoch
  BY <1>1, RevFacts, Zenon DEF ControlInv, Control, EpochsAllocated
<1>3. op' \in Ops /\ op'.old = current /\ op'.new = NoRev
  <2>1. op' = [NoOp EXCEPT !.old = current]
    BY Zenon DEF Stop, Shutdown
  <2> QED BY <1>1, <2>1, OpFacts, Zenon DEF Ops
<1>4. /\ pc' \in {"stopStale", "stopWait"} /\ held' = {current.epoch}
      /\ current' = NoRev /\ fwd' = "none"
      /\ life' = life \/ BeginStop(current.epoch)
      /\ \E s \in CoreStates : status' = [state |-> s, rev |-> current]
  BY Zenon DEF Stop, Shutdown, Goto, TakeCurrent, Publish, CoreStates
<1>5. /\ UNCHANGED <<up, epoch, lastSpec, quarantine, proven, supervised, proc>>
      /\ UNCHANGED <<config, record, backup, crashes, faults, kills>>
  BY Zenon DEF Stop, Shutdown, disk
<1>6. /\ life' \in [Epochs -> LifeStates]
      /\ \A e \in Epochs : life'[e] = "Absent" => life[e] = "Absent"
  BY <1>2, <1>4, BeginStopEffect, Zenon DEF ControlInv, TypeOK, InstTypeOK
<1>7. TypeOK'
  <2>1. CtrlTypeOK' /\ InstTypeOK'
    BY <1>4, <1>5, <1>6 DEF ControlInv, TypeOK, CtrlTypeOK, InstTypeOK
  <2>2. DiskTypeOK' /\ OpTypeOK' /\ CountersOK'
    BY <1>2, <1>3, <1>4, <1>5,
      Zenon DEF ControlInv, TypeOK, DiskTypeOK, OpTypeOK, PCs, CountersOK
  <2> QED BY <2>1, <2>2, Zenon DEF TypeOK
<1>8. PointInv'
  BY <1>1, <1>3, <1>4, Zenon DEF PointInv, AtStop, Took, Holds
<1>9. Control'
  BY <1>1, <1>2, <1>3, <1>4, <1>5, RevFacts
     DEF Control, QuarantineWindow, DownIsEmpty, EpochsAllocated
<1>10. \A e \in Epochs : e = current'.epoch \/ e \in held'
                            <=> e = current.epoch \/ e \in held
  BY <1>1, <1>4, RevFacts, EpochFacts
<1>11. LiveHasRecord' /\ \A e \in Epochs : Live(e)' => Live(e)
  BY <1>5, Zenon DEF ControlInv, Processes, LiveHasRecord, Live
<1> QED BY <1>1, <1>5, <1>6, <1>7, <1>8, <1>9, <1>10, <1>11, Passed

-----------------------------------------------------------------------------
(* start                                                                   *)

(* The stale core is confirmed dead and cleaned before the launch, or      *)
(* quarantined.                                                            *)
LEMMA StaleStoppedStep ==
    ASSUME ControlInv, StaleStopped
    PROVE  ControlInv'
<1>1. pc = "staleStop" /\ AtStaleStop
  BY Zenon DEF StaleStopped, ControlInv, PointInv
<1>2. /\ held = {op.old.epoch} /\ op.old.epoch \in Epochs /\ op.old.epoch # current.epoch
      /\ current = NoRev /\ op.spec \in Specs
  BY <1>1, RevFacts, EpochFacts DEF AtStaleStop, Took, Holds
<1>3. UNCHANGED <<up, epoch, current, lastSpec, fwd, crashes, kills>>
  BY Zenon DEF StaleStopped
<1>4. InstTypeOK /\ DiskTypeOK /\ status \in [state : CoreStates, rev : Revs \cup {NoRev}]
  BY Zenon DEF ControlInv, TypeOK, CtrlTypeOK
<1>5. CASE Unconfirmed(op.old.epoch) /\ LatchQuarantine({op.old.epoch}) /\ UNCHANGED disk
  BY <1>1, <1>2, <1>3, <1>4, <1>5, InFlight, Latched, Zenon DEF disk, DiskTypeOK
<1>6. CASE /\ ConfirmedDead(op.old.epoch) /\ CleanupErr(op.old.epoch) /\ Finish
           /\ UNCHANGED <<quarantine, proven, status>>
  BY <1>1, <1>2, <1>3, <1>4, <1>6, CleanupErrEffect, InFlight, Ended, Zenon
<1>7. CASE /\ ConfirmedDead(op.old.epoch) /\ CleanupOk(op.old.epoch)
           /\ pc' = "launch" /\ held' = {} /\ UNCHANGED <<op, quarantine, proven, status>>
  <2>1. /\ DiskTypeOK' /\ faults' = faults
        /\ \A f \in Epochs : f # op.old.epoch => record'[f] = record[f]
    BY <1>2, <1>4, <1>7, CleanupOkEffect, Zenon
  <2>2. TypeOK'
    <3>1. CtrlTypeOK' /\ CountersOK'
      BY <1>3, <1>7, <2>1, Zenon DEF ControlInv, TypeOK, CtrlTypeOK, CountersOK
    <3>2. OpTypeOK' /\ InstTypeOK'
      BY <1>2, <1>7, DeadEffect, Zenon DEF ControlInv, TypeOK, OpTypeOK, PCs
    <3> QED BY <2>1, <3>1, <3>2, Zenon DEF TypeOK
  <2>3. PointInv'
    BY <1>2, <1>3, <1>7, Zenon DEF PointInv, AtLaunch, Took
  <2>4. Control'
    BY <1>1, <1>3, <1>7,
      Zenon DEF ControlInv, Control, QuarantineWindow, DownIsEmpty, EpochsAllocated
  <2> QED BY <1>2, <1>3, <1>7, <2>1, <2>2, <2>3, <2>4, Released, Zenon
<1> QED BY <1>5, <1>6, <1>7, Zenon DEF StaleStopped, Goto

(* The launch allocates a fresh epoch and writes its configuration.        *)
LEMMA LaunchStep ==
    ASSUME ControlInv, Launch
    PROVE  ControlInv'
<1> DEFINE r == Rev(epoch + 1, 1, op.spec)
<1>1. pc = "launch" /\ current = NoRev /\ held = {} /\ op.spec \in Specs
  BY Zenon DEF Launch, ControlInv, PointInv, AtLaunch, Took
<1>2. /\ r \in Revs /\ r.epoch = epoch + 1 /\ r.spec = op.spec
      /\ epoch + 1 \in Epochs /\ ~Live(epoch + 1)
      /\ epoch' = epoch + 1 /\ epoch' \in 0..MaxEpoch
  BY <1>1, FreshEpoch, Zenon DEF Launch
<1>3. /\ UNCHANGED <<up, current, lastSpec, quarantine, proven, fwd, crashes, kills>>
      /\ UNCHANGED <<life, supervised, proc, record, backup>>
  BY Zenon DEF Launch, ctrlVars, inst
<1>4. DiskTypeOK /\ LiveHasRecord /\ LiveHasRecord'
  BY <1>3, Zenon DEF ControlInv, TypeOK, Processes, LiveHasRecord, Live
<1>5. up /\ op \in Ops /\ epoch \in Nat
  BY <1>1, InFlight, Zenon
<1> HIDE DEF r
<1>6. CASE PrepareFailed(r.epoch, Full(r.spec)) /\ PublishTerminalError /\ Finish
  <2>1. /\ DiskTypeOK'
        /\ faults' = faults \/ (faults < MaxFaults /\ faults' = faults + 1)
    BY <1>1, <1>2, <1>3, <1>4, <1>6, PrepareFailedEffect, ConfigFacts, Zenon DEF DiskTypeOK
  <2>2. status' \in [state : CoreStates, rev : Revs \cup {NoRev}]
    BY <1>6, Zenon DEF PublishTerminalError, Publish, CoreStates
  <2> QED BY <1>1, <1>2, <1>3, <1>4, <1>5, <1>6, <2>1, <2>2, Returns
<1>7. CASE /\ config' = [config EXCEPT ![r.epoch] = Full(r.spec)]
           /\ status' = [state |-> "Starting", rev |-> r]
           /\ op' = [op EXCEPT !.new = r, !.old = NoRev]
           /\ pc' = "startSpawn" /\ UNCHANGED <<held, faults>>
  <2>1. op' \in Ops /\ op'.new = r /\ op'.old = NoRev
    BY <1>2, <1>5, <1>7, Zenon DEF Ops
  <2>2. TypeOK'
    <3>1. CtrlTypeOK' /\ CountersOK'
      BY <1>2, <1>3, <1>7, Zenon DEF ControlInv, TypeOK, CtrlTypeOK, CountersOK, CoreStates
    <3>2. DiskTypeOK' /\ InstTypeOK'
      BY <1>1, <1>2, <1>3, <1>7, ConfigFacts,
        Zenon DEF ControlInv, TypeOK, DiskTypeOK, InstTypeOK
    <3>3. OpTypeOK'
      BY <1>7, <2>1, Zenon DEF ControlInv, TypeOK, OpTypeOK, PCs
    <3> QED BY <3>1, <3>2, <3>3, Zenon DEF TypeOK
  <2>3. PointInv'
    BY <1>1, <1>2, <1>3, <1>7, <2>1, Zenon DEF PointInv, AtStartSpawn, Took, Dead, Live
  <2>4. Control'
    BY <1>1, <1>2, <1>3, <1>5, <1>7, <2>1, RevFacts
       DEF ControlInv, Control, QuarantineWindow, DownIsEmpty, EpochsAllocated
  <2> QED BY <1>2, <1>3, <1>5, <1>7, <2>2, <2>3, <2>4, Steady
<1> QED BY <1>6, <1>7, Zenon DEF Launch, Goto, Publish, r

(* The start spawns into an epoch in which nothing lives.                  *)
LEMMA StartSpawnStep ==
    ASSUME ControlInv, StartSpawn
    PROVE  ControlInv'
<1>1. pc = "startSpawn" /\ current = NoRev /\ held = {} /\ Dead(op.new)
  BY Zenon DEF StartSpawn, ControlInv, PointInv, AtStartSpawn, Took
<1>2. op.new \in Revs /\ op.new.epoch \in Epochs /\ ~Live(op.new.epoch)
  BY <1>1, RevFacts, Zenon DEF Dead
<1>3. up /\ quarantine = {} /\ op.new.epoch <= epoch /\ epoch \in Nat /\ epoch <= MaxEpoch
  BY <1>1, InFlight, Zenon
<1>4. UNCHANGED <<up, epoch, current, lastSpec, quarantine, proven, fwd, crashes, kills>>
  BY Zenon DEF StartSpawn, ctrlVars
<1>5. CASE /\ SpawnInstance(op.new.epoch) /\ pc' = "startReady" /\ held' = {op.new.epoch}
           /\ UNCHANGED <<op, config, backup, status, faults>>
  <2>1. PointInv'
    BY <1>1, <1>2, <1>4, <1>5, Zenon DEF PointInv, AtStart, Took, Holds
  <2> QED BY <1>1, <1>2, <1>3, <1>4, <1>5, <2>1, Spawns, Zenon
<1>6. CASE Cleanup(op.new.epoch) /\ PublishTerminalError /\ Finish /\ UNCHANGED inst
  <2>1. /\ DiskTypeOK' /\ \A f \in Epochs : f # op.new.epoch => record'[f] = record[f]
        /\ faults' = faults \/ (faults < MaxFaults /\ faults' = faults + 1)
    BY <1>2, <1>6, CleanupEffect, Zenon DEF ControlInv, TypeOK
  <2>2. UNCHANGED <<life, supervised, proc>>
    BY <1>6, Zenon DEF inst
  <2>3. LiveHasRecord'
    BY <1>2, <2>1, <2>2, Zenon DEF ControlInv, Processes, LiveHasRecord, Live
  <2>4. status' \in [state : CoreStates, rev : Revs \cup {NoRev}]
    BY <1>6, Zenon DEF PublishTerminalError, Publish, CoreStates
  <2> QED BY <1>1, <1>3, <1>4, <1>6, <2>1, <2>2, <2>3, <2>4, Returns, Zenon
<1> QED BY <1>5, <1>6, Zenon DEF StartSpawn, Goto

(* A core that became ready is held by the starting operation.             *)
LEMMA StartReadyStep ==
    ASSUME ControlInv, StartReady
    PROVE  ControlInv'
<1>1. pc = "startReady" /\ AtStart
  BY Zenon DEF StartReady, ControlInv, PointInv
<1>2. /\ pc' \in {"startInstall", "startReject"} /\ UNCHANGED <<op, held>>
      /\ UNCHANGED <<up, epoch, current, lastSpec, quarantine, proven, life, supervised, proc>>
      /\ UNCHANGED <<config, record, backup, fwd, status, crashes, faults, kills>>
  BY Zenon DEF StartReady, Goto, ctrlVars, inst, disk
<1>3. TypeOK'
  <2>1. CtrlTypeOK' /\ InstTypeOK'
    BY <1>2, Zenon DEF ControlInv, TypeOK, CtrlTypeOK, InstTypeOK
  <2>2. DiskTypeOK' /\ OpTypeOK' /\ CountersOK'
    BY <1>2, Zenon DEF ControlInv, TypeOK, DiskTypeOK, OpTypeOK, PCs, CountersOK
  <2> QED BY <2>1, <2>2, Zenon DEF TypeOK
<1>4. PointInv'
  BY <1>1, <1>2, Zenon DEF PointInv, AtStart, Took, Holds
<1>5. Control' /\ epoch <= epoch'
  BY <1>1, <1>2, InFlight DEF Control, QuarantineWindow, DownIsEmpty, EpochsAllocated
<1> QED BY <1>2, <1>3, <1>4, <1>5, Steady, Zenon

(* Installing the started core hands it from the operation to the slot.    *)
LEMMA StartInstallStep ==
    ASSUME ControlInv, StartInstall
    PROVE  ControlInv'
<1>1. /\ pc = "startInstall" /\ current = NoRev
      /\ op.new \in Revs /\ held = {op.new.epoch}
  BY Zenon DEF StartInstall, ControlInv, PointInv, AtStart, Took, Holds
<1>2. /\ current' = op.new /\ lastSpec' = op.new.spec /\ fwd' = "fresh"
      /\ status' = [state |-> "Running", rev |-> op.new]
  BY Zenon DEF StartInstall, InstallNew, Publish
<1>3. /\ UNCHANGED <<up, epoch, quarantine, proven, life, supervised, proc>>
      /\ UNCHANGED <<config, record, backup, crashes, faults, kills>>
  BY Zenon DEF StartInstall, inst, disk
<1>4. /\ OpTypeOK' /\ PointInv' /\ QuarantineWindow' /\ held' = {} /\ pc' = "idle"
      /\ op'.new.epoch = 0 /\ op'.old.epoch = 0
  BY Finished, Zenon DEF StartInstall
<1>5. TypeOK'
  <2>1. CtrlTypeOK'
    BY <1>1, <1>2, <1>3, RevFacts, Zenon DEF ControlInv, TypeOK, CtrlTypeOK, CoreStates
  <2>2. InstTypeOK' /\ DiskTypeOK' /\ CountersOK'
    BY <1>3, Zenon DEF ControlInv, TypeOK, InstTypeOK, DiskTypeOK, CountersOK
  <2> QED BY <1>4, <2>1, <2>2, Zenon DEF TypeOK
<1>6. Control' /\ epoch <= epoch'
  BY <1>1, <1>2, <1>3, <1>4, InFlight DEF Control, DownIsEmpty, EpochsAllocated
<1>7. \A e \in Epochs : e = current'.epoch \/ e \in held'
                           <=> e = current.epoch \/ e \in held
  BY <1>1, <1>2, <1>4, RevFacts, EpochFacts
<1>8. LiveHasRecord' /\ \A e \in Epochs : Live(e)' => Live(e)
  BY <1>3, Zenon DEF ControlInv, Processes, LiveHasRecord, Live
<1> QED BY <1>3, <1>4, <1>5, <1>6, <1>7, <1>8, Passed, Zenon

(* A core that failed to start is stopped or quarantined.                  *)
LEMMA StartRejectStep ==
    ASSUME ControlInv, StartReject
    PROVE  ControlInv'
<1>1. /\ pc = "startReject" /\ held = {op.new.epoch} /\ op.new.epoch \in Epochs
      /\ op.new.epoch # current.epoch
  BY RevFacts, EpochFacts DEF StartReject, ControlInv, PointInv, AtStart, Took, Holds
<1>2. up /\ UNCHANGED <<up, epoch, current, lastSpec, fwd, crashes, kills>>
  BY InFlight, Zenon DEF StartReject
<1> QED BY <1>1, <1>2, Rejected, Zenon DEF StartReject

-----------------------------------------------------------------------------
(* stop, republish_retained and recover_quarantine                         *)

(* A completed stop leaves the slot empty, or the entry quarantined.       *)
LEMMA StopDoneStep ==
    ASSUME ControlInv, StopDone
    PROVE  ControlInv'
<1>1. /\ pc \in {"stopStale", "stopWait"} /\ held = {op.old.epoch}
      /\ op.old.epoch \in Epochs /\ op.old.epoch # current.epoch
  BY RevFacts, EpochFacts DEF StopDone, ControlInv, PointInv, AtStop, Took, Holds
<1>2. up /\ UNCHANGED <<up, epoch, current, lastSpec, fwd, crashes, kills>>
  BY InFlight, Zenon DEF StopDone
<1>3. DiskTypeOK /\ status \in [state : CoreStates, rev : Revs \cup {NoRev}]
  BY Zenon DEF ControlInv, TypeOK, CtrlTypeOK
<1>4. CASE Unconfirmed(op.old.epoch) /\ LatchQuarantine({op.old.epoch}) /\ UNCHANGED disk
  BY <1>1, <1>2, <1>3, <1>4, Latched, Zenon DEF disk, DiskTypeOK
<1>5. CASE /\ ConfirmedDead(op.old.epoch) /\ Cleanup(op.old.epoch)
           /\ status' = status \/ PublishTerminalError
           /\ Finish /\ UNCHANGED <<quarantine, proven>>
  <2>1. status' \in [state : CoreStates, rev : Revs \cup {NoRev}]
    BY <1>3, <1>5 DEF PublishTerminalError, Publish, CoreStates
  <2> QED BY <1>1, <1>2, <1>3, <1>5, <2>1, CleanupEffect, Ended, Zenon
<1> QED BY <1>4, <1>5, Zenon DEF StopDone, PublishTerminalError, Cleanup

(* Publishing the retained core again changes no ownership.                *)
LEMMA RepublishStep ==
    ASSUME ControlInv, Republish
    PROVE  ControlInv'
<1>1. pc = "republish" /\ held = {} /\ current \in Revs /\ op.seen # "Absent"
  BY Zenon DEF Republish, ControlInv, PointInv, AtRepublish, Retains
<1>2. up /\ epoch \in Nat /\ epoch <= MaxEpoch /\ op \in Ops
  BY <1>1, InFlight, Zenon
<1>3. /\ UNCHANGED <<up, epoch, current, lastSpec, quarantine, proven, fwd, crashes, kills>>
      /\ UNCHANGED <<life, supervised, proc, config, record, backup, faults>>
  BY Zenon DEF Republish, ctrlVars, inst, disk
<1>4. status' \in [state : CoreStates, rev : Revs \cup {NoRev}]
  <2>1. status' = [state |-> op.seen, rev |-> current]
    BY Zenon DEF Republish, Publish
  <2>2. op.seen \in CoreStates
    BY <1>1, <1>2, Zenon DEF Ops, LifeStates, CoreStates
  <2> QED BY <1>1, <2>1, <2>2, Zenon
<1>5. DiskTypeOK' /\ LiveHasRecord'
  BY <1>3, Zenon DEF ControlInv, TypeOK, DiskTypeOK, Processes, LiveHasRecord, Live
<1> QED BY <1>1, <1>2, <1>3, <1>4, <1>5, Returns, Zenon DEF Republish

(* The end of a recovery releases the lock and keeps unproven entries.     *)
LEMMA RecoverDoneStep ==
    ASSUME ControlInv, RecoverDone
    PROVE  ControlInv'
<1>1. pc = "recover" /\ held = {}
  BY Zenon DEF RecoverDone, ControlInv, PointInv, AtRecover
<1>2. up /\ epoch \in Nat /\ epoch <= MaxEpoch
  BY <1>1, InFlight, Zenon
<1>3. /\ UNCHANGED <<up, epoch, current, lastSpec, quarantine, proven, fwd, crashes, kills>>
      /\ UNCHANGED <<life, supervised, proc, config, record, backup, faults>>
  BY Zenon DEF RecoverDone, ctrlVars, inst, disk
<1>4. status' \in [state : CoreStates, rev : Revs \cup {NoRev}]
  BY DEF RecoverDone, Publish, CoreStates, ControlInv, TypeOK, CtrlTypeOK
<1>5. DiskTypeOK' /\ LiveHasRecord'
  BY <1>3, Zenon DEF ControlInv, TypeOK, DiskTypeOK, Processes, LiveHasRecord, Live
<1> QED BY <1>1, <1>2, <1>3, <1>4, <1>5, Returns, Zenon DEF RecoverDone

(* An entry leaves the quarantine only when its process is dead; one whose *)
(* cleanup failed keeps the proof.                                         *)
LEMMA RecoverEntryStep ==
    ASSUME ControlInv, NEW e \in Epochs, RecoverEntry(e)
    PROVE  ControlInv'
<1>1. pc = "recover" /\ held = {} /\ op.todo \subseteq quarantine /\ e \in op.todo
  BY Zenon DEF RecoverEntry, ControlInv, PointInv, AtRecover
<1>2. up /\ epoch \in Nat /\ op \in Ops /\ e \in quarantine
  BY <1>1, InFlight, Zenon
<1>3. /\ UNCHANGED <<up, epoch, current, lastSpec, life, supervised, fwd, status>>
      /\ UNCHANGED <<pc, held, crashes, kills>>
  BY Zenon DEF RecoverEntry
<1>4. \/ op' = [op EXCEPT !.todo = @ \ {e}, !.failed = TRUE]
      \/ op' = [op EXCEPT !.todo = @ \ {e}]
  BY Zenon DEF RecoverEntry
<1>5. op' \in Ops /\ op'.todo = op.todo \ {e} /\ op'.new = op.new /\ op'.old = op.old
  BY <1>2, <1>4, Zenon DEF Ops
<1>6. \/ /\ UNCHANGED <<quarantine, proven, proc, config, record, backup>>
         /\ NoFault \/ Fault
      \/ /\ proc' = [proc EXCEPT ![e] = NoConfig]
         /\ \/ CleanupOk(e) /\ quarantine' = quarantine \ {e} /\ proven' = proven \ {e}
            \/ CleanupErr(e) /\ quarantine' = quarantine /\ proven' = proven \cup {e}
  BY Zenon DEF RecoverEntry, disk
<1>7. /\ DiskTypeOK'
      /\ \A f \in Epochs : f # e => record'[f] = record[f]
      /\ proc' = proc => record' = record \/ ~Live(e)
      /\ faults' = faults \/ (faults < MaxFaults /\ faults' = faults + 1)
  <2>1. CASE CleanupOk(e) \/ CleanupErr(e)
    BY <1>6, <2>1, CleanupEffect, Zenon DEF Cleanup, ControlInv, TypeOK, InstTypeOK, Live
  <2>2. CASE UNCHANGED <<config, record, backup>> /\ (NoFault \/ Fault)
    BY <2>2, Zenon DEF ControlInv, TypeOK, DiskTypeOK, NoFault, Fault
  <2> QED BY <1>6, <2>1, <2>2, Zenon
<1>8. /\ proc' \in [Epochs -> Configs \cup {NoConfig}]
      /\ \A f \in Epochs : f # e => proc'[f] = proc[f]
      /\ proc' = proc \/ proc'[e] = NoConfig
  BY <1>6, Zenon DEF ControlInv, TypeOK, InstTypeOK
<1>9. /\ quarantine' \subseteq quarantine /\ proven' \subseteq quarantine'
      /\ op.todo \ {e} \subseteq quarantine'
      /\ \A f \in proven' : f \in proven \/ (f = e /\ proc'[e] = NoConfig)
  BY <1>1, <1>6, <1>8, Zenon DEF ControlInv, Processes, ProvenDead
<1>10. TypeOK'
  <2>1. CtrlTypeOK' /\ InstTypeOK'
    BY <1>3, <1>8, <1>9, Zenon DEF ControlInv, TypeOK, CtrlTypeOK, InstTypeOK
  <2>2. OpTypeOK' /\ CountersOK'
    BY <1>3, <1>5, <1>7, BoundsAssumption DEF ControlInv, TypeOK, OpTypeOK, CountersOK
  <2> QED BY <1>7, <2>1, <2>2, Zenon DEF TypeOK
<1>11. PointInv'
  BY <1>1, <1>3, <1>5, <1>9, Zenon DEF PointInv, AtRecover
<1>12. Ownership'
  BY <1>3, <1>9,
    Zenon DEF ControlInv, Ownership, QuarantinedGone, SupervisedIsHeld, OwnedHasLife
<1>13. Processes'
  <2>1. \A f \in Epochs : Live(f)' => Live(f) /\ record'[f]
    BY <1>7, <1>8, Zenon DEF ControlInv, Processes, LiveHasRecord, Live
  <2>2. ProvenDead'
    BY <1>9, <2>1, Zenon DEF ControlInv, Processes, ProvenDead, TypeOK, CtrlTypeOK, Live
  <2> QED BY <1>3, <2>1, <2>2, Zenon DEF ControlInv, Processes, LiveAllocated, LiveHasRecord
<1>14. Control'
  BY <1>2, <1>3, <1>5,
    Zenon DEF ControlInv, Control, QuarantineWindow, DownIsEmpty, EpochsAllocated
<1> QED BY <1>10, <1>11, <1>12, <1>13, <1>14, Zenon DEF ControlInv

-----------------------------------------------------------------------------
(* The environment.                                                        *)

(* What an operation relies on at its await survives whatever brings up no *)
(* process but that of an instance with an owner, from its own file.       *)
LEMMA PointsKept ==
    ASSUME ControlInv, UNCHANGED <<current, quarantine, pc, op, held>>, config' = config,
           \A f \in Epochs : supervised'[f] => supervised[f],
           \A f \in Epochs :
              \/ (Live(f)' => Live(f)) /\ (proc'[f].full => proc[f].full)
              \/ supervised[f] /\ proc'[f] = config[f]
    PROVE  PointInv'
<1>1. /\ \A r \in Revs : r.epoch \in Epochs
      /\ \A f \in Epochs : supervised[f] => f = current.epoch \/ f \in held
      /\ NoRev.epoch = 0 /\ 0 \notin Epochs
  BY RevFacts, EpochFacts DEF ControlInv, Ownership, SupervisedIsHeld
<1>2. ASSUME NEW r, Dead(r), r.epoch # current.epoch, r.epoch \notin held
      PROVE  Dead(r)'
  BY <1>1, <1>2, Zenon DEF Dead
<1>3. ASSUME NEW r \in Revs, Bootstrapped(r)
      PROVE  ~config'[r.epoch].full /\ ~proc'[r.epoch].full
  BY <1>1, <1>3, Zenon DEF Bootstrapped
<1>4. CASE pc \in {"idle", "launch", "staleStop", "startReady", "startInstall",
                   "startReject", "stopStale", "stopWait", "hardPrepare", "gPrepare",
                   "switchPrepare", "republish"}
  BY <1>4,
    Zenon DEF ControlInv, PointInv, AtIdle, AtLaunch, AtStaleStop, AtStart, AtStop,
         AtPrepare, AtRepublish, Took, Holds, Retains
<1>5. CASE pc \in {"applyCommit", "applyReconcile", "applyPublish", "applyStop",
                   "recover"}
  BY <1>5,
    Zenon DEF ControlInv, PointInv, AtApplyCommit, AtPrepare, AtApply, AtApplyStop,
         AtRecover, Took, Holds, Retains, SameEpoch
<1>6. CASE pc \in {"startSpawn", "hardStop", "switchStop", "gSpawn"}
  BY <1>1, <1>6,
    Zenon DEF ControlInv, PointInv, AtStartSpawn, AtStopFirst, AtOverlapSpawn, Took, Holds,
         Retains, AnotherEpoch, Bootstrapped, Dead
<1>7. CASE pc \in {"gReady", "gReject", "gStopOld", "gAbort"}
  BY <1>1, <1>7,
    Zenon DEF ControlInv, PointInv, AtOverlap, AtStopOld, AtAbort, Took, Holds, AnotherEpoch,
         Bootstrapped
<1>8. CASE pc \in {"gCommit", "gCommitFail", "gReconcile", "gInstall", "gReplaceStop"}
  BY <1>1, <1>2, <1>8,
    Zenon DEF ControlInv, PointInv, AtCommit, AtReconcile, Took, Holds, AnotherEpoch,
         Bootstrapped
<1>9. CASE pc = "replaceSpawn"
  BY <1>1, <1>2, <1>9,
    Zenon DEF ControlInv, PointInv, AtReplaceSpawn, Took, Replaces, SameEpoch, AnotherEpoch
<1>10. CASE pc \in {"replaceReady", "replaceReject", "replaceInstall"}
  <2>1. AtReplace
    BY <1>10, Zenon DEF ControlInv, PointInv
  <2>2. op.mode \in {"graceful", "switch"} => Dead(op.old)'
    BY <1>1, <1>2, <2>1, Zenon DEF AtReplace, Took, Holds, Replaces, AnotherEpoch, ReplaceRev
  <2>3. AtReplace'
    BY <2>1, <2>2,
      Zenon DEF AtReplace, Took, Holds, Replaces, SameEpoch, AnotherEpoch, ReplaceRev
  <2> QED BY <1>10, <2>3, Zenon DEF PointInv
<1>11. CASE pc = "replacePublish"
  <2>1. AtReplacePublish
    BY <1>11, Zenon DEF ControlInv, PointInv
  <2>2. op.mode = "switch" => Dead(op.old)'
    BY <1>2, <2>1, Zenon DEF AtReplacePublish, Replaces, AnotherEpoch, ReplaceRev
  <2>3. AtReplacePublish'
    BY <2>1, <2>2, Zenon DEF AtReplacePublish, Replaces, SameEpoch, AnotherEpoch, ReplaceRev
  <2> QED BY <1>11, <2>3, Zenon DEF PointInv
<1> QED BY <1>4, <1>5, <1>6, <1>7, <1>8, <1>9, <1>10, <1>11,
          Zenon DEF ControlInv, TypeOK, OpTypeOK, PCs

(* A step of an instance, a process or the forwarder.                      *)
LEMMA Background ==
    ASSUME ControlInv, TypeOK', StartsNothing, LiveHasRecord',
           \A f \in Epochs : proc'[f].full => proc[f].full,
           UNCHANGED <<up, epoch, current, quarantine, proven, pc, op, held, config>>
    PROVE  ControlInv'
<1>1. PointInv'
  BY PointsKept, Zenon DEF StartsNothing
<1>2. Control' /\ epoch <= epoch'
  BY DEF ControlInv, TypeOK, CtrlTypeOK, Control, QuarantineWindow, DownIsEmpty,
         EpochsAllocated
<1>3. NoNewOwner /\ LatchesReleased /\ SupervisedIsHeld'
  BY Zenon DEF NoNewOwner, LatchesReleased, SupervisedIsHeld, ControlInv, Ownership,
         StartsNothing
<1> QED BY <1>1, <1>2, <1>3, Frame, Zenon

(* A new state of an instance on its watch channel.                        *)
LEMMA InstanceMoves ==
    ASSUME ControlInv, NEW e \in Epochs,
           InstanceReady(e) \/ InstanceRestarting(e) \/ InstanceStopped(e)
    PROVE  ControlInv'
<1>1. /\ life' \in [Epochs -> LifeStates] /\ supervised' \in [Epochs -> BOOLEAN]
      /\ \A f \in Epochs : /\ life'[f] = "Absent" => life[f] = "Absent"
                           /\ supervised'[f] => supervised[f]
  <2>1. life \in [Epochs -> LifeStates] /\ supervised \in [Epochs -> BOOLEAN]
    BY Zenon DEF ControlInv, TypeOK, InstTypeOK
  <2>2. \E s \in {"Running", "Restarting", "Stopped"} : life' = [life EXCEPT ![e] = s]
    BY Zenon DEF InstanceReady, InstanceRestarting, InstanceStopped
  <2>3. supervised' = supervised \/ supervised' = [supervised EXCEPT ![e] = FALSE]
    BY Zenon DEF InstanceReady, InstanceRestarting, InstanceStopped
  <2>4. /\ life' \in [Epochs -> LifeStates]
        /\ \A f \in Epochs : life'[f] = "Absent" => life[f] = "Absent"
    BY <2>1, <2>2, Zenon DEF LifeStates
  <2>5. /\ supervised' \in [Epochs -> BOOLEAN]
        /\ \A f \in Epochs : supervised'[f] => supervised[f]
    BY <2>1, <2>3, Zenon
  <2> QED BY <2>4, <2>5, Zenon
<1>2. fwd' \in {fwd, "fresh"}
  BY Zenon DEF InstanceReady, InstanceRestarting, InstanceStopped, Notify
<1>3. /\ UNCHANGED <<up, epoch, current, lastSpec, quarantine, proven, proc, status>>
      /\ UNCHANGED <<config, record, backup, pc, op, held, crashes, faults, kills>>
  BY Zenon DEF InstanceReady, InstanceRestarting, InstanceStopped, ctrlVars, disk, opVars
<1>4. TypeOK'
  <2>1. CtrlTypeOK' /\ InstTypeOK'
    BY <1>1, <1>2, <1>3, Zenon DEF ControlInv, TypeOK, CtrlTypeOK, InstTypeOK
  <2>2. DiskTypeOK' /\ OpTypeOK' /\ CountersOK'
    BY <1>3, Zenon DEF ControlInv, TypeOK, DiskTypeOK, OpTypeOK, CountersOK
  <2> QED BY <2>1, <2>2, Zenon DEF TypeOK
<1>5. StartsNothing /\ LiveHasRecord'
  BY <1>1, <1>3, Zenon DEF StartsNothing, ControlInv, Processes, LiveHasRecord, Live
<1> QED BY <1>3, <1>4, <1>5, Background, Zenon

(* Forwarding an instance event to the status changes no ownership.        *)
LEMMA ForwardStep ==
    ASSUME ControlInv, Forward
    PROVE  ControlInv'
<1>1. /\ UNCHANGED <<up, epoch, current, lastSpec, quarantine, proven, life, supervised, proc>>
      /\ UNCHANGED <<config, record, backup, pc, op, held, crashes, faults, kills>>
  BY Zenon DEF Forward, ctrlVars, inst, disk, opVars
<1>2. fwd' \in {"none", "seen"}
  BY Zenon DEF Forward
<1>3. status' \in [state : CoreStates, rev : Revs \cup {NoRev}]
  <2>1. life[current.epoch] \in CoreStates
    BY RevFacts
       DEF Forward, ControlInv, TypeOK, CtrlTypeOK, InstTypeOK, LifeStates, CoreStates,
           Ownership, OwnedHasLife
  <2>2. status \in [state : CoreStates, rev : Revs \cup {NoRev}]
    BY Zenon DEF ControlInv, TypeOK, CtrlTypeOK
  <2>3. status' = status \/ status' = [status EXCEPT !.state = life[current.epoch]]
    BY Zenon DEF Forward
  <2> QED BY <2>1, <2>2, <2>3, Zenon
<1>4. TypeOK'
  <2>1. CtrlTypeOK' /\ InstTypeOK'
    BY <1>1, <1>2, <1>3, Zenon DEF ControlInv, TypeOK, CtrlTypeOK, InstTypeOK
  <2>2. DiskTypeOK' /\ OpTypeOK' /\ CountersOK'
    BY <1>1, Zenon DEF ControlInv, TypeOK, DiskTypeOK, OpTypeOK, CountersOK
  <2> QED BY <2>1, <2>2, Zenon DEF TypeOK
<1>5. StartsNothing /\ LiveHasRecord'
  BY <1>1, Zenon DEF StartsNothing, ControlInv, Processes, LiveHasRecord, Live
<1> QED BY <1>1, <1>4, <1>5, Background, Zenon

(* The exit of a process leaves every other process with its record.       *)
LEMMA ProcessExitStep ==
    ASSUME ControlInv, NEW e \in Epochs, ProcessExit(e)
    PROVE  ControlInv'
<1>1. /\ UNCHANGED <<up, epoch, current, lastSpec, quarantine, proven, life, supervised>>
      /\ UNCHANGED <<config, backup, fwd, status, pc, op, held, faults, kills>>
      /\ proc' = [proc EXCEPT ![e] = NoConfig] /\ KeepOrDropRecord(e)
      /\ crashes' = crashes \/ (crashes < MaxCrashes /\ crashes' = crashes + 1)
  BY Zenon DEF ProcessExit, ctrlVars, opVars
<1>2. /\ record' \in [Epochs -> BOOLEAN]
      /\ \A f \in Epochs : f # e => record'[f] = record[f]
  BY <1>1, RecordEffect, Zenon DEF ControlInv, TypeOK
<1>3. /\ proc' \in [Epochs -> Configs \cup {NoConfig}] /\ proc'[e] = NoConfig
      /\ \A f \in Epochs : f # e => proc'[f] = proc[f]
  BY <1>1, Zenon DEF ControlInv, TypeOK, InstTypeOK
<1>4. TypeOK'
  <2>1. CtrlTypeOK' /\ InstTypeOK'
    BY <1>1, Zenon DEF ControlInv, TypeOK, CtrlTypeOK, InstTypeOK
  <2>2. DiskTypeOK' /\ OpTypeOK' /\ CountersOK'
    BY <1>1, <1>2, BoundsAssumption
       DEF ControlInv, TypeOK, DiskTypeOK, OpTypeOK, CountersOK
  <2> QED BY <2>1, <2>2, Zenon DEF TypeOK
<1>5. StartsNothing /\ LiveHasRecord'
  BY <1>1, <1>2, <1>3, Zenon DEF StartsNothing, ControlInv, Processes, LiveHasRecord, Live
<1>6. \A f \in Epochs : proc'[f].full => proc[f].full
  BY <1>3, ConfigFacts, Zenon
<1> QED BY <1>1, <1>4, <1>5, <1>6, Background, Zenon

(* Only a supervised instance respawns, and only from its own file.        *)
LEMMA RespawnStep ==
    ASSUME ControlInv, NEW e \in Epochs, Respawn(e)
    PROVE  ControlInv'
<1>1. /\ UNCHANGED <<up, epoch, current, lastSpec, quarantine, proven, life, supervised>>
      /\ UNCHANGED <<config, backup, fwd, status, pc, op, held, crashes, faults, kills>>
      /\ supervised[e]
  BY Zenon DEF Respawn, ctrlVars, opVars
<1>2. /\ record' \in [Epochs -> BOOLEAN] /\ record'[e]
      /\ \A f \in Epochs : f # e => record'[f] = record[f]
  BY Zenon DEF Respawn, ControlInv, TypeOK, DiskTypeOK
<1>3. /\ proc' \in [Epochs -> Configs \cup {NoConfig}] /\ proc'[e] = config[e]
      /\ \A f \in Epochs : f # e => proc'[f] = proc[f]
  BY Zenon DEF Respawn, ControlInv, TypeOK, InstTypeOK, DiskTypeOK
<1>4. TypeOK'
  <2>1. CtrlTypeOK' /\ InstTypeOK'
    BY <1>1, <1>3, Zenon DEF ControlInv, TypeOK, CtrlTypeOK, InstTypeOK
  <2>2. DiskTypeOK' /\ OpTypeOK' /\ CountersOK'
    BY <1>1, <1>2, Zenon DEF ControlInv, TypeOK, DiskTypeOK, OpTypeOK, CountersOK
  <2> QED BY <2>1, <2>2, Zenon DEF TypeOK
<1>5. PointInv'
  BY <1>1, <1>3, PointsKept, Zenon DEF Live
<1>6. Ownership'
  BY <1>1, Zenon DEF ControlInv, Ownership, QuarantinedGone, SupervisedIsHeld, OwnedHasLife
<1>7. Processes'
  <2>1. e \notin quarantine
    BY <1>1, Zenon DEF ControlInv, Ownership, QuarantinedGone
  <2>2. ProvenDead'
    BY <1>1, <1>3, <2>1, Zenon DEF ControlInv, Processes, ProvenDead, TypeOK, CtrlTypeOK, Live
  <2> QED BY <1>1, <1>2, <1>3, <2>2,
            Zenon DEF ControlInv, Processes, LiveAllocated, LiveHasRecord, Live
<1>8. Control'
  BY <1>1, Zenon DEF ControlInv, Control, QuarantineWindow, DownIsEmpty, EpochsAllocated
<1> QED BY <1>4, <1>5, <1>6, <1>7, <1>8, Zenon DEF ControlInv

(* A dropped operation drops its instances, which ends their supervision.  *)
LEMMA DropOperationStep ==
    ASSUME ControlInv, DropOperation
    PROVE  ControlInv'
<1>1. /\ UNCHANGED <<up, epoch, current, lastSpec, quarantine, proven, life, proc>>
      /\ UNCHANGED <<config, record, backup, fwd, status, crashes, faults, kills>>
      /\ supervised' = [e \in Epochs |-> supervised[e] /\ e \notin held]
  BY Zenon DEF DropOperation, ctrlVars, disk
<1>2. /\ OpTypeOK' /\ PointInv' /\ QuarantineWindow' /\ held' = {} /\ pc' = "idle"
      /\ op'.new.epoch = 0 /\ op'.old.epoch = 0
  BY Finished, Zenon DEF DropOperation
<1>3. /\ supervised' \in [Epochs -> BOOLEAN]
      /\ \A e \in Epochs : supervised'[e] => supervised[e] /\ e \notin held
  BY <1>1, Zenon DEF ControlInv, TypeOK, InstTypeOK
<1>4. TypeOK'
  <2>1. CtrlTypeOK' /\ InstTypeOK'
    BY <1>1, Zenon DEF ControlInv, TypeOK, CtrlTypeOK, InstTypeOK
  <2>2. DiskTypeOK' /\ CountersOK'
    BY <1>1, Zenon DEF ControlInv, TypeOK, DiskTypeOK, CountersOK
  <2> QED BY <1>2, <2>1, <2>2, Zenon DEF TypeOK
<1>5. StartsNothing /\ NoNewOwner /\ LatchesReleased
  BY <1>1, <1>2, <1>3, Zenon DEF StartsNothing, NoNewOwner, LatchesReleased, Live
<1>6. SupervisedIsHeld' /\ LiveHasRecord'
  BY <1>1, <1>3,
    Zenon DEF ControlInv, Ownership, Processes, SupervisedIsHeld, LiveHasRecord, Live
<1>7. Control' /\ epoch <= epoch'
  BY <1>1, <1>2
     DEF ControlInv, TypeOK, CtrlTypeOK, Control, DownIsEmpty, EpochsAllocated
<1> QED BY <1>1, <1>2, <1>4, <1>5, <1>6, <1>7, Frame, Zenon

(* The service dies: its memory is gone, processes and files stay.         *)
LEMMA KillStep ==
    ASSUME ControlInv, Kill
    PROVE  ControlInv'
<1>1. /\ current' = NoRev /\ lastSpec' = NoSpec /\ quarantine' = {}
      /\ proven' = {} /\ fwd' = "none" /\ status' = [state |-> "Stopped", rev |-> NoRev]
      /\ UNCHANGED <<epoch, proc, config, record, backup, crashes, faults>>
      /\ kills < MaxKills /\ kills' = kills + 1
  BY Zenon DEF Kill, Publish, disk
<1>2. /\ life' = [e \in Epochs |-> "Absent"]
      /\ supervised' = [e \in Epochs |-> FALSE]
      /\ up' \in BOOLEAN /\ ~up'
  BY Zenon DEF Kill
<1>3. /\ OpTypeOK' /\ PointInv' /\ QuarantineWindow' /\ held' = {} /\ pc' = "idle"
      /\ op'.new.epoch = 0 /\ op'.old.epoch = 0
  BY Finished, Zenon DEF Kill
<1>4. TypeOK'
  <2>1. CtrlTypeOK'
    BY <1>1, <1>2, Zenon DEF ControlInv, TypeOK, CtrlTypeOK, CoreStates
  <2>2. InstTypeOK'
    BY <1>1, <1>2, Zenon DEF ControlInv, TypeOK, InstTypeOK, LifeStates
  <2>3. DiskTypeOK' /\ CountersOK'
    BY <1>1, BoundsAssumption DEF ControlInv, TypeOK, DiskTypeOK, CountersOK
  <2> QED BY <1>3, <2>1, <2>2, <2>3, Zenon DEF TypeOK
<1>5. Ownership'
  BY <1>1, <1>2, <1>3, Zenon DEF Ownership, QuarantinedGone, SupervisedIsHeld, OwnedHasLife
<1>6. Processes'
  BY <1>1, <1>2,
    Zenon DEF ControlInv, Processes, ProvenDead, LiveAllocated, LiveHasRecord, Live
<1>7. Control'
  BY <1>1, <1>3, RevFacts
     DEF ControlInv, TypeOK, CtrlTypeOK, Control, DownIsEmpty, EpochsAllocated
<1> QED BY <1>3, <1>4, <1>5, <1>6, <1>7, Zenon DEF ControlInv

(* A service that is down has no instances.                                *)
LEMMA Down ==
    ASSUME ControlInv, ~up
    PROVE  /\ pc = "idle" /\ op = NoOp /\ held = {}
           /\ current = NoRev /\ quarantine = {} /\ proven = {}
           /\ \A e \in Epochs : ~supervised[e]
<1>1. pc = "idle" /\ current = NoRev /\ quarantine = {} /\ op = NoOp /\ held = {}
  BY IdlePoint, Zenon DEF ControlInv, Control, DownIsEmpty
<1> QED BY <1>1, RevFacts, EpochFacts
           DEF ControlInv, Ownership, SupervisedIsHeld, Processes, ProvenDead

(* The sweep leaves no process: each had its record.                       *)
LEMMA ConstructStep ==
    ASSUME ControlInv, Construct
    PROVE  ControlInv'
<1>1. /\ UNCHANGED <<current, lastSpec, quarantine, proven, life, supervised, fwd, status>>
      /\ UNCHANGED <<pc, op, held, crashes, faults, kills>>
      /\ up' = TRUE /\ ~up
  BY Zenon DEF Construct, ctrlVars, opVars
<1>2. /\ pc = "idle" /\ op = NoOp /\ held = {} /\ current = NoRev /\ quarantine = {}
      /\ proven = {} /\ \A e \in Epochs : ~supervised[e]
  BY <1>1, Down, Zenon
<1>3. epoch' \in 0..MaxEpoch
  BY BoundsAssumption, EpochFacts DEF Construct, ArtifactEpochs
<1>4. \A e \in Epochs : proc'[e] = NoConfig
  BY Zenon DEF Construct, ControlInv, Processes, LiveHasRecord, Live
<1>5. TypeOK'
  <2>1. CtrlTypeOK'
    BY <1>1, <1>3, Zenon DEF ControlInv, TypeOK, CtrlTypeOK
  <2>2. proc' \in [Epochs -> Configs \cup {NoConfig}]
    BY Zenon DEF Construct, ControlInv, TypeOK, InstTypeOK
  <2>3. DiskTypeOK'
    BY BackupFacts, Zenon DEF Construct, DiskTypeOK
  <2>4. InstTypeOK' /\ OpTypeOK' /\ CountersOK'
    BY <1>1, <2>2, Zenon DEF ControlInv, TypeOK, InstTypeOK, OpTypeOK, CountersOK
  <2> QED BY <2>1, <2>3, <2>4, Zenon DEF TypeOK
<1>6. PointInv'
  BY <1>1, <1>2, Zenon DEF PointInv, AtIdle
<1>7. Ownership'
  BY <1>1, <1>2, Zenon DEF Ownership, QuarantinedGone, SupervisedIsHeld, OwnedHasLife
<1>8. Processes'
  BY <1>1, <1>2, <1>4, Zenon DEF Processes, ProvenDead, LiveAllocated, LiveHasRecord, Live
<1>9. Control'
  BY <1>1, <1>2, <1>3, OpFacts, RevFacts
     DEF Control, QuarantineWindow, DownIsEmpty, EpochsAllocated
<1> QED BY <1>5, <1>6, <1>7, <1>8, <1>9, Zenon DEF ControlInv

(* A failed sweep removes no record before its process is reaped.          *)
LEMMA ConstructFailsStep ==
    ASSUME ControlInv, NEW k \in Epochs, ConstructFails(k)
    PROVE  ControlInv'
<1>1. /\ UNCHANGED <<up, epoch, current, lastSpec, quarantine, proven, life, supervised>>
      /\ UNCHANGED <<fwd, status, pc, op, held, crashes, kills>>
      /\ ~up /\ faults < MaxFaults /\ faults' = faults + 1
  BY Zenon DEF ConstructFails, ctrlVars, opVars, Fault
<1>2. pc = "idle" /\ op = NoOp /\ held = {} /\ current = NoRev /\ quarantine = {}
  BY <1>1, Down, Zenon
<1>3. PICK reaped \in {k, k + 1} : \E dropped, unrecorded \in {k, reaped} :
        /\ proc' = [e \in Epochs |-> IF e < reaped /\ record[e] THEN NoConfig ELSE proc[e]]
        /\ config' = [e \in Epochs |-> IF e < dropped THEN NoConfig ELSE config[e]]
        /\ record' = [e \in Epochs |-> e >= unrecorded /\ record[e]]
  BY Zenon DEF ConstructFails
<1>4. PICK dropped \in {k, reaped}, unrecorded \in {k, reaped} :
        /\ proc' = [e \in Epochs |-> IF e < reaped /\ record[e] THEN NoConfig ELSE proc[e]]
        /\ config' = [e \in Epochs |-> IF e < dropped THEN NoConfig ELSE config[e]]
        /\ record' = [e \in Epochs |-> e >= unrecorded /\ record[e]]
  BY <1>3, Zenon
<1>5. /\ proc' \in [Epochs -> Configs \cup {NoConfig}]
      /\ \A e \in Epochs : proc'[e] = proc[e] \/ proc'[e] = NoConfig
  BY <1>4, Zenon DEF ControlInv, TypeOK, InstTypeOK
<1>6. DiskTypeOK'
  <2>1. record' \in [Epochs -> BOOLEAN]
    BY <1>4, Zenon
  <2>2. config' \in [Epochs -> Configs \cup {NoConfig}]
    BY <1>4, Zenon DEF ControlInv, TypeOK, DiskTypeOK
  <2>3. backup' \in [Epochs -> [Gens -> Configs \cup {NoConfig}]]
    BY BackupFacts, Zenon DEF ConstructFails, ControlInv, TypeOK, DiskTypeOK
  <2> QED BY <2>1, <2>2, <2>3, Zenon DEF DiskTypeOK
<1>7. LiveHasRecord'
  <2> SUFFICES ASSUME NEW e \in Epochs, Live(e)'
               PROVE  record'[e]
    BY Zenon DEF LiveHasRecord
  <2>1. Live(e) /\ record[e]
    BY <1>5, Zenon DEF ControlInv, Processes, LiveHasRecord, Live
  <2>2. ~(e < reaped)
    BY <1>4, <2>1, Zenon DEF Live
  <2>3. e >= unrecorded
    BY <2>2, EpochFacts
  <2> QED BY <1>4, <2>1, <2>3, Zenon
<1>8. StartsNothing /\ NoNewOwner /\ LatchesReleased
  BY <1>1, <1>5, Zenon DEF StartsNothing, NoNewOwner, LatchesReleased, Live
<1>9. TypeOK'
  <2>1. CtrlTypeOK' /\ InstTypeOK'
    BY <1>1, <1>5, Zenon DEF ControlInv, TypeOK, CtrlTypeOK, InstTypeOK
  <2>2. OpTypeOK' /\ CountersOK'
    BY <1>1, BoundsAssumption DEF ControlInv, TypeOK, OpTypeOK, CountersOK
  <2> QED BY <1>6, <2>1, <2>2, Zenon DEF TypeOK
<1>10. PointInv' /\ SupervisedIsHeld'
  BY <1>1, <1>2, Zenon DEF PointInv, AtIdle, ControlInv, Ownership, SupervisedIsHeld
<1>11. Control' /\ epoch <= epoch'
  BY <1>1
     DEF ControlInv, TypeOK, CtrlTypeOK, Control, QuarantineWindow, DownIsEmpty,
         EpochsAllocated
<1> QED BY <1>1, <1>7, <1>8, <1>9, <1>10, <1>11, Frame, Zenon

-----------------------------------------------------------------------------
(* What is published, as long as no fault has occurred.                    *)

(* Points at which the operation has taken the active instance, or still   *)
(* retains it.                                                             *)
TookPCs == {"launch", "staleStop", "startSpawn", "startReady", "startInstall",
            "startReject", "stopStale", "stopWait", "hardStop", "switchStop",
            "gStopOld", "gAbort", "gCommit", "gCommitFail", "gReconcile", "gInstall",
            "gReplaceStop", "replaceSpawn", "replaceReady", "replaceReject",
            "replaceInstall", "applyStop"}
RetainsPCs == {"hardPrepare", "gPrepare", "switchPrepare", "republish", "gSpawn",
               "gReady", "gReject", "applyCommit", "applyReconcile", "applyPublish",
               "replacePublish"}

(* Where the active instance is at each of them.                           *)
LEMMA PointsRetain ==
    ASSUME ControlInv
    PROVE  /\ pc \in TookPCs => current = NoRev
           /\ pc \in RetainsPCs => current \in Revs /\ current # NoRev
           /\ pc = "replacePublish" => current = ReplaceRev
<1>1. PointInv
  BY Zenon DEF ControlInv
<1>2. pc \in TookPCs => current = NoRev
  BY <1>1, Zenon DEF PointInv, TookPCs, AtLaunch, AtStaleStop, AtStartSpawn, AtStart,
       AtStop, AtStopFirst, AtStopOld, AtAbort, AtReconcile, AtCommit, AtReplaceSpawn,
       AtReplace, AtApplyStop, Took
<1>3. pc = "replacePublish" => current = ReplaceRev /\ current \in Revs
  BY <1>1, Zenon DEF PointInv, AtReplacePublish, Replaces, SameEpoch, AnotherEpoch,
       ReplaceRev
<1>4. pc \in RetainsPCs => current \in Revs
  BY <1>1, <1>3, Zenon DEF PointInv, RetainsPCs, AtPrepare, AtRepublish, AtOverlapSpawn,
       AtOverlap, AtApplyCommit, AtApply, Retains
<1> QED BY <1>2, <1>3, <1>4, RevFacts, Zenon

(* An operation that ends without a core has published Stopped.            *)
LEMMA EndsStopped ==
    ASSUME current' = NoRev, pc' = "idle", status'.state = "Stopped", quarantine' = {}
    PROVE  StatusNow'
BY Zenon DEF StatusNow, Published

(* An operation that ends with one has published its revision.             *)
LEMMA EndsPublished ==
    ASSUME current' # NoRev, pc' = "idle", status'.rev = current', quarantine' = {}
    PROVE  StatusNow'
BY Zenon DEF StatusNow, Published

(* Inside an operation that has published something nothing is claimed.    *)
LEMMA Underway ==
    ASSUME pc' \notin SettledPCs \cup {"stopStale", "recover", "gAbort"}, quarantine' = {}
    PROVE  StatusNow'
BY Zenon DEF StatusNow, Published, SettledPCs

(* A request is admitted from what was published.                          *)
LEMMA RequestStatus ==
    ASSUME ControlInv, StatusInv, faults' = 0, Request
    PROVE  StatusNow'
<1> USE FaultFree, PublishEffect
<1>1. ASSUME NEW d, Start(d) \/ Switch(d)
      PROVE  StatusNow'
  <2>1. pc = "idle" /\ faults = 0 /\ StatusNow /\ quarantine' = quarantine
    BY <1>1, Zenon DEF Start, Switch, Admitted, LaunchFresh, StatusInv, ctrlVars, NoFault
  <2>2. CASE pc' \in {"launch", "staleStop"}
    BY <2>1, <2>2, Underway, Zenon DEF SettledPCs, StatusNow
  <2>3. CASE pc' \notin {"launch", "staleStop"}
    <3>1. /\ pc' \in {"gPrepare", "hardPrepare"}
          /\ current' = current /\ status' = status /\ current # NoRev
      BY <1>1, <2>3, Zenon DEF Start, Switch, LaunchFresh, Goto, ctrlVars, Running
    <3> QED BY <2>1, <3>1, Zenon DEF StatusNow, Published, SettledPCs
  <2> QED BY <2>2, <2>3, Zenon
<1>2. ASSUME NEW d, NEW x, NEW class, ApplyConfig(d, x, class)
      PROVE  StatusNow'
  <2>1. /\ pc = "idle" /\ faults = 0 /\ quarantine' = quarantine
        /\ pc' \in {"switchPrepare", "applyCommit"}
        /\ current' = current /\ status' = status /\ current # NoRev
    BY <1>2, Zenon DEF ApplyConfig, Admitted, Goto, ctrlVars, Running, NoFault
  <2> QED BY <2>1, Zenon DEF StatusInv, StatusNow, Published, SettledPCs
<1>3. CASE Stop \/ Shutdown
  <2>1. faults = 0 /\ quarantine' = quarantine /\ pc' \in {"stopStale", "stopWait"}
    BY <1>3, Zenon DEF Stop, Shutdown, Goto, NoFault
  <2>2. pc' = "stopStale" => status'.state = "Stopped"
    BY <1>3, Zenon DEF Stop, Shutdown, Goto
  <2> QED BY <2>1, <2>2, Zenon DEF StatusInv, StatusNow, Published, SettledPCs
<1>4. ~RecoverQuarantine
  <2>1. RecoverQuarantine => faults = 0 /\ quarantine # {}
    BY Zenon DEF RecoverQuarantine, NoFault
  <2> QED BY <2>1, Zenon DEF StatusInv, StatusNow
<1> QED BY <1>1, <1>2, <1>3, <1>4, Zenon DEF Request, Restart

(* Launch, stop, and the ends of a hard switch.                            *)
LEMMA StartStatus ==
    ASSUME ControlInv, StatusInv, faults' = 0,
           \/ StaleStopped \/ Launch \/ StartSpawn \/ StartReady \/ StartInstall
           \/ StartReject \/ StopDone \/ HardPrepare \/ HardStopped \/ Republish
    PROVE  StatusNow'
<1> USE FaultFree, PublishEffect
<1>1. CASE StaleStopped
  <2>1. faults = 0 /\ pc' = "launch" /\ quarantine' = quarantine
    BY <1>1, Zenon DEF StaleStopped, CleanupOk, Goto
  <2> QED BY <2>1, Underway, Zenon DEF StatusInv, StatusNow, SettledPCs
<1>2. CASE Launch
  <2>1. /\ faults = 0 /\ quarantine' = quarantine /\ current' = NoRev
        /\ \/ pc' = "startSpawn"
           \/ pc' = "idle" /\ status'.state = "Stopped"
    <3>1. current = NoRev
      BY <1>2, PointsRetain, Zenon DEF Launch, TookPCs
    <3> QED BY <1>2, <3>1, Zenon DEF Launch, PrepareFailed, Goto, Finish, ctrlVars, NoFault
  <2> QED BY <2>1, Underway, EndsStopped, Zenon DEF StatusInv, StatusNow, SettledPCs
<1>3. CASE StartSpawn
  <2>1. /\ faults = 0 /\ quarantine' = quarantine /\ current' = NoRev
        /\ \/ pc' = "startReady"
           \/ pc' = "idle" /\ status'.state = "Stopped"
    <3>1. current = NoRev
      BY <1>3, PointsRetain, Zenon DEF StartSpawn, TookPCs
    <3> QED BY <1>3, <3>1, Zenon DEF StartSpawn, Cleanup, CleanupOk, Goto, Finish, ctrlVars, NoFault
  <2> QED BY <2>1, Underway, EndsStopped, Zenon DEF StatusInv, StatusNow, SettledPCs
<1>4. CASE StartReady
  <2>1. faults = 0 /\ pc' \in {"startInstall", "startReject"} /\ quarantine' = quarantine
    BY <1>4, Zenon DEF StartReady, Goto, ctrlVars, NoFault
  <2> QED BY <2>1, Underway, Zenon DEF StatusInv, StatusNow, SettledPCs
<1>5. CASE StartInstall
  <2>1. op.new \in Revs
    BY <1>5, Zenon DEF StartInstall, ControlInv, PointInv, AtStart, Holds
  <2>2. /\ faults = 0 /\ quarantine' = quarantine /\ current' = op.new
        /\ pc' = "idle" /\ status'.rev = op.new
    BY <1>5, Zenon DEF StartInstall, InstallNew, Finish, NoFault
  <2> QED BY <2>1, <2>2, RevFacts, EndsPublished, Zenon DEF StatusInv, StatusNow
<1>6. CASE StartReject
  <2>1. /\ faults = 0 /\ quarantine' = quarantine /\ current' = NoRev
        /\ pc' = "idle" /\ status'.state = "Stopped"
    <3>1. current = NoRev
      BY <1>6, PointsRetain, Zenon DEF StartReject, TookPCs
    <3> QED BY <1>6, <3>1, Zenon DEF StartReject, Cleanup, CleanupOk, Finish
  <2> QED BY <2>1, EndsStopped, Zenon DEF StatusInv, StatusNow
<1>7. CASE StopDone
  <2>1. current = NoRev /\ pc \in {"stopStale", "stopWait"}
    BY <1>7, PointsRetain, Zenon DEF StopDone, TookPCs
  <2>2. /\ faults = 0 /\ quarantine' = quarantine /\ current' = NoRev /\ pc' = "idle"
        /\ IF pc = "stopWait" THEN Publish("Stopped", NoRev) ELSE UNCHANGED status
    BY <1>7, <2>1, Zenon DEF StopDone, CleanupOk, Finish
  <2>3. StatusNow
    BY <2>2, Zenon DEF StatusInv
  <2>4. status'.state = "Stopped"
    BY <2>1, <2>2, <2>3, Zenon DEF StatusNow, Published
  <2> QED BY <2>2, <2>3, <2>4, EndsStopped, Zenon DEF StatusNow
<1>8. CASE HardPrepare
  <2>1. faults = 0 /\ pc' \in {"republish", "hardStop"} /\ quarantine' = quarantine
    BY <1>8, Zenon DEF HardPrepare, PrepareFailed, ReadRetained, Goto, NoFault
  <2> QED BY <2>1, Underway, Zenon DEF StatusInv, StatusNow, SettledPCs
<1>9. CASE HardStopped
  <2>1. faults = 0 /\ pc' = "startSpawn" /\ quarantine' = quarantine
    BY <1>9, Zenon DEF HardStopped, CleanupOk, Goto
  <2> QED BY <2>1, Underway, Zenon DEF StatusInv, StatusNow, SettledPCs
<1>10. CASE Republish
  <2>1. current # NoRev
    BY <1>10, PointsRetain, Zenon DEF Republish, RetainsPCs
  <2>2. /\ faults = 0 /\ quarantine' = quarantine /\ current' = current
        /\ pc' = "idle" /\ status'.rev = current
    BY <1>10, Zenon DEF Republish, Finish, ctrlVars, NoFault
  <2> QED BY <2>1, <2>2, EndsPublished, Zenon DEF StatusInv, StatusNow
<1> QED BY <1>1, <1>2, <1>3, <1>4, <1>5, <1>6, <1>7, <1>8, <1>9, <1>10, Zenon

(* The overlapping switch.                                                 *)
LEMMA GracefulStatus ==
    ASSUME ControlInv, StatusInv, faults' = 0,
           \/ GracefulPrepare \/ GracefulSpawn \/ GracefulReady \/ GracefulReject
           \/ GracefulOldStopped \/ GracefulAbort \/ GracefulCommit
           \/ GracefulCommitFailed \/ GracefulReconcile \/ GracefulInstall
           \/ GracefulReplaceStopped
    PROVE  StatusNow'
<1> USE FaultFree, PublishEffect
<1>1. CASE GracefulPrepare \/ GracefulSpawn \/ GracefulReject
  <2>1. /\ faults = 0 /\ quarantine' = quarantine
        /\ pc' \in {"republish", "gSpawn", "gReady"}
    BY <1>1, Zenon DEF GracefulPrepare, GracefulSpawn, GracefulReject, PrepareFailed,
         ReadRetained, Goto, NoFault, Cleanup, CleanupOk, ctrlVars
  <2> QED BY <2>1, Underway, Zenon DEF StatusInv, StatusNow, SettledPCs
<1>2. CASE GracefulReady \/ GracefulOldStopped \/ GracefulCommit
  <2>1. /\ faults = 0 /\ quarantine' = quarantine
        /\ pc' \in {"gStopOld", "gReject", "gCommit", "gReconcile"}
    BY <1>2, Zenon DEF GracefulReady, GracefulOldStopped, GracefulCommit, Goto, NoFault,
         ctrlVars
  <2> QED BY <2>1, Underway, Zenon DEF StatusInv, StatusNow, SettledPCs
<1>3. ~GracefulAbort
  <2>1. GracefulAbort => pc = "gAbort" /\ faults = 0
    BY Zenon DEF GracefulAbort, Cleanup, CleanupOk
  <2> QED BY <2>1, Zenon DEF StatusInv, StatusNow
<1>4. CASE GracefulCommitFailed
  <2>1. current = NoRev
    BY <1>4, PointsRetain, Zenon DEF GracefulCommitFailed, TookPCs
  <2>2. /\ faults = 0 /\ quarantine' = quarantine /\ current' = NoRev
        /\ pc' = "idle" /\ status'.state = "Stopped"
    BY <1>4, <2>1, Zenon DEF GracefulCommitFailed, Cleanup, CleanupOk, Finish
  <2> QED BY <2>2, EndsStopped, Zenon DEF StatusInv, StatusNow
<1>5. CASE GracefulReconcile \/ GracefulReplaceStopped
  <2>1. /\ faults = 0 /\ quarantine' = quarantine
        /\ pc' \in {"gInstall", "gReplaceStop", "replaceSpawn"}
    BY <1>5, Zenon DEF GracefulReconcile, GracefulReplaceStopped, Goto, NoFault, ctrlVars
  <2> QED BY <2>1, Underway, Zenon DEF StatusInv, StatusNow, SettledPCs
<1>6. CASE GracefulInstall
  <2>1. op.new \in Revs
    BY <1>6, Zenon DEF GracefulInstall, ControlInv, PointInv, AtReconcile, Holds
  <2>2. /\ faults = 0 /\ quarantine' = quarantine /\ current' = op.new
        /\ pc' = "idle" /\ status'.rev = op.new
    BY <1>6, Zenon DEF GracefulInstall, InstallNew, Finish, Cleanup, CleanupOk
  <2> QED BY <2>1, <2>2, RevFacts, EndsPublished, Zenon DEF StatusInv, StatusNow
<1> QED BY <1>1, <1>2, <1>3, <1>4, <1>5, <1>6, Zenon

(* The replacement and its rollbacks.                                      *)
LEMMA ReplaceStatus ==
    ASSUME ControlInv, StatusInv, faults' = 0,
           ReplaceSpawn \/ ReplaceReady \/ ReplaceReject \/ ReplaceInstall \/ ReplacePublish
    PROVE  StatusNow'
<1> USE FaultFree, PublishEffect
<1>1. ASSUME ReplaceFailed
      PROVE  /\ faults = 0
             /\ \/ pc' = "replaceSpawn"
                \/ pc' = "idle" /\ status'.state = "Stopped"
  BY <1>1, Zenon DEF ReplaceFailed, Cleanup, CleanupOk, Goto, Finish, NoFault
<1>2. CASE ReplaceSpawn \/ ReplaceReject
  <2>1. current = NoRev
    BY <1>2, PointsRetain, Zenon DEF ReplaceSpawn, ReplaceReject, TookPCs
  <2>2. /\ quarantine' = quarantine /\ current' = NoRev
        /\ ReplaceFailed \/ (pc' = "replaceReady" /\ faults = 0)
    BY <1>2, <2>1, Zenon DEF ReplaceSpawn, ReplaceReject, Goto, NoFault, ctrlVars
  <2> QED BY <1>1, <2>2, Underway, EndsStopped, Zenon DEF StatusInv, StatusNow, SettledPCs
<1>3. CASE ReplaceReady
  <2>1. /\ faults = 0 /\ quarantine' = quarantine
        /\ pc' \in {"replaceInstall", "replaceReject"}
    BY <1>3, Zenon DEF ReplaceReady, Goto, NoFault, ctrlVars
  <2> QED BY <2>1, Underway, Zenon DEF StatusInv, StatusNow, SettledPCs
<1>4. CASE ReplaceInstall
  <2>1. op.new \in Revs
    BY <1>4, Zenon DEF ReplaceInstall, ControlInv, PointInv, AtReplace, Replaces,
         SameEpoch, AnotherEpoch
  <2>2. /\ faults = 0 /\ quarantine' = quarantine
        /\ \/ pc' = "replacePublish"
           \/ pc' = "idle" /\ current' = op.new /\ status'.rev = op.new
    BY <1>4, Zenon DEF ReplaceInstall, InstallNew, Finish, Cleanup, CleanupOk, Goto, NoFault
  <2>3. quarantine' = {} /\ op.new # NoRev
    BY <2>1, <2>2, RevFacts, Zenon DEF StatusInv, StatusNow
  <2>4. CASE pc' = "replacePublish"
    BY <2>3, <2>4, Underway, Zenon DEF SettledPCs
  <2> QED BY <2>2, <2>3, <2>4, EndsPublished, Zenon
<1>5. CASE ReplacePublish
  <2>1. current # NoRev /\ current = ReplaceRev
    BY <1>5, PointsRetain, Zenon DEF ReplacePublish, RetainsPCs
  <2>2. /\ faults = 0 /\ quarantine' = quarantine /\ current' = current
        /\ pc' = "idle" /\ status'.rev = ReplaceRev
    BY <1>5, Zenon DEF ReplacePublish, RemoveBackup, Finish, Cleanup, CleanupOk, NoFault,
         ctrlVars
  <2> QED BY <2>1, <2>2, EndsPublished, Zenon DEF StatusInv, StatusNow
<1> QED BY <1>2, <1>3, <1>4, <1>5, Zenon

(* apply_config. A failed preparation leaves status and core as they were. *)
LEMMA ApplyStatus ==
    ASSUME ControlInv, StatusInv, faults' = 0,
           \/ ApplyCommit \/ ApplyReconcile \/ ApplyPublish \/ ApplyStopped
           \/ SwitchPrepare \/ SwitchStopped
    PROVE  StatusNow'
<1> USE FaultFree, PublishEffect
<1>1. CASE ApplyCommit \/ SwitchPrepare
  <2>1. current # NoRev /\ pc \in SettledPCs
    BY <1>1, PointsRetain, Zenon DEF ApplyCommit, SwitchPrepare, RetainsPCs, SettledPCs
  <2>2. /\ faults = 0 /\ quarantine' = quarantine
        /\ \/ pc' \in {"applyReconcile", "switchStop"}
           \/ pc' = "idle" /\ current' = current /\ status' = status
    BY <1>1, Zenon DEF ApplyCommit, SwitchPrepare, PrepareFailed, Goto, Finish, NoFault,
         ctrlVars
  <2>3. status.rev = current
    BY <2>1, <2>2, Zenon DEF StatusInv, StatusNow, Published
  <2> QED BY <2>1, <2>2, <2>3, Underway, EndsPublished,
            Zenon DEF StatusInv, StatusNow, SettledPCs
<1>2. CASE ApplyReconcile \/ ApplyStopped \/ SwitchStopped
  <2>1. /\ faults = 0 /\ quarantine' = quarantine
        /\ pc' \in {"applyPublish", "applyStop", "replaceSpawn"}
    BY <1>2, Zenon DEF ApplyReconcile, ApplyStopped, SwitchStopped, Goto, NoFault
  <2> QED BY <2>1, Underway, Zenon DEF StatusInv, StatusNow, SettledPCs
<1>3. CASE ApplyPublish
  <2>1. op.new \in Revs
    BY <1>3, Zenon DEF ApplyPublish, ControlInv, PointInv, AtApply, SameEpoch
  <2>2. /\ faults = 0 /\ quarantine' = quarantine /\ current' = op.new
        /\ pc' = "idle" /\ status'.rev = op.new
    BY <1>3, Zenon DEF ApplyPublish, RemoveBackup, Finish, NoFault
  <2> QED BY <2>1, <2>2, RevFacts, EndsPublished, Zenon DEF StatusInv, StatusNow
<1> QED BY <1>1, <1>2, <1>3, Zenon

(* Nothing outside the operations changes the revision that is published;  *)
(* the forwarder changes the state of an active core only.                 *)
LEMMA EnvironmentStatus ==
    ASSUME ControlInv, StatusInv, faults' = 0, ~CallerDrops, Environment
    PROVE  StatusNow'
<1> USE FaultFree, PublishEffect
<1>1. CASE Kill
  BY <1>1, EndsStopped, Zenon DEF Kill, Finish
<1>2. ASSUME UNCHANGED <<pc, current, quarantine, status, faults>>
      PROVE  StatusNow'
  BY <1>2, Zenon DEF StatusInv, StatusNow, Published
<1>3. CASE Construct
  BY <1>2, <1>3, Zenon DEF Construct, ctrlVars, opVars
<1>4. CASE Forward
  <2>1. /\ UNCHANGED <<pc, current, quarantine, faults>>
        /\ current # NoRev /\ pc = "stopStale" => current = NoRev
    BY <1>4, PointsRetain, Zenon DEF Forward, ctrlVars, opVars, TookPCs
  <2>2. status \in [state : CoreStates, rev : Revs \cup {NoRev}]
    BY Zenon DEF ControlInv, TypeOK, CtrlTypeOK
  <2>3. status'.rev = status.rev
    BY <1>4, <2>2 DEF Forward
  <2> QED BY <1>4, <2>1, <2>3, Zenon DEF Forward, StatusInv, StatusNow, Published
<1>5. ASSUME NEW e \in Epochs,
             \/ ConstructFails(e) \/ InstanceReady(e) \/ InstanceRestarting(e)
             \/ Respawn(e) \/ InstanceStopped(e) \/ ProcessExit(e)
      PROVE  StatusNow'
  <2>1. UNCHANGED <<pc, current, quarantine, status, faults>>
    BY <1>5, Zenon DEF ConstructFails, InstanceReady, InstanceRestarting, Respawn,
         InstanceStopped, ProcessExit, ctrlVars, opVars
  <2> QED BY <1>2, <2>1, Zenon
<1> QED BY <1>1, <1>3, <1>4, <1>5, Zenon DEF Environment, DropOperation

(* StatusInv is inductive, with ControlInv.                                *)
LEMMA NextStatus ==
    ASSUME ControlInv, StatusInv, ~CallerDrops, [Next]_vars
    PROVE  StatusInv'
<1> SUFFICES ASSUME faults' = 0
             PROVE  StatusNow'
  BY Zenon DEF StatusInv
<1>1. CASE (\E e \in Epochs : RecoverEntry(e)) \/ RecoverDone
  <2>1. pc = "recover" /\ faults = 0
    BY <1>1, FaultFree, Zenon DEF RecoverEntry, RecoverDone, CleanupOk, NoFault
  <2> QED BY <2>1, Zenon DEF StatusInv, StatusNow
<1>2. CASE UNCHANGED vars
  BY <1>2, Zenon DEF vars, ctrlVars, opVars, StatusInv, StatusNow, Published
<1> QED BY <1>1, <1>2, RequestStatus, StartStatus, GracefulStatus, ReplaceStatus,
          ApplyStatus, EnvironmentStatus, Zenon DEF Next, OperationStep
=============================================================================
