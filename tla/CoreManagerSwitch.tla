------------------------- MODULE CoreManagerSwitch --------------------------
(***************************************************************************)
(* ControlInv is preserved by the steps of a switch, through a stop or     *)
(* through an overlapping successor, by the steps of a replacement, and by *)
(* those of apply_config.                                                  *)
(***************************************************************************)
EXTENDS CoreManagerInv

USE Z3T(60), SMTT(60), ZenonT(20)

-----------------------------------------------------------------------------
(* A switch through a stop.                                                *)

(* A failed preparation goes back to the retained core.                    *)
LEMMA PrepareFails ==
    ASSUME ControlInv, pc \in {"hardPrepare", "gPrepare"}, AtPrepare, NextEpoch,
           NEW c \in Configs, PrepareFailed(epoch + 1, c), ReadRetained,
           UNCHANGED <<up, current, lastSpec, quarantine, proven, fwd, status, held>>,
           UNCHANGED <<life, supervised, proc, record, backup, crashes, kills>>
    PROVE  ControlInv'
<1>1. current \in Revs /\ held = {} /\ up /\ op \in Ops /\ epoch \in Nat
  BY InFlight, Zenon DEF AtPrepare, Retains
<1>2. epoch + 1 \in Epochs /\ epoch' = epoch + 1 /\ epoch' \in 0..MaxEpoch
  BY FreshEpoch, Zenon
<1>3. /\ op' \in Ops /\ op'.seen # "Absent" /\ op'.new = op.new /\ op'.old = op.old
      /\ pc' = "republish"
  BY <1>1, RetainedEffect, Zenon
<1>4. /\ config' \in [Epochs -> Configs \cup {NoConfig}]
      /\ faults' = faults \/ (faults < MaxFaults /\ faults' = faults + 1)
  BY <1>2, PrepareFailedEffect, Zenon DEF ControlInv, TypeOK
<1>5. TypeOK'
  <2>1. CtrlTypeOK' /\ InstTypeOK'
    BY <1>2, Zenon DEF ControlInv, TypeOK, CtrlTypeOK, InstTypeOK
  <2>2. DiskTypeOK' /\ OpTypeOK' /\ CountersOK'
    BY <1>3, <1>4, BoundsAssumption
       DEF ControlInv, TypeOK, DiskTypeOK, OpTypeOK, PCs, CountersOK
  <2> QED BY <2>1, <2>2, Zenon DEF TypeOK
<1>6. PointInv'
  BY <1>1, <1>3, Zenon DEF PointInv, AtRepublish, Retains
<1>7. Control'
  BY <1>2, <1>3, InFlight DEF Control, QuarantineWindow, DownIsEmpty, EpochsAllocated
<1> QED BY <1>1, <1>2, <1>5, <1>6, <1>7, Steady

(* A hard switch takes the old core out only once the new configuration    *)
(* is on disk.                                                             *)
LEMMA HardPrepareStep ==
    ASSUME ControlInv, HardPrepare
    PROVE  ControlInv'
<1> DEFINE r == Rev(epoch + 1, 1, op.spec)
<1>1. pc = "hardPrepare" /\ AtPrepare /\ NextEpoch /\ op.spec \in Specs
  BY Zenon DEF HardPrepare, ControlInv, PointInv, AtPrepare
<1>2. /\ r \in Revs /\ r.epoch = epoch + 1 /\ Full(r.spec) \in Configs
  BY <1>1, FreshEpoch, ConfigFacts, Zenon
<1>3. UNCHANGED <<up, lastSpec, quarantine, proven, supervised, proc, record, backup,
                  crashes, kills>>
  BY Zenon DEF HardPrepare
<1> HIDE DEF r
<1>4. CASE /\ PrepareFailed(r.epoch, Full(r.spec)) /\ ReadRetained
           /\ UNCHANGED <<current, fwd, life, status, held>>
  BY <1>1, <1>2, <1>3, <1>4, PrepareFails, Zenon
<1>5. CASE /\ config' = [config EXCEPT ![r.epoch] = Full(r.spec)]
           /\ status' = [state |-> "Switching", rev |-> r]
           /\ op' = [op EXCEPT !.new = r, !.old = current]
           /\ held' = {current.epoch} /\ TakeCurrent /\ BeginStop(current.epoch)
           /\ pc' = "hardStop" /\ UNCHANGED faults
  <2>1. status' \in [state : CoreStates, rev : Revs \cup {NoRev}]
    BY <1>2, <1>5, Zenon DEF CoreStates
  <2> QED BY <1>1, <1>2, <1>3, <1>5, <2>1, TakesForStop, Zenon
<1> QED BY <1>4, <1>5, Zenon DEF HardPrepare, Publish, Goto, r

(* The old epoch is confirmed dead before the new one is spawned, or       *)
(* quarantined.                                                            *)
LEMMA HardStoppedStep ==
    ASSUME ControlInv, HardStopped
    PROVE  ControlInv'
<1>1. pc = "hardStop" /\ AtStopFirst
  BY Zenon DEF HardStopped, ControlInv, PointInv
<1>2. /\ held = {op.old.epoch} /\ op.old.epoch \in Epochs /\ op.old.epoch # current.epoch
      /\ current = NoRev /\ op.new \in Revs /\ op.new.epoch \in Epochs /\ ~Live(op.new.epoch)
      /\ op.new.epoch # op.old.epoch
  BY <1>1, RevFacts, EpochFacts DEF AtStopFirst, Took, Holds, AnotherEpoch, Dead
<1>3. up /\ UNCHANGED <<up, epoch, current, lastSpec, fwd, crashes, kills>>
  BY InFlight, Zenon DEF HardStopped
<1>4. InstTypeOK /\ DiskTypeOK
  BY Zenon DEF ControlInv, TypeOK
<1>5. CASE /\ Unconfirmed(op.old.epoch) /\ DropConfig(op.new.epoch)
           /\ LatchQuarantine({op.old.epoch}) /\ UNCHANGED <<record, backup>>
  <2>1. DiskTypeOK'
    BY <1>2, <1>4, <1>5, DropConfigEffect, Zenon DEF DiskTypeOK
  <2> QED BY <1>2, <1>3, <1>5, <2>1, Latched, Zenon
<1>6. CASE /\ ConfirmedDead(op.old.epoch) /\ CleanupErr(op.old.epoch)
           /\ PublishTerminalError /\ Finish /\ UNCHANGED <<quarantine, proven>>
  <2>1. status' \in [state : CoreStates, rev : Revs \cup {NoRev}]
    BY <1>6, Zenon DEF PublishTerminalError, Publish, CoreStates
  <2> QED BY <1>2, <1>3, <1>4, <1>6, <2>1, CleanupErrEffect, Ended, Zenon
<1>7. CASE /\ ConfirmedDead(op.old.epoch) /\ CleanupOk(op.old.epoch)
           /\ status' = [state |-> "Starting", rev |-> op.new]
           /\ pc' = "startSpawn" /\ held' = {} /\ UNCHANGED <<op, quarantine, proven>>
  <2>1. /\ DiskTypeOK' /\ faults' = faults
        /\ \A f \in Epochs : f # op.old.epoch => record'[f] = record[f]
    BY <1>2, <1>4, <1>7, CleanupOkEffect, Zenon
  <2>2. InstTypeOK' /\ proc'[op.new.epoch] = proc[op.new.epoch]
    BY <1>2, <1>4, <1>7, DeadEffect, Zenon
  <2>3. TypeOK'
    <3>1. CtrlTypeOK' /\ CountersOK'
      BY <1>2, <1>3, <1>7, <2>1,
        Zenon DEF ControlInv, TypeOK, CtrlTypeOK, CountersOK, CoreStates
    <3>2. OpTypeOK'
      BY <1>7, Zenon DEF ControlInv, TypeOK, OpTypeOK, PCs
    <3> QED BY <2>1, <2>2, <3>1, <3>2, Zenon DEF TypeOK
  <2>4. PointInv'
    BY <1>2, <1>3, <1>7, <2>2, Zenon DEF PointInv, AtStartSpawn, Took, Dead, Live
  <2>5. Control'
    BY <1>1, <1>3, <1>7,
      Zenon DEF ControlInv, Control, QuarantineWindow, DownIsEmpty, EpochsAllocated
  <2> QED BY <1>2, <1>3, <1>7, <2>1, <2>3, <2>4, <2>5, Released, Zenon
<1> QED BY <1>5, <1>6, <1>7, Zenon DEF HardStopped, Publish, Goto

-----------------------------------------------------------------------------
(* A switch to an overlapping successor.                                   *)

(* A graceful switch prepares the next epoch beside the old core.          *)
LEMMA GracefulPrepareStep ==
    ASSUME ControlInv, GracefulPrepare
    PROVE  ControlInv'
<1> DEFINE r == Rev(epoch + 1, 1, op.spec)
<1>1. /\ pc = "gPrepare" /\ AtPrepare /\ NextEpoch /\ op.spec \in Specs
      /\ current \in Revs /\ held = {}
  BY Zenon DEF GracefulPrepare, ControlInv, PointInv, AtPrepare, Retains
<1>2. /\ r \in Revs /\ r.epoch = epoch + 1 /\ Bootstrap(r.spec) \in Configs
      /\ Bootstrap(r.spec).full = FALSE
      /\ epoch + 1 \in Epochs /\ ~Live(epoch + 1) /\ current.epoch # epoch + 1
      /\ epoch' = epoch + 1 /\ epoch' \in 0..MaxEpoch
  BY <1>1, FreshEpoch, ConfigFacts, Zenon
<1>3. /\ UNCHANGED <<up, current, lastSpec, quarantine, proven, fwd, held>>
      /\ UNCHANGED <<life, supervised, proc, record, backup, crashes, kills>>
  BY Zenon DEF GracefulPrepare, ctrlVars, inst
<1> HIDE DEF r
<1>4. CASE PrepareFailed(r.epoch, Bootstrap(r.spec)) /\ ReadRetained /\ UNCHANGED status
  BY <1>1, <1>2, <1>3, <1>4, PrepareFails, Zenon
<1>5. CASE /\ config' = [config EXCEPT ![r.epoch] = Bootstrap(r.spec)]
           /\ status' = [state |-> "Switching", rev |-> r]
           /\ op' = [op EXCEPT !.new = r]
           /\ pc' = "gSpawn" /\ UNCHANGED faults
  <2>1. /\ up /\ epoch \in Nat /\ current.epoch \in Nat /\ current.epoch <= epoch
        /\ op \in Ops /\ op.old.epoch \in Nat /\ op.old.epoch <= epoch /\ quarantine = {}
    BY <1>1, InFlight, Zenon
  <2>2. op' \in Ops /\ op'.new = r /\ op'.old = op.old
    BY <1>2, <1>5, <2>1, Zenon DEF Ops
  <2>3. TypeOK'
    <3>1. CtrlTypeOK' /\ InstTypeOK'
      BY <1>2, <1>3, <1>5, Zenon DEF ControlInv, TypeOK, CtrlTypeOK, InstTypeOK, CoreStates
    <3>2. DiskTypeOK'
      BY <1>2, <1>3, <1>5, Zenon DEF ControlInv, TypeOK, DiskTypeOK
    <3>3. OpTypeOK' /\ CountersOK'
      BY <1>3, <1>5, <2>2, Zenon DEF ControlInv, TypeOK, OpTypeOK, PCs, CountersOK
    <3> QED BY <3>1, <3>2, <3>3, Zenon DEF TypeOK
  <2>4. config'[r.epoch] = Bootstrap(r.spec) /\ ~proc'[r.epoch].full
    BY <1>2, <1>3, <1>5, ConfigFacts, Zenon DEF ControlInv, TypeOK, DiskTypeOK, Live
  <2>5. PointInv'
    BY <1>1, <1>2, <1>3, <1>5, <2>2, <2>4,
      Zenon DEF PointInv, AtOverlapSpawn, Retains, Dead, Bootstrapped, Live
  <2>6. Control'
    BY <1>2, <1>3, <2>1, <2>2 DEF Control, QuarantineWindow, DownIsEmpty, EpochsAllocated
  <2> QED BY <1>2, <1>3, <2>1, <2>3, <2>5, <2>6, Steady
<1> QED BY <1>4, <1>5, Zenon DEF GracefulPrepare, Publish, Goto, r

(* The second core is spawned under its own epoch, with its pid record.    *)
LEMMA GracefulSpawnStep ==
    ASSUME ControlInv, GracefulSpawn
    PROVE  ControlInv'
<1>1. pc = "gSpawn" /\ AtOverlapSpawn
  BY Zenon DEF GracefulSpawn, ControlInv, PointInv
<1>2. /\ current \in Revs /\ held = {} /\ op.new \in Revs /\ op.new.epoch \in Epochs
      /\ ~Live(op.new.epoch) /\ op.new.epoch # current.epoch
      /\ ~config[op.new.epoch].full
  BY <1>1, RevFacts, Zenon DEF AtOverlapSpawn, Retains, Dead, Bootstrapped
<1>3. up /\ quarantine = {} /\ op.new.epoch <= epoch /\ epoch \in Nat /\ op \in Ops
  BY <1>1, InFlight, Zenon
<1>4. UNCHANGED <<up, epoch, current, lastSpec, quarantine, proven, fwd, status, crashes,
                  kills>>
  BY Zenon DEF GracefulSpawn, ctrlVars
<1>5. CASE /\ SpawnInstance(op.new.epoch) /\ pc' = "gReady" /\ held' = {op.new.epoch}
           /\ UNCHANGED <<op, config, backup, faults>>
  <2>1. proc'[op.new.epoch] = config[op.new.epoch]
    BY <1>2, <1>5, SpawnEffect, Zenon DEF ControlInv, TypeOK
  <2>2. PointInv'
    BY <1>2, <1>4, <1>5, <2>1, Zenon DEF PointInv, AtOverlap, Holds, Bootstrapped
  <2> QED BY <1>2, <1>3, <1>4, <1>5, <2>2, Spawns, Zenon
<1>6. CASE Cleanup(op.new.epoch) /\ ReadRetained /\ UNCHANGED <<inst, held>>
  <2>1. /\ DiskTypeOK' /\ \A f \in Epochs : f # op.new.epoch => record'[f] = record[f]
        /\ faults' = faults \/ (faults < MaxFaults /\ faults' = faults + 1)
    BY <1>2, <1>6, CleanupEffect, Zenon DEF ControlInv, TypeOK
  <2>2. UNCHANGED <<life, supervised, proc, held>>
    BY <1>6, Zenon DEF inst
  <2>3. LiveHasRecord' /\ \A e \in Epochs : Live(e)' => Live(e)
    BY <1>2, <2>1, <2>2, Zenon DEF ControlInv, Processes, LiveHasRecord, Live
  <2>4. /\ op' \in Ops /\ op'.seen # "Absent" /\ op'.new = op.new /\ op'.old = op.old
        /\ pc' = "republish"
    BY <1>2, <1>3, <1>6, RetainedEffect, Zenon
  <2>5. TypeOK'
    <3>1. CtrlTypeOK' /\ InstTypeOK'
      BY <1>4, <2>2, Zenon DEF ControlInv, TypeOK, CtrlTypeOK, InstTypeOK
    <3>2. OpTypeOK' /\ CountersOK'
      BY <1>4, <2>1, <2>2, <2>4, BoundsAssumption
         DEF ControlInv, TypeOK, OpTypeOK, PCs, CountersOK
    <3> QED BY <2>1, <3>1, <3>2, Zenon DEF TypeOK
  <2>6. PointInv'
    BY <1>2, <1>4, <2>2, <2>4, Zenon DEF PointInv, AtRepublish, Retains
  <2>7. Control'
    BY <1>3, <1>4, <2>4,
      Zenon DEF ControlInv, Control, QuarantineWindow, DownIsEmpty, EpochsAllocated
  <2> QED BY <1>3, <1>4, <2>2, <2>3, <2>5, <2>6, <2>7, Passed
<1> QED BY <1>5, <1>6, Zenon DEF GracefulSpawn, Goto

(* When the second core is ready the old one is taken out and both are     *)
(* held.                                                                   *)
LEMMA GracefulReadyStep ==
    ASSUME ControlInv, GracefulReady
    PROVE  ControlInv'
<1>1. pc = "gReady" /\ AtOverlap
  BY Zenon DEF GracefulReady, ControlInv, PointInv
<1>2. /\ current \in Revs /\ current.epoch \in Epochs /\ op.new \in Revs
      /\ held = {op.new.epoch} /\ op.new.epoch # current.epoch /\ Bootstrapped(op.new)
  BY <1>1, RevFacts, Zenon DEF AtOverlap, Holds
<1>3. up /\ quarantine = {} /\ op \in Ops /\ epoch \in Nat
  BY <1>1, InFlight, Zenon
<1>4. /\ UNCHANGED <<up, epoch, lastSpec, quarantine, proven, supervised, proc, status>>
      /\ UNCHANGED <<config, record, backup, crashes, faults, kills>>
  BY Zenon DEF GracefulReady, disk
<1>5. \/ /\ op' = [op EXCEPT !.old = current] /\ held' = held \cup {current.epoch}
         /\ current' = NoRev /\ fwd' = "none" /\ BeginStop(current.epoch)
         /\ pc' = "gStopOld"
      \/ pc' = "gReject" /\ UNCHANGED <<op, held, current, fwd, life>>
  BY Zenon DEF GracefulReady, TakeCurrent, Goto
<1>6. /\ op' \in Ops /\ op'.new = op.new
      /\ op' = op \/ op'.old = current
      /\ pc' = "gStopOld" => op'.old = current
  BY <1>2, <1>3, <1>5, Zenon DEF Ops
<1>7. /\ life' \in [Epochs -> LifeStates]
      /\ \A e \in Epochs : life'[e] = "Absent" => life[e] = "Absent"
  BY <1>2, <1>5, BeginStopEffect, Zenon DEF ControlInv, TypeOK, InstTypeOK
<1>8. TypeOK'
  <2>1. CtrlTypeOK' /\ InstTypeOK'
    BY <1>4, <1>5, <1>7, Zenon DEF ControlInv, TypeOK, CtrlTypeOK, InstTypeOK
  <2>2. DiskTypeOK' /\ CountersOK'
    BY <1>4, Zenon DEF ControlInv, TypeOK, DiskTypeOK, CountersOK
  <2>3. OpTypeOK'
    BY <1>2, <1>5, <1>6, Zenon DEF ControlInv, TypeOK, OpTypeOK, PCs
  <2> QED BY <2>1, <2>2, <2>3, Zenon DEF TypeOK
<1>9. PointInv'
  <2>1. CASE pc' = "gStopOld"
    BY <1>2, <1>4, <1>5, <1>6, <2>1
       DEF PointInv, AtStopOld, Took, AnotherEpoch, Bootstrapped
  <2>2. CASE pc' = "gReject"
    BY <1>2, <1>4, <1>5, <2>2, Zenon DEF PointInv, AtOverlap, Holds, Bootstrapped
  <2> QED BY <1>5, <2>1, <2>2, Zenon
<1>10. Control'
  BY <1>1, <1>4, <1>5, <1>6, InFlight, RevFacts
     DEF Control, QuarantineWindow, DownIsEmpty, EpochsAllocated
<1>11. \A e \in Epochs : e = current'.epoch \/ e \in held'
                            <=> e = current.epoch \/ e \in held
  BY <1>5, RevFacts, EpochFacts
<1>12. LiveHasRecord' /\ \A e \in Epochs : Live(e)' => Live(e)
  BY <1>4, Zenon DEF ControlInv, Processes, LiveHasRecord, Live
<1> QED BY <1>3, <1>4, <1>7, <1>8, <1>9, <1>10, <1>11, <1>12, Passed

(* A second core that failed is stopped or quarantined; the old one        *)
(* serves on.                                                              *)
LEMMA GracefulRejectStep ==
    ASSUME ControlInv, GracefulReject
    PROVE  ControlInv'
<1>1. pc = "gReject" /\ AtOverlap
  BY Zenon DEF GracefulReject, ControlInv, PointInv
<1>2. /\ current \in Revs /\ op.new.epoch \in Epochs
      /\ held = {op.new.epoch} /\ op.new.epoch # current.epoch
  BY <1>1, RevFacts, Zenon DEF AtOverlap, Holds
<1>3. up /\ quarantine = {} /\ op \in Ops
  BY <1>1, InFlight, Zenon
<1>4. UNCHANGED <<up, epoch, current, lastSpec, fwd, crashes, kills>>
  BY Zenon DEF GracefulReject
<1>5. InstTypeOK /\ DiskTypeOK
  BY Zenon DEF ControlInv, TypeOK
<1>6. CASE Unconfirmed(op.new.epoch) /\ LatchQuarantine({op.new.epoch}) /\ UNCHANGED disk
  BY <1>2, <1>3, <1>4, <1>5, <1>6, Latched, Zenon DEF disk, DiskTypeOK
<1>7. CASE /\ ConfirmedDead(op.new.epoch) /\ Cleanup(op.new.epoch) /\ ReadRetained
           /\ held' = {} /\ UNCHANGED <<quarantine, proven, status>>
  <2>1. /\ DiskTypeOK' /\ \A f \in Epochs : f # op.new.epoch => record'[f] = record[f]
        /\ faults' = faults \/ (faults < MaxFaults /\ faults' = faults + 1)
    BY <1>2, <1>5, <1>7, CleanupEffect, Zenon
  <2>2. /\ op' \in Ops /\ op'.seen # "Absent" /\ op'.new = op.new /\ op'.old = op.old
        /\ pc' = "republish"
    BY <1>2, <1>3, <1>7, RetainedEffect, Zenon
  <2>3. TypeOK'
    <3>1. CtrlTypeOK' /\ InstTypeOK'
      BY <1>2, <1>4, <1>7, DeadEffect, Zenon DEF ControlInv, TypeOK, CtrlTypeOK
    <3>2. OpTypeOK' /\ CountersOK'
      BY <1>4, <1>7, <2>1, <2>2, BoundsAssumption
         DEF ControlInv, TypeOK, OpTypeOK, PCs, CountersOK
    <3> QED BY <2>1, <3>1, <3>2, Zenon DEF TypeOK
  <2>4. PointInv'
    BY <1>2, <1>4, <1>7, <2>2, Zenon DEF PointInv, AtRepublish, Retains
  <2>5. Control'
    BY <1>3, <1>4, <1>7, <2>2,
      Zenon DEF ControlInv, Control, QuarantineWindow, DownIsEmpty, EpochsAllocated
  <2> QED BY <1>2, <1>4, <1>7, <2>1, <2>3, <2>4, <2>5, Released, Zenon
<1> QED BY <1>6, <1>7, Zenon DEF GracefulReject

(* The old core is confirmed dead, or both are given up.                   *)
LEMMA GracefulOldStoppedStep ==
    ASSUME ControlInv, GracefulOldStopped
    PROVE  ControlInv'
<1>1. pc = "gStopOld" /\ AtStopOld
  BY Zenon DEF GracefulOldStopped, ControlInv, PointInv
<1>2. /\ current = NoRev /\ held = {op.old.epoch, op.new.epoch}
      /\ op.old \in Revs /\ op.old.epoch \in Epochs /\ op.old.epoch # current.epoch
      /\ op.new \in Revs /\ op.new.epoch \in Epochs /\ op.new.epoch # op.old.epoch
      /\ Bootstrapped(op.new)
  BY <1>1, RevFacts, EpochFacts DEF AtStopOld, Took, AnotherEpoch
<1>3. /\ UNCHANGED <<up, epoch, current, lastSpec, quarantine, proven, config, backup>>
      /\ UNCHANGED <<fwd, status, op, crashes, kills>>
  BY Zenon DEF GracefulOldStopped, ctrlVars
<1>4. InstTypeOK /\ DiskTypeOK /\ epoch \in Nat
  BY <1>1, InFlight, Zenon DEF ControlInv, TypeOK
<1>5. CASE /\ ConfirmedDead(op.old.epoch) /\ KeepOrDropRecord(op.old.epoch)
           /\ held' = {op.new.epoch} /\ pc' = "gCommit" /\ UNCHANGED faults
  <2>1. /\ InstTypeOK' /\ proc'[op.old.epoch] = NoConfig
        /\ proc'[op.new.epoch] = proc[op.new.epoch]
    BY <1>2, <1>4, <1>5, DeadEffect, Zenon
  <2>2. /\ record' \in [Epochs -> BOOLEAN]
        /\ \A f \in Epochs : f # op.old.epoch => record'[f] = record[f]
    BY <1>2, <1>4, <1>5, RecordEffect, Zenon
  <2>3. TypeOK'
    <3>1. CtrlTypeOK' /\ DiskTypeOK'
      BY <1>3, <2>2, Zenon DEF ControlInv, TypeOK, CtrlTypeOK, DiskTypeOK
    <3>2. OpTypeOK' /\ CountersOK'
      BY <1>2, <1>3, <1>5, Zenon DEF ControlInv, TypeOK, OpTypeOK, PCs, CountersOK
    <3> QED BY <2>1, <3>1, <3>2, Zenon DEF TypeOK
  <2>4. PointInv'
    BY <1>2, <1>3, <1>5, <2>1,
      Zenon DEF PointInv, AtCommit, AtReconcile, Took, Holds, AnotherEpoch, Dead,
           Bootstrapped, Live
  <2>5. Control'
    BY <1>1, <1>3,
      Zenon DEF ControlInv, Control, QuarantineWindow, DownIsEmpty, EpochsAllocated
  <2>6. op.old.epoch \in held /\ held' = held \ {op.old.epoch}
    BY <1>2, <1>5, Zenon
  <2> QED BY <1>2, <1>3, <1>5, <2>2, <2>3, <2>4, <2>5, Released, Zenon
<1>6. CASE /\ Fault /\ supervised' = [supervised EXCEPT ![op.old.epoch] = FALSE]
           /\ BeginStop(op.new.epoch) /\ pc' = "gAbort" /\ UNCHANGED <<proc, record, held>>
  <2>1. /\ life' \in [Epochs -> LifeStates]
        /\ \A e \in Epochs : life'[e] = "Absent" => life[e] = "Absent"
    BY <1>2, <1>4, <1>6, BeginStopEffect, Zenon
  <2>2. /\ supervised' \in [Epochs -> BOOLEAN] /\ ~supervised'[op.old.epoch]
        /\ \A e \in Epochs : supervised'[e] => supervised[e]
    BY <1>2, <1>4, <1>6, Zenon DEF InstTypeOK
  <2>3. TypeOK'
    <3>1. CtrlTypeOK' /\ InstTypeOK'
      BY <1>3, <1>6, <2>1, <2>2, Zenon DEF ControlInv, TypeOK, CtrlTypeOK, InstTypeOK
    <3>2. DiskTypeOK' /\ OpTypeOK' /\ CountersOK'
      BY <1>3, <1>6, BoundsAssumption
         DEF ControlInv, TypeOK, DiskTypeOK, OpTypeOK, PCs, CountersOK, Fault
    <3> QED BY <3>1, <3>2, Zenon DEF TypeOK
  <2>4. PointInv'
    BY <1>2, <1>3, <1>6, <2>2,
      Zenon DEF PointInv, AtAbort, AtStopOld, Took, AnotherEpoch, Bootstrapped
  <2>5. Control'
    BY <1>1, <1>3,
      Zenon DEF ControlInv, Control, QuarantineWindow, DownIsEmpty, EpochsAllocated
  <2>6. StartsNothing /\ NoNewOwner /\ LatchesReleased
    BY <1>3, <1>6, <2>1 DEF StartsNothing, NoNewOwner, LatchesReleased, Live
  <2>7. SupervisedIsHeld' /\ LiveHasRecord'
    BY <1>3, <1>6
       DEF ControlInv, Ownership, Processes, SupervisedIsHeld, LiveHasRecord, Live
  <2> QED BY <1>3, <1>4, <2>3, <2>4, <2>5, <2>6, <2>7, Frame
<1> QED BY <1>5, <1>6, Zenon DEF GracefulOldStopped, Goto

(* Both instances are given up; what is not confirmed dead is quarantined. *)
LEMMA GracefulAbortStep ==
    ASSUME ControlInv, GracefulAbort
    PROVE  ControlInv'
<1>1. pc = "gAbort" /\ AtAbort
  BY Zenon DEF GracefulAbort, ControlInv, PointInv
<1>2. /\ current = NoRev /\ held = {op.old.epoch, op.new.epoch}
      /\ op.old.epoch \in Epochs /\ op.new.epoch \in Epochs
      /\ ~supervised[op.old.epoch]
  BY <1>1, RevFacts, Zenon DEF AtAbort, AtStopOld, Took, AnotherEpoch
<1>3. UNCHANGED <<up, epoch, current, lastSpec, fwd, crashes, kills>>
  BY Zenon DEF GracefulAbort
<1>4. /\ InstTypeOK /\ DiskTypeOK /\ LiveHasRecord /\ epoch \in Nat /\ up
      /\ current.epoch <= epoch
  BY <1>1, InFlight, Zenon DEF ControlInv, TypeOK, Processes
<1>5. \/ /\ ConfirmedDead(op.new.epoch) /\ Cleanup(op.new.epoch)
         /\ LatchQuarantine({op.old.epoch})
      \/ /\ Unconfirmed(op.new.epoch) /\ LatchQuarantine({op.old.epoch, op.new.epoch})
         /\ UNCHANGED disk
  BY Zenon DEF GracefulAbort
<1>6. /\ quarantine' \in {quarantine \cup {op.old.epoch},
                          quarantine \cup {op.old.epoch, op.new.epoch}}
      /\ proven' = proven /\ status' = [state |-> "Stopped", rev |-> NoRev] /\ Finish
  BY <1>5, Zenon DEF LatchQuarantine, RecordQuarantine, PublishTerminalError, Publish
<1>7. /\ OpTypeOK' /\ PointInv' /\ QuarantineWindow' /\ held' = {}
      /\ op'.new.epoch = 0 /\ op'.old.epoch = 0
  BY <1>6, Finished, Zenon
<1>8. /\ DiskTypeOK'
      /\ faults' = faults \/ (faults < MaxFaults /\ faults' = faults + 1)
      /\ \/ ConfirmedDead(op.new.epoch)
            /\ \A f \in Epochs : f # op.new.epoch => record'[f] = record[f]
         \/ Unconfirmed(op.new.epoch) /\ record' = record
  <2>1. CASE ConfirmedDead(op.new.epoch) /\ Cleanup(op.new.epoch)
    BY <1>2, <1>4, <2>1, CleanupEffect, Zenon
  <2>2. CASE Unconfirmed(op.new.epoch) /\ UNCHANGED disk
    BY <1>4, <2>2, Zenon DEF disk, DiskTypeOK, Unconfirmed, Fault
  <2> QED BY <1>5, <2>1, <2>2, Zenon
<1>9. /\ InstTypeOK' /\ LiveHasRecord'
      /\ \A f \in Epochs : /\ Live(f)' => Live(f)
                           /\ supervised'[f] => supervised[f] /\ f # op.new.epoch
                           /\ life'[f] \in {life[f], "Stopped"}
  BY <1>2, <1>4, <1>8, StopOutcome
<1>10. TypeOK'
  <2>1. CtrlTypeOK'
    BY <1>2, <1>3, <1>6, Zenon DEF ControlInv, TypeOK, CtrlTypeOK, CoreStates
  <2>2. CountersOK'
    BY <1>3, <1>8, BoundsAssumption DEF ControlInv, TypeOK, CountersOK
  <2> QED BY <1>7, <1>8, <1>9, <2>1, <2>2, Zenon DEF TypeOK
<1>11. Control'
  BY <1>3, <1>4, <1>7 DEF Control, DownIsEmpty, EpochsAllocated
<1>12. StartsNothing /\ NoNewOwner
  BY <1>3, <1>7, <1>9, Zenon DEF StartsNothing, NoNewOwner
<1>13. LatchesReleased
  BY <1>2, <1>3, <1>6, <1>7, <1>9, RevFacts, EpochFacts DEF LatchesReleased
<1>14. SupervisedIsHeld'
  BY <1>2, <1>3, <1>9, Zenon DEF ControlInv, Ownership, SupervisedIsHeld
<1> QED BY <1>3, <1>4, <1>6, <1>7, <1>9, <1>10, <1>11, <1>12, <1>13, <1>14, Frame

-----------------------------------------------------------------------------
(* The successor takes over.                                              *)

(* The full configuration is committed only now that the old core is dead. *)
LEMMA GracefulCommitStep ==
    ASSUME ControlInv, GracefulCommit
    PROVE  ControlInv'
<1>1. pc = "gCommit" /\ AtCommit
  BY Zenon DEF GracefulCommit, ControlInv, PointInv
<1>2. /\ op.new \in Revs /\ op.new.epoch \in Epochs /\ Full(op.new.spec) \in Configs
      /\ held = {op.new.epoch}
  BY <1>1, RevFacts, ConfigFacts, Zenon DEF AtCommit, AtReconcile, Holds
<1>3. /\ UNCHANGED <<up, epoch, current, lastSpec, quarantine, proven, supervised, proc>>
      /\ UNCHANGED <<record, backup, fwd, status, op, held, crashes, kills>>
  BY Zenon DEF GracefulCommit, ctrlVars
<1>4. \/ /\ config' = [config EXCEPT ![op.new.epoch] = Full(op.new.spec)]
         /\ pc' = "gReconcile" /\ UNCHANGED <<life, faults>>
      \/ /\ Fault /\ BeginStop(op.new.epoch) /\ pc' = "gCommitFail" /\ UNCHANGED config
  BY Zenon DEF GracefulCommit, Goto
<1>5. /\ life' \in [Epochs -> LifeStates]
      /\ \A e \in Epochs : life'[e] = "Absent" => life[e] = "Absent"
  BY <1>2, <1>4, BeginStopEffect, Zenon DEF ControlInv, TypeOK, InstTypeOK
<1>6. TypeOK'
  <2>1. CtrlTypeOK' /\ InstTypeOK'
    BY <1>3, <1>5, Zenon DEF ControlInv, TypeOK, CtrlTypeOK, InstTypeOK
  <2>2. DiskTypeOK'
    BY <1>2, <1>3, <1>4, Zenon DEF ControlInv, TypeOK, DiskTypeOK
  <2>3. OpTypeOK' /\ CountersOK'
    BY <1>3, <1>4, BoundsAssumption
       DEF ControlInv, TypeOK, OpTypeOK, PCs, CountersOK, Fault
  <2> QED BY <2>1, <2>2, <2>3, Zenon DEF TypeOK
<1>7. PointInv'
  BY <1>1, <1>3, <1>4,
    Zenon DEF PointInv, AtCommit, AtReconcile, Took, Holds, AnotherEpoch, Dead, Live,
         Bootstrapped
<1>8. Control' /\ epoch <= epoch'
  BY <1>1, <1>3, InFlight DEF Control, QuarantineWindow, DownIsEmpty, EpochsAllocated
<1>9. LiveHasRecord' /\ \A e \in Epochs : Live(e)' => Live(e)
  BY <1>3, Zenon DEF ControlInv, Processes, LiveHasRecord, Live
<1> QED BY <1>3, <1>5, <1>6, <1>7, <1>8, <1>9, Passed, Zenon

(* The new core whose full configuration was not written is dead and       *)
(* cleaned, or quarantined.                                                *)
LEMMA GracefulCommitFailedStep ==
    ASSUME ControlInv, GracefulCommitFailed
    PROVE  ControlInv'
<1>1. pc = "gCommitFail" /\ AtCommit
  BY Zenon DEF GracefulCommitFailed, ControlInv, PointInv
<1>2. /\ held = {op.new.epoch} /\ op.new.epoch \in Epochs /\ op.new.epoch # current.epoch
      /\ up
  BY <1>1, RevFacts, EpochFacts, InFlight DEF AtCommit, AtReconcile, Took, Holds
<1> QED BY <1>2, Rejected, Zenon DEF GracefulCommitFailed

(* The new core gets its full configuration, or is stopped for a           *)
(* replacement.                                                            *)
LEMMA GracefulReconcileStep ==
    ASSUME ControlInv, GracefulReconcile
    PROVE  ControlInv'
<1>1. pc = "gReconcile" /\ AtReconcile
  BY Zenon DEF GracefulReconcile, ControlInv, PointInv
<1>2. /\ op.old.epoch \in Epochs /\ op.new.epoch \in Epochs /\ Full(op.new.spec) \in Configs
      /\ held = {op.new.epoch}
  BY <1>1, RevFacts, ConfigFacts, Zenon DEF AtReconcile, Holds, AnotherEpoch
<1>3. /\ UNCHANGED <<up, epoch, current, lastSpec, quarantine, proven, supervised, config>>
      /\ UNCHANGED <<record, backup, fwd, status, op, held, crashes, faults, kills>>
  BY Zenon DEF GracefulReconcile, ctrlVars, disk
<1>4. /\ pc' \in {"gInstall", "gReplaceStop"}
      /\ life' = life \/ BeginStop(op.new.epoch)
      /\ \/ MayLoad(op.new.epoch, Full(op.new.spec))
         \/ /\ Live(op.new.epoch)
            /\ proc' = [proc EXCEPT ![op.new.epoch] = Full(op.new.spec)]
  BY Zenon DEF GracefulReconcile, Goto
<1>5. /\ life' \in [Epochs -> LifeStates]
      /\ \A e \in Epochs : life'[e] = "Absent" => life[e] = "Absent"
  BY <1>2, <1>4, BeginStopEffect, Zenon DEF ControlInv, TypeOK, InstTypeOK
<1>6. /\ proc' \in [Epochs -> Configs \cup {NoConfig}]
      /\ \A f \in Epochs : Live(f)' <=> Live(f)
  BY <1>2, <1>4, LoadEffect, Zenon DEF ControlInv, TypeOK
<1>7. TypeOK'
  <2>1. CtrlTypeOK' /\ InstTypeOK'
    BY <1>3, <1>5, <1>6, Zenon DEF ControlInv, TypeOK, CtrlTypeOK, InstTypeOK
  <2>2. DiskTypeOK' /\ OpTypeOK' /\ CountersOK'
    BY <1>3, <1>4, Zenon DEF ControlInv, TypeOK, DiskTypeOK, OpTypeOK, PCs, CountersOK
  <2> QED BY <2>1, <2>2, Zenon DEF TypeOK
<1>8. PointInv'
  BY <1>1, <1>2, <1>3, <1>4, <1>6,
    Zenon DEF PointInv, AtReconcile, Took, Holds, AnotherEpoch, Dead, Live
<1>9. Control' /\ epoch <= epoch'
  BY <1>1, <1>3, InFlight DEF Control, QuarantineWindow, DownIsEmpty, EpochsAllocated
<1>10. LiveHasRecord'
  BY <1>3, <1>6, Zenon DEF ControlInv, Processes, LiveHasRecord
<1> QED BY <1>3, <1>5, <1>6, <1>7, <1>8, <1>9, <1>10, Passed, Zenon

(* Installing the new core hands the ownership from the operation to the   *)
(* slot.                                                                   *)
LEMMA GracefulInstallStep ==
    ASSUME ControlInv, GracefulInstall
    PROVE  ControlInv'
BY InstallsNew, Zenon DEF GracefulInstall, ControlInv, PointInv, AtReconcile, Took

(* The new core is confirmed dead before it is spawned again, or           *)
(* quarantined.                                                            *)
LEMMA GracefulReplaceStoppedStep ==
    ASSUME ControlInv, GracefulReplaceStopped
    PROVE  ControlInv'
<1>1. pc = "gReplaceStop" /\ AtReconcile
  BY Zenon DEF GracefulReplaceStopped, ControlInv, PointInv
<1>2. /\ current = NoRev /\ op.new \in Revs /\ op.old \in Revs /\ op.new.epoch \in Epochs
      /\ op.new.epoch # op.old.epoch /\ held = {op.new.epoch} /\ ~Live(op.old.epoch)
      /\ op.new.epoch # current.epoch
  BY <1>1, RevFacts, EpochFacts DEF AtReconcile, Took, Holds, AnotherEpoch, Dead
<1>3. up /\ op \in Ops /\ DiskTypeOK
  BY <1>1, InFlight, Zenon DEF ControlInv, TypeOK
<1>4. UNCHANGED <<up, epoch, current, lastSpec, config, backup, fwd, crashes, kills>>
  BY Zenon DEF GracefulReplaceStopped
<1>5. CASE Unconfirmed(op.new.epoch) /\ LatchQuarantine({op.new.epoch}) /\ UNCHANGED record
  BY <1>2, <1>3, <1>4, <1>5, Latched, Zenon DEF DiskTypeOK
<1>6. CASE /\ ConfirmedDead(op.new.epoch) /\ KeepOrDropRecord(op.new.epoch)
           /\ op' = [op EXCEPT !.mode = "graceful"]
           /\ pc' = "replaceSpawn" /\ held' = {}
           /\ UNCHANGED <<quarantine, proven, status, faults>>
  <2>1. DiskTypeOK' /\ \A f \in Epochs : f # op.new.epoch => record'[f] = record[f]
    BY <1>2, <1>3, <1>4, <1>6, RecordEffect, Zenon DEF DiskTypeOK
  <2>2. /\ op' \in Ops /\ op'.new = op.new /\ op'.old = op.old /\ op'.mode = "graceful"
    BY <1>3, <1>6, Zenon DEF Ops, Modes
  <2>3. Replaces'
    BY <1>2, <2>2, Zenon DEF Replaces, AnotherEpoch
  <2>4. status' \in [state : CoreStates, rev : Revs \cup {NoRev}]
    BY <1>6, Zenon DEF ControlInv, TypeOK, CtrlTypeOK
  <2> QED BY <1>1, <1>2, <1>4, <1>6, <2>1, <2>2, <2>3, <2>4, StopsForReplacement, Zenon
<1> QED BY <1>5, <1>6, Zenon DEF GracefulReplaceStopped, Goto

-----------------------------------------------------------------------------
(* spawn_replacement                                                       *)

(* A failed replacement ends the operation, or turns to the old revision.  *)
LEMMA ReplaceFailedCases ==
    ASSUME op \in Ops, Replaces, ReplaceFailed
    PROVE  /\ status' \in [state : CoreStates, rev : Revs \cup {NoRev}]
           /\ faults' = faults \/ (faults < MaxFaults /\ faults' = faults + 1)
           /\ \/ Finish
              \/ /\ pc' = "replaceSpawn" /\ held' = {} /\ op' \in Ops
                 /\ op'.new = op.new /\ op'.old = op.old /\ Replaces'
                 /\ op.mode \in {"apply", "switch"}
<1>1. op.old \in Revs /\ op.new \in Revs
  BY Zenon DEF Replaces, SameEpoch, AnotherEpoch
<1>2. CASE op.mode = "graceful"
  BY <1>2 DEF ReplaceFailed, PublishTerminalError, Publish, CoreStates, Cleanup, CleanupOk,
              CleanupErr, Fault, NoFault
<1>3. CASE op.mode = "apply"
  <2>1. CASE /\ Publish("Restarting", op.old)
             /\ op' = [op EXCEPT !.mode = "applyRollback"]
             /\ Goto("replaceSpawn") /\ held' = {} /\ NoFault
    <3>1. /\ op' \in Ops /\ op'.new = op.new /\ op'.old = op.old
          /\ op'.mode = "applyRollback"
      BY <2>1, Zenon DEF Ops, Modes
    <3>2. Replaces'
      BY <1>3, <3>1, Zenon DEF Replaces, SameEpoch
    <3> QED BY <1>1, <1>3, <2>1, <3>1, <3>2, Zenon DEF Publish, CoreStates, Goto, NoFault
  <2>2. CASE Fault /\ PublishTerminalError /\ Finish
    BY <2>2, Zenon DEF Fault, PublishTerminalError, Publish, CoreStates
  <2> QED BY <1>3, <2>1, <2>2, Zenon DEF ReplaceFailed
<1>4. CASE op.mode = "switch"
  <2>1. /\ Cleanup(op.new.epoch) /\ Publish("Restarting", op.old)
        /\ op' = [op EXCEPT !.mode = "switchRollback"]
        /\ Goto("replaceSpawn") /\ held' = {}
    BY <1>4, Zenon DEF ReplaceFailed
  <2>2. /\ op' \in Ops /\ op'.new = op.new /\ op'.old = op.old
        /\ op'.mode = "switchRollback"
    BY <2>1, Zenon DEF Ops, Modes
  <2>3. Replaces'
    BY <1>4, <2>2, Zenon DEF Replaces, AnotherEpoch
  <2>4. faults' = faults \/ (faults < MaxFaults /\ faults' = faults + 1)
    BY <2>1, Zenon DEF Cleanup, CleanupOk, CleanupErr, Fault, NoFault
  <2> QED BY <1>1, <1>4, <2>1, <2>2, <2>3, <2>4, Zenon DEF Publish, CoreStates, Goto
<1>5. CASE op.mode \in {"applyRollback", "switchRollback"}
  BY <1>5 DEF ReplaceFailed, PublishTerminalError, Publish, CoreStates
<1> QED BY <1>2, <1>3, <1>4, <1>5, Zenon DEF ReplaceFailed

(* The replacement is spawned under its own epoch with its pid record.     *)
LEMMA ReplaceSpawnStep ==
    ASSUME ControlInv, ReplaceSpawn
    PROVE  ControlInv'
<1>1. pc = "replaceSpawn" /\ AtReplaceSpawn
  BY Zenon DEF ReplaceSpawn, ControlInv, PointInv
<1>2. /\ current = NoRev /\ held = {} /\ Replaces /\ op.old \in Revs /\ op.new \in Revs
      /\ ~Live(op.old.epoch) /\ ~Live(op.new.epoch)
      /\ ReplaceRev \in {op.old, op.new} /\ ReplaceRev.epoch \in Epochs
  BY <1>1, RevFacts, Zenon DEF AtReplaceSpawn, Took, Dead, ReplaceRev
<1>3. /\ up /\ quarantine = {} /\ ReplaceRev.epoch <= epoch /\ epoch \in Nat
      /\ epoch <= MaxEpoch /\ op \in Ops
  BY <1>1, <1>2, InFlight, Zenon
<1>4. UNCHANGED <<up, epoch, current, lastSpec, quarantine, proven, fwd, crashes, kills>>
  BY Zenon DEF ReplaceSpawn, ctrlVars
<1>5. CASE /\ SpawnInstance(ReplaceRev.epoch) /\ pc' = "replaceReady"
           /\ held' = {ReplaceRev.epoch}
           /\ UNCHANGED <<op, config, backup, status, faults>>
  <2>1. \A f \in Epochs : f # ReplaceRev.epoch => proc'[f] = proc[f]
    BY <1>2, <1>5, SpawnEffect DEF ControlInv, TypeOK
  <2>2. op.mode \in {"graceful", "switch"} => ~Live(op.old.epoch)'
    BY <1>2, <1>5, <2>1, RevFacts, Zenon DEF Replaces, AnotherEpoch, ReplaceRev, Live
  <2>3. AtReplace'
    BY <1>2, <1>4, <1>5, <2>2,
      Zenon DEF AtReplace, Took, Replaces, SameEpoch, AnotherEpoch, Holds, ReplaceRev, Dead
  <2>4. PointInv'
    BY <1>5, <2>3, Zenon DEF PointInv
  <2> QED BY <1>2, <1>3, <1>4, <1>5, <2>4, Spawns, Zenon
<1>6. CASE ReplaceFailed /\ UNCHANGED inst
  <2>1. UNCHANGED <<life, supervised, proc>>
    BY <1>6, Zenon DEF inst
  <2>2. DiskTypeOK' /\ \A f \in Epochs : f # ReplaceRev.epoch => record'[f] = record[f]
    BY <1>2, <1>6, ReplaceFailedEffect, Zenon DEF ControlInv, TypeOK
  <2>3. LiveHasRecord' /\ \A e \in Epochs : Live(e)' => Live(e)
    BY <1>2, <2>1, <2>2, Zenon DEF ControlInv, Processes, LiveHasRecord, Live
  <2>4. /\ status' \in [state : CoreStates, rev : Revs \cup {NoRev}]
        /\ faults' = faults \/ (faults < MaxFaults /\ faults' = faults + 1)
    BY <1>2, <1>3, <1>6, ReplaceFailedCases, Zenon
  <2>5. CASE Finish
    BY <1>2, <1>3, <1>4, <2>1, <2>2, <2>3, <2>4, <2>5, Returns, Zenon
  <2>6. CASE /\ pc' = "replaceSpawn" /\ held' = {} /\ op' \in Ops
             /\ op'.new = op.new /\ op'.old = op.old /\ Replaces'
    <3>1. AtReplaceSpawn'
      BY <1>2, <1>4, <2>1, <2>6, Zenon DEF AtReplaceSpawn, Took, Dead, Live
    <3>2. InstTypeOK'
      BY <2>1, Zenon DEF ControlInv, TypeOK, InstTypeOK
    <3>3. TypeOK' /\ PointInv' /\ Control'
      BY <1>1, <1>2, <1>3, <1>4, <2>2, <2>4, <2>6, <3>1, <3>2, Replacing, Zenon
    <3> QED BY <1>2, <1>3, <1>4, <2>1, <2>3, <2>6, <3>3, Passed
  <2> QED BY <1>2, <1>3, <1>6, <2>5, <2>6, ReplaceFailedCases, Zenon
<1> QED BY <1>5, <1>6, Zenon DEF ReplaceSpawn, Goto

(* A replacement that became ready is held by the operation.               *)
LEMMA ReplaceReadyStep ==
    ASSUME ControlInv, ReplaceReady
    PROVE  ControlInv'
<1>1. /\ pc = "replaceReady" /\ AtReplace
      /\ pc' \in {"replaceInstall", "replaceReject"}
  BY Zenon DEF ReplaceReady, ControlInv, PointInv, Goto
<1>2. /\ UNCHANGED <<up, epoch, current, lastSpec, quarantine, proven, fwd, status>>
      /\ UNCHANGED <<op, held, crashes, faults, kills>>
      /\ UNCHANGED <<life, supervised, proc, config, record, backup>>
  BY Zenon DEF ReplaceReady, ctrlVars, inst, disk
<1>3. TypeOK'
  <2>1. CtrlTypeOK' /\ InstTypeOK' /\ DiskTypeOK'
    BY <1>2, Zenon DEF ControlInv, TypeOK, CtrlTypeOK, InstTypeOK, DiskTypeOK
  <2>2. OpTypeOK' /\ CountersOK'
    BY <1>1, <1>2, Zenon DEF ControlInv, TypeOK, OpTypeOK, PCs, CountersOK
  <2> QED BY <2>1, <2>2, Zenon DEF TypeOK
<1>4. AtReplace'
  BY <1>1, <1>2,
    Zenon DEF AtReplace, Took, Replaces, SameEpoch, AnotherEpoch, Holds, ReplaceRev, Dead,
         Live
<1>5. PointInv'
  BY <1>1, <1>4, Zenon DEF PointInv
<1>6. Control' /\ epoch <= epoch'
  BY <1>1, <1>2, InFlight DEF Control, QuarantineWindow, DownIsEmpty, EpochsAllocated
<1> QED BY <1>2, <1>3, <1>5, <1>6, Steady, Zenon

(* A rejected replacement is stopped or quarantined.                       *)
LEMMA ReplaceRejectStep ==
    ASSUME ControlInv, ReplaceReject
    PROVE  ControlInv'
<1> DEFINE e == ReplaceRev.epoch
<1>1. pc = "replaceReject" /\ AtReplace
  BY Zenon DEF ReplaceReject, ControlInv, PointInv
<1>2. /\ current = NoRev /\ Replaces /\ op.old \in Revs /\ op.new \in Revs
      /\ e \in Epochs /\ held = {e} /\ e # current.epoch
      /\ op.mode \in {"graceful", "switch"} => ~Live(op.old.epoch)
  BY <1>1, RevFacts, EpochFacts
     DEF AtReplace, Took, Replaces, SameEpoch, AnotherEpoch, Holds, Dead
<1>3. up /\ op \in Ops /\ DiskTypeOK
  BY <1>1, InFlight, Zenon DEF ControlInv, TypeOK
<1>4. UNCHANGED <<up, epoch, current, lastSpec, fwd, crashes, kills>>
  BY Zenon DEF ReplaceReject
<1>5. CASE Unconfirmed(e) /\ LatchQuarantine({e}) /\ UNCHANGED disk
  BY <1>2, <1>3, <1>4, <1>5, Latched, Zenon DEF disk, DiskTypeOK
<1>6. CASE ConfirmedDead(e) /\ ReplaceFailed /\ UNCHANGED <<quarantine, proven>>
  <2>1. DiskTypeOK' /\ \A f \in Epochs : f # e => record'[f] = record[f]
    BY <1>2, <1>3, <1>6, ReplaceFailedEffect, Zenon
  <2>2. /\ status' \in [state : CoreStates, rev : Revs \cup {NoRev}]
        /\ faults' = faults \/ (faults < MaxFaults /\ faults' = faults + 1)
    BY <1>2, <1>3, <1>6, ReplaceFailedCases, Zenon
  <2>3. CASE Finish
    BY <1>2, <1>3, <1>4, <1>6, <2>1, <2>2, <2>3, Ended, Zenon
  <2>4. CASE /\ pc' = "replaceSpawn" /\ held' = {} /\ op' \in Ops
             /\ op'.new = op.new /\ op'.old = op.old /\ Replaces'
             /\ op.mode \in {"apply", "switch"}
    <3>1. /\ e = op.new.epoch
          /\ e = op.old.epoch \/ ~Live(op.old.epoch)
      BY <1>2, <2>4, Zenon DEF ReplaceRev, Replaces, SameEpoch, AnotherEpoch
    <3> QED BY <1>1, <1>2, <1>4, <1>6, <2>1, <2>2, <2>4, <3>1, StopsForReplacement, Zenon
  <2> QED BY <1>2, <1>3, <1>6, <2>3, <2>4, ReplaceFailedCases, Zenon
<1> QED BY <1>5, <1>6, Zenon DEF ReplaceReject

(* The replacement becomes the active instance.                            *)
LEMMA ReplaceInstallStep ==
    ASSUME ControlInv, ReplaceInstall
    PROVE  ControlInv'
<1>1. pc = "replaceInstall" /\ AtReplace
  BY Zenon DEF ReplaceInstall, ControlInv, PointInv
<1>2. /\ current = NoRev /\ Replaces /\ op.old \in Revs /\ op.new \in Revs
      /\ ReplaceRev \in Revs /\ ReplaceRev.epoch \in Epochs /\ held = {ReplaceRev.epoch}
      /\ op.mode \in {"graceful", "switch"} => ~Live(op.old.epoch)
  BY <1>1, RevFacts, Zenon DEF AtReplace, Took, Replaces, SameEpoch, AnotherEpoch, Holds, Dead
<1>3. UNCHANGED <<up, epoch, quarantine, proven, inst, crashes, kills>>
  BY Zenon DEF ReplaceInstall
<1>4. CASE op.mode = "graceful" /\ InstallNew /\ Cleanup(op.old.epoch) /\ Finish
  <2>1. Holds(op.new) /\ Dead(op.old)
    BY <1>2, <1>4, Zenon DEF Holds, Dead, ReplaceRev
  <2> QED BY <1>1, <1>2, <1>3, <1>4, <2>1, InstallsNew, Zenon
<1>5. CASE /\ op.mode # "graceful" /\ current' = ReplaceRev
           /\ lastSpec' = ReplaceRev.spec /\ fwd' = "fresh"
           /\ pc' = "replacePublish" /\ held' = {} /\ UNCHANGED <<op, status, disk, faults>>
  <2>1. UNCHANGED <<life, supervised, proc, config, record, backup>>
    BY <1>3, <1>5, Zenon DEF inst, disk
  <2>2. TypeOK'
    <3>1. CtrlTypeOK'
      BY <1>2, <1>3, <1>5, RevFacts, Zenon DEF ControlInv, TypeOK, CtrlTypeOK
    <3>2. InstTypeOK' /\ DiskTypeOK'
      BY <2>1, Zenon DEF ControlInv, TypeOK, InstTypeOK, DiskTypeOK
    <3>3. OpTypeOK' /\ CountersOK'
      BY <1>3, <1>5, Zenon DEF ControlInv, TypeOK, OpTypeOK, PCs, CountersOK
    <3> QED BY <3>1, <3>2, <3>3, Zenon DEF TypeOK
  <2>3. AtReplacePublish'
    BY <1>2, <1>5, <2>1,
      Zenon DEF AtReplacePublish, Replaces, SameEpoch, AnotherEpoch, ReplaceRev, Dead, Live
  <2>4. PointInv'
    BY <1>5, <2>3, Zenon DEF PointInv
  <2>5. ReplaceRev \in {op.old, op.new}
    BY Zenon DEF ReplaceRev
  <2>6. Control' /\ epoch <= epoch'
    BY <1>1, <1>3, <1>5, <2>5, InFlight
       DEF Control, QuarantineWindow, DownIsEmpty, EpochsAllocated
  <2>7. \A e \in Epochs : e = current'.epoch \/ e \in held'
                             <=> e = current.epoch \/ e \in held
    BY <1>2, <1>5, RevFacts, EpochFacts
  <2>8. LiveHasRecord' /\ \A e \in Epochs : Live(e)' => Live(e)
    BY <2>1, Zenon DEF ControlInv, Processes, LiveHasRecord, Live
  <2> QED BY <1>3, <2>1, <2>2, <2>4, <2>6, <2>7, <2>8, Passed, Zenon
<1> QED BY <1>4, <1>5, Zenon DEF ReplaceInstall, Goto

(* Publishing the replacement drops only the backup or the epoch that it   *)
(* supersedes.                                                             *)
LEMMA ReplacePublishStep ==
    ASSUME ControlInv, ReplacePublish
    PROVE  ControlInv'
<1>1. pc = "replacePublish" /\ AtReplacePublish
  BY Zenon DEF ReplacePublish, ControlInv, PointInv
<1>2. /\ Replaces /\ op.old \in Revs /\ op.new \in Revs /\ held = {} /\ current = ReplaceRev
      /\ op.old.epoch \in Epochs /\ op.new.gen \in Gens /\ ReplaceRev \in Revs
      /\ op.mode = "switch" => ~Live(op.old.epoch)
  BY <1>1, RevFacts,
    Zenon DEF AtReplacePublish, Replaces, SameEpoch, AnotherEpoch, ReplaceRev, Dead
<1>3. up /\ epoch \in Nat /\ epoch <= MaxEpoch /\ DiskTypeOK
  BY <1>1, InFlight, Zenon DEF ControlInv, TypeOK
<1>4. /\ UNCHANGED <<up, epoch, current, lastSpec, quarantine, proven, fwd, crashes, kills>>
      /\ UNCHANGED <<life, supervised, proc>>
  BY Zenon DEF ReplacePublish, ctrlVars, inst
<1>5. Finish /\ status' \in [state : CoreStates, rev : Revs \cup {NoRev}]
  BY <1>2, Zenon DEF ReplacePublish, Publish, CoreStates
<1>6. /\ DiskTypeOK'
      /\ \A f \in Epochs : f # op.old.epoch \/ op.mode # "switch" => record'[f] = record[f]
      /\ faults' = faults \/ (faults < MaxFaults /\ faults' = faults + 1)
  <2>1. CASE RemoveBackup(op.old.epoch, op.new.gen) /\ UNCHANGED <<config, record>>
    BY <1>2, <1>3, <2>1, RemoveBackupEffect, Zenon DEF DiskTypeOK
  <2>2. CASE op.mode = "switch" /\ Cleanup(op.old.epoch)
    BY <1>2, <1>3, <2>2, CleanupEffect, Zenon
  <2>3. CASE UNCHANGED <<disk, faults>>
    BY <1>3, <2>3, Zenon DEF disk, DiskTypeOK
  <2> QED BY <2>1, <2>2, <2>3, Zenon DEF ReplacePublish
<1>7. LiveHasRecord'
  BY <1>2, <1>4, <1>6, Zenon DEF ControlInv, Processes, LiveHasRecord, Live
<1> QED BY <1>2, <1>3, <1>4, <1>5, <1>6, <1>7, Returns, Zenon

-----------------------------------------------------------------------------
(* apply_config within the epoch.                                          *)

(* Backing up and replacing the committed file keeps a configuration for   *)
(* every live epoch.                                                       *)
LEMMA ApplyCommitStep ==
    ASSUME ControlInv, ApplyCommit
    PROVE  ControlInv'
<1> DEFINE e == current.epoch
           g == current.gen + 1
           r == Rev(e, g, op.spec)
<1>1. pc = "applyCommit" /\ AtApplyCommit
  BY Zenon DEF ApplyCommit, ControlInv, PointInv
<1>2. /\ current \in Revs /\ held = {} /\ op.spec \in Specs /\ e \in Epochs /\ g \in Gens
      /\ r \in Revs /\ r.epoch = e /\ Full(op.spec) \in Configs
  <2>1. /\ current \in Revs /\ held = {} /\ op.spec \in Specs /\ current.gen < MaxGen
    BY <1>1, Zenon DEF AtApplyCommit, AtPrepare, Retains
  <2>2. e \in Epochs /\ current.gen \in Gens
    BY <2>1, RevFacts, Zenon
  <2>3. g \in Gens
    BY <2>1, <2>2, EpochFacts, Zenon
  <2>4. r \in Revs /\ r.epoch = e
    <3> HIDE DEF e, g
    <3> QED BY <2>1, <2>2, <2>3, RevFacts
  <2> QED BY <2>1, <2>2, <2>3, <2>4, ConfigFacts, Zenon
<1>3. up /\ op \in Ops /\ epoch \in Nat /\ epoch <= MaxEpoch /\ DiskTypeOK
  BY <1>1, InFlight, Zenon DEF ControlInv, TypeOK
<1>4. /\ UNCHANGED <<up, epoch, current, lastSpec, quarantine, proven, fwd, status>>
      /\ UNCHANGED <<life, supervised, proc, record, crashes, kills>>
  BY Zenon DEF ApplyCommit, ctrlVars, inst
<1> HIDE DEF r
<1>5. CASE /\ Finish /\ UNCHANGED config
           /\ faults' = faults \/ (faults < MaxFaults /\ faults' = faults + 1)
           /\ backup' = backup
                \/ \E c \in {NoConfig, config[e]} : backup' = [backup EXCEPT ![e][g] = c]
  <2>1. config[e] \in Configs \cup {NoConfig}
    BY <1>2, <1>3, Zenon DEF DiskTypeOK
  <2>2. DiskTypeOK'
    BY <1>2, <1>3, <1>4, <1>5, <2>1 DEF DiskTypeOK
  <2>3. LiveHasRecord' /\ status' \in [state : CoreStates, rev : Revs \cup {NoRev}]
    BY <1>4, Zenon DEF ControlInv, Processes, LiveHasRecord, Live, TypeOK, CtrlTypeOK
  <2> QED BY <1>2, <1>3, <1>4, <1>5, <2>2, <2>3, Returns, Zenon
<1>6. CASE /\ backup' = [backup EXCEPT ![e][g] = config[e]]
           /\ config' = [config EXCEPT ![e] = Full(op.spec)]
           /\ op' = [op EXCEPT !.new = r, !.old = current]
           /\ pc' = "applyReconcile" /\ UNCHANGED <<held, faults>>
  <2>1. op' \in Ops /\ op'.new = r /\ op'.old = current
    BY <1>2, <1>3, <1>6, Zenon DEF Ops
  <2>2. config[e] \in Configs \cup {NoConfig}
    BY <1>2, <1>3, Zenon DEF DiskTypeOK
  <2>3. TypeOK'
    <3>1. CtrlTypeOK' /\ InstTypeOK'
      BY <1>4, Zenon DEF ControlInv, TypeOK, CtrlTypeOK, InstTypeOK
    <3>2. DiskTypeOK'
      BY <1>2, <1>3, <1>4, <1>6, Zenon DEF DiskTypeOK
    <3>3. OpTypeOK' /\ CountersOK'
      BY <1>4, <1>6, <2>1, Zenon DEF ControlInv, TypeOK, OpTypeOK, PCs, CountersOK
    <3> QED BY <3>1, <3>2, <3>3, Zenon DEF TypeOK
  <2>4. PointInv'
    BY <1>2, <1>4, <1>6 DEF PointInv, AtApply, Retains, SameEpoch
  <2>5. Control' /\ epoch <= epoch'
    BY <1>1, <1>2, <1>4, <2>1, InFlight
       DEF Control, QuarantineWindow, DownIsEmpty, EpochsAllocated
  <2> QED BY <1>4, <1>6, <2>3, <2>4, <2>5, Steady, Zenon
<1>7. \/ Finish /\ UNCHANGED <<config, backup, faults>>
      \/ /\ Fault /\ Finish /\ UNCHANGED config
         /\ \E c \in {NoConfig, config[e]} : backup' = [backup EXCEPT ![e][g] = c]
      \/ /\ backup' = [backup EXCEPT ![e][g] = config[e]]
         /\ config' = [config EXCEPT ![e] = Full(op.spec)]
         /\ op' = [op EXCEPT !.new = r, !.old = current]
         /\ pc' = "applyReconcile" /\ UNCHANGED <<held, faults>>
  BY Zenon DEF ApplyCommit, Goto, r
<1> QED BY <1>5, <1>6, <1>7, Zenon DEF Fault

(* A reconciled core stays in the slot; an uncertain one is taken out and  *)
(* held until it is stopped.                                               *)
LEMMA ApplyReconcileStep ==
    ASSUME ControlInv, ApplyReconcile
    PROVE  ControlInv'
<1> DEFINE e == op.old.epoch
<1>1. pc = "applyReconcile" /\ AtApply
  BY Zenon DEF ApplyReconcile, ControlInv, PointInv
<1>2. /\ current \in Revs /\ current = op.old /\ held = {} /\ SameEpoch
      /\ op.new \in Revs /\ e \in Epochs /\ Full(op.new.spec) \in Configs
  BY <1>1, RevFacts, ConfigFacts, Zenon DEF AtApply, Retains, SameEpoch
<1>3. /\ UNCHANGED <<up, epoch, lastSpec, quarantine, proven, supervised, status, op>>
      /\ UNCHANGED <<config, record, backup, crashes, faults, kills>>
  BY Zenon DEF ApplyReconcile, disk
<1>4. /\ \/ MayLoad(e, Full(op.new.spec))
         \/ Live(e) /\ proc' = [proc EXCEPT ![e] = Full(op.new.spec)]
      /\ \/ pc' = "applyPublish" /\ UNCHANGED <<life, held, current, fwd>>
         \/ /\ pc' = "applyStop" /\ held' = {e} /\ current' = NoRev /\ fwd' = "none"
            /\ BeginStop(e)
  BY Zenon DEF ApplyReconcile, Goto, TakeCurrent
<1>5. /\ life' \in [Epochs -> LifeStates]
      /\ \A f \in Epochs : life'[f] = "Absent" => life[f] = "Absent"
  BY <1>2, <1>4, BeginStopEffect, Zenon DEF ControlInv, TypeOK, InstTypeOK
<1>6. /\ proc' \in [Epochs -> Configs \cup {NoConfig}]
      /\ \A f \in Epochs : Live(f)' <=> Live(f)
  BY <1>2, <1>4, LoadEffect, Zenon DEF ControlInv, TypeOK
<1>7. TypeOK'
  <2>1. CtrlTypeOK' /\ InstTypeOK'
    BY <1>3, <1>4, <1>5, <1>6, Zenon DEF ControlInv, TypeOK, CtrlTypeOK, InstTypeOK
  <2>2. DiskTypeOK' /\ CountersOK'
    BY <1>3, Zenon DEF ControlInv, TypeOK, DiskTypeOK, CountersOK
  <2>3. OpTypeOK'
    BY <1>2, <1>3, <1>4, Zenon DEF ControlInv, TypeOK, OpTypeOK, PCs
  <2> QED BY <2>1, <2>2, <2>3, Zenon DEF TypeOK
<1>8. PointInv'
  <2>1. CASE pc' = "applyPublish"
    BY <1>2, <1>3, <1>4, <2>1, Zenon DEF PointInv, AtApply, Retains, SameEpoch
  <2>2. CASE pc' = "applyStop"
    BY <1>2, <1>3, <1>4, <2>2, Zenon DEF PointInv, AtApplyStop, Took, Holds, SameEpoch
  <2> QED BY <1>4, <2>1, <2>2, Zenon
<1>9. Control' /\ epoch <= epoch'
  <2>1. /\ up /\ quarantine = {} /\ epoch \in Nat /\ current.epoch <= epoch
        /\ op.new.epoch <= epoch /\ op.old.epoch <= epoch
    BY <1>1, InFlight, Zenon
  <2>2. current'.epoch = current.epoch \/ current'.epoch = 0
    BY <1>4, RevFacts, Zenon
  <2> QED BY <1>3, <2>1, <2>2 DEF Control, QuarantineWindow, DownIsEmpty, EpochsAllocated
<1>10. \A f \in Epochs : f = current'.epoch \/ f \in held'
                            <=> f = current.epoch \/ f \in held
  <2>1. CASE UNCHANGED <<held, current>>
    BY <2>1, Zenon
  <2>2. CASE held' = {e} /\ current' = NoRev
    <3>1. current'.epoch = 0 /\ e = current.epoch
      BY <1>2, <2>2, RevFacts, Zenon
    <3>2. \A f \in Epochs : f # 0
      BY EpochFacts
    <3> QED BY <1>2, <2>2, <3>1, <3>2, Zenon
  <2> QED BY <1>4, <2>1, <2>2, Zenon
<1>11. LiveHasRecord'
  BY <1>3, <1>6, Zenon DEF ControlInv, Processes, LiveHasRecord
<1> QED BY <1>3, <1>5, <1>6, <1>7, <1>8, <1>9, <1>10, <1>11, Passed, Zenon

(* The applied revision takes the place of the old one of the same epoch.  *)
LEMMA ApplyPublishStep ==
    ASSUME ControlInv, ApplyPublish
    PROVE  ControlInv'
<1>1. pc = "applyPublish" /\ AtApply
  BY Zenon DEF ApplyPublish, ControlInv, PointInv
<1>2. /\ current = op.old /\ op.old \in Revs /\ op.new \in Revs /\ held = {}
      /\ op.new.epoch = current.epoch /\ op.old.epoch \in Epochs /\ op.new.gen \in Gens
  BY <1>1, RevFacts, Zenon DEF AtApply, Retains, SameEpoch
<1>3. /\ current' = op.new /\ lastSpec' = op.new.spec
      /\ status' = [state |-> "Running", rev |-> op.new]
      /\ RemoveBackup(op.old.epoch, op.new.gen) /\ Finish
  BY Zenon DEF ApplyPublish, Publish
<1>4. /\ UNCHANGED <<up, epoch, quarantine, proven, fwd, crashes, kills>>
      /\ UNCHANGED <<life, supervised, proc, config, record>>
  BY Zenon DEF ApplyPublish, inst
<1>5. /\ backup' \in [Epochs -> [Gens -> Configs \cup {NoConfig}]]
      /\ faults' = faults \/ (faults < MaxFaults /\ faults' = faults + 1)
  BY <1>2, <1>3, RemoveBackupEffect, Zenon DEF ControlInv, TypeOK
<1>6. /\ OpTypeOK' /\ PointInv' /\ QuarantineWindow' /\ held' = {} /\ pc' = "idle"
      /\ op'.new.epoch = 0 /\ op'.old.epoch = 0
  BY <1>3, Finished, Zenon
<1>7. TypeOK'
  <2>1. CtrlTypeOK'
    BY <1>2, <1>3, <1>4, RevFacts, Zenon DEF ControlInv, TypeOK, CtrlTypeOK, CoreStates
  <2>2. InstTypeOK' /\ DiskTypeOK' /\ CountersOK'
    BY <1>4, <1>5, BoundsAssumption
       DEF ControlInv, TypeOK, InstTypeOK, DiskTypeOK, CountersOK
  <2> QED BY <1>6, <2>1, <2>2, Zenon DEF TypeOK
<1>8. Control' /\ epoch <= epoch'
  BY <1>1, <1>3, <1>4, <1>6, InFlight DEF Control, DownIsEmpty, EpochsAllocated
<1>9. LiveHasRecord' /\ \A e \in Epochs : Live(e)' => Live(e)
  BY <1>4, Zenon DEF ControlInv, Processes, LiveHasRecord, Live
<1> QED BY <1>2, <1>3, <1>4, <1>6, <1>7, <1>8, <1>9, Passed, Zenon

(* The stopped epoch is confirmed dead before its replacement, or          *)
(* quarantined.                                                            *)
LEMMA ApplyStoppedStep ==
    ASSUME ControlInv, ApplyStopped
    PROVE  ControlInv'
<1>1. pc = "applyStop" /\ AtApplyStop
  BY Zenon DEF ApplyStopped, ControlInv, PointInv
<1>2. /\ current = NoRev /\ op.new \in Revs /\ op.old \in Revs /\ op.old.epoch \in Epochs
      /\ op.new.epoch = op.old.epoch /\ held = {op.old.epoch}
      /\ op.old.epoch # current.epoch
  BY <1>1, RevFacts, EpochFacts DEF AtApplyStop, Took, Holds, SameEpoch
<1>3. up /\ op \in Ops /\ DiskTypeOK
  BY <1>1, InFlight, Zenon DEF ControlInv, TypeOK
<1>4. UNCHANGED <<up, epoch, current, lastSpec, config, backup, fwd, crashes, kills>>
  BY Zenon DEF ApplyStopped
<1>5. CASE Unconfirmed(op.old.epoch) /\ LatchQuarantine({op.old.epoch}) /\ UNCHANGED record
  BY <1>2, <1>3, <1>4, <1>5, Latched, Zenon DEF DiskTypeOK
<1>6. CASE /\ ConfirmedDead(op.old.epoch) /\ KeepOrDropRecord(op.old.epoch)
           /\ status' = [state |-> "Restarting", rev |-> op.new]
           /\ op' = [op EXCEPT !.mode = "apply"]
           /\ pc' = "replaceSpawn" /\ held' = {}
           /\ UNCHANGED <<quarantine, proven, faults>>
  <2>1. DiskTypeOK' /\ \A f \in Epochs : f # op.old.epoch => record'[f] = record[f]
    BY <1>2, <1>3, <1>4, <1>6, RecordEffect, Zenon DEF DiskTypeOK
  <2>2. /\ op' \in Ops /\ op'.new = op.new /\ op'.old = op.old /\ op'.mode = "apply"
    BY <1>3, <1>6, Zenon DEF Ops, Modes
  <2>3. Replaces'
    BY <1>2, <2>2, Zenon DEF Replaces, SameEpoch
  <2>4. status' \in [state : CoreStates, rev : Revs \cup {NoRev}]
    BY <1>2, <1>6, Zenon DEF CoreStates
  <2> QED BY <1>1, <1>2, <1>4, <1>6, <2>1, <2>2, <2>3, <2>4, StopsForReplacement, Zenon
<1> QED BY <1>5, <1>6, Zenon DEF ApplyStopped, Goto, Publish

-----------------------------------------------------------------------------
(* apply_config through another epoch.                                     *)

(* The old core is taken out and held only once the new configuration is   *)
(* on disk.                                                                *)
LEMMA SwitchPrepareStep ==
    ASSUME ControlInv, SwitchPrepare
    PROVE  ControlInv'
<1> DEFINE r == Rev(epoch + 1, 1, op.spec)
<1>1. /\ pc = "switchPrepare" /\ AtPrepare /\ NextEpoch /\ op.spec \in Specs
      /\ held = {} /\ up
  BY InFlight, Zenon DEF SwitchPrepare, ControlInv, PointInv, AtPrepare, Retains
<1>2. /\ r \in Revs /\ r.epoch = epoch + 1 /\ Full(r.spec) \in Configs
      /\ epoch + 1 \in Epochs /\ epoch' = epoch + 1 /\ epoch' \in 0..MaxEpoch
  BY <1>1, FreshEpoch, ConfigFacts, Zenon
<1>3. /\ UNCHANGED <<up, lastSpec, quarantine, proven, supervised, proc, record, backup>>
      /\ UNCHANGED <<status, crashes, kills>>
  BY Zenon DEF SwitchPrepare
<1>4. status' \in [state : CoreStates, rev : Revs \cup {NoRev}]
  BY <1>3, Zenon DEF ControlInv, TypeOK, CtrlTypeOK
<1> HIDE DEF r
<1>5. CASE /\ PrepareFailed(r.epoch, Full(r.spec)) /\ Finish
           /\ UNCHANGED <<current, fwd, life>>
  <2>1. /\ DiskTypeOK'
        /\ faults' = faults \/ (faults < MaxFaults /\ faults' = faults + 1)
    BY <1>2, <1>3, <1>5, PrepareFailedEffect, Zenon DEF ControlInv, TypeOK, DiskTypeOK
  <2>2. LiveHasRecord'
    BY <1>3, Zenon DEF ControlInv, Processes, LiveHasRecord, Live
  <2>3. epoch' <= MaxEpoch
    BY <1>2
  <2> QED BY <1>1, <1>2, <1>3, <1>4, <1>5, <2>1, <2>2, Returns
<1>6. CASE /\ config' = [config EXCEPT ![r.epoch] = Full(r.spec)]
           /\ op' = [op EXCEPT !.new = r, !.old = current]
           /\ held' = {current.epoch} /\ TakeCurrent /\ BeginStop(current.epoch)
           /\ pc' = "switchStop" /\ UNCHANGED faults
  BY <1>1, <1>2, <1>3, <1>4, <1>6, TakesForStop, Zenon
<1> QED BY <1>5, <1>6, Zenon DEF SwitchPrepare, Goto, r

(* The old epoch is confirmed dead before the new one is spawned, or       *)
(* quarantined.                                                            *)
LEMMA SwitchStoppedStep ==
    ASSUME ControlInv, SwitchStopped
    PROVE  ControlInv'
<1>1. pc = "switchStop" /\ AtStopFirst
  BY Zenon DEF SwitchStopped, ControlInv, PointInv
<1>2. /\ current = NoRev /\ op.new \in Revs /\ op.old \in Revs /\ op.old.epoch \in Epochs
      /\ op.new.epoch \in Epochs /\ op.new.epoch # op.old.epoch /\ held = {op.old.epoch}
      /\ op.old.epoch # current.epoch /\ ~Live(op.new.epoch)
  BY <1>1, RevFacts, EpochFacts DEF AtStopFirst, Took, Holds, AnotherEpoch, Dead
<1>3. up /\ op \in Ops /\ DiskTypeOK
  BY <1>1, InFlight, Zenon DEF ControlInv, TypeOK
<1>4. UNCHANGED <<up, epoch, current, lastSpec, backup, fwd, crashes, kills>>
  BY Zenon DEF SwitchStopped
<1>5. CASE /\ Unconfirmed(op.old.epoch) /\ DropConfig(op.new.epoch)
           /\ LatchQuarantine({op.old.epoch}) /\ UNCHANGED record
  <2>1. DiskTypeOK'
    BY <1>2, <1>3, <1>4, <1>5, DropConfigEffect, Zenon DEF DiskTypeOK
  <2> QED BY <1>2, <1>3, <1>4, <1>5, <2>1, Latched, Zenon
<1>6. CASE /\ ConfirmedDead(op.old.epoch) /\ KeepOrDropRecord(op.old.epoch)
           /\ status' = [state |-> "Switching", rev |-> op.new]
           /\ op' = [op EXCEPT !.mode = "switch"]
           /\ pc' = "replaceSpawn" /\ held' = {}
           /\ UNCHANGED <<config, quarantine, proven, faults>>
  <2>1. DiskTypeOK' /\ \A f \in Epochs : f # op.old.epoch => record'[f] = record[f]
    BY <1>2, <1>3, <1>4, <1>6, RecordEffect, Zenon DEF DiskTypeOK
  <2>2. /\ op' \in Ops /\ op'.new = op.new /\ op'.old = op.old /\ op'.mode = "switch"
    BY <1>3, <1>6, Zenon DEF Ops, Modes
  <2>3. Replaces'
    BY <1>2, <2>2, Zenon DEF Replaces, AnotherEpoch
  <2>4. status' \in [state : CoreStates, rev : Revs \cup {NoRev}]
    BY <1>2, <1>6, Zenon DEF CoreStates
  <2> QED BY <1>1, <1>2, <1>4, <1>6, <2>1, <2>2, <2>3, <2>4, StopsForReplacement, Zenon
<1> QED BY <1>5, <1>6, Zenon DEF SwitchStopped, Goto, Publish

-----------------------------------------------------------------------------
(* Backups, as long as no fault has occurred.                              *)

ReplacementPCs == {"replaceSpawn", "replaceReady", "replaceReject", "replaceInstall",
                   "replacePublish"}

(* An in-place apply is between the replacement of the active file and the *)
(* removal of its backup.                                                  *)
InUse(p, o) ==
    \/ p \in {"applyReconcile", "applyPublish", "applyStop"}
    \/ p \in ReplacementPCs /\ o.mode \in {"apply", "applyRollback"}

(* The epochs that are or may become active: the active one, those of the  *)
(* operation, and those not handed out. A failed rollback leaves its       *)
(* backup in an epoch that is none of them.                                *)
InPlay(n, c, o) == {e \in Epochs : e > n \/ e \in {c.epoch, o.new.epoch, o.old.epoch}}

BackedUp(p, n, c, o, b) ==
    \A e \in InPlay(n, c, o), g \in Gens :
        b[e][g] # NoConfig => InUse(p, o) /\ e = o.old.epoch /\ g = o.new.gen
BackupNow == BackedUp(pc, epoch, current, op, backup)
BackupInv == faults = 0 => BackupNow

(* No backup appears.                                                      *)
NoNewBackup ==
    \A e \in Epochs, g \in Gens : backup'[e][g] # NoConfig => backup[e][g] # NoConfig

(* A step keeps the backups in their place when no other epoch comes into  *)
(* play and the apply, if there is one, goes on.                           *)
LEMMA BackupsStay ==
    ASSUME BackupNow, NoNewBackup,
           InPlay(epoch', current', op') \subseteq InPlay(epoch, current, op),
           InUse(pc, op) => /\ InUse(pc', op')
                            /\ op'.old.epoch = op.old.epoch /\ op'.new.gen = op.new.gen
    PROVE  BackupNow'
<1>1. InPlay(epoch, current, op) \subseteq Epochs
  BY Zenon DEF InPlay
<1> QED BY <1>1, Zenon DEF BackupNow, BackedUp, NoNewBackup

(* When no backup is in use none is left in play.                          *)
LEMMA BackupsGone ==
    ASSUME BackupNow, ~InUse(pc, op), NoNewBackup,
           InPlay(epoch', current', op') \subseteq InPlay(epoch, current, op)
    PROVE  BackupNow'
BY BackupsStay, Zenon

(* What an assignment to one field of the operation's locals leaves.       *)
LEMMA OpEffect ==
    ASSUME op \in Ops
    PROVE  /\ \A x : op' = [op EXCEPT !.seen = x] =>
                 op'.new = op.new /\ op'.old = op.old /\ op'.mode = op.mode
           /\ \A x : op' = [op EXCEPT !.mode = x] =>
                 op'.new = op.new /\ op'.old = op.old /\ op'.mode = x
           /\ \A x : op' = [op EXCEPT !.old = x] => op'.new = op.new /\ op'.old = x
           /\ \A x : op' = [op EXCEPT !.new = x] => op'.new = x /\ op'.old = op.old
           /\ \A x, y : op' = [op EXCEPT !.new = x, !.old = y] => op'.new = x /\ op'.old = y
BY Zenon DEF Ops

(* The locals of an operation that begins.                                 *)
LEMMA NewOpEffect ==
    /\ \A x : op' = [NoOp EXCEPT !.spec = x] => op'.new = NoRev /\ op'.old = NoRev
    /\ \A x : op' = [NoOp EXCEPT !.old = x] => op'.new = NoRev /\ op'.old = x
    /\ \A x, y : op' = [NoOp EXCEPT !.spec = x, !.old = y] => op'.new = NoRev /\ op'.old = y
    /\ Finish => op'.new = NoRev /\ op'.old = NoRev
BY OpFacts, Zenon DEF Ops, Finish

(* The revisions the manager works with, before and after a step.          *)
StaysWithin(R) == {current', op'.new, op'.old} \subseteq {current, op.new, op.old, NoRev} \cup R

(* Whatever a step does with the revisions it has, it brings no epoch into *)
(* play.                                                                   *)
LEMMA SamePlay ==
    ASSUME epoch' = epoch, StaysWithin({})
    PROVE  InPlay(epoch', current', op') \subseteq InPlay(epoch, current, op)
<1>1. NoRev.epoch \notin Epochs
  BY RevFacts, EpochFacts
<1>2. \A r \in {current', op'.new, op'.old} : r \in {current, op.new, op.old, NoRev}
  BY Zenon DEF StaysWithin
<1> QED BY <1>1, <1>2, Zenon DEF InPlay

(* An epoch that is handed out was in play.                                *)
LEMMA FreshPlay ==
    ASSUME ControlInv, NextEpoch, NEW r, r.epoch = epoch + 1, StaysWithin({r})
    PROVE  InPlay(epoch', current', op') \subseteq InPlay(epoch, current, op)
<1>1. NoRev.epoch \notin Epochs
  BY RevFacts, EpochFacts
<1>2. \A q \in {current', op'.new, op'.old} : q \in {current, op.new, op.old, NoRev, r}
  BY Zenon DEF StaysWithin
<1>3. \A e \in Epochs : e > epoch' \/ e = epoch + 1 => e > epoch
  BY EpochFacts DEF NextEpoch, ControlInv, TypeOK, CtrlTypeOK
<1> QED BY <1>1, <1>2, <1>3, Zenon DEF InPlay

(* cleanup_epoch removes backups and writes none.                          *)
LEMMA CleanupBackups ==
    ASSUME ControlInv,
           backup' = backup \/ \E e \in Epochs : CleanupOk(e)
    PROVE  NoNewBackup
<1>1. CASE backup' = backup
  BY <1>1, Zenon DEF NoNewBackup
<1>2. ASSUME NEW e \in Epochs, CleanupOk(e)
      PROVE  NoNewBackup
  <2>1. /\ backup' = [backup EXCEPT ![e] = NoBackups]
        /\ backup \in [Epochs -> [Gens -> Configs \cup {NoConfig}]]
    BY <1>2, Zenon DEF CleanupOk, ControlInv, TypeOK, DiskTypeOK
  <2>2. backup'[e] = NoBackups /\ \A f \in Epochs : f # e => backup'[f] = backup[f]
    BY <2>1, Zenon
  <2>3. \A g \in Gens : NoBackups[g] = NoConfig
    BY Zenon DEF NoBackups
  <2> QED BY <2>2, <2>3, Zenon DEF NoNewBackup
<1> QED BY <1>1, <1>2, Zenon

(* A step of an operation that has written no backup.                      *)
LEMMA Unaffected ==
    ASSUME ControlInv, BackupNow, ~InUse(pc, op),
           backup' = backup \/ \E e \in Epochs : CleanupOk(e),
           epoch' = epoch, StaysWithin({})
    PROVE  BackupNow'
BY BackupsGone, SamePlay, CleanupBackups, Zenon

(* A request writes no backup.                                             *)
LEMMA RequestBackup ==
    ASSUME ControlInv, StatusInv, BackupInv, faults' = 0, Request
    PROVE  BackupNow'
<1> DEFINE Asks == /\ pc = "idle" /\ faults' = faults /\ epoch' = epoch /\ backup' = backup
                   /\ current' \in {current, NoRev}
                   /\ op'.new = NoRev /\ op'.old \in {current, NoRev}
<1>1. ASSUME Asks
      PROVE  BackupNow'
  <2>1. BackupNow /\ ~InUse(pc, op) /\ StaysWithin({})
    BY <1>1, Zenon DEF BackupInv, InUse, ReplacementPCs, StaysWithin
  <2> QED BY <1>1, <2>1, Unaffected, Zenon
<1>2. ASSUME NEW d, pc = "idle", LaunchFresh(d)
      PROVE  Asks
  BY <1>2, NewOpEffect, Zenon DEF LaunchFresh, TakeCurrent, disk
<1> HIDE DEF Asks
<1>3. ASSUME NEW d, Switch(d)
      PROVE  Asks
  <2>1. pc = "idle"
    BY <1>3, Zenon DEF Switch, Admitted
  <2>2. CASE LaunchFresh(d)
    BY <1>2, <2>1, <2>2, Zenon
  <2>3. CASE ~LaunchFresh(d)
    <3>1. op' = [NoOp EXCEPT !.spec = d] /\ UNCHANGED <<faults, epoch, backup, current>>
      BY <1>3, <2>3, Zenon DEF Switch, ctrlVars, disk
    <3> QED BY <2>1, <3>1, NewOpEffect, Zenon DEF Asks
  <2> QED BY <2>2, <2>3, Zenon
<1>4. CASE \E d \in Specs : Start(d)
  BY <1>1, <1>2, <1>4, Zenon DEF Start, Admitted
<1>5. CASE Restart \/ \E d \in Specs : Switch(d)
  BY <1>1, <1>3, <1>5, Zenon DEF Restart
<1>6. ASSUME NEW d, NEW expected, NEW class, ApplyConfig(d, expected, class)
      PROVE  Asks
  BY <1>6, NewOpEffect, Zenon DEF ApplyConfig, Admitted, ctrlVars, disk, Asks
<1>7. CASE Stop \/ Shutdown
  <2>1. Asks
    BY <1>7, NewOpEffect, Zenon DEF Stop, Shutdown, TakeCurrent, disk, Asks
  <2> QED BY <1>1, <2>1, Zenon
<1>8. ~RecoverQuarantine
  <2>1. RecoverQuarantine => faults = 0 /\ quarantine # {}
    BY FaultFree, Zenon DEF RecoverQuarantine, NoFault
  <2> QED BY <2>1, Zenon DEF StatusInv, StatusNow
<1> QED BY <1>1, <1>4, <1>5, <1>6, <1>7, <1>8, Zenon DEF Request

(* An operation that is handed a new epoch has not applied in place.       *)
LEMMA AllocationBackup ==
    ASSUME ControlInv, BackupInv, faults' = 0,
           Launch \/ HardPrepare \/ GracefulPrepare \/ SwitchPrepare
    PROVE  BackupNow'
<1> DEFINE r == Rev(epoch + 1, 1, op.spec)
<1>1. op \in Ops /\ op.spec \in Specs /\ pc \in {"launch", "hardPrepare", "gPrepare", "switchPrepare"}
  BY Zenon DEF Launch, HardPrepare, GracefulPrepare, SwitchPrepare, ControlInv, TypeOK,
       OpTypeOK, PointInv, AtLaunch, AtPrepare
<1>2. NextEpoch /\ backup' = backup /\ faults = 0
  BY FaultFree, Zenon DEF Launch, HardPrepare, GracefulPrepare, SwitchPrepare, disk, NoFault,
       PrepareFailed
<1>3. r.epoch = epoch + 1
  BY <1>1, <1>2, FreshEpoch, Zenon
<1>4. StaysWithin({r})
  <2>1. CASE Launch
    BY <1>1, <2>1, OpEffect, NewOpEffect, Zenon DEF Launch, ctrlVars, StaysWithin
  <2>2. CASE HardPrepare
    BY <1>1, <2>2, OpEffect, NewOpEffect,
      Zenon DEF HardPrepare, ReadRetained, TakeCurrent, StaysWithin
  <2>3. CASE GracefulPrepare
    BY <1>1, <2>3, OpEffect, NewOpEffect,
      Zenon DEF GracefulPrepare, ReadRetained, ctrlVars, StaysWithin
  <2>4. CASE SwitchPrepare
    BY <1>1, <2>4, OpEffect, NewOpEffect,
      Zenon DEF SwitchPrepare, TakeCurrent, StaysWithin
  <2> QED BY <2>1, <2>2, <2>3, <2>4, Zenon
<1>5. ~InUse(pc, op) /\ BackupNow
  BY <1>1, <1>2, Zenon DEF InUse, ReplacementPCs, BackupInv
<1> QED BY <1>2, <1>3, <1>4, <1>5, FreshPlay, CleanupBackups, BackupsGone, Zenon

(* The other steps of a start, a stop, a switch.                           *)
LEMMA SwitchBackup ==
    ASSUME ControlInv, StatusInv, BackupInv, faults' = 0,
           \/ StaleStopped \/ StartSpawn \/ StartReady \/ StartInstall \/ StartReject
           \/ StopDone \/ HardStopped \/ Republish
           \/ GracefulSpawn \/ GracefulReady \/ GracefulReject \/ GracefulOldStopped
           \/ GracefulAbort \/ GracefulCommit \/ GracefulCommitFailed
           \/ GracefulReconcile \/ GracefulInstall \/ GracefulReplaceStopped
           \/ SwitchStopped
    PROVE  BackupNow'
<1> USE FaultFree
<1> DEFINE Cleans == \E e \in Epochs : CleanupOk(e)
<1> DEFINE Quiet == /\ epoch' = epoch /\ faults' = faults
                    /\ ~InUse(pc, op) /\ StaysWithin({})
                    /\ backup' = backup \/ Cleans
<1>1. ASSUME Quiet
      PROVE  BackupNow'
  BY <1>1, Unaffected, Zenon DEF BackupInv
<1> HIDE DEF Cleans
<1>2. op \in Ops /\ PointInv
  BY Zenon DEF ControlInv, TypeOK, OpTypeOK
<1>3. CASE StaleStopped \/ StopDone \/ HardStopped
  <2>1. pc \in {"staleStop", "stopStale", "stopWait", "hardStop"}
    BY <1>3, Zenon DEF StaleStopped, StopDone, HardStopped
  <2>2. op.old.epoch \in Epochs
    BY <1>2, <2>1, RevFacts, Zenon DEF PointInv, AtStaleStop, AtStop, AtStopFirst, Holds
  <2>3. CleanupOk(op.old.epoch) /\ epoch' = epoch /\ current' = current
    BY <1>3, Zenon DEF StaleStopped, StopDone, HardStopped
  <2>4. op' = op \/ Finish
    BY <1>3, Zenon DEF StaleStopped, StopDone, HardStopped
  <2>5. ~InUse(pc, op) /\ StaysWithin({}) /\ faults' = faults
    BY <2>1, <2>3, <2>4, NewOpEffect,
      Zenon DEF InUse, ReplacementPCs, StaysWithin, CleanupOk, NoFault
  <2> QED BY <1>1, <2>2, <2>3, <2>5, Zenon DEF Cleans
<1>4. CASE StartSpawn \/ StartReject \/ GracefulCommitFailed
  <2>1. pc \in {"startSpawn", "startReject", "gCommitFail"}
    BY <1>4, Zenon DEF StartSpawn, StartReject, GracefulCommitFailed
  <2>2. op.new.epoch \in Epochs
    BY <1>2, <2>1, RevFacts,
      Zenon DEF PointInv, AtStartSpawn, AtStart, AtCommit, AtReconcile, Holds, Dead
  <2>3. /\ epoch' = epoch /\ current' = current
        /\ \/ CleanupOk(op.new.epoch) /\ Finish
           \/ UNCHANGED <<op, backup, faults>>
    BY <1>4, Zenon DEF StartSpawn, StartReject, GracefulCommitFailed, Cleanup, ctrlVars
  <2>4. ~InUse(pc, op) /\ StaysWithin({}) /\ faults' = faults
    BY <2>1, <2>3, NewOpEffect,
      Zenon DEF InUse, ReplacementPCs, StaysWithin, CleanupOk, NoFault
  <2> QED BY <1>1, <2>2, <2>3, <2>4, Zenon DEF Cleans
<1>5. CASE StartReady \/ StartInstall \/ Republish
  <2>1. pc \in {"startReady", "startInstall", "republish"}
    BY <1>5, Zenon DEF StartReady, StartInstall, Republish
  <2>2. /\ epoch' = epoch /\ current' \in {current, op.new}
        /\ op' = op \/ Finish
        /\ UNCHANGED <<backup, faults>>
    BY <1>5, Zenon DEF StartReady, StartInstall, Republish, InstallNew, ctrlVars, disk
  <2>3. ~InUse(pc, op) /\ StaysWithin({})
    BY <2>1, <2>2, NewOpEffect, Zenon DEF InUse, ReplacementPCs, StaysWithin
  <2> QED BY <1>1, <2>2, <2>3, Zenon
<1>6. CASE GracefulSpawn \/ GracefulReject
  <2>1. pc \in {"gSpawn", "gReject"}
    BY <1>6, Zenon DEF GracefulSpawn, GracefulReject
  <2>2. op.new.epoch \in Epochs
    BY <1>2, <2>1, RevFacts, Zenon DEF PointInv, AtOverlapSpawn, AtOverlap, Holds, Dead
  <2>3. /\ epoch' = epoch /\ current' = current
        /\ \/ CleanupOk(op.new.epoch) /\ ReadRetained
           \/ UNCHANGED <<op, backup, faults>>
    BY <1>6, Zenon DEF GracefulSpawn, GracefulReject, Cleanup, ctrlVars
  <2>4. op'.new = op.new /\ op'.old = op.old
    BY <1>2, <2>3, OpEffect, Zenon DEF ReadRetained
  <2>5. ~InUse(pc, op) /\ StaysWithin({}) /\ faults' = faults
    BY <2>1, <2>3, <2>4,
      Zenon DEF InUse, ReplacementPCs, StaysWithin, CleanupOk, NoFault
  <2> QED BY <1>1, <2>2, <2>3, <2>5, Zenon DEF Cleans
<1>7. CASE GracefulReady \/ GracefulOldStopped \/ GracefulCommit
  <2>1. pc \in {"gReady", "gStopOld", "gCommit"}
    BY <1>7, Zenon DEF GracefulReady, GracefulOldStopped, GracefulCommit
  <2>2. /\ epoch' = epoch /\ current' \in {current, NoRev}
        /\ op' = op \/ op' = [op EXCEPT !.old = current]
        /\ UNCHANGED <<backup, faults>>
    BY <1>7, Zenon DEF GracefulReady, GracefulOldStopped, GracefulCommit, TakeCurrent,
         ctrlVars, disk
  <2>3. ~InUse(pc, op) /\ StaysWithin({})
    BY <1>2, <2>1, <2>2, OpEffect, Zenon DEF InUse, ReplacementPCs, StaysWithin
  <2> QED BY <1>1, <2>2, <2>3, Zenon
<1>8. ~GracefulAbort
  <2>1. GracefulAbort => pc = "gAbort" /\ faults = 0
    BY Zenon DEF GracefulAbort, Cleanup, CleanupOk
  <2> QED BY <2>1, Zenon DEF StatusInv, StatusNow
<1>9. CASE GracefulReconcile \/ GracefulReplaceStopped \/ SwitchStopped
  <2>1. pc \in {"gReconcile", "gReplaceStop", "switchStop"}
    BY <1>9, Zenon DEF GracefulReconcile, GracefulReplaceStopped, SwitchStopped
  <2>2. /\ epoch' = epoch /\ current' = current
        /\ op' = op \/ \E x : op' = [op EXCEPT !.mode = x]
        /\ UNCHANGED <<backup, faults>>
    BY <1>9, Zenon DEF GracefulReconcile, GracefulReplaceStopped, SwitchStopped, ctrlVars, disk
  <2>3. ~InUse(pc, op) /\ StaysWithin({})
    BY <1>2, <2>1, <2>2, OpEffect, Zenon DEF InUse, ReplacementPCs, StaysWithin
  <2> QED BY <1>1, <2>2, <2>3, Zenon
<1>10. CASE GracefulInstall
  <2>1. op.old.epoch \in Epochs /\ pc = "gInstall"
    BY <1>2, <1>10, RevFacts, Zenon DEF GracefulInstall, PointInv, AtReconcile, Dead
  <2>2. epoch' = epoch /\ current' = op.new /\ Finish /\ CleanupOk(op.old.epoch)
    BY <1>10, Zenon DEF GracefulInstall, InstallNew, Cleanup
  <2>3. ~InUse(pc, op) /\ StaysWithin({}) /\ faults' = faults
    BY <2>1, <2>2, NewOpEffect,
      Zenon DEF InUse, ReplacementPCs, StaysWithin, CleanupOk, NoFault
  <2> QED BY <1>1, <2>1, <2>2, <2>3, Zenon DEF Cleans
<1> QED BY <1>3, <1>4, <1>5, <1>6, <1>7, <1>8, <1>9, <1>10, Zenon

(* remove_backup takes the one that was in use.                            *)
LEMMA Consumed ==
    ASSUME ControlInv, BackupNow, op.old.epoch \in Epochs, op.new.gen \in Gens,
           backup' = [backup EXCEPT ![op.old.epoch][op.new.gen] = NoConfig],
           epoch' = epoch, StaysWithin({})
    PROVE  BackupNow'
<1>1. backup \in [Epochs -> [Gens -> Configs \cup {NoConfig}]]
  BY Zenon DEF ControlInv, TypeOK, DiskTypeOK
<1>2. \A e \in Epochs, g \in Gens :
         /\ e = op.old.epoch /\ g = op.new.gen => backup'[e][g] = NoConfig
         /\ e # op.old.epoch \/ g # op.new.gen => backup'[e][g] = backup[e][g]
  BY <1>1
<1>3. InPlay(epoch', current', op') \subseteq InPlay(epoch, current, op)
  BY SamePlay, Zenon
<1>4. InPlay(epoch, current, op) \subseteq Epochs
  BY Zenon DEF InPlay
<1>5. ASSUME NEW e \in InPlay(epoch', current', op'), NEW g \in Gens
      PROVE  backup'[e][g] = NoConfig
  <2>1. e \in Epochs /\ e \in InPlay(epoch, current, op)
    BY <1>3, <1>4, Zenon
  <2>2. backup[e][g] # NoConfig => e = op.old.epoch /\ g = op.new.gen
    BY <2>1, Zenon DEF BackupNow, BackedUp
  <2> QED BY <1>2, <2>1, <2>2, Zenon
<1> QED BY <1>5, Zenon DEF BackupNow, BackedUp

(* A failed rollback and the end of the service leave the backup, in an    *)
(* epoch that is no longer in play.                                        *)
LEMMA Abandoned ==
    ASSUME ControlInv, BackupNow, Finish, backup' = backup, epoch' = epoch, current' = NoRev
    PROVE  BackupNow'
<1>1. InPlay(epoch', current', op') \subseteq InPlay(epoch, current, op)
  BY NewOpEffect, SamePlay, Zenon DEF StaysWithin
<1>2. op.old.epoch \in Nat /\ op.old.epoch <= epoch /\ epoch \in Nat
  BY RevFacts, EpochFacts
     DEF ControlInv, TypeOK, CtrlTypeOK, OpTypeOK, Ops, Control, EpochsAllocated
<1>3. NoRev.epoch \notin Epochs
  BY RevFacts, EpochFacts
<1>4. \A e \in InPlay(epoch', current', op') : e > epoch
  BY <1>3, NewOpEffect, Zenon DEF InPlay
<1>5. \A e \in InPlay(epoch', current', op') : e # op.old.epoch
  BY <1>2, <1>4, EpochFacts DEF InPlay
<1> QED BY <1>1, <1>5, Zenon DEF BackupNow, BackedUp

(* The apply in place.                                                     *)
LEMMA ApplyBackup ==
    ASSUME ControlInv, BackupInv, faults' = 0,
           ApplyCommit \/ ApplyReconcile \/ ApplyPublish \/ ApplyStopped
    PROVE  BackupNow'
<1> USE FaultFree
<1>1. op \in Ops /\ PointInv
  BY Zenon DEF ControlInv, TypeOK, OpTypeOK
<1>2. faults = 0 /\ epoch' = epoch /\ BackupNow
  BY Zenon DEF ApplyCommit, ApplyReconcile, ApplyPublish, ApplyStopped, RemoveBackup,
       NoFault, BackupInv
<1>3. CASE ApplyCommit
  <2>1. pc = "applyCommit" /\ current' = current /\ ~InUse(pc, op)
    BY <1>3, Zenon DEF ApplyCommit, ctrlVars, InUse, ReplacementPCs
  <2>2. CASE Finish /\ backup' = backup
    BY <1>2, <2>1, <2>2, NewOpEffect, Unaffected, Zenon DEF StaysWithin
  <2>3. CASE ~(Finish /\ backup' = backup)
    <3> DEFINE g == current.gen + 1
    <3>1. current \in Revs /\ op.spec \in Specs /\ current.gen < MaxGen
      BY <1>1, <2>1, Zenon DEF PointInv, AtApplyCommit, AtPrepare, Retains
    <3>2. current.epoch \in Epochs /\ g \in Gens
      BY <3>1, RevFacts, EpochFacts, Zenon
    <3>3. /\ backup' = [backup EXCEPT ![current.epoch][g] = config[current.epoch]]
          /\ op' = [op EXCEPT !.new = Rev(current.epoch, g, op.spec), !.old = current]
          /\ pc' = "applyReconcile"
      BY <1>3, <2>3, Zenon DEF ApplyCommit, Goto
    <3>4. op'.old = current /\ op'.new.epoch = current.epoch /\ op'.new.gen = g
      <4>1. op'.old = current /\ op'.new = Rev(current.epoch, g, op.spec)
        BY <1>1, <3>3, OpEffect, Zenon
      <4>2. /\ Rev(current.epoch, g, op.spec).epoch = current.epoch
            /\ Rev(current.epoch, g, op.spec).gen = g
        BY <3>1, <3>2, Zenon DEF Rev
      <4> QED BY <4>1, <4>2, Zenon
    <3>5. backup \in [Epochs -> [Gens -> Configs \cup {NoConfig}]]
      BY Zenon DEF ControlInv, TypeOK, DiskTypeOK
    <3>6. \A e \in Epochs, h \in Gens :
             e # current.epoch \/ h # g => backup'[e][h] = backup[e][h]
      BY <3>2, <3>3, <3>5
    <3>7. /\ InPlay(epoch', current', op') \subseteq InPlay(epoch, current, op)
          /\ InPlay(epoch, current, op) \subseteq Epochs
      BY <1>2, <2>1, <3>4, Zenon DEF InPlay
    <3>8. InUse(pc', op')
      BY <3>3, Zenon DEF InUse
    <3> HIDE DEF g
    <3>9. ASSUME NEW e \in InPlay(epoch', current', op'), NEW h \in Gens,
                 backup'[e][h] # NoConfig
          PROVE  e = current.epoch /\ h = g
      <4>1. e \in Epochs /\ e \in InPlay(epoch, current, op)
        BY <3>7, Zenon
      <4>2. backup[e][h] = NoConfig
        BY <1>2, <2>1, <4>1, Zenon DEF BackupNow, BackedUp
      <4> QED BY <3>6, <3>9, <4>1, <4>2, Zenon
    <3> QED BY <3>4, <3>8, <3>9, Zenon DEF BackupNow, BackedUp
  <2> QED BY <2>2, <2>3, Zenon
<1>4. CASE ApplyReconcile
  <2>1. /\ current' \in {current, NoRev} /\ op' = op /\ backup' = backup
        /\ pc' \in {"applyPublish", "applyStop"}
    BY <1>4, Zenon DEF ApplyReconcile, TakeCurrent, Goto, disk
  <2>2. InUse(pc', op') /\ StaysWithin({})
    BY <2>1, Zenon DEF InUse, StaysWithin
  <2> QED BY <1>2, <2>1, <2>2, SamePlay, CleanupBackups, BackupsStay, Zenon
<1>5. CASE ApplyPublish
  <2>1. op.old.epoch \in Epochs /\ op.new.gen \in Gens
    BY <1>1, <1>5, RevFacts, Zenon DEF ApplyPublish, PointInv, AtApply, SameEpoch
  <2>2. /\ Finish /\ current' = op.new
        /\ backup' = [backup EXCEPT ![op.old.epoch][op.new.gen] = NoConfig]
    BY <1>5, Zenon DEF ApplyPublish, RemoveBackup
  <2>3. StaysWithin({})
    BY <2>2, NewOpEffect, Zenon DEF StaysWithin
  <2> QED BY <1>2, <2>1, <2>2, <2>3, Consumed, Zenon
<1>6. CASE ApplyStopped
  <2>1. /\ current' = current /\ op' = [op EXCEPT !.mode = "apply"] /\ backup' = backup
        /\ pc' = "replaceSpawn"
    BY <1>6, Zenon DEF ApplyStopped, Goto
  <2>2. op'.new = op.new /\ op'.old = op.old /\ op'.mode = "apply"
    BY <1>1, <2>1, OpEffect, Zenon
  <2>3. InUse(pc', op') /\ StaysWithin({})
    BY <2>1, <2>2, Zenon DEF InUse, ReplacementPCs, StaysWithin
  <2> QED BY <1>2, <2>1, <2>2, <2>3, SamePlay, CleanupBackups, BackupsStay, Zenon
<1> QED BY <1>3, <1>4, <1>5, <1>6, Zenon

(* A replacement that failed: the desired one falls back to its backup,    *)
(* the restored one gives up.                                              *)
LEMMA FailedBackup ==
    ASSUME ControlInv, BackupInv, faults' = 0, pc \in ReplacementPCs, current = NoRev,
           Replaces, ReplaceFailed, epoch' = epoch, current' = current
    PROVE  BackupNow'
<1> USE FaultFree
<1>1. op \in Ops /\ op.new.epoch \in Epochs
  BY RevFacts, Zenon DEF ControlInv, TypeOK, OpTypeOK, Replaces, SameEpoch, AnotherEpoch
<1>2. faults = 0 /\ BackupNow
  BY Zenon DEF ReplaceFailed, Cleanup, CleanupOk, NoFault, BackupInv
<1>3. CASE op.mode \in {"graceful", "switch"}
  <2>1. CleanupOk(op.new.epoch) /\ (Finish \/ op' = [op EXCEPT !.mode = "switchRollback"])
    BY <1>3, Zenon DEF ReplaceFailed, Cleanup
  <2>2. ~InUse(pc, op) /\ StaysWithin({})
    BY <1>1, <1>3, <2>1, NewOpEffect, OpEffect,
      Zenon DEF InUse, ReplacementPCs, StaysWithin
  <2> QED BY <1>1, <1>2, <2>1, <2>2, Unaffected, Zenon
<1>4. CASE op.mode = "apply"
  <2>1. /\ op' = [op EXCEPT !.mode = "applyRollback"] /\ backup' = backup
        /\ pc' = "replaceSpawn"
    BY <1>4, Zenon DEF ReplaceFailed, Goto
  <2>2. op'.new = op.new /\ op'.old = op.old /\ op'.mode = "applyRollback"
    BY <1>1, <2>1, OpEffect, Zenon
  <2>3. InUse(pc', op') /\ StaysWithin({})
    BY <2>1, <2>2, Zenon DEF InUse, ReplacementPCs, StaysWithin
  <2> QED BY <1>2, <2>1, <2>2, <2>3, SamePlay, CleanupBackups, BackupsStay, Zenon
<1>5. CASE op.mode \in {"applyRollback", "switchRollback"}
  <2>1. Finish /\ backup' = backup
    BY <1>5, Zenon DEF ReplaceFailed
  <2> QED BY <1>2, <2>1, Abandoned, Zenon
<1> QED BY <1>3, <1>4, <1>5, Zenon DEF Replaces

(* The replacement and its rollbacks.                                      *)
LEMMA ReplaceBackup ==
    ASSUME ControlInv, BackupInv, faults' = 0,
           ReplaceSpawn \/ ReplaceReady \/ ReplaceReject \/ ReplaceInstall \/ ReplacePublish
    PROVE  BackupNow'
<1> USE FaultFree
<1>1. epoch' = epoch /\ pc \in ReplacementPCs /\ PointInv
  BY Zenon DEF ReplaceSpawn, ReplaceReady, ReplaceReject, ReplaceInstall, ReplacePublish,
       ReplacementPCs, ControlInv
<1>2. Replaces /\ (pc # "replacePublish" => current = NoRev)
  BY <1>1, Zenon DEF ReplacementPCs, PointInv, AtReplaceSpawn, AtReplace, AtReplacePublish,
       Took
<1>3. op.old \in Revs /\ op.new \in Revs /\ op.old.epoch \in Epochs /\ op.new.gen \in Gens
  BY <1>2, RevFacts, Zenon DEF Replaces, SameEpoch, AnotherEpoch
<1>4. ASSUME faults' = faults, op' = op, backup' = backup, pc' \in ReplacementPCs,
             current' \in {current, op.new, op.old}
      PROVE  BackupNow'
  <2>1. BackupNow /\ StaysWithin({})
    BY <1>4, Zenon DEF BackupInv, StaysWithin
  <2>2. InUse(pc, op) => InUse(pc', op')
    BY <1>1, <1>4, Zenon DEF InUse, ReplacementPCs
  <2> QED BY <1>1, <1>4, <2>1, <2>2, SamePlay, CleanupBackups, BackupsStay, Zenon
<1>5. CASE ReplaceSpawn \/ ReplaceReject
  <2>1. current' = current /\ current = NoRev
    BY <1>2, <1>5, Zenon DEF ReplaceSpawn, ReplaceReject, ctrlVars
  <2>2. CASE ReplaceFailed
    BY <1>1, <1>2, <2>1, <2>2, FailedBackup, Zenon
  <2>3. CASE ~ReplaceFailed
    <3>1. UNCHANGED <<op, backup, faults>> /\ pc' = "replaceReady"
      BY <1>5, <2>3, Zenon DEF ReplaceSpawn, ReplaceReject, Goto
    <3> QED BY <1>4, <2>1, <3>1, Zenon DEF ReplacementPCs
  <2> QED BY <2>2, <2>3, Zenon
<1>6. CASE ReplaceReady
  <2>1. UNCHANGED <<op, backup, faults, current>> /\ pc' \in ReplacementPCs
    BY <1>6, Zenon DEF ReplaceReady, Goto, ctrlVars, disk, ReplacementPCs
  <2> QED BY <1>4, <2>1, Zenon
<1>7. CASE ReplaceInstall
  <2>1. CASE op.mode = "graceful"
    <3>1. CleanupOk(op.old.epoch) /\ Finish /\ current' = op.new
      BY <1>7, <2>1, Zenon DEF ReplaceInstall, InstallNew, Cleanup
    <3>2. /\ ~InUse(pc, op) /\ StaysWithin({})
          /\ faults' = faults
      BY <1>1, <2>1, <3>1, NewOpEffect,
        Zenon DEF InUse, ReplacementPCs, StaysWithin, CleanupOk, NoFault
    <3> QED BY <1>1, <1>3, <3>1, <3>2, Unaffected, Zenon DEF BackupInv
  <2>2. CASE op.mode # "graceful"
    <3>1. /\ UNCHANGED <<op, backup, faults>> /\ pc' = "replacePublish"
          /\ current' \in {op.new, op.old}
      BY <1>7, <2>2, Zenon DEF ReplaceInstall, Goto, disk, ReplaceRev
    <3> QED BY <1>4, <3>1, Zenon DEF ReplacementPCs
  <2> QED BY <2>1, <2>2, Zenon
<1>8. CASE ReplacePublish
  <2>1. Finish /\ current' = current /\ StaysWithin({})
    BY <1>8, NewOpEffect, Zenon DEF ReplacePublish, ctrlVars, StaysWithin
  <2>2. faults' = faults /\ BackupNow
    BY <1>8, Zenon DEF ReplacePublish, RemoveBackup, Cleanup, CleanupOk, NoFault, BackupInv
  <2>3. CASE op.mode \in {"apply", "applyRollback"}
    <3>1. backup' = [backup EXCEPT ![op.old.epoch][op.new.gen] = NoConfig]
      BY <1>8, <2>3, Zenon DEF ReplacePublish, RemoveBackup
    <3> QED BY <1>1, <1>3, <2>1, <2>2, <3>1, Consumed, Zenon
  <2>4. CASE op.mode \notin {"apply", "applyRollback"}
    <3>1. backup' = backup \/ CleanupOk(op.old.epoch)
      BY <1>8, <2>4, Zenon DEF ReplacePublish, Cleanup, disk
    <3>2. ~InUse(pc, op)
      BY <1>1, <2>4, Zenon DEF InUse, ReplacementPCs
    <3> QED BY <1>1, <1>3, <2>1, <2>2, <3>1, <3>2, Unaffected, Zenon
  <2> QED BY <2>3, <2>4, Zenon
<1> QED BY <1>5, <1>6, <1>7, <1>8, Zenon

(* Nothing outside the operations writes a backup.                         *)
LEMMA EnvironmentBackup ==
    ASSUME ControlInv, BackupInv, faults' = 0, ~CallerDrops, Environment
    PROVE  BackupNow'
<1> USE FaultFree
<1>1. ASSUME UNCHANGED <<pc, epoch, current, op, backup, faults>>
      PROVE  BackupNow'
  BY <1>1, Zenon DEF BackupInv, BackupNow, BackedUp
<1>2. CASE Kill
  <2>1. Finish /\ UNCHANGED <<backup, epoch, faults>> /\ current' = NoRev
    BY <1>2, Zenon DEF Kill, disk
  <2> QED BY <2>1, Abandoned, Zenon DEF BackupInv
<1>3. CASE Construct
  <2>1. \A e \in Epochs, g \in Gens : backup'[e][g] = NoConfig
    BY <1>3, Zenon DEF Construct, NoBackups
  <2> QED BY <2>1, Zenon DEF BackupNow, BackedUp, InPlay
<1>4. CASE Forward
  BY <1>1, <1>4, Zenon DEF Forward, ctrlVars, disk, opVars
<1>5. ASSUME NEW e \in Epochs,
             \/ ConstructFails(e) \/ InstanceReady(e) \/ InstanceRestarting(e)
             \/ Respawn(e) \/ InstanceStopped(e) \/ ProcessExit(e)
      PROVE  BackupNow'
  <2>1. UNCHANGED <<pc, epoch, current, op, backup, faults>>
    BY <1>5, Zenon DEF ConstructFails, InstanceReady, InstanceRestarting, Respawn,
         InstanceStopped, ProcessExit, ctrlVars, disk, opVars
  <2> QED BY <1>1, <2>1, Zenon
<1> QED BY <1>2, <1>3, <1>4, <1>5, Zenon DEF Environment, DropOperation

(* BackupInv is inductive, with ControlInv and StatusInv.                  *)
LEMMA NextBackup ==
    ASSUME ControlInv, StatusInv, BackupInv, ~CallerDrops, [Next]_vars
    PROVE  BackupInv'
<1> SUFFICES ASSUME faults' = 0
             PROVE  BackupNow'
  BY Zenon DEF BackupInv
<1>1. CASE (\E e \in Epochs : RecoverEntry(e)) \/ RecoverDone
  <2>1. pc = "recover" /\ faults = 0
    BY <1>1, FaultFree, Zenon DEF RecoverEntry, RecoverDone, CleanupOk, NoFault
  <2> QED BY <2>1, Zenon DEF StatusInv, StatusNow
<1>2. CASE UNCHANGED vars
  BY <1>2, Zenon DEF vars, ctrlVars, opVars, disk, BackupInv, BackupNow, BackedUp
<1> QED BY <1>1, <1>2, RequestBackup, AllocationBackup, SwitchBackup, ApplyBackup,
          ReplaceBackup, EnvironmentBackup, Zenon DEF Next, OperationStep
=============================================================================
