------------------------- MODULE CoreManagerProofs --------------------------
(***************************************************************************)
(* ControlInv is an inductive invariant of the core manager, and what      *)
(* follows from it: type correctness, no live process without its pid      *)
(* record, no launch under quarantine. When callers do not drop operations *)
(* every process has an owner and at most one serves: the manager          *)
(* implements ServingSlot; the committed revision is the one on disk; and, *)
(* until a fault occurs, the status is true and no backup is left behind.  *)
(***************************************************************************)
EXTENDS CoreManagerStop, CoreManagerSwitch, MCCoreManager

USE Z3T(60), SMTT(60), ZenonT(20)

-----------------------------------------------------------------------------
(* Who owns the processes, and who serves, when callers do not drop        *)
(* operations.                                                             *)

(* No epoch may serve that could not before, or the new state has no       *)
(* quarantine, where ControlInv and LiveIsOwned leave one candidate.       *)
NoNewServer ==
    \/ up' /\ quarantine' = {}
    \/ \A e \in Epochs : MayServe(e)' => MayServe(e)

(* Traffic does not pass from one epoch to another in one step.            *)
NoHandover == \A e, f \in Epochs : Serving(e) /\ Serving(f)' => e = f

OwnerStep == LiveIsOwned' /\ NoNewServer /\ NoHandover

(* What current and the operation owned they still own, together.          *)
KeepsOwned ==
    \A e \in Epochs : e = current.epoch \/ e \in held
                        => e = current'.epoch \/ e \in held'

(* Points at which the operation owns no instance, the one it stops, the   *)
(* one it launched, or its replacement.                                    *)
HoldsNonePCs == {"idle", "launch", "startSpawn", "hardPrepare", "gPrepare", "gSpawn",
                 "republish", "applyCommit", "applyReconcile", "applyPublish",
                 "switchPrepare", "replaceSpawn", "replacePublish", "recover"}
HoldsOldPCs == {"staleStop", "stopStale", "stopWait", "hardStop", "applyStop",
                "switchStop"}
HoldsNewPCs == {"startReady", "startInstall", "startReject", "gCommit", "gCommitFail",
                "gReconcile", "gInstall", "gReplaceStop"}

(* At every await point the operation owns what it may still have to       *)
(* stop.                                                                   *)
LEMMA PointsOwn ==
    ASSUME ControlInv
    PROVE  /\ pc \in HoldsNonePCs => held = {}
           /\ pc \in HoldsOldPCs => /\ current = NoRev /\ held = {op.old.epoch}
                                    /\ op.old.epoch \in Epochs
           /\ pc \in HoldsNewPCs => /\ current = NoRev /\ held = {op.new.epoch}
                                    /\ op.new.epoch \in Epochs
           /\ pc \in ReplacePCs => /\ current = NoRev /\ held = {ReplaceRev.epoch}
                                   /\ ReplaceRev.epoch \in Epochs
           /\ pc \in {"hardStop", "switchStop"} => op.new.epoch \in Epochs
<1>1. PointInv
  BY Zenon DEF ControlInv
<1>2. pc \in HoldsNonePCs => held = {}
  BY <1>1,
    Zenon DEF PointInv, HoldsNonePCs, AtIdle, AtLaunch, AtStartSpawn, AtPrepare,
         AtOverlapSpawn, AtRepublish, AtApplyCommit, AtApply, AtReplaceSpawn,
         AtReplacePublish, AtRecover, Retains
<1>3. pc \in HoldsOldPCs => current = NoRev /\ Holds(op.old)
  BY <1>1, Zenon DEF PointInv, HoldsOldPCs, AtStaleStop, AtStop, AtStopFirst, AtApplyStop, Took
<1>4. pc \in HoldsNewPCs => current = NoRev /\ Holds(op.new)
  BY <1>1, Zenon DEF PointInv, HoldsNewPCs, AtStart, AtCommit, AtReconcile, Took
<1>5. pc \in ReplacePCs => current = NoRev /\ Holds(ReplaceRev)
  BY <1>1, Zenon DEF PointInv, ReplacePCs, AtReplace, Took
<1>6. pc \in {"hardStop", "switchStop"} => op.new \in Revs
  BY <1>1, Zenon DEF PointInv, AtStopFirst, Dead
<1> QED BY <1>2, <1>3, <1>4, <1>5, <1>6, RevFacts, Zenon DEF Holds

(* Without a quarantine only the active core and those of the operation    *)
(* may live, and a second one is a bootstrap.                              *)
LEMMA Alone ==
    ControlInv /\ LiveIsOwned /\ up /\ quarantine = {} => OneMayServe
<1> SUFFICES ASSUME ControlInv, LiveIsOwned, up, quarantine = {},
                    NEW e \in Epochs, NEW f \in Epochs, MayServe(e), MayServe(f)
             PROVE  e = f
  BY Zenon DEF OneMayServe
<1>1. \A g \in Epochs : MayServe(g) => g = current.epoch \/ g \in held
  BY ConfigFacts,
    Zenon DEF MayServe, Serving, Live, LiveIsOwned, ControlInv, Ownership, SupervisedIsHeld
<1>2. pc \in PCs /\ PointInv
  BY Zenon DEF ControlInv, TypeOK, OpTypeOK
<1>3. current = NoRev => current.epoch \notin Epochs
  BY RevFacts, EpochFacts
<1>4. CASE pc \in {"gReady", "gReject"}
  <2>1. held = {op.new.epoch} /\ ~MayServe(op.new.epoch)
    BY <1>2, <1>4, Zenon DEF PointInv, AtOverlap, Holds, Bootstrapped, MayServe, Serving
  <2> QED BY <1>1, <2>1, Zenon
<1>5. CASE pc \in {"gStopOld", "gAbort"}
  <2>1. /\ current = NoRev /\ held = {op.old.epoch, op.new.epoch}
        /\ ~MayServe(op.new.epoch)
    BY <1>2, <1>5,
      Zenon DEF PointInv, AtAbort, AtStopOld, Took, Bootstrapped, MayServe, Serving
  <2> QED BY <1>1, <1>3, <2>1, Zenon
<1>6. CASE pc \in HoldsNonePCs
  BY <1>1, <1>6, PointsOwn, Zenon
<1>7. CASE pc \in HoldsOldPCs \cup HoldsNewPCs \cup ReplacePCs
  <2>1. current = NoRev /\ held \in {{op.old.epoch}, {op.new.epoch}, {ReplaceRev.epoch}}
    BY <1>7, PointsOwn, Zenon
  <2> QED BY <1>1, <1>3, <2>1
<1> QED BY <1>2, <1>4, <1>5, <1>6, <1>7,
          Zenon DEF PCs, HoldsNonePCs, HoldsOldPCs, HoldsNewPCs, ReplacePCs

(* Inside an operation that may launch there is no quarantine.             *)
LEMMA Clear ==
    ASSUME ControlInv, pc \notin {"idle", "recover", "stopStale", "stopWait"}
    PROVE  up /\ quarantine = {}
BY Zenon DEF ControlInv, Control, DownIsEmpty, QuarantineWindow

(* A step that starts no process.                                          *)
LEMMA Shrinks ==
    ASSUME LiveIsOwned, OneMayServe, KeepsOwned,
           UNCHANGED <<up, quarantine, proven>>,
           \A e \in Epochs : proc'[e] \in {proc[e], NoConfig}
    PROVE  LiveIsOwned' /\ NoHandover
<1>1. LiveIsOwned'
  BY Zenon DEF LiveIsOwned, Live, KeepsOwned
<1>2. \A e \in Epochs : Serving(e)' => Serving(e)
  BY ConfigFacts, Zenon DEF Serving
<1>3. NoHandover
  BY <1>2, Zenon DEF NoHandover, OneMayServe, MayServe
<1> QED BY <1>1, <1>3, Zenon

(* One that also brings no supervisor and no full config.                  *)
LEMMA Idles ==
    ASSUME LiveIsOwned, OneMayServe, KeepsOwned,
           UNCHANGED <<up, quarantine, proven>>,
           \A e \in Epochs : /\ proc'[e] \in {proc[e], NoConfig}
                             /\ supervised'[e] => supervised[e]
                             /\ config'[e] \in {config[e], NoConfig}
    PROVE  OwnerStep
<1>1. LiveIsOwned' /\ NoHandover
  BY Shrinks, Zenon
<1>2. NoNewServer
  BY ConfigFacts, Zenon DEF NoNewServer, MayServe, Serving
<1> QED BY <1>1, <1>2, Zenon DEF OwnerStep

(* The outcome of a stop: a confirmed death, or one that is quarantined.   *)
LEMMA StopResolved ==
    ASSUME ControlInv, LiveIsOwned, OneMayServe, NEW e \in Epochs, held = {e},
           \/ ConfirmedDead(e) /\ UNCHANGED <<quarantine, proven>>
           \/ Unconfirmed(e) /\ LatchQuarantine({e}),
           \/ up' /\ quarantine' = {}
           \/ \A f \in Epochs : config'[f] \in {config[f], NoConfig},
           UNCHANGED <<up, current>>
    PROVE  OwnerStep
<1>1. \A f \in Epochs : /\ supervised'[f] => supervised[f]
                        /\ proc'[f] \in {proc[f], NoConfig}
  BY DeadEffect, UnconfirmedEffect, Zenon DEF ControlInv, TypeOK
<1>2. NoNewServer
  BY <1>1, ConfigFacts, Zenon DEF NoNewServer, MayServe, Serving
<1>3. NoHandover
  BY <1>1, ConfigFacts, Zenon DEF NoHandover, OneMayServe, MayServe, Serving
<1>4. CASE ConfirmedDead(e) /\ UNCHANGED <<quarantine, proven>>
  <2>1. /\ proc'[e] = NoConfig
        /\ \A f \in Epochs : f # e => proc'[f] = proc[f]
    BY <1>4, DeadEffect, Zenon DEF ControlInv, TypeOK
  <2>2. LiveIsOwned'
    BY <1>4, <2>1, Zenon DEF LiveIsOwned, Live
  <2> QED BY <1>2, <1>3, <2>2, Zenon DEF OwnerStep
<1>5. CASE Unconfirmed(e) /\ LatchQuarantine({e})
  <2>1. quarantine' = quarantine \cup {e} /\ proven' = proven /\ proc' = proc
    BY <1>5, Zenon DEF Unconfirmed, LatchQuarantine, RecordQuarantine
  <2>2. e \notin proven
    BY Zenon DEF ControlInv, Ownership, Processes, QuarantinedGone, ProvenDead
  <2>3. LiveIsOwned'
    BY <2>1, <2>2, Zenon DEF LiveIsOwned, Live
  <2> QED BY <1>2, <1>3, <2>3, Zenon DEF OwnerStep
<1> QED BY <1>4, <1>5, Zenon

(* A spawn in an operation: beside the active core only of a bootstrap.    *)
LEMMA Spawned ==
    ASSUME ControlInv, LiveIsOwned, OneMayServe, NEW e \in Epochs, SpawnInstance(e),
           up, quarantine = {}, held = {}, held' = {e},
           current = NoRev \/ ~config[e].full,
           UNCHANGED <<up, current, quarantine, proven>>
    PROVE  OwnerStep
<1>1. /\ proc'[e] = config[e]
      /\ \A f \in Epochs : f # e => proc'[f] = proc[f]
  BY SpawnEffect, Zenon DEF ControlInv, TypeOK
<1>2. LiveIsOwned'
  BY <1>1, Zenon DEF LiveIsOwned, Live
<1>3. NoHandover
  <2>1. CASE current = NoRev
    <3>1. \A f \in Epochs : ~Live(f)
      BY <2>1, RevFacts, EpochFacts DEF LiveIsOwned
    <3> QED BY <3>1, ConfigFacts, Zenon DEF NoHandover, Serving, Live
  <2>2. CASE ~config[e].full
    BY <1>1, <2>2, Zenon DEF NoHandover, OneMayServe, MayServe, Serving
  <2> QED BY <2>1, <2>2, Zenon
<1> QED BY <1>2, <1>3, Zenon DEF OwnerStep, NoNewServer

(* A core takes a configuration while no other may live.                   *)
LEMMA Loaded ==
    ASSUME LiveIsOwned, up, quarantine = {}, NEW e \in Epochs, NEW c,
           proc \in [Epochs -> Configs \cup {NoConfig}], MayLoad(e, c),
           \A f \in Epochs : f = current.epoch \/ f \in held => f = e,
           e = current'.epoch \/ e \in held', UNCHANGED <<up, quarantine, proven>>
    PROVE  OwnerStep
<1>1. \A f \in Epochs : Live(f) => f = e
  BY Zenon DEF LiveIsOwned
<1>2. \A f \in Epochs : f # e => proc'[f] = proc[f]
  BY Zenon DEF MayLoad
<1>3. LiveIsOwned'
  BY <1>2, Zenon DEF LiveIsOwned, Live
<1>4. NoHandover
  BY <1>1, <1>2, ConfigFacts, Zenon DEF NoHandover, Serving, Live
<1> QED BY <1>3, <1>4, Zenon DEF OwnerStep, NoNewServer

(* Every request leaves processes and files alone.                         *)
LEMMA RequestOwner ==
    ASSUME ControlInv, LiveIsOwned, OneMayServe, Request
    PROVE  OwnerStep
<1> DEFINE Asks == /\ pc = "idle"
                   /\ UNCHANGED <<up, quarantine, proven, supervised, proc, config>>
                   /\ UNCHANGED <<current, held>> \/ held' = {current.epoch}
<1>1. ASSUME Asks
      PROVE  OwnerStep
  <2>1. held = {}
    BY <1>1, PointsOwn, Zenon DEF HoldsNonePCs
  <2>2. KeepsOwned
    BY <1>1, <2>1, Zenon DEF KeepsOwned
  <2> QED BY <1>1, <2>2, Idles, Zenon
<1>2. ASSUME NEW d \in Specs, pc = "idle", LaunchFresh(d)
      PROVE  Asks
  BY <1>2, Zenon DEF LaunchFresh, inst, disk
<1> HIDE DEF Asks
<1>3. ASSUME NEW d \in Specs, Switch(d)
      PROVE  Asks
  <2>1. pc = "idle"
    BY <1>3, Zenon DEF Switch, Admitted
  <2>2. LaunchFresh(d) \/ UNCHANGED <<up, ctrlVars, inst, disk, held>>
    BY <1>3, Zenon DEF Switch
  <2> QED BY <1>2, <2>1, <2>2, Zenon DEF ctrlVars, inst, disk, Asks
<1>4. CASE \E d \in Specs : Start(d)
  <2>1. PICK d \in Specs : pc = "idle" /\ LaunchFresh(d)
    BY <1>4, Zenon DEF Start, Admitted
  <2>2. Asks
    BY <1>2, <2>1, Zenon
  <2> QED BY <1>1, <2>2, Zenon
<1>5. CASE \E d \in Specs : Switch(d)
  BY <1>1, <1>3, <1>5, Zenon
<1>6. CASE Restart
  BY <1>1, <1>3, <1>6, Zenon DEF Restart, ControlInv, TypeOK, CtrlTypeOK
<1>7. ASSUME NEW d, NEW expected, NEW class, ApplyConfig(d, expected, class)
      PROVE  Asks
  BY <1>7, Zenon DEF ApplyConfig, Admitted, ctrlVars, inst, disk, Asks
<1>8. CASE Stop \/ Shutdown
  <2>1. Asks
    BY <1>8, Zenon DEF Stop, Shutdown, disk, Asks
  <2> QED BY <1>1, <2>1, Zenon
<1>9. CASE RecoverQuarantine
  <2>1. Asks
    BY <1>9, Zenon DEF RecoverQuarantine, ctrlVars, inst, disk, Asks
  <2> QED BY <1>1, <2>1, Zenon
<1> QED BY <1>1, <1>4, <1>5, <1>6, <1>7, <1>8, <1>9, Zenon DEF Request

(* Steps of an operation that move instances between it and ctrl.current   *)
(* or write files.                                                         *)
LEMMA MoveOwner ==
    ASSUME ControlInv, LiveIsOwned, OneMayServe,
           \/ Launch \/ StartReady \/ StartInstall \/ HardPrepare \/ Republish
           \/ GracefulPrepare \/ GracefulReady \/ GracefulCommit \/ GracefulInstall
           \/ ReplaceReady \/ ReplaceInstall \/ ReplacePublish
           \/ ApplyCommit \/ ApplyPublish \/ SwitchPrepare
    PROVE  OwnerStep
<1> DEFINE Moves == /\ pc \notin {"idle", "recover", "stopStale", "stopWait"}
                    /\ UNCHANGED <<up, quarantine, proven, proc>>
           Keeps == held = {} /\ (current' = current \/ held' = {current.epoch})
           Installs == held = {current'.epoch} /\ current = NoRev
<1>1. ASSUME Moves, KeepsOwned
      PROVE  OwnerStep
  <2>1. LiveIsOwned' /\ NoHandover
    BY <1>1, Shrinks, Zenon
  <2> QED BY <1>1, <2>1, Clear, Zenon DEF OwnerStep, NoNewServer
<1>2. ASSUME Keeps
      PROVE  KeepsOwned
  BY <1>2, Zenon DEF KeepsOwned
<1>3. ASSUME Installs
      PROVE  KeepsOwned
  BY <1>3, RevFacts, EpochFacts DEF KeepsOwned
<1> HIDE DEF Moves
<1>5. CASE Launch \/ ApplyCommit
  <2>1. Moves
    BY <1>5, Zenon DEF Launch, ApplyCommit, ctrlVars, inst, Moves
  <2>2. Keeps
    BY <1>5, PointsOwn, Zenon DEF Launch, ApplyCommit, ctrlVars, HoldsNonePCs
  <2> QED BY <1>1, <1>2, <2>1, <2>2, Zenon
<1>6. CASE Republish \/ ReplacePublish
  <2>1. Moves
    BY <1>6, Zenon DEF Republish, ReplacePublish, ctrlVars, inst, Moves
  <2>2. Keeps
    BY <1>6, PointsOwn, Zenon DEF Republish, ReplacePublish, ctrlVars, HoldsNonePCs
  <2> QED BY <1>1, <1>2, <2>1, <2>2, Zenon
<1>7. CASE StartReady \/ GracefulPrepare \/ GracefulCommit \/ ReplaceReady
  <2>1. Moves
    BY <1>7,
      Zenon DEF StartReady, GracefulPrepare, GracefulCommit, ReplaceReady, ctrlVars, inst,
           Moves
  <2>2. KeepsOwned
    BY <1>7,
      Zenon DEF StartReady, GracefulPrepare, GracefulCommit, ReplaceReady, ctrlVars,
           KeepsOwned
  <2> QED BY <1>1, <2>1, <2>2, Zenon
<1>8. CASE StartInstall \/ GracefulInstall
  <2>1. Moves
    BY <1>8, Zenon DEF StartInstall, GracefulInstall, inst, Moves
  <2>2. Installs
    BY <1>8, PointsOwn, Zenon DEF StartInstall, GracefulInstall, InstallNew, HoldsNewPCs
  <2> QED BY <1>1, <1>3, <2>1, <2>2, Zenon
<1>9. CASE ReplaceInstall
  <2>1. Moves
    BY <1>9, Zenon DEF ReplaceInstall, inst, Moves
  <2>2. Installs
    BY <1>9, PointsOwn, Zenon DEF ReplaceInstall, InstallNew, ReplaceRev, ReplacePCs
  <2> QED BY <1>1, <1>3, <2>1, <2>2, Zenon
<1>10. CASE HardPrepare \/ SwitchPrepare
  <2>1. Moves
    BY <1>10, Zenon DEF HardPrepare, SwitchPrepare, Moves
  <2>2. Keeps
    BY <1>10, PointsOwn, Zenon DEF HardPrepare, SwitchPrepare, HoldsNonePCs
  <2> QED BY <1>1, <1>2, <2>1, <2>2, Zenon
<1>11. CASE GracefulReady
  <2>1. Moves
    BY <1>11, Zenon DEF GracefulReady, Moves
  <2>2. KeepsOwned
    BY <1>11, Zenon DEF GracefulReady, KeepsOwned
  <2> QED BY <1>1, <2>1, <2>2, Zenon
<1>12. CASE ApplyPublish
  <2>1. Moves
    BY <1>12, Zenon DEF ApplyPublish, inst, Moves
  <2>2. current = op.old /\ op.new.epoch = op.old.epoch /\ current' = op.new /\ held = {}
    BY <1>12, Zenon DEF ApplyPublish, ControlInv, PointInv, AtApply, Retains, SameEpoch
  <2>3. KeepsOwned
    BY <2>2, Zenon DEF KeepsOwned
  <2> QED BY <1>1, <2>1, <2>3, Zenon
<1> QED BY <1>5, <1>6, <1>7, <1>8, <1>9, <1>10, <1>11, <1>12, Zenon

(* Steps that resolve the stop of the only instance the operation holds.   *)
LEMMA StopOwner ==
    ASSUME ControlInv, LiveIsOwned, OneMayServe,
           \/ StaleStopped \/ StopDone \/ StartReject \/ HardStopped \/ GracefulReject
           \/ GracefulCommitFailed \/ GracefulReplaceStopped \/ ReplaceReject
           \/ ApplyStopped \/ SwitchStopped
    PROVE  OwnerStep
<1> DEFINE Stops(e) == /\ held = {e} /\ UNCHANGED <<up, current>>
                       /\ \/ ConfirmedDead(e) /\ UNCHANGED <<quarantine, proven>>
                          \/ Unconfirmed(e) /\ LatchQuarantine({e})
           Window == quarantine' = quarantine
                        /\ pc \notin {"idle", "recover", "stopStale", "stopWait"}
           Cleans == \A f \in Epochs : config'[f] \in {config[f], NoConfig}
<1>1. ASSUME NEW e \in Epochs, Stops(e), Window \/ Cleans
      PROVE  OwnerStep
  <2>1. (up' /\ quarantine' = {}) \/ Cleans
    BY <1>1, Clear, Zenon
  <2> QED BY <1>1, <2>1, StopResolved, Zenon
<1> HIDE DEF Stops, Window, Cleans
<1>2. CASE StaleStopped
  <2>1. op.old.epoch \in Epochs /\ Stops(op.old.epoch)
    BY <1>2, PointsOwn, Zenon DEF StaleStopped, HoldsOldPCs, Stops
  <2>2. Window \/ Cleans
    BY <1>2, Zenon DEF StaleStopped, disk, Window, Cleans
  <2> QED BY <1>1, <2>1, <2>2, Zenon
<1>3. CASE StopDone
  <2>1. op.old.epoch \in Epochs /\ Stops(op.old.epoch)
    BY <1>3, PointsOwn, Zenon DEF StopDone, HoldsOldPCs, Stops
  <2>2. Cleans
    BY <1>3, <2>1, CleanupOkEffect, CleanupErrEffect,
      Zenon DEF StopDone, disk, Cleans, ControlInv, TypeOK
  <2> QED BY <1>1, <2>1, <2>2, Zenon
<1>4. CASE StartReject
  <2>1. op.new.epoch \in Epochs /\ Stops(op.new.epoch)
    BY <1>4, PointsOwn, Zenon DEF StartReject, HoldsNewPCs, Stops
  <2>2. Window \/ Cleans
    BY <1>4, Zenon DEF StartReject, disk, Window, Cleans
  <2> QED BY <1>1, <2>1, <2>2, Zenon
<1>5. CASE HardStopped
  <2>1. op.old.epoch \in Epochs /\ Stops(op.old.epoch)
    BY <1>5, PointsOwn, Zenon DEF HardStopped, HoldsOldPCs, Stops
  <2>2. op.new.epoch \in Epochs
    BY <1>5, PointsOwn, Zenon DEF HardStopped
  <2>3. Window \/ Cleans
    BY <1>5, <2>2, DropConfigEffect, Zenon DEF HardStopped, Window, Cleans, ControlInv, TypeOK
  <2> QED BY <1>1, <2>1, <2>3, Zenon
<1>6. CASE GracefulReject
  <2>1. op.new.epoch \in Epochs /\ Stops(op.new.epoch)
    BY <1>6, RevFacts, Zenon DEF GracefulReject, ControlInv, PointInv, AtOverlap, Holds, Stops
  <2>2. Window \/ Cleans
    BY <1>6, Zenon DEF GracefulReject, disk, Window, Cleans
  <2> QED BY <1>1, <2>1, <2>2, Zenon
<1>7. CASE GracefulCommitFailed
  <2>1. op.new.epoch \in Epochs /\ Stops(op.new.epoch)
    BY <1>7, PointsOwn, Zenon DEF GracefulCommitFailed, HoldsNewPCs, Stops
  <2>2. Window \/ Cleans
    BY <1>7, Zenon DEF GracefulCommitFailed, disk, Window, Cleans
  <2> QED BY <1>1, <2>1, <2>2, Zenon
<1>8. CASE GracefulReplaceStopped
  <2>1. op.new.epoch \in Epochs /\ Stops(op.new.epoch)
    BY <1>8, PointsOwn, Zenon DEF GracefulReplaceStopped, HoldsNewPCs, Stops
  <2>2. Cleans
    BY <1>8, Zenon DEF GracefulReplaceStopped, Cleans
  <2> QED BY <1>1, <2>1, <2>2, Zenon
<1>9. CASE ReplaceReject
  <2>1. ReplaceRev.epoch \in Epochs /\ Stops(ReplaceRev.epoch)
    BY <1>9, PointsOwn, Zenon DEF ReplaceReject, ReplacePCs, Stops
  <2>2. Window \/ Cleans
    BY <1>9, Zenon DEF ReplaceReject, disk, Window, Cleans
  <2> QED BY <1>1, <2>1, <2>2, Zenon
<1>10. CASE ApplyStopped
  <2>1. op.old.epoch \in Epochs /\ Stops(op.old.epoch)
    BY <1>10, PointsOwn, Zenon DEF ApplyStopped, HoldsOldPCs, Stops
  <2>2. Cleans
    BY <1>10, Zenon DEF ApplyStopped, Cleans
  <2> QED BY <1>1, <2>1, <2>2, Zenon
<1>11. CASE SwitchStopped
  <2>1. op.old.epoch \in Epochs /\ Stops(op.old.epoch)
    BY <1>11, PointsOwn, Zenon DEF SwitchStopped, HoldsOldPCs, Stops
  <2>2. op.new.epoch \in Epochs
    BY <1>11, PointsOwn, Zenon DEF SwitchStopped
  <2>3. Cleans
    BY <1>11, <2>2, DropConfigEffect, Zenon DEF SwitchStopped, Cleans, ControlInv, TypeOK
  <2> QED BY <1>1, <2>1, <2>3, Zenon
<1> QED BY <1>2, <1>3, <1>4, <1>5, <1>6, <1>7, <1>8, <1>9, <1>10, <1>11, Zenon

(* The two stops of a graceful switch: the old core's, beside the new one, *)
(* and the new one's, after the old one stayed uncertain.                  *)
LEMMA OverlapOwner ==
    ASSUME ControlInv, LiveIsOwned, OneMayServe, GracefulOldStopped \/ GracefulAbort
    PROVE  OwnerStep
<1>1. pc \in {"gStopOld", "gAbort"} /\ AtStopOld
  BY Zenon DEF GracefulOldStopped, GracefulAbort, ControlInv, PointInv, AtAbort
<1>2. /\ up /\ quarantine = {} /\ proven = {} /\ current = NoRev
      /\ held = {op.old.epoch, op.new.epoch}
  BY <1>1, Clear, Zenon DEF ControlInv, Processes, ProvenDead, AtStopOld, Took
<1>3. op.old.epoch \in Epochs /\ op.new.epoch \in Epochs
  BY <1>1, RevFacts, Zenon DEF AtStopOld, AnotherEpoch
<1>4. InstTypeOK /\ DiskTypeOK
  BY Zenon DEF ControlInv, TypeOK
<1>5. CASE GracefulOldStopped
  <2>1. UNCHANGED <<up, current, quarantine, proven>>
    BY <1>5, Zenon DEF GracefulOldStopped, ctrlVars
  <2>2. \/ proc' = proc /\ held' = held
        \/ ConfirmedDead(op.old.epoch) /\ held' = {op.new.epoch}
    BY <1>5, Zenon DEF GracefulOldStopped
  <2>3. \A f \in Epochs : proc'[f] \in {proc[f], NoConfig}
    BY <1>3, <1>4, <2>2, DeadEffect, Zenon
  <2>4. NoHandover
    BY <2>3, ConfigFacts, Zenon DEF NoHandover, OneMayServe, MayServe, Serving
  <2>5. LiveIsOwned'
    BY <1>2, <1>3, <1>4, <2>1, <2>2, DeadEffect, Zenon DEF LiveIsOwned, Live
  <2> QED BY <1>2, <2>1, <2>4, <2>5, Zenon DEF OwnerStep, NoNewServer
<1>6. CASE GracefulAbort
  <2>1. UNCHANGED <<up, current>>
    BY <1>6, Zenon DEF GracefulAbort
  <2>2. \/ /\ ConfirmedDead(op.new.epoch) /\ Cleanup(op.new.epoch)
           /\ quarantine' = {op.old.epoch} /\ proven' = {}
        \/ /\ Unconfirmed(op.new.epoch) /\ config' = config
           /\ quarantine' = {op.old.epoch, op.new.epoch} /\ proven' = {}
    BY <1>2, <1>6, Zenon DEF GracefulAbort, disk, LatchQuarantine, RecordQuarantine
  <2>3. \A f \in Epochs : /\ proc'[f] \in {proc[f], NoConfig}
                          /\ supervised'[f] => supervised[f]
                          /\ config'[f] \in {config[f], NoConfig}
    BY <1>3, <1>4, <2>2, DeadEffect, UnconfirmedEffect, CleanupEffect
  <2>4. \A f \in Epochs : Live(f)' => Live(f) /\ f \in quarantine'
    BY <1>2, <1>3, <1>4, <2>2, DeadEffect, UnconfirmedEffect, RevFacts, EpochFacts
       DEF LiveIsOwned, Live
  <2>5. LiveIsOwned'
    BY <2>2, <2>4, Zenon DEF LiveIsOwned
  <2>6. NoNewServer /\ NoHandover
    BY <2>3, ConfigFacts, Zenon DEF NoNewServer, NoHandover, OneMayServe, MayServe, Serving
  <2> QED BY <2>5, <2>6, Zenon DEF OwnerStep
<1> QED BY <1>5, <1>6, Zenon

(* The three spawns.                                                       *)
LEMMA SpawnOwner ==
    ASSUME ControlInv, LiveIsOwned, OneMayServe, StartSpawn \/ GracefulSpawn \/ ReplaceSpawn
    PROVE  OwnerStep
<1>1. /\ pc \in {"startSpawn", "gSpawn", "replaceSpawn"}
      /\ UNCHANGED <<up, current, quarantine, proven>>
  BY Zenon DEF StartSpawn, GracefulSpawn, ReplaceSpawn, ctrlVars
<1>2. up /\ quarantine = {} /\ held = {}
  BY <1>1, Clear, PointsOwn, Zenon DEF HoldsNonePCs
<1>3. op.new.epoch \in Epochs /\ (pc = "replaceSpawn" => ReplaceRev.epoch \in Epochs)
  BY <1>1, RevFacts,
    Zenon DEF ControlInv, PointInv, AtStartSpawn, AtOverlapSpawn, AtReplaceSpawn, Dead,
         ReplaceRev
<1>4. /\ pc # "gSpawn" => current = NoRev
      /\ pc = "gSpawn" => ~config[op.new.epoch].full
  BY <1>1,
    Zenon DEF ControlInv, PointInv, AtStartSpawn, AtOverlapSpawn, AtReplaceSpawn, Took,
         Bootstrapped
<1>5. \/ \E e \in Epochs : /\ SpawnInstance(e) /\ held' = {e}
                           /\ current = NoRev \/ ~config[e].full
      \/ proc' = proc
  BY <1>3, <1>4, Zenon DEF StartSpawn, GracefulSpawn, ReplaceSpawn, inst
<1>6. CASE proc' = proc
  <2>1. KeepsOwned
    BY <1>1, <1>2, Zenon DEF KeepsOwned
  <2>2. LiveIsOwned' /\ NoHandover
    BY <1>1, <1>6, <2>1, Shrinks, Zenon
  <2> QED BY <1>1, <1>2, <2>2, Zenon DEF OwnerStep, NoNewServer
<1> QED BY <1>1, <1>2, <1>5, <1>6, Spawned, Zenon

(* The two steps that bring a configuration into a running core.           *)
LEMMA ReconcileOwner ==
    ASSUME ControlInv, LiveIsOwned, GracefulReconcile \/ ApplyReconcile
    PROVE  OwnerStep
<1>1. UNCHANGED <<up, quarantine, proven>>
  BY Zenon DEF GracefulReconcile, ApplyReconcile, ctrlVars
<1>2. up /\ quarantine = {}
  BY Clear, Zenon DEF GracefulReconcile, ApplyReconcile
<1>3. proc \in [Epochs -> Configs \cup {NoConfig}]
  BY Zenon DEF ControlInv, TypeOK, InstTypeOK
<1>4. CASE GracefulReconcile
  <2>1. held = {op.new.epoch} /\ current = NoRev /\ op.new.epoch \in Epochs
    BY <1>4, PointsOwn, Zenon DEF GracefulReconcile, HoldsNewPCs
  <2>2. \A f \in Epochs : f = current.epoch \/ f \in held => f = op.new.epoch
    BY <2>1, RevFacts, EpochFacts
  <2>3. MayLoad(op.new.epoch, Full(op.new.spec)) /\ held' = held
    BY <1>4, Zenon DEF GracefulReconcile, MayLoad
  <2> QED BY <1>1, <1>2, <1>3, <2>1, <2>2, <2>3, Loaded, Zenon
<1>5. CASE ApplyReconcile
  <2>1. held = {} /\ current = op.old /\ op.old.epoch \in Epochs
    BY <1>5, RevFacts, Zenon DEF ApplyReconcile, ControlInv, PointInv, AtApply, Retains
  <2>2. MayLoad(op.old.epoch, Full(op.new.spec))
    BY <1>5, Zenon DEF ApplyReconcile, MayLoad
  <2>3. op.old.epoch = current'.epoch \/ op.old.epoch \in held'
    BY <1>5, <2>1, Zenon DEF ApplyReconcile
  <2> QED BY <1>1, <1>2, <1>3, <2>1, <2>2, <2>3, Loaded, Zenon
<1> QED BY <1>4, <1>5, Zenon

(* Recovery removes an entry only with the process it stands for.          *)
LEMMA RecoverOwner ==
    ASSUME ControlInv, LiveIsOwned, OneMayServe,
           (\E e \in Epochs : RecoverEntry(e)) \/ RecoverDone
    PROVE  OwnerStep
<1>1. CASE RecoverDone
  <2>1. UNCHANGED <<up, current, quarantine, proven, supervised, proc, config>>
    BY <1>1, Zenon DEF RecoverDone, ctrlVars, inst, disk
  <2>2. held = {}
    BY <1>1, PointsOwn, Zenon DEF RecoverDone, HoldsNonePCs
  <2>3. KeepsOwned
    BY <2>1, <2>2, Zenon DEF KeepsOwned
  <2> QED BY <2>1, <2>3, Idles, Zenon
<1>2. ASSUME NEW e \in Epochs, RecoverEntry(e)
      PROVE  OwnerStep
  <2>1. UNCHANGED <<up, current, held, supervised>>
    BY <1>2, Zenon DEF RecoverEntry
  <2>2. \/ UNCHANGED <<quarantine, proven, proc, config>>
        \/ /\ proc' = [proc EXCEPT ![e] = NoConfig]
           /\ \/ CleanupOk(e) /\ quarantine' = quarantine \ {e} /\ proven' = proven \ {e}
              \/ CleanupErr(e) /\ quarantine' = quarantine /\ proven' = proven \cup {e}
    BY <1>2, Zenon DEF RecoverEntry, disk
  <2>3. \A f \in Epochs : /\ proc'[f] \in {proc[f], NoConfig}
                          /\ config'[f] \in {config[f], NoConfig}
    BY <2>2, CleanupOkEffect, CleanupErrEffect, Zenon DEF ControlInv, TypeOK, InstTypeOK
  <2>4. LiveIsOwned'
    BY <2>1, <2>2, Zenon DEF LiveIsOwned, Live, ControlInv, TypeOK, InstTypeOK
  <2>5. NoNewServer /\ NoHandover
    BY <2>1, <2>3, ConfigFacts,
      Zenon DEF NoNewServer, NoHandover, OneMayServe, MayServe, Serving
  <2> QED BY <2>4, <2>5, Zenon DEF OwnerStep
<1> QED BY <1>1, <1>2, Zenon

(* The service and the processes on their own.                             *)
LEMMA EnvironmentOwner ==
    ASSUME ~CallerDrops, ControlInv, LiveIsOwned, OneMayServe, Environment
    PROVE  OwnerStep
<1>1. InstTypeOK /\ DiskTypeOK
  BY Zenon DEF ControlInv, TypeOK
<1>2. CASE Kill
  <2>1. ~up' /\ proc' = proc /\ \A e \in Epochs : ~supervised'[e]
    BY <1>2, Zenon DEF Kill
  <2> QED BY <2>1, Zenon DEF OwnerStep, LiveIsOwned, NoNewServer, NoHandover, OneMayServe,
                      MayServe, Serving
<1>3. CASE Construct
  <2>1. up' /\ quarantine' = {}
    BY <1>3, Zenon DEF Construct, ctrlVars, ControlInv, Control, DownIsEmpty
  <2>2. \A e \in Epochs : proc'[e] = NoConfig
    BY <1>3, Zenon DEF Construct, ControlInv, Processes, LiveHasRecord, Live
  <2> QED BY <2>1, <2>2, ConfigFacts, Zenon DEF OwnerStep, LiveIsOwned, NoNewServer, NoHandover,
                                         Live, Serving
<1>4. CASE DropOperation
  BY <1>4, Zenon DEF DropOperation
<1>5. CASE Forward
  <2>1. UNCHANGED <<up, current, held, quarantine, proven, supervised, proc, config>>
    BY <1>5, Zenon DEF Forward, ctrlVars, inst, disk, opVars
  <2> QED BY <2>1, Idles, Zenon DEF KeepsOwned
<1>6. ASSUME NEW k \in Epochs, ConstructFails(k)
      PROVE  OwnerStep
  <2>1. UNCHANGED <<up, current, held, quarantine, proven, supervised>>
    BY <1>6, Zenon DEF ConstructFails, ctrlVars, opVars
  <2>2. \A e \in Epochs : /\ proc'[e] \in {proc[e], NoConfig}
                          /\ config'[e] \in {config[e], NoConfig}
    BY <1>6, Zenon DEF ConstructFails
  <2> QED BY <2>1, <2>2, Idles, Zenon DEF KeepsOwned
<1>7. ASSUME NEW k \in Epochs, InstanceReady(k) \/ InstanceRestarting(k) \/ InstanceStopped(k)
      PROVE  OwnerStep
  <2>1. UNCHANGED <<up, current, held, quarantine, proven, proc, config>>
    BY <1>7, Zenon DEF InstanceReady, InstanceRestarting, InstanceStopped, ctrlVars, disk, opVars
  <2>2. \A e \in Epochs : supervised'[e] => supervised[e]
    BY <1>1, <1>7, Zenon DEF InstanceReady, InstanceRestarting, InstanceStopped, InstTypeOK
  <2> QED BY <2>1, <2>2, Idles, Zenon DEF KeepsOwned
<1>8. ASSUME NEW k \in Epochs, ProcessExit(k)
      PROVE  OwnerStep
  <2>1. UNCHANGED <<up, current, held, quarantine, proven, supervised, config>>
    BY <1>8, Zenon DEF ProcessExit, ctrlVars, opVars
  <2>2. \A e \in Epochs : proc'[e] \in {proc[e], NoConfig}
    BY <1>1, <1>8, Zenon DEF ProcessExit, InstTypeOK
  <2> QED BY <2>1, <2>2, Idles, Zenon DEF KeepsOwned
<1>9. ASSUME NEW k \in Epochs, Respawn(k)
      PROVE  OwnerStep
  <2>1. UNCHANGED <<up, current, held, quarantine, proven, supervised, config>>
    BY <1>9, Zenon DEF Respawn, ctrlVars, opVars
  <2>2. /\ supervised[k] /\ proc'[k] = config[k]
        /\ \A e \in Epochs : e # k => proc'[e] = proc[e]
    BY <1>1, <1>9, Zenon DEF Respawn, InstTypeOK
  <2>3. k = current.epoch \/ k \in held
    BY <2>2, Zenon DEF ControlInv, Ownership, SupervisedIsHeld
  <2>4. LiveIsOwned'
    BY <2>1, <2>2, <2>3, Zenon DEF LiveIsOwned, Live
  <2>5. NoNewServer
    BY <2>1, <2>2, Zenon DEF NoNewServer, MayServe, Serving
  <2>6. NoHandover
    BY <2>2, Zenon DEF NoHandover, OneMayServe, MayServe, Serving
  <2> QED BY <2>4, <2>5, <2>6, Zenon DEF OwnerStep
<1> QED BY <1>2, <1>3, <1>4, <1>5, <1>6, <1>7, <1>8, <1>9, Zenon DEF Environment

(* Every step keeps the owner invariant while no caller drops a request.   *)
LEMMA NextOwner ==
    ASSUME ~CallerDrops, ControlInv, ControlInv', OwnerInv, [Next]_vars
    PROVE  OwnerInv' /\ NoHandover
<1>1. LiveIsOwned /\ OneMayServe
  BY Zenon DEF OwnerInv
<1>2. OwnerStep
  <2>1. CASE Next
    BY <1>1, <2>1, RequestOwner, MoveOwner, StopOwner, OverlapOwner, SpawnOwner,
       ReconcileOwner, RecoverOwner, EnvironmentOwner,
      Zenon DEF Next, OperationStep
  <2>2. CASE UNCHANGED vars
    <3>1. UNCHANGED <<up, current, held, quarantine, proven, supervised, proc, config>>
      BY <2>2, Zenon DEF vars, ctrlVars, inst, disk, opVars
    <3> QED BY <1>1, <3>1, Idles, Zenon DEF KeepsOwned
  <2> QED BY <2>1, <2>2, Zenon
<1>3. (ControlInv /\ LiveIsOwned /\ up /\ quarantine = {} => OneMayServe)'
  BY Alone, PTL
<1>4. OneMayServe'
  BY <1>1, <1>2, <1>3, Zenon DEF OwnerStep, NoNewServer, OneMayServe
<1> QED BY <1>2, <1>4, Zenon DEF OwnerStep, OwnerInv

(* Nothing is owned and nothing lives at first.                            *)
LEMMA InitOwner ==
    ASSUME Init
    PROVE  OwnerInv
<1>1. LiveIsOwned
  BY Zenon DEF Init, LiveIsOwned, Live
<1>2. OneMayServe
  BY ConfigFacts, Zenon DEF Init, OneMayServe, MayServe, Serving
<1> QED BY <1>1, <1>2, Zenon DEF OwnerInv

-----------------------------------------------------------------------------
(* ControlInv is inductive.                                                *)

(* A service that starts on an empty directory satisfies it.               *)
LEMMA InitControl ==
    ASSUME Init
    PROVE  ControlInv
<1>1. CtrlTypeOK /\ CountersOK
  BY BoundsAssumption DEF Init, CtrlTypeOK, CountersOK, CoreStates
<1>2. InstTypeOK /\ DiskTypeOK
  BY BackupFacts, Zenon DEF Init, InstTypeOK, DiskTypeOK, LifeStates
<1>3. OpTypeOK /\ PointInv
  BY OpFacts, Zenon DEF Init, OpTypeOK, PCs, PointInv, AtIdle
<1>4. Ownership
  BY Zenon DEF Init, Ownership, QuarantinedGone, SupervisedIsHeld, OwnedHasLife
<1>5. Processes
  BY Zenon DEF Init, Processes, ProvenDead, LiveAllocated, LiveHasRecord, Live
<1>6. Control
  BY OpFacts, RevFacts DEF Init, Control, QuarantineWindow, DownIsEmpty, EpochsAllocated
<1> QED BY <1>1, <1>2, <1>3, <1>4, <1>5, <1>6, Zenon DEF ControlInv, TypeOK

(* Accepting a request keeps the invariant, one case per manager           *)
(* operation.                                                              *)
LEMMA RequestControl ==
    ASSUME ControlInv, Request
    PROVE  ControlInv'
<1>1. CASE \E d \in Specs : Start(d)
  BY <1>1, StartStep, Zenon
<1>2. CASE \E d \in Specs : Switch(d)
  BY <1>2, SwitchStep, Zenon
<1>3. CASE \E d \in Specs, expected \in {NoRev, status.rev}, class \in {"InPlace", "Switch"} :
             ApplyConfig(d, expected, class)
  BY <1>3, ApplyConfigStep, Zenon
<1>4. CASE Restart
  <2>1. lastSpec \in Specs /\ Switch(lastSpec)
    BY <1>4, Zenon DEF Restart, ControlInv, TypeOK, CtrlTypeOK
  <2> QED BY <2>1, SwitchStep, Zenon
<1>5. CASE Stop \/ Shutdown
  BY <1>5, StopRequestStep, Zenon
<1>6. CASE RecoverQuarantine
  BY <1>6, RecoverQuarantineStep, Zenon
<1> QED BY <1>1, <1>2, <1>3, <1>4, <1>5, <1>6, Zenon DEF Request

(* Every continuation of an operation keeps the invariant, one case per    *)
(* flow.                                                                   *)
LEMMA OperationControl ==
    ASSUME ControlInv, OperationStep
    PROVE  ControlInv'
<1>1. CASE \/ StaleStopped \/ Launch \/ StartSpawn \/ StartReady \/ StartInstall
           \/ StartReject \/ StopDone
  BY <1>1, StaleStoppedStep, LaunchStep, StartSpawnStep, StartReadyStep,
     StartInstallStep, StartRejectStep, StopDoneStep, Zenon
<1>2. CASE HardPrepare \/ HardStopped \/ Republish
  BY <1>2, HardPrepareStep, HardStoppedStep, RepublishStep, Zenon
<1>3. CASE \/ GracefulPrepare \/ GracefulSpawn \/ GracefulReady \/ GracefulReject
           \/ GracefulOldStopped \/ GracefulAbort \/ GracefulCommit
           \/ GracefulCommitFailed \/ GracefulReconcile \/ GracefulInstall
           \/ GracefulReplaceStopped
  BY <1>3, GracefulPrepareStep, GracefulSpawnStep, GracefulReadyStep,
     GracefulRejectStep, GracefulOldStoppedStep, GracefulAbortStep, GracefulCommitStep,
     GracefulCommitFailedStep, GracefulReconcileStep, GracefulInstallStep,
     GracefulReplaceStoppedStep, Zenon
<1>4. CASE ReplaceSpawn \/ ReplaceReady \/ ReplaceReject \/ ReplaceInstall \/ ReplacePublish
  BY <1>4, ReplaceSpawnStep, ReplaceReadyStep, ReplaceRejectStep, ReplaceInstallStep,
     ReplacePublishStep, Zenon
<1>5. CASE \/ ApplyCommit \/ ApplyReconcile \/ ApplyPublish \/ ApplyStopped
           \/ SwitchPrepare \/ SwitchStopped
  BY <1>5, ApplyCommitStep, ApplyReconcileStep, ApplyPublishStep, ApplyStoppedStep,
     SwitchPrepareStep, SwitchStoppedStep, Zenon
<1>6. CASE (\E e \in Epochs : RecoverEntry(e)) \/ RecoverDone
  BY <1>6, RecoverEntryStep, RecoverDoneStep, Zenon
<1> QED BY <1>1, <1>2, <1>3, <1>4, <1>5, <1>6, Zenon DEF OperationStep

(* Crashes, respawns and instance events keep the invariant.               *)
LEMMA EnvironmentControl ==
    ASSUME ControlInv, Environment
    PROVE  ControlInv'
<1>1. CASE Kill \/ Construct \/ DropOperation \/ Forward
  BY <1>1, KillStep, ConstructStep, DropOperationStep, ForwardStep, Zenon
<1>2. ASSUME NEW e \in Epochs,
             \/ ConstructFails(e) \/ InstanceReady(e) \/ InstanceRestarting(e)
             \/ Respawn(e) \/ InstanceStopped(e) \/ ProcessExit(e)
      PROVE  ControlInv'
  BY <1>2, ConstructFailsStep, InstanceMoves, RespawnStep, ProcessExitStep, Zenon
<1> QED BY <1>1, <1>2, Zenon DEF Environment

(* The invariant is inductive.                                             *)
LEMMA NextControl ==
    ASSUME ControlInv, [Next]_vars
    PROVE  ControlInv'
<1>1. CASE Next
  BY <1>1, RequestControl, OperationControl, EnvironmentControl, Zenon DEF Next
<1>2. CASE UNCHANGED vars
  <2>1. /\ UNCHANGED <<up, epoch, current, lastSpec, quarantine, proven, fwd, status>>
        /\ UNCHANGED <<life, supervised, proc, config, record, backup>>
        /\ UNCHANGED <<pc, op, held, crashes, faults, kills>>
    BY <1>2, Zenon DEF vars, ctrlVars, inst, disk, opVars
  <2>2. TypeOK'
    BY <2>1,
      Zenon DEF ControlInv, TypeOK, CtrlTypeOK, InstTypeOK, DiskTypeOK, OpTypeOK, CountersOK
  <2>3. StartsNothing /\ LiveHasRecord'
    BY <2>1, Zenon DEF ControlInv, Processes, LiveHasRecord, StartsNothing, Live
  <2> QED BY <2>1, <2>2, <2>3, Background, Zenon
<1> QED BY <1>1, <1>2, Zenon

(* The manager stays in the states that ControlInv describes, whatever     *)
(* requests, crashes, faults, kills and dropped callers it meets.          *)
THEOREM ControlInvariant == Spec => []ControlInv
<1>1. Init => ControlInv
  BY InitControl, Zenon
<1>2. ControlInv /\ [Next]_vars => ControlInv'
  BY NextControl, Zenon
<1> QED BY <1>1, <1>2, PTL DEF Spec

(* Every component keeps its type: no operation publishes, installs or     *)
(* holds a core that does not exist.                                       *)
THEOREM TypeCorrect == Spec => []TypeOK
<1>1. ControlInv => TypeOK
  BY Zenon DEF ControlInv
<1> QED BY <1>1, ControlInvariant, PTL

(* No cleanup, rollback, sweep or dropped operation removes the pid record *)
(* of a process that lives, so a later sweep or recovery can kill it.      *)
THEOREM RecordKept == Spec => []LiveHasRecord
<1>1. ControlInv => LiveHasRecord
  BY Zenon DEF ControlInv, Processes
<1> QED BY <1>1, ControlInvariant, PTL

-----------------------------------------------------------------------------
(* Quarantine and launches.                                                *)

(* The three spawns are in operations that began without a quarantine and  *)
(* end when they latch one.                                                *)
LEMMA SpawnsUnquarantined ==
    ASSUME ControlInv, StartSpawn \/ GracefulSpawn \/ ReplaceSpawn
    PROVE  quarantine = {}
<1>1. pc \in {"startSpawn", "gSpawn", "replaceSpawn"}
  BY Zenon DEF StartSpawn, GracefulSpawn, ReplaceSpawn
<1> QED BY <1>1, Zenon DEF ControlInv, Control, QuarantineWindow

(* No other step starts a supervisor.                                      *)
LEMMA OthersSupervise ==
    ASSUME ControlInv, Next, ~(StartSpawn \/ GracefulSpawn \/ ReplaceSpawn),
           NEW e \in Epochs, supervised'[e]
    PROVE  supervised[e]
<1>1. supervised \in [Epochs -> BOOLEAN]
  BY Zenon DEF ControlInv, TypeOK, InstTypeOK
<1>2. ASSUME NEW d, Switch(d) \/ Start(d)
      PROVE  supervised[e]
  BY <1>2, Zenon DEF Switch, Start, LaunchFresh, inst
<1>3. CASE Request
  BY <1>2, <1>3,
    Zenon DEF Request, Restart, ApplyConfig, Stop, Shutdown, RecoverQuarantine, inst
<1>4. CASE \/ StaleStopped \/ StopDone \/ HardStopped \/ StartReject
  <2>1. \E d : ConfirmedDead(d) \/ Unconfirmed(d)
    BY <1>4, Zenon DEF StaleStopped, StopDone, HardStopped, StartReject
  <2> QED BY <1>1, <2>1, Zenon DEF ConfirmedDead, Unconfirmed
<1>5. CASE \/ GracefulReject \/ GracefulOldStopped \/ GracefulAbort
           \/ GracefulCommitFailed \/ GracefulReplaceStopped
  BY <1>5, <1>1,
    Zenon DEF GracefulReject, GracefulOldStopped, GracefulAbort, GracefulCommitFailed,
         GracefulReplaceStopped, ConfirmedDead, Unconfirmed
<1>6. CASE ReplaceReject \/ ApplyStopped \/ SwitchStopped
  BY <1>6, <1>1,
    Zenon DEF ReplaceReject, ApplyStopped, SwitchStopped, ConfirmedDead, Unconfirmed
<1>7. CASE \/ Launch \/ StartReady \/ StartInstall \/ HardPrepare \/ Republish
           \/ RecoverDone
  BY <1>7,
    Zenon DEF Launch, StartReady, StartInstall, HardPrepare, Republish, RecoverDone, inst
<1>8. CASE \/ GracefulPrepare \/ GracefulReady \/ GracefulCommit \/ GracefulReconcile
           \/ GracefulInstall
  BY <1>8,
    Zenon DEF GracefulPrepare, GracefulReady, GracefulCommit, GracefulReconcile,
         GracefulInstall, inst
<1>9. CASE \/ ReplaceReady \/ ReplaceInstall \/ ReplacePublish \/ ApplyCommit
           \/ ApplyReconcile \/ ApplyPublish \/ SwitchPrepare
  BY <1>9,
    Zenon DEF ReplaceReady, ReplaceInstall, ReplacePublish, ApplyCommit, ApplyReconcile,
         ApplyPublish, SwitchPrepare, inst
<1>10. CASE Environment
  BY <1>10, <1>1,
    Zenon DEF Environment, Kill, Construct, DropOperation, Forward, ConstructFails,
         InstanceReady, InstanceRestarting, Respawn, InstanceStopped, ProcessExit, inst
<1>11. CASE \E f \in Epochs : RecoverEntry(f)
  BY <1>11, Zenon DEF RecoverEntry
<1> QED BY <1>3, <1>4, <1>5, <1>6, <1>7, <1>8, <1>9, <1>10, <1>11,
          Zenon DEF Next, OperationStep

(* While an uncertain epoch is quarantined nothing is launched, also not   *)
(* by an operation that was half-way when the latch fell.                  *)
THEOREM QuarantineHolds == Spec => QuarantineBlocksLaunch
<1>1. ControlInv /\ [Next]_vars =>
        [\A e \in Epochs : quarantine # {} /\ supervised'[e] => supervised[e]]_vars
  BY SpawnsUnquarantined, OthersSupervise, Zenon
<1> QED BY <1>1, ControlInvariant, PTL DEF Spec, QuarantineBlocksLaunch

-----------------------------------------------------------------------------
(* Who owns the processes, and who serves.                                *)

(* Nothing serves that the manager does not own, and nothing else could    *)
(* come to serve by a respawn, as long as callers keep requests open.      *)
THEOREM OwnerInvariant ==
    ASSUME ~CallerDrops
    PROVE  Spec => []OwnerInv
<1>1. Init => OwnerInv
  BY InitOwner, Zenon
<1>2. ControlInv /\ ControlInv' /\ OwnerInv /\ [Next]_vars => OwnerInv'
  BY NextOwner, Zenon
<1> QED BY <1>1, <1>2, ControlInvariant, PTL DEF Spec

(* As long as callers keep their requests open, every process that may be  *)
(* alive belongs to the active instance, to the operation in flight or to  *)
(* an unproven quarantine entry.                                           *)
THEOREM EveryCoreOwned ==
    ASSUME ~CallerDrops
    PROVE  Spec => []LiveIsOwned
<1>1. OwnerInv => LiveIsOwned
  BY Zenon DEF OwnerInv
<1> QED BY <1>1, OwnerInvariant, PTL

(* And at most one process serves traffic, whatever switches, applies,     *)
(* rollbacks, crashes and restarts of the service come together.           *)
THEOREM OneCoreServes ==
    ASSUME ~CallerDrops
    PROVE  Spec => []OneServingCore
<1>1. OwnerInv => OneServingCore
  BY Zenon DEF OwnerInv, OneMayServe, MayServe, OneServingCore
<1> QED BY <1>1, OwnerInvariant, PTL

(* The manager implements the serving slot: one epoch stops serving before *)
(* another one starts.                                                     *)
THEOREM SlotImplemented ==
    ASSUME ~CallerDrops
    PROVE  Spec => ImplementsServingSlot
<1> DEFINE Servers == {e \in Epochs : Serving(e)}
<1>1. Init => Slot!Init
  BY ConfigFacts, Zenon DEF Init, Slot!Init, Serving
<1>2. ControlInv /\ ControlInv' /\ OwnerInv /\ OwnerInv' /\ [Next]_vars
        => [Slot!Next]_Servers
  <2> SUFFICES ASSUME ControlInv, ControlInv', OwnerInv, OwnerInv', [Next]_vars
               PROVE  [Slot!Next]_Servers
    BY Zenon
  <2>1. NoHandover
    BY NextOwner, Zenon
  <2>2. OneServingCore /\ OneServingCore'
    BY Zenon DEF OwnerInv, OneMayServe, MayServe, OneServingCore
  <2>3. CASE Servers' = {}
    BY <2>3, Zenon DEF Slot!Next, Slot!Release
  <2>4. CASE Servers' # {} /\ Servers = {}
    <3>1. PICK e \in Epochs : Servers' = {e}
      BY <2>2, <2>4 DEF OneServingCore
    <3> QED BY <2>4, <3>1, Zenon DEF Slot!Next, Slot!Acquire
  <2>5. CASE Servers' # {} /\ Servers # {}
    BY <2>1, <2>5, Zenon DEF NoHandover
  <2> QED BY <2>3, <2>4, <2>5, Zenon
<1> QED BY <1>1, <1>2, ControlInvariant, OwnerInvariant, PTL
        DEF Spec, ImplementsServingSlot, Slot!Spec

(* Between operations the active epoch's file and its live process are the *)
(* active revision, whatever applies, rollbacks, crashes and failures came *)
(* before (manager/apply.rs, compensated restart and switch).              *)
THEOREM RevisionCommitted ==
    ASSUME ~CallerDrops
    PROVE  Spec => []CommittedRevision
<1>1. Init => RevisionInv
  BY Zenon DEF Init, RevisionInv, AgreedPCs, FiledPCs, ReplacingPCs, ReplacePCs
<1>2. ControlInv /\ ControlInv' /\ RevisionInv /\ [Next]_vars => RevisionInv'
  BY NextRevision, Zenon
<1>3. RevisionInv => CommittedRevision
  BY Zenon DEF RevisionInv, CommittedRevision, Agreed, Filed, Live
<1> QED BY <1>1, <1>2, <1>3, ControlInvariant, PTL DEF Spec

-----------------------------------------------------------------------------
(* What follows from both.                                                 *)

(* The status and no fault at first.                                       *)
LEMMA InitUntilFault ==
    ASSUME Init
    PROVE  StatusInv /\ BackupInv
<1>1. StatusInv
  BY Zenon DEF Init, StatusInv, StatusNow, Published
<1>2. \A e \in Epochs, g \in Gens : backup[e][g] = NoConfig
  BY Zenon DEF Init, NoBackups
<1> QED BY <1>1, <1>2, Zenon DEF BackupInv, BackupNow, BackedUp, InPlay

(* As long as no fault has occurred and callers keep their requests open,  *)
(* the status between two operations carries the revision of the core the  *)
(* manager retains, and says Stopped when there is none (manager/          *)
(* publish.rs, republish_retained and publish_terminal_error).  Nothing is *)
(* said of the state beside that revision.                                 *)
THEOREM StatusHolds ==
    ASSUME ~CallerDrops
    PROVE  Spec => []StatusUntilFault
<1>1. Init => StatusInv
  BY InitUntilFault, Zenon
<1>2. ControlInv /\ StatusInv /\ [Next]_vars => StatusInv'
  BY NextStatus, Zenon
<1>3. StatusInv => StatusUntilFault
  BY Zenon DEF StatusInv, StatusNow, Published, SettledPCs, StatusUntilFault,
       RetainedIsPublished, NoCoreNoActivity
<1> QED BY <1>1, <1>2, <1>3, ControlInvariant, PTL DEF Spec

(* As long as no fault has occurred, every apply in place, compensated     *)
(* restart and rollback that leaves a core active has removed the backup   *)
(* it took of the runtime file (manager/apply.rs, remove_backup).          *)
THEOREM BackupsRemoved ==
    ASSUME ~CallerDrops
    PROVE  Spec => []BackupsUntilFault
<1>1. Init => StatusInv /\ BackupInv
  BY InitUntilFault, Zenon
<1>2. ControlInv /\ StatusInv /\ BackupInv /\ [Next]_vars => StatusInv' /\ BackupInv'
  BY NextStatus, NextBackup, Zenon
<1>3. ControlInv /\ BackupInv => BackupsUntilFault
  <2> SUFFICES ASSUME ControlInv, BackupInv, faults = 0, pc = "idle", current # NoRev
               PROVE  backup[current.epoch] = NoBackups
    BY Zenon DEF BackupsUntilFault, BackupsConsumed
  <2>1. /\ current.epoch \in Epochs
        /\ backup[current.epoch] \in [Gens -> Configs \cup {NoConfig}]
    BY RevFacts, Zenon DEF ControlInv, TypeOK, CtrlTypeOK, DiskTypeOK
  <2>2. \A g \in Gens : backup[current.epoch][g] = NoConfig
    BY <2>1, Zenon DEF BackupInv, BackupNow, BackedUp, InPlay, InUse, ReplacementPCs
  <2> QED BY <2>1, <2>2 DEF NoBackups
<1> QED BY <1>1, <1>2, <1>3, ControlInvariant, PTL DEF Spec
=============================================================================
