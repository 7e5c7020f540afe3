------------------------------ MODULE Instance ------------------------------
(***************************************************************************)
(* One `Instance` of nyanpasu-core-manager: the monitor task with its      *)
(* biased select loop, the probe driver of the current process run, the    *)
(* caller of stop_and_confirm_dead, and (external) the nyanpasu-utils      *)
(* supervisor that owns the process and the reaper of its pid record.      *)
(*                                                                         *)
(* The n-th process the supervisor starts has pid n. The watch channel is  *)
(* written by the monitor and by the stopping caller; a monitor step that  *)
(* reads the lifecycle and sends it back with new health is two steps.     *)
(***************************************************************************)
EXTENDS HealthTracker, Sequences, FiniteSets

CONSTANTS
    MaxRuns,      \* bound on process starts
    MaxRestarts,  \* RestartPolicy: restarts allowed since the last acknowledgement
    MaxQueue,     \* bound on queued probe observations
    HasLiveness,  \* is a liveness probe configured?
    StartPeriod   \* is HealthPolicy::start_period non-zero?

ASSUME InstanceAssumption ==
    /\ MaxRuns \in Nat \ {0} /\ MaxRestarts \in Nat /\ MaxQueue \in Nat \ {0}
    /\ HasLiveness \in BOOLEAN /\ StartPeriod \in BOOLEAN

Pids == 1..MaxRuns

VARIABLES
    state, health,             \* InstanceStatus on the watch channel
    probeTimeout,              \* Shared's flag (user_stop only words the reason)
    cancel, probeCancel,       \* Shared's cancellation tokens
    child,                     \* pid of the live process, 0 for none
    started,                   \* processes started so far
    sup,                       \* supervisor: "run", "backoff", "done"
    restarts,                  \* restarts since the last acknowledgement
    acks,                      \* acknowledgements the supervisor accepted, per pid
    pidRecord,                 \* the epoch pid record exists
    events,                    \* supervisor events the monitor has not received
    initialPassed,             \* the initial deadline lies in the past
    mon,                       \* locals of monitor_loop
    run,                       \* its `current`: the RunState
    driver,                    \* its ProbeDriver (run 0: none)
    observations,              \* probe observations not yet received
    request,                   \* a probe_now: "none", "queued", "driver", "answered"
    stopper                    \* the stop_and_confirm_dead call

shared == <<probeTimeout, cancel, probeCancel>>
supervisor == <<child, started, sup, restarts, acks, pidRecord>>
vars == <<state, health, shared, supervisor, events, initialPassed, mon, run, driver,
          observations, request, stopper>>

Lives == {"Starting", "Running", "Restarting", "Stopping", "Stopped"}
States == [life : Lives, pid : 0..MaxRuns]
St(l, p) == [life |-> l, pid |-> p]

(* A HealthStatus, with the run whose probes produced it; "None" is Option *)
(* None.                                                                   *)
Healths == [state : TrackerStates \cup {"None"}, run : 0..MaxRuns]
Hl(s, r) == [state |-> s, run |-> r]
NoHealth == Hl("None", 0)
NoStatus == [state |-> St("Starting", 0), health |-> NoHealth]

NoRun == [id |-> 0, ackAttempted |-> FALSE, ready |-> FALSE, inStartPeriod |-> StartPeriod,
          tracker |-> NewTracker]
NewRun(r) == [NoRun EXCEPT !.id = r]
NoDriver == [run |-> 0, periodic |-> "none", command |-> FALSE]
Ev(k, p) == [kind |-> k, pid |-> p]
Events == [kind : {"Started", "Exited", "Restarting", "GaveUp", "Stopped"}, pid : 0..MaxRuns]
Observations == [run : Pids, healthy : BOOLEAN, lateInitial : BOOLEAN, lateRespawn : BOOLEAN]

Terminal == state.life = "Stopped"
MonitorGone == mon.pc \in {"ended", "aborted"}

(* monitor_loop's locals when it is entered and, as they no longer exist,  *)
(* after it returned.                                                      *)
MonitorAt(p) ==
    [pc |-> p, ret |-> "loop", out |-> NoStatus, everReady |-> FALSE, timeoutFired |-> FALSE,
     probesCancelled |-> FALSE, runs |-> 0, respawn |-> "none"]

TypeOK ==
    /\ state \in States
    /\ health \in Healths
    /\ probeTimeout \in BOOLEAN /\ cancel \in BOOLEAN /\ probeCancel \in BOOLEAN
    /\ pidRecord \in BOOLEAN /\ initialPassed \in BOOLEAN
    /\ child \in 0..MaxRuns /\ started \in Pids
    /\ sup \in {"run", "backoff", "done"}
    /\ restarts \in 0..MaxRestarts
    /\ acks \in [Pids -> Nat]
    /\ events \in Seq(Events)
    /\ mon \in [pc : {"loop", "onCancel", "onEvent", "onRequest", "onObservation", "acking",
                      "send", "drainInitial", "drainRespawn", "ended", "aborted"},
                ret : {"loop", "drainInitial", "drainRespawn"},
                out : [state : States, health : Healths],
                everReady : BOOLEAN, timeoutFired : BOOLEAN, probesCancelled : BOOLEAN,
                runs : 0..MaxRuns, respawn : {"none", "armed", "passed"}]
    /\ run \in [id : 0..MaxRuns, ackAttempted : BOOLEAN, ready : BOOLEAN,
                inStartPeriod : BOOLEAN, tracker : Trackers]
    /\ driver \in [run : 0..MaxRuns, periodic : {"none", "readiness", "liveness"},
                   command : BOOLEAN]
    /\ observations \in Seq(Observations)
    /\ request \in {"none", "queued", "driver", "answered"}
    /\ stopper \in [pc : {"none", "checked", "marked", "taken", "stopped", "joined", "ok", "err",
                          "dropped"},
                    supOk : BOOLEAN, joined : BOOLEAN]

(* spawn_configured: the supervisor has started the first process; the     *)
(* monitor is about to enter its loop.                                     *)
Init ==
    /\ state = St("Starting", 0) /\ health = Hl("Starting", 0)
    /\ probeTimeout = FALSE /\ cancel = FALSE /\ probeCancel = FALSE
    /\ child = 1 /\ started = 1 /\ sup = "run" /\ restarts = 0
    /\ acks = [p \in Pids |-> 0]
    /\ pidRecord = TRUE
    /\ events = <<Ev("Started", 1)>>
    /\ initialPassed = FALSE
    /\ mon = MonitorAt("loop")
    /\ run = NoRun /\ driver = NoDriver /\ observations = <<>>
    /\ request = "none"
    /\ stopper = [pc |-> "none", supOk |-> FALSE, joined |-> FALSE]

-----------------------------------------------------------------------------
(* External: the supervisor of nyanpasu-utils.                             *)

Emit(evs) == events' = IF MonitorGone THEN <<>> ELSE events \o evs
monitorVars == <<initialPassed, mon, run, driver, observations, request>>
supervisorFrame == <<state, health, shared, monitorVars, stopper>>

(* The record of a dead process is removed with best effort.               *)
RecordAfterExit == pidRecord' \in {pidRecord, FALSE}

(* The process exits by itself. After a clean exit the supervisor ends     *)
(* without a further event; a failure is retried while the budget lasts.   *)
ChildExits ==
    /\ sup = "run" /\ child # 0 /\ ~cancel
    /\ child' = 0
    /\ RecordAfterExit
    /\ \/ /\ sup' = "done"
          /\ Emit(<<Ev("Exited", child)>>)
          /\ UNCHANGED restarts
       \/ /\ restarts < MaxRestarts /\ started < MaxRuns
          /\ sup' = "backoff" /\ restarts' = restarts + 1
          /\ Emit(<<Ev("Exited", child), Ev("Restarting", 0)>>)
       \/ /\ restarts = MaxRestarts
          /\ sup' = "done"
          /\ Emit(<<Ev("Exited", child), Ev("GaveUp", 0)>>)
          /\ UNCHANGED restarts
    /\ UNCHANGED <<started, acks, supervisorFrame>>

Respawn ==
    /\ sup = "backoff" /\ ~cancel
    /\ sup' = "run" /\ started' = started + 1 /\ child' = started' /\ pidRecord' = TRUE
    /\ Emit(<<Ev("Started", started')>>)
    /\ UNCHANGED <<restarts, acks, supervisorFrame>>

(* A cancelled supervisor kills the process tree and emits Stopped. A kill *)
(* that fails leaves the process, and its record, behind.                  *)
SupervisorCancelled ==
    /\ cancel /\ sup # "done"
    /\ sup' = "done"
    /\ \/ child' = 0 /\ RecordAfterExit
       \/ child # 0 /\ UNCHANGED <<child, pidRecord>>
    /\ Emit(<<Ev("Stopped", 0)>>)
    /\ UNCHANGED <<started, restarts, acks, supervisorFrame>>

-----------------------------------------------------------------------------
(* The probe driver.                                                       *)

driverFrame == <<state, health, shared, supervisor, events, initialPassed, mon, run, stopper>>

(* stop_probe_driver: a reconcile request it still holds loses its sender, *)
(* which probe_now reads as unhealthy.                                     *)
StopDriver ==
    /\ driver' = NoDriver
    /\ request' = IF request = "driver" THEN "answered" ELSE request

Observed(healthy) ==
    [run |-> driver.run, healthy |-> healthy, lateInitial |-> initialPassed,
     lateRespawn |-> mon.respawn = "passed"]

(* A periodic attempt of the driver completes. A live process may answer   *)
(* either way, a dead one never does.                                      *)
PeriodicProbe(healthy) ==
    /\ driver.run # 0 /\ driver.periodic # "none"
    /\ Len(observations) < MaxQueue
    /\ healthy => child = driver.run
    /\ observations' = Append(observations, Observed(healthy))
    /\ UNCHANGED <<driver, request, driverFrame>>

(* The UseLiveness command: without a liveness probe the driver falls      *)
(* silent until it is asked to reconcile.                                  *)
DriverUseLiveness ==
    /\ driver.command
    /\ driver' = [driver EXCEPT !.command = FALSE,
                                !.periodic = IF HasLiveness THEN "liveness" ELSE "none"]
    /\ UNCHANGED <<observations, request, driverFrame>>

(* A Reconcile command: the answer goes out before the observation.        *)
DriverReconcile(healthy) ==
    /\ request = "driver" /\ ~driver.command
    /\ Len(observations) < MaxQueue
    /\ healthy => child = driver.run
    /\ request' = "answered"
    /\ observations' = Append(observations, Observed(healthy))
    /\ UNCHANGED <<driver, driverFrame>>

-----------------------------------------------------------------------------
(* The monitor task.                                                       *)

monitorFrame == <<child, started, sup, pidRecord, initialPassed, stopper>>
quietFrame == <<state, health, probeTimeout, cancel, probeCancel, restarts, acks>>

(* One poll of the biased select picks the first arm that is ready; the    *)
(* arm's body runs in a later step, with whatever happened meanwhile.      *)
EventReady == events # <<>> \/ sup = "done"
InitialNever == FALSE
InitialReady == initialPassed /\ ~mon.everReady /\ ~mon.timeoutFired
RespawnReady == mon.respawn = "passed"

MonitorPoll ==
    /\ mon.pc = "loop"
    /\ \E arm \in {"onCancel", "onEvent", "drainInitial", "drainRespawn", "onRequest",
                   "onObservation"} :
        /\ arm = IF probeCancel /\ ~mon.probesCancelled THEN "onCancel"
                 ELSE IF EventReady THEN "onEvent"
                 ELSE IF InitialReady THEN "drainInitial"
                 ELSE IF RespawnReady THEN "drainRespawn"
                 ELSE IF request = "queued" THEN "onRequest"
                 ELSE IF observations # <<>> THEN "onObservation" ELSE "none"
        /\ mon' = [mon EXCEPT !.pc = arm,
                              !.ret = IF arm \in {"drainInitial", "drainRespawn"}
                                      THEN arm ELSE "loop"]
    /\ UNCHANGED <<quietFrame, monitorFrame, events, run, driver, observations, request>>

MonitorOnCancel ==
    /\ mon.pc = "onCancel"
    /\ mon' = [mon EXCEPT !.pc = "loop", !.probesCancelled = TRUE, !.respawn = "none"]
    /\ run' = NoRun
    /\ StopDriver
    /\ UNCHANGED <<quietFrame, monitorFrame, events, observations>>

(* A new run resets the health and keeps the lifecycle it read.            *)
OnStarted ==
    LET r == mon.runs + 1 IN
    /\ Head(events).kind = "Started"
    /\ mon' = [mon EXCEPT !.pc = "send", !.runs = r,
                          !.out = [state |-> state, health |-> Hl("Starting", r)],
                          !.respawn = IF mon.everReady THEN "armed" ELSE "none"]
    /\ run' = NewRun(r)
    /\ driver' = IF mon.probesCancelled THEN NoDriver
                 ELSE [run |-> r, periodic |-> "readiness", command |-> FALSE]
    /\ request' = IF request = "driver" THEN "answered" ELSE request
    /\ UNCHANGED <<state, health>>

OnRestarting ==
    /\ Head(events).kind = "Restarting"
    /\ state' = St("Restarting", 0) /\ health' = Hl("Starting", 0)
    /\ mon' = [mon EXCEPT !.pc = "loop", !.respawn = "none"]
    /\ run' = NoRun
    /\ StopDriver

OnExited ==
    /\ Head(events).kind = "Exited"
    /\ mon' = [mon EXCEPT !.pc = "loop", !.respawn = "none"]
    /\ run' = NoRun
    /\ StopDriver
    /\ UNCHANGED <<state, health>>

DropMonitorKeepsRequest(p) ==
    /\ mon' = MonitorAt(p)
    /\ run' = NoRun
    /\ driver' = NoDriver
    /\ events' = <<>> /\ observations' = <<>>
    /\ UNCHANGED request

(* The monitor ends: its driver, its receivers and every probe request     *)
(* they hold are dropped.                                                  *)
DropMonitor(p) ==
    /\ mon' = MonitorAt(p)
    /\ run' = NoRun
    /\ driver' = NoDriver
    /\ events' = <<>> /\ observations' = <<>>
    /\ request' = IF request \in {"queued", "driver"} THEN "answered" ELSE request

(* GaveUp, Stopped or the end of the channel: publish the terminal state   *)
(* and return.                                                             *)
EndMonitor ==
    /\ events # <<>> => Head(events).kind \in {"GaveUp", "Stopped"}
    /\ state' = St("Stopped", 0) /\ health' = NoHealth
    /\ DropMonitor("ended")

MonitorOnEvent ==
    /\ mon.pc = "onEvent"
    /\ \/ /\ events # <<>>
          /\ events' = Tail(events)
          /\ OnStarted \/ OnRestarting \/ OnExited
          /\ UNCHANGED observations
       \/ EndMonitor
    /\ UNCHANGED <<probeTimeout, cancel, probeCancel, restarts, acks, monitorFrame>>

any_observation_applies(o) == TRUE
observation_applies(o) == o.run = run.id

(* An observation of the current run that completed within the deadline it *)
(* is measured against.                                                    *)
Accepted(o) ==
    /\ run.id # 0 /\ observation_applies(o)
    /\ ~(~mon.everReady /\ o.lateInitial)
    /\ ~(mon.respawn # "none" /\ o.lateRespawn)

NeedsAckEachTime(t) == t.state = "Healthy"
NeedsAck(t) == t.state = "Healthy" /\ ~run.ackAttempted

(* apply_probe_observation up to its first await or its publication: the   *)
(* tracker moves, and the first time it is Healthy the run asks for its    *)
(* acknowledgement.                                                        *)
apply_probe_observation ==
    LET o == Head(observations) IN
    \E s \in {run.inStartPeriod, FALSE} :
    LET t == Observe(run.tracker, o.healthy, s)
        observed == [run EXCEPT !.tracker = t, !.inStartPeriod = s]
        out(st) == [state |-> st, health |-> Hl(t.state, o.run)] IN
    /\ observations # <<>>
    /\ observations' = Tail(observations)
    /\ \/ /\ ~Accepted(o)
          /\ mon' = [mon EXCEPT !.pc = mon.ret]
          /\ UNCHANGED run
       \/ /\ Accepted(o) /\ NeedsAck(t)
          /\ run' = [observed EXCEPT !.ackAttempted = TRUE]
          /\ mon' = [mon EXCEPT !.pc = "acking", !.out = out(St("Running", run.id))]
       \/ /\ Accepted(o) /\ ~NeedsAck(t)
          /\ run' = observed
          /\ mon' = [mon EXCEPT !.pc = "send", !.out = out(state)]

MonitorOnObservation ==
    /\ mon.pc = "onObservation"
    /\ apply_probe_observation
    /\ UNCHANGED <<quietFrame, monitorFrame, events, driver, request>>

(* acknowledge_ready under the supervisor lock: refused when the caller of *)
(* stop took the supervisor or the process is no longer this one. Accepted *)
(* it resets the restart budget and the run is Running.                    *)
MonitorAck ==
    LET accepted == stopper.pc \notin {"taken", "stopped", "joined", "ok", "err"}
                    /\ sup = "run" /\ child = run.id IN
    /\ mon.pc = "acking"
    /\ \/ /\ ~accepted
          /\ mon' = [mon EXCEPT !.pc = mon.ret, !.out = NoStatus]
          /\ UNCHANGED <<run, driver, restarts, acks>>
       \/ /\ accepted
          /\ acks' = [acks EXCEPT ![run.id] = @ + 1]
          /\ restarts' = 0
          /\ run' = [run EXCEPT !.ready = TRUE]
          /\ driver' = IF driver.run = 0 THEN driver ELSE [driver EXCEPT !.command = TRUE]
          /\ mon' = [mon EXCEPT !.pc = "send", !.ret = "loop", !.everReady = TRUE,
                                !.respawn = "none"]
    /\ UNCHANGED <<state, health, probeTimeout, cancel, probeCancel, monitorFrame, events,
                   observations, request>>

(* publish_status of what was put together before.                         *)
MonitorSend ==
    /\ mon.pc = "send"
    /\ state' = mon.out.state /\ health' = mon.out.health
    /\ mon' = [mon EXCEPT !.pc = mon.ret, !.out = NoStatus]
    /\ UNCHANGED <<probeTimeout, cancel, probeCancel, restarts, acks, monitorFrame, events, run,
                   driver, observations, request>>

(* A timeout that leaves the run and its driver in place.                  *)
MonitorDrainKeepsRun ==
    /\ mon.pc \in {"drainInitial", "drainRespawn"}
    /\ \/ /\ apply_probe_observation
          /\ UNCHANGED <<probeTimeout, cancel, probeCancel, driver, request>>
       \/ /\ observations = <<>>
          /\ mon' = [mon EXCEPT !.pc = "loop", !.ret = "loop", !.respawn = "none",
                                !.timeoutFired = @ \/ mon.pc = "drainInitial"]
          /\ probeTimeout' = TRUE /\ cancel' = TRUE
          /\ UNCHANGED <<run, driver, request, probeCancel, observations>>
    /\ UNCHANGED <<state, health, restarts, acks, monitorFrame, events>>

(* A deadline passed: drain what was observed in time; if that does not    *)
(* make the run ready, cancel the probes and the supervisor.               *)
MonitorDrain ==
    /\ mon.pc \in {"drainInitial", "drainRespawn"}
    /\ \/ /\ apply_probe_observation
          /\ UNCHANGED <<probeTimeout, cancel, probeCancel, driver, request>>
       \/ /\ observations = <<>>
          /\ mon' = [mon EXCEPT !.pc = "loop", !.ret = "loop", !.respawn = "none",
                                !.timeoutFired = @ \/ mon.pc = "drainInitial"]
          /\ run' = NoRun
          /\ StopDriver
          /\ probeTimeout' = TRUE /\ cancel' = TRUE /\ probeCancel' = TRUE
          /\ UNCHANGED observations
    /\ UNCHANGED <<state, health, restarts, acks, monitorFrame, events>>

(* A probe_now request reaches the driver of a ready run only.             *)
MonitorOnRequest ==
    /\ mon.pc = "onRequest"
    /\ request' = IF run.ready /\ driver.run # 0 THEN "driver" ELSE "answered"
    /\ mon' = [mon EXCEPT !.pc = "loop"]
    /\ UNCHANGED <<quietFrame, monitorFrame, events, run, driver, observations>>

-----------------------------------------------------------------------------
(* Time.                                                                   *)

InitialDeadlinePasses ==
    /\ ~initialPassed /\ initialPassed' = TRUE
    /\ UNCHANGED <<state, health, shared, supervisor, events, mon, run, driver, observations,
                   request, stopper>>

RespawnDeadlinePasses ==
    /\ mon.respawn = "armed"
    /\ mon' = [mon EXCEPT !.respawn = "passed"]
    /\ UNCHANGED <<state, health, shared, supervisor, events, initialPassed, run, driver,
                   observations, request, stopper>>

-----------------------------------------------------------------------------
(* The owner of the Instance: probe_now, stop_and_confirm_dead, drop.      *)

ProbeNow ==
    /\ stopper.pc = "none" /\ request \in {"none", "answered"}
    /\ request' = IF MonitorGone THEN "answered" ELSE "queued"
    /\ UNCHANGED <<state, health, shared, supervisor, events, initialPassed, mon, run, driver,
                   observations, stopper>>

stopFrame == <<probeTimeout, started, sup, restarts, acks, initialPassed, run,
               observations>>

(* reap_epoch_pid_file: a verdict kills the recorded process and consumes  *)
(* the record.                                                             *)
Reaped == pidRecord /\ child' = 0 /\ pidRecord' = FALSE

StopReturnsDetached(result) ==
    stopper' = [stopper EXCEPT !.pc = result] /\ UNCHANGED <<cancel, probeCancel>>

(* The call returns and drops the Instance, which cancels everything.      *)
StopReturns(result) ==
    /\ stopper' = [stopper EXCEPT !.pc = result]
    /\ cancel' = TRUE /\ probeCancel' = TRUE

TrustTerminal == UNCHANGED <<child, pidRecord>> /\ StopReturns("ok")

(* reap_epoch_record_if_present, then Ok; an unusable record is an error.  *)
ReapIfPresent ==
    \/ Reaped /\ StopReturns("ok")
    \/ ~pidRecord /\ UNCHANGED <<child, pidRecord>> /\ StopReturns("ok")
    \/ pidRecord /\ UNCHANGED <<child, pidRecord>> /\ StopReturns("err")

(* The check of is_terminal at the top of stop_and_confirm_dead.           *)
StopCheck ==
    /\ stopper.pc = "none" /\ request \notin {"queued", "driver"}
    /\ \/ Terminal /\ ReapIfPresent
       \/ /\ ~Terminal
          /\ stopper' = [stopper EXCEPT !.pc = "checked"]
          /\ UNCHANGED <<cancel, probeCancel, child, pidRecord>>
    /\ UNCHANGED <<state, health, stopFrame, events, mon, driver, request>>

StopMark ==
    /\ stopper.pc = "checked"
    /\ probeCancel' = TRUE
    /\ state' = St("Stopping", 0) /\ health' = NoHealth
    /\ stopper' = [stopper EXCEPT !.pc = "marked"]
    /\ UNCHANGED <<cancel, child, pidRecord, stopFrame, events, mon, driver, request>>

(* take() of the supervisor, once the monitor does not hold its lock.      *)
StopTake ==
    /\ stopper.pc = "marked"
    /\ stopper' = [stopper EXCEPT !.pc = "taken"]
    /\ UNCHANGED <<state, health, shared, child, pidRecord, stopFrame, events, mon, driver,
                   request>>

(* Supervisor::stop within the timeout: it cancels, kills and joins. On a  *)
(* timeout or an error the request is out and nothing is known.            *)
StopSupervisor ==
    /\ stopper.pc = "taken"
    /\ cancel' = TRUE
    /\ \/ /\ sup = "done"
          /\ stopper' = [stopper EXCEPT !.pc = "stopped", !.supOk = TRUE]
          /\ UNCHANGED <<child, pidRecord, events, sup>>
       \/ /\ sup # "done" /\ sup' = "done"
          /\ child' = 0 /\ RecordAfterExit
          /\ Emit(IF child # 0 THEN <<Ev("Exited", child), Ev("Stopped", 0)>>
                               ELSE <<Ev("Stopped", 0)>>)
          /\ stopper' = [stopper EXCEPT !.pc = "stopped", !.supOk = TRUE]
       \/ /\ stopper' = [stopper EXCEPT !.pc = "stopped", !.supOk = FALSE]
          /\ UNCHANGED <<child, pidRecord, events, sup>>
    /\ UNCHANGED <<state, health, probeCancel, probeTimeout, started, restarts, acks,
                   initialPassed, run, observations, mon, driver, request>>

(* Join the monitor; on a timeout it is aborted at whatever await it is.   *)
StopJoin ==
    /\ stopper.pc = "stopped"
    /\ \/ /\ mon.pc = "ended"
          /\ stopper' = [stopper EXCEPT !.pc = "joined", !.joined = TRUE]
          /\ UNCHANGED <<mon, run, driver, events, observations, request>>
       \/ /\ mon.pc # "ended"
          /\ stopper' = [stopper EXCEPT !.pc = "joined"]
          /\ DropMonitor("aborted")
    /\ UNCHANGED <<state, health, shared, supervisor, initialPassed>>

(* Death is proved by a stopped supervisor with an ended monitor, or by    *)
(* the pid record; a missing record proves it only for a terminal state.   *)
StopConfirm ==
    LET proved == stopper.supOk /\ (stopper.joined \/ Terminal) IN
    /\ stopper.pc = "joined"
    /\ \/ /\ proved /\ ReapIfPresent
          /\ UNCHANGED <<state, health>>
       \/ /\ ~proved
          /\ \/ /\ Reaped /\ StopReturns("ok")
                /\ state' = St("Stopped", 0) /\ health' = NoHealth
             \/ /\ UNCHANGED <<child, pidRecord, state, health>>
                /\ \/ pidRecord /\ StopReturns("err")
                   \/ ~pidRecord /\ StopReturns(IF Terminal THEN "ok" ELSE "err")
    /\ UNCHANGED <<stopFrame, events, mon, driver, request>>

DropInstance ==
    /\ stopper.pc = "none" /\ request \notin {"queued", "driver"}
    /\ StopReturns("dropped")
    /\ UNCHANGED <<state, health, child, pidRecord, stopFrame, events, mon, driver,
                   request>>

-----------------------------------------------------------------------------
Supervision == ChildExits \/ Respawn \/ SupervisorCancelled

DriverCommand == DriverUseLiveness \/ \E healthy \in BOOLEAN : DriverReconcile(healthy)
Probing == DriverCommand \/ \E healthy \in BOOLEAN : PeriodicProbe(healthy)

Monitor ==
    \/ MonitorPoll \/ MonitorOnCancel \/ MonitorOnEvent \/ MonitorOnObservation
    \/ MonitorAck \/ MonitorSend \/ MonitorDrain \/ MonitorOnRequest

Stopping == StopMark \/ StopTake \/ StopSupervisor \/ StopJoin \/ StopConfirm

Next ==
    \/ Supervision \/ Probing \/ Monitor \/ Stopping
    \/ InitialDeadlinePasses \/ RespawnDeadlinePasses
    \/ ProbeNow \/ StopCheck \/ DropInstance

Spec == Init /\ [][Next]_vars

(* The runtime schedules every task that can run, timers expire, a         *)
(* cancelled supervisor ends and a due respawn happens. SF where periodic  *)
(* probes could starve a step only because the model has no clock: they    *)
(* are an interval apart, so a drain ends and a reconcile gets its place   *)
(* in the (bounded) queue.                                                 *)
FairSpec ==
    /\ Spec
    /\ WF_vars(Respawn \/ SupervisorCancelled)
    /\ WF_vars(Monitor) /\ WF_vars(Stopping)
    /\ WF_vars(InitialDeadlinePasses) /\ WF_vars(RespawnDeadlinePasses)
    /\ SF_vars(DriverCommand)
    /\ SF_vars(MonitorDrain /\ observations = <<>>)

-----------------------------------------------------------------------------
(* Properties                                                              *)

(* The supervisor accepts at most one readiness acknowledgement for each   *)
(* process run, however often probes flap, deadlines drain the queue or    *)
(* processes crash: a second one would refill the restart budget.          *)
AckOnce == \A p \in Pids : acks[p] <= 1

(* A status that shows Running{pid} carries health observed on that very   *)
(* run, and the supervisor acknowledged it: late observations of an        *)
(* earlier process never decorate a later pid.                             *)
HealthMatchesPid ==
    state.life = "Running" => health.run = state.pid /\ acks[state.pid] = 1

(* stop_and_confirm_dead returns Ok only when no process of the epoch is   *)
(* alive, and none comes back: through a supervisor that gave up, a kill   *)
(* that failed, a timed out stop or an aborted monitor.                    *)
StopOkMeansDead == stopper.pc = "ok" => child = 0

(* Once a startup deadline has fired no run of the instance is ever        *)
(* acknowledged: the timeout cannot be overtaken by a late success while   *)
(* the supervisor is still killing the process.                            *)
TimedOutNeverReady == [][probeTimeout => acks' = acks]_vars

(* wait_ready resolves: an instance that is starting becomes Running or    *)
(* Stopped (or its stop reports that death is uncertain).                  *)
StartupResolves ==
    state.life = "Starting" ~> (state.life \in {"Running", "Stopped"} \/ stopper.pc = "err")

(* A probe_now request is answered whatever happens to the run, the driver *)
(* and the monitor that carry it.                                          *)
ProbeAnswered == request = "queued" ~> request = "answered"

(* Dropping an Instance without stop ends supervision and publishes a      *)
(* terminal state.                                                         *)
DropEndsInstance == stopper.pc = "dropped" ~> (sup = "done" /\ Terminal)

=============================================================================
