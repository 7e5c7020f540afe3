--------------------------- MODULE InstanceProofs ---------------------------
(***************************************************************************)
(* The Instance for any restart budget, number of process runs, queue      *)
(* length and probe configuration: what its status may claim, what an Ok   *)
(* of stop_and_confirm_dead means, and what a startup timeout rules out.   *)
(***************************************************************************)
EXTENDS Instance, TLAPS

(* What the proofs below need to know of sequences.                        *)

(* A sequence with one more element.                                       *)
LEMMA AppendFacts ==
  ASSUME NEW S, NEW seq \in Seq(S), NEW elt \in S
  PROVE  /\ Append(seq, elt) \in Seq(S)
         /\ Len(Append(seq, elt)) = Len(seq) + 1
OBVIOUS

(* Two sequences in a row.                                                 *)
LEMMA ConcatFacts ==
  ASSUME NEW S, NEW s \in Seq(S), NEW u \in Seq(S)
  PROVE  /\ s \o u \in Seq(S)
         /\ Len(s \o u) = Len(s) + Len(u)
         /\ \A i \in 1..Len(s) + Len(u) :
              (s \o u)[i] = IF i <= Len(s) THEN s[i] ELSE u[i - Len(s)]
OBVIOUS

(* The elements of a sequence.                                             *)
LEMMA ElementFacts ==
  ASSUME NEW S, NEW s \in Seq(S), NEW n \in 1..Len(s)
  PROVE  s[n] \in S
OBVIOUS

(* The empty sequence.                                                     *)
LEMMA EmptyFacts ==
  ASSUME NEW S
  PROVE  /\ << >> \in Seq(S)
         /\ Len(<< >>) = 0
         /\ \A s \in Seq(S) : s # << >> => Len(s) \in Nat \ {0}
OBVIOUS

(* The first element and the rest.                                         *)
LEMMA HeadTailFacts ==
  ASSUME NEW S, NEW s \in Seq(S), s # << >>
  PROVE  /\ Head(s) \in S
         /\ Tail(s) \in Seq(S)
         /\ Len(Tail(s)) = Len(s) - 1
         /\ \A i \in 1..Len(Tail(s)) : Tail(s)[i] = s[i + 1]
OBVIOUS

(* The length of a sequence.                                               *)
LEMMA LenFacts ==
  ASSUME NEW S, NEW s \in Seq(S)
  PROVE  /\ Len(s) \in Nat
         /\ DOMAIN s = 1..Len(s)
         /\ s \in [1..Len(s) -> S]
OBVIOUS

USE InstanceAssumption

(* Where the unread Started events are.                                    *)
StartedAt == {i \in 1..Len(events) : events[i].kind = "Started"}

(* The status shows no running process and the monitor has no run that     *)
(* could be shown.                                                         *)
Settled == state.life # "Running" /\ run.id = 0

(* The supervisor announces a restart before it starts the next process,   *)
(* and the pids it announces grow: so the monitor has left Running when it *)
(* reads Started, and its count of runs is below the pid it reads.         *)
EventsInv ==
    /\ sup = "backoff" => started < MaxRuns
    /\ MonitorGone => events = <<>> /\ run = NoRun
    /\ ~MonitorGone =>
          /\ mon.runs <= started
          /\ \A i \in StartedAt : /\ events[i].pid > mon.runs /\ events[i].pid <= started
                                  /\ i = 1 => Settled
                                  /\ i > 1 => events[i - 1].kind = "Restarting"
                                  /\ \A j \in StartedAt : i < j => events[i].pid < events[j].pid
          /\ sup = "backoff" => IF events = <<>> THEN Settled
                                ELSE events[Len(events)].kind = "Restarting"

(* Acknowledgements: only runs the monitor has begun have one, the current *)
(* run has none while it asks for it, and asks once.                       *)
AckInv ==
    /\ AckOnce
    /\ run.id # 0 => run.id = mon.runs
    /\ ~MonitorGone => \A p \in Pids : p > mon.runs => acks[p] = 0
    /\ \A p \in Pids : p = run.id /\ (~run.ackAttempted \/ mon.pc = "acking") => acks[p] = 0
    /\ mon.pc = "acking" => run.ackAttempted

(* What the watch channel shows, and what the monitor is about to publish, *)
(* belongs to the current run.                                             *)
Shown(st, h) == st.life = "Running" => st.pid \in Pids /\ h.run = st.pid

StatusInv ==
    /\ Shown(state, health)
    /\ state.life = "Running" => acks[state.pid] = 1 /\ run.id \in {0, state.pid}
    /\ mon.pc \in {"acking", "send"} => run.id # 0 /\ Shown(mon.out.state, mon.out.health)
    /\ mon.pc = "acking" => mon.out.state = St("Running", run.id)
    /\ mon.pc = "send" /\ mon.out.state.life = "Running" =>
          mon.out.state.pid = run.id /\ acks[run.id] = 1

(* A live process has its pid record, and a call that returned has         *)
(* cancelled the supervisor.                                               *)
StopInv ==
    /\ child # 0 => pidRecord
    /\ stopper.pc \in {"ok", "err", "dropped"} => cancel
    /\ StopOkMeansDead

(* After a startup timeout there is no driver and no observation, and the  *)
(* monitor learns that probes are cancelled before it begins another run.  *)
TimeoutInv ==
    /\ request = "driver" => driver.run # 0
    /\ probeTimeout =>
          /\ probeCancel /\ observations = <<>> /\ driver = NoDriver /\ mon.pc # "acking"
          /\ MonitorGone \/ mon.probesCancelled \/ mon.pc \in {"loop", "onCancel"}

InstanceInv == TypeOK /\ EventsInv /\ AckInv /\ StatusInv /\ StopInv /\ TimeoutInv

-----------------------------------------------------------------------------
(* The health tracker: an observation keeps its counters within u32.       *)
LEMMA ObserveType ==
    ASSUME NEW t \in Trackers, NEW healthy \in BOOLEAN, NEW s \in BOOLEAN
    PROVE  Observe(t, healthy, s) \in Trackers
<1> USE ThresholdAssumption DEF Trackers, TrackerStates
<1>1. \A n \in 0..CounterMax : saturating_add(n) \in 0..CounterMax
  BY DEF saturating_add
<1>2. ObserveHealthy(t) \in Trackers
  BY <1>1 DEF ObserveHealthy
<1>3. ObserveUnhealthy(t, s) \in Trackers
  BY <1>1 DEF ObserveUnhealthy
<1> QED BY <1>2, <1>3, Zenon DEF Observe

(* The sets TypeOK puts the monitor's locals in.                           *)
MonitorPoints == {"loop", "onCancel", "onEvent", "onRequest", "onObservation", "acking", "send",
                  "drainInitial", "drainRespawn", "ended", "aborted"}
MonitorStates == [pc : MonitorPoints, ret : {"loop", "drainInitial", "drainRespawn"},
                  out : [state : States, health : Healths],
                  everReady : BOOLEAN, timeoutFired : BOOLEAN, probesCancelled : BOOLEAN,
                  runs : 0..MaxRuns, respawn : {"none", "armed", "passed"}]
Drivers == [run : 0..MaxRuns, periodic : {"none", "readiness", "liveness"}, command : BOOLEAN]
Requests == {"none", "queued", "driver", "answered"}
RunStates == [id : 0..MaxRuns, ackAttempted : BOOLEAN, ready : BOOLEAN,
              inStartPeriod : BOOLEAN, tracker : Trackers]

(* The types of the monitor, the run and the driver.                       *)
LEMMA MonitorType == TypeOK => mon \in MonitorStates /\ run \in RunStates /\ driver \in Drivers
  BY Zenon DEF TypeOK, MonitorStates, MonitorPoints, RunStates, Drivers

(* A new run is a run.                                                     *)
LEMMA NewRunType ==
    ASSUME NEW r \in 0..MaxRuns
    PROVE  NewRun(r) \in RunStates /\ NewRun(r).id = r /\ ~NewRun(r).ackAttempted
<1>1. NewTracker \in Trackers
  BY ThresholdAssumption DEF NewTracker, Trackers, TrackerStates
<1> QED BY <1>1, Zenon DEF NewRun, NoRun, RunStates

(* No run is a run state of number zero.                                   *)
LEMMA NoRunType == NoRun \in RunStates /\ NoRun.id = 0
<1>1. NewTracker \in Trackers
  BY ThresholdAssumption DEF NewTracker, Trackers, TrackerStates
<1> QED BY <1>1 DEF NoRun, RunStates

(* No driver drives no run.                                                *)
LEMMA NoDriverType == NoDriver \in Drivers /\ NoDriver.run = 0 /\ ~NoDriver.command
  BY DEF NoDriver, Drivers

(* The status before anything was published.                               *)
LEMMA NoStatusType == NoHealth \in Healths /\ NoStatus \in [state : States, health : Healths]
  BY DEF NoHealth, Hl, Healths, NoStatus, St, States, Lives

(* The monitor stays a monitor wherever it goes.                           *)
LEMMA MonitorAtType ==
    ASSUME NEW p \in {"loop", "ended", "aborted"}
    PROVE  /\ MonitorAt(p) \in MonitorStates /\ MonitorAt(p).pc = p /\ MonitorAt(p).runs = 0
           /\ ~MonitorAt(p).probesCancelled
  BY NoStatusType DEF MonitorAt, MonitorStates, MonitorPoints

(* Events are queued at the end, and nothing once the monitor is gone.     *)
LEMMA EmitEffect ==
    ASSUME TypeOK, NEW evs \in Seq(Events), Emit(evs)
    PROVE  /\ events' \in Seq(Events)
           /\ MonitorGone => events' = <<>>
           /\ ~MonitorGone => events' = events \o evs
  BY ConcatFacts, EmptyFacts, Zenon DEF Emit, TypeOK

(* What apply_probe_observation does, without the tracker's counters: the  *)
(* observation is not of this run or came too late; or the run asks for    *)
(* its acknowledgement; or new health is to be published.                  *)
HealthOf(r) == {h \in Healths : h.run = r}

(* What taking an observation of a probe changes.                          *)
LEMMA ApplyEffect ==
    ASSUME TypeOK, apply_probe_observation
    PROVE  /\ observations # <<>> /\ observations' \in Seq(Observations)
           /\ run' \in RunStates /\ run'.id = run.id
           /\ \/ run' = run /\ mon' = [mon EXCEPT !.pc = mon.ret]
              \/ /\ run.id # 0 /\ ~run.ackAttempted /\ run'.ackAttempted
                 /\ \E h \in HealthOf(run.id) :
                       mon' = [mon EXCEPT !.pc = "acking",
                                          !.out = [state |-> St("Running", run.id), health |-> h]]
              \/ /\ run.id # 0 /\ run'.ackAttempted = run.ackAttempted
                 /\ \E h \in HealthOf(run.id) :
                       mon' = [mon EXCEPT !.pc = "send",
                                          !.out = [state |-> state, health |-> h]]
<1> DEFINE o == Head(observations)
<1>1. /\ observations # <<>> /\ observations' = Tail(observations)
      /\ observations \in Seq(Observations) /\ run \in RunStates
  BY Zenon DEF apply_probe_observation, TypeOK, RunStates
<1>2. o \in Observations /\ observations' \in Seq(Observations)
  BY <1>1, HeadTailFacts, Zenon
<1> HIDE DEF o
<1>3. PICK s \in {run.inStartPeriod, FALSE} :
        LET t == Observe(run.tracker, o.healthy, s)
            observed == [run EXCEPT !.tracker = t, !.inStartPeriod = s]
            out(st) == [state |-> st, health |-> Hl(t.state, o.run)] IN
        \/ /\ ~Accepted(o)
           /\ mon' = [mon EXCEPT !.pc = mon.ret]
           /\ UNCHANGED run
        \/ /\ Accepted(o) /\ NeedsAck(t)
           /\ run' = [observed EXCEPT !.ackAttempted = TRUE]
           /\ mon' = [mon EXCEPT !.pc = "acking", !.out = out(St("Running", run.id))]
        \/ /\ Accepted(o) /\ ~NeedsAck(t)
           /\ run' = observed
           /\ mon' = [mon EXCEPT !.pc = "send", !.out = out(state)]
  BY Zenon DEF apply_probe_observation, o
<1> DEFINE t == Observe(run.tracker, o.healthy, s)
           observed == [run EXCEPT !.tracker = t, !.inStartPeriod = s]
           h == Hl(t.state, o.run)
<1>4. s \in BOOLEAN
  BY <1>1, Zenon DEF RunStates
<1>5. t \in Trackers
  BY <1>1, <1>2, <1>4, ObserveType, Zenon DEF RunStates, Observations
<1>6. Accepted(o) => run.id # 0 /\ o.run = run.id
  BY Zenon DEF Accepted, observation_applies
<1>7. Accepted(o) => h \in HealthOf(run.id)
  BY <1>1, <1>5, <1>6, Zenon DEF Hl, HealthOf, Healths, Trackers, RunStates
<1>8. NeedsAck(t) => ~run.ackAttempted
  BY Zenon DEF NeedsAck
<1> HIDE DEF t, h
<1>9. observed \in RunStates /\ observed.id = run.id /\ observed.ackAttempted = run.ackAttempted
  BY <1>1, <1>4, <1>5, Zenon DEF RunStates
<1>10. LET asked == [observed EXCEPT !.ackAttempted = TRUE] IN
       asked \in RunStates /\ asked.id = run.id /\ asked.ackAttempted
  BY <1>9, Zenon DEF RunStates
<1> HIDE DEF observed
<1>11. CASE ~Accepted(o) /\ mon' = [mon EXCEPT !.pc = mon.ret] /\ UNCHANGED run
  BY <1>1, <1>2, <1>11, Zenon
<1>12. CASE /\ Accepted(o) /\ NeedsAck(t)
            /\ run' = [observed EXCEPT !.ackAttempted = TRUE]
            /\ mon' = [mon EXCEPT !.pc = "acking",
                                  !.out = [state |-> St("Running", run.id), health |-> h]]
  BY <1>1, <1>2, <1>6, <1>7, <1>8, <1>10, <1>12, Zenon
<1>13. CASE /\ Accepted(o) /\ ~NeedsAck(t)
            /\ run' = observed
            /\ mon' = [mon EXCEPT !.pc = "send", !.out = [state |-> state, health |-> h]]
  BY <1>1, <1>2, <1>6, <1>7, <1>9, <1>13, Zenon
<1> QED BY <1>3, <1>11, <1>12, <1>13, Zenon DEF t, observed, h

-----------------------------------------------------------------------------
(* The types. The supervisor's steps.                                      *)
LEMMA TypeSupervision ==
    ASSUME InstanceInv, Supervision
    PROVE  TypeOK'
<1> USE DEF InstanceInv, TypeOK, supervisorFrame, monitorVars, shared
<1>1. CASE ChildExits
  <2>1. \A k \in {"Started", "Exited", "Restarting", "GaveUp", "Stopped"}, q \in 0..MaxRuns :
           Ev(k, q) \in Events
    BY Zenon DEF Ev, Events
  <2>2. /\ Ev("Exited", child) \in Events /\ Ev("Restarting", 0) \in Events
        /\ Ev("GaveUp", 0) \in Events
    BY <2>1
  <2>3. /\ <<Ev("Exited", child)>> \in Seq(Events)
        /\ <<Ev("Exited", child), Ev("Restarting", 0)>> \in Seq(Events)
        /\ <<Ev("Exited", child), Ev("GaveUp", 0)>> \in Seq(Events)
    BY <2>2
  <2>4. events' \in Seq(Events)
    BY <1>1, <2>3, EmitEffect, Zenon DEF ChildExits
  <2>5. restarts' \in 0..MaxRestarts
    BY <1>1 DEF ChildExits
  <2>6. pidRecord' \in BOOLEAN
    BY <1>1, Zenon DEF ChildExits, RecordAfterExit
  <2> QED BY <1>1, <2>4, <2>5, <2>6 DEF ChildExits
<1>2. CASE Respawn
  <2>1. started' \in Pids
    BY <1>2 DEF Respawn, EventsInv, Pids
  <2>2. <<Ev("Started", started')>> \in Seq(Events)
    BY <2>1 DEF Ev, Events, Pids
  <2>3. events' \in Seq(Events)
    BY <1>2, <2>2, EmitEffect, Zenon DEF Respawn
  <2> QED BY <1>2, <2>1, <2>3 DEF Respawn, Pids
<1>3. CASE SupervisorCancelled
  <2>1. <<Ev("Stopped", 0)>> \in Seq(Events)
    BY DEF Ev, Events
  <2>2. events' \in Seq(Events)
    BY <1>3, <2>1, EmitEffect, Zenon DEF SupervisorCancelled
  <2>3. pidRecord' \in BOOLEAN
    BY <1>3, Zenon DEF SupervisorCancelled, RecordAfterExit
  <2> QED BY <1>3, <2>2, <2>3 DEF SupervisorCancelled
<1> QED BY <1>1, <1>2, <1>3, Zenon DEF Supervision

(* The probe driver's steps.                                               *)
LEMMA ObservedType ==
    ASSUME TypeOK, driver.run # 0, NEW healthy \in BOOLEAN
    PROVE  Append(observations, Observed(healthy)) \in Seq(Observations)
<1>1. Observed(healthy) \in Observations
  BY DEF Observed, Observations, TypeOK, Pids
<1> QED BY <1>1, AppendFacts, Zenon DEF TypeOK

(* Probes keep the type.                                                   *)
LEMMA TypeProbing ==
    ASSUME InstanceInv, Probing
    PROVE  TypeOK'
<1> USE DEF InstanceInv, TypeOK, driverFrame, shared, supervisor
<1>1. CASE DriverUseLiveness
  <2>1. driver' \in [run : 0..MaxRuns, periodic : {"none", "readiness", "liveness"},
                     command : BOOLEAN]
    BY <1>1, Zenon DEF DriverUseLiveness
  <2> QED BY <1>1, <2>1 DEF DriverUseLiveness
<1>2. ASSUME NEW healthy \in BOOLEAN, DriverReconcile(healthy)
      PROVE  TypeOK'
  <2>1. observations' \in Seq(Observations)
    BY <1>2, ObservedType, Zenon DEF DriverReconcile, TimeoutInv
  <2> QED BY <1>2, <2>1 DEF DriverReconcile
<1>3. ASSUME NEW healthy \in BOOLEAN, PeriodicProbe(healthy)
      PROVE  TypeOK'
  <2>1. observations' \in Seq(Observations)
    BY <1>3, ObservedType, Zenon DEF PeriodicProbe
  <2> QED BY <1>3, <2>1 DEF PeriodicProbe
<1> QED BY <1>1, <1>2, <1>3, Zenon DEF Probing, DriverCommand

(* The monitor's steps. Two facts about the event it reads.                *)
LEMMA HeadEvent ==
    ASSUME TypeOK, events # <<>>
    PROVE  /\ Head(events) = events[1] /\ events[1] \in Events /\ Len(events) \in Nat \ {0}
           /\ Tail(events) \in Seq(Events) /\ Len(Tail(events)) = Len(events) - 1
           /\ \A i \in 1..Len(Tail(events)) : Tail(events)[i] = events[i + 1]
           /\ 1 \in StartedAt <=> events[1].kind = "Started"
<1>1. events \in Seq(Events)
  BY Zenon DEF TypeOK
<1>2. /\ Head(events) = events[1] /\ Head(events) \in Events /\ Len(events) \in Nat \ {0}
      /\ Tail(events) \in Seq(Events) /\ Len(Tail(events)) = Len(events) - 1
      /\ \A i \in 1..Len(Tail(events)) : Tail(events)[i] = events[i + 1]
  BY <1>1, HeadTailFacts, EmptyFacts
<1> QED BY <1>2 DEF StartedAt

(* Dropping the instance keeps the type.                                   *)
LEMMA DropType ==
    ASSUME TypeOK, NEW p \in {"ended", "aborted"}, DropMonitor(p)
    PROVE  /\ mon' \in MonitorStates /\ run' \in RunStates /\ driver' \in Drivers
           /\ events' \in Seq(Events) /\ observations' \in Seq(Observations)
           /\ request' \in Requests
<1>1. mon' \in MonitorStates
  BY MonitorAtType, Zenon DEF DropMonitor
<1>2. run' \in RunStates /\ driver' \in Drivers
  BY NoRunType, NoDriverType, Zenon DEF DropMonitor
<1>3. events' \in Seq(Events) /\ observations' \in Seq(Observations)
  BY EmptyFacts, Zenon DEF DropMonitor
<1>4. request' \in Requests
  BY Zenon DEF DropMonitor, TypeOK, Requests
<1> QED BY <1>1, <1>2, <1>3, <1>4, Zenon

(* Handling an event keeps the type.                                       *)
LEMMA TypeOnEvent ==
    ASSUME InstanceInv, MonitorOnEvent
    PROVE  TypeOK'
<1>1. TypeOK /\ EventsInv
  BY Zenon DEF InstanceInv
<1>2. mon \in MonitorStates /\ run \in RunStates /\ driver \in Drivers /\ request \in Requests
  BY <1>1, MonitorType, Zenon DEF TypeOK, Requests
<1>3. CASE events # <<>> /\ events' = Tail(events) /\ OnStarted /\ UNCHANGED observations
  <2>1. mon.runs + 1 \in 1..MaxRuns
    <3>1. 1 \in StartedAt
      BY <1>1, <1>3, HeadEvent, Zenon DEF OnStarted
    <3>2. ~MonitorGone
      BY Zenon DEF MonitorOnEvent, MonitorGone
    <3>3. events[1].pid > mon.runs /\ events[1].pid <= started
      BY <1>1, <3>1, <3>2, Zenon DEF EventsInv
    <3>4. events[1].pid \in Nat
      BY <1>1, <1>3, HeadEvent DEF Events
    <3>5. mon.runs \in Nat /\ started \in 1..MaxRuns
      BY <1>1, <1>2 DEF MonitorStates, TypeOK, Pids
    <3> QED BY <3>3, <3>4, <3>5
  <2> DEFINE out == [state |-> state, health |-> Hl("Starting", mon.runs + 1)]
             respawn == IF mon.everReady THEN "armed" ELSE "none"
             r == mon.runs + 1
  <2>2. out \in [state : States, health : Healths] /\ respawn \in {"none", "armed"}
    BY <1>1, <2>1 DEF Hl, Healths, TrackerStates, TypeOK
  <2>8. mon' = [mon EXCEPT !.pc = "send", !.runs = r, !.out = out, !.respawn = respawn]
    BY <1>3, Zenon DEF OnStarted
  <2>9. r \in 0..MaxRuns
    BY <2>1
  <2>3. mon' \in MonitorStates
    <3> HIDE DEF out, respawn, r
    <3> QED BY <1>2, <2>2, <2>8, <2>9, Zenon DEF MonitorStates, MonitorPoints
  <2>4. run' \in RunStates
    BY <1>3, <2>1, NewRunType DEF OnStarted
  <2>5. driver' \in Drivers
    BY <1>3, <2>1, NoDriverType DEF OnStarted, Drivers
  <2>7. request' \in Requests
    BY <1>2, <1>3, Zenon DEF OnStarted, Requests
  <2>6. events' \in Seq(Events)
    BY <1>1, <1>3, HeadEvent, Zenon
  <2> QED BY <1>1, <1>3, <2>3, <2>4, <2>5, <2>6, <2>7
          DEF TypeOK, MonitorOnEvent, OnStarted, MonitorStates, MonitorPoints, RunStates,
              Drivers, Requests, monitorFrame
<1>4. CASE events # <<>> /\ events' = Tail(events) /\ (OnRestarting \/ OnExited)
           /\ UNCHANGED observations
  <2>1. mon' = [mon EXCEPT !.pc = "loop", !.respawn = "none"] /\ run' = NoRun /\ StopDriver
    BY <1>4, Zenon DEF OnRestarting, OnExited
  <2>2. mon' \in MonitorStates
    BY <1>2, <2>1, Zenon DEF MonitorStates, MonitorPoints
  <2>3. run' \in RunStates /\ driver' \in Drivers
    BY <2>1, NoRunType, NoDriverType, Zenon DEF StopDriver
  <2>6. request' \in Requests
    BY <1>2, <2>1, Zenon DEF Requests, StopDriver
  <2>4. events' \in Seq(Events)
    BY <1>1, <1>4, HeadEvent, Zenon
  <2>5. state' \in States /\ health' \in Healths
    <3>1. St("Restarting", 0) \in States /\ Hl("Starting", 0) \in Healths
      BY DEF St, States, Lives, Hl, Healths, TrackerStates
    <3> QED BY <1>1, <1>4, <3>1, Zenon DEF OnRestarting, OnExited, TypeOK
  <2> QED BY <1>1, <1>4, <2>2, <2>3, <2>4, <2>5, <2>6
          DEF TypeOK, MonitorOnEvent, MonitorStates, MonitorPoints, RunStates, Drivers,
              Requests, monitorFrame
<1>5. CASE EndMonitor
  <2>1. state' \in States /\ health' \in Healths
    BY <1>5, NoStatusType DEF EndMonitor, St, States, Lives
  <2>2. /\ mon' \in MonitorStates /\ run' \in RunStates /\ driver' \in Drivers
        /\ events' \in Seq(Events) /\ observations' \in Seq(Observations)
        /\ request' \in Requests
    BY <1>1, <1>5, DropType, Zenon DEF EndMonitor
  <2> QED BY <1>1, <2>1, <2>2
          DEF TypeOK, MonitorOnEvent, MonitorStates, MonitorPoints, RunStates, Drivers,
              Requests, monitorFrame
<1> QED BY <1>3, <1>4, <1>5, Zenon DEF MonitorOnEvent

(* The monitor keeps the type.                                             *)
LEMMA TypeMonitor ==
    ASSUME InstanceInv, Monitor
    PROVE  TypeOK'
<1> USE DEF quietFrame, monitorFrame
<1>1. TypeOK
  BY Zenon DEF InstanceInv
<1>2. mon \in MonitorStates /\ run \in RunStates /\ driver \in Drivers /\ request \in Requests
  BY <1>1, MonitorType, Zenon DEF TypeOK, Requests
<1>3. CASE MonitorPoll
  <2>2. PICK arm \in MonitorPoints, ret \in {"loop", "drainInitial", "drainRespawn"} :
           mon' = [mon EXCEPT !.pc = arm, !.ret = ret]
    BY <1>3, Zenon DEF MonitorPoll, MonitorPoints
  <2>1. mon' \in MonitorStates
    BY <1>2, <2>2, Zenon DEF MonitorStates
  <2> QED BY <1>1, <1>3, <2>1 DEF TypeOK, MonitorPoll, MonitorStates, MonitorPoints
<1>4. CASE MonitorOnCancel
  <2>1. mon' \in MonitorStates
    BY <1>2, <1>4, Zenon DEF MonitorOnCancel, MonitorStates, MonitorPoints
  <2>2. run' \in RunStates /\ driver' \in Drivers
    BY <1>4, NoRunType, NoDriverType, Zenon DEF MonitorOnCancel, StopDriver
  <2>3. request' \in Requests
    BY <1>2, <1>4, Zenon DEF MonitorOnCancel, StopDriver, Requests
  <2> QED BY <1>1, <1>4, <2>1, <2>2, <2>3
          DEF TypeOK, MonitorOnCancel, MonitorStates, MonitorPoints, RunStates, Drivers, Requests
<1>5. ASSUME apply_probe_observation
      PROVE  mon' \in MonitorStates /\ run' \in RunStates /\ observations' \in Seq(Observations)
  <2>1. run' \in RunStates /\ observations' \in Seq(Observations)
    BY <1>1, <1>5, ApplyEffect, Zenon
  <2>2. ASSUME NEW h \in HealthOf(run.id), NEW l \in {state, St("Running", run.id)},
               NEW q \in {"acking", "send"},
               mon' = [mon EXCEPT !.pc = q, !.out = [state |-> l, health |-> h]]
        PROVE  mon' \in MonitorStates
    <3>1. l \in States /\ h \in Healths
      BY <1>1, <1>2 DEF TypeOK, HealthOf, St, States, Lives, RunStates
    <3>2. [state |-> l, health |-> h] \in [state : States, health : Healths]
      BY <3>1, Zenon
    <3> QED BY <1>2, <2>2, <3>2, Zenon DEF MonitorStates, MonitorPoints
  <2>3. ASSUME mon' = [mon EXCEPT !.pc = mon.ret]
        PROVE  mon' \in MonitorStates
    BY <1>2, <2>3, Zenon DEF MonitorStates, MonitorPoints
  <2> QED BY <1>1, <1>5, <2>1, <2>2, <2>3, ApplyEffect, Zenon
<1>6. CASE MonitorOnObservation
  BY <1>1, <1>5, <1>6
     DEF TypeOK, MonitorOnObservation, MonitorStates, MonitorPoints, RunStates
<1>7. CASE MonitorAck
  <2>4. \/ mon' = [mon EXCEPT !.pc = mon.ret, !.out = NoStatus]
        \/ mon' = [mon EXCEPT !.pc = "send", !.ret = "loop", !.everReady = TRUE,
                              !.respawn = "none"]
    BY <1>7, Zenon DEF MonitorAck
  <2>1. mon' \in MonitorStates
    <3>1. CASE mon' = [mon EXCEPT !.pc = mon.ret, !.out = NoStatus]
      BY <1>2, <3>1, NoStatusType, Zenon DEF MonitorStates, MonitorPoints
    <3>2. CASE mon' = [mon EXCEPT !.pc = "send", !.ret = "loop", !.everReady = TRUE,
                                  !.respawn = "none"]
      BY <1>2, <3>2, Zenon DEF MonitorStates, MonitorPoints
    <3> QED BY <2>4, <3>1, <3>2, Zenon
  <2>5. /\ run' \in {run, [run EXCEPT !.ready = TRUE]}
        /\ driver' \in {driver, [driver EXCEPT !.command = TRUE]}
    BY <1>7, Zenon DEF MonitorAck
  <2>6. [run EXCEPT !.ready = TRUE] \in RunStates
    BY <1>2, Zenon DEF RunStates
  <2>7. [driver EXCEPT !.command = TRUE] \in Drivers
    BY <1>2, Zenon DEF Drivers
  <2>2. run' \in RunStates /\ driver' \in Drivers
    BY <1>2, <2>5, <2>6, <2>7, Zenon
  <2>3. acks' \in [Pids -> Nat] /\ restarts' \in 0..MaxRestarts
    BY <1>1, <1>7 DEF MonitorAck, TypeOK
  <2> QED BY <1>1, <1>7, <2>1, <2>2, <2>3
          DEF TypeOK, MonitorAck, MonitorStates, MonitorPoints, RunStates, Drivers
<1>8. CASE MonitorSend
  <2>1. mon' \in MonitorStates /\ state' \in States /\ health' \in Healths
    BY <1>2, <1>8, NoStatusType, Zenon DEF MonitorSend, MonitorStates, MonitorPoints
  <2> QED BY <1>1, <1>8, <2>1 DEF TypeOK, MonitorSend, MonitorStates, MonitorPoints
<1>9. CASE MonitorDrain
  <2>1. CASE observations # <<>>
    BY <1>1, <1>5, <1>9, <2>1
       DEF TypeOK, MonitorDrain, MonitorStates, MonitorPoints, RunStates
  <2>2. CASE observations = <<>>
    <3>1. /\ mon' = [mon EXCEPT !.pc = "loop", !.ret = "loop", !.respawn = "none",
                                !.timeoutFired = @ \/ mon.pc = "drainInitial"]
          /\ run' = NoRun /\ StopDriver /\ UNCHANGED observations
          /\ probeTimeout' = TRUE /\ cancel' = TRUE /\ probeCancel' = TRUE
      BY <1>1, <1>9, <2>2, ApplyEffect, Zenon DEF MonitorDrain
    <3>2. mon' \in MonitorStates
      BY <1>2, <3>1, Zenon DEF MonitorStates, MonitorPoints
    <3>3. run' \in RunStates /\ driver' \in Drivers
      BY <3>1, NoRunType, NoDriverType, Zenon DEF StopDriver
    <3>4. request' \in Requests
      BY <1>2, <3>1, Zenon DEF StopDriver, Requests
    <3> QED BY <1>1, <1>9, <3>1, <3>2, <3>3, <3>4
            DEF TypeOK, MonitorDrain, MonitorStates, MonitorPoints, RunStates, Drivers, Requests
  <2> QED BY <2>1, <2>2, Zenon
<1>10. CASE MonitorOnRequest
  <2>1. mon' \in MonitorStates
    BY <1>2, <1>10, Zenon DEF MonitorOnRequest, MonitorStates, MonitorPoints
  <2>2. request' \in Requests
    BY <1>2, <1>10, Zenon DEF MonitorOnRequest, Requests
  <2> QED BY <1>1, <1>10, <2>1, <2>2
          DEF TypeOK, MonitorOnRequest, MonitorStates, MonitorPoints, Requests
<1> QED BY <1>3, <1>4, <1>6, <1>7, <1>8, <1>9, <1>10, TypeOnEvent, Zenon DEF Monitor

(* The owner's steps and time.                                             *)
StopPoints == {"none", "checked", "marked", "taken", "stopped", "joined", "ok", "err", "dropped"}
Stoppers == [pc : StopPoints, supOk : BOOLEAN, joined : BOOLEAN]

(* The states of a stop call.                                              *)
LEMMA StopperType ==
    ASSUME stopper \in Stoppers, NEW q \in StopPoints, NEW b \in BOOLEAN
    PROVE  /\ [stopper EXCEPT !.pc = q] \in Stoppers
           /\ [stopper EXCEPT !.pc = q, !.supOk = b] \in Stoppers
           /\ [stopper EXCEPT !.pc = q, !.joined = b] \in Stoppers
  BY Zenon DEF Stoppers

(* What a call that returns leaves: every token cancelled, the process     *)
(* reaped with its record or both as they were.                            *)
LEMMA ReapEffect ==
    ASSUME TypeOK, ReapIfPresent
    PROVE  /\ stopper' \in Stoppers /\ stopper'.pc \in {"ok", "err"}
           /\ cancel' = TRUE /\ probeCancel' = TRUE
           /\ \/ child' = 0 /\ pidRecord' = FALSE
              \/ /\ UNCHANGED <<child, pidRecord>>
                 /\ stopper'.pc = "ok" => ~pidRecord
  BY Zenon DEF TypeOK, ReapIfPresent, Reaped, StopReturns, Stoppers, StopPoints

(* Stop calls keep the type.                                               *)
LEMMA TypeStop ==
    ASSUME InstanceInv, StopMark \/ StopTake \/ StopConfirm \/ StopCheck \/ DropInstance
    PROVE  TypeOK'
<1> USE DEF stopFrame, shared
<1>1. TypeOK
  BY Zenon DEF InstanceInv
<1>2. /\ St("Stopping", 0) \in States /\ St("Stopped", 0) \in States /\ NoHealth \in Healths
      /\ FALSE \in BOOLEAN /\ TRUE \in BOOLEAN /\ 0 \in 0..MaxRuns
  BY NoStatusType DEF St, States, Lives
<1>3. \A q \in StopPoints : [stopper EXCEPT !.pc = q] \in Stoppers
  BY <1>1, Zenon DEF TypeOK, Stoppers, StopPoints
<1>4. CASE StopMark
  <2>1. stopper' \in Stoppers
    BY <1>3, <1>4, Zenon DEF StopMark, StopPoints
  <2> QED BY <1>1, <1>2, <1>4, <2>1 DEF StopMark, TypeOK, Stoppers, StopPoints
<1>5. CASE StopTake
  <2>1. stopper' \in Stoppers
    BY <1>3, <1>5, Zenon DEF StopTake, StopPoints
  <2> QED BY <1>1, <1>5, <2>1 DEF StopTake, TypeOK, Stoppers, StopPoints
<1>6. CASE StopConfirm
  <2>1. /\ stopper' \in Stoppers /\ cancel' \in BOOLEAN /\ probeCancel' \in BOOLEAN
        /\ child' \in 0..MaxRuns /\ pidRecord' \in BOOLEAN
    BY <1>1, <1>2, <1>3, <1>6, ReapEffect,
      Zenon DEF StopConfirm, Reaped, StopReturns, TypeOK, StopPoints
  <2>2. state' \in States /\ health' \in Healths
    BY <1>1, <1>2, <1>6, Zenon DEF StopConfirm, TypeOK
  <2> QED BY <1>1, <1>6, <2>1, <2>2 DEF StopConfirm, TypeOK, Stoppers, StopPoints
<1>7. CASE StopCheck
  <2>1. /\ stopper' \in Stoppers /\ cancel' \in BOOLEAN /\ probeCancel' \in BOOLEAN
        /\ child' \in 0..MaxRuns /\ pidRecord' \in BOOLEAN
    BY <1>1, <1>2, <1>3, <1>7, ReapEffect, Zenon DEF StopCheck, TypeOK, StopPoints
  <2> QED BY <1>1, <1>7, <2>1 DEF StopCheck, TypeOK, Stoppers, StopPoints
<1>8. CASE DropInstance
  <2>1. stopper' \in Stoppers
    BY <1>3, <1>8, Zenon DEF DropInstance, StopReturns, StopPoints
  <2> QED BY <1>1, <1>2, <1>8, <2>1 DEF DropInstance, StopReturns, TypeOK, Stoppers, StopPoints
<1> QED BY <1>4, <1>5, <1>6, <1>7, <1>8, Zenon

(* The owner keeps the type.                                               *)
LEMMA TypeOwner ==
    ASSUME InstanceInv,
           \/ StopSupervisor \/ StopJoin \/ ProbeNow
           \/ InitialDeadlinePasses \/ RespawnDeadlinePasses
    PROVE  TypeOK'
<1> USE DEF shared, supervisor
<1>1. TypeOK
  BY Zenon DEF InstanceInv
<1>2. CASE StopSupervisor
  <2>1. /\ <<Ev("Exited", child), Ev("Stopped", 0)>> \in Seq(Events)
        /\ <<Ev("Stopped", 0)>> \in Seq(Events)
    <3>1. Ev("Exited", child) \in Events /\ Ev("Stopped", 0) \in Events
      BY <1>1 DEF TypeOK, Ev, Events
    <3> QED BY <3>1
  <2>2. events' \in Seq(Events)
    BY <1>1, <1>2, <2>1, EmitEffect, Zenon DEF StopSupervisor, TypeOK
  <2>5. /\ cancel' = TRUE /\ child' \in {child, 0} /\ pidRecord' \in {pidRecord, FALSE}
        /\ sup' \in {sup, "done"}
    BY <1>2, Zenon DEF StopSupervisor, RecordAfterExit
  <2>6. child' \in 0..MaxRuns /\ sup' \in {"run", "backoff", "done"}
    BY <1>1, <2>5 DEF TypeOK
  <2>3. pidRecord' \in BOOLEAN /\ cancel' \in BOOLEAN
    BY <1>1, <2>5, Zenon DEF TypeOK
  <2>7. stopper \in Stoppers /\ "stopped" \in StopPoints
    BY <1>1, Zenon DEF TypeOK, Stoppers, StopPoints
  <2>8. stopper' \in {[stopper EXCEPT !.pc = "stopped", !.supOk = TRUE],
                     [stopper EXCEPT !.pc = "stopped", !.supOk = FALSE]}
    BY <1>2, Zenon DEF StopSupervisor
  <2>4. stopper' \in Stoppers
    BY <2>7, <2>8, StopperType, Zenon
  <2> QED BY <1>1, <1>2, <2>2, <2>3, <2>4, <2>6 DEF StopSupervisor, TypeOK, Stoppers, StopPoints
<1>3. CASE StopJoin
  <2>4. stopper \in Stoppers /\ "joined" \in StopPoints
    BY <1>1, Zenon DEF TypeOK, Stoppers, StopPoints
  <2>5. stopper' \in {[stopper EXCEPT !.pc = "joined"],
                     [stopper EXCEPT !.pc = "joined", !.joined = TRUE]}
    BY <1>3, Zenon DEF StopJoin
  <2>1. stopper' \in Stoppers
    BY <2>4, <2>5, StopperType, Zenon
  <2>2. CASE UNCHANGED <<mon, run, driver, events, observations, request>>
    BY <1>1, <1>3, <2>1, <2>2 DEF StopJoin, TypeOK, Stoppers, StopPoints
  <2>3. CASE DropMonitor("aborted")
    <3>1. /\ mon' \in MonitorStates /\ run' \in RunStates /\ driver' \in Drivers
          /\ events' \in Seq(Events) /\ observations' \in Seq(Observations)
          /\ request' \in Requests
      BY <1>1, <2>3, DropType, Zenon
    <3> QED BY <1>1, <1>3, <2>1, <3>1,
           Zenon DEF StopJoin, TypeOK, Stoppers, StopPoints, MonitorStates, MonitorPoints, RunStates,
                Drivers, Requests
  <2> QED BY <1>3, <2>2, <2>3, Zenon DEF StopJoin
<1>4. CASE ProbeNow
  BY <1>1, <1>4 DEF ProbeNow, TypeOK
<1>5. CASE InitialDeadlinePasses
  BY <1>1, <1>5 DEF InitialDeadlinePasses, TypeOK
<1>6. CASE RespawnDeadlinePasses
  <2>1. mon' \in MonitorStates
    <3>1. mon \in MonitorStates /\ mon' = [mon EXCEPT !.respawn = "passed"]
      BY <1>1, <1>6, MonitorType, Zenon DEF RespawnDeadlinePasses
    <3> QED BY <3>1, Zenon DEF MonitorStates
  <2> QED BY <1>1, <1>6, <2>1 DEF RespawnDeadlinePasses, TypeOK, MonitorStates, MonitorPoints
<1> QED BY <1>2, <1>3, <1>4, <1>5, <1>6, Zenon

(* Every state is well typed; in particular the monitor never counts more  *)
(* runs than the supervisor started processes.                             *)
LEMMA TypeStep ==
    ASSUME InstanceInv, [Next]_vars
    PROVE  TypeOK'
<1>1. CASE UNCHANGED vars
  BY <1>1 DEF vars, shared, supervisor, InstanceInv, TypeOK
<1> QED BY <1>1, TypeSupervision, TypeProbing, TypeMonitor, TypeStop, TypeOwner,
       Zenon DEF Next, Stopping

-----------------------------------------------------------------------------
(* stop_and_confirm_dead. A process is started with its pid record, and    *)
(* only while nobody cancelled: an Ok that rests on a missing record, or   *)
(* on a reaped one, stays true.                                            *)
LEMMA StopStep ==
    ASSUME InstanceInv, [Next]_vars
    PROVE  StopInv'
<1> USE DEF StopInv, StopOkMeansDead
<1>1. TypeOK /\ StopInv
  BY Zenon DEF InstanceInv
<1>2. CASE UNCHANGED <<child, pidRecord, stopper, cancel>>
  BY <1>1, <1>2, Zenon
<1>3. CASE Supervision
  BY <1>1, <1>3, Zenon DEF Supervision, ChildExits, Respawn, SupervisorCancelled, supervisorFrame,
                    shared, TypeOK
<1>4. CASE Probing \/ ProbeNow \/ InitialDeadlinePasses \/ RespawnDeadlinePasses
  BY <1>2, <1>4, Zenon DEF Probing, DriverCommand, DriverUseLiveness, DriverReconcile, PeriodicProbe,
                    driverFrame, ProbeNow, InitialDeadlinePasses, RespawnDeadlinePasses, shared,
                    supervisor
<1>5. CASE Monitor
  <2>1. UNCHANGED <<child, pidRecord, stopper>> /\ (cancel' = cancel \/ cancel' = TRUE)
    BY <1>5, Zenon DEF Monitor, MonitorPoll, MonitorOnCancel, MonitorOnEvent, MonitorOnObservation,
                MonitorAck, MonitorSend, MonitorDrain, MonitorOnRequest, quietFrame, monitorFrame
  <2> QED BY <1>1, <2>1, Zenon
<1>6. CASE StopMark \/ StopTake \/ StopJoin
  <2>1. stopper'.pc \in {"marked", "taken", "joined"}
    BY <1>1, <1>6, Zenon DEF StopMark, StopTake, StopJoin, TypeOK
  <2>2. UNCHANGED <<child, pidRecord>>
    BY <1>6, Zenon DEF StopMark, StopTake, StopJoin, supervisor
  <2> QED BY <1>1, <2>1, <2>2, Zenon
<1>7. CASE StopSupervisor
  <2>1. stopper'.pc = "stopped"
    BY <1>1, <1>7, Zenon DEF StopSupervisor, TypeOK
  <2>2. child' = 0 \/ UNCHANGED <<child, pidRecord>>
    BY <1>7, Zenon DEF StopSupervisor
  <2> QED BY <1>1, <2>1, <2>2, Zenon
<1>8. CASE StopConfirm
  <2>1. CASE ReapIfPresent
    BY <1>1, <2>1, ReapEffect, Zenon
  <2>2. CASE Reaped
    BY <1>8, <2>2, <2>1, Zenon DEF StopConfirm, Reaped, StopReturns
  <2>3. CASE UNCHANGED <<child, pidRecord>> /\ pidRecord /\ StopReturns("err")
    BY <1>1, <2>3, Zenon DEF StopReturns, TypeOK
  <2>4. CASE /\ UNCHANGED <<child, pidRecord>> /\ ~pidRecord
             /\ StopReturns(IF Terminal THEN "ok" ELSE "err")
    BY <1>1, <2>4, Zenon DEF StopReturns, TypeOK
  <2> QED BY <1>8, <2>1, <2>2, <2>3, <2>4, Zenon DEF StopConfirm
<1>9. CASE StopCheck
  <2>1. CASE ReapIfPresent
    BY <1>1, <2>1, ReapEffect, Zenon
  <2> QED BY <1>1, <1>9, <2>1 DEF StopCheck, TypeOK
<1>10. CASE DropInstance
  BY <1>1, <1>10, Zenon DEF DropInstance, StopReturns, TypeOK
<1>11. CASE UNCHANGED vars
  BY <1>2, <1>11, Zenon DEF vars, shared, supervisor
<1> QED BY <1>3, <1>4, <1>5, <1>6, <1>7, <1>8, <1>9, <1>10, <1>11, Zenon DEF Next, Stopping

-----------------------------------------------------------------------------
(* The startup timeout: it empties the queue with the driver gone, so no   *)
(* observation can make a run ready afterwards.                            *)
LEMMA TimeoutStep ==
    ASSUME InstanceInv, [Next]_vars
    PROVE  TimeoutInv'
<1> USE DEF TimeoutInv
<1>1. TypeOK /\ TimeoutInv /\ mon \in MonitorStates /\ driver \in Drivers
  BY MonitorType, Zenon DEF InstanceInv
<1>2. ASSUME UNCHANGED <<request, driver, probeTimeout, observations>>,
             probeCancel' = probeCancel \/ probeCancel' = TRUE,
             mon'.pc = mon.pc, mon'.probesCancelled = mon.probesCancelled
      PROVE  TimeoutInv'
  BY <1>1, <1>2, Zenon DEF MonitorGone
<1>3. CASE Supervision
  BY <1>2, <1>3, Zenon DEF Supervision, ChildExits, Respawn, SupervisorCancelled, supervisorFrame,
                    monitorVars, shared
<1>4. CASE Probing
  <2>1. UNCHANGED <<probeTimeout, probeCancel, mon>> /\ ~probeTimeout
    BY <1>1, <1>4, NoDriverType, Zenon DEF Probing, DriverCommand, DriverUseLiveness, DriverReconcile,
            PeriodicProbe, driverFrame, shared
  <2>2. request' = "driver" => driver'.run # 0
    BY <1>1, <1>4, Zenon DEF Probing, DriverCommand, DriverUseLiveness, DriverReconcile, PeriodicProbe,
            Drivers
  <2> QED BY <2>1, <2>2, Zenon
<1>5. CASE StopMark \/ StopTake \/ StopSupervisor \/ StopConfirm \/ StopCheck \/ DropInstance
  BY <1>1, <1>2, <1>5, ReapEffect, Zenon DEF StopMark, StopTake, StopSupervisor, StopConfirm, StopCheck,
                    DropInstance, StopReturns, stopFrame, shared
<1>6. ASSUME NEW p \in {"ended", "aborted"}, DropMonitor(p), UNCHANGED <<probeTimeout, probeCancel>>
      PROVE  TimeoutInv'
  BY <1>1, <1>6, MonitorAtType, Zenon DEF DropMonitor, MonitorGone, TypeOK
<1>7. CASE StopJoin
  BY <1>2, <1>6, <1>7, Zenon DEF StopJoin, shared
<1>8. CASE ProbeNow
  BY <1>1, <1>8, Zenon DEF ProbeNow, shared, MonitorGone
<1>9. CASE InitialDeadlinePasses \/ RespawnDeadlinePasses \/ UNCHANGED vars
  BY <1>1, <1>2, <1>9, Zenon DEF InitialDeadlinePasses, RespawnDeadlinePasses, vars, shared, MonitorStates
<1>10. CASE MonitorPoll
  <2>1. CASE probeCancel /\ ~mon.probesCancelled
    BY <1>1, <1>10, <2>1, Zenon DEF MonitorPoll, MonitorStates, quietFrame, MonitorGone
  <2>2. CASE ~(probeCancel /\ ~mon.probesCancelled)
    <3>1. mon'.pc # "acking" /\ mon'.probesCancelled = mon.probesCancelled
      BY <1>1, <1>10, Zenon DEF MonitorPoll, MonitorStates
    <3>2. ~MonitorGone /\ UNCHANGED <<request, driver, probeTimeout, probeCancel, observations>>
      BY <1>10, Zenon DEF MonitorPoll, quietFrame, MonitorGone
    <3> QED BY <1>1, <2>2, <3>1, <3>2, Zenon
  <2> QED BY <2>1, <2>2, Zenon
<1>11. CASE MonitorOnCancel
  <2>1. /\ mon'.pc = "loop" /\ driver' = NoDriver /\ request' # "driver"
        /\ UNCHANGED <<probeTimeout, probeCancel, observations>>
    BY <1>1, <1>11, Zenon DEF MonitorOnCancel, StopDriver, quietFrame, MonitorStates
  <2> QED BY <1>1, <2>1, Zenon
<1>12. CASE MonitorOnEvent
  <2>1. UNCHANGED <<probeTimeout, probeCancel>>
    BY <1>12, Zenon DEF MonitorOnEvent
  <2>2. CASE OnStarted /\ UNCHANGED observations
    <3>1. /\ mon'.pc = "send" /\ mon'.probesCancelled = mon.probesCancelled
          /\ driver' = NoDriver \/ ~mon.probesCancelled
          /\ request' # "driver"
      BY <1>1, <2>2, Zenon DEF OnStarted, MonitorStates
    <3>2. probeTimeout => mon.probesCancelled
      BY <1>1, <1>12, Zenon DEF MonitorOnEvent, MonitorGone
    <3> QED BY <1>1, <2>1, <2>2, <3>1, <3>2, Zenon
  <2>3. CASE (OnRestarting \/ OnExited) /\ UNCHANGED observations
    <3>1. mon'.pc = "loop" /\ driver' = NoDriver /\ request' # "driver"
      BY <1>1, <2>3, Zenon DEF OnRestarting, OnExited, StopDriver, MonitorStates
    <3> QED BY <1>1, <2>1, <2>3, <3>1, Zenon
  <2>4. CASE EndMonitor
    BY <1>6, <2>1, <2>4, Zenon DEF EndMonitor
  <2> QED BY <1>12, <2>2, <2>3, <2>4, Zenon DEF MonitorOnEvent
<1>13. CASE apply_probe_observation /\ UNCHANGED <<probeTimeout, probeCancel, driver, request>>
  <2>1. ~probeTimeout
    BY <1>1, <1>13, ApplyEffect, Zenon
  <2> QED BY <1>1, <1>13, <2>1, Zenon
<1>14. CASE MonitorOnObservation
  BY <1>13, <1>14, Zenon DEF MonitorOnObservation, quietFrame
<1>15. CASE MonitorAck
  <2>1. ~probeTimeout /\ UNCHANGED <<probeTimeout, request>> /\ driver'.run = driver.run
    BY <1>1, <1>15, Zenon DEF MonitorAck, Drivers
  <2> QED BY <1>1, <2>1, Zenon
<1>16. CASE MonitorSend
  <2>1. /\ UNCHANGED <<request, driver, probeTimeout, observations, probeCancel>>
        /\ mon'.pc # "acking" /\ mon'.probesCancelled = mon.probesCancelled
    BY <1>1, <1>16, Zenon DEF MonitorSend, MonitorStates
  <2> QED BY <1>1, <1>16, <2>1 DEF MonitorSend, MonitorGone
<1>17. CASE MonitorDrain
  <2>1. CASE observations # <<>>
    BY <1>13, <1>17, <2>1, Zenon DEF MonitorDrain
  <2>2. CASE observations = <<>>
    <3>1. /\ mon'.pc = "loop" /\ driver' = NoDriver /\ request' # "driver"
          /\ probeCancel' = TRUE /\ observations' = observations
      BY <1>1, <1>17, <2>2, ApplyEffect, Zenon DEF MonitorDrain, StopDriver, MonitorStates
    <3> QED BY <2>2, <3>1, Zenon
  <2> QED BY <2>1, <2>2, Zenon
<1>18. CASE MonitorOnRequest
  <2>1. /\ UNCHANGED <<driver, probeTimeout, observations, probeCancel>>
        /\ mon'.pc = "loop" /\ (request' = "driver" => driver.run # 0)
    BY <1>1, <1>18, Zenon DEF MonitorOnRequest, MonitorStates, quietFrame
  <2> QED BY <1>1, <2>1, Zenon
<1> QED BY <1>3, <1>4, <1>5, <1>7, <1>8, <1>9, <1>10, <1>11, <1>12, <1>14, <1>15, <1>16, <1>17,
           <1>18, Zenon DEF Next, Stopping, Monitor

-----------------------------------------------------------------------------
(* What the steps outside the monitor leave alone.                         *)
LEMMA OutsideMonitor ==
    ASSUME Supervision \/ Probing \/ ProbeNow \/ InitialDeadlinePasses \/ UNCHANGED vars
    PROVE  UNCHANGED <<mon, run, state, health>> /\ UNCHANGED acks
  BY Zenon DEF Supervision, ChildExits, Respawn, SupervisorCancelled, supervisorFrame, monitorVars,
         Probing, DriverCommand, DriverUseLiveness, DriverReconcile, PeriodicProbe, driverFrame,
         supervisor, ProbeNow, InitialDeadlinePasses, vars

(* A stop call leaves the monitor and the acknowledgements alone.          *)
LEMMA OwnerSteps ==
    ASSUME StopMark \/ StopTake \/ StopSupervisor \/ StopConfirm \/ StopCheck \/ DropInstance
    PROVE  /\ UNCHANGED <<mon, run, acks>>
           /\ \/ UNCHANGED <<state, health>>
              \/ state' = St("Stopping", 0) \/ state' = St("Stopped", 0)
  BY Zenon DEF StopMark, StopTake, StopSupervisor, StopConfirm, StopCheck, DropInstance, stopFrame

(* A stop call waits for the monitor or aborts it.                         *)
LEMMA JoinStep ==
    ASSUME StopJoin
    PROVE  /\ UNCHANGED <<state, health, acks>>
           /\ UNCHANGED <<mon, run>> \/ (mon' = MonitorAt("aborted") /\ run' = NoRun)
  BY Zenon DEF StopJoin, DropMonitor, supervisor

(* Acknowledgements: an accepted one is the first of the current run.      *)
LEMMA AckStep ==
    ASSUME InstanceInv, [Next]_vars
    PROVE  AckInv'
<1> USE DEF AckInv, AckOnce
<1>1. TypeOK /\ AckInv /\ mon \in MonitorStates /\ run \in RunStates /\ acks \in [Pids -> Nat]
  BY MonitorType, Zenon DEF InstanceInv, TypeOK
<1>2. ASSUME UNCHANGED <<run, acks>>, mon'.pc # "acking",
             mon'.runs = mon.runs, MonitorGone' <=> MonitorGone
      PROVE  AckInv'
  BY <1>1, <1>2, Zenon
<1>3. ASSUME UNCHANGED <<run, acks, mon>>
      PROVE  AckInv'
  BY <1>1, <1>3, Zenon DEF MonitorGone
<1>4. ASSUME UNCHANGED acks, run' = NoRun, mon'.pc # "acking",
             (mon'.runs = mon.runs /\ ~MonitorGone) \/ MonitorGone'
      PROVE  AckInv'
  BY <1>1, <1>4, NoRunType DEF Pids
<1>5. CASE Supervision \/ Probing \/ ProbeNow \/ InitialDeadlinePasses \/ UNCHANGED vars
  BY <1>3, <1>5, OutsideMonitor, Zenon
<1>6. CASE StopMark \/ StopTake \/ StopSupervisor \/ StopConfirm \/ StopCheck \/ DropInstance
  BY <1>3, <1>6, OwnerSteps, Zenon
<1>7. CASE StopJoin
  BY <1>3, <1>4, <1>7, JoinStep, MonitorAtType, Zenon DEF MonitorGone
<1>8. CASE RespawnDeadlinePasses
  <2>1. UNCHANGED <<run, acks>> /\ mon'.pc = mon.pc /\ mon'.runs = mon.runs
    BY <1>1, <1>8, Zenon DEF RespawnDeadlinePasses, MonitorStates, supervisor
  <2> QED BY <1>1, <2>1, Zenon DEF MonitorGone
<1>9. CASE MonitorPoll \/ MonitorSend \/ MonitorOnRequest
  <2>1. UNCHANGED <<run, acks>> /\ ~MonitorGone
    BY <1>9, Zenon DEF MonitorPoll, MonitorSend, MonitorOnRequest, quietFrame, MonitorGone
  <2>2. mon'.pc \notin {"acking", "ended", "aborted"} /\ mon'.runs = mon.runs
    BY <1>1, <1>9, Zenon DEF MonitorPoll, MonitorSend, MonitorOnRequest, MonitorStates
  <2> QED BY <1>2, <2>1, <2>2, Zenon DEF MonitorGone
<1>10. CASE MonitorOnCancel
  <2>1. UNCHANGED acks /\ run' = NoRun /\ mon'.pc = "loop" /\ mon'.runs = mon.runs /\ ~MonitorGone
    BY <1>1, <1>10, Zenon DEF MonitorOnCancel, quietFrame, MonitorStates, MonitorGone
  <2> QED BY <1>4, <2>1, Zenon
<1>11. CASE MonitorOnEvent
  <2>1. UNCHANGED acks /\ ~MonitorGone
    BY <1>11, Zenon DEF MonitorOnEvent, MonitorGone
  <2>2. CASE OnStarted
    <3> DEFINE r == mon.runs + 1
    <3>1. mon'.pc = "send" /\ mon'.runs = r /\ run' = NewRun(r) /\ mon.runs \in Nat
      BY <1>1, <2>2 DEF OnStarted, MonitorStates
    <3>2. r \in 0..MaxRuns
      BY <3>1, TypeStep, Zenon DEF TypeOK
    <3>3. run'.id = r /\ ~run'.ackAttempted
      BY <3>1, <3>2, NewRunType, Zenon
    <3>4. \A p \in Pids : p > mon.runs => acks[p] = 0
      BY <1>1, <2>1, Zenon
    <3> QED BY <1>1, <2>1, <3>1, <3>3, <3>4 DEF Pids
  <2>3. CASE OnRestarting \/ OnExited
    <3>1. run' = NoRun /\ mon'.pc = "loop" /\ mon'.runs = mon.runs
      BY <1>1, <2>3, Zenon DEF OnRestarting, OnExited, MonitorStates
    <3> QED BY <1>4, <2>1, <3>1, Zenon
  <2>4. CASE EndMonitor
    BY <1>4, <2>1, <2>4, MonitorAtType, Zenon DEF EndMonitor, DropMonitor, MonitorGone
  <2> QED BY <1>11, <2>2, <2>3, <2>4, Zenon DEF MonitorOnEvent
<1>12. CASE apply_probe_observation /\ UNCHANGED acks
            /\ mon.pc \in {"onObservation", "drainInitial", "drainRespawn"}
  <2>1. /\ run'.id = run.id /\ mon'.runs = mon.runs /\ ~MonitorGone /\ mon.pc # "acking"
        /\ \/ run' = run /\ mon'.pc # "acking"
           \/ ~run.ackAttempted /\ run'.ackAttempted
           \/ run'.ackAttempted = run.ackAttempted /\ mon'.pc # "acking"
    BY <1>1, <1>12, ApplyEffect, Zenon DEF MonitorStates, MonitorGone
  <2> QED BY <1>1, <1>12, <2>1, Zenon
<1>13. CASE MonitorOnObservation
  BY <1>12, <1>13, Zenon DEF MonitorOnObservation, quietFrame
<1>14. CASE MonitorAck
  <2>1. CASE UNCHANGED <<run, acks>> /\ mon' = [mon EXCEPT !.pc = mon.ret, !.out = NoStatus]
    <3>1. mon'.pc \notin {"acking", "ended", "aborted"} /\ mon'.runs = mon.runs /\ ~MonitorGone
      BY <1>1, <1>14, <2>1, Zenon DEF MonitorAck, MonitorStates, MonitorGone
    <3> QED BY <1>2, <2>1, <3>1, Zenon DEF MonitorGone
  <2>2. CASE /\ acks' = [acks EXCEPT ![run.id] = @ + 1] /\ run' = [run EXCEPT !.ready = TRUE]
             /\ mon' = [mon EXCEPT !.pc = "send", !.ret = "loop", !.everReady = TRUE,
                                   !.respawn = "none"]
    <3>1. mon'.pc = "send" /\ mon'.runs = mon.runs /\ mon.pc = "acking" /\ ~MonitorGone
      BY <1>1, <1>14, <2>2, Zenon DEF MonitorAck, MonitorStates, MonitorGone
    <3>2. run'.id = run.id /\ run'.ackAttempted /\ run.id # 0 /\ run.id \in Pids
      BY <1>1, <2>2, <3>1 DEF RunStates, InstanceInv, StatusInv, Pids
    <3>3. acks[run.id] = 0
      BY <1>1, <3>1, <3>2, Zenon
    <3>4. acks'[run.id] = 1 /\ \A p \in Pids : p # run.id => acks'[p] = acks[p]
      BY <1>1, <2>2, <3>2, <3>3
    <3>5. mon.runs \in Nat
      BY <1>1 DEF MonitorStates
    <3> QED BY <1>1, <3>1, <3>2, <3>4, <3>5 DEF Pids
  <2> QED BY <1>14, <2>1, <2>2, Zenon DEF MonitorAck
<1>15. CASE MonitorDrain
  <2>1. CASE observations # <<>>
    BY <1>12, <1>15, <2>1, Zenon DEF MonitorDrain
  <2>2. CASE observations = <<>>
    <3>1. /\ UNCHANGED acks /\ run' = NoRun /\ mon'.pc = "loop" /\ mon'.runs = mon.runs
          /\ ~MonitorGone
      BY <1>1, <1>15, <2>2, ApplyEffect, Zenon DEF MonitorDrain, MonitorStates, MonitorGone
    <3> QED BY <1>4, <3>1, Zenon
  <2> QED BY <2>1, <2>2, Zenon
<1> QED BY <1>5, <1>6, <1>7, <1>8, <1>9, <1>10, <1>11, <1>13, <1>14, <1>15,
       Zenon DEF Next, Stopping, Monitor

-----------------------------------------------------------------------------
(* The status: Running is published with the run's own acknowledgement and *)
(* observation, and is left before another run begins.                     *)
LEMMA StatusStep ==
    ASSUME InstanceInv, [Next]_vars
    PROVE  StatusInv'
<1> USE DEF StatusInv, Shown
<1>1. /\ TypeOK /\ StatusInv /\ mon \in MonitorStates /\ run \in RunStates
      /\ acks \in [Pids -> Nat]
  BY MonitorType, Zenon DEF InstanceInv, TypeOK
<1>2. ASSUME UNCHANGED <<run, acks, mon>>,
             \/ UNCHANGED <<state, health>>
             \/ state' = St("Stopping", 0) \/ state' = St("Stopped", 0)
      PROVE  StatusInv'
  <2>1. CASE UNCHANGED <<state, health>>
    BY <1>1, <1>2, <2>1, Zenon
  <2>2. CASE state' = St("Stopping", 0) \/ state' = St("Stopped", 0)
    <3>1. state'.life # "Running"
      BY <2>2 DEF St
    <3> QED BY <1>1, <1>2, <3>1, Zenon
  <2> QED BY <1>2, <2>1, <2>2, Zenon
<1>3. ASSUME UNCHANGED <<acks, state, health>>, mon'.pc \notin {"acking", "send"},
             run' = run \/ run' = NoRun
      PROVE  StatusInv'
  BY <1>1, <1>3, NoRunType, Zenon
<1>4. CASE Supervision \/ Probing \/ ProbeNow \/ InitialDeadlinePasses \/ UNCHANGED vars
  BY <1>2, <1>4, OutsideMonitor, Zenon
<1>5. CASE StopMark \/ StopTake \/ StopSupervisor \/ StopConfirm \/ StopCheck \/ DropInstance
  BY <1>2, <1>5, OwnerSteps, Zenon
<1>6. CASE StopJoin
  BY <1>2, <1>3, <1>6, JoinStep, MonitorAtType, Zenon
<1>7. CASE RespawnDeadlinePasses
  <2>1. UNCHANGED <<run, acks, state, health>> /\ mon'.pc = mon.pc /\ mon'.out = mon.out
    BY <1>1, <1>7, Zenon DEF RespawnDeadlinePasses, MonitorStates, supervisor
  <2> QED BY <1>1, <2>1, Zenon
<1>8. CASE MonitorPoll \/ MonitorOnRequest \/ MonitorOnCancel
  <2>1. UNCHANGED <<acks, state, health>> /\ (run' = run \/ run' = NoRun)
    BY <1>8, Zenon DEF MonitorPoll, MonitorOnRequest, MonitorOnCancel, quietFrame
  <2>2. mon'.pc \notin {"acking", "send"}
    BY <1>1, <1>8, Zenon DEF MonitorPoll, MonitorOnRequest, MonitorOnCancel, MonitorStates
  <2> QED BY <1>3, <2>1, <2>2, Zenon
<1>9. CASE MonitorOnEvent
  <2>1. UNCHANGED acks
    BY <1>9, Zenon DEF MonitorOnEvent
  <2>2. CASE OnStarted /\ events # <<>>
    <3>1. 1 \in StartedAt /\ ~MonitorGone
      BY <1>1, <1>9, <2>2, HeadEvent, Zenon DEF MonitorOnEvent, OnStarted, MonitorGone
    <3>2. state.life # "Running"
      BY <3>1, Zenon DEF InstanceInv, EventsInv, Settled
    <3>3. /\ UNCHANGED <<state, health>> /\ mon'.pc = "send" /\ mon'.out.state = state
          /\ run' = NewRun(mon.runs + 1) /\ mon'.runs = mon.runs + 1 /\ mon.runs \in Nat
      BY <1>1, <2>2 DEF OnStarted, MonitorStates
    <3>4. mon.runs + 1 \in 0..MaxRuns
      BY <3>3, TypeStep, Zenon DEF TypeOK
    <3>5. run'.id # 0
      BY <3>3, <3>4, NewRunType
    <3> QED BY <1>1, <2>1, <3>2, <3>3, <3>5, Zenon
  <2>3. CASE OnExited
    <3>1. UNCHANGED <<state, health>> /\ run' = NoRun /\ mon'.pc = "loop"
      BY <1>1, <2>3, Zenon DEF OnExited, MonitorStates
    <3> QED BY <1>3, <2>1, <3>1, Zenon
  <2>4. CASE OnRestarting
    <3>1. state'.life # "Running" /\ mon'.pc = "loop"
      BY <1>1, <2>4, Zenon DEF OnRestarting, St, MonitorStates
    <3> QED BY <3>1, Zenon
  <2>5. CASE EndMonitor
    <3>1. state'.life # "Running" /\ mon'.pc = "ended"
      BY <2>5, MonitorAtType, Zenon DEF EndMonitor, DropMonitor, St
    <3> QED BY <3>1, Zenon
  <2> QED BY <1>9, <2>2, <2>3, <2>4, <2>5, Zenon DEF MonitorOnEvent
<1>10. CASE apply_probe_observation /\ UNCHANGED <<acks, state, health>>
  <2>1. CASE run' = run /\ mon' = [mon EXCEPT !.pc = mon.ret]
    <3>1. mon'.pc \notin {"acking", "send"}
      BY <1>1, <2>1, Zenon DEF MonitorStates
    <3> QED BY <1>3, <1>10, <2>1, <3>1, Zenon
  <2>2. ASSUME run.id # 0, NEW h \in HealthOf(run.id),
               mon' = [mon EXCEPT !.pc = "acking",
                                  !.out = [state |-> St("Running", run.id), health |-> h]]
        PROVE  StatusInv'
    <3>1. /\ mon'.pc = "acking" /\ mon'.out.state = St("Running", run.id)
          /\ mon'.out.health = h /\ h.run = run.id /\ St("Running", run.id).pid = run.id
      BY <1>1, <2>2, Zenon DEF MonitorStates, HealthOf, St
    <3>3. run'.id = run.id
      BY <1>1, <1>10, ApplyEffect, Zenon
    <3>2. run'.id = run.id /\ run.id \in Pids
      BY <1>1, <2>2, <3>3 DEF RunStates, Pids
    <3> QED BY <1>1, <1>10, <2>2, <3>1, <3>2, Zenon
  <2>3. ASSUME run.id # 0, NEW h \in HealthOf(run.id),
               mon' = [mon EXCEPT !.pc = "send", !.out = [state |-> state, health |-> h]]
        PROVE  StatusInv'
    <3>1. /\ mon'.pc = "send" /\ mon'.out.state = state /\ mon'.out.health = h
          /\ h.run = run.id
      BY <1>1, <2>3, Zenon DEF MonitorStates, HealthOf
    <3>2. run'.id = run.id
      BY <1>1, <1>10, ApplyEffect, Zenon
    <3> QED BY <1>1, <1>10, <2>3, <3>1, <3>2, Zenon
  <2> QED BY <1>1, <1>10, <2>1, <2>2, <2>3, ApplyEffect, Zenon
<1>11. CASE MonitorOnObservation
  BY <1>10, <1>11, Zenon DEF MonitorOnObservation, quietFrame
<1>12. CASE MonitorAck
  <2>1. CASE UNCHANGED <<run, acks>> /\ mon' = [mon EXCEPT !.pc = mon.ret, !.out = NoStatus]
    <3>1. mon'.pc \notin {"acking", "send"} /\ UNCHANGED <<state, health>>
      BY <1>1, <1>12, <2>1, Zenon DEF MonitorAck, MonitorStates
    <3> QED BY <1>3, <2>1, <3>1, Zenon
  <2>2. CASE /\ acks' = [acks EXCEPT ![run.id] = @ + 1] /\ run' = [run EXCEPT !.ready = TRUE]
             /\ mon' = [mon EXCEPT !.pc = "send", !.ret = "loop", !.everReady = TRUE,
                                   !.respawn = "none"]
    <3>1. /\ mon'.pc = "send" /\ mon'.out = mon.out /\ mon.pc = "acking"
          /\ UNCHANGED <<state, health>>
      BY <1>1, <1>12, <2>2, Zenon DEF MonitorAck, MonitorStates
    <3>2. run'.id = run.id /\ run.id \in Pids
      BY <1>1, <2>2, <3>1 DEF RunStates, Pids
    <3>3. acks[run.id] = 0
      BY <3>1, <3>2, Zenon DEF InstanceInv, AckInv
    <3>4. acks'[run.id] = 1 /\ \A p \in Pids : p # run.id => acks'[p] = acks[p]
      BY <1>1, <2>2, <3>2, <3>3
    <3>5. mon.out.state = St("Running", run.id) /\ St("Running", run.id).pid = run.id
      BY <1>1, <3>1, Zenon DEF St
    <3>6. state.life = "Running" => acks'[state.pid] = 1
      BY <1>1, <3>2, <3>3, <3>4, Zenon
    <3> QED BY <1>1, <3>1, <3>2, <3>4, <3>5, <3>6, Zenon
  <2> QED BY <1>12, <2>1, <2>2, Zenon DEF MonitorAck
<1>13. CASE MonitorSend
  <2>1. /\ mon.pc = "send" /\ UNCHANGED <<run, acks>>
        /\ state' = mon.out.state /\ health' = mon.out.health
    BY <1>13, Zenon DEF MonitorSend
  <2>2. mon'.pc \notin {"acking", "send"}
    BY <1>1, <1>13, Zenon DEF MonitorSend, MonitorStates
  <2> QED BY <1>1, <2>1, <2>2, Zenon
<1>14. CASE MonitorDrain
  <2>1. CASE observations # <<>>
    BY <1>10, <1>14, <2>1, Zenon DEF MonitorDrain
  <2>2. CASE observations = <<>>
    <3>1. UNCHANGED <<acks, state, health>> /\ run' = NoRun /\ mon'.pc = "loop"
      BY <1>1, <1>14, <2>2, ApplyEffect, Zenon DEF MonitorDrain, MonitorStates
    <3> QED BY <1>3, <3>1, Zenon
  <2> QED BY <2>1, <2>2, Zenon
<1> QED BY <1>4, <1>5, <1>6, <1>7, <1>8, <1>9, <1>11, <1>12, <1>13, <1>14,
       Zenon DEF Next, Stopping, Monitor

-----------------------------------------------------------------------------
(* The event channel. What every step shares: a step that leaves the       *)
(* channel, the supervisor and the count of runs alone keeps the           *)
(* invariant, if it does not unsettle the status.                          *)
LEMMA EventsKept ==
    ASSUME InstanceInv, UNCHANGED <<events, sup, started>>, mon'.runs = mon.runs,
           ~MonitorGone, ~MonitorGone', Settled => Settled'
    PROVE  EventsInv'
<1>1. StartedAt' = StartedAt
  BY Zenon DEF StartedAt
<1> QED BY <1>1, Zenon DEF InstanceInv, EventsInv

(* The supervisor appends events of an exit.                               *)
LEMMA EventsAppend ==
    ASSUME InstanceInv, ~MonitorGone, UNCHANGED <<mon, run, state, started>>,
           NEW evs \in Seq(Events), events' = events \o evs, Len(evs) > 0,
           \A i \in 1..Len(evs) : evs[i].kind # "Started",
           sup' = "backoff" => started < MaxRuns /\ evs[Len(evs)].kind = "Restarting"
    PROVE  EventsInv'
<1>1. /\ events \in Seq(Events) /\ Len(events) \in Nat /\ Len(evs) \in Nat
      /\ mon.runs \in Nat /\ started \in Nat
  BY LenFacts, MonitorType DEF InstanceInv, TypeOK, MonitorStates, Pids
<1>2. Len(events') = Len(events) + Len(evs)
  BY <1>1, ConcatFacts, Zenon
<1>3. \A i \in 1..Len(events) : events'[i] = events[i]
  BY <1>1, ConcatFacts
<1>4. \A i \in 1..Len(events') : i > Len(events) => events'[i] = evs[i - Len(events)]
  BY <1>1, <1>2, ConcatFacts
<1>5. StartedAt' = StartedAt
  <2>1. \A i \in 1..Len(events') : i > Len(events) => i - Len(events) \in 1..Len(evs)
    BY <1>1, <1>2
  <2>2. \A i \in 1..Len(events') : i > Len(events) => events'[i].kind # "Started"
    BY <1>4, <2>1, Zenon
  <2> QED BY <1>1, <1>2, <1>3, <2>2 DEF StartedAt
<1>6. ~MonitorGone' /\ (Settled => Settled') /\ mon' = mon
  BY Zenon DEF MonitorGone, Settled
<1>7. \A i \in StartedAt : events'[i] = events[i] /\ (i > 1 => events'[i - 1] = events[i - 1])
  BY <1>1, <1>3 DEF StartedAt
<1>8. events' # <<>> /\ events'[Len(events')] = evs[Len(evs)]
  <2>1. Len(events') \in 1..Len(events') /\ Len(events') > Len(events)
        /\ Len(events') - Len(events) = Len(evs)
    BY <1>1, <1>2
  <2>2. events' # <<>>
    BY <2>1, <1>1
  <2> QED BY <1>4, <2>1, <2>2, Zenon
<1>9. /\ mon'.runs <= started'
      /\ sup' = "backoff" => started' < MaxRuns /\ events'[Len(events')].kind = "Restarting"
  BY <1>6, <1>8, Zenon DEF InstanceInv, EventsInv
<1>10. \A i \in StartedAt :
          /\ events[i].pid > mon.runs /\ events[i].pid <= started
          /\ i = 1 => Settled
          /\ i > 1 => events[i - 1].kind = "Restarting"
          /\ \A j \in StartedAt : i < j => events[i].pid < events[j].pid
  BY Zenon DEF InstanceInv, EventsInv
<1>11. \A i \in StartedAt' :
          /\ events'[i].pid > mon'.runs /\ events'[i].pid <= started'
          /\ i = 1 => Settled'
          /\ i > 1 => events'[i - 1].kind = "Restarting"
          /\ \A j \in StartedAt' : i < j => events'[i].pid < events'[j].pid
  <2> SUFFICES ASSUME NEW i \in StartedAt'
               PROVE  /\ events'[i].pid > mon'.runs /\ events'[i].pid <= started'
                      /\ i = 1 => Settled'
                      /\ i > 1 => events'[i - 1].kind = "Restarting"
                      /\ \A j \in StartedAt' : i < j => events'[i].pid < events'[j].pid
    BY Zenon
  <2>1. i \in StartedAt /\ events'[i] = events[i] /\ (i > 1 => events'[i - 1] = events[i - 1])
    BY <1>5, <1>7, Zenon
  <2>2. \A j \in StartedAt' : j \in StartedAt /\ events'[j] = events[j]
    BY <1>5, <1>7, Zenon
  <2>3. started' = started
    OBVIOUS
  <2>4. /\ events'[i].pid > mon'.runs /\ events'[i].pid <= started'
        /\ i = 1 => Settled'
    BY <1>6, <1>10, <2>1, <2>3, Zenon
  <2>5. i > 1 => events'[i - 1].kind = "Restarting"
    BY <1>10, <2>1, Zenon
  <2>6. \A j \in StartedAt' : i < j => events'[i].pid < events'[j].pid
    BY <1>10, <2>1, <2>2, Zenon
  <2> QED BY <2>4, <2>5, <2>6, Zenon
<1> QED BY <1>6, <1>8, <1>9, <1>11, Zenon DEF EventsInv

(* The supervisor appends the start of a process.                          *)
LEMMA EventsStart ==
    ASSUME InstanceInv, ~MonitorGone, UNCHANGED <<mon, run, state>>, sup = "backoff",
           sup' = "run", started' = started + 1,
           events' = events \o <<Ev("Started", started + 1)>>
    PROVE  EventsInv'
<1> DEFINE n == Len(events) + 1
           e == Ev("Started", started + 1)
<1>1. /\ events \in Seq(Events) /\ Len(events) \in Nat /\ started + 1 \in 0..MaxRuns
      /\ mon.runs \in Nat /\ started \in Nat /\ \A i \in 1..Len(events) : events[i].pid \in Nat
  <2>1. started < MaxRuns /\ started \in Nat
    BY DEF InstanceInv, EventsInv, TypeOK, Pids
  <2>2. events \in Seq(Events) /\ Len(events) \in Nat /\ mon.runs \in Nat
    BY LenFacts, MonitorType DEF InstanceInv, TypeOK, MonitorStates
  <2>3. \A i \in 1..Len(events) : events[i] \in Events
    BY <2>2, ElementFacts, Zenon
  <2> QED BY <2>1, <2>2, <2>3 DEF Events
<1>2. e \in Events /\ e.kind = "Started" /\ e.pid = started + 1
  BY <1>1, Zenon DEF Ev, Events
<1> HIDE DEF e
<1>3. <<e>> \in Seq(Events) /\ Len(<<e>>) = 1 /\ <<e>>[1] = e /\ events' = events \o <<e>>
  BY <1>2 DEF e
<1>4. Len(events') = n /\ \A i \in 1..Len(events) : events'[i] = events[i]
  BY <1>1, <1>3, ConcatFacts
<1>5. events'[n] = e
  BY <1>1, <1>3, ConcatFacts
<1>6. StartedAt' = StartedAt \cup {n}
  BY <1>1, <1>2, <1>4, <1>5 DEF StartedAt
<1>7. ~MonitorGone' /\ (Settled => Settled') /\ mon' = mon
  BY Zenon DEF MonitorGone, Settled
<1>8. EventsInv
  BY Zenon DEF InstanceInv
<1>9. \A i \in StartedAt : /\ events'[i] = events[i] /\ (i > 1 => events'[i - 1] = events[i - 1])
                           /\ i \in 1..Len(events) /\ i < n /\ i # n
  BY <1>1, <1>4 DEF StartedAt
<1>10. ASSUME NEW i \in StartedAt
       PROVE  /\ events'[i].pid > mon.runs /\ events'[i].pid <= started'
              /\ i = 1 => Settled'
              /\ i > 1 => events'[i - 1].kind = "Restarting"
              /\ \A j \in StartedAt' : i < j => events'[i].pid < events'[j].pid
  <2>1. /\ events[i].pid > mon.runs /\ events[i].pid <= started /\ events[i].pid \in Nat
        /\ i = 1 => Settled
        /\ i > 1 => events[i - 1].kind = "Restarting"
        /\ \A j \in StartedAt : i < j => events[i].pid < events[j].pid
    BY <1>1, <1>8, <1>9, Zenon DEF EventsInv
  <2>2. events'[i].pid > mon.runs /\ events'[i].pid <= started' /\ events[i].pid < started + 1
    BY <1>1, <1>9, <2>1
  <2>3. \A j \in StartedAt' : i < j => events'[i].pid < events'[j].pid
    BY <1>2, <1>5, <1>6, <1>9, <2>1, <2>2, Zenon
  <2> QED BY <1>7, <1>9, <2>1, <2>2, <2>3, Zenon
<1>11. /\ events'[n].pid > mon.runs /\ events'[n].pid <= started'
       /\ n = 1 => Settled'
       /\ n > 1 => events'[n - 1].kind = "Restarting"
       /\ \A j \in StartedAt' : n < j => events'[n].pid < events'[j].pid
  <2>1. mon.runs <= started
    BY <1>8, Zenon DEF EventsInv
  <2>2. events'[n].pid > mon.runs /\ events'[n].pid <= started'
    BY <1>1, <1>2, <1>5, <2>1
  <2>3. \A j \in StartedAt' : ~(n < j)
    BY <1>1, <1>6, <1>9
  <2>4. n = 1 => Settled'
    <3>1. n = 1 => events = <<>>
      BY <1>1, EmptyFacts
    <3> QED BY <1>7, <1>8, <3>1, Zenon DEF EventsInv
  <2>5. n > 1 => events'[n - 1].kind = "Restarting"
    <3>1. n > 1 => events # <<>> /\ n - 1 = Len(events) /\ n - 1 \in 1..Len(events)
      BY <1>1
    <3> QED BY <1>4, <1>8, <3>1, Zenon DEF EventsInv
  <2> QED BY <2>2, <2>3, <2>4, <2>5, Zenon
<1>12. mon'.runs <= started'
  BY <1>1, <1>7, <1>8 DEF EventsInv
<1> HIDE DEF n
<1> QED BY <1>6, <1>7, <1>10, <1>11, <1>12, Zenon DEF EventsInv

(* The monitor takes the first event: a Started that becomes the first was *)
(* announced by the Restarting just taken, which settled the status.       *)
LEMMA EventsTaken ==
    ASSUME InstanceInv, ~MonitorGone, ~MonitorGone', UNCHANGED <<sup, started>>,
           events # <<>>, events' = Tail(events),
           \/ events[1].kind = "Started" /\ mon'.runs = mon.runs + 1
           \/ events[1].kind = "Restarting" /\ mon'.runs = mon.runs /\ Settled'
           \/ events[1].kind = "Exited" /\ mon'.runs = mon.runs
    PROVE  EventsInv'
<1>1. TypeOK /\ EventsInv /\ events \in Seq(Events) /\ mon.runs \in Nat /\ started \in Nat
  BY MonitorType DEF InstanceInv, TypeOK, MonitorStates, Pids
<1>2. /\ Len(events) \in Nat \ {0} /\ Len(events') = Len(events) - 1
      /\ \A i \in 1..Len(events') : events'[i] = events[i + 1]
  BY <1>1, HeadTailFacts, EmptyFacts, Zenon
<1>3. \A i \in StartedAt' : /\ i + 1 \in StartedAt /\ i \in Nat \ {0}
                            /\ events'[i] = events[i + 1]
                            /\ i > 1 => events'[i - 1] = events[i]
  BY <1>2 DEF StartedAt
<1>4. events[1].kind = "Started" => 1 \in StartedAt
  BY <1>2 DEF StartedAt
<1>5. \A i \in StartedAt : events[i].pid \in Nat
  <2>1. \A i \in StartedAt : events[i] \in Events
    BY <1>1, ElementFacts, Zenon DEF StartedAt
  <2> QED BY <2>1 DEF Events
<1>6. mon'.runs <= started'
  <2>1. events[1].kind = "Started" => events[1].pid > mon.runs /\ events[1].pid <= started
    BY <1>1, <1>4, Zenon DEF EventsInv
  <2> QED BY <1>1, <1>4, <1>5, <2>1 DEF EventsInv
<1>7. ASSUME NEW i \in StartedAt'
      PROVE  /\ events'[i].pid > mon'.runs /\ events'[i].pid <= started'
             /\ i = 1 => Settled'
             /\ i > 1 => events'[i - 1].kind = "Restarting"
             /\ \A j \in StartedAt' : i < j => events'[i].pid < events'[j].pid
  <2> DEFINE k == i + 1
  <2>1. k \in StartedAt /\ i \in Nat \ {0} /\ k > 1 /\ k - 1 = i
    BY <1>3
  <2>2. /\ events[k].pid > mon.runs /\ events[k].pid <= started
        /\ events[i].kind = "Restarting"
        /\ \A j \in StartedAt : k < j => events[k].pid < events[j].pid
    BY <1>1, <2>1, Zenon DEF EventsInv
  <2>3. events[1].kind = "Started" => events[1].pid > mon.runs /\ events[1].pid < events[k].pid
    BY <1>1, <1>4, <2>1, Zenon DEF EventsInv
  <2>4. events'[i] = events[k] /\ (i > 1 => events'[i - 1] = events[i])
    BY <1>3, Zenon
  <2>5. events[k].pid > mon'.runs
    BY <1>1, <1>4, <1>5, <2>1, <2>2, <2>3
  <2>6. \A j \in StartedAt' : i < j => events'[i].pid < events'[j].pid
    <3>1. \A j \in StartedAt' : j \in Nat /\ j + 1 \in StartedAt /\ events'[j] = events[j + 1]
      BY <1>3, Zenon
    <3>2. \A j \in StartedAt' : i < j => k < j + 1
      BY <2>1, <3>1
    <3> QED BY <2>2, <2>4, <3>1, <3>2, Zenon
  <2>7. i = 1 => Settled'
    BY <2>2, Zenon
  <2> QED BY <2>2, <2>4, <2>5, <2>6, <2>7, Zenon
<1>8. sup' = "backoff" => IF events' = <<>> THEN Settled'
                          ELSE events'[Len(events')].kind = "Restarting"
  <2> SUFFICES ASSUME sup = "backoff"
               PROVE  IF events' = <<>> THEN Settled'
                      ELSE events'[Len(events')].kind = "Restarting"
    BY Zenon
  <2>1. events[Len(events)].kind = "Restarting"
    BY <1>1, Zenon DEF EventsInv
  <2>2. CASE events' = <<>>
    <3> DEFINE m == Len(events)
               n == Len(events')
    <3>1. Tail(events) \in Seq(Events)
      BY <1>1, HeadTailFacts, Zenon
    <3>2. n = 0
      BY <2>2, <3>1, EmptyFacts, Zenon
    <3>3. m \in Nat /\ n = m - 1
      BY <1>2, Zenon
    <3> HIDE DEF m, n
    <3>4. m = 1
      BY <3>2, <3>3
    <3> QED BY <2>1, <2>2, <3>4, Zenon DEF m
  <2>3. CASE events' # <<>>
    <3>1. Tail(events) \in Seq(Events)
      BY <1>1, HeadTailFacts, Zenon
    <3>2. Len(events') # 0
      BY <2>3, <3>1, EmptyFacts, Zenon
    <3>3. Len(events') \in 1..Len(events') /\ Len(events') + 1 = Len(events)
      BY <1>2, <3>2
    <3> QED BY <1>2, <2>1, <2>3, <3>3, Zenon
  <2> QED BY <2>2, <2>3, Zenon
<1>9. sup' = "backoff" => started' < MaxRuns
  BY <1>1, Zenon DEF EventsInv
<1> QED BY <1>6, <1>7, <1>8, <1>9, Zenon DEF EventsInv

(* The monitor is gone and stays gone: nobody holds the channel.           *)
LEMMA EventsGone ==
    ASSUME MonitorGone', events' = <<>>, run' = NoRun, sup' = "backoff" => started' < MaxRuns
    PROVE  EventsInv'
  BY Zenon DEF EventsInv

(* The supervisor keeps the order of its events.                           *)
LEMMA EventsSupervision ==
    ASSUME InstanceInv, Supervision
    PROVE  EventsInv'
<1>1. /\ TypeOK /\ EventsInv /\ child \in 0..MaxRuns /\ started \in Pids
      /\ UNCHANGED <<mon, run, state>>
  BY OutsideMonitor, Zenon DEF InstanceInv, TypeOK
<1>2. /\ Ev("Exited", child) \in Events /\ Ev("Restarting", 0) \in Events
      /\ Ev("GaveUp", 0) \in Events /\ Ev("Stopped", 0) \in Events
      /\ Ev("Exited", child).kind = "Exited" /\ Ev("Restarting", 0).kind = "Restarting"
      /\ Ev("GaveUp", 0).kind = "GaveUp" /\ Ev("Stopped", 0).kind = "Stopped"
  BY <1>1 DEF Ev, Events
<1>3. sup' = "backoff" => started' < MaxRuns
  BY <1>1, Zenon DEF Supervision, ChildExits, Respawn, SupervisorCancelled, EventsInv
<1>4. CASE MonitorGone
  <2>1. events' = <<>>
    BY <1>4, Zenon DEF Supervision, ChildExits, Respawn, SupervisorCancelled, Emit
  <2> QED BY <1>1, <1>3, <1>4, <2>1, EventsGone, Zenon DEF EventsInv, MonitorGone
<1>5. CASE ~MonitorGone /\ ChildExits
  <2> DEFINE x == Ev("Exited", child)
             r == Ev("Restarting", 0)
             g == Ev("GaveUp", 0)
  <2>1. x \in Events /\ r \in Events /\ g \in Events
        /\ x.kind = "Exited" /\ r.kind = "Restarting" /\ g.kind = "GaveUp"
    BY <1>2, Zenon
  <2>2. /\ started' = started
        /\ \/ sup' = "done" /\ events' = events \o <<x>>
           \/ sup' = "backoff" /\ events' = events \o <<x, r>> /\ started < MaxRuns
           \/ sup' = "done" /\ events' = events \o <<x, g>>
    BY <1>5, Zenon DEF ChildExits, Emit
  <2> HIDE DEF x, r, g
  <2> DEFINE clean == <<x>>
             retry == <<x, r>>
             quit == <<x, g>>
  <2>3. /\ clean \in Seq(Events) /\ Len(clean) > 0
        /\ \A i \in 1..Len(clean) : clean[i].kind # "Started"
    BY <2>1
  <2>4. /\ retry \in Seq(Events) /\ Len(retry) > 0
        /\ \A i \in 1..Len(retry) : retry[i].kind # "Started"
        /\ retry[Len(retry)].kind = "Restarting"
    BY <2>1
  <2>5. /\ quit \in Seq(Events) /\ Len(quit) > 0
        /\ \A i \in 1..Len(quit) : quit[i].kind # "Started"
    BY <2>1
  <2>6. /\ started' = started
        /\ \/ sup' = "done" /\ events' = events \o clean
           \/ sup' = "backoff" /\ events' = events \o retry /\ started < MaxRuns
           \/ sup' = "done" /\ events' = events \o quit
    BY <2>2, Zenon
  <2> HIDE DEF clean, retry, quit
  <2> QED BY <1>1, <1>5, <2>3, <2>4, <2>5, <2>6, EventsAppend, Zenon
<1>6. CASE ~MonitorGone /\ Respawn
  <2>1. /\ sup = "backoff" /\ sup' = "run" /\ started' = started + 1
        /\ events' = events \o <<Ev("Started", started + 1)>>
    BY <1>6, Zenon DEF Respawn, Emit
  <2> QED BY <1>1, <1>6, <2>1, EventsStart, Zenon
<1>7. CASE ~MonitorGone /\ SupervisorCancelled
  <2> DEFINE z == Ev("Stopped", 0)
  <2>1. z \in Events /\ z.kind = "Stopped"
    BY <1>2, Zenon
  <2>2. started' = started /\ sup' = "done" /\ events' = events \o <<z>>
    BY <1>7, Zenon DEF SupervisorCancelled, Emit
  <2> HIDE DEF z
  <2> DEFINE last == <<z>>
  <2>3. /\ last \in Seq(Events) /\ Len(last) > 0
        /\ \A i \in 1..Len(last) : last[i].kind # "Started"
    BY <2>1
  <2>4. events' = events \o last
    BY <2>2, Zenon
  <2> HIDE DEF last
  <2> QED BY <1>1, <1>7, <2>2, <2>3, <2>4, EventsAppend, Zenon
<1> QED BY <1>4, <1>5, <1>6, <1>7, Zenon DEF Supervision

(* Every step keeps the order of unread events.                            *)
LEMMA EventsStep ==
    ASSUME InstanceInv, [Next]_vars
    PROVE  EventsInv'
<1>1. /\ TypeOK /\ EventsInv /\ StatusInv /\ mon \in MonitorStates /\ run \in RunStates
      /\ child \in 0..MaxRuns
  BY MonitorType, Zenon DEF InstanceInv, TypeOK
<1>2. ASSUME UNCHANGED <<events, sup, started, mon, run>>,
             \/ UNCHANGED state
             \/ state' = St("Stopping", 0) \/ state' = St("Stopped", 0)
      PROVE  EventsInv'
  <2>1. Settled => Settled'
    BY <1>2 DEF Settled, St
  <2>2. MonitorGone' = MonitorGone /\ mon'.runs = mon.runs
    BY <1>2, Zenon DEF MonitorGone
  <2>3. CASE MonitorGone
    BY <1>1, <1>2, <2>2, <2>3, EventsGone, Zenon DEF EventsInv
  <2>4. CASE ~MonitorGone
    BY <1>2, <2>1, <2>2, <2>4, EventsKept, Zenon
  <2> QED BY <2>3, <2>4, Zenon
<1>3. ASSUME UNCHANGED <<events, sup, started, state>>, mon'.runs = mon.runs,
             ~MonitorGone, ~MonitorGone', run'.id \in {run.id, 0}
      PROVE  EventsInv'
  BY <1>3, EventsKept, Zenon DEF Settled
<1>4. CASE Supervision
  BY <1>4, EventsSupervision, Zenon
<1>5. CASE Probing \/ ProbeNow \/ InitialDeadlinePasses \/ UNCHANGED vars
  <2>1. UNCHANGED <<events, sup, started>>
    BY <1>5, Zenon DEF Probing, DriverCommand, DriverUseLiveness, DriverReconcile, PeriodicProbe,
                driverFrame, supervisor, ProbeNow, InitialDeadlinePasses, vars
  <2> QED BY <1>2, <1>5, <2>1, OutsideMonitor, Zenon
<1>6. CASE StopMark \/ StopTake \/ StopConfirm \/ StopCheck \/ DropInstance
  <2>1. UNCHANGED <<events, sup, started>>
    BY <1>6, Zenon DEF StopMark, StopTake, StopConfirm, StopCheck, DropInstance, stopFrame
  <2> QED BY <1>2, <1>6, <2>1, OwnerSteps, Zenon
<1>7. CASE StopSupervisor
  <2>1. UNCHANGED <<mon, run, state, started>>
    BY <1>7, Zenon DEF StopSupervisor
  <2>2. CASE UNCHANGED <<events, sup>>
    BY <1>2, <2>1, <2>2, Zenon
  <2> DEFINE x == Ev("Exited", child)
             z == Ev("Stopped", 0)
  <2>3. x \in Events /\ z \in Events /\ x.kind = "Exited" /\ z.kind = "Stopped"
    BY <1>1 DEF Ev, Events
  <2>4. \/ UNCHANGED <<events, sup>>
        \/ sup' = "done" /\ (Emit(<<x, z>>) \/ Emit(<<z>>))
    <3> DEFINE evs == IF child # 0 THEN <<x, z>> ELSE <<z>>
    <3>1. \/ UNCHANGED <<events, sup>>
          \/ sup' = "done" /\ Emit(evs)
      BY <1>7, Zenon DEF StopSupervisor
    <3>2. evs = <<x, z>> \/ evs = <<z>>
      BY Zenon
    <3> HIDE DEF evs, x, z
    <3> QED BY <3>1, <3>2, Zenon
  <2> HIDE DEF x, z
  <2> DEFINE both == <<x, z>>
             one == <<z>>
  <2>5. /\ both \in Seq(Events) /\ Len(both) > 0
        /\ \A i \in 1..Len(both) : both[i].kind # "Started"
    BY <2>3
  <2>6. /\ one \in Seq(Events) /\ Len(one) > 0
        /\ \A i \in 1..Len(one) : one[i].kind # "Started"
    BY <2>3
  <2>7. \/ UNCHANGED <<events, sup>>
        \/ sup' = "done" /\ (Emit(both) \/ Emit(one))
    BY <2>4, Zenon
  <2> HIDE DEF both, one
  <2>8. CASE sup' = "done" /\ (Emit(both) \/ Emit(one))
    <3>1. CASE MonitorGone
      BY <1>1, <2>1, <2>8, <3>1, EventsGone, Zenon DEF Emit, EventsInv, MonitorGone
    <3>2. CASE ~MonitorGone
      BY <2>1, <2>5, <2>6, <2>8, <3>2, EventsAppend, Zenon DEF Emit
    <3> QED BY <3>1, <3>2, Zenon
  <2> QED BY <2>2, <2>7, <2>8, Zenon
<1>8. CASE StopJoin
  <2>1. UNCHANGED <<sup, started, state>>
    BY <1>8, Zenon DEF StopJoin, supervisor
  <2>2. CASE UNCHANGED <<mon, run, events>>
    BY <1>2, <2>1, <2>2, Zenon
  <2>3. CASE DropMonitor("aborted")
    <3>1. MonitorGone' /\ events' = <<>> /\ run' = NoRun
      BY <2>3, MonitorAtType, Zenon DEF DropMonitor, MonitorGone
    <3> QED BY <1>1, <2>1, <3>1, EventsGone, Zenon DEF EventsInv
  <2> QED BY <1>8, <2>2, <2>3, Zenon DEF StopJoin
<1>9. CASE RespawnDeadlinePasses
  <2>1. UNCHANGED <<events, sup, started, state, run>> /\ mon'.pc = mon.pc /\ mon'.runs = mon.runs
    BY <1>1, <1>9, Zenon DEF RespawnDeadlinePasses, MonitorStates, supervisor
  <2>2. MonitorGone' = MonitorGone
    BY <2>1, Zenon DEF MonitorGone
  <2>3. CASE MonitorGone
    BY <1>1, <2>1, <2>2, <2>3, EventsGone, Zenon DEF EventsInv
  <2>4. CASE ~MonitorGone
    BY <1>3, <2>1, <2>2, <2>4, Zenon
  <2> QED BY <2>3, <2>4, Zenon
<1>10. CASE MonitorPoll \/ MonitorOnRequest \/ MonitorOnCancel
  <2>1. UNCHANGED <<events, sup, started, state>> /\ (run' = run \/ run' = NoRun)
    BY <1>10, Zenon DEF MonitorPoll, MonitorOnRequest, MonitorOnCancel, quietFrame, monitorFrame
  <2>2. /\ mon.pc \notin {"ended", "aborted"} /\ mon'.pc \notin {"ended", "aborted"}
        /\ mon'.runs = mon.runs
    BY <1>1, <1>10, Zenon DEF MonitorPoll, MonitorOnRequest, MonitorOnCancel, MonitorStates
  <2> QED BY <1>3, <2>1, <2>2, NoRunType, Zenon DEF MonitorGone
<1>11. CASE MonitorOnEvent
  <2>1. UNCHANGED <<sup, started>> /\ mon.pc = "onEvent"
    BY <1>11, Zenon DEF MonitorOnEvent, monitorFrame
  <2>2. ASSUME events # <<>>, events' = Tail(events), OnStarted \/ OnRestarting \/ OnExited
        PROVE  EventsInv'
    <3>1. Head(events) = events[1]
      BY <1>1, <2>2, HeadEvent, Zenon
    <3>2. CASE OnStarted
      <4>1. events[1].kind = "Started" /\ mon'.runs = mon.runs + 1 /\ mon'.pc = "send"
        BY <1>1, <3>1, <3>2, Zenon DEF OnStarted, MonitorStates
      <4> QED BY <2>1, <2>2, <4>1, EventsTaken, Zenon DEF MonitorGone
    <3>3. CASE OnRestarting
      <4>1. events[1].kind = "Restarting" /\ mon'.runs = mon.runs /\ mon'.pc = "loop"
        BY <1>1, <3>1, <3>3, Zenon DEF OnRestarting, MonitorStates
      <4>2. Settled'
        BY <3>3, NoRunType, Zenon DEF OnRestarting, Settled, St
      <4> QED BY <2>1, <2>2, <4>1, <4>2, EventsTaken, Zenon DEF MonitorGone
    <3>4. CASE OnExited
      <4>1. events[1].kind = "Exited" /\ mon'.runs = mon.runs /\ mon'.pc = "loop"
        BY <1>1, <3>1, <3>4, Zenon DEF OnExited, MonitorStates
      <4> QED BY <2>1, <2>2, <4>1, EventsTaken, Zenon DEF MonitorGone
    <3> QED BY <2>2, <3>2, <3>3, <3>4, Zenon
  <2>3. CASE EndMonitor
    <3>1. MonitorGone' /\ events' = <<>> /\ run' = NoRun
      BY <2>3, MonitorAtType, Zenon DEF EndMonitor, DropMonitor, MonitorGone
    <3> QED BY <1>1, <2>1, <3>1, EventsGone, Zenon DEF EventsInv
  <2> QED BY <1>11, <2>2, <2>3, Zenon DEF MonitorOnEvent
<1>12. CASE /\ apply_probe_observation /\ UNCHANGED <<events, sup, started, state>>
            /\ mon.pc \in {"onObservation", "drainInitial", "drainRespawn"}
  <2>1. run'.id = run.id
    BY <1>1, <1>12, ApplyEffect, Zenon
  <2>2. mon'.runs = mon.runs /\ mon'.pc \notin {"ended", "aborted"}
    <3>1. \/ mon' = [mon EXCEPT !.pc = mon.ret]
          \/ \E out : mon' = [mon EXCEPT !.pc = "acking", !.out = out]
          \/ \E out : mon' = [mon EXCEPT !.pc = "send", !.out = out]
      BY <1>1, <1>12, ApplyEffect, Zenon
    <3> QED BY <1>1, <3>1, Zenon DEF MonitorStates
  <2> QED BY <1>3, <1>12, <2>1, <2>2, Zenon DEF MonitorGone
<1>13. CASE MonitorOnObservation
  BY <1>12, <1>13, Zenon DEF MonitorOnObservation, quietFrame, monitorFrame
<1>14. CASE MonitorAck
  <2>1. UNCHANGED <<events, sup, started, state>> /\ mon.pc = "acking"
    BY <1>14, Zenon DEF MonitorAck, monitorFrame
  <2>2. run'.id = run.id
    BY <1>1, <1>14, Zenon DEF MonitorAck, RunStates
  <2>3. mon'.runs = mon.runs /\ mon'.pc \notin {"ended", "aborted"}
    BY <1>1, <1>14, Zenon DEF MonitorAck, MonitorStates
  <2> QED BY <1>3, <2>1, <2>2, <2>3, Zenon DEF MonitorGone
<1>15. CASE MonitorSend
  <2>1. UNCHANGED <<events, sup, started, run>> /\ mon.pc = "send"
    BY <1>15, Zenon DEF MonitorSend, monitorFrame
  <2>2. mon'.runs = mon.runs /\ mon'.pc \notin {"ended", "aborted"}
    BY <1>1, <1>15, Zenon DEF MonitorSend, MonitorStates
  <2>3. ~Settled
    BY <1>1, <2>1, Zenon DEF StatusInv, Settled
  <2> QED BY <2>1, <2>2, <2>3, EventsKept, Zenon DEF MonitorGone
<1>16. CASE MonitorDrain
  <2>1. CASE observations # <<>>
    BY <1>12, <1>16, <2>1, Zenon DEF MonitorDrain, monitorFrame
  <2>2. CASE observations = <<>>
    <3>1. /\ UNCHANGED <<events, sup, started, state>> /\ run' = NoRun
          /\ mon.pc \in {"drainInitial", "drainRespawn"}
      BY <1>1, <1>16, <2>2, ApplyEffect, Zenon DEF MonitorDrain, monitorFrame
    <3>2. mon'.pc = "loop" /\ mon'.runs = mon.runs
      BY <1>1, <1>16, <2>2, ApplyEffect, Zenon DEF MonitorDrain, MonitorStates
    <3> QED BY <1>3, <3>1, <3>2, NoRunType, Zenon DEF MonitorGone
  <2> QED BY <2>1, <2>2, Zenon
<1> QED BY <1>4, <1>5, <1>6, <1>7, <1>8, <1>9, <1>10, <1>11, <1>13, <1>14, <1>15, <1>16,
       Zenon DEF Next, Stopping, Monitor

-----------------------------------------------------------------------------
(* The new instance satisfies the invariant.                               *)
LEMMA InstanceInit == Init => InstanceInv
<1> SUFFICES ASSUME Init PROVE InstanceInv
  BY Zenon
<1>1. mon = MonitorAt("loop") /\ mon \in MonitorStates /\ mon.pc = "loop" /\ mon.runs = 0
  BY MonitorAtType, Zenon DEF Init
<1>2. run = NoRun /\ run \in RunStates /\ run.id = 0 /\ driver \in Drivers
  BY NoRunType, NoDriverType, Zenon DEF Init
<1> DEFINE e == Ev("Started", 1)
<1>3. e \in Events /\ e.kind = "Started" /\ e.pid = 1 /\ events = <<e>>
  BY DEF Init, Ev, Events
<1> HIDE DEF e
<1>4. events \in Seq(Events) /\ Len(events) = 1 /\ events[1] = e
  BY <1>3
<1>5. TypeOK
  <2>1. state \in States /\ health \in Healths /\ state.life = "Starting"
    BY DEF Init, St, States, Lives, Hl, Healths, TrackerStates
  <2>2. acks \in [Pids -> Nat] /\ child \in 0..MaxRuns /\ started \in Pids
    BY DEF Init, Pids
  <2>3. observations \in Seq(Observations)
    BY EmptyFacts, Zenon DEF Init
  <2>4. stopper \in Stoppers
    BY Zenon DEF Init, Stoppers, StopPoints
  <2>5. /\ mon \in MonitorStates /\ run \in RunStates /\ driver \in Drivers
        /\ events \in Seq(Events)
    BY <1>1, <1>2, <1>4, Zenon
  <2>6. /\ probeTimeout \in BOOLEAN /\ cancel \in BOOLEAN /\ probeCancel \in BOOLEAN
        /\ pidRecord \in BOOLEAN /\ initialPassed \in BOOLEAN
        /\ sup \in {"run", "backoff", "done"}
        /\ request \in {"none", "queued", "driver", "answered"}
    BY Zenon DEF Init
  <2>7. restarts \in 0..MaxRestarts
    BY DEF Init
  <2> QED BY <2>1, <2>2, <2>3, <2>4, <2>5, <2>6, <2>7,
         Zenon DEF TypeOK, MonitorStates, MonitorPoints, RunStates, Drivers, Stoppers, StopPoints
<1>6. EventsInv
  <2>1. StartedAt = {1}
    BY <1>3, <1>4 DEF StartedAt
  <2>2. Settled
    BY <1>2, Zenon DEF Settled, Init, St
  <2>3. started = 1 /\ sup = "run" /\ ~MonitorGone
    BY <1>1, Zenon DEF Init, MonitorGone
  <2> QED BY <1>1, <1>3, <1>4, <2>1, <2>2, <2>3 DEF EventsInv
<1>7. AckInv
  BY <1>1, <1>2 DEF AckInv, AckOnce, Init, Pids
<1>8. StatusInv
  BY <1>1, Zenon DEF StatusInv, Shown, Init, St
<1>9. StopInv /\ TimeoutInv
  BY Zenon DEF StopInv, StopOkMeansDead, TimeoutInv, Init
<1> QED BY <1>5, <1>6, <1>7, <1>8, <1>9, Zenon DEF InstanceInv

(* An acknowledgement is only ever given at the monitor's await of it.     *)
LEMMA AckOnlyWhenAsked ==
    ASSUME [Next]_vars, acks' # acks
    PROVE  mon.pc = "acking"
  BY OutsideMonitor, OwnerSteps, JoinStep,
 Zenon DEF Next, Stopping, Monitor, MonitorPoll, MonitorOnCancel, MonitorOnEvent, MonitorOnObservation,
      MonitorAck, MonitorSend, MonitorDrain, MonitorOnRequest, quietFrame, RespawnDeadlinePasses,
      supervisor

(* InstanceInv is an invariant of the Instance, whatever the number of     *)
(* process runs, restart budget, thresholds and probe configuration.       *)
THEOREM InstanceInvariant == Spec => []InstanceInv
<1>1. Init => InstanceInv
  BY InstanceInit, Zenon
<1>2. InstanceInv /\ [Next]_vars => InstanceInv'
  <2> SUFFICES ASSUME InstanceInv, [Next]_vars PROVE InstanceInv'
    BY Zenon
  <2>1. TypeOK' /\ StopInv' /\ TimeoutInv'
    BY TypeStep, StopStep, TimeoutStep, Zenon
  <2>2. EventsInv' /\ AckInv' /\ StatusInv'
    BY EventsStep, AckStep, StatusStep, Zenon
  <2> QED BY <2>1, <2>2, Zenon DEF InstanceInv
<1> QED BY <1>1, <1>2, PTL DEF Spec

(* The supervisor accepts at most one readiness acknowledgement for each   *)
(* process run: apply_probe_observation sets ack_attempted before it asks, *)
(* and a run that begins has a pid no acknowledgement names.               *)
THEOREM AcknowledgedOnce == Spec => []AckOnce
<1>1. InstanceInv => AckOnce
  BY Zenon DEF InstanceInv, AckInv
<1> QED BY <1>1, InstanceInvariant, PTL

(* A status that shows Running{pid} carries that run's own health and the  *)
(* run was acknowledged: the monitor leaves Running on Restarting, which   *)
(* the supervisor sends before the Started of the next process.            *)
THEOREM StatusNamesItsRun == Spec => []HealthMatchesPid
<1>1. InstanceInv => HealthMatchesPid
  BY Zenon DEF InstanceInv, StatusInv, Shown, HealthMatchesPid
<1> QED BY <1>1, InstanceInvariant, PTL

(* stop_and_confirm_dead returns Ok only when no process of the epoch is   *)
(* alive, and none is alive later: a live process has its pid record, and  *)
(* a returned call has cancelled the supervisor.                           *)
THEOREM StoppedIsDead == Spec => []StopOkMeansDead
<1>1. InstanceInv => StopOkMeansDead
  BY Zenon DEF InstanceInv, StopInv
<1> QED BY <1>1, InstanceInvariant, PTL

(* Once a startup deadline has fired no acknowledgement is given to any    *)
(* run: the drain that fires it takes the driver and every observation     *)
(* away, and a run begun later gets no driver.                             *)
THEOREM TimeoutIsFinal == Spec => TimedOutNeverReady
<1>1. InstanceInv /\ [Next]_vars => [probeTimeout => acks' = acks]_vars
  <2> SUFFICES ASSUME InstanceInv, [Next]_vars, probeTimeout PROVE acks' = acks
    BY Zenon
  <2>1. mon.pc # "acking"
    BY Zenon DEF InstanceInv, TimeoutInv
  <2> QED BY <2>1, AckOnlyWhenAsked, Zenon
<1> QED BY <1>1, InstanceInvariant, PTL DEF Spec, TimedOutNeverReady

=============================================================================
