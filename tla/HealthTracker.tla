--------------------------- MODULE HealthTracker ---------------------------
(***************************************************************************)
(* `HealthTracker` of health/mod.rs: the hysteresis that turns probe       *)
(* results of one process run into Starting, Healthy or Unhealthy.         *)
(* Times are reduced to whether a result falls inside the start period;    *)
(* the streak counters saturate at CounterMax (u32::MAX).                  *)
(***************************************************************************)
EXTENDS Naturals

CONSTANTS FailureThreshold, SuccessThreshold, CounterMax

ASSUME ThresholdAssumption ==
    /\ CounterMax \in Nat
    /\ FailureThreshold \in 1..CounterMax /\ SuccessThreshold \in 1..CounterMax

TrackerStates == {"Starting", "Healthy", "Unhealthy"}

Trackers == [state : TrackerStates, failures : 0..CounterMax, successes : 0..CounterMax,
             graceEnded : BOOLEAN]

NewTracker == [state |-> "Starting", failures |-> 0, successes |-> 0, graceEnded |-> FALSE]

saturating_add(n) == IF n < CounterMax THEN n + 1 ELSE n

(* A success ends the grace and the failure streak; the streak of          *)
(* successes is only counted while the tracker is not Healthy.             *)
ObserveHealthy(t) ==
    LET n == saturating_add(t.successes)
        up == t.state # "Healthy" /\ n >= SuccessThreshold IN
    [state |-> IF up THEN "Healthy" ELSE t.state,
     failures |-> 0,
     successes |-> IF t.state = "Healthy" \/ up THEN 0 ELSE n,
     graceEnded |-> TRUE]

ObserveUnhealthyKeepSuccesses(t, inStartPeriod) ==
    LET excused == ~t.graceEnded /\ inStartPeriod
        n == IF excused THEN t.failures ELSE saturating_add(t.failures) IN
    [t EXCEPT !.state = IF ~excused /\ n >= FailureThreshold THEN "Unhealthy" ELSE @,
              !.failures = n]

(* A failure ends the streak of successes and counts unless it is excused: *)
(* inside the start period and before any success.                         *)
ObserveUnhealthy(t, inStartPeriod) ==
    LET excused == ~t.graceEnded /\ inStartPeriod
        n == IF excused THEN t.failures ELSE saturating_add(t.failures) IN
    [state |-> IF ~excused /\ n >= FailureThreshold THEN "Unhealthy" ELSE t.state,
     failures |-> n,
     successes |-> 0,
     graceEnded |-> t.graceEnded]

Observe(t, healthy, inStartPeriod) ==
    IF healthy THEN ObserveHealthy(t) ELSE ObserveUnhealthy(t, inStartPeriod)

=============================================================================
