-------------------------- MODULE HealthReference --------------------------
(***************************************************************************)
(* The health tracker fed with every sequence of up to MaxResults probe    *)
(* results, compared after each with a definition of what it should say    *)
(* that looks at the whole history instead of counting.                    *)
(***************************************************************************)
EXTENDS HealthTracker, Sequences, FiniteSets, FiniteSetsExt

CONSTANT MaxResults   \* bound: probe results

VARIABLES tracker, history

healthVars == <<tracker, history>>

HealthInit == tracker = NewTracker /\ history = <<>>

(* One probe result. Once the start period is over it stays over.          *)
FeedResult(healthy, inStartPeriod) ==
    /\ Len(history) < MaxResults
    /\ inStartPeriod => \A i \in 1..Len(history) : history[i].inStartPeriod
    /\ tracker' = Observe(tracker, healthy, inStartPeriod)
    /\ history' = Append(history, [healthy |-> healthy, inStartPeriod |-> inStartPeriod])

HealthNext == \E healthy, inStartPeriod \in BOOLEAN : FeedResult(healthy, inStartPeriod)

-----------------------------------------------------------------------------
(* A failure counts after the start period or after any success.           *)
Counted(i) ==
    /\ ~history[i].healthy
    /\ ~history[i].inStartPeriod \/ \E j \in 1..i : history[j].healthy

(* Where the history shows n results of a kind in a row.                   *)
SuccessRuns == {i \in SuccessThreshold..Len(history) :
                   \A j \in (i - SuccessThreshold + 1)..i : history[j].healthy}
FailureRuns == {i \in FailureThreshold..Len(history) :
                   \A j \in (i - FailureThreshold + 1)..i : Counted(j)}

LatestOf(S) == IF S = {} THEN 0 ELSE Max(S)

(* observe reports the threshold reached last: Healthy after               *)
(* success_threshold successes in a row with no later run of               *)
(* failure_threshold counted failures, Unhealthy the other way round,      *)
(* Starting before either. A mixed sequence below the thresholds never     *)
(* moves it, whatever streaks came before.                                 *)
StateIsHysteresis ==
    tracker.state = IF SuccessRuns = {} /\ FailureRuns = {} THEN "Starting"
                    ELSE IF LatestOf(SuccessRuns) > LatestOf(FailureRuns) THEN "Healthy"
                    ELSE "Unhealthy"

(* consecutive_failures, which clients see, is the number of counted       *)
(* failures since the last success, up to the counter's maximum.           *)
FailuresAreTrailing ==
    LET since == LatestOf({i \in 1..Len(history) : history[i].healthy}) IN
    tracker.failures =
        Min({CounterMax, Cardinality({i \in (since + 1)..Len(history) : Counted(i)})})

(* Both numbers a client sees of the tracker follow from the whole history *)
(* of results, whatever was forgotten on the way (health/mod.rs, observe). *)
TrackerFollowsHistory == StateIsHysteresis /\ FailuresAreTrailing
=============================================================================
