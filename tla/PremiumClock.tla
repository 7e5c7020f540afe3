---------------------------- MODULE PremiumClock ----------------------------
(***************************************************************************)
(* The date clash premium does not print: log.rs infers it from the        *)
(* observation instant of the first line and from rollovers afterwards.    *)
(* Instants are hours; a date is a whole number of days.                   *)
(***************************************************************************)
EXTENDS Integers

CONSTANTS DayHours,    \* hours in a day
          MaxInstant,  \* bound: the last instant a line is printed at
          StepBack     \* how far the core's clock may be set back within a day

ASSUME DayAssumption == DayHours \in Nat \ {0} /\ DayHours % 2 = 0 /\ StepBack \in 0..(DayHours \div 2)

VARIABLES
  printedAt,   \* the instant the last line was printed at
  premium,     \* premium_clock: [date, time], and whether it is set
  inferred     \* the instant the last frame carries

clockVars == <<printedAt, premium, inferred>>

HalfDay == DayHours \div 2
Date(t) == t \div DayHours
Time(t) == t % DayHours

ClockInit ==
  /\ printedAt \in DayHours..(2 * DayHours - 1)
  /\ premium = [set |-> FALSE, date |-> 0, time |-> 0]
  /\ inferred = printedAt

AnyFall(previous, time) == previous > time
RolledOver(previous, time) == previous - time > HalfDay

FirstDate(time, observed) ==
  IF time - Time(observed) > HalfDay THEN Date(observed) - 1 ELSE Date(observed)

\* premium_unix_ms for a line printed at `at` and observed `delay` later.
PremiumLine(at, delay) ==
  LET time == Time(at)
      date == IF ~premium.set THEN FirstDate(time, at + delay)
              ELSE IF RolledOver(premium.time, time) THEN premium.date + 1
              ELSE premium.date
  IN  /\ printedAt' = at
      /\ premium' = [set |-> TRUE, date |-> date, time |-> time]
      /\ inferred' = date * DayHours + time

\* The cores print at least twice a day and are read within half a day; a
\* clock set back stays on its day.
ClockNext ==
  \E at \in (printedAt - StepBack)..(printedAt + HalfDay - 1), delay \in 0..(HalfDay - 1) :
    /\ at <= MaxInstant
    /\ at < printedAt => Date(at) = Date(printedAt)
    /\ PremiumLine(at, delay)

-----------------------------------------------------------------------------
\* The instant a premium frame carries is the one it was printed at, over
\* midnights, late observation and small corrections of the clock (log.rs,
\* premium_unix_ms).
DateFollows == inferred = printedAt
=============================================================================
