---------------------------- MODULE LocalSchedule ----------------------------
(* The scheduler local modules register their jobs with (internal/localmod):    *)
(* a job every day at an hour of the local clock, which is put forward or back  *)
(* once, and one at an interval. Time is counted in hours.                      *)
EXTENDS Naturals, Integers, FiniteSets

CONSTANTS
  DayHours,     \* hours of a day; a bound, 24 in the program
  Days,         \* bound: local days
  ClockChange   \* the hour at which the local clock is changed

ASSUME ScheduleAssumption == DayHours \in Nat \ {0} /\ Days \in Nat /\ ClockChange \in Nat

VARIABLES
  hour,     \* the hour DailyAt was given
  shift,    \* what is added to the local clock: 1 in spring, -1 in autumn, or 0
  slow,     \* whether a run may take an hour or more
  now,
  plan,     \* [at, next]: when the daily job was planned, and for when
  daily,    \* "planning", "waiting" or "running"
  runs,     \* runs[d]: how often it ran on a local day, counted to 2
  tick      \* the interval's ticker: 1 while a tick waits in its channel

scheduleVars == <<hour, shift, slow, now, plan, daily, runs, tick>>

Horizon == Days * DayHours
Local(t) == t + (IF t >= ClockChange THEN shift ELSE 0)
Day(t) == Local(t) \div DayHours

ScheduleTypeOK ==
  /\ hour \in 0 .. DayHours - 1 /\ shift \in {-1, 0, 1} /\ slow \in BOOLEAN
  /\ now \in 0 .. Horizon /\ daily \in {"planning", "waiting", "running"}
  /\ runs \in [0 .. Days + 1 -> 0 .. 2] /\ tick \in {0, 1}

ScheduleInit ==
  /\ hour \in 0 .. DayHours - 1 /\ shift \in {-1, 0, 1} /\ slow \in BOOLEAN
  /\ now = 0 /\ daily = "planning" /\ plan = [at |-> 0, next |-> 1]
  /\ runs = [d \in 0 .. Days + 1 |-> 0] /\ tick = 0

\* time.Date: a local time that the change skips is read in one of the two zones,
\* of one that happens twice either is meant.
TimesAt(day, h) ==
  LET local == day * DayHours + h
      exact == {t \in {local, local - shift} : Local(t) = local}
  IN IF exact # {} THEN exact ELSE {local, local - shift}

\* Faulty: a time of today is never taken.
Tomorrow(t) == {c + DayHours : c \in TimesAt(Day(t), hour)}

\* Today's time, or 24 hours later if that is past; what the clock shows then is
\* not looked at.
NextDaily(t) == {IF c > t THEN c ELSE c + DayHours : c \in TimesAt(Day(t), hour)}

Plan ==
  /\ daily = "planning"
  /\ \E next \in NextDaily(now) : plan' = [at |-> now, next |-> next]
  /\ daily' = "waiting"
  /\ UNCHANGED <<hour, shift, slow, now, runs, tick>>

DailyDue == daily = "waiting" /\ plan.next <= now

RunDaily ==
  /\ DailyDue
  /\ daily' = "running"
  /\ runs' = [runs EXCEPT ![Day(now)] = IF @ < 2 THEN @ + 1 ELSE @]
  /\ UNCHANGED <<hour, shift, slow, now, plan, tick>>

\* A job that panics ends like any other.
DailyEnds ==
  /\ daily = "running" /\ daily' = "planning"
  /\ UNCHANGED <<hour, shift, slow, now, plan, runs, tick>>

\* A run that was due when it was planned is planned and run again at once, as
\* long as that remains so.
Spinning == daily = "planning" /\ plan.next <= plan.at /\ now = plan.at

\* The ticker drops what its channel has no room for.
TimePassesOn ==
  /\ now < Horizon
  /\ \/ daily = "waiting" /\ ~DailyDue
     \/ daily = "running" /\ slow
     \/ Spinning
  /\ now' = now + 1 /\ tick' = 1
  /\ UNCHANGED <<hour, shift, slow, plan, daily, runs>>

RunEvery ==
  /\ tick = 1 /\ tick' = 0
  /\ UNCHANGED <<hour, shift, slow, now, plan, daily, runs>>

ScheduleNext == Plan \/ RunDaily \/ DailyEnds \/ TimePassesOn \/ RunEvery

ScheduleSpec == ScheduleInit /\ [][ScheduleNext]_scheduleVars

(* -------------------------------- properties -------------------------------- *)

\* "DailyAt runs job once per day": as long as a run is short and the hour is not
\* next to midnight when the clock changes, no day that is over went without one.
\* Of the day it is started on this is so when its time is still to come.
Expected(d) == d > 0 \/ (hour > 0 /\ (shift = 0 \/ ClockChange > 1))
NoDayMissed ==
  ~slow /\ (shift # 0 => hour \in 1 .. DayHours - 2) =>
    \A d \in 0 .. Day(now) - 1 : Expected(d) => runs[d] > 0

\* ... and where the clock is not changed, no day has two.
OncePerDay == shift = 0 => \A d \in DOMAIN runs : runs[d] <= 1

\* A daily job runs once on every day that has its hour (Scheduler.DailyAt).
ScheduleHolds == NoDayMissed /\ OncePerDay
=============================================================================
