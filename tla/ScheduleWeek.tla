---------------------------- MODULE ScheduleWeek ----------------------------
(***************************************************************************)
(* A policy's schedule while the week passes: what scheduleBase answers at *)
(* every minute, against an enumeration of the minutes its windows cover.  *)
(***************************************************************************)
EXTENDS Scheduler

CONSTANTS
    Admitted,   \* the windows admission lets through
    Schedules  \* lists of them

VARIABLES
    schedule,  \* spec.schedule
    now        \* the minute of the week in UTC

weekVars == <<schedule, now>>

Clock == (0..(HoursPerDay - 1)) \X (0..(MinutesPerHour - 1))

\* Weekday names differ, and the patterns of from and to admit only the readings
\* of a clock; days and zones may be any names.
ASSUME ScheduleAssumption ==
    /\ HoursPerDay \in Nat \ {0} /\ MinutesPerHour \in Nat \ {0}
    /\ Weekdays \in Seq(STRING) /\ Len(Weekdays) > 0
    /\ \A i, j \in 1..Len(Weekdays) : Weekdays[i] = Weekdays[j] => i = j
    /\ \A tz \in DOMAIN ZoneOffset : ZoneOffset[tz] \in Int
    /\ \A w \in Admitted : w.from \in Clock /\ w.to \in Clock /\ w.base \in Nat
    /\ Schedules \subseteq Seq(Admitted)

WeekInit == schedule \in Schedules /\ now = 0

MinutePasses ==
    /\ now' = (now + 1) % WeekMinutes
    /\ UNCHANGED schedule

WeekSpec == WeekInit /\ [][MinutePasses]_weekVars

-----------------------------------------------------------------------------
DayIndex(day) == CHOOSE i \in 0..(Len(Weekdays) - 1) : Weekdays[i + 1] = day

\* Reference: the UTC minutes of the week a window covers, by enumeration.
Covers(w) ==
    {(DayIndex(day) * DayMinutes + minute + WeekMinutes - ZoneOffset[w.tz]) % WeekMinutes :
        day \in w.days \cap {Weekdays[i] : i \in DOMAIN Weekdays},
        minute \in ToMinutes(w.from)..(ToMinutes(w.to) - 1)}

Covering(windows, minute) ==
    {i \in DOMAIN windows : windows[i].tz \in DOMAIN ZoneOffset /\ minute \in Covers(windows[i])}

\* scheduleBase is the largest base among the windows that cover the instant in
\* their own zone, and 0 when none does; windows in unknown zones do not count.
BaseIsLargestActive ==
    LET bases == {0} \cup {schedule[i].base : i \in Covering(schedule, now)}
        base == ScheduleBase(schedule, now)
    IN  base \in bases /\ \A other \in bases : other <= base
=============================================================================
