----------------------------- MODULE Scheduler -----------------------------
(***************************************************************************)
(* The schedule leg of internal/scheduler/heuristic.go: the warm floor a   *)
(* policy's schedule asks for at an instant.  Pure operators; instants are *)
(* minutes of the week in UTC.                                             *)
(***************************************************************************)
EXTENDS Integers, Sequences

CONSTANTS
    Weekdays,        \* the weekdays in calendar order, e.g. <<"Sun", ..., "Sat">>
    HoursPerDay,     \* 24 in reality; scaled down for model checking
    MinutesPerHour,  \* 60 in reality; scaled down for model checking
    ZoneOffset       \* function: IANA zone -> minutes east of UTC; a name
                     \* outside its domain is one time.LoadLocation rejects

DayMinutes == HoursPerDay * MinutesPerHour
WeekMinutes == Len(Weekdays) * DayMinutes

\* now.In(loc): the local instant, as a minute of the local week.
Local(now, tz) == (now + ZoneOffset[tz]) % WeekMinutes
LocalDay(local) == Weekdays[(local \div DayMinutes) + 1]
MinuteOfDay(local) == local % DayMinutes

\* parseHM then hour*60+minute; a clock reading is the pair <<hour, minute>>.
ToMinutes(hm) == hm[1] * MinutesPerHour + hm[2]

\* Mutant: the last minute is inside.
WithinHHMMClosed(local, from, to) ==
    /\ MinuteOfDay(local) >= ToMinutes(from)
    /\ MinuteOfDay(local) <= ToMinutes(to)

\* A half-open window: its first minute is inside, its last is not.
WithinHHMM(local, from, to) ==
    /\ MinuteOfDay(local) >= ToMinutes(from)
    /\ MinuteOfDay(local) < ToMinutes(to)

\* Whether window w counts at instant now: unknown zones are skipped.
WindowActive(w, now) ==
    /\ w.tz \in DOMAIN ZoneOffset
    /\ LocalDay(Local(now, w.tz)) \in w.days
    /\ WithinHHMM(Local(now, w.tz), w.from, w.to)

\* The scan of spec.schedule, which keeps the best base seen so far (0 at first).
ScheduleBase(windows, now) ==
    LET Best[i \in 0..Len(windows)] ==
            IF i = 0 THEN 0
            ELSE IF WindowActive(windows[i], now) /\ windows[i].base > Best[i - 1]
                 THEN windows[i].base
                 ELSE Best[i - 1]
    IN  Best[Len(windows)]
=============================================================================
