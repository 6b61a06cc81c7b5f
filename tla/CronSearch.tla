---------------------------- MODULE CronSearch -----------------------------
(***************************************************************************)
(* Schedule.NextAfter (internal/cron/parser.go): the search for the next   *)
(* minute that matches a schedule.  It does not look at every minute but   *)
(* jumps to the next month, day, hour or minute that may match, and gives  *)
(* up after four years of 365 days.  A minute is a number; the calendar    *)
(* has months, a leap day every fourth year, weeks, hours and minutes as   *)
(* the real one, of the lengths the constants give.                        *)
(***************************************************************************)
EXTENDS Integers, Sequences, FiniteSets

CONSTANTS
    MonthDays,    \* the days of each month of a common year
    LeapMonth,    \* the month with one day more in every fourth year
    WeekDays,     \* days of a week
    DayHours,     \* hours of a day
    HourMinutes,  \* minutes of an hour
    Schedules,    \* the schedules searched for
    Afters,       \* the minutes they are searched from
    LastYear,     \* bound: the years of the calendar are 0 .. LastYear
    NoMinute

ASSUME CalendarAssumption ==
    /\ MonthDays \in Seq(Nat \ {0}) /\ LeapMonth \in 1 .. Len(MonthDays)
    /\ {WeekDays, DayHours, HourMinutes} \subseteq Nat \ {0}
    /\ LastYear \in Nat
    /\ Afters \subseteq Nat
    /\ NoMinute \notin Nat

VARIABLES sched, after, minute, result

searchVars == <<sched, after, minute, result>>

Months == 1 .. Len(MonthDays)
DayMinutes == DayHours * HourMinutes

MonthLength(y, m) ==
    MonthDays[m] + IF m = LeapMonth /\ y % 4 = 3 THEN 1 ELSE 0

DaysBefore(y, m) ==
    LET days[k \in Months] ==
            IF k = 1 THEN 0 ELSE days[k - 1] + MonthLength(y, k - 1)
    IN  days[m]

YearLength == DaysBefore(0, Len(MonthDays)) + MonthLength(0, Len(MonthDays))

DayNumber(y, m, d) == y * YearLength + y \div 4 + DaysBefore(y, m) + d - 1

\* The date of every day of the calendar.
Dates == UNION {[year : {y}, month : {m}, day : 1 .. MonthLength(y, m)]
                    : y \in 0 .. LastYear, m \in Months}
DateOf == [n \in {DayNumber(x.year, x.month, x.day) : x \in Dates} |->
              CHOOSE x \in Dates : DayNumber(x.year, x.month, x.day) = n]

DayOf(t) == t \div DayMinutes
Date(t) == DateOf[DayOf(t)]
WeekDay(t) == DayOf(t) % WeekDays
HourOf(t) == (t % DayMinutes) \div HourMinutes
MinuteOf(t) == t % HourMinutes
Midnight(n) == n * DayMinutes

Least(S) == CHOOSE x \in S : \A y \in S : x <= y

\* nextVal: the first value after v, or the first of all.
NextVal(S, v) ==
    IF \E x \in S : x > v THEN Least({x \in S : x > v}) ELSE Least(S)

Matches(s, t) ==
    /\ MinuteOf(t) \in s.minutes /\ HourOf(t) \in s.hours
    /\ Date(t).day \in s.days /\ Date(t).month \in s.months
    /\ WeekDay(t) \in s.weekdays

\* Mutant of NextMonth: the day of the month is not reset.
NextMonthKeepsDay(s, t) ==
    LET m == NextVal(s.months, Date(t).month)
        y == Date(t).year + IF m <= Date(t).month THEN 1 ELSE 0
    IN  Midnight(DayNumber(y, m, Date(t).day))

\* The first day of the next month of the schedule.
NextMonth(s, t) ==
    LET m == NextVal(s.months, Date(t).month)
        y == Date(t).year + IF m <= Date(t).month THEN 1 ELSE 0
    IN  Midnight(DayNumber(y, m, 1))

NextDay(t) == Midnight(DayOf(t) + 1)

\* The first minute of the schedule in its next hour of this day.
NextHour(s, t) ==
    LET h == NextVal(s.hours, HourOf(t)) IN
    IF h <= HourOf(t) THEN NextDay(t)
    ELSE Midnight(DayOf(t)) + h * HourMinutes + Least(s.minutes)

NextMinute(s, t) ==
    LET m == NextVal(s.minutes, MinuteOf(t)) IN
    t - MinuteOf(t) + IF m <= MinuteOf(t) THEN HourMinutes ELSE m

Advance(s, t) ==
    IF Date(t).month \notin s.months THEN NextMonth(s, t)
    ELSE IF Date(t).day \notin s.days \/ WeekDay(t) \notin s.weekdays
         THEN NextDay(t)
    ELSE IF HourOf(t) \notin s.hours THEN NextHour(s, t)
    ELSE NextMinute(s, t)

\* The search stops 4 * 365 days after it began.
Limit == after + 4 * YearLength * DayMinutes

\* parseField refuses a field without values or with one out of its range.
ASSUME SchedulesAssumption ==
    \A s \in Schedules :
        /\ s.minutes # {} /\ s.minutes \subseteq 0 .. HourMinutes - 1
        /\ s.hours # {} /\ s.hours \subseteq 0 .. DayHours - 1
        /\ s.months # {} /\ s.months \subseteq Months

\* Bound: the calendar goes on until the search has to stop.
ASSUME LastYearAssumption ==
    \A t \in Afters :
        t + 4 * YearLength * DayMinutes <= Midnight(DayNumber(LastYear + 1, 1, 1))

SearchInit ==
    /\ sched \in Schedules /\ after \in Afters
    /\ minute = after + 1
    /\ result = NoMinute

Skip ==
    /\ result = NoMinute /\ minute < Limit /\ ~Matches(sched, minute)
    /\ minute' = Advance(sched, minute)
    /\ UNCHANGED <<sched, after, result>>

Found ==
    /\ result = NoMinute /\ minute < Limit /\ Matches(sched, minute)
    /\ result' = minute
    /\ UNCHANGED <<sched, after, minute>>

GiveUp ==
    /\ result = NoMinute /\ minute >= Limit
    /\ result' = after + 1
    /\ UNCHANGED <<sched, after, minute>>

SearchNext == Skip \/ Found \/ GiveUp

SearchSpec == SearchInit /\ [][SearchNext]_searchVars

-----------------------------------------------------------------------------
\* No jump of NextAfter passes over a minute that matches, whatever leap
\* days, ends of months and of years and empty intersections of the day of
\* the month and of the week it meets: what it returns is the least match.
NoMatchSkipped ==
    result = NoMinute =>
        \A t \in after + 1 .. minute - 1 : t < Limit => ~Matches(sched, t)

\* A schedule that some minute matches never gets a next run that does not
\* match it.  The comment on the fallback of NextAfter says that the fallback
\* should not happen for valid schedules.
NeverFallsBack ==
    result # NoMinute =>
        \/ Matches(sched, result)
        \/ \A t \in 0 .. Midnight(DayNumber(4, 1, 1)) : ~Matches(sched, t)
=============================================================================
