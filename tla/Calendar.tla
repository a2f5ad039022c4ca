------------------------------- MODULE Calendar -------------------------------
(***************************************************************************)
(* The broken-down time the alarms are computed with: std::mktime() and    *)
(* std::localtime() as ticker-chrono.hh uses them (525-540), and the two   *)
(* functions of its own that count days back from the end of a month or a  *)
(* year (644-719).                                                         *)
(*                                                                         *)
(* A time is a number of ticks since January 1st of FirstYear.  A std::tm  *)
(* is [mon, mday, tick]: the month, counted from that same January, so     *)
(* that tm_year and tm_mon are one number and a month past 11 is one of    *)
(* the next year; the day; and the time of the day.  The zone has no       *)
(* daylight saving time.                                                   *)
(***************************************************************************)
EXTENDS Integers

CONSTANTS
    FirstYear,     \* the first year of the model
    FirstWeekday,  \* the tm_wday of its January 1st
    TicksPerDay    \* seconds in a day, scaled down

ASSUME CalendarAssumption == /\ FirstYear \in Nat /\ FirstWeekday \in 0..6
                             /\ TicksPerDay \in Nat \ {0}

IsLeap(year) == year % 4 = 0 /\ (year % 100 # 0 \/ year % 400 = 0)

DaysIn(mon) == CASE mon % 12 = 1 -> IF IsLeap(FirstYear + mon \div 12) THEN 29 ELSE 28
                 [] mon % 12 \in {3, 5, 8, 10} -> 30
                 [] OTHER -> 31

\* The leap years before a year, from the year 0 on.
LeapsBefore(year) == (year + 3) \div 4 - (year + 99) \div 100 + (year + 399) \div 400

\* The days of a year before each of its months, if it is not a leap year.
DaysBefore == <<0, 31, 59, 90, 120, 151, 181, 212, 243, 273, 304, 334>>

\* The day number of the first of a month.
FirstDay(mon) ==
    LET year == FirstYear + mon \div 12
    IN  365 * (mon \div 12) + LeapsBefore(year) - LeapsBefore(FirstYear)
          + DaysBefore[(mon % 12) + 1] + (IF mon % 12 > 1 /\ IsLeap(year) THEN 1 ELSE 0)

DayNumber(t) == t \div TicksPerDay
Weekday(t) == (FirstWeekday + DayNumber(t)) % 7

\* The month a time is in.  No month is shorter than 28 or longer than 31 days.
MonthOf(t) == CHOOSE mon \in (DayNumber(t) \div 31)..(DayNumber(t) \div 28) :
                  FirstDay(mon) <= DayNumber(t) /\ DayNumber(t) < FirstDay(mon) + DaysIn(mon)

LocalTime(t) == [mon  |-> MonthOf(t),
                 mday |-> DayNumber(t) - FirstDay(MonthOf(t)) + 1,
                 tick |-> t % TicksPerDay]

\* A day that the month does not have counts on from its first: February 31st
\* is a day in March.
MkTime(tm) == (FirstDay(tm.mon) + tm.mday - 1) * TicksPerDay + tm.tick

YearDay(t) == DayNumber(t) - FirstDay(12 * (MonthOf(t) \div 12))

Days(n) == n * TicksPerDay

\* last_day_at_this_month(): the day_offset-th day before the first of the
\* month that is month_delta months on.
LastDayAtMonth(tm, day_offset, month_delta) ==
    IF day_offset \notin 1..31 THEN MkTime(tm)
    ELSE MkTime([tm EXCEPT !.mday = 1, !.mon = @ + month_delta]) - Days(day_offset)

\* last_day_at_this_year(): the same before January 1st of the next year.
LastDayAtYear(tm, day_offset) ==
    IF day_offset \notin 1..366 THEN MkTime(tm)
    ELSE MkTime([tm EXCEPT !.mday = 1, !.mon = 12 * (@ \div 12 + 1)]) - Days(day_offset)
===============================================================================
