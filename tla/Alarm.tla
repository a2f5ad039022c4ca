-------------------------------- MODULE Alarm --------------------------------
(***************************************************************************)
(* alarm_t (ticker-core.hh:454-497) and its periodical_job                 *)
(* (ticker-periodical-job.hh): a job that rings on a day its anchor names, *)
(* again and again.                                                        *)
(*                                                                         *)
(* The wheel is that of module Timer, reduced here to the slot of the one  *)
(* alarm: the runner launches it when its time has come, and reads the     *)
(* clock later, for the time point it puts the alarm back with.            *)
(***************************************************************************)
EXTENDS Calendar

CONSTANTS
    Jobs,     \* the alarms that may be built
    Starts,   \* the times at which the model may begin
    MaxTime,  \* bound: the clock stops here
    MaxLag    \* bound: ticks between a due alarm and the runner's next step

\* The anchors whose enum value is a number of months.
AnchorMonths ==
    [Month |-> 1, TwoMonth |-> 2, Quarter |-> 3, FourMonth |-> 4, FiveMonth |-> 5,
     SixMonth |-> 6, SevenMonth |-> 7, EightMonth |-> 8, NineMonth |-> 9,
     TenMonth |-> 10, ElevenMonth |-> 11, Year |-> 12]
PeriodAnchors == DOMAIN AnchorMonths
ThirdAnchors == {"FirstThird", "MiddleThird", "LastThird"}
WeekAnchors == {"WeekInMonth", "WeekInYear"}
DayAnchors == {"DayInYear", "Week"}
\* Those for which no time point is computed.
NoDayAnchors == {"Nothing", "Dummy00000", "Dummy00001", "Dummy00009"}

ASSUME JobsAssumption ==
    Jobs \subseteq [anchor  : PeriodAnchors \cup ThirdAnchors \cup WeekAnchors
                                \cup DayAnchors \cup NoDayAnchors,
                    ordinal : Nat, offset : Int]
ASSUME ClockAssumption == MaxTime \in Nat /\ MaxLag \in Nat /\ Starts \subseteq Nat

\* time_point(): the epoch, long before the model begins.
Epoch == -1

VARIABLES
    now,      \* Clock::now()
    job,      \* the alarm's anchor, ordinal and offset
    last_pt,  \* its last_pt
    slot,     \* the time point it is or was last in the wheel for
    pc,       \* unbuilt, armed in the wheel, or ringing: out of it
    lag       \* ticks the runner is late by

vars == <<now, job, last_pt, slot, pc, lag>>

-----------------------------------------------------------------------------
(* periodical_job::next_time_point().                                       *)

\* Mutant: the day itself counts as still to come.
DayAfterStrict(tm, day, delta) ==
    [tm EXCEPT !.mon = IF tm.mday > day THEN @ + delta ELSE @, !.mday = day]

\* Mutant: the months are added in any case.
DayAfterAlways(tm, day, delta) ==
    [tm EXCEPT !.mon = @ + delta, !.mday = day]

\* A day reached is a day past: the next one is months away.
DayAfter(tm, day, delta) ==
    [tm EXCEPT !.mon = IF tm.mday >= day THEN @ + delta ELSE @, !.mday = day]

\* A month later, from what mktime() made of the tm.
NextMonth(pt) == LET tm == LocalTime(pt) IN MkTime([tm EXCEPT !.mon = @ + 1])

\* Month, TwoMonth, ... Year.
PeriodPoint(j, at) ==
    LET tm    == LocalTime(at)
        delta == j.ordinal * AnchorMonths[j.anchor]
        pt    == IF j.offset > 0 THEN MkTime(DayAfter(tm, j.offset, delta))
                 ELSE IF j.anchor # "Year" THEN LastDayAtMonth(tm, -j.offset, delta)
                 ELSE LastDayAtYear(tm, -j.offset)
    IN  IF pt <= at THEN NextMonth(pt) ELSE pt

\* Mutant: the last third begins with the 21st.
ThirdDayOffByOne(j) ==
    CASE j.anchor = "FirstThird"  -> IF j.offset > 0 THEN j.offset ELSE 10 + j.offset
      [] j.anchor = "MiddleThird" -> IF j.offset > 0 THEN 10 + j.offset ELSE 20 + j.offset
      [] j.anchor = "LastThird"   -> 20 + j.offset

\* The day of the month of the anchors that count from the first, the tenth
\* or the twentieth, or back from the tenth or the twentieth.
ThirdDay(j) ==
    CASE j.anchor = "FirstThird"  -> IF j.offset > 0 THEN j.offset ELSE 11 + j.offset
      [] j.anchor = "MiddleThird" -> IF j.offset > 0 THEN 10 + j.offset ELSE 21 + j.offset
      [] j.anchor = "LastThird"   -> 20 + j.offset

\* Mutant: counted back from the first of a month too far.
LastThirdBackTooFar(j, at) == LastDayAtMonth(LocalTime(at), -j.offset, j.ordinal + 1)

\* LastThirdOfMonth with a negative offset.
LastThirdBack(j, at) ==
    LET tm   == LocalTime(at)
        back == -j.offset
        tmp  == LocalTime(LastDayAtMonth(tm, back, j.ordinal - 1))
    IN  IF tmp.mday >= back THEN LastDayAtMonth(tm, back, j.ordinal)
                            ELSE MkTime([tmp EXCEPT !.mday = @ - back])

ThirdPoint(j, at, last) ==
    LET pt == IF j.anchor = "LastThird" /\ j.offset <= 0
              THEN LastThirdBack(j, at)
              ELSE MkTime(DayAfter(LocalTime(at), ThirdDay(j), j.ordinal))
    IN  IF j.anchor = "LastThird" /\ pt < last THEN NextMonth(pt) ELSE pt

\* The weekday j.ordinal of week j.offset, counted from the time `first`.  A
\* week that begins after that weekday counts as one.
WeekFrom(j, first) ==
    LET wday  == Weekday(first)
        early == wday < j.ordinal
        days  == IF early THEN j.ordinal - wday ELSE j.ordinal + 7 - wday
        weeks == IF early THEN j.offset - 1 ELSE j.offset - 2
    IN  first + Days(days) + (IF weeks > 0 THEN Days(7 * weeks) ELSE 0)

\* With an offset below 1 the weeks are counted back from a default time_point.
WeekPoint(j, at) ==
    LET tm == LocalTime(at)
    IN  IF j.offset <= 0 THEN Epoch
        ELSE IF j.anchor = "WeekInMonth" THEN WeekFrom(j, MkTime([tm EXCEPT !.mday = 1]))
        ELSE WeekFrom(j, MkTime([tm EXCEPT !.mday = 1, !.mon = 12 * (@ \div 12)]))

DayInYearPoint(j, at) ==
    LET t == IF j.offset > 0 THEN at ELSE LastDayAtYear(LocalTime(at), -j.offset)
        n == IF j.offset > 0 THEN j.offset ELSE -j.offset
    IN  t + Days(IF YearDay(t) > n THEN n - Weekday(t)
                                   ELSE j.ordinal + YearDay(t) + 1 - Weekday(t))

WeekdayPoint(j, at) ==
    LET wday == Weekday(at)
        day  == IF j.offset > 0 THEN j.offset ELSE 7 + j.offset
    IN  at + Days(IF wday > day THEN wday - day ELSE day - wday + 7)

NextTimePoint(j, last, at) ==
    IF at < last THEN last
    ELSE CASE j.anchor \in PeriodAnchors -> PeriodPoint(j, at)
           [] j.anchor \in ThirdAnchors  -> ThirdPoint(j, at, last)
           [] j.anchor \in WeekAnchors   -> WeekPoint(j, at)
           [] j.anchor = "DayInYear"     -> DayInYearPoint(j, at)
           [] j.anchor = "Week"          -> WeekdayPoint(j, at)
           [] j.anchor \in NoDayAnchors  -> Epoch

-----------------------------------------------------------------------------
Init == /\ now \in Starts
        /\ job \in Jobs
        /\ last_pt = now /\ slot = now
        /\ pc = "unbuilt"
        /\ lag = 0

\* build(): the constructor of the job reads the clock into last_pt.
Build ==
    /\ pc = "unbuilt"
    /\ slot' = NextTimePoint(job, now, now)
    /\ last_pt' = slot'
    /\ pc' = "armed"
    /\ UNCHANGED <<now, job, lag>>

\* The runner takes the alarm out of its slot and launches it.
Ring ==
    /\ pc = "armed" /\ slot <= now
    /\ pc' = "ringing" /\ lag' = 0
    /\ UNCHANGED <<now, job, last_pt, slot>>

\* The loop over recurred_jobs: next_time_point(Clock::now()), add_task().
PutBack ==
    /\ pc = "ringing"
    /\ slot' = NextTimePoint(job, last_pt, now)
    /\ last_pt' = slot'
    /\ pc' = "armed" /\ lag' = 0
    /\ UNCHANGED <<now, job>>

Tick ==
    /\ now < MaxTime
    /\ LET late == pc = "ringing" \/ (pc = "armed" /\ slot <= now)
       IN  /\ late => lag < MaxLag
           /\ lag' = IF late THEN lag + 1 ELSE 0
    /\ now' = now + 1
    /\ UNCHANGED <<job, last_pt, slot, pc>>

\* The bound of the model.
TimeUp == now = MaxTime /\ UNCHANGED vars

Next == Build \/ Ring \/ PutBack \/ Tick \/ TimeUp

Spec == Init /\ [][Next]_vars

-----------------------------------------------------------------------------
\* Every variable has its type; the job remembers the time point it is armed
\* for, so that next_time_point() called before then returns it again.
TypeOK == /\ now \in Nat /\ job \in Jobs
          /\ slot \in Nat \cup {Epoch}
          /\ pc \in {"unbuilt", "armed", "ringing"}
          /\ lag \in 0..MaxLag
          /\ pc # "unbuilt" => last_pt = slot

\* The days an anchor names, in the words of ticker-anchors.hh:21-36: the
\* offset-th day of the month or of a third of it, from its start or before its
\* end.  Days are counted from 1, as tests/periodical_job.cc does, so that an
\* offset of 0, the first of the anchors' "0..9", names none.
Named(j, t) ==
    LET tm == LocalTime(t)
    IN  /\ j.offset # 0
        /\ tm.mday = CASE j.anchor = "FirstThird"  -> IF j.offset > 0 THEN j.offset
                                                                      ELSE 11 + j.offset
                       [] j.anchor = "MiddleThird" -> IF j.offset > 0 THEN 10 + j.offset
                                                                      ELSE 21 + j.offset
                       [] j.anchor = "LastThird" /\ j.offset > 0 -> 20 + j.offset
                       [] OTHER -> IF j.offset > 0 THEN j.offset
                                                   ELSE DaysIn(tm.mon) + 1 + j.offset

\* The alarms that ring once in so many months.
EveryFewMonths == job.anchor \in PeriodAnchors \cup ThirdAnchors

\* Days from the first of the month or the year of t to t.
DaysInto(j, t) == IF j.anchor = "WeekInMonth" THEN LocalTime(t).mday - 1 ELSE YearDay(t)

\* The week of a month or a year that an anchor names, ticker-anchors.hh:39-40
\* and ticker-periodical-job.hh:144-145.  Weeks begin on Sunday; a first week
\* that begins after the weekday has none, and the second stands in for it.
NamedWeek(j, t) ==
    LET first == Weekday(t - Days(DaysInto(j, t)))
        week  == (DaysInto(j, t) + first) \div 7 + 1
    IN  /\ Weekday(t) = j.ordinal
        /\ week = IF j.offset = 1 /\ first > j.ordinal THEN 2 ELSE j.offset

\* A known deviation, ticker-periodical-job.hh:154 and 202: in a month or a year
\* that begins on the very weekday, week 1 is passed over for week 2.
SkipsTheFirst(j, t) == j.offset = 1 /\ Weekday(t) = j.ordinal /\ DaysInto(j, t) = 7

InItsWeek(j, t) == NamedWeek(j, t) \/ SkipsTheFirst(j, t)

\* An alarm rings on a day its anchor names, through short months, leap years
\* and the ends of years, however late the runner put it back; an alarm of week
\* 1 rings on the 8th where the 1st was the day.
RingsOnItsDay ==
    pc = "armed" => /\ EveryFewMonths => Named(job, slot)
                    /\ job.anchor \in WeekAnchors => InItsWeek(job, slot)

MonthsBetween ==
    job.ordinal * (IF job.anchor \in PeriodAnchors THEN AnchorMonths[job.anchor] ELSE 1)
\* No period is left out and none is rung in twice, though the next time point
\* is computed from the clock and not from the one before.
OncePerPeriod ==
    [][PutBack /\ EveryFewMonths => MonthOf(slot') = MonthOf(slot) + MonthsBetween]_vars

\* An alarm that rings every month is armed for the first of its days to come:
\* today's counts as past, and no other is passed over.
FirstOfItsDays ==
    [][(Build \/ PutBack) /\ EveryFewMonths /\ MonthsBetween = 1
        => \A n \in (DayNumber(now) + 1)..(DayNumber(slot') - 1) : ~Named(job, Days(n))]_vars

=============================================================================
