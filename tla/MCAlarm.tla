------------------------------- MODULE MCAlarm -------------------------------
(* Alarms and times for the runs of Alarm: the anchors and offsets for which *)
(* they keep to the calendar.                                                *)
EXTENDS Alarm

J(anchor, ordinal, offset) == [anchor |-> anchor, ordinal |-> ordinal, offset |-> offset]

DependableJobs ==
    {J("Month", 1, 3), J("Month", 1, 28), J("Month", 2, 10), J("TwoMonth", 1, 27),
     J("Quarter", 1, 1), J("ElevenMonth", 1, 15), J("Year", 1, 23),
     J("FirstThird", 1, 3), J("FirstThird", 1, -1), J("MiddleThird", 1, 9),
     J("MiddleThird", 2, -10), J("LastThird", 1, 8),
     J("WeekInMonth", 1, 1), J("WeekInMonth", 5, 3), J("WeekInYear", 1, 30)}

\* The afternoons of seven days from December 2022, all parts of a month among
\* them.  The calendar begins with 2021.
DependableStarts == {Days(700 + 67 * n) + 1 : n \in 0..6}

Date(year, month, day) == MkTime([mon |-> 12 * (year - FirstYear) + month - 1,
                                  mday |-> day, tick |-> 0])
A == Date(2021, 8, 5)
TestedDates ==
    {<<A, J("Month", 1, 3), Date(2021, 9, 3)>>, <<A, J("Month", 1, 23), Date(2021, 8, 23)>>,
     <<A, J("Month", 1, -3), Date(2021, 8, 29)>>, <<A, J("Month", 1, -15), Date(2021, 8, 17)>>,
     <<Date(2021, 8, 17), J("Month", 1, -15), Date(2021, 9, 17)>>,
     <<A, J("Year", 1, 3), Date(2022, 8, 3)>>, <<A, J("Year", 1, 23), Date(2021, 8, 23)>>,
     <<A, J("Year", 1, -3), Date(2021, 12, 29)>>,
     <<A, J("Year", 1, -15), Date(2021, 12, 17)>>,
     <<Date(2021, 8, 18), J("Year", 1, -15), Date(2021, 12, 17)>>,
     <<A, J("FirstThird", 1, 3), Date(2021, 9, 3)>>,
     <<A, J("FirstThird", 1, 8), Date(2021, 8, 8)>>,
     <<A, J("FirstThird", 1, -3), Date(2021, 8, 8)>>,
     <<A, J("FirstThird", 1, -7), Date(2021, 9, 4)>>,
     <<Date(2021, 8, 15), J("MiddleThird", 1, 3), Date(2021, 9, 13)>>,
     <<Date(2021, 8, 15), J("MiddleThird", 1, 8), Date(2021, 8, 18)>>,
     <<Date(2021, 8, 15), J("MiddleThird", 1, -3), Date(2021, 8, 18)>>,
     <<Date(2021, 8, 15), J("MiddleThird", 1, -7), Date(2021, 9, 14)>>,
     <<Date(2021, 8, 25), J("LastThird", 1, 3), Date(2021, 9, 23)>>,
     <<Date(2021, 8, 25), J("LastThird", 1, 8), Date(2021, 8, 28)>>,
     <<Date(2021, 8, 25), J("LastThird", 1, -3), Date(2021, 8, 29)>>,
     <<Date(2021, 8, 25), J("LastThird", 1, -9), Date(2021, 9, 23)>>,
     <<Date(2021, 8, 22), J("LastThird", 1, -9), Date(2021, 8, 23)>>}

\* next_time_point() gives the days that tests/periodical_job.cc:52-98 expects of
\* it, each from a time and for an alarm of the test's own.  It does not depend on
\* the state: TLC evaluates it before the alarm of the run is built.
AgreesWithTests ==
    pc = "unbuilt" => \A c \in TestedDates : NextTimePoint(c[2], c[1], c[1]) = c[3]
==============================================================================
