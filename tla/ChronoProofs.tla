---------------------------- MODULE ChronoProofs ----------------------------
(***************************************************************************)
(* Proofs about Alarm, for any calendar, times and lags, and about Iom in  *)
(* any calendar, for any time points, with the units of the code.          *)
(***************************************************************************)
EXTENDS Alarm, Iom, SequenceTheorems, WellFoundedInduction, TLAPS

-----------------------------------------------------------------------------
(* The calendar.                                                            *)

\* The least number of a set.
LEMMA LeastOf ==
    ASSUME NEW S \in SUBSET Nat, S # {}
    PROVE  \E x \in S : \A y \in S : x <= y
<1>1. PICK x \in S : \A y \in S : ~(<<y, x>> \in OpToRel(<, Nat))
  BY NatLessThanWellFounded, WFMin
<1>2. ASSUME NEW y \in S, y < x PROVE FALSE
  <2>1. <<y, x>> \in Nat \X Nat
    BY Zenon
  <2>2. <<y, x>>[1] < <<y, x>>[2]
    BY <1>2
  <2>3. <<y, x>> \in OpToRel(<, Nat)
    BY <2>1, <2>2, Zenon DEF OpToRel
  <2> QED
    BY <2>3, <1>1, Zenon
<1> QED
  BY <1>2

\* A year is a leap year longer than 365 days.
LEMMA LeapsAdd ==
    ASSUME NEW year \in Nat
    PROVE  /\ LeapsBefore(year) \in Int
           /\ LeapsBefore(year + 1) = LeapsBefore(year) + (IF IsLeap(year) THEN 1 ELSE 0)
BY DEF LeapsBefore, IsLeap

\* The years up to another have at most one leap day each.
LEMMA LeapsBound ==
    ASSUME NEW a \in Nat, NEW n \in Nat
    PROVE  /\ LeapsBefore(a) \in Int /\ LeapsBefore(a + n) \in Int
           /\ LeapsBefore(a) <= LeapsBefore(a + n)
           /\ LeapsBefore(a + n) <= LeapsBefore(a) + n
BY DEF LeapsBefore

LEMMA MonthLengths ==
    ASSUME NEW mon \in Nat
    PROVE  DaysIn(mon) \in 28..31
BY DEF DaysIn

\* The month after a month, in the same year or the next.
LEMMA MonthAfter ==
    ASSUME NEW mon \in Nat
    PROVE  /\ mon % 12 \in 0..11 /\ mon \div 12 \in Nat
           /\ mon % 12 < 11 => /\ (mon + 1) % 12 = (mon % 12) + 1
                               /\ (mon + 1) \div 12 = mon \div 12
           /\ mon % 12 = 11 => /\ (mon + 1) % 12 = 0
                               /\ (mon + 1) \div 12 = mon \div 12 + 1
OBVIOUS

\* The table of the days before each month of a year.
LEMMA TableOfDays ==
    ASSUME NEW m \in 0..11
    PROVE  /\ DaysBefore[m + 1] \in Nat
           /\ 28 * m <= DaysBefore[m + 1] /\ DaysBefore[m + 1] <= 31 * m
           /\ m > 1 => 28 * m + 3 <= DaysBefore[m + 1] /\ DaysBefore[m + 1] < 31 * m
           /\ m < 11 => DaysBefore[m + 2] = DaysBefore[m + 1]
                                             + (IF m = 1 THEN 28
                                                ELSE IF m \in {3, 5, 8, 10} THEN 30 ELSE 31)
           /\ DaysBefore[1] = 0 /\ DaysBefore[12] = 334
<1>1. m \in {0, 1, 2, 3, 4, 5, 6, 7, 8, 9, 10, 11}
  OBVIOUS
<1> QED
  BY <1>1 DEF DaysBefore

\* The day numbers of the months add up their lengths.
LEMMA FirstDays ==
    ASSUME NEW mon \in Nat
    PROVE  /\ FirstDay(0) = 0
           /\ FirstDay(mon) \in Nat
           /\ FirstDay(mon + 1) = FirstDay(mon) + DaysIn(mon)
           /\ 28 * mon <= FirstDay(mon) /\ FirstDay(mon) <= 31 * mon
<1> DEFINE y == mon \div 12
           m == mon % 12
           year == FirstYear + y
<1>1. /\ mon = 12 * y + m /\ m \in 0..11 /\ y \in Nat
      /\ FirstYear \in Nat /\ year \in Nat
  BY CalendarAssumption
<1>2. /\ LeapsBefore(FirstYear) \in Int /\ LeapsBefore(year) \in Int
      /\ LeapsBefore(FirstYear) <= LeapsBefore(year)
      /\ LeapsBefore(year) <= LeapsBefore(FirstYear) + y
  BY <1>1, LeapsBound
<1>3. LeapsBefore(year + 1) = LeapsBefore(year) + (IF IsLeap(year) THEN 1 ELSE 0)
  BY <1>1, LeapsAdd
<1>4. FirstDay(mon) = 365 * y + LeapsBefore(year) - LeapsBefore(FirstYear)
                        + DaysBefore[m + 1] + (IF m > 1 /\ IsLeap(year) THEN 1 ELSE 0)
  BY DEF FirstDay
<1>5. DaysIn(mon) = IF m = 1 THEN (IF IsLeap(year) THEN 29 ELSE 28)
                    ELSE IF m \in {3, 5, 8, 10} THEN 30 ELSE 31
  BY DEF DaysIn
<1>6. FirstDay(mon + 1) = FirstDay(mon) + DaysIn(mon)
  <2>1. CASE m < 11
    <3>1. (mon + 1) % 12 = m + 1 /\ (mon + 1) \div 12 = y
      BY <2>1, MonthAfter
    <3>2. FirstDay(mon + 1) = 365 * y + LeapsBefore(year) - LeapsBefore(FirstYear)
                        + DaysBefore[m + 2] + (IF m + 1 > 1 /\ IsLeap(year) THEN 1 ELSE 0)
      BY <1>1, <3>1 DEF FirstDay
    <3> QED
      BY <1>1, <1>2, <1>4, <1>5, <2>1, <3>2, TableOfDays
  <2>2. CASE m = 11
    <3>1. (mon + 1) % 12 = 0 /\ (mon + 1) \div 12 = y + 1
      BY <2>2, MonthAfter
    <3>2. FirstYear + (y + 1) = year + 1
      BY <1>1
    <3>3. FirstDay(mon + 1) = 365 * (y + 1) + LeapsBefore(year + 1)
                                - LeapsBefore(FirstYear) + DaysBefore[1]
      BY <1>1, <1>2, <1>3, <3>1, <3>2, TableOfDays DEF FirstDay
    <3> QED
      BY <1>1, <1>2, <1>3, <1>4, <1>5, <2>2, <3>3, TableOfDays
  <2> QED
    BY <1>1, <2>1, <2>2
<1>7. 28 * mon <= FirstDay(mon) /\ FirstDay(mon) <= 31 * mon /\ FirstDay(mon) \in Nat
  <2>1. /\ DaysBefore[m + 1] \in Nat
        /\ 28 * m <= DaysBefore[m + 1] /\ DaysBefore[m + 1] <= 31 * m
        /\ m > 1 => DaysBefore[m + 1] < 31 * m
    BY <1>1, TableOfDays
  <2> HIDE DEF y, m, year
  <2> QED
    BY <1>1, <1>2, <1>4, <2>1
<1>8. FirstDay(0) = 0
  <2>1. 0 \div 12 = 0 /\ 0 % 12 = 0 /\ FirstYear + 0 = FirstYear /\ DaysBefore[1] = 0
    BY CalendarAssumption, TableOfDays
  <2> QED
    BY <1>2, <2>1 DEF FirstDay
<1> QED
  BY <1>6, <1>7, <1>8

LEMMA FirstDayBounds ==
    ASSUME NEW mon \in Nat
    PROVE  /\ FirstDay(mon) \in Nat /\ DaysIn(mon) \in Nat /\ DaysIn(mon) >= 28
           /\ 28 * mon <= FirstDay(mon) /\ FirstDay(mon) <= 31 * mon
<1>1. FirstDay(mon) \in Nat /\ 28 * mon <= FirstDay(mon) /\ FirstDay(mon) <= 31 * mon
  BY FirstDays
<1>2. DaysIn(mon) \in 28..31
  BY MonthLengths
<1> QED
  BY <1>1, <1>2

\* The months of a later month begin later.
LEMMA MonthsInOrder ==
    ASSUME NEW a \in Nat, NEW b \in Nat, a < b
    PROVE  FirstDay(a) + DaysIn(a) <= FirstDay(b)
<1> DEFINE Bad == {m \in Nat : a < m /\ FirstDay(m) < FirstDay(a + 1)}
<1>1. FirstDay(a + 1) = FirstDay(a) + DaysIn(a)
  BY FirstDays
<1>2. FirstDay(a + 1) \in Nat /\ FirstDay(b) \in Nat
  BY FirstDayBounds
<1>3. SUFFICES ASSUME b \in Bad PROVE FALSE
  BY <1>1, <1>2
<1>4. PICK m \in Bad : \A n \in Bad : m <= n
  BY <1>3, LeastOf
<1>5. m \in Nat /\ a < m /\ m # a + 1
  BY <1>2, <1>4
<1>6. m - 1 \in Nat /\ a < m - 1 /\ m - 1 \notin Bad /\ m = (m - 1) + 1
  BY <1>4, <1>5
<1>7. FirstDay(m) = FirstDay(m - 1) + DaysIn(m - 1)
  BY <1>6, FirstDays
<1>8. ~(FirstDay(m - 1) < FirstDay(a + 1))
  BY <1>6
<1> QED
  BY <1>2, <1>4, <1>6, <1>7, <1>8, FirstDayBounds

\* The month of a day.
InMonth(n, mon) == FirstDay(mon) <= n /\ n < FirstDay(mon) + DaysIn(mon)

LEMMA MonthOfDay ==
    ASSUME NEW n \in Nat
    PROVE  /\ \E mon \in (n \div 31)..(n \div 28) : InMonth(n, mon)
           /\ \A mon, mon2 \in Nat : InMonth(n, mon) /\ InMonth(n, mon2) => mon = mon2
<1> DEFINE Later == {m \in Nat : n < FirstDay(m)}
<1>1. n + 1 \in Later
  BY FirstDayBounds
<1>2. PICK k \in Later : \A m \in Later : k <= m
  BY <1>1, LeastOf
<1>3. k # 0
  BY <1>2, FirstDays
<1>4. k - 1 \in Nat /\ ~(n < FirstDay(k - 1)) /\ (k - 1) + 1 = k
  BY <1>2, <1>3
<1>5. /\ FirstDay(k - 1) \in Nat /\ DaysIn(k - 1) \in Nat
      /\ FirstDay(k) = FirstDay(k - 1) + DaysIn(k - 1)
      /\ 28 * (k - 1) <= FirstDay(k - 1) /\ FirstDay(k) <= 31 * k
  BY <1>4, FirstDays, FirstDayBounds
<1>6. InMonth(n, k - 1)
  BY <1>2, <1>4, <1>5 DEF InMonth
<1>7. k - 1 \in (n \div 31)..(n \div 28)
  BY <1>2, <1>4, <1>5
<1>8. ASSUME NEW mon \in Nat, NEW mon2 \in Nat, InMonth(n, mon), InMonth(n, mon2)
      PROVE  mon = mon2
  <2>1. /\ FirstDay(mon) \in Nat /\ FirstDay(mon2) \in Nat
        /\ DaysIn(mon) \in Nat /\ DaysIn(mon2) \in Nat
    BY FirstDayBounds
  <2>2. ~(mon < mon2) /\ ~(mon2 < mon)
    BY <1>8, <2>1, MonthsInOrder DEF InMonth
  <2> QED
    BY <2>2
<1> QED
  BY <1>6, <1>7, <1>8

-----------------------------------------------------------------------------
(* Times and what they are in days and months.                              *)

\* A time on day n is n whole days and less than one more.
LEMMA Division ==
    ASSUME NEW n \in Nat, NEW k \in 0..(TicksPerDay - 1)
    PROVE  /\ n * TicksPerDay + k \in Nat
           /\ DayNumber(n * TicksPerDay + k) = n
           /\ (n * TicksPerDay + k) % TicksPerDay = k
<1> DEFINE x == n * TicksPerDay + k
           q == x \div TicksPerDay
           r == x % TicksPerDay
<1>1. TicksPerDay \in Nat \ {0}
  BY CalendarAssumption
<1>2. n * TicksPerDay \in Nat /\ x \in Nat
  BY <1>1
<1>3. x = TicksPerDay * q + r /\ q \in Nat /\ r \in 0..(TicksPerDay - 1)
  BY <1>1, <1>2
<1> HIDE DEF q, r
<1>4. x = n * TicksPerDay + k
  OBVIOUS
<1> HIDE DEF x
<1>5. ~(q >= n + 1)
  <2> SUFFICES ASSUME q >= n + 1 PROVE FALSE
    OBVIOUS
  <2>1. TicksPerDay * q >= TicksPerDay * (n + 1)
    BY <1>1, <1>3
  <2> QED
    BY <1>1, <1>2, <1>3, <1>4, <2>1
<1>6. ~(n >= q + 1)
  <2> SUFFICES ASSUME n >= q + 1 PROVE FALSE
    OBVIOUS
  <2>1. TicksPerDay * n >= TicksPerDay * (q + 1)
    BY <1>1, <1>3
  <2> QED
    BY <1>1, <1>2, <1>3, <1>4, <2>1
<1>7. q = n
  BY <1>3, <1>5, <1>6
<1>8. r = k
  BY <1>1, <1>2, <1>3, <1>4, <1>7
<1> QED
  BY <1>2, <1>7, <1>8 DEF x, q, r, DayNumber

LEMMA DayNumbers ==
    ASSUME NEW t \in Nat
    PROVE  /\ DayNumber(t) \in Nat /\ t % TicksPerDay \in 0..(TicksPerDay - 1)
           /\ t = DayNumber(t) * TicksPerDay + (t % TicksPerDay)
<1>1. TicksPerDay \in Nat \ {0}
  BY CalendarAssumption
<1> DEFINE q == t \div TicksPerDay
           r == t % TicksPerDay
<1>2. q \in Nat /\ r \in 0..(TicksPerDay - 1) /\ t = TicksPerDay * q + r
  BY <1>1
<1> HIDE DEF q, r
<1>3. TicksPerDay * q = q * TicksPerDay
  BY <1>1, <1>2
<1>4. q \in Nat /\ r \in 0..(TicksPerDay - 1) /\ t = q * TicksPerDay + r
  BY <1>2, <1>3
<1> QED
  BY <1>4, Zenon DEF q, r, DayNumber

\* A time of an earlier day is the earlier time.
LEMMA WholeDays ==
    ASSUME NEW a \in Nat, NEW b \in Nat, a < b,
           NEW i \in 0..(TicksPerDay - 1), NEW k \in Nat
    PROVE  a * TicksPerDay + i < b * TicksPerDay + k
<1>1. TicksPerDay \in Nat \ {0}
  BY CalendarAssumption
<1>2. PICK d \in Nat : b = a + 1 + d
  <2>1. b - (a + 1) \in Nat /\ b = a + 1 + (b - (a + 1))
    OBVIOUS
  <2> QED
    BY <2>1
<1>3. b * TicksPerDay = a * TicksPerDay + TicksPerDay + d * TicksPerDay
  BY <1>1, <1>2
<1>4. a * TicksPerDay \in Nat /\ d * TicksPerDay \in Nat
  BY <1>1
<1> QED
  BY <1>1, <1>3, <1>4

\* Later days have later times.
LEMMA DaysInOrder ==
    ASSUME NEW s \in Nat, NEW t \in Nat
    PROVE  /\ s <= t => DayNumber(s) <= DayNumber(t)
           /\ DayNumber(s) < DayNumber(t) => s < t
<1> DEFINE a == DayNumber(s)  b == DayNumber(t)
           i == s % TicksPerDay  k == t % TicksPerDay
<1>1. /\ a \in Nat /\ i \in 0..(TicksPerDay - 1) /\ s = a * TicksPerDay + i
      /\ b \in Nat /\ k \in 0..(TicksPerDay - 1) /\ t = b * TicksPerDay + k
  BY DayNumbers, Zenon
<1> HIDE DEF a, b, i, k
<1>2. TicksPerDay \in Nat \ {0}
  BY CalendarAssumption
<1>3. i \in Nat /\ k \in Nat
  BY <1>1, <1>2
<1>4. a < b => s < t
  BY <1>1, <1>3, WholeDays
<1>5. b < a => t < s
  BY <1>1, <1>3, WholeDays
<1>6. s <= t => a <= b
  BY <1>1, <1>5
<1> QED
  BY <1>4, <1>6 DEF a, b

\* What localtime() makes of a time.
LEMMA LocalTimes ==
    ASSUME NEW t \in Nat
    PROVE  /\ MonthOf(t) \in Nat /\ InMonth(DayNumber(t), MonthOf(t))
           /\ LocalTime(t).mon = MonthOf(t)
           /\ LocalTime(t).mday = DayNumber(t) - FirstDay(MonthOf(t)) + 1
           /\ LocalTime(t).mday \in 1..DaysIn(MonthOf(t))
           /\ LocalTime(t).tick = t % TicksPerDay
           /\ LocalTime(t).tick \in 0..(TicksPerDay - 1)
<1>1. DayNumber(t) \in Nat /\ t % TicksPerDay \in 0..(TicksPerDay - 1)
  BY DayNumbers
<1>2. /\ MonthOf(t) \in (DayNumber(t) \div 31)..(DayNumber(t) \div 28)
      /\ InMonth(DayNumber(t), MonthOf(t))
  <2> DEFINE P(mon) == InMonth(DayNumber(t), mon)
  <2>1. \E mon \in (DayNumber(t) \div 31)..(DayNumber(t) \div 28) : P(mon)
    BY <1>1, MonthOfDay
  <2>2. MonthOf(t) = CHOOSE mon \in (DayNumber(t) \div 31)..(DayNumber(t) \div 28) : P(mon)
    BY DEF MonthOf, InMonth
  <2> HIDE DEF P
  <2>3. MonthOf(t) \in (DayNumber(t) \div 31)..(DayNumber(t) \div 28) /\ P(MonthOf(t))
    BY <2>1, <2>2
  <2> QED
    BY <2>3 DEF P
<1>3. MonthOf(t) \in Nat
  BY <1>1, <1>2
<1>4. FirstDay(MonthOf(t)) \in Nat /\ DaysIn(MonthOf(t)) \in Nat
  BY <1>3, FirstDayBounds
<1>5. DayNumber(t) - FirstDay(MonthOf(t)) + 1 \in 1..DaysIn(MonthOf(t))
  BY <1>1, <1>2, <1>4 DEF InMonth
<1> QED
  BY <1>1, <1>2, <1>3, <1>5 DEF LocalTime

\* What mktime() makes of a day that the month has, and back.
LEMMA MadeTimes ==
    ASSUME NEW mon \in Nat, NEW mday \in 1..DaysIn(mon),
           NEW tick \in 0..(TicksPerDay - 1),
           NEW tm, tm.mon = mon, tm.mday = mday, tm.tick = tick
    PROVE  /\ MkTime(tm) \in Nat
           /\ DayNumber(MkTime(tm)) = FirstDay(mon) + mday - 1
           /\ MonthOf(MkTime(tm)) = mon
           /\ LocalTime(MkTime(tm)).mday = mday
           /\ MkTime(tm) % TicksPerDay = tick
<1>1. FirstDay(mon) \in Nat /\ DaysIn(mon) \in Nat
  BY FirstDayBounds
<1> DEFINE n == FirstDay(mon) + mday - 1
<1>2. n \in Nat /\ InMonth(n, mon)
  BY <1>1 DEF InMonth
<1>3. MkTime(tm) = n * TicksPerDay + tick
  BY DEF MkTime
<1> HIDE DEF n
<1>4. /\ MkTime(tm) \in Nat /\ DayNumber(MkTime(tm)) = n /\ MkTime(tm) % TicksPerDay = tick
  BY <1>2, <1>3, Division
<1>5. MonthOf(MkTime(tm)) = mon
  BY <1>2, <1>4, LocalTimes, MonthOfDay
<1> QED
  BY <1>1, <1>4, <1>5, LocalTimes DEF n

\* A time is so many days after another of the same time of the day.
LEMMA DaysLater ==
    ASSUME NEW t \in Nat, NEW n \in Nat
    PROVE  /\ t + Days(n) \in Nat /\ (t + Days(n)) - Days(n) = t
           /\ DayNumber(t + Days(n)) = DayNumber(t) + n
<1> DEFINE r == t % TicksPerDay
           d == DayNumber(t)
<1>1. d \in Nat /\ r \in 0..(TicksPerDay - 1) /\ t = d * TicksPerDay + r
  BY DayNumbers, Zenon
<1>2. TicksPerDay \in Nat \ {0}
  BY CalendarAssumption
<1> HIDE DEF r, d
<1>3. d + n \in Nat /\ d * TicksPerDay \in Nat /\ n * TicksPerDay \in Nat
  BY <1>1, <1>2
<1>4. (d + n) * TicksPerDay = d * TicksPerDay + n * TicksPerDay
  BY <1>1, <1>2
<1>5. t + n * TicksPerDay = (d + n) * TicksPerDay + r
  BY <1>1, <1>2, <1>3, <1>4
<1>6. DayNumber((d + n) * TicksPerDay + r) = d + n
  BY <1>1, <1>3, Division
<1>7. t + n * TicksPerDay \in Nat /\ (t + n * TicksPerDay) - n * TicksPerDay = t
  BY <1>3
<1> QED
  BY <1>5, <1>6, <1>7 DEF Days, d

\* The day numbers of the weekdays go round.
LEMMA WeekdayLater ==
    ASSUME NEW t \in Nat, NEW n \in Nat
    PROVE  /\ Weekday(t) \in 0..6
           /\ Weekday(t + Days(n)) = (Weekday(t) + n) % 7
<1>1. DayNumber(t) \in Nat /\ DayNumber(t + Days(n)) = DayNumber(t) + n
  BY DayNumbers, DaysLater
<1>2. FirstWeekday \in Nat
  BY CalendarAssumption
<1> DEFINE d == FirstWeekday + DayNumber(t)
<1>3. d \in Nat /\ FirstWeekday + (DayNumber(t) + n) = d + n
  BY <1>1, <1>2
<1> HIDE DEF d
<1>4. d % 7 \in 0..6 /\ (d + n) % 7 = ((d % 7) + n) % 7
  BY <1>3
<1> QED
  BY <1>1, <1>3, <1>4 DEF Weekday, d

\* mktime() and localtime() are each other's inverse, for every time and for every
\* day that its month has: the months, the leap years and the days of the week
\* that the alarms count in leave no time out and none in twice.
THEOREM TimesAndDates ==
    /\ \A t \in Nat : MkTime(LocalTime(t)) = t
    /\ \A mon \in Nat : \A mday \in 1..DaysIn(mon), tick \in 0..(TicksPerDay - 1) :
          LET tm == [mon |-> mon, mday |-> mday, tick |-> tick]
          IN  MkTime(tm) \in Nat /\ LocalTime(MkTime(tm)) = tm
    /\ \A t \in Nat : Weekday(t + Days(1)) = (Weekday(t) + 1) % 7
<1>1. ASSUME NEW t \in Nat PROVE MkTime(LocalTime(t)) = t
  <2> DEFINE d == DayNumber(t)
             first == FirstDay(MonthOf(t))
  <2>1. /\ LocalTime(t).mon = MonthOf(t) /\ MonthOf(t) \in Nat
        /\ LocalTime(t).mday = d - first + 1 /\ LocalTime(t).tick = t % TicksPerDay
    BY LocalTimes
  <2>2. first \in Nat /\ d \in Nat
    BY <2>1, FirstDayBounds, DayNumbers
  <2>3. t = d * TicksPerDay + (t % TicksPerDay)
    BY DayNumbers
  <2>4. MkTime(LocalTime(t)) = (first + (d - first + 1) - 1) * TicksPerDay + (t % TicksPerDay)
    BY <2>1 DEF MkTime
  <2> HIDE DEF first, d
  <2>5. first + (d - first + 1) - 1 = d
    BY <2>2
  <2> QED
    BY <2>3, <2>4, <2>5, Zenon
<1>2. ASSUME NEW mon \in Nat, NEW mday \in 1..DaysIn(mon), NEW tick \in 0..(TicksPerDay - 1)
      PROVE  LET tm == [mon |-> mon, mday |-> mday, tick |-> tick]
             IN  MkTime(tm) \in Nat /\ LocalTime(MkTime(tm)) = tm
  <2> DEFINE tm == [mon |-> mon, mday |-> mday, tick |-> tick]
  <2>1. tm.mon = mon /\ tm.mday = mday /\ tm.tick = tick
    OBVIOUS
  <2> HIDE DEF tm
  <2>2. /\ MkTime(tm) \in Nat /\ MonthOf(MkTime(tm)) = mon
        /\ LocalTime(MkTime(tm)).mday = mday /\ MkTime(tm) % TicksPerDay = tick
    BY <2>1, MadeTimes
  <2>3. LocalTime(MkTime(tm)) = [mon |-> mon, mday |-> mday, tick |-> tick]
    BY <2>2 DEF LocalTime
  <2> QED
    BY <2>2, <2>3 DEF tm
<1>3. ASSUME NEW t \in Nat PROVE Weekday(t + Days(1)) = (Weekday(t) + 1) % 7
  BY WeekdayLater
<1> QED
  BY <1>1, <1>2, <1>3

-----------------------------------------------------------------------------
(* The alarms that ring once in so many months.                             *)

Monthly(j) == j.anchor \in PeriodAnchors \cup ThirdAnchors
Weekly(j) == j.anchor \in WeekAnchors

\* The day of the month an alarm rings on, and the months from one to the next.
DayOf(j) == IF j.anchor \in PeriodAnchors THEN j.offset ELSE ThirdDay(j)
Between(j) == j.ordinal * (IF j.anchor \in PeriodAnchors THEN AnchorMonths[j.anchor] ELSE 1)

\* An alarm that names a day which every month has, counted from the start of
\* the month or from that of a third, or a week that every month or year has.
\* The first and the middle third may count back from their ends as well.
KeepsToCalendar(j) ==
    /\ Monthly(j) => /\ j.ordinal \in Nat \ {0} /\ DayOf(j) \in 1..28
                     /\ j.offset # 0
                     /\ j.anchor = "LastThird" => j.offset > 0
    /\ Weekly(j) => /\ j.ordinal \in 0..6
                    /\ j.offset \in 1..(IF j.anchor = "WeekInMonth" THEN 4 ELSE 52)

LEMMA JobTypes ==
    ASSUME NEW j \in Jobs
    PROVE  /\ j.ordinal \in Nat /\ j.offset \in Int
           /\ Monthly(j) => Between(j) \in Nat
           /\ Monthly(j) /\ KeepsToCalendar(j) => Between(j) \in Nat \ {0}
<1>1. j.ordinal \in Nat /\ j.offset \in Int
  BY JobsAssumption
<1>2. \A a \in PeriodAnchors : AnchorMonths[a] \in Nat \ {0}
  BY DEF PeriodAnchors, AnchorMonths
<1> DEFINE n == IF j.anchor \in PeriodAnchors THEN AnchorMonths[j.anchor] ELSE 1
<1>3. n \in Nat \ {0}
  BY <1>2
<1> HIDE DEF n
<1>4. j.ordinal * n \in Nat /\ (j.ordinal # 0 => j.ordinal * n # 0)
  BY <1>1, <1>3
<1> QED
  BY <1>1, <1>4 DEF n, Between, KeepsToCalendar

\* The named day is the one of DayOf.
LEMMA NamedDay ==
    ASSUME NEW j \in Jobs, Monthly(j), KeepsToCalendar(j), NEW t
    PROVE  Named(j, t) <=> LocalTime(t).mday = DayOf(j)
<1>1. /\ j.offset \in Int \ {0} /\ DayOf(j) \in 1..28
      /\ j.anchor = "LastThird" => j.offset > 0
  BY JobTypes DEF KeepsToCalendar
<1>2. CASE j.anchor \in PeriodAnchors
  <2>1. j.anchor \notin {"FirstThird", "MiddleThird", "LastThird"}
    BY <1>2 DEF PeriodAnchors, AnchorMonths
  <2>2. DayOf(j) = j.offset /\ j.offset > 0
    BY <1>1, <1>2 DEF DayOf
  <2> QED
    BY <2>1, <2>2 DEF Named
<1>3. CASE j.anchor \notin PeriodAnchors
  <2>1. j.anchor \in {"FirstThird", "MiddleThird", "LastThird"}
    BY <1>3 DEF Monthly, ThirdAnchors
  <2>2. DayOf(j) = ThirdDay(j)
    BY <1>3 DEF DayOf
  <2> QED
    BY <1>1, <2>1, <2>2 DEF Named, ThirdDay
<1> QED
  BY <1>2, <1>3

\* The day after a time that DayAfter() gives: in the same month, if it is still
\* to come, or else so many months later.
LEMMA DayToCome ==
    ASSUME NEW at \in Nat, NEW day \in 1..28, NEW delta \in Nat \ {0}
    PROVE  LET pt == MkTime(DayAfter(LocalTime(at), day, delta))
           IN  /\ pt \in Nat /\ at < pt /\ LocalTime(pt).mday = day
               /\ MonthOf(pt) = MonthOf(at) + (IF LocalTime(at).mday >= day THEN delta ELSE 0)
               /\ DayNumber(pt) = FirstDay(MonthOf(pt)) + day - 1
<1> DEFINE tm == LocalTime(at)
           mon == MonthOf(at) + (IF tm.mday >= day THEN delta ELSE 0)
           new == DayAfter(tm, day, delta)
           pt == MkTime(new)
<1>1. /\ MonthOf(at) \in Nat /\ tm.mon = MonthOf(at) /\ tm.tick \in 0..(TicksPerDay - 1)
      /\ DayNumber(at) \in Nat /\ tm.mday = DayNumber(at) - FirstDay(MonthOf(at)) + 1
      /\ InMonth(DayNumber(at), MonthOf(at)) /\ FirstDay(MonthOf(at)) \in Nat
      /\ tm.mday \in Nat
  <2>1. /\ MonthOf(at) \in Nat /\ tm.mon = MonthOf(at) /\ tm.tick \in 0..(TicksPerDay - 1)
        /\ tm.mday = DayNumber(at) - FirstDay(MonthOf(at)) + 1
        /\ tm.mday \in 1..DaysIn(MonthOf(at)) /\ InMonth(DayNumber(at), MonthOf(at))
    BY LocalTimes
  <2>2. DayNumber(at) \in Nat
    BY DayNumbers
  <2>3. FirstDay(MonthOf(at)) \in Nat
    BY <2>1, FirstDayBounds
  <2> HIDE DEF tm
  <2>4. tm.mday \in Nat
    BY <2>1
  <2> QED
    BY <2>1, <2>2, <2>3, <2>4
<1>2. mon \in Nat /\ day \in 1..DaysIn(mon) /\ FirstDay(mon) \in Nat
  <2>1. mon \in Nat
    BY <1>1
  <2> HIDE DEF mon
  <2> QED
    BY <2>1, FirstDayBounds
<1>3. new.mon = mon /\ new.mday = day /\ new.tick = tm.tick
  BY <1>1 DEF DayAfter, LocalTime
<1> HIDE DEF new
<1>4. /\ pt \in Nat /\ DayNumber(pt) = FirstDay(mon) + day - 1 /\ MonthOf(pt) = mon
      /\ LocalTime(pt).mday = day
  <2> HIDE DEF mon, tm
  <2> QED
    BY <1>1, <1>2, <1>3, MadeTimes
<1>5. DayNumber(at) < DayNumber(pt)
  <2>1. CASE tm.mday >= day
    <3>1. MonthOf(at) < mon
      BY <1>1, <2>1
    <3>2. FirstDay(MonthOf(at)) + DaysIn(MonthOf(at)) <= FirstDay(mon)
      BY <1>1, <1>2, <3>1, MonthsInOrder
    <3>3. DaysIn(MonthOf(at)) \in Nat
      BY <1>1, FirstDayBounds
    <3> HIDE DEF mon, tm, pt
    <3> QED
      BY <1>1, <1>2, <1>4, <3>2, <3>3 DEF InMonth
  <2>2. CASE ~(tm.mday >= day)
    <3>1. mon = MonthOf(at)
      BY <1>1, <2>2
    <3> HIDE DEF mon, tm, pt
    <3> QED
      BY <1>1, <1>2, <1>4, <2>2, <3>1
  <2> QED
    BY <2>1, <2>2
<1>6. at < pt
  BY <1>4, <1>5, DaysInOrder
<1> QED
  BY <1>4, <1>6 DEF new
\* What next_time_point() gives an alarm whose last one is not to come.
LEMMA NextOfMonthly ==
    ASSUME NEW j \in Jobs, Monthly(j), KeepsToCalendar(j),
           NEW at \in Nat, NEW last \in Nat, last <= at
    PROVE  NextTimePoint(j, last, at)
             = MkTime(DayAfter(LocalTime(at), DayOf(j), Between(j)))
<1> DEFINE pt == MkTime(DayAfter(LocalTime(at), DayOf(j), Between(j)))
<1>1. DayOf(j) \in 1..28 /\ Between(j) \in Nat \ {0} /\ j.ordinal \in Nat /\ j.offset \in Int
  BY JobTypes DEF KeepsToCalendar
<1>2. pt \in Nat /\ at < pt
  BY <1>1, DayToCome
<1> HIDE DEF pt
<1>3. ~(at < last) /\ ~(pt <= at) /\ ~(pt < last)
  BY <1>2
<1>4. CASE j.anchor \in PeriodAnchors
  <2>1. DayOf(j) = j.offset /\ Between(j) = j.ordinal * AnchorMonths[j.anchor]
    BY <1>4 DEF DayOf, Between
  <2>2. j.offset > 0
    BY <1>1, <2>1
  <2>3. PeriodPoint(j, at) = pt
    BY <1>3, <2>1, <2>2 DEF PeriodPoint, pt
  <2>4. /\ j.anchor \notin ThirdAnchors /\ j.anchor \notin WeekAnchors
        /\ j.anchor \notin {"DayInYear", "Week"} /\ j.anchor \notin NoDayAnchors
    BY <1>4 DEF PeriodAnchors, AnchorMonths, ThirdAnchors, WeekAnchors, NoDayAnchors
  <2>5. NextTimePoint(j, last, at) = pt
    BY <1>3, <1>4, <2>3, <2>4 DEF NextTimePoint
  <2> QED
    BY <2>5 DEF pt
<1>5. CASE j.anchor \notin PeriodAnchors
  <2>1. DayOf(j) = ThirdDay(j) /\ j.anchor \in ThirdAnchors
    BY <1>5 DEF DayOf, Monthly
  <2>2. Between(j) = j.ordinal
    BY <1>1, <1>5 DEF Between
  <2>3. ~(j.anchor = "LastThird" /\ j.offset <= 0)
    BY <1>1 DEF KeepsToCalendar
  <2>4. ThirdPoint(j, at, last) = pt
    BY <1>3, <2>1, <2>2, <2>3 DEF ThirdPoint, pt
  <2>5. /\ j.anchor \notin WeekAnchors
        /\ j.anchor \notin {"DayInYear", "Week"} /\ j.anchor \notin NoDayAnchors
    BY <2>1 DEF ThirdAnchors, WeekAnchors, NoDayAnchors
  <2>6. NextTimePoint(j, last, at) = pt
    BY <1>3, <1>5, <2>1, <2>4, <2>5 DEF NextTimePoint
  <2> QED
    BY <2>6 DEF pt
<1> QED
  BY <1>4, <1>5

-----------------------------------------------------------------------------
(* The alarms that ring once in a week of a month or a year.                *)

\* A week is found a number of days after the first day, less than 7 for each
\* week or 7 at most.
LEMMA WeeksFrom ==
    ASSUME NEW j \in Jobs, j.ordinal \in 0..6, j.offset \in Nat \ {0},
           NEW first \in Nat
    PROVE  \E n \in Nat : LET t == first + Days(n) IN
              /\ n < 7 * j.offset \/ n = 7
              /\ WeekFrom(j, first) = t /\ t \in Nat
              /\ DayNumber(t) = DayNumber(first) + n
              /\ t - Days(n) = first
              /\ Weekday(t) = j.ordinal
              /\ j.offset = 1 /\ Weekday(first) = j.ordinal => n = 7
              /\ (n + Weekday(first)) \div 7 + 1
                   = IF j.offset = 1 /\ Weekday(first) >= j.ordinal THEN 2 ELSE j.offset
<1> DEFINE wday  == Weekday(first)
           early == wday < j.ordinal
           days  == IF early THEN j.ordinal - wday ELSE j.ordinal + 7 - wday
           weeks == IF early THEN j.offset - 1 ELSE j.offset - 2
           n     == days + (IF weeks > 0 THEN 7 * weeks ELSE 0)
           t     == first + Days(n)
<1>1. wday \in 0..6
  BY WeekdayLater
<1>2. days \in Nat /\ weeks \in Int
  <2> HIDE DEF wday
  <2> QED
    BY <1>1
<1>3. /\ n \in Nat /\ (n < 7 * j.offset \/ n = 7)
      /\ (wday + n) % 7 = j.ordinal
      /\ j.offset = 1 /\ wday = j.ordinal => n = 7
      /\ (n + wday) \div 7 + 1 = IF j.offset = 1 /\ wday >= j.ordinal THEN 2 ELSE j.offset
  <2>1. /\ days = IF wday < j.ordinal THEN j.ordinal - wday ELSE j.ordinal + 7 - wday
        /\ weeks = IF wday < j.ordinal THEN j.offset - 1 ELSE j.offset - 2
        /\ n = days + (IF weeks > 0 THEN 7 * weeks ELSE 0)
    OBVIOUS
  <2> DEFINE week == IF j.offset = 1 /\ wday >= j.ordinal THEN 2 ELSE j.offset
  <2>2. j.ordinal \in 0..6 /\ j.offset \in Nat \ {0}
    OBVIOUS
  <2> HIDE DEF n, weeks, days, early, wday
  <2>3. /\ n \in Nat /\ week \in Nat \ {0}
        /\ n < 7 * j.offset \/ n = 7
        /\ j.offset = 1 /\ wday = j.ordinal => n = 7
        /\ wday + n = j.ordinal + 7 * (week - 1)
    <3>1. CASE wday < j.ordinal
      <4>1. days = j.ordinal - wday /\ weeks = j.offset - 1
        BY <2>1, <3>1
      <4>2. n = days + 7 * weeks /\ week = j.offset
        BY <1>1, <2>1, <2>2, <3>1, <4>1
      <4> QED
        BY <1>1, <1>2, <2>2, <3>1, <4>1, <4>2
    <3>2. CASE ~(wday < j.ordinal) /\ j.offset = 1
      <4>1. days = j.ordinal + 7 - wday /\ weeks = -1
        BY <2>1, <3>2
      <4>2. n = days + 0 /\ week = 2
        BY <1>1, <2>1, <2>2, <3>2, <4>1
      <4> QED
        BY <1>1, <1>2, <2>2, <3>2, <4>1, <4>2
    <3>3. CASE ~(wday < j.ordinal) /\ j.offset # 1
      <4>1. days = j.ordinal + 7 - wday /\ weeks = j.offset - 2
        BY <2>1, <3>3
      <4>2. n = days + 7 * weeks /\ week = j.offset
        BY <1>2, <2>1, <2>2, <3>3, <4>1
      <4> QED
        BY <1>1, <1>2, <2>2, <3>3, <4>1, <4>2
    <3> QED
      BY <3>1, <3>2, <3>3
  <2> HIDE DEF week
  <2>4. (wday + n) % 7 = j.ordinal /\ (n + wday) \div 7 + 1 = week
    BY <1>1, <2>2, <2>3
  <2> QED
    BY <2>3, <2>4 DEF week
<1>4. WeekFrom(j, first) = first + Days(days) + (IF weeks > 0 THEN Days(7 * weeks) ELSE 0)
  BY Zenon DEF WeekFrom
<1>5. WeekFrom(j, first) = t
  <2> HIDE DEF days, weeks
  <2>1. TicksPerDay \in Nat \ {0}
    BY CalendarAssumption
  <2>2. CASE weeks > 0
    <3>1. (days + 7 * weeks) * TicksPerDay = days * TicksPerDay + (7 * weeks) * TicksPerDay
      BY <1>2, <2>1
    <3>2. days * TicksPerDay \in Int /\ (7 * weeks) * TicksPerDay \in Int
      BY <1>2, <2>1
    <3> QED
      BY <1>4, <2>2, <3>1, <3>2 DEF Days
  <2>3. CASE ~(weeks > 0)
    <3>1. n = days /\ days * TicksPerDay \in Int
      BY <1>2, <2>1, <2>3
    <3> QED
      BY <1>4, <2>3, <3>1 DEF Days
  <2> QED
    BY <2>2, <2>3
<1> HIDE DEF n
<1>6. /\ t \in Nat /\ t - Days(n) = first /\ DayNumber(t) = DayNumber(first) + n
  BY <1>3, DaysLater
<1>7. Weekday(t) = j.ordinal
  BY <1>3, WeekdayLater
<1> HIDE DEF t
<1>8. /\ n < 7 * j.offset \/ n = 7
      /\ WeekFrom(j, first) = t /\ t \in Nat
      /\ DayNumber(t) = DayNumber(first) + n
      /\ t - Days(n) = first
      /\ Weekday(t) = j.ordinal
      /\ j.offset = 1 /\ Weekday(first) = j.ordinal => n = 7
      /\ (n + Weekday(first)) \div 7 + 1
           = IF j.offset = 1 /\ Weekday(first) >= j.ordinal THEN 2 ELSE j.offset
  BY <1>3, <1>5, <1>6, <1>7
<1> QED
  BY <1>3, <1>8 DEF t

\* A year has 365 days at least.
LEMMA YearLengths ==
    ASSUME NEW y \in Nat
    PROVE  /\ FirstDay(12 * y) \in Nat /\ FirstDay(12 * (y + 1)) \in Nat
           /\ FirstDay(12 * y) + 365 <= FirstDay(12 * (y + 1))
<1>1. FirstYear \in Nat /\ FirstYear + y \in Nat /\ FirstYear + (y + 1) = FirstYear + y + 1
  BY CalendarAssumption
<1>2. DaysBefore[1] = 0
  BY TableOfDays
<1>3. /\ (12 * y) \div 12 = y /\ (12 * y) % 12 = 0
      /\ (12 * (y + 1)) \div 12 = y + 1 /\ (12 * (y + 1)) % 12 = 0
  OBVIOUS
<1>4. /\ FirstDay(12 * y) = 365 * y + LeapsBefore(FirstYear + y) - LeapsBefore(FirstYear)
      /\ FirstDay(12 * (y + 1)) = 365 * (y + 1) + LeapsBefore(FirstYear + y + 1)
                                    - LeapsBefore(FirstYear)
  <2>1. /\ LeapsBefore(FirstYear) \in Int /\ LeapsBefore(FirstYear + y) \in Int
        /\ LeapsBefore(FirstYear + y + 1) \in Int
    BY <1>1, LeapsAdd
  <2>2. FirstDay(12 * y) = 365 * y + LeapsBefore(FirstYear + y) - LeapsBefore(FirstYear) + 0 + 0
    BY <1>2, <1>3 DEF FirstDay
  <2>3. FirstDay(12 * (y + 1)) = 365 * (y + 1) + LeapsBefore(FirstYear + y + 1)
                                    - LeapsBefore(FirstYear) + 0 + 0
    BY <1>1, <1>2, <1>3 DEF FirstDay
  <2> QED
    BY <2>1, <2>2, <2>3
<1>5. /\ LeapsBefore(FirstYear) \in Int /\ LeapsBefore(FirstYear + y) \in Int
      /\ LeapsBefore(FirstYear + y) <= LeapsBefore(FirstYear + y + 1)
      /\ LeapsBefore(FirstYear + y + 1) \in Int
  BY <1>1, LeapsAdd
<1>6. FirstDay(12 * y) \in Nat /\ FirstDay(12 * (y + 1)) \in Nat
  BY FirstDayBounds
<1> QED
  BY <1>4, <1>5, <1>6
\* A day at most 27 days after the first of a month is in that month.
LEMMA WithinTheMonth ==
    ASSUME NEW t \in Nat, NEW mon \in Nat, NEW n \in 0..27,
           DayNumber(t) = FirstDay(mon) + n
    PROVE  MonthOf(t) = mon /\ LocalTime(t).mday - 1 = n
<1>1. FirstDay(mon) \in Nat /\ DaysIn(mon) \in Nat /\ DaysIn(mon) >= 28
  BY FirstDayBounds
<1>2. DayNumber(t) \in Nat /\ InMonth(DayNumber(t), mon)
  BY <1>1 DEF InMonth
<1>3. /\ MonthOf(t) \in Nat /\ InMonth(DayNumber(t), MonthOf(t))
      /\ LocalTime(t).mday = DayNumber(t) - FirstDay(MonthOf(t)) + 1
  BY LocalTimes
<1>4. MonthOf(t) = mon
  BY <1>2, <1>3, MonthOfDay
<1> QED
  BY <1>1, <1>3, <1>4

\* A day at most 364 days after the first of a year is in that year.
LEMMA WithinTheYear ==
    ASSUME NEW t \in Nat, NEW y \in Nat, NEW n \in 0..364,
           DayNumber(t) = FirstDay(12 * y) + n
    PROVE  YearDay(t) = n
<1>1. /\ FirstDay(12 * y) \in Nat /\ FirstDay(12 * (y + 1)) \in Nat
      /\ FirstDay(12 * y) + 365 <= FirstDay(12 * (y + 1))
  BY YearLengths
<1> DEFINE m == MonthOf(t)
           a == 12 * y
           b == 12 * (y + 1)
<1>2. m \in Nat /\ InMonth(DayNumber(t), m) /\ FirstDay(m) \in Nat /\ DaysIn(m) \in Nat
  BY LocalTimes, FirstDayBounds
<1>3. a \in Nat /\ b \in Nat /\ DaysIn(a) \in Nat /\ DaysIn(b) \in Nat
  <2>1. a \in Nat /\ b \in Nat
    OBVIOUS
  <2> HIDE DEF a, b
  <2> QED
    BY <2>1, FirstDayBounds
<1> HIDE DEF m
<1>4. ~(m < a)
  <2> SUFFICES ASSUME m < a PROVE FALSE
    OBVIOUS
  <2>1. FirstDay(m) + DaysIn(m) <= FirstDay(a)
    BY <1>2, <1>3, MonthsInOrder
  <2> QED
    BY <1>1, <1>2, <2>1 DEF InMonth
<1>5. ~(m >= b)
  <2> SUFFICES ASSUME m >= b PROVE FALSE
    OBVIOUS
  <2>1. FirstDay(b) <= FirstDay(m)
    <3>1. CASE m = b
      BY <1>1, <3>1
    <3>2. CASE b < m
      <4>1. FirstDay(b) + DaysIn(b) <= FirstDay(m)
        BY <1>2, <1>3, <3>2, MonthsInOrder
      <4> QED
        BY <1>1, <1>2, <1>3, <4>1
    <3> QED
      BY <1>2, <1>3, <3>1, <3>2
  <2> QED
    BY <1>1, <1>2, <2>1 DEF InMonth
<1>6. m \div 12 = y
  BY <1>2, <1>4, <1>5
<1> QED
  BY <1>1, <1>6 DEF YearDay, m

\* What next_time_point() gives the alarms of a week.
LEMMA NextOfWeekly ==
    ASSUME NEW j \in Jobs, Weekly(j), KeepsToCalendar(j),
           NEW at \in Nat, NEW last \in Nat, last <= at
    PROVE  /\ NextTimePoint(j, last, at) \in Nat
           /\ InItsWeek(j, NextTimePoint(j, last, at))
<1> DEFINE tm == LocalTime(at)
           inMonth == j.anchor = "WeekInMonth"
           y == tm.mon \div 12
           mon == IF inMonth THEN tm.mon ELSE 12 * y
           new == IF inMonth THEN [tm EXCEPT !.mday = 1]
                             ELSE [tm EXCEPT !.mday = 1, !.mon = 12 * (@ \div 12)]
           first == MkTime(new)
<1>1. /\ j.ordinal \in 0..6 /\ j.offset \in Nat \ {0}
      /\ j.offset <= (IF inMonth THEN 4 ELSE 52)
  BY DEF KeepsToCalendar
<1>2. tm.mon \in Nat /\ tm.tick \in 0..(TicksPerDay - 1)
  BY LocalTimes
<1>3. mon \in Nat /\ y \in Nat
  <2> HIDE DEF tm, inMonth
  <2> QED
    BY <1>2
<1>4. new.mon = mon /\ new.mday = 1 /\ new.tick = tm.tick
  BY DEF LocalTime
<1> HIDE DEF new, tm
<1>5. first \in Nat /\ DayNumber(first) = FirstDay(mon)
  <2> HIDE DEF mon, y
  <2>1. FirstDay(mon) \in Nat /\ 1 \in 1..DaysIn(mon)
    BY <1>3, FirstDayBounds
  <2>2. first \in Nat /\ DayNumber(first) = FirstDay(mon) + 1 - 1
    BY <1>2, <1>3, <1>4, <2>1, MadeTimes
  <2> QED
    BY <2>1, <2>2
<1> HIDE DEF first
<1>6. NextTimePoint(j, last, at) = WeekFrom(j, first)
  <2>1. WeekPoint(j, at) = WeekFrom(j, first)
    BY <1>1 DEF WeekPoint, first, new, tm
  <2>2. /\ j.anchor \notin PeriodAnchors /\ j.anchor \notin ThirdAnchors
        /\ j.anchor \notin {"DayInYear", "Week"} /\ j.anchor \notin NoDayAnchors
    BY DEF Weekly, PeriodAnchors, AnchorMonths, ThirdAnchors, WeekAnchors, NoDayAnchors
  <2>3. ~(at < last)
    OBVIOUS
  <2> QED
    BY <2>1, <2>2, <2>3 DEF NextTimePoint, Weekly
<1>7. PICK n \in Nat :
         LET t == first + Days(n) IN
              /\ n < 7 * j.offset \/ n = 7
              /\ WeekFrom(j, first) = t /\ t \in Nat
              /\ DayNumber(t) = DayNumber(first) + n
              /\ t - Days(n) = first
              /\ Weekday(t) = j.ordinal
              /\ j.offset = 1 /\ Weekday(first) = j.ordinal => n = 7
              /\ (n + Weekday(first)) \div 7 + 1
                   = IF j.offset = 1 /\ Weekday(first) >= j.ordinal THEN 2 ELSE j.offset
  BY <1>1, <1>5, WeeksFrom
<1> DEFINE t == first + Days(n)
<1>8. t \in Nat /\ DayNumber(t) = FirstDay(mon) + n /\ t - Days(n) = first
  BY <1>5, <1>7
<1> DEFINE days == DaysInto(j, t)
<1>9. days = n
  <2> HIDE DEF t
  <2>1. CASE inMonth
    <3>1. n \in 0..27
      BY <1>1, <1>7, <2>1
    <3> HIDE DEF mon
    <3> QED
      BY <1>3, <1>8, <2>1, <3>1, WithinTheMonth DEF DaysInto
  <2>2. CASE ~inMonth
    <3>1. n \in 0..364 /\ mon = 12 * y
      BY <1>1, <1>7, <2>2
    <3> HIDE DEF mon, y
    <3> QED
      BY <1>3, <1>8, <2>2, <3>1, WithinTheYear DEF DaysInto
  <2> QED
    BY <2>1, <2>2
<1>10. NextTimePoint(j, last, at) = t
  BY <1>6, <1>7
<1> HIDE DEF days
<1>11. InItsWeek(j, t)
  <2>1. Weekday(t - Days(days)) = Weekday(first)
    BY <1>8, <1>9
  <2>2. Weekday(first) \in 0..6 /\ j.ordinal \in 0..6
    BY <1>1, <1>5, WeekdayLater
  <2>3. CASE j.offset = 1 /\ Weekday(first) = j.ordinal
    BY <1>7, <1>9, <2>3 DEF InItsWeek, SkipsTheFirst, days, t
  <2>4. CASE ~(j.offset = 1 /\ Weekday(first) = j.ordinal)
    <3>1. (j.offset = 1 /\ Weekday(first) >= j.ordinal) <=> (j.offset = 1 /\ Weekday(first) > j.ordinal)
      BY <2>2, <2>4
    <3>2. /\ Weekday(t) = j.ordinal
          /\ (days + Weekday(first)) \div 7 + 1
               = IF j.offset = 1 /\ Weekday(first) > j.ordinal THEN 2 ELSE j.offset
      BY <1>7, <1>9, <3>1 DEF t
    <3> HIDE DEF t
    <3> QED
      BY <2>1, <3>2 DEF InItsWeek, NamedWeek, days
  <2> QED
    BY <2>3, <2>4
<1> QED
  BY <1>8, <1>10, <1>11

-----------------------------------------------------------------------------
(* The alarm in the wheel.                                                  *)

\* Every alarm that may be built names a day or a week which every month, or
\* every year, has.
KeepToCalendar == \A j \in Jobs : KeepsToCalendar(j)

\* The runner is late by less than the days that are left of the month after the
\* alarm's own; an alarm that rings every month has until its day in the next.
InTime ==
    \A j \in Jobs : Monthly(j)
        => 2 * MaxLag <= Days(IF Between(j) = 1 THEN 27 ELSE 28 - DayOf(j))

\* The alarm is built for, and put back with, a day its anchor names, and is
\* out of the wheel only from that day on.
OnItsDay ==
    /\ now \in Nat /\ job \in Jobs
    /\ pc \in {"unbuilt", "armed", "ringing"}
    /\ slot \in Nat \/ job.anchor \in DayAnchors \/ (slot = Epoch /\ job.anchor \in NoDayAnchors)
    /\ pc # "unbuilt" => last_pt = slot
    /\ pc = "ringing" /\ job.anchor \notin DayAnchors => slot <= now
    /\ pc # "unbuilt" /\ Monthly(job) => Named(job, slot)
    /\ pc # "unbuilt" /\ Weekly(job) => InItsWeek(job, slot)

\* How far the clock is past the slot of an alarm that rings monthly.
NotTooLate ==
    /\ lag \in 0..MaxLag
    /\ Monthly(job) => /\ pc = "armed" /\ slot <= now => now <= slot + lag
                       /\ pc = "ringing" => now <= slot + MaxLag + lag

AlarmInv == OnItsDay /\ NotTooLate

\* The next time point of an alarm, when the one before is not to come: the day
\* it gives is after the clock's for one that rings monthly.
LEMMA NextPoint ==
    ASSUME NEW j \in Jobs, KeepsToCalendar(j),
           NEW at \in Nat, NEW last, j.anchor \notin DayAnchors => ~(at < last),
           Monthly(j) \/ Weekly(j) => last \in Nat
    PROVE  LET pt == NextTimePoint(j, last, at) IN
           /\ pt \in Nat \/ j.anchor \in DayAnchors \/ (pt = Epoch /\ j.anchor \in NoDayAnchors)
           /\ Monthly(j) => /\ pt \in Nat /\ at < pt
                            /\ Named(j, pt)
                            /\ MonthOf(pt) = MonthOf(at) + (IF LocalTime(at).mday >= DayOf(j)
                                                            THEN Between(j) ELSE 0)
                            /\ DayNumber(pt) = FirstDay(MonthOf(pt)) + DayOf(j) - 1
           /\ Weekly(j) => pt \in Nat /\ InItsWeek(j, pt)
<1> DEFINE pt == NextTimePoint(j, last, at)
<1>0. Monthly(j) \/ Weekly(j) => j.anchor \notin DayAnchors
  BY DEF Weekly, Monthly, PeriodAnchors, AnchorMonths, ThirdAnchors, WeekAnchors, DayAnchors
<1>1. CASE Monthly(j)
  <2>1. DayOf(j) \in 1..28 /\ Between(j) \in Nat \ {0}
    BY <1>1, JobTypes DEF KeepsToCalendar
  <2>2. last \in Nat /\ last <= at
    BY <1>0, <1>1
  <2>3. pt = MkTime(DayAfter(LocalTime(at), DayOf(j), Between(j)))
    BY <1>1, <2>2, NextOfMonthly
  <2> HIDE DEF pt
  <2>4. /\ pt \in Nat /\ at < pt /\ LocalTime(pt).mday = DayOf(j)
        /\ MonthOf(pt) = MonthOf(at) + (IF LocalTime(at).mday >= DayOf(j)
                                        THEN Between(j) ELSE 0)
        /\ DayNumber(pt) = FirstDay(MonthOf(pt)) + DayOf(j) - 1
    BY <2>1, <2>3, DayToCome
  <2>5. Named(j, pt)
    BY <1>1, <2>4, NamedDay
  <2>6. ~Weekly(j)
    BY <1>1 DEF Weekly, Monthly, PeriodAnchors, AnchorMonths, ThirdAnchors, WeekAnchors
  <2> QED
    BY <2>4, <2>5, <2>6 DEF pt
<1>2. CASE Weekly(j)
  <2>1. last \in Nat /\ last <= at
    BY <1>0, <1>2
  <2>2. ~Monthly(j)
    BY <1>2 DEF Weekly, Monthly, PeriodAnchors, AnchorMonths, ThirdAnchors, WeekAnchors
  <2> QED
    BY <1>2, <2>1, <2>2, NextOfWeekly
<1>3. CASE ~Monthly(j) /\ ~Weekly(j)
  <2>1. j.anchor \in DayAnchors \cup NoDayAnchors
    BY <1>3, JobsAssumption DEF Monthly, Weekly
  <2>2. ASSUME j.anchor \in NoDayAnchors PROVE pt = Epoch
    <3>1. /\ j.anchor \notin PeriodAnchors /\ j.anchor \notin ThirdAnchors
          /\ j.anchor \notin WeekAnchors /\ j.anchor \notin {"DayInYear", "Week"}
          /\ j.anchor \notin DayAnchors
      BY <2>2 DEF PeriodAnchors, AnchorMonths, ThirdAnchors, WeekAnchors, NoDayAnchors, DayAnchors
    <3> QED
      BY <2>2, <3>1 DEF NextTimePoint
  <2> QED
    BY <1>3, <2>1, <2>2
<1> QED
  BY <1>1, <1>2, <1>3
\* Build and PutBack arm the alarm for the next time point after the clock.
LEMMA Arming ==
    ASSUME KeepToCalendar, AlarmInv, Build \/ PutBack
    PROVE  /\ slot \in Nat \/ job.anchor \in DayAnchors \/ (slot = Epoch /\ job.anchor \in NoDayAnchors)
           /\ slot' \in Nat \/ job.anchor \in DayAnchors
                \/ (slot' = Epoch /\ job.anchor \in NoDayAnchors)
           /\ Monthly(job) => /\ slot' \in Nat /\ now < slot'
                              /\ Named(job, slot')
                              /\ MonthOf(slot') = MonthOf(now)
                                   + (IF LocalTime(now).mday >= DayOf(job) THEN Between(job) ELSE 0)
                              /\ DayNumber(slot') = FirstDay(MonthOf(slot')) + DayOf(job) - 1
           /\ Weekly(job) => slot' \in Nat /\ InItsWeek(job, slot')
<1>1. now \in Nat /\ job \in Jobs /\ KeepsToCalendar(job)
  BY DEF KeepToCalendar, AlarmInv, OnItsDay
<1>2. Monthly(job) \/ Weekly(job) => job.anchor \notin DayAnchors /\ job.anchor \notin NoDayAnchors
  BY DEF Weekly, Monthly, PeriodAnchors, AnchorMonths, ThirdAnchors, WeekAnchors, DayAnchors, NoDayAnchors
<1>3. slot \in Nat \/ job.anchor \in DayAnchors \/ (slot = Epoch /\ job.anchor \in NoDayAnchors)
  BY DEF AlarmInv, OnItsDay
<1>4. PICK last : /\ slot' = NextTimePoint(job, last, now)
                  /\ job.anchor \notin DayAnchors => ~(now < last)
                  /\ Monthly(job) \/ Weekly(job) => last \in Nat
  <2>1. CASE Build
    <3>1. slot' = NextTimePoint(job, now, now) /\ ~(now < now)
      BY <1>1, <2>1 DEF Build
    <3> QED
      BY <1>1, <3>1
  <2>2. CASE PutBack
    <3>1. /\ slot' = NextTimePoint(job, last_pt, now) /\ last_pt = slot
          /\ job.anchor \notin DayAnchors => slot <= now
      BY <2>2 DEF PutBack, AlarmInv, OnItsDay
    <3>2. job.anchor \notin DayAnchors => slot \in Int
      BY <1>3 DEF Epoch
    <3> QED
      BY <1>1, <1>2, <1>3, <3>1, <3>2
  <2> QED
    BY <2>1, <2>2
<1> DEFINE pt == NextTimePoint(job, last, now)
<1>5. /\ pt \in Nat \/ job.anchor \in DayAnchors \/ (pt = Epoch /\ job.anchor \in NoDayAnchors)
      /\ Monthly(job) => /\ pt \in Nat /\ now < pt
                         /\ Named(job, pt)
                         /\ MonthOf(pt) = MonthOf(now) + (IF LocalTime(now).mday >= DayOf(job)
                                                          THEN Between(job) ELSE 0)
                         /\ DayNumber(pt) = FirstDay(MonthOf(pt)) + DayOf(job) - 1
      /\ Weekly(job) => pt \in Nat /\ InItsWeek(job, pt)
  BY <1>1, <1>4, NextPoint
<1>6. slot' = pt
  BY <1>4
<1> HIDE DEF pt
<1> QED
  BY <1>3, <1>5, <1>6, Zenon

LEMMA AlarmInit == Init => AlarmInv
<1> SUFFICES ASSUME Init PROVE AlarmInv
  OBVIOUS
<1> USE DEF Init
<1>1. now \in Nat /\ job \in Jobs /\ slot = now /\ pc = "unbuilt" /\ lag = 0
  BY ClockAssumption
<1> QED
  BY <1>1, ClockAssumption DEF AlarmInv, OnItsDay, NotTooLate

LEMMA AlarmStep ==
    ASSUME KeepToCalendar, AlarmInv, [Next]_vars
    PROVE  AlarmInv'
<1>1. /\ now \in Nat /\ job \in Jobs /\ lag \in 0..MaxLag /\ MaxLag \in Nat
      /\ slot \in Nat \/ job.anchor \in DayAnchors \/ (slot = Epoch /\ job.anchor \in NoDayAnchors)
  BY ClockAssumption DEF AlarmInv, OnItsDay, NotTooLate
<1>2. Monthly(job) \/ Weekly(job) => slot \in Nat
  BY <1>1 DEF Weekly, Monthly, PeriodAnchors, AnchorMonths, ThirdAnchors, WeekAnchors, DayAnchors, NoDayAnchors
<1>3. CASE Build \/ PutBack
  <2>1. /\ pc' = "armed" /\ last_pt' = slot' /\ now' = now /\ job' = job /\ lag' \in 0..MaxLag
    BY <1>1, <1>3 DEF Build, PutBack
  <2>2. /\ slot' \in Nat \/ job.anchor \in DayAnchors
             \/ (slot' = Epoch /\ job.anchor \in NoDayAnchors)
        /\ Monthly(job) => slot' \in Nat /\ now < slot' /\ Named(job, slot')
        /\ Weekly(job) => InItsWeek(job, slot')
    BY <1>3, Arming
  <2>3. OnItsDay'
    BY <1>1, <2>1, <2>2, Zenon DEF OnItsDay
  <2>4. NotTooLate'
    <3>1. Monthly(job) => ~(slot' <= now)
      BY <1>1, <2>2
    <3> QED
      BY <2>1, <3>1 DEF NotTooLate
  <2> QED
    BY <2>3, <2>4 DEF AlarmInv
<1>4. CASE Ring
  <2>1. /\ pc = "armed" /\ slot <= now /\ pc' = "ringing" /\ lag' = 0
        /\ now' = now /\ job' = job /\ last_pt' = last_pt /\ slot' = slot
    BY <1>4 DEF Ring
  <2>2. OnItsDay'
    BY <2>1, Zenon DEF OnItsDay, AlarmInv
  <2>3. Monthly(job) => now <= slot + MaxLag + 0
    BY <1>1, <1>2, <2>1 DEF AlarmInv, NotTooLate
  <2>4. NotTooLate'
    BY <1>1, <2>1, <2>3 DEF NotTooLate
  <2> QED
    BY <2>2, <2>4 DEF AlarmInv
<1>5. CASE Tick
  <2>1. /\ now' = now + 1 /\ job' = job /\ last_pt' = last_pt /\ slot' = slot /\ pc' = pc
    BY <1>5 DEF Tick
  <2>2. OnItsDay'
    <3>1. now' \in Nat /\ (pc = "ringing" /\ job.anchor \notin DayAnchors => slot' <= now')
      <4>1. pc = "ringing" /\ job.anchor \notin DayAnchors => slot <= now + 1
        <5> SUFFICES ASSUME pc = "ringing", job.anchor \notin DayAnchors PROVE slot <= now + 1
          OBVIOUS
        <5>1. slot \in Int /\ now \in Nat
          BY <1>1 DEF Epoch
        <5>2. slot <= now
          BY DEF AlarmInv, OnItsDay
        <5> QED
          BY <5>1, <5>2
      <4> QED
        BY <1>1, <2>1, <4>1
    <3> QED
      BY <2>1, <3>1, Zenon DEF OnItsDay, AlarmInv
  <2>3. NotTooLate'
    <3>1. CASE pc = "ringing" \/ (pc = "armed" /\ slot <= now)
      <4>1. lag < MaxLag /\ lag' = lag + 1
        BY <1>5, <3>1 DEF Tick
      <4> QED
        BY <1>1, <1>2, <2>1, <3>1, <4>1 DEF NotTooLate, AlarmInv
    <3>2. CASE ~(pc = "ringing" \/ (pc = "armed" /\ slot <= now))
      <4>1. lag' = 0
        BY <1>5, <3>2 DEF Tick
      <4> QED
        BY <1>1, <1>2, <2>1, <3>2, <4>1 DEF NotTooLate, AlarmInv
    <3> QED
      BY <3>1, <3>2
  <2> QED
    BY <2>2, <2>3 DEF AlarmInv
<1>6. CASE UNCHANGED vars
  BY <1>6 DEF vars, AlarmInv, OnItsDay, NotTooLate
<1> QED
  BY <1>3, <1>4, <1>5, <1>6 DEF Next, TimeUp
LEMMA AlarmInvariant ==
    ASSUME KeepToCalendar PROVE Spec => []AlarmInv
<1>1. AlarmInv /\ [Next]_vars => AlarmInv'
  BY AlarmStep
<1> QED
  BY <1>1, AlarmInit, PTL DEF Spec

\* Every alarm has a time of the calendar in the wheel, or the epoch if its
\* anchor names no day, and remembers it.
THEOREM TypeCorrect ==
    ASSUME KeepToCalendar, \A j \in Jobs : j.anchor \notin DayAnchors
    PROVE  Spec => []TypeOK
<1>1. AlarmInv => TypeOK
  BY DEF AlarmInv, OnItsDay, NotTooLate, TypeOK
<1> QED
  BY <1>1, AlarmInvariant, PTL

\* An alarm that names a day or a week which every month or year has rings on it,
\* through every length of the months, every leap year and end of a year,
\* whenever it is built and however late the runner puts it back.
THEOREM EveryAlarmOnItsDay ==
    ASSUME KeepToCalendar PROVE Spec => []RingsOnItsDay
<1>1. AlarmInv => RingsOnItsDay
  BY DEF AlarmInv, OnItsDay, RingsOnItsDay, EveryFewMonths, Monthly, Weekly
<1> QED
  BY <1>1, AlarmInvariant, PTL

\* A later month begins 28 days later at least.
LEMMA LaterMonths ==
    ASSUME NEW p \in Nat, NEW q \in Nat, p < q
    PROVE  /\ FirstDay(p) \in Nat /\ FirstDay(q) \in Nat
           /\ FirstDay(p) + 28 <= FirstDay(q)
<1>1. FirstDay(p) + DaysIn(p) <= FirstDay(q)
  BY MonthsInOrder
<1> QED
  BY <1>1, FirstDayBounds

LEMMA FirstOfItsDaysStep ==
    ASSUME KeepToCalendar, AlarmInv, Build \/ PutBack, EveryFewMonths, MonthsBetween = 1,
           NEW n \in (DayNumber(now) + 1)..(DayNumber(slot') - 1), Named(job, Days(n))
    PROVE  FALSE
<1>1. /\ now \in Nat /\ job \in Jobs /\ KeepsToCalendar(job)
      /\ Monthly(job) /\ Between(job) = 1
  BY DEF KeepToCalendar, AlarmInv, OnItsDay, EveryFewMonths, Monthly, MonthsBetween, Between
<1> DEFINE k == DayOf(job)
           m == MonthOf(now)
           p == MonthOf(slot')
<1>2. k \in 1..28
  BY <1>1 DEF KeepsToCalendar
<1>3. /\ slot' \in Nat /\ DayNumber(slot') = FirstDay(p) + k - 1
      /\ p = m + (IF LocalTime(now).mday >= k THEN 1 ELSE 0)
  BY <1>1, Arming
<1>4. /\ m \in Nat /\ DayNumber(now) \in Nat /\ InMonth(DayNumber(now), m)
      /\ LocalTime(now).mday = DayNumber(now) - FirstDay(m) + 1
      /\ FirstDay(m) \in Nat
  BY <1>1, LocalTimes, DayNumbers, FirstDayBounds
<1>5. p \in Nat /\ FirstDay(p) \in Nat
  <2>1. p \in Nat
    <3> HIDE DEF k, m, p
    <3> QED
      BY <1>3, <1>4
  <2> QED
    BY <2>1, FirstDayBounds
<1>6. n \in Nat /\ DayNumber(now) < n /\ n < FirstDay(p) + k - 1
  <2> HIDE DEF k, p
  <2> QED
    BY <1>2, <1>3, <1>4, <1>5
<1>7. DayNumber(Days(n)) = n /\ Days(n) \in Nat
  <2>1. 0 \in 0..(TicksPerDay - 1) /\ TicksPerDay \in Nat
    BY CalendarAssumption
  <2>2. n * TicksPerDay + 0 \in Nat /\ DayNumber(n * TicksPerDay + 0) = n
    BY <1>6, <2>1, Division
  <2>3. n * TicksPerDay + 0 = n * TicksPerDay
    BY <1>6, <2>1
  <2> QED
    BY <2>2, <2>3 DEF Days
<1> DEFINE q == MonthOf(Days(n))
<1>8. /\ q \in Nat /\ LocalTime(Days(n)).mday = n - FirstDay(q) + 1
      /\ FirstDay(q) \in Nat /\ InMonth(n, q)
  BY <1>7, LocalTimes, FirstDayBounds
<1>9. n = FirstDay(q) + k - 1
  <2>1. LocalTime(Days(n)).mday = k
    BY <1>1, NamedDay
  <2> HIDE DEF k, q
  <2> QED
    BY <1>2, <1>6, <1>8, <2>1
<1>10. q < p
  <2>1. CASE p < q
    <3>1. FirstDay(p) + 28 <= FirstDay(q)
      BY <1>2, <1>5, <1>8, <2>1, LaterMonths
    <3> HIDE DEF k, p, q
    <3> QED
      BY <1>2, <1>5, <1>6, <1>8, <1>9, <3>1
  <2>2. CASE p = q
    BY <1>6, <1>8, <1>9, <2>2
  <2> HIDE DEF p, q
  <2> QED
    BY <1>5, <1>8, <2>1, <2>2
<1>11. CASE q = m
  <2>1. p # m
    BY <1>5, <1>10, <1>11
  <2>2. LocalTime(now).mday >= k
    BY <1>3, <1>4, <2>1
  <2> HIDE DEF k, m, p, q
  <2> QED
    BY <1>2, <1>4, <1>6, <1>9, <1>11, <2>2
<1>12. CASE q < m
  <2>1. FirstDay(q) + 28 <= FirstDay(m)
    BY <1>2, <1>4, <1>8, <1>12, LaterMonths
  <2> HIDE DEF k, m, p, q
  <2> QED
    BY <1>2, <1>4, <1>6, <1>8, <1>9, <2>1 DEF InMonth
<1>13. CASE m < q
  <2> HIDE DEF k, m, p, q
  <2> QED
    BY <1>3, <1>4, <1>5, <1>8, <1>10, <1>13
<1> HIDE DEF m, q
<1> QED
  BY <1>4, <1>8, <1>11, <1>12, <1>13

\* An alarm that rings every month is armed for the first of its days to come.
THEOREM NoDayPassedOver ==
    ASSUME KeepToCalendar PROVE Spec => FirstOfItsDays
<1>1. AlarmInv /\ [Next]_vars
        => [(Build \/ PutBack) /\ EveryFewMonths /\ MonthsBetween = 1
            => \A n \in (DayNumber(now) + 1)..(DayNumber(slot') - 1) : ~Named(job, Days(n))]_vars
  BY FirstOfItsDaysStep
<1> QED
  BY <1>1, AlarmInvariant, PTL DEF Spec, FirstOfItsDays
\* When the runner is in time, an alarm put back is put back in the month it
\* rang in, on its day or a later one; only one that rings every month may be
\* put back in the next month before its day.
LEMMA OncePerPeriodStep ==
    ASSUME KeepToCalendar, InTime, AlarmInv, PutBack, EveryFewMonths
    PROVE  MonthOf(slot') = MonthOf(slot) + MonthsBetween
<1>1. /\ now \in Nat /\ job \in Jobs /\ KeepsToCalendar(job) /\ Monthly(job)
      /\ pc = "ringing" /\ MonthsBetween = Between(job)
  BY DEF KeepToCalendar, AlarmInv, OnItsDay, EveryFewMonths, Monthly, MonthsBetween, Between, PutBack
<1>2. /\ slot \in Nat /\ Named(job, slot) /\ slot <= now
      /\ now <= slot + MaxLag + lag /\ lag \in 0..MaxLag /\ MaxLag \in Nat
  <2>1. job.anchor \notin DayAnchors /\ job.anchor \notin NoDayAnchors
    BY <1>1 DEF Monthly, PeriodAnchors, AnchorMonths, ThirdAnchors, DayAnchors, NoDayAnchors
  <2> QED
    BY <1>1, <2>1, ClockAssumption DEF AlarmInv, OnItsDay, NotTooLate
<1> DEFINE k == DayOf(job)
           b == Between(job)
           s == MonthOf(slot)
           m == MonthOf(now)
           d == IF b = 1 THEN 27 ELSE 28 - k
<1>3. k \in 1..28 /\ b \in Nat \ {0} /\ d \in Nat
  <2>1. k \in 1..28 /\ b \in Nat \ {0}
    BY <1>1, JobTypes DEF KeepsToCalendar
  <2> HIDE DEF k, b
  <2> QED
    BY <2>1
<1>4. /\ s \in Nat /\ FirstDay(s) \in Nat /\ DayNumber(slot) = FirstDay(s) + k - 1
      /\ DayNumber(slot) \in Nat
  <2>1. /\ s \in Nat /\ LocalTime(slot).mday = DayNumber(slot) - FirstDay(s) + 1
        /\ DayNumber(slot) \in Nat
    BY <1>2, LocalTimes, DayNumbers
  <2>2. LocalTime(slot).mday = k /\ FirstDay(s) \in Nat
    BY <1>1, <1>2, <2>1, NamedDay, FirstDayBounds
  <2> HIDE DEF k, s
  <2> QED
    BY <1>3, <2>1, <2>2
<1>5. /\ m \in Nat /\ FirstDay(m) \in Nat /\ InMonth(DayNumber(now), m)
      /\ LocalTime(now).mday = DayNumber(now) - FirstDay(m) + 1
      /\ DayNumber(now) \in Nat
  BY <1>1, LocalTimes, DayNumbers, FirstDayBounds
<1>6. DayNumber(slot) <= DayNumber(now) /\ DayNumber(now) <= DayNumber(slot) + d
  <2>1. 2 * MaxLag <= Days(d)
    BY <1>1 DEF InTime
  <2>2. /\ slot + Days(d) \in Nat /\ DayNumber(slot + Days(d)) = DayNumber(slot) + d
    BY <1>2, <1>3, DaysLater
  <2>3. now <= slot + Days(d)
    <3>1. Days(d) \in Int
      BY <1>3, CalendarAssumption DEF Days
    <3> HIDE DEF d
    <3> QED
      BY <1>1, <1>2, <2>1, <3>1
  <2> QED
    BY <1>1, <1>2, <2>2, <2>3, DaysInOrder
<1>7. MonthOf(slot') = m + (IF LocalTime(now).mday >= k THEN b ELSE 0)
  BY <1>1, Arming
<1>8. FirstDay(s + 1) = FirstDay(s) + DaysIn(s) /\ DaysIn(s) \in Nat /\ DaysIn(s) >= 28
  BY <1>4, FirstDays, FirstDayBounds
<1> HIDE DEF k, b, s, m
<1>9. ~(m < s)
  <2> SUFFICES ASSUME m < s PROVE FALSE
    OBVIOUS
  <2>1. FirstDay(m) + DaysIn(m) <= FirstDay(s) /\ DaysIn(m) \in Nat
    BY <1>4, <1>5, MonthsInOrder, FirstDayBounds
  <2> QED
    BY <1>3, <1>4, <1>5, <1>6, <2>1 DEF InMonth
<1>10. CASE m = s
  <2>1. LocalTime(now).mday >= k
    BY <1>3, <1>4, <1>5, <1>6, <1>10
  <2> QED
    BY <1>1, <1>7, <1>10, <2>1 DEF s, b
<1>11. CASE s < m
  <2>1. FirstDay(s) + DaysIn(s) <= FirstDay(m)
    BY <1>4, <1>5, <1>11, MonthsInOrder
  <2>2. b = 1
    <3> SUFFICES ASSUME b # 1 PROVE FALSE
      OBVIOUS
    <3>1. DayNumber(now) <= FirstDay(s) + 27
      BY <1>3, <1>4, <1>5, <1>6
    <3> QED
      BY <1>4, <1>5, <1>8, <2>1, <3>1 DEF InMonth
  <2>3. DayNumber(now) < FirstDay(s) + 28 + k - 1
    BY <1>3, <1>4, <1>5, <1>6, <2>2
  <2>4. m = s + 1
    <3> SUFFICES ASSUME s + 1 < m PROVE FALSE
      BY <1>4, <1>5, <1>11
    <3>1. FirstDay(s + 1) + DaysIn(s + 1) <= FirstDay(m) /\ DaysIn(s + 1) \in Nat /\ DaysIn(s + 1) >= 28
      <4>1. s + 1 \in Nat
        BY <1>4
      <4>2. FirstDay(s + 1) + DaysIn(s + 1) <= FirstDay(m)
        BY <1>5, <4>1, MonthsInOrder
      <4> QED
        BY <4>1, <4>2, FirstDayBounds
    <3> QED
      BY <1>3, <1>4, <1>5, <1>8, <2>3, <3>1 DEF InMonth
  <2>5. ~(LocalTime(now).mday >= k)
    BY <1>3, <1>4, <1>5, <1>8, <2>1, <2>3
  <2> QED
    BY <1>1, <1>4, <1>7, <2>2, <2>4, <2>5 DEF s, b
<1> QED
  BY <1>4, <1>5, <1>9, <1>10, <1>11

\* As long as the runner is in time, no period is left out and none is rung in
\* twice, though the next time point is computed from the clock.
THEOREM EveryPeriodOnce ==
    ASSUME KeepToCalendar, InTime PROVE Spec => OncePerPeriod
<1>1. AlarmInv /\ [Next]_vars
        => [PutBack /\ EveryFewMonths => MonthOf(slot') = MonthOf(slot) + MonthsBetween]_vars
  BY OncePerPeriodStep
<1> QED
  BY <1>1, AlarmInvariant, PTL DEF Spec, OncePerPeriod

-----------------------------------------------------------------------------
(* Time points as text.                                                     *)

\* The units of the code, and its years of 365 days.
RealUnits == Width = 3 /\ PerMinute = 60 /\ PerHour = 60 /\ PerDay = 24 /\ PerYear = 365
USE DEF RealUnits

LEMMA UnitSizes ==
    ASSUME RealUnits
    PROVE  /\ K = 1000 /\ Micro = 1000 /\ Milli = 1000000 /\ Second = 1000000000
           /\ Minute = 60000000000 /\ Hour = 3600000000000 /\ Day = 86400000000000
           /\ Year = 31536000000000000
<1>1. K = 1000
  BY DEF K
<1> QED
  BY <1>1, SMT DEF Micro, Milli, Second, Minute, Hour, Day, Year

LEMMA Fractions ==
    ASSUME NEW tp \in Nat
    PROVE  LET s  == tp \div 1000000000
               ms == (tp \div 1000000) % 1000
               us == (tp \div 1000) % 1000
               ns == tp % 1000
           IN  /\ s \in Nat /\ ms \in 0..999 /\ us \in 0..999 /\ ns \in 0..999
               /\ tp \div 1000000 = s * 1000 + ms
               /\ tp \div 1000 = s * 1000000 + (ms * 1000 + us)
               /\ tp = s * 1000000000 + ((ms * 1000 + us) * 1000 + ns)
BY SMT

\* The text of a time point in a zone and to a precision.
Exact(shown, tp, zone, precision) ==
    /\ shown.zone = zone
    /\ shown.fraction.digits = DigitsOf(precision)
    /\ LET left == 10 ^ (3 * 3 - DigitsOf(precision))
       IN  shown.seconds * (Second \div left) + shown.fraction.n = tp \div left

LEMMA PointsExact ==
    ASSUME RealUnits, NEW tp \in Nat, NEW zone, NEW precision \in Precisions
    PROVE  /\ Exact(SerializeTimePoint(tp, zone, precision), tp, zone, precision)
           /\ Exact(SerializeClock(tp, zone, precision), tp, zone, precision)
<1> DEFINE s  == tp \div 1000000000
           ms == (tp \div 1000000) % 1000
           us == (tp \div 1000) % 1000
           ns == tp % 1000
           point == SerializeTimePoint(tp, zone, precision)
           clock == SerializeClock(tp, zone, precision)
<1> SUFFICES /\ Exact(point, tp, zone, precision)
             /\ Exact(clock, tp, zone, precision)
  OBVIOUS
<1>0. Second = 1000000000 /\ Milli = 1000000 /\ Micro = 1000 /\ K = 1000
  BY UnitSizes, SMT
<1>1. /\ s \in Nat /\ ms \in 0..999 /\ us \in 0..999 /\ ns \in 0..999
      /\ tp \div 1000000 = s * 1000 + ms
      /\ tp \div 1000 = s * 1000000 + (ms * 1000 + us)
      /\ tp = s * 1000000000 + ((ms * 1000 + us) * 1000 + ns)
  BY Fractions
<1>2. /\ FractionOf(tp, Milli) = ms /\ FractionOf(tp, Micro) = us
      /\ FractionOf(tp, 1) = ns
  <2>1. tp \div 1 = tp
    BY SMT
  <2> QED
    BY <2>1, <1>0, SMT DEF FractionOf
<1>3. InNsec(tp) = (ms * 1000 + us) * 1000 + ns
  BY <1>2, <1>0, SMT DEF InNsec
<1>4. point.zone = zone /\ clock.zone = zone /\ point.seconds = s /\ clock.seconds = s
  BY <1>0, SMT DEF SerializeTimePoint, SerializeClock
<1> HIDE DEF s, ms, us, ns
<1>5. CASE precision = "ms"
  <2>1. DigitsOf(precision) = 3
    BY <1>5 DEF DigitsOf
  <2>2. point.fraction.n = ms /\ point.fraction.digits = 3
    BY <1>2, <1>5 DEF SerializeTimePoint, Padded
  <2>3. clock.fraction.n = InNsec(tp) \div 1000000 /\ clock.fraction.digits = 3
    BY <1>5, <1>0, SMT DEF SerializeClock
  <2>4. InNsec(tp) \div 1000000 = ms
    BY <1>1, <1>3
  <2>5. 10 ^ (3 * 3 - 3) = 1000000 /\ 1000000000 \div 1000000 = 1000
    BY SMT
  <2>6. 10 ^ (3 * 3 - DigitsOf(precision)) = 1000000
    BY <2>1, <2>5, SMT
  <2> HIDE DEF point, clock
  <2>7. point.seconds * (Second \div 1000000) + point.fraction.n = tp \div 1000000
    BY <1>0, <1>1, <1>4, <2>2, <2>5, SMT
  <2>8. clock.seconds * (Second \div 1000000) + clock.fraction.n = tp \div 1000000
    BY <1>0, <1>1, <1>4, <2>3, <2>4, <2>5, SMT
  <2> QED
    BY <1>4, <2>1, <2>2, <2>3, <2>6, <2>7, <2>8, SMT DEF Exact
<1>6. CASE precision = "us"
  <2>1. DigitsOf(precision) = 6
    BY <1>6 DEF DigitsOf
  <2>2. point.fraction.n = ms * 1000 + us /\ point.fraction.digits = 6
    BY <1>1, <1>2, <1>6 DEF SerializeTimePoint, Padded, Joined
  <2>3. clock.fraction.n = InNsec(tp) \div 1000 /\ clock.fraction.digits = 6
    BY <1>6, <1>0, SMT DEF SerializeClock
  <2>4. InNsec(tp) \div 1000 = ms * 1000 + us
    BY <1>1, <1>3
  <2>5. 10 ^ (3 * 3 - 6) = 1000 /\ 1000000000 \div 1000 = 1000000
    BY SMT
  <2>6. 10 ^ (3 * 3 - DigitsOf(precision)) = 1000
    BY <2>1, <2>5, SMT
  <2> HIDE DEF point, clock
  <2>7. point.seconds * (Second \div 1000) + point.fraction.n = tp \div 1000
    BY <1>0, <1>1, <1>4, <2>2, <2>5, SMT
  <2>8. clock.seconds * (Second \div 1000) + clock.fraction.n = tp \div 1000
    BY <1>0, <1>1, <1>4, <2>3, <2>4, <2>5, SMT
  <2> QED
    BY <1>4, <2>1, <2>2, <2>3, <2>6, <2>7, <2>8, SMT DEF Exact
<1>7. CASE precision = "ns"
  <2>1. DigitsOf(precision) = 9
    BY <1>7 DEF DigitsOf
  <2>2. point.fraction.n = (ms * 1000 + us) * 1000 + ns /\ point.fraction.digits = 9
    BY <1>1, <1>2, <1>7 DEF SerializeTimePoint, Padded, Joined
  <2>3. clock.fraction.n = InNsec(tp) /\ clock.fraction.digits = 9
    BY <1>7 DEF SerializeClock
  <2>4. 10 ^ (3 * 3 - 9) = 1 /\ 1000000000 \div 1 = 1000000000 /\ tp \div 1 = tp
    BY SMT
  <2>5. 10 ^ (3 * 3 - DigitsOf(precision)) = 1
    BY <2>1, <2>4, SMT
  <2> HIDE DEF point, clock
  <2>6. point.seconds * (Second \div 1) + point.fraction.n = tp \div 1
    BY <1>0, <1>1, <1>4, <2>2, <2>4, SMT
  <2>7. clock.seconds * (Second \div 1) + clock.fraction.n = tp \div 1
    BY <1>0, <1>1, <1>3, <1>4, <2>3, <2>4, SMT
  <2> QED
    BY <1>4, <2>1, <2>2, <2>3, <2>5, <2>6, <2>7, SMT DEF Exact
<1> QED
  BY <1>5, <1>6, <1>7, SMT DEF Precisions

-----------------------------------------------------------------------------
(* The flags.                                                               *)

Flags == [gmt : BOOLEAN, local : BOOLEAN, gmt_or_local : BOOLEAN, precision : Precisions]
Wishes == [zone : {"gmt", "local"}, precision : Precisions]
Agrees(fl, wish) == wish.zone = Zone(fl) /\ wish.precision = fl.precision

\* The flags are those wished for, in this scope and in each around it.
IomInv ==
    /\ flags \in Flags /\ wished \in Wishes /\ Agrees(flags, wished)
    /\ savers \in Seq(Flags) /\ wishes \in Seq(Wishes)
    /\ Len(savers) = Len(wishes)
    /\ \A i \in 1..Len(savers) : Agrees(savers[i], wishes[i])
    /\ text.of \in Nat /\ text.precision \in Precisions
    /\ Exact(text.shown, text.of, text.zone, text.precision)

LEMMA NothingPrinted ==
    ASSUME RealUnits
    PROVE  /\ NoText.of \in Nat /\ NoText.precision \in Precisions
           /\ Exact(NoText.shown, NoText.of, NoText.zone, NoText.precision)
<1>1. "us" \in Precisions
  BY DEF Precisions
<1>2. Exact(SerializeTimePoint(0, "gmt", "us"), 0, "gmt", "us")
  BY <1>1, PointsExact
<1> QED
  BY <1>1, <1>2 DEF NoText

LEMMA IomStarts ==
    ASSUME RealUnits
    PROVE  IomInit => IomInv
<1> SUFFICES ASSUME IomInit PROVE IomInv
  OBVIOUS
<1>1. flags \in Flags /\ wished \in Wishes /\ Agrees(flags, wished)
  BY DEF IomInit, Reset, Flags, Wishes, Agrees, Zone, Precisions
<1>2. /\ savers \in Seq(Flags) /\ wishes \in Seq(Wishes)
      /\ Len(savers) = 0 /\ Len(wishes) = 0
  BY DEF IomInit
<1> QED
  BY <1>1, <1>2, NothingPrinted DEF IomInit, IomInv

LEMMA SetKeeps ==
    ASSUME IomInv, NEW v \in Precisions \cup ZoneBits \cup {"clear"},
           NEW on \in BOOLEAN, v # "gmt_or_local" => on
    PROVE  /\ SetFlags(flags, v, on) \in Flags /\ Wish(v, on) \in Wishes
           /\ Agrees(SetFlags(flags, v, on), Wish(v, on))
<1>1. flags \in Flags /\ wished \in Wishes /\ Agrees(flags, wished)
  BY DEF IomInv
<1>2. CASE v = "clear"
  <2>1. SetFlags(flags, v, on) = Reset
    BY <1>2 DEF SetFlags, Precisions, ZoneBits
  <2>2. Wish(v, on) = [zone |-> "gmt", precision |-> "us"]
    BY <1>2 DEF Wish, Precisions
  <2> QED
    BY <2>1, <2>2 DEF Reset, Flags, Wishes, Agrees, Zone, Precisions
<1>3. CASE v \in Precisions
  <2>1. v # "clear" /\ v \notin ZoneBits
    BY <1>3 DEF Precisions, ZoneBits
  <2>2. SetFlags(flags, v, on)
          = [gmt |-> FALSE, local |-> FALSE, gmt_or_local |-> FALSE, precision |-> v]
    BY <1>3, <2>1 DEF SetFlags
  <2>3. Wish(v, on) = [zone |-> "local", precision |-> v]
    BY <1>3, <2>1 DEF Wish, ZoneBits
  <2> QED
    BY <1>3, <2>2, <2>3 DEF Flags, Wishes, Agrees, Zone
<1>4. CASE v = "gmt"
  BY <1>1, <1>4 DEF SetFlags, Wish, Flags, Wishes, Agrees, Zone, Precisions,
                    ZoneBits
<1>5. CASE v = "local"
  BY <1>1, <1>5 DEF SetFlags, Wish, Flags, Wishes, Agrees, Zone, Precisions,
                    ZoneBits
<1>6. CASE v = "gmt_or_local"
  BY <1>1, <1>6 DEF SetFlags, Wish, Flags, Wishes, Agrees, Zone, Precisions,
                    ZoneBits
<1> QED
  BY <1>2, <1>3, <1>4, <1>5, <1>6 DEF ZoneBits

LEMMA IomStep ==
    ASSUME RealUnits
    PROVE  IomInv /\ [IomNext]_iomVars => IomInv'
<1> SUFFICES ASSUME IomInv, [IomNext]_iomVars PROVE IomInv'
  OBVIOUS
<1>1. ASSUME NEW v \in Precisions \cup ZoneBits \cup {"clear"}, NEW on \in BOOLEAN,
             Set(v, on)
      PROVE  IomInv'
  <2>1. flags' \in Flags /\ wished' \in Wishes /\ Agrees(flags', wished')
    BY <1>1, SetKeeps DEF Set
  <2>2. UNCHANGED <<savers, wishes>> /\ text' = NoText
    BY <1>1 DEF Set
  <2> QED
    BY <2>1, <2>2, NothingPrinted DEF IomInv
<1>2. CASE OpenSaver
  <2>1. savers' = <<flags>> \o savers /\ wishes' = <<wished>> \o wishes
    BY <1>2 DEF OpenSaver
  <2>2. UNCHANGED <<flags, wished>> /\ text' = NoText
    BY <1>2 DEF OpenSaver
  <2>3. /\ savers' \in Seq(Flags) /\ wishes' \in Seq(Wishes)
        /\ Len(savers') = Len(savers) + 1 /\ Len(wishes') = Len(savers) + 1
        /\ \A i \in 1..(Len(savers) + 1) :
               /\ savers'[i] = (IF i = 1 THEN flags ELSE savers[i - 1])
               /\ wishes'[i] = (IF i = 1 THEN wished ELSE wishes[i - 1])
    BY <2>1 DEF IomInv
  <2>4. ASSUME NEW i \in 1..Len(savers')
        PROVE  Agrees(savers'[i], wishes'[i])
    <3>1. CASE i = 1
      BY <2>3, <3>1 DEF IomInv
    <3>2. CASE i # 1
      <4>1. i - 1 \in 1..Len(savers)
        BY <2>3, <3>2 DEF IomInv
      <4>2. Agrees(savers[i - 1], wishes[i - 1])
        BY <4>1 DEF IomInv
      <4> QED
        BY <2>3, <3>2, <4>1, <4>2
    <3> QED
      BY <3>1, <3>2
  <2> QED
    BY <2>2, <2>3, <2>4, NothingPrinted DEF IomInv
<1>3. CASE CloseSaver
  <2>1. /\ savers # <<>> /\ text' = NoText
        /\ flags' = Head(savers) /\ savers' = Tail(savers)
        /\ wished' = Head(wishes) /\ wishes' = Tail(wishes)
    BY <1>3 DEF CloseSaver
  <2>2. Len(savers) # 0 /\ wishes # <<>>
    BY <2>1 DEF IomInv
  <2>3. /\ flags' = savers[1] /\ wished' = wishes[1] /\ flags' \in Flags /\ wished' \in Wishes
        /\ savers' \in Seq(Flags) /\ wishes' \in Seq(Wishes)
        /\ Len(savers') = Len(savers) - 1 /\ Len(wishes') = Len(savers) - 1
        /\ \A i \in 1..(Len(savers) - 1) :
               savers'[i] = savers[i + 1] /\ wishes'[i] = wishes[i + 1]
    BY <2>1, <2>2 DEF IomInv
  <2>4. Agrees(flags', wished')
    BY <2>2, <2>3 DEF IomInv
  <2>5. ASSUME NEW i \in 1..Len(savers')
        PROVE  Agrees(savers'[i], wishes'[i])
    BY <2>3 DEF IomInv
  <2> QED
    BY <2>1, <2>3, <2>4, <2>5, NothingPrinted DEF IomInv
<1>4. ASSUME NEW tp \in Nat, PrintPoint(tp) \/ PrintClock(tp) \/ PrintToLocal(tp)
      PROVE  IomInv'
  <2>1. UNCHANGED <<flags, savers, wished, wishes>>
    BY <1>4 DEF PrintPoint, PrintClock, PrintToLocal
  <2>2. wished.precision \in Precisions /\ wished.precision = flags.precision
    BY DEF IomInv, Wishes, Agrees
  <2>3. /\ text'.of = tp /\ text'.precision = wished.precision
        /\ Exact(text'.shown, tp, text'.zone, wished.precision)
    <3>1. CASE PrintPoint(tp)
      <4>1. text' = [of |-> tp, zone |-> wished.zone, precision |-> wished.precision,
                     shown |-> SerializeTimePoint(tp, Zone(flags), wished.precision)]
        BY <2>2, <3>1 DEF PrintPoint, Printed
      <4>2. wished.zone = Zone(flags)
        BY DEF IomInv, Agrees
      <4> QED
        BY <2>2, <4>1, <4>2, PointsExact
    <3>2. CASE PrintClock(tp)
      <4>1. text' = [of |-> tp, zone |-> wished.zone, precision |-> wished.precision,
                     shown |-> SerializeClock(tp, Zone(flags), wished.precision)]
        BY <2>2, <3>2 DEF PrintClock, Printed
      <4>2. wished.zone = Zone(flags)
        BY DEF IomInv, Agrees
      <4> QED
        BY <2>2, <4>1, <4>2, PointsExact
    <3>3. CASE PrintToLocal(tp)
      <4> DEFINE fl == SetFlags(flags, "gmt_or_local", FALSE)
      <4>1. Zone(fl) = "local" /\ fl.precision = wished.precision
        <5>1. fl = [flags EXCEPT !["gmt_or_local"] = FALSE]
          BY DEF SetFlags, Precisions, ZoneBits
        <5>2. flags \in Flags
          BY DEF IomInv
        <5> HIDE DEF fl
        <5> QED
          BY <2>2, <5>1, <5>2 DEF Zone, Flags
      <4>2. text' = [of |-> tp, zone |-> "local", precision |-> wished.precision,
                     shown |-> SerializeTimePoint(tp, "local", wished.precision)]
        BY <3>3, <4>1 DEF PrintToLocal, Printed
      <4> QED
        BY <2>2, <4>2, PointsExact
    <3> QED
      BY <1>4, <3>1, <3>2, <3>3
  <2> QED
    BY <2>1, <2>2, <2>3 DEF IomInv
<1>5. CASE UNCHANGED iomVars
  BY <1>5 DEF IomInv, iomVars
<1> QED
  BY <1>1, <1>2, <1>3, <1>4, <1>5, TimesAssumption DEF IomNext

LEMMA IomInvariant ==
    ASSUME RealUnits
    PROVE  IomSpec => []IomInv
BY IomStarts, IomStep, PTL DEF IomSpec

\* PrintsAsWished: set_flags(), the savers and the printing of time points and
\* clocks, for every sequence of calls and every time point.
THEOREM PrintedAsWished ==
    ASSUME RealUnits
    PROVE  IomSpec => []PrintsAsWished
<1>1. IomInv => PrintsAsWished
  BY DEF IomInv, Exact, PrintsAsWished
<1> QED
  BY <1>1, IomInvariant, PTL

-----------------------------------------------------------------------------
(* Durations as text, in the calendar year of 365 days of the code.         *)

LEMMA DigitsCount ==
    ASSUME RealUnits, NEW n \in Nat, n < 1000
    PROVE  /\ Digits(n) \in 1..3
           /\ Digits(n) = 1 => n < 10
           /\ Digits(n) = 2 => n < 100
<1> DEFINE Counts(w) == n < 10 ^ w /\ (w > 1 => n >= 10 ^ (w - 1))
<1>1. PICK W : W = 1..(2 * 3)
  BY Zenon
<1>2. \E w \in W : Counts(w)
  <2>1. CASE n < 10
    <3>1. 1 \in W /\ Counts(1)
      BY <1>1, <2>1, SMT
    <3> QED
      BY <3>1, Zenon
  <2>2. CASE n >= 10 /\ n < 100
    <3>1. 2 \in W /\ Counts(2)
      BY <1>1, <2>2, SMT
    <3> QED
      BY <3>1, Zenon
  <2>3. CASE n >= 100
    <3>1. 3 \in W /\ Counts(3)
      BY <1>1, <2>3, SMT
    <3> QED
      BY <3>1, Zenon
  <2> QED
    BY <2>1, <2>2, <2>3, SMT
<1>3. Digits(n) = CHOOSE w \in W : Counts(w)
  BY <1>1, SMT DEF Digits
<1>4. Digits(n) \in W /\ Counts(Digits(n))
  <2> HIDE DEF Counts
  <2> QED
    BY <1>2, <1>3, Zenon
<1>5. ~Counts(4) /\ ~Counts(5) /\ ~Counts(6)
  BY SMT
<1>6. Counts(1) => n < 10
  BY SMT
<1>7. Counts(2) => n < 100
  BY SMT
<1>8. Digits(n) \in 1..3
  <2>1. PICK w : w = Digits(n)
    BY SMT
  <2>2. w \in W /\ Counts(w)
    BY <1>4, <2>1, SMT
  <2> HIDE DEF Counts
  <2> QED
    BY <1>1, <1>5, <2>1, <2>2, SMT
<1> HIDE DEF Counts
<1> QED
  BY <1>4, <1>6, <1>7, <1>8, SMT

LEMMA UnitsPositive ==
    ASSUME RealUnits
    PROVE  /\ Year \in Nat \ {0} /\ Day \in Nat \ {0} /\ Hour \in Nat \ {0}
           /\ Minute \in Nat \ {0} /\ Second \in Nat \ {0} /\ Milli \in Nat \ {0}
           /\ Micro \in Nat \ {0}
BY UnitSizes, SMT

Cut(x, n, count, left) == /\ count \in Nat /\ left \in Nat /\ left < n
                          /\ x = count * n + left

LEMMA Cuts ==
    ASSUME NEW x \in Nat, NEW n \in Nat \ {0}
    PROVE  Cut(x, n, x \div n, x % n)
BY SMT DEF Cut

LEMMA Remainders ==
    ASSUME RealUnits, NEW d \in Nat
    PROVE  LET l1 == d % Year
               l2 == l1 % Day
               l3 == l2 % Hour
               l4 == l3 % Minute
               l5 == l4 % Second
               l6 == l5 % Milli
               l7 == l6 % Micro
           IN  /\ d \div Year \in Nat /\ l1 \div Day \in Nat /\ l2 \div Hour \in Nat
               /\ l3 \div Minute \in Nat /\ l4 \div Second \in Nat
               /\ l5 \div Milli \in Nat /\ l6 \div Micro \in Nat /\ l7 \in Nat
               /\ l5 \div Milli < 1000 /\ l6 \div Micro < 1000 /\ l7 < 1000
               /\ l7 \div 1 = l7
               /\ d = (d \div Year) * Year + (l1 \div Day) * Day
                        + (l2 \div Hour) * Hour + (l3 \div Minute) * Minute
                        + (l4 \div Second) * Second
                        + ((l5 \div Milli) * Milli + ((l6 \div Micro) * Micro + l7))
<1> DEFINE l1 == d % Year
           l2 == l1 % Day
           l3 == l2 % Hour
           l4 == l3 % Minute
           l5 == l4 % Second
           l6 == l5 % Milli
           l7 == l6 % Micro
           c1 == d \div Year
           c2 == l1 \div Day
           c3 == l2 \div Hour
           c4 == l3 \div Minute
           c5 == l4 \div Second
           c6 == l5 \div Milli
           c7 == l6 \div Micro
<1>1. Cut(d, Year, c1, l1) /\ l1 \in Nat
  <2>1. Cut(d, Year, c1, l1)
    BY Cuts, UnitsPositive
  <2> QED
    BY <2>1, Zenon DEF Cut
<1>2. Cut(l1, Day, c2, l2) /\ l2 \in Nat
  <2>1. Cut(l1, Day, c2, l2)
    BY <1>1, Cuts, UnitsPositive
  <2> QED
    BY <2>1, Zenon DEF Cut
<1>3. Cut(l2, Hour, c3, l3) /\ l3 \in Nat
  <2>1. Cut(l2, Hour, c3, l3)
    BY <1>2, Cuts, UnitsPositive
  <2> QED
    BY <2>1, Zenon DEF Cut
<1>4. Cut(l3, Minute, c4, l4) /\ l4 \in Nat
  <2>1. Cut(l3, Minute, c4, l4)
    BY <1>3, Cuts, UnitsPositive
  <2> QED
    BY <2>1, Zenon DEF Cut
<1>5. Cut(l4, Second, c5, l5) /\ l5 \in Nat
  <2>1. Cut(l4, Second, c5, l5)
    BY <1>4, Cuts, UnitsPositive
  <2> QED
    BY <2>1, Zenon DEF Cut
<1>6. Cut(l5, Milli, c6, l6) /\ l6 \in Nat
  <2>1. Cut(l5, Milli, c6, l6)
    BY <1>5, Cuts, UnitsPositive
  <2> QED
    BY <2>1, Zenon DEF Cut
<1>7. Cut(l6, Micro, c7, l7) /\ l7 \in Nat
  <2>1. Cut(l6, Micro, c7, l7)
    BY <1>6, Cuts, UnitsPositive
  <2> QED
    BY <2>1, Zenon DEF Cut
<1>8. l7 \div 1 = l7
  BY <1>7, SMT
<1> HIDE DEF l1, l2, l3, l4, l5, l6, l7, c1, c2, c3, c4, c5, c6, c7
<1>9. /\ c1 \in Nat /\ c2 \in Nat /\ c3 \in Nat /\ c4 \in Nat /\ c5 \in Nat
      /\ c6 \in Nat /\ c7 \in Nat
  BY <1>1, <1>2, <1>3, <1>4, <1>5, <1>6, <1>7, Zenon DEF Cut
<1>10. c6 < 1000 /\ c7 < 1000 /\ l7 < 1000
  <2>1. l5 < 1000000000 /\ l6 < 1000000 /\ l7 < 1000
    BY <1>5, <1>6, <1>7, UnitSizes, SMT DEF Cut
  <2>2. l5 = c6 * 1000000 + l6 /\ l6 = c7 * 1000 + l7
    BY <1>6, <1>7, UnitSizes, SMT DEF Cut
  <2> QED
    BY <1>5, <1>6, <1>7, <1>9, <2>1, <2>2, SMT
<1>11. d = c1 * Year + c2 * Day + c3 * Hour + c4 * Minute + c5 * Second
             + (c6 * Milli + (c7 * Micro + l7))
  <2>1. /\ d = c1 * Year + l1 /\ l1 = c2 * Day + l2 /\ l2 = c3 * Hour + l3
        /\ l3 = c4 * Minute + l4 /\ l4 = c5 * Second + l5
        /\ l5 = c6 * Milli + l6 /\ l6 = c7 * Micro + l7
    BY <1>1, <1>2, <1>3, <1>4, <1>5, <1>6, <1>7, Zenon DEF Cut
  <2>2. ASSUME NEW a \in Nat, NEW b \in Nat PROVE a * b \in Nat
    BY <2>2, SMT
  <2>3. /\ c1 * Year \in Nat /\ c2 * Day \in Nat /\ c3 * Hour \in Nat
        /\ c4 * Minute \in Nat /\ c5 * Second \in Nat /\ c6 * Milli \in Nat
        /\ c7 * Micro \in Nat
    BY <1>9, <2>2, UnitsPositive, SMT
  <2> QED
    BY <1>1, <1>2, <1>3, <1>4, <1>5, <1>6, <1>7, <2>1, <2>3, SMT
<1> QED
  BY <1>7, <1>8, <1>9, <1>10, <1>11, Zenon DEF l1, l2, l3, l4, l5, l6, l7, c1, c2, c3, c4, c5, c6, c7

LEMMA BreakDowns ==
    ASSUME RealUnits, NEW d \in Nat
    PROVE  LET c == BreakDown(Units, d)
           IN  /\ c \in [1..8 -> Nat]
               /\ c[6] < 1000 /\ c[7] < 1000 /\ c[8] < 1000
               /\ d = c[1] * Year + c[2] * Day + c[3] * Hour + c[4] * Minute
                        + c[5] * Second + (c[6] * Milli + (c[7] * Micro + c[8]))
<1>1. PICK u : u = Units
  BY Zenon
<1>2. PICK I : I = 0..8
  BY Zenon
<1>3. PICK D : D = 1..8
  BY Zenon
<1>4. /\ Len(u) = 8 /\ DOMAIN u = D /\ u[1] = Year /\ u[2] = Day
      /\ u[3] = Hour /\ u[4] = Minute /\ u[5] = Second
      /\ u[6] = Milli /\ u[7] = Micro /\ u[8] = 1
  BY <1>1, <1>3, SMT DEF Units
<1> DEFINE Rec(h) == h = [i \in 0..Len(u) |-> IF i = 0 THEN d ELSE h[i - 1] % u[i]]
           l1 == d % Year
           l2 == l1 % Day
           l3 == l2 % Hour
           l4 == l3 % Minute
           l5 == l4 % Second
           l6 == l5 % Milli
           l7 == l6 % Micro
           l8 == l7 % 1
<1>5. PICK s : s = <<d, l1, l2, l3, l4, l5, l6, l7, l8>>
  BY Zenon
<1>6. PICK g : g = [i \in I |-> s[i + 1]]
  BY Zenon
<1>7. /\ \A i : i \in I <=> \/ i = 0 \/ i = 1 \/ i = 2 \/ i = 3 \/ i = 4
                            \/ i = 5 \/ i = 6 \/ i = 7 \/ i = 8
      /\ \A i : i \in D <=> \/ i = 1 \/ i = 2 \/ i = 3 \/ i = 4
                            \/ i = 5 \/ i = 6 \/ i = 7 \/ i = 8
  BY <1>2, <1>3, SMT
<1>8. /\ 0 + 1 = 1 /\ 1 + 1 = 2 /\ 2 + 1 = 3 /\ 3 + 1 = 4 /\ 4 + 1 = 5 /\ 5 + 1 = 6
      /\ 6 + 1 = 7 /\ 7 + 1 = 8 /\ 8 + 1 = 9
      /\ 1 - 1 = 0 /\ 2 - 1 = 1 /\ 3 - 1 = 2 /\ 4 - 1 = 3 /\ 5 - 1 = 4 /\ 6 - 1 = 5
      /\ 7 - 1 = 6 /\ 8 - 1 = 7
      /\ 1 # 0 /\ 2 # 0 /\ 3 # 0 /\ 4 # 0 /\ 5 # 0 /\ 6 # 0 /\ 7 # 0 /\ 8 # 0
  BY SMT
<1>9. /\ s[1] = d /\ s[2] = l1 /\ s[3] = l2 /\ s[4] = l3 /\ s[5] = l4 /\ s[6] = l5
      /\ s[7] = l6 /\ s[8] = l7 /\ s[9] = l8
  <2> HIDE DEF l1, l2, l3, l4, l5, l6, l7, l8
  <2> QED
    BY <1>5, SMT
<1>10. Rec(g)
  <2>1. /\ g[0] = d /\ g[1] = l1 /\ g[2] = l2 /\ g[3] = l3 /\ g[4] = l4 /\ g[5] = l5
        /\ g[6] = l6 /\ g[7] = l7 /\ g[8] = l8
    <3> HIDE DEF l1, l2, l3, l4, l5, l6, l7, l8
    <3> QED
      BY <1>6, <1>7, <1>8, <1>9, Zenon
  <2>2. ASSUME NEW i \in I PROVE s[i + 1] = (IF i = 0 THEN d ELSE g[i - 1] % u[i])
    <3>1. /\ s[2] = g[0] % u[1] /\ s[3] = g[1] % u[2] /\ s[4] = g[2] % u[3]
          /\ s[5] = g[3] % u[4] /\ s[6] = g[4] % u[5] /\ s[7] = g[5] % u[6]
          /\ s[8] = g[6] % u[7] /\ s[9] = g[7] % u[8]
      BY <1>4, <1>9, <2>1, Zenon
    <3>2. \/ i = 0 \/ i = 1 \/ i = 2 \/ i = 3 \/ i = 4 \/ i = 5 \/ i = 6 \/ i = 7 \/ i = 8
      BY <1>7, <2>2, Zenon
    <3> HIDE DEF l1, l2, l3, l4, l5, l6, l7, l8
    <3> QED
      BY <1>8, <1>9, <3>1, <3>2, Zenon
  <2>3. g = [i \in I |-> IF i = 0 THEN d ELSE g[i - 1] % u[i]]
    BY <1>6, <2>2, Zenon
  <2> QED
    BY <1>2, <1>4, <2>3, Zenon
<1>11. PICK f : f = CHOOSE h : Rec(h)
  BY Zenon
<1>12. Rec(f)
  <2> HIDE DEF Rec
  <2> QED
    BY <1>10, <1>11, Zenon
<1> DEFINE c == BreakDown(Units, d)
<1>13. PICK b : b = c
  BY Zenon
<1>14. c = [i \in DOMAIN u |-> f[i - 1] \div u[i]]
  <2>1. b = [i \in DOMAIN u |-> f[i - 1] \div u[i]]
    BY <1>1, <1>11, <1>13 DEF BreakDown
  <2> QED
    BY <1>13, <2>1, Zenon
<1> HIDE DEF c
<1>15. f = [i \in I |-> IF i = 0 THEN d ELSE f[i - 1] % u[i]]
  BY <1>2, <1>4, <1>12, Zenon
<1>16. /\ f[0] = d /\ f[1] = f[0] % u[1] /\ f[2] = f[1] % u[2] /\ f[3] = f[2] % u[3]
       /\ f[4] = f[3] % u[4] /\ f[5] = f[4] % u[5] /\ f[6] = f[5] % u[6]
       /\ f[7] = f[6] % u[7]
  <2>1. \A i \in I : f[i] = (IF i = 0 THEN d ELSE f[i - 1] % u[i])
    BY <1>15, Zenon
  <2> QED
    BY <1>7, <1>8, <2>1, Zenon
<1>17. /\ f[0] = d /\ f[1] = l1 /\ f[2] = l2 /\ f[3] = l3 /\ f[4] = l4 /\ f[5] = l5
       /\ f[6] = l6 /\ f[7] = l7
  BY <1>4, <1>16, Zenon
<1>18. /\ c[1] = d \div Year /\ c[2] = l1 \div Day /\ c[3] = l2 \div Hour
       /\ c[4] = l3 \div Minute /\ c[5] = l4 \div Second /\ c[6] = l5 \div Milli
       /\ c[7] = l6 \div Micro /\ c[8] = l7 \div 1
  <2>1. \A i \in D : c[i] = f[i - 1] \div u[i]
    BY <1>4, <1>14, Zenon
  <2> HIDE DEF l1, l2, l3, l4, l5, l6, l7
  <2> QED
    BY <1>4, <1>7, <1>8, <1>17, <2>1, Zenon
<1>19. /\ d \div Year \in Nat /\ l1 \div Day \in Nat /\ l2 \div Hour \in Nat
       /\ l3 \div Minute \in Nat /\ l4 \div Second \in Nat
       /\ l5 \div Milli \in Nat /\ l6 \div Micro \in Nat /\ l7 \in Nat
       /\ l5 \div Milli < 1000 /\ l6 \div Micro < 1000 /\ l7 < 1000
               /\ l7 \div 1 = l7
       /\ d = (d \div Year) * Year + (l1 \div Day) * Day
                + (l2 \div Hour) * Hour + (l3 \div Minute) * Minute
                + (l4 \div Second) * Second
                + ((l5 \div Milli) * Milli + ((l6 \div Micro) * Micro + l7))
  BY Remainders
<1> HIDE DEF l1, l2, l3, l4, l5, l6, l7
<1>20. /\ c[1] \in Nat /\ c[2] \in Nat /\ c[3] \in Nat /\ c[4] \in Nat /\ c[5] \in Nat
       /\ c[6] \in Nat /\ c[7] \in Nat /\ c[8] \in Nat
       /\ c[6] < 1000 /\ c[7] < 1000 /\ c[8] < 1000
  BY <1>18, <1>19, SMT
<1>21. c \in [D -> Nat]
  <2>1. \A i \in D : f[i - 1] \div u[i] \in Nat
    <3>1. \A i \in D : c[i] \in Nat
      BY <1>7, <1>20, Zenon
    <3> QED
      BY <1>4, <1>14, <3>1, Zenon
  <2> QED
    BY <1>4, <1>14, <2>1, Zenon
<1>22. d = c[1] * Year + c[2] * Day + c[3] * Hour + c[4] * Minute
             + c[5] * Second + (c[6] * Milli + (c[7] * Micro + c[8]))
  BY <1>18, <1>19, SMT
<1> HIDE DEF l8
<1>23. c \in [1..8 -> Nat]
  BY <1>3, <1>21, Zenon
<1> QED
  BY <1>20, <1>22, <1>23, Zenon DEF c

\* The groups of what is less than a second, and what a reader takes them for.
Groups(ms, us, ns, long) ==
    LET Group(n) == IF long THEN Padded(n) ELSE Plain(n)
        If(n, group) == IF n # 0 THEN <<group>> ELSE <<>>
    IN  If(ms, Group(ms)) \o If(us, Group(us)) \o If(ns, Padded(ns))

RestOf(g, unit) ==
    LET Width2 == IF Len(g) > 1 THEN g[2].digits ELSE 0
        Width3 == IF Len(g) > 2 THEN g[3].digits ELSE 0
        Worth(i, digits) == IF i > Len(g) THEN 0 ELSE (g[i].n * unit) \div 10 ^ digits
    IN  Worth(1, 0) + Worth(2, Width2) + Worth(3, Width2 + Width3)

LEMMA JoinsOf ==
    ASSUME NEW a, NEW b, NEW e
    PROVE  <<a>> \o <<b>> = <<a, b>> /\ <<a, b>> \o <<e>> = <<a, b, e>>
           /\ <<a>> \o <<>> = <<a>> /\ <<>> \o <<a>> = <<a>>
           /\ <<a, b>> \o <<>> = <<a, b>> /\ <<>> \o <<>> = <<>>
<1>1. PICK S : S = {a, b, e}
  BY Zenon
<1>2. a \in S /\ b \in S /\ e \in S
  BY <1>1
<1>3. <<>> \in Seq(S) /\ \A x \in S : <<x>> \in Seq(S)
  BY SMT
<1>4. \A x \in S, y \in S : <<x, y>> \in Seq(S) /\ <<x>> \o <<y>> = <<x, y>>
  <2>1. ASSUME NEW x \in S, NEW y \in S
        PROVE  <<x, y>> \in Seq(S) /\ <<x>> \o <<y>> = <<x, y>>
    <3>1. PICK s : s = <<x, y>>
      BY Zenon
    <3>2. PICK t : t = <<x>> \o <<y>>
      BY Zenon
    <3>3. s \in Seq(S) /\ Len(s) = 2 /\ s[1] = x /\ s[2] = y
      BY <3>1, SMT
    <3>4. t \in Seq(S) /\ Len(t) = 2 /\ t[1] = x /\ t[2] = y
      BY <3>2, SMT
    <3>5. s = t
      BY <3>3, <3>4, SeqEqual
    <3> QED
      BY <3>1, <3>2, <3>3, <3>5, Zenon
  <2> QED
    BY <2>1, Zenon
<1>5. <<a, b>> \o <<e>> = <<a, b, e>>
  <2>1. PICK s : s = <<a, b, e>>
    BY Zenon
  <2>2. PICK u \in Seq(S) : u = <<a, b>>
    BY <1>2, <1>4
  <2>3. PICK t : t = u \o <<e>>
    BY Zenon
  <2>4. s \in Seq(S) /\ Len(s) = 3 /\ s[1] = a /\ s[2] = b /\ s[3] = e
    BY <1>2, <2>1, SMT
  <2>5. Len(u) = 2 /\ u[1] = a /\ u[2] = b
    BY <2>2, SMT
  <2>6. t \in Seq(S) /\ Len(t) = 3 /\ t[1] = a /\ t[2] = b /\ t[3] = e
    <3>1. PICK v \in Seq(S) : v = <<e>>
      BY <1>2, <1>3
    <3>2. Len(v) = 1 /\ v[1] = e
      BY <3>1, SMT
    <3>3. /\ u \o v \in Seq(S) /\ Len(u \o v) = Len(u) + Len(v)
          /\ \A i \in 1..(Len(u) + Len(v)) :
                 (u \o v)[i] = IF i <= Len(u) THEN u[i] ELSE v[i - Len(u)]
      BY ConcatProperties
    <3>4. t = u \o v
      BY <2>3, <3>1, Zenon
    <3> QED
      BY <2>5, <3>2, <3>3, <3>4, SMT
  <2>7. s = t
    BY <2>4, <2>6, SeqEqual
  <2> QED
    BY <2>1, <2>2, <2>3, <2>7, Zenon
<1>6. \A s \in Seq(S) : s \o <<>> = s /\ <<>> \o s = s
  BY ConcatEmptySeq, Zenon
<1> QED
  BY <1>2, <1>3, <1>4, <1>5, <1>6, Zenon

LEMMA Joins ==
    /\ \A x, y : <<x>> \o <<y>> = <<x, y>> /\ <<x, y>> \o <<>> = <<x, y>>
    /\ \A x, y, z : <<x, y>> \o <<z>> = <<x, y, z>>
    /\ \A x : <<x>> \o <<>> = <<x>> /\ <<>> \o <<x>> = <<x>>
    /\ <<>> \o <<>> = <<>>
BY JoinsOf, Zenon

LEMMA NoGroup ==
    ASSUME NEW unit \in Nat
    PROVE  RestOf(<<>>, unit) = 0
BY SMT DEF RestOf

LEMMA OneGroup ==
    ASSUME NEW unit \in Nat, NEW a, a.n \in Nat
    PROVE  RestOf(<<a>>, unit) = a.n * unit
<1>1. PICK x \in Nat : x = a.n * unit
  BY SMT
<1>2. RestOf(<<a>>, unit) = (a.n * unit) \div (10 ^ 0) + 0 + 0
  BY SMT DEF RestOf
<1>3. x \div (10 ^ 0) = x
  BY SMT
<1> QED
  BY <1>1, <1>2, <1>3, SMT

LEMMA TwoGroups ==
    ASSUME NEW unit \in Nat, NEW a, NEW b, a.n \in Nat, b.n \in Nat, b.digits \in 1..3
    PROVE  RestOf(<<a, b>>, unit) = a.n * unit + (b.n * unit) \div (10 ^ b.digits)
<1>1. PICK x \in Nat : x = a.n * unit
  BY SMT
<1>2. PICK y : y = (b.n * unit) \div (10 ^ b.digits)
  BY Zenon
<1>3. RestOf(<<a, b>>, unit) = x \div (10 ^ 0) + y + 0
  <2>1. PICK g : g = <<a, b>>
    BY Zenon
  <2>2. Len(g) = 2 /\ g[1] = a /\ g[2] = b
    BY <2>1, SMT
  <2>3. RestOf(g, unit) = (g[1].n * unit) \div (10 ^ 0) + (g[2].n * unit) \div (10 ^ g[2].digits) + 0
    BY <2>2, SMT DEF RestOf
  <2> QED
    BY <1>1, <1>2, <2>1, <2>2, <2>3, Zenon
<1>4. x \div (10 ^ 0) = x
  BY SMT
<1>5. y \in Int
  BY <1>2, SMT
<1> QED
  BY <1>1, <1>2, <1>3, <1>4, <1>5, SMT

LEMMA ThreeGroups ==
    ASSUME NEW unit \in Nat, NEW a, NEW b, NEW e, a.n \in Nat, b.n \in Nat, e.n \in Nat,
           b.digits \in 1..3, e.digits = 3
    PROVE  RestOf(<<a, b, e>>, unit)
             = a.n * unit + (b.n * unit) \div (10 ^ b.digits)
                 + (e.n * unit) \div (10 ^ (b.digits + 3))
<1>1. PICK x \in Nat : x = a.n * unit
  BY SMT
<1>2. PICK y : y = (b.n * unit) \div (10 ^ b.digits)
  BY Zenon
<1>3. PICK z : z = (e.n * unit) \div (10 ^ (b.digits + 3))
  BY Zenon
<1>4. RestOf(<<a, b, e>>, unit) = x \div (10 ^ 0) + y + z
  <2>1. PICK g : g = <<a, b, e>>
    BY Zenon
  <2>2. Len(g) = 3 /\ g[1] = a /\ g[2] = b /\ g[3] = e
    BY <2>1, SMT
  <2>3. RestOf(g, unit) = (g[1].n * unit) \div (10 ^ 0) + (g[2].n * unit) \div (10 ^ g[2].digits)
                            + (g[3].n * unit) \div (10 ^ (g[2].digits + g[3].digits))
    BY <2>2, SMT DEF RestOf
  <2> QED
    BY <1>1, <1>2, <1>3, <2>1, <2>2, <2>3, Zenon
<1>5. x \div (10 ^ 0) = x
  BY SMT
<1> QED
  BY <1>1, <1>2, <1>3, <1>4, <1>5, SMT

\* A reader gets what is less than a second, or the text is one of those that
\* say another duration.
LEMMA GroupsSay ==
    ASSUME RealUnits,
           NEW ms \in Nat, ms < 1000, NEW us \in Nat, us < 1000, NEW ns \in Nat, ns < 1000,
           NEW long \in BOOLEAN
    PROVE  /\ RestOf(Groups(ms, us, ns, long), FractionUnit(ms, us, ns)) \in Int
           /\ RestOf(Groups(ms, us, ns, long), FractionUnit(ms, us, ns))
               = ms * Milli + (us * Micro + ns)
             <=> ~(ms # 0 /\ (IF us = 0 THEN ns # 0 ELSE ~long /\ Digits(us) < 3))
<1> DEFINE Group(n) == IF long THEN Padded(n) ELSE Plain(n)
           a == Group(ms)
           b == Group(us)
           e == Padded(ns)
           w == b.digits
           rest == RestOf(Groups(ms, us, ns, long), FractionUnit(ms, us, ns))
<1>1. Milli = 1000000 /\ Micro = 1000
  BY UnitSizes, SMT
<1>2. a.n = ms /\ b.n = us /\ e.n = ns /\ e.digits = 3
  BY SMT DEF Padded, Plain
<1>3. w = (IF long THEN 3 ELSE Digits(us))
  BY SMT DEF Padded, Plain
<1>4. w \in 1..3
  BY <1>3, DigitsCount, SMT
<1>5. Groups(ms, us, ns, long) = (IF ms # 0 THEN <<a>> ELSE <<>>)
                                   \o (IF us # 0 THEN <<b>> ELSE <<>>)
                                   \o (IF ns # 0 THEN <<e>> ELSE <<>>)
  BY Zenon DEF Groups
<1> HIDE DEF a, b, e, w
<1>6. CASE ms = 0 /\ us = 0 /\ ns = 0
  <2>1. Groups(ms, us, ns, long) = <<>>
    BY <1>5, <1>6, Joins, Zenon
  <2>2. rest = 0
    BY <1>1, <2>1, NoGroup, SMT DEF FractionUnit
  <2> QED
    BY <1>1, <1>6, <2>2, SMT
<1>7. CASE ms # 0 /\ us = 0 /\ ns = 0
  <2>1. Groups(ms, us, ns, long) = <<a>>
    BY <1>5, <1>7, Joins, Zenon
  <2>2. FractionUnit(ms, us, ns) = 1000000
    BY <1>1, <1>7, SMT DEF FractionUnit
  <2>3. rest = ms * 1000000
    BY <1>2, <2>1, <2>2, OneGroup, SMT
  <2> QED
    BY <1>1, <1>7, <2>3, SMT
<1>8. CASE ms = 0 /\ us # 0 /\ ns = 0
  <2>1. Groups(ms, us, ns, long) = <<b>>
    BY <1>5, <1>8, Joins, Zenon
  <2>2. FractionUnit(ms, us, ns) = 1000
    BY <1>1, <1>8, SMT DEF FractionUnit
  <2>3. rest = us * 1000
    BY <1>2, <2>1, <2>2, OneGroup, SMT
  <2> QED
    BY <1>1, <1>8, <2>3, SMT
<1>9. CASE ms = 0 /\ us = 0 /\ ns # 0
  <2>1. Groups(ms, us, ns, long) = <<e>>
    BY <1>5, <1>9, Joins, Zenon
  <2>2. FractionUnit(ms, us, ns) = 1
    BY <1>1, <1>9, SMT DEF FractionUnit
  <2>3. rest = ns * 1
    BY <1>2, <2>1, <2>2, OneGroup, SMT
  <2> QED
    BY <1>1, <1>9, <2>3, SMT
<1>10. CASE ms # 0 /\ us # 0 /\ ns = 0
  <2>1. Groups(ms, us, ns, long) = <<a, b>>
    <3>1. Groups(ms, us, ns, long) = <<a>> \o <<b>> \o <<>>
      BY <1>5, <1>10, Zenon
    <3> QED
      BY Joins, <3>1, Zenon
  <2>2. FractionUnit(ms, us, ns) = 1000000
    BY <1>1, <1>10, SMT DEF FractionUnit
  <2>3. rest = ms * 1000000 + (us * 1000000) \div (10 ^ w)
    BY <1>2, <1>4, <2>1, <2>2, TwoGroups, SMT DEF w
  <2>4. (us * 1000000) \div (10 ^ 1) = us * 100000 /\ (us * 1000000) \div (10 ^ 2) = us * 10000
        /\ (us * 1000000) \div (10 ^ 3) = us * 1000
    BY SMT
  <2> HIDE DEF rest
  <2>5. CASE w = 3
    <3>1. rest = ms * 1000000 + us * 1000
      BY <2>3, <2>4, <2>5, SMT
    <3> QED
      BY <1>1, <1>3, <1>10, <2>5, <3>1, SMT DEF rest
  <2>6. CASE w = 2
    <3>1. rest = ms * 1000000 + us * 10000
      BY <2>3, <2>4, <2>6, SMT
    <3> QED
      BY <1>1, <1>3, <1>10, <2>6, <3>1, SMT DEF rest
  <2>7. CASE w = 1
    <3>1. rest = ms * 1000000 + us * 100000
      BY <2>3, <2>4, <2>7, SMT
    <3> QED
      BY <1>1, <1>3, <1>10, <2>7, <3>1, SMT DEF rest
  <2> QED
    BY <1>4, <2>5, <2>6, <2>7, SMT
<1>11. CASE ms # 0 /\ us = 0 /\ ns # 0
  <2>1. Groups(ms, us, ns, long) = <<a, e>>
    <3>1. Groups(ms, us, ns, long) = <<a>> \o <<>> \o <<e>>
      BY <1>5, <1>11, Zenon
    <3> QED
      BY Joins, <3>1, Zenon
  <2>2. FractionUnit(ms, us, ns) = 1000
    BY <1>1, <1>11, SMT DEF FractionUnit
  <2>3. rest = ms * 1000 + (ns * 1000) \div (10 ^ 3)
    <3>1. e.digits \in 1..3 /\ 10 ^ e.digits = 10 ^ 3
      BY <1>2, SMT
    <3>2. a.n \in Nat /\ e.n \in Nat
      BY <1>2
    <3>3. RestOf(<<a, e>>, 1000) = a.n * 1000 + (e.n * 1000) \div (10 ^ e.digits)
      BY <3>1, <3>2, TwoGroups, SMT
    <3>4. rest = a.n * 1000 + (e.n * 1000) \div (10 ^ 3)
      BY <2>1, <2>2, <3>1, <3>3, SMT
    <3> QED
      BY <1>2, <3>4, SMT
  <2>4. (ns * 1000) \div (10 ^ 3) = ns
    BY SMT
  <2> QED
    BY <1>1, <1>11, <2>3, <2>4, SMT
<1>12. CASE ms = 0 /\ us # 0 /\ ns # 0
  <2>1. Groups(ms, us, ns, long) = <<b, e>>
    <3>1. Groups(ms, us, ns, long) = <<>> \o <<b>> \o <<e>>
      BY <1>5, <1>12, Zenon
    <3> QED
      BY Joins, <3>1, Zenon
  <2>2. FractionUnit(ms, us, ns) = 1000
    BY <1>1, <1>12, SMT DEF FractionUnit
  <2>3. rest = us * 1000 + (ns * 1000) \div (10 ^ 3)
    <3>1. e.digits \in 1..3 /\ 10 ^ e.digits = 10 ^ 3
      BY <1>2, SMT
    <3>2. b.n \in Nat /\ e.n \in Nat
      BY <1>2
    <3>3. RestOf(<<b, e>>, 1000) = b.n * 1000 + (e.n * 1000) \div (10 ^ e.digits)
      BY <3>1, <3>2, TwoGroups, SMT
    <3>4. rest = b.n * 1000 + (e.n * 1000) \div (10 ^ 3)
      BY <2>1, <2>2, <3>1, <3>3, SMT
    <3> QED
      BY <1>2, <3>4, SMT
  <2>4. (ns * 1000) \div (10 ^ 3) = ns
    BY SMT
  <2> QED
    BY <1>1, <1>12, <2>3, <2>4, SMT
<1>13. CASE ms # 0 /\ us # 0 /\ ns # 0
  <2>1. Groups(ms, us, ns, long) = <<a, b, e>>
    <3>1. Groups(ms, us, ns, long) = <<a>> \o <<b>> \o <<e>>
      BY <1>5, <1>13, Zenon
    <3>2. <<a>> \o <<b>> = <<a, b>>
      BY Joins, Zenon
    <3>3. <<a, b>> \o <<e>> = <<a, b, e>>
      BY Joins, Zenon
    <3> QED
      BY <3>1, <3>2, <3>3, Zenon
  <2>2. FractionUnit(ms, us, ns) = 1000000
    BY <1>1, <1>13, SMT DEF FractionUnit
  <2>3. rest = ms * 1000000 + (us * 1000000) \div (10 ^ w)
                 + (ns * 1000000) \div (10 ^ (w + 3))
    BY <1>2, <1>4, <2>1, <2>2, ThreeGroups, SMT DEF w
  <2>4. (us * 1000000) \div (10 ^ 1) = us * 100000 /\ (us * 1000000) \div (10 ^ 2) = us * 10000
        /\ (us * 1000000) \div (10 ^ 3) = us * 1000
    BY SMT
  <2>5. (ns * 1000000) \div (10 ^ 4) = ns * 100 /\ (ns * 1000000) \div (10 ^ 5) = ns * 10
        /\ (ns * 1000000) \div (10 ^ 6) = ns
    BY SMT
  <2> HIDE DEF rest
  <2>6. CASE w = 3
    <3>1. rest = ms * 1000000 + us * 1000 + ns
      BY <2>3, <2>4, <2>5, <2>6, SMT
    <3> QED
      BY <1>1, <1>3, <1>13, <2>6, <3>1, SMT DEF rest
  <2>7. CASE w = 2
    <3>1. rest = ms * 1000000 + us * 10000 + ns * 10
      BY <2>3, <2>4, <2>5, <2>7, SMT
    <3> QED
      BY <1>1, <1>3, <1>13, <2>7, <3>1, SMT DEF rest
  <2>8. CASE w = 1
    <3>1. rest = ms * 1000000 + us * 100000 + ns * 100
      BY <2>3, <2>4, <2>5, <2>8, SMT
    <3> QED
      BY <1>1, <1>3, <1>13, <2>8, <3>1, SMT DEF rest
  <2> QED
    BY <1>4, <2>6, <2>7, <2>8, SMT
<1> QED
  BY <1>6, <1>7, <1>8, <1>9, <1>10, <1>11, <1>12, <1>13, Zenon

LEMMA DurationReadBack ==
    ASSUME RealUnits, NEW d \in Nat
    PROVE  ReadBack(FormatDuration(d)) = d <=> ~Misprinted(d)
<1> DEFINE c == BreakDown(Units, d)
           long == \E i \in 1..4 : c[i] # 0
           g == Groups(c[6], c[7], c[8], long)
           unit == FractionUnit(c[6], c[7], c[8])
           whole == c[1] * Year + c[2] * Day + c[3] * Hour + c[4] * Minute
                      + c[5] * Second
           rest == c[6] * Milli + (c[7] * Micro + c[8])
           t == FormatDuration(d)
<1>1. t = [counts |-> SubSeq(c, 1, 5), groups |-> g, unit |-> unit]
  BY Zenon DEF FormatDuration, Groups
<1>2. Misprinted(d)
        <=> c[6] # 0 /\ (IF c[7] = 0 THEN c[8] # 0 ELSE ~long /\ Digits(c[7]) < 3)
  BY Zenon DEF Misprinted
<1>3. /\ c \in [1..8 -> Nat] /\ c[6] < 1000 /\ c[7] < 1000 /\ c[8] < 1000
      /\ d = whole + rest
  BY BreakDowns, SMT
<1>4. /\ c[1] \in Nat /\ c[2] \in Nat /\ c[3] \in Nat /\ c[4] \in Nat /\ c[5] \in Nat
      /\ c[6] \in Nat /\ c[7] \in Nat /\ c[8] \in Nat
  <2>1. c \in [1..8 -> Nat]
    BY <1>3
  <2> HIDE DEF c
  <2> QED
    BY <2>1, SMT
<1>5. long \in BOOLEAN
  BY Zenon
<1>6. RestOf(g, unit) = rest
        <=> ~(c[6] # 0 /\ (IF c[7] = 0 THEN c[8] # 0 ELSE ~long /\ Digits(c[7]) < 3))
  <2> HIDE DEF c, long
  <2>1. \A i \in Nat, j \in Nat, k \in Nat, l \in BOOLEAN :
            i < 1000 /\ j < 1000 /\ k < 1000
              => (RestOf(Groups(i, j, k, l), FractionUnit(i, j, k))
                      = i * Milli + (j * Micro + k)
                    <=> ~(i # 0 /\ (IF j = 0 THEN k # 0 ELSE ~l /\ Digits(j) < 3)))
    BY GroupsSay
  <2> QED
    BY <1>3, <1>4, <1>5, <2>1, SMT
<1>7. /\ t.counts[1] = c[1] /\ t.counts[2] = c[2] /\ t.counts[3] = c[3]
      /\ t.counts[4] = c[4] /\ t.counts[5] = c[5] /\ t.groups = g /\ t.unit = unit
  <2>1. c \in [1..8 -> Nat]
    BY <1>3
  <2> HIDE DEF c, g, unit, t
  <2> QED
    BY <1>1, <2>1, SMT
<1>8. ReadBack(t) = whole + RestOf(g, unit)
  <2>1. ReadBack(t) = t.counts[1] * Year + t.counts[2] * Day + t.counts[3] * Hour
                           + t.counts[4] * Minute + t.counts[5] * Second
                           + RestOf(t.groups, t.unit)
    <3> HIDE DEF t
    <3> QED
      BY Zenon DEF ReadBack, RestOf
  <2> HIDE DEF c, g, unit, t
  <2> QED
    BY <1>7, <2>1, Zenon
<1>9. whole \in Nat /\ rest \in Nat
  <2>1. ASSUME NEW m \in Nat, NEW n \in Nat PROVE m * n \in Nat
    BY <2>1, SMT
  <2> HIDE DEF c
  <2> QED
    BY <1>4, <2>1, UnitsPositive, SMT
<1>10. RestOf(g, unit) \in Int
  <2> HIDE DEF c, long
  <2>1. \A i \in Nat, j \in Nat, k \in Nat, l \in BOOLEAN :
            i < 1000 /\ j < 1000 /\ k < 1000
              => RestOf(Groups(i, j, k, l), FractionUnit(i, j, k)) \in Int
    BY GroupsSay
  <2> QED
    BY <1>3, <1>4, <1>5, <2>1, Zenon
<1> HIDE DEF whole, rest, c, g, unit, t
<1>11. ReadBack(t) = d <=> RestOf(g, unit) = rest
  BY <1>3, <1>8, <1>9, <1>10, SMT
<1> QED
  BY <1>2, <1>6, <1>11, Zenon DEF t

LEMMA DurationsPrinted ==
    ASSUME RealUnits, text.of \in Nat
    PROVE  DurationsReadBack
<1> SUFFICES ASSUME NEW d \in DurationsOf(text.of)
             PROVE  /\ \E t \in HighResDuration(d, {}) :
                           ReadBack(t) = d <=> ~Misprinted(d)
                    /\ HighResDuration(d, {FALSE}) = {}
  BY DEF DurationsReadBack
<1>1. d \in Nat
  <2>1. PICK ns \in {0, 9},
             more \in {0, Second, Minute, Year + Day + Hour} :
                 d = text.of + ns + more
    BY SMT DEF DurationsOf
  <2>2. ns \in Nat /\ more \in Nat
    BY UnitsPositive, SMT
  <2> QED
    BY <2>1, <2>2, SMT
<1>2. HighResDuration(d, {}) = {FormatDuration(d)} /\ HighResDuration(d, {FALSE}) = {}
  BY Zenon DEF HighResDuration
<1> QED
  BY <1>1, <1>2, DurationReadBack, Zenon

-----------------------------------------------------------------------------
(* Dates as text.                                                           *)

\* A day a time is on, made with another time of the day.
LEMMA MadeOfDay ==
    ASSUME NEW t \in Nat, NEW tm, tm.mon = LocalTime(t).mon, tm.mday = LocalTime(t).mday
    PROVE  MkTime(tm) = DayNumber(t) * TicksPerDay + tm.tick
<1> DEFINE d == DayNumber(t)
           first == FirstDay(MonthOf(t))
<1>1. tm.mon = MonthOf(t) /\ MonthOf(t) \in Nat /\ tm.mday = d - first + 1
  BY LocalTimes, Zenon
<1>2. first \in Nat /\ d \in Nat
  BY <1>1, FirstDayBounds, DayNumbers
<1>3. MkTime(tm) = (first + (d - first + 1) - 1) * TicksPerDay + tm.tick
  BY <1>1, Zenon DEF MkTime
<1> HIDE DEF first, d
<1>4. first + (d - first + 1) - 1 = d
  BY <1>2
<1> QED
  BY <1>3, <1>4, Zenon DEF d

\* What the formats can read, and what they make of it.
LEMMA Readable ==
    ASSUME NEW said, Len(said) \in Nat
    PROVE  /\ CanParse(said, Dash) <=> Len(said) >= 1 /\ said[1].form = "dash"
           /\ CanParse(said, Slash) <=> Len(said) >= 1 /\ said[1].form = "slash"
           /\ CanParse(said, TimeOfDay) <=> Len(said) >= 1 /\ said[1].form = "clock"
           /\ CanParse(said, DashTime)
                <=> Len(said) >= 2 /\ said[1].form = "dash" /\ said[2].form = "clock"
           /\ CanParse(said, SlashTime)
                <=> Len(said) >= 2 /\ said[1].form = "slash" /\ said[2].form = "clock"
<1>1. /\ Len(Dash) = 1 /\ Dash[1] = "dash" /\ DOMAIN Dash = {1}
      /\ Len(Slash) = 1 /\ Slash[1] = "slash" /\ DOMAIN Slash = {1}
      /\ Len(TimeOfDay) = 1 /\ TimeOfDay[1] = "clock" /\ DOMAIN TimeOfDay = {1}
  BY DEF Dash, Slash, TimeOfDay
<1>2. /\ Len(DashTime) = 2 /\ DashTime[1] = "dash" /\ DashTime[2] = "clock"
      /\ DOMAIN DashTime = {1, 2}
      /\ Len(SlashTime) = 2 /\ SlashTime[1] = "slash" /\ SlashTime[2] = "clock"
      /\ DOMAIN SlashTime = {1, 2}
  BY DEF DashTime, SlashTime
<1> QED
  BY <1>1, <1>2, SMT DEF CanParse

LEMMA ReadParts ==
    ASSUME NEW tm, NEW said
    PROVE  /\ Parsed(tm, said, Dash)
                = [mon |-> said[1].mon, mday |-> said[1].mday, tick |-> tm.tick]
           /\ Parsed(tm, said, Slash)
                = [mon |-> said[1].mon, mday |-> said[1].mday, tick |-> tm.tick]
           /\ Parsed(tm, said, TimeOfDay)
                = [mon |-> tm.mon, mday |-> tm.mday, tick |-> said[1].tick]
           /\ Parsed(tm, said, DashTime)
                = [mon |-> said[1].mon, mday |-> said[1].mday, tick |-> said[2].tick]
<1>1. ASSUME NEW format, NEW form, form # "clock", DOMAIN format = {1}, format[1] = form
      PROVE  Parsed(tm, said, format)
               = [mon |-> said[1].mon, mday |-> said[1].mday, tick |-> tm.tick]
  <2>1. {i \in DOMAIN format : format[i] # "clock"} = {1}
    BY <1>1
  <2>2. DOMAIN format \ {1} = {}
    BY <1>1
  <2>3. (CHOOSE i \in {1} : TRUE) = 1
    OBVIOUS
  <2>4. {1} # {}
    OBVIOUS
  <2> QED
    BY <2>1, <2>2, <2>3, <2>4, Zenon DEF Parsed
<1>2. Parsed(tm, said, Dash)
        = [mon |-> said[1].mon, mday |-> said[1].mday, tick |-> tm.tick]
  <2>1. DOMAIN Dash = {1} /\ Dash[1] = "dash"
    BY DEF Dash
  <2> QED
    BY <1>1, <2>1
<1>3. Parsed(tm, said, Slash)
        = [mon |-> said[1].mon, mday |-> said[1].mday, tick |-> tm.tick]
  <2>1. DOMAIN Slash = {1} /\ Slash[1] = "slash"
    BY DEF Slash
  <2> QED
    BY <1>1, <2>1
<1>4. Parsed(tm, said, TimeOfDay)
        = [mon |-> tm.mon, mday |-> tm.mday, tick |-> said[1].tick]
  <2>1. PICK format : format = TimeOfDay
    OBVIOUS
  <2>2. DOMAIN format = {1} /\ format[1] = "clock"
    BY <2>1 DEF TimeOfDay
  <2>3. {i \in DOMAIN format : format[i] # "clock"} = {}
    BY <2>2
  <2>4. DOMAIN format \ {} = {1}
    BY <2>2
  <2>5. (CHOOSE i \in {1} : TRUE) = 1 /\ {1} # {}
    OBVIOUS
  <2>6. Parsed(tm, said, format)
          = [mon |-> tm.mon, mday |-> tm.mday, tick |-> said[1].tick]
    BY <2>3, <2>4, <2>5, Zenon DEF Parsed
  <2> QED
    BY <2>1, <2>6, Zenon
<1>5. Parsed(tm, said, DashTime)
        = [mon |-> said[1].mon, mday |-> said[1].mday, tick |-> said[2].tick]
  <2>1. PICK format : format = DashTime
    OBVIOUS
  <2>2. DOMAIN format = {1, 2} /\ format[1] = "dash" /\ format[2] = "clock"
    BY <2>1 DEF DashTime
  <2>3. {i \in DOMAIN format : format[i] # "clock"} = {1}
    BY <2>2
  <2>4. DOMAIN format \ {1} = {2}
    BY <2>2
  <2>5. (CHOOSE i \in {1} : TRUE) = 1 /\ {1} # {} /\ (CHOOSE i \in {2} : TRUE) = 2 /\ {2} # {}
    OBVIOUS
  <2>6. Parsed(tm, said, format)
          = [mon |-> said[1].mon, mday |-> said[1].mday, tick |-> said[2].tick]
    BY <2>3, <2>4, <2>5, Zenon DEF Parsed
  <2> QED
    BY <2>1, <2>6, Zenon
<1> QED
  BY <1>2, <1>3, <1>4, <1>5, Zenon

Given == <<Dash, Slash, TimeOfDay, DashTime, SlashTime>>

\* The formats in the order they are tried.
LEMMA AllFormats ==
    LET all == <<DashTime>> \o Given
    IN  /\ DOMAIN all = 1..6
        /\ all[1] = DashTime /\ all[2] = Dash /\ all[3] = Slash
        /\ all[4] = TimeOfDay /\ all[5] = DashTime /\ all[6] = SlashTime
<1>1. PICK S : S = {Dash, Slash, TimeOfDay, DashTime, SlashTime}
  OBVIOUS
<1>2. PICK s : s = <<DashTime>>
  OBVIOUS
<1>3. PICK t : t = Given
  OBVIOUS
<1>4. s \in Seq(S) /\ Len(s) = 1 /\ s[1] = DashTime
  BY <1>1, <1>2
<1>5. /\ t \in Seq(S) /\ Len(t) = 5 /\ t[1] = Dash /\ t[2] = Slash
      /\ t[3] = TimeOfDay /\ t[4] = DashTime /\ t[5] = SlashTime
  BY <1>1, <1>3 DEF Given
<1>6. /\ s \o t \in Seq(S) /\ Len(s \o t) = Len(s) + Len(t)
      /\ \A i \in 1..(Len(s) + Len(t)) :
             (s \o t)[i] = IF i <= Len(s) THEN s[i] ELSE t[i - Len(s)]
  BY <1>4, <1>5, ConcatProperties
<1>7. DOMAIN (s \o t) = 1..Len(s \o t)
  BY <1>6, LenProperties
<1>8. PICK u : u = s \o t
  OBVIOUS
<1>9. Len(s) + Len(t) = 6
  BY <1>4, <1>5
<1>10. DOMAIN u = 1..6 /\ \A i \in 1..6 : u[i] = IF i <= 1 THEN s[i] ELSE t[i - 1]
  BY <1>4, <1>6, <1>7, <1>8, <1>9, Zenon
<1>11. /\ u[1] = s[1] /\ u[2] = t[1] /\ u[3] = t[2] /\ u[4] = t[3] /\ u[5] = t[4]
       /\ u[6] = t[5]
  BY <1>10, SMT
<1> QED
  BY <1>2, <1>3, <1>4, <1>5, <1>8, <1>10, <1>11, Zenon


\* The first format that reads the text is the one it is read by.
LEMMA FirstFormat ==
    ASSUME NEW tm, NEW said
    PROVE  LET all == <<DashTime>> \o Given
               r   == TryParseBy(tm, said, Given)
           IN  /\ \A k \in 1..6 : (/\ CanParse(said, all[k])
                                   /\ \A i \in 1..6 : i < k => ~CanParse(said, all[i]))
                    => r = [ok |-> TRUE, tm |-> Parsed(tm, said, all[k])]
               /\ (\A i \in 1..6 : ~CanParse(said, all[i])) => r = [ok |-> FALSE, tm |-> tm]
<1> DEFINE all == <<DashTime>> \o Given
           r == TryParseBy(tm, said, Given)
           good == {i \in DOMAIN all : CanParse(said, all[i])}
<1>1. r = IF good = {} THEN [ok |-> FALSE, tm |-> tm]
          ELSE [ok |-> TRUE,
                tm |-> Parsed(tm, said, all[CHOOSE i \in good : \A k \in good : i <= k])]
  BY Zenon DEF TryParseBy
<1>2. DOMAIN all = 1..6
  BY AllFormats, Zenon
<1>3. \A i : i \in good <=> i \in 1..6 /\ CanParse(said, all[i])
  BY <1>2, Zenon
<1> HIDE DEF all, r, good
<1>4. ASSUME NEW k \in 1..6, CanParse(said, all[k]),
             \A i \in 1..6 : i < k => ~CanParse(said, all[i])
      PROVE  r = [ok |-> TRUE, tm |-> Parsed(tm, said, all[k])]
  <2>1. k \in good /\ \A i \in good : k <= i
    BY <1>3, <1>4, SMT
  <2>2. \A i \in good : (\A m \in good : i <= m) => i = k
    BY <1>3, <2>1, SMT
  <2>3. (CHOOSE i \in good : \A m \in good : i <= m) = k
    BY <2>1, <2>2, Zenon
  <2> QED
    BY <1>1, <2>1, <2>3, Zenon
<1>5. ASSUME \A i \in 1..6 : ~CanParse(said, all[i])
      PROVE  r = [ok |-> FALSE, tm |-> tm]
  <2>1. good = {}
    BY <1>3, <1>5, Zenon
  <2> QED
    BY <1>1, <2>1, Zenon
<1> QED
  BY <1>4, <1>5, Zenon DEF all, r

\* The same in terms of the parts of the text.
LEMMA TextRead ==
    ASSUME NEW tm, NEW said, Len(said) \in Nat
    PROVE  LET r     == TryParseBy(tm, said, Given)
               timed == Len(said) >= 2 /\ said[2].form = "clock"
           IN  /\ Len(said) >= 1 /\ said[1].form = "dash" /\ timed
                    => r = [ok |-> TRUE, tm |-> [mon |-> said[1].mon, mday |-> said[1].mday,
                                                 tick |-> said[2].tick]]
               /\ (\/ Len(said) = 1 /\ said[1].form = "dash"
                   \/ Len(said) >= 1 /\ said[1].form = "slash")
                    => r = [ok |-> TRUE, tm |-> [mon |-> said[1].mon, mday |-> said[1].mday,
                                                 tick |-> tm.tick]]
               /\ Len(said) >= 1 /\ said[1].form = "clock"
                    => r = [ok |-> TRUE, tm |-> [mon |-> tm.mon, mday |-> tm.mday,
                                                 tick |-> said[1].tick]]
               /\ Len(said) = 0 => r = [ok |-> FALSE, tm |-> tm]
<1> DEFINE all == <<DashTime>> \o Given
           r == TryParseBy(tm, said, Given)
           Can(i) == CanParse(said, all[i])
<1>1. /\ all[1] = DashTime /\ all[2] = Dash /\ all[3] = Slash
      /\ all[4] = TimeOfDay /\ all[5] = DashTime /\ all[6] = SlashTime
  BY AllFormats, Zenon
<1>2. \A k \in 1..6 : Can(k) /\ (\A i \in 1..6 : i < k => ~Can(i))
        => r = [ok |-> TRUE, tm |-> Parsed(tm, said, all[k])]
  BY FirstFormat, Zenon
<1>3. (\A i \in 1..6 : ~Can(i)) => r = [ok |-> FALSE, tm |-> tm]
  BY FirstFormat, Zenon
<1>4. /\ Can(1) <=> Len(said) >= 2 /\ said[1].form = "dash" /\ said[2].form = "clock"
      /\ Can(2) <=> Len(said) >= 1 /\ said[1].form = "dash"
      /\ Can(3) <=> Len(said) >= 1 /\ said[1].form = "slash"
      /\ Can(4) <=> Len(said) >= 1 /\ said[1].form = "clock"
      /\ Can(5) <=> Len(said) >= 2 /\ said[1].form = "dash" /\ said[2].form = "clock"
      /\ Can(6) <=> Len(said) >= 2 /\ said[1].form = "slash" /\ said[2].form = "clock"
  <2> HIDE DEF all
  <2> QED
    BY <1>1, Readable, Zenon
<1> HIDE DEF Can, all
<1>5. Can(1) => r = [ok |-> TRUE, tm |-> Parsed(tm, said, all[1])]
  BY <1>2, SMT
<1>6. ~Can(1) /\ Can(2) => r = [ok |-> TRUE, tm |-> Parsed(tm, said, all[2])]
  BY <1>2, SMT
<1>7. ~Can(1) /\ ~Can(2) /\ Can(3) => r = [ok |-> TRUE, tm |-> Parsed(tm, said, all[3])]
  BY <1>2, SMT
<1>8. ~Can(1) /\ ~Can(2) /\ ~Can(3) /\ Can(4)
        => r = [ok |-> TRUE, tm |-> Parsed(tm, said, all[4])]
  BY <1>2, SMT
<1>9. ~Can(1) /\ ~Can(2) /\ ~Can(3) /\ ~Can(4) /\ ~Can(5) /\ ~Can(6)
        => r = [ok |-> FALSE, tm |-> tm]
  BY <1>3, SMT
<1> HIDE DEF r
<1>10. Len(said) >= 1 /\ said[1].form = "dash" /\ Len(said) >= 2 /\ said[2].form = "clock"
         => r = [ok |-> TRUE, tm |-> [mon |-> said[1].mon, mday |-> said[1].mday,
                                      tick |-> said[2].tick]]
  BY <1>1, <1>4, <1>5, ReadParts, SMT
<1>11. Len(said) = 1 /\ said[1].form = "dash" => ~(Len(said) >= 2) /\ Len(said) >= 1
  BY SMT
<1>12. Len(said) = 1 /\ said[1].form = "dash"
         => r = [ok |-> TRUE, tm |-> [mon |-> said[1].mon, mday |-> said[1].mday,
                                      tick |-> tm.tick]]
  BY <1>1, <1>4, <1>6, <1>11, ReadParts, Zenon
<1>13. Len(said) >= 1 /\ said[1].form = "slash"
         => r = [ok |-> TRUE, tm |-> [mon |-> said[1].mon, mday |-> said[1].mday,
                                      tick |-> tm.tick]]
  BY <1>1, <1>4, <1>7, ReadParts
<1>14. Len(said) >= 1 /\ said[1].form = "clock"
         => r = [ok |-> TRUE, tm |-> [mon |-> tm.mon, mday |-> tm.mday,
                                      tick |-> said[1].tick]]
  BY <1>1, <1>4, <1>8, ReadParts
<1>15. Len(said) = 0 => r = [ok |-> FALSE, tm |-> tm]
  BY <1>4, <1>9, SMT
<1> QED
  BY <1>10, <1>12, <1>13, <1>14, <1>15, Zenon DEF r

LEMMA EachTextRead ==
    ASSUME NEW day \in Nat, NEW tick \in 0..(TicksPerDay - 1), NEW moment \in Nat
    PROVE  TextsRead(day, tick, moment)
<1> DEFINE t == day * TicksPerDay + tick
           left == moment % TicksPerDay
           atNow == day * TicksPerDay + left
           nowtm == LocalTime(moment)
           dash == DateText("dash", t)
           slash == DateText("slash", t)
           clock == ClockText(t)
           Try(said) == TryParseBy(nowtm, said, Given)
           Read(said) == IF Try(said).ok THEN MkTime(Try(said).tm) ELSE "none"
<1>1. t \in Nat /\ DayNumber(t) = day /\ t % TicksPerDay = tick
  BY Division
<1>2. /\ DayNumber(moment) \in Nat /\ left \in 0..(TicksPerDay - 1)
      /\ moment = DayNumber(moment) * TicksPerDay + left
  BY DayNumbers
<1>3. nowtm.tick = left
  BY LocalTimes
<1>4. /\ dash.form = "dash" /\ dash.mon = LocalTime(t).mon /\ dash.mday = LocalTime(t).mday
      /\ slash.form = "slash" /\ slash.mon = LocalTime(t).mon /\ slash.mday = LocalTime(t).mday
      /\ clock.form = "clock" /\ clock.tick = tick
  BY <1>1, SMT DEF DateText, ClockText, Part
<1>5. ASSUME NEW said PROVE ReadAt(moment, said) = Read(said)
  BY Zenon DEF ReadAt, ParseDatetime, Given
<1> HIDE DEF dash, slash, clock, nowtm, t
<1>6. ASSUME NEW k PROVE MkTime([mon |-> LocalTime(t).mon, mday |-> LocalTime(t).mday, tick |-> k])
                           = day * TicksPerDay + k
  <2> DEFINE tm == [mon |-> LocalTime(t).mon, mday |-> LocalTime(t).mday, tick |-> k]
  <2>1. tm.mon = LocalTime(t).mon /\ tm.mday = LocalTime(t).mday /\ tm.tick = k
    BY Zenon
  <2> HIDE DEF tm
  <2>2. MkTime(tm) = DayNumber(t) * TicksPerDay + tm.tick
    BY <1>1, <2>1, MadeOfDay
  <2> QED
    BY <1>1, <2>1, <2>2, Zenon DEF tm
<1>5a. ASSUME NEW said, NEW ok \in BOOLEAN, NEW tm, Try(said) = [ok |-> ok, tm |-> tm]
       PROVE  Read(said) = IF ok THEN MkTime(tm) ELSE "none"
  <2>1. PICK r : r = Try(said)
    BY Zenon
  <2>2. r.ok = ok /\ r.tm = tm
    BY <1>5a, <2>1, SMT
  <2> QED
    BY <2>1, <2>2, Zenon
<1>7. ReadAt(moment, <<dash, clock>>) = t
  <2>1. PICK said : said = <<dash, clock>>
    BY Zenon
  <2>2. Len(said) = 2 /\ said[1] = dash /\ said[2] = clock
    BY <2>1, SMT
  <2>3. Try(said) = [ok |-> TRUE, tm |-> [mon |-> dash.mon, mday |-> dash.mday, tick |-> clock.tick]]
    BY <1>4, <2>2, TextRead, SMT
  <2>4. Read(said) = MkTime([mon |-> dash.mon, mday |-> dash.mday, tick |-> clock.tick])
    BY <1>5a, <2>3, Zenon
  <2>5. Read(said) = day * TicksPerDay + tick
    BY <1>4, <1>6, <2>4, Zenon
  <2> QED
    BY <1>5, <2>1, <2>5, Zenon DEF t
<1>8. ASSUME NEW said, NEW date \in {dash, slash}, Len(said) \in {1, 2}, said[1] = date,
             Len(said) = 1 \/ date = slash
      PROVE  ReadAt(moment, said) = atNow
  <2>1. date.mon = LocalTime(t).mon /\ date.mday = LocalTime(t).mday
    BY <1>4, <1>8, Zenon
  <2>2. Try(said) = [ok |-> TRUE, tm |-> [mon |-> date.mon, mday |-> date.mday, tick |-> nowtm.tick]]
    BY <1>4, <1>8, TextRead, SMT
  <2>3. Read(said) = MkTime([mon |-> date.mon, mday |-> date.mday, tick |-> nowtm.tick])
    BY <1>5a, <2>2, Zenon
  <2> QED
    BY <1>3, <1>5, <1>6, <2>1, <2>3, Zenon
<1>9. ReadAt(moment, <<dash>>) = atNow /\ ReadAt(moment, <<slash>>) = atNow
  <2>1. Len(<<dash>>) = 1 /\ <<dash>>[1] = dash /\ Len(<<slash>>) = 1 /\ <<slash>>[1] = slash
    BY SMT
  <2> QED
    BY <1>8, <2>1, Zenon
<1>10. ReadAt(moment, <<slash, clock>>) = atNow
  <2>1. Len(<<slash, clock>>) = 2 /\ <<slash, clock>>[1] = slash
    BY SMT
  <2> QED
    BY <1>8, <2>1, Zenon
<1>11. ReadAt(moment, <<clock>>) = (moment \div TicksPerDay) * TicksPerDay + tick
  <2>1. PICK said : said = <<clock>>
    BY Zenon
  <2>2. Len(said) = 1 /\ said[1] = clock
    BY <2>1, SMT
  <2> DEFINE tm == [mon |-> nowtm.mon, mday |-> nowtm.mday, tick |-> tick]
  <2>3. Try(said) = [ok |-> TRUE, tm |-> tm]
    BY <1>4, <2>2, TextRead, SMT
  <2>4. Read(said) = MkTime(tm)
    BY <1>5a, <2>3, Zenon
  <2>5. tm.mon = LocalTime(moment).mon /\ tm.mday = LocalTime(moment).mday /\ tm.tick = tick
    BY Zenon DEF nowtm
  <2> HIDE DEF tm
  <2>6. MkTime(tm) = DayNumber(moment) * TicksPerDay + tm.tick
    BY <2>5, MadeOfDay
  <2> QED
    BY <1>5, <2>1, <2>4, <2>5, <2>6, Zenon DEF DayNumber
<1>12. ReadAt(moment, <<>>) = "none"
  <2>1. Len(<<>>) = 0
    BY SMT
  <2>2. PICK said : said = <<>>
    BY Zenon
  <2>3. Try(said) = [ok |-> FALSE, tm |-> nowtm]
    BY <2>1, <2>2, TextRead, SMT
  <2>4. Read(said) = "none"
    BY <1>5a, <2>3, Zenon
  <2> QED
    BY <1>5, <2>2, <2>4, Zenon
<1>13. CompareDatePart(t, moment) <=> moment \div TicksPerDay # day
  <2> DEFINE tm == [LocalTime(t) EXCEPT !.tick = LocalTime(moment).tick]
  <2>1. tm.mon = LocalTime(t).mon /\ tm.mday = LocalTime(t).mday /\ tm.tick = left
    BY <1>3, SMT DEF LocalTime, nowtm
  <2>2. CompareDatePart(t, moment) <=> MkTime(tm) # moment
    BY TimesAndDates, Zenon DEF CompareDatePart
  <2> HIDE DEF tm
  <2>3. MkTime(tm) = atNow
    BY <1>1, <2>1, MadeOfDay, Zenon
  <2>4. DayNumber(atNow) = day
    BY <1>2, Division
  <2>5. DayNumber(moment) = day => atNow = moment
    BY <1>2, Zenon
  <2>6. atNow = moment => DayNumber(moment) = day
    BY <2>4, Zenon
  <2> QED
    BY <2>2, <2>3, <2>5, <2>6, Zenon DEF DayNumber
<1>14. TextsRead(day, tick, moment)
         <=> /\ ReadAt(moment, <<dash, clock>>) = t
             /\ ReadAt(moment, <<dash>>) = atNow
             /\ ReadAt(moment, <<slash>>) = atNow
             /\ ReadAt(moment, <<slash, clock>>) = atNow
             /\ ReadAt(moment, <<clock>>) = (moment \div TicksPerDay) * TicksPerDay + tick
             /\ ReadAt(moment, <<>>) = "none"
             /\ CompareDatePart(t, moment) <=> moment \div TicksPerDay # day
  BY Zenon DEF TextsRead, dash, slash, clock, t
<1> QED
  BY <1>7, <1>9, <1>10, <1>11, <1>12, <1>13, <1>14, Zenon

LEMMA DatesToRead ==
    ASSUME RealUnits, text.of \in Nat
    PROVE  DatesParse
<1>1. Clock \in Nat
  <2>1. Micro = 1000
    BY DEF Micro, K
  <2> QED
    BY <2>1 DEF Clock
<1>2. ASSUME NEW day \in SomeDays, NEW tick \in OtherTicks
      PROVE  TextsRead(day, tick, Clock)
  <2>1. day \in Nat
    BY DEF SomeDays
  <2>2. tick \in 0..(TicksPerDay - 1)
    BY CalendarAssumption DEF OtherTicks
  <2> QED
    BY <1>1, <2>1, <2>2, EachTextRead
<1> QED
  BY <1>2 DEF DatesParse

-----------------------------------------------------------------------------
\* DurationsReadBack: format_duration() in nanoseconds, for the durations that go
\* with any time point, and with them all the units, dots and digits of a text.
THEOREM DurationsSaid ==
    ASSUME RealUnits
    PROVE  IomSpec => []DurationsReadBack
<1>1. IomInv => DurationsReadBack
  BY DurationsPrinted DEF IomInv
<1> QED
  BY <1>1, IomInvariant, PTL

\* The same for every duration there is.
THEOREM EveryDurationSaid ==
    ASSUME RealUnits
    PROVE  \A d \in Nat : ReadBack(FormatDuration(d)) = d <=> ~Misprinted(d)
BY DurationReadBack

\* DatesParse: parse_datetime() and compare_date_part(), read at any time.
THEOREM DatesRead ==
    ASSUME RealUnits
    PROVE  IomSpec => []DatesParse
<1>1. IomInv => DatesParse
  BY DatesToRead DEF IomInv
<1> QED
  BY <1>1, IomInvariant, PTL

\* The same for every day, every time of the day and every time it is read at.
THEOREM EveryDateRead ==
    \A day \in Nat, tick \in 0..(TicksPerDay - 1), at \in Nat : TextsRead(day, tick, at)
BY EachTextRead
=============================================================================
