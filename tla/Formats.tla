------------------------------- MODULE Formats -------------------------------
(***************************************************************************)
(* Durations and time points as text (ticker-chrono.hh:167-173, 383-522,   *)
(* 553-595 and 738-775).  A text is the numbers in it, with the digits     *)
(* they take where these matter.  The units are scaled down; durations and *)
(* the times since the epoch are not negative.                             *)
(***************************************************************************)
EXTENDS Integers, Sequences

CONSTANTS
    Width,      \* digits of the milliseconds in a second, and so on down
    PerMinute,  \* seconds in a minute
    PerHour,    \* minutes in an hour
    PerDay,     \* hours in a day
    PerYear     \* days in a year

ASSUME UnitsAssumption ==
    \A n \in {Width, PerMinute, PerHour, PerDay, PerYear} : n \in Nat \ {0}

\* The units in nanoseconds.
K == 10 ^ Width
Micro == K
Milli == K * Micro
Second == K * Milli
Minute == PerMinute * Second
Hour == PerHour * Minute
Day == PerDay * Hour
Year == PerYear * Day
Units == <<Year, Day, Hour, Minute, Second, Milli, Micro, 1>>

\* break_down_durations(): each unit takes what it can of what is left.
BreakDown(units, d) ==
    LET left[i \in 0..Len(units)] == IF i = 0 THEN d ELSE left[i - 1] % units[i]
    IN  [i \in DOMAIN units |-> left[i - 1] \div units[i]]

-----------------------------------------------------------------------------
(* format_duration().                                                       *)

Digits(n) == CHOOSE w \in 1..(2 * Width) : n < 10 ^ w /\ (w > 1 => n >= 10 ^ (w - 1))
Padded(n) == [n |-> n, digits |-> Width]
Plain(n) == [n |-> n, digits |-> Digits(n)]

\* Mutant: nothing tells whether there were milliseconds before the dot.
FractionUnitNoDot(ms, us, ns) ==
    CASE ns # 0 -> IF ms # 0 \/ us # 0 THEN Micro ELSE 1
      [] ns = 0 /\ us # 0 -> Micro
      [] OTHER -> Milli

\* The unit after the fraction, which depends on the dots printed: zdot1 after
\* the milliseconds if microseconds follow, zdot2 before the nanoseconds.
FractionUnit(ms, us, ns) ==
    LET zdot1 == ms # 0 /\ us # 0
        zdot2 == ns # 0 /\ (ms # 0 \/ us # 0)
    IN  CASE ns # 0 -> IF zdot1 THEN Milli ELSE IF zdot2 THEN Micro ELSE 1
          [] ns = 0 /\ us # 0 -> IF zdot1 THEN Milli ELSE Micro
          [] OTHER -> Milli

\* The counts down to the seconds, then what is less than a second: groups with
\* dots between them, padded with zeros after a minute or more, and a unit.
FormatDuration(d) ==
    LET c    == BreakDown(Units, d)
        long == \E i \in 1..4 : c[i] # 0     \* foundNonZero
        Group(n) == IF long THEN Padded(n) ELSE Plain(n)
        If(n, group) == IF n # 0 THEN <<group>> ELSE <<>>
    IN  [counts |-> SubSeq(c, 1, 5),
         groups |-> If(c[6], Group(c[6])) \o If(c[7], Group(c[7])) \o If(c[8], Padded(c[8])),
         unit   |-> FractionUnit(c[6], c[7], c[8])]

\* What a high_res_duration prints of its life when it ends: nothing if there is
\* a callback that says so.  answers: those the callback gives, if there is one.
HighResDuration(d, answers) ==
    IF FALSE \in answers THEN {} ELSE {FormatDuration(d)}

-----------------------------------------------------------------------------
(* Fractions of a second.                                                   *)

\* time_point_get_ms(), time_point_get_us(), time_point_get_ns().
FractionOf(tp, unit) == (tp \div unit) % K

\* clock::in_nsec().
InNsec(tp) == (FractionOf(tp, Milli) * K + FractionOf(tp, Micro)) * K + FractionOf(tp, 1)

\* A number printed right after another.
Joined(g, h) == [n |-> g.n * 10 ^ h.digits + h.n, digits |-> g.digits + h.digits]

\* serialize_time_point(): setw(3) for each unit down to the precision.
SerializeTimePoint(tp, zone, precision) ==
    LET ms == Padded(FractionOf(tp, Milli))
        us == Padded(FractionOf(tp, Micro))
        ns == Padded(FractionOf(tp, 1))
    IN  [zone |-> zone, seconds |-> tp \div Second,
         fraction |-> CASE precision = "ns" -> Joined(Joined(ms, us), ns)
                        [] precision = "us" -> Joined(ms, us)
                        [] precision = "ms" -> ms]

\* clock::serialize(): one number, divided down to the precision.
SerializeClock(tp, zone, precision) ==
    [zone |-> zone, seconds |-> tp \div Second,
     fraction |-> CASE precision = "ns" -> [n |-> InNsec(tp), digits |-> 3 * Width]
                    [] precision = "us" -> [n |-> InNsec(tp) \div K, digits |-> 2 * Width]
                    [] precision = "ms" -> [n |-> InNsec(tp) \div (K * K), digits |-> Width]]
=============================================================================
