--------------------------------- MODULE Iom ---------------------------------
(***************************************************************************)
(* iom (ticker-chrono.hh:252-346): the flags that say in which zone and to *)
(* which precision time points are printed.  They are static, inserted     *)
(* into a stream or set by set_flags(), and kept by a saver for a scope;   *)
(* format_time_point_to_local() (607-614) is such a scope.                 *)
(*                                                                         *)
(* "iom is not thread-safe" (248): the calls are those of one thread.      *)
(***************************************************************************)
EXTENDS Formats, Dates

CONSTANTS
    Times,   \* the time points printed
    MaxOpen  \* bound: savers open at a time

ASSUME TimesAssumption == Times \subseteq Nat /\ MaxOpen \in Nat

VARIABLES
    flags,   \* _flags: its precision, and the bits of the zone
    savers,  \* the savers open, the innermost first
    text,    \* what the last step printed, and of which time point
    wished,  \* what the user has asked for in this scope
    wishes   \* and in the scopes around it

iomVars == <<flags, savers, text, wished, wishes>>

Precisions == {"ms", "us", "ns"}
ZoneBits == {"gmt", "local", "gmt_or_local"}

\* reset().
Reset == [gmt |-> FALSE, local |-> FALSE, gmt_or_local |-> TRUE, precision |-> "us"]

\* Mutant: local leaves gmt_or_local as it is.
SetFlagsLocalOnly(fl, v, on) ==
    CASE v = "clear" -> Reset
      [] v \in Precisions ->
           [gmt |-> FALSE, local |-> FALSE, gmt_or_local |-> FALSE, precision |-> v]
      [] v \in ZoneBits ->
           LET set == [fl EXCEPT ![v] = on]
           IN  IF v = "gmt" THEN [set EXCEPT !.gmt_or_local = TRUE] ELSE set

\* set_flags(): a precision clears the bits of the zone (the mask kept is that
\* of the extra fields plus one); gmt and local set gmt_or_local, on or not.
SetFlags(fl, v, on) ==
    CASE v = "clear" -> Reset
      [] v \in Precisions ->
           [gmt |-> FALSE, local |-> FALSE, gmt_or_local |-> FALSE, precision |-> v]
      [] v \in ZoneBits ->
           LET set == [fl EXCEPT ![v] = on]
           IN  CASE v = "gmt" -> [set EXCEPT !.gmt_or_local = TRUE]
                 [] v = "local" -> [set EXCEPT !.gmt_or_local = FALSE]
                 [] OTHER -> set

\* has(), as the printers use it.
Zone(fl) == IF fl.gmt_or_local THEN "gmt" ELSE "local"

NoText == [of |-> 0, shown |-> SerializeTimePoint(0, "gmt", "us"),
           zone |-> "gmt", precision |-> "us"]

IomInit ==
    /\ flags = Reset
    /\ savers = <<>>
    /\ text = NoText
    /\ wished = [zone |-> "gmt", precision |-> "us"]
    /\ wishes = <<>>

\* What the user asks for by a flag.  One who names a precision says nothing of
\* the zone, and gets the local one.
Wish(v, on) ==
    CASE v = "clear" -> [zone |-> "gmt", precision |-> "us"]
      [] v \in Precisions -> [zone |-> "local", precision |-> v]
      [] v = "gmt" \/ (v = "gmt_or_local" /\ on) -> [wished EXCEPT !.zone = "gmt"]
      [] OTHER -> [wished EXCEPT !.zone = "local"]

\* os << v, and set_flags(gmt_or_local, on).
Set(v, on) ==
    /\ v # "gmt_or_local" => on
    /\ flags' = SetFlags(flags, v, on)
    /\ wished' = Wish(v, on)
    /\ text' = NoText
    /\ UNCHANGED <<savers, wishes>>

OpenSaver ==
    /\ Len(savers) < MaxOpen
    /\ savers' = <<flags>> \o savers
    /\ wishes' = <<wished>> \o wishes
    /\ text' = NoText
    /\ UNCHANGED <<flags, wished>>

CloseSaver ==
    /\ savers # <<>>
    /\ flags' = Head(savers) /\ savers' = Tail(savers)
    /\ wished' = Head(wishes) /\ wishes' = Tail(wishes)
    /\ text' = NoText

Printed(tp, shown, zone) == text' = [of |-> tp, shown |-> shown, zone |-> zone,
                                     precision |-> wished.precision]

\* os << time_point and format_time_point().
PrintPoint(tp) ==
    /\ Printed(tp, SerializeTimePoint(tp, Zone(flags), flags.precision), wished.zone)
    /\ UNCHANGED <<flags, savers, wished, wishes>>

\* os << clock, of a clock that was made at tp.
PrintClock(tp) ==
    /\ Printed(tp, SerializeClock(tp, Zone(flags), flags.precision), wished.zone)
    /\ UNCHANGED <<flags, savers, wished, wishes>>

\* format_time_point_to_local(): the flags are set and restored within it.
PrintToLocal(tp) ==
    /\ LET fl == SetFlags(flags, "gmt_or_local", FALSE)
       IN  Printed(tp, SerializeTimePoint(tp, Zone(fl), fl.precision), "local")
    /\ UNCHANGED <<flags, savers, wished, wishes>>

IomNext ==
    \/ \E v \in Precisions \cup ZoneBits \cup {"clear"}, on \in BOOLEAN : Set(v, on)
    \/ OpenSaver \/ CloseSaver
    \/ \E tp \in Times : PrintPoint(tp) \/ PrintClock(tp) \/ PrintToLocal(tp)

IomSpec == IomInit /\ [][IomNext]_iomVars

-----------------------------------------------------------------------------
\* The digits wished for.
DigitsOf(precision) == Width * (CASE precision = "ms" -> 1 [] precision = "us" -> 2
                                  [] precision = "ns" -> 3)

\* What is printed is the time point in the zone and to the precision that were
\* last asked for in the scope, or in the one a saver has led back to, and all
\* its digits count: cut off after them, the text is the time point.
PrintsAsWished ==
    /\ text.shown.zone = text.zone
    /\ text.shown.fraction.digits = DigitsOf(text.precision)
    /\ LET left == 10 ^ (3 * Width - DigitsOf(text.precision))
       IN  text.shown.seconds * (Second \div left) + text.shown.fraction.n
             = text.of \div left

-----------------------------------------------------------------------------
(* The texts of durations read back.                                        *)

\* The durations that go with a time point printed: its own, with one digit of
\* nanoseconds more, and with each kind of larger unit.
DurationsOf(tp) == {tp + ns + more : ns \in {0, 9},
                                     more \in {0, Second, Minute, Year + Day + Hour}}

\* A reader takes the unit for that of the first group, and the groups after it
\* for the digits of a decimal fraction.
ReadBack(t) ==
    LET c == t.counts
        g == t.groups
        Width2 == IF Len(g) > 1 THEN g[2].digits ELSE 0
        Width3 == IF Len(g) > 2 THEN g[3].digits ELSE 0
        Worth(i, digits) == IF i > Len(g) THEN 0 ELSE (g[i].n * t.unit) \div 10 ^ digits
    IN  c[1] * Year + c[2] * Day + c[3] * Hour + c[4] * Minute + c[5] * Second
          + (Worth(1, 0) + Worth(2, Width2) + Worth(3, Width2 + Width3))

\* The durations whose text says another: nanoseconds after milliseconds, with
\* no microseconds, are given the wrong unit; and without a minute or more the
\* microseconds after milliseconds are not padded.
Misprinted(d) ==
    LET c == BreakDown(Units, d)
    IN  c[6] # 0 /\ (IF c[7] = 0 THEN c[8] # 0
                     ELSE (\A i \in 1..4 : c[i] = 0) /\ Digits(c[7]) < Width)

\* The text of every other duration says that duration, down to the nanosecond,
\* through all the units and dots left out on the way, and is printed unless the
\* callback of the high_res_duration has printed it itself.
DurationsReadBack ==
    \A d \in DurationsOf(text.of) :
        /\ \E t \in HighResDuration(d, {}) : ReadBack(t) = d <=> ~Misprinted(d)
        /\ HighResDuration(d, {FALSE}) = {}

-----------------------------------------------------------------------------
(* Texts of dates: days at the ends of months and years, and the clock at    *)
(* times that go with the time points printed.                               *)

Clock == (text.of \div Micro) % 2000
SomeDays == {58, 59, 364, 365}
OtherTicks == {0, TicksPerDay - 1}

DateText(form, t) == Part(form, LocalTime(t).mon, LocalTime(t).mday, 0)
ClockText(t) == Part("clock", 0, 0, t % TicksPerDay)
ReadAt(now, t) == ParseDatetime(t, now, "none")

\* The texts of a day and a tick, read at a time.
TextsRead(day, tick, now) ==
    LET t     == day * TicksPerDay + tick
        atNow == day * TicksPerDay + (now % TicksPerDay)
    IN  /\ ReadAt(now, <<DateText("dash", t), ClockText(t)>>) = t
        /\ ReadAt(now, <<DateText("dash", t)>>) = atNow
        /\ ReadAt(now, <<DateText("slash", t)>>) = atNow
        /\ ReadAt(now, <<DateText("slash", t), ClockText(t)>>) = atNow
        /\ ReadAt(now, <<ClockText(t)>>) = (now \div TicksPerDay) * TicksPerDay + tick
        /\ ReadAt(now, <<>>) = "none"
        /\ CompareDatePart(t, now) <=> now \div TicksPerDay # day

\* parse_datetime() gives a text with dashes and a time the point it says; a date
\* alone is read as that day at this time, a time alone as today at that time.
\* A date with slashes loses its time: the shorter format comes first, and what
\* it leaves unread is not an error.  compare_date_part() tells days apart.
DatesParse == \A day \in SomeDays, tick \in OtherTicks : TextsRead(day, tick, Clock)
=============================================================================
