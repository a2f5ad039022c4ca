-------------------------------- MODULE Dates --------------------------------
(***************************************************************************)
(* Texts read as times (ticker-chrono.hh:481-484, 721-733, 800-836) by the *)
(* formats of std::get_time.                                               *)
(*                                                                         *)
(* A text is a sequence of parts: a date written with dashes or slashes,   *)
(* or a time of the day.  A format is a sequence of forms of parts, and    *)
(* reads a text that begins with them; what follows is left unread.        *)
(***************************************************************************)
EXTENDS Calendar, Sequences

Part(form, mon, mday, tick) == [form |-> form, mon |-> mon, mday |-> mday, tick |-> tick]

\* "%Y-%m-%d", "%Y/%m/%d" and "%H:%M:%S".
Dash == <<"dash">>
Slash == <<"slash">>
TimeOfDay == <<"clock">>
DashTime == <<"dash", "clock">>
SlashTime == <<"slash", "clock">>

\* try_parse(): a part read sets its fields of the tm, the others stay.  A format
\* has one date and one time of the day at most.
CanParse(text, format) == /\ Len(format) <= Len(text)
                          /\ \A i \in DOMAIN format : text[i].form = format[i]
Parsed(tm, text, format) ==
    LET date  == {i \in DOMAIN format : format[i] # "clock"}
        clock == DOMAIN format \ date
        The(part) == text[CHOOSE i \in part : TRUE]
    IN  [mon  |-> IF date = {} THEN tm.mon ELSE The(date).mon,
         mday |-> IF date = {} THEN tm.mday ELSE The(date).mday,
         tick |-> IF clock = {} THEN tm.tick ELSE The(clock).tick]

\* Mutant: only the formats given are tried.
TryParseByGivenOnly(tm, text, formats) ==
    LET good == {i \in DOMAIN formats : CanParse(text, formats[i])}
    IN  IF good = {} THEN [ok |-> FALSE, tm |-> tm]
        ELSE [ok |-> TRUE,
              tm |-> Parsed(tm, text, formats[CHOOSE i \in good : \A k \in good : i <= k])]

\* try_parse_by(): the first format that reads the text, "%Y-%m-%d %H:%M:%S"
\* before those given.  A format that fails leaves the tm as it was.
TryParseBy(tm, text, formats) ==
    LET all  == <<DashTime>> \o formats
        good == {i \in DOMAIN all : CanParse(text, all[i])}
    IN  IF good = {} THEN [ok |-> FALSE, tm |-> tm]
        ELSE [ok |-> TRUE,
              tm |-> Parsed(tm, text, all[CHOOSE i \in good : \A k \in good : i <= k])]

\* parse_datetime(): what the text does not say is as it is now.
ParseDatetime(text, now, none) ==
    LET r == TryParseBy(LocalTime(now), text,
                        <<Dash, Slash, TimeOfDay, DashTime, SlashTime>>)
    IN  IF r.ok THEN MkTime(r.tm) ELSE none

\* compare_date_part(): -1, 0 or 1, returned as a bool.
CompareDatePart(lhs, rhs) ==
    MkTime([LocalTime(lhs) EXCEPT !.tick = LocalTime(rhs).tick]) # MkTime(LocalTime(rhs))
==============================================================================
