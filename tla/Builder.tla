------------------------------- MODULE Builder -------------------------------
(***************************************************************************)
(* How a job is ordered from a timer_t, a ticker_t or an alarm_t           *)
(* (ticker-core.hh:104-195, 396-497): a chain of calls leaves what is      *)
(* wanted in members of the object, and build() makes a job of them.  The  *)
(* members outlive the chain, and go along when the object is copied.      *)
(*                                                                         *)
(* The calls are those of one thread: nothing guards the members.  The     *)
(* wheel a job is put in is module Timer's; here it only grows.            *)
(***************************************************************************)
EXTENDS Dates, FiniteSets

CONSTANTS
    Objects,     \* the timers there may be
    FirstObject, \* the one that is not a copy
    Classes,     \* the classes in use, a subset of AllClasses
    Functions,   \* what can be given to on()
    NoFunction,  \* an empty std::function
    Points,      \* the time points given to in(), after() and at()
    Spans,       \* the durations given to in(), every() and interval()
    Texts,       \* the texts given to at()
    Patterns,    \* anchors with their ordinal, offset and times
    NoPattern,   \* the anchor Nothing
    NextOf(_, _),\* periodical_job::next_time_point() of a pattern, from a time
    Start,       \* the time at which the model begins
    MaxTime,     \* bound: the clock stops here
    MaxCalls     \* bound: calls that say when, and calls of build()

AllClasses == {"timer_t", "ticker_t", "alarm_t"}

ASSUME ObjectsAssumption == FirstObject \in Objects
ASSUME ClassesAssumption == Classes \subseteq AllClasses
ASSUME FunctionsAssumption == NoFunction \notin Functions
ASSUME PatternsAssumption == NoPattern \notin Patterns
ASSUME TimesAssumption == /\ Points \subseteq Nat /\ Spans \subseteq Nat \ {0}
                          /\ Start \in Nat /\ MaxTime \in Nat /\ MaxCalls \in Nat

VARIABLES
    class,     \* what the objects are
    now,       \* Clock::now()
    live,      \* the objects that have been constructed
    _tp, _f, _dur, _interval, _pattern,  \* members of each object
    wheel,     \* _twl of each object: the jobs built, by time point
    order,     \* what the object was last told
    calls      \* how many of those calls there have been

members == <<_tp, _f, _dur, _interval, _pattern>>
vars == <<class, now, live, members, wheel, order, calls>>

Default(x) == [o \in Objects |-> x]

\* An order: the function, and the call that says when.  An object that has been
\* told nothing is as one told in(time_point{}), every(d) or loop_for(Nothing).
Untold(d) == [fn |-> NoFunction,
              call |-> CASE class = "timer_t"  -> "in"
                         [] class = "ticker_t" -> "every"
                         [] class = "alarm_t"  -> "loop",
              when |-> IF class = "ticker_t" THEN d ELSE 0,
              pattern |-> NoPattern]

\* _dur has no initializer: what get() makes begins with zeros, an object of a
\* derived class may begin with anything.
InitTicker(d) == /\ class = "ticker_t" \/ d = 0
                 /\ _dur = Default(d) /\ _interval = Default(FALSE)
InitAlarm == _pattern = Default(NoPattern)

Init == /\ class \in Classes
        /\ now = Start
        /\ live = {FirstObject}
        /\ _tp = Default(0) /\ _f = Default(NoFunction)
        /\ InitAlarm
        /\ \E d \in Spans \cup {0} : InitTicker(d) /\ order = Default(Untold(d))
        /\ wheel = Default({})
        /\ calls = 0

-----------------------------------------------------------------------------
(* The calls of a chain: the last of those that say when counts, and on().  *)

\* The bound of the model.
Count == calls < MaxCalls /\ calls' = calls + 1

Begin(o, call, when, pattern) ==
    /\ o \in live /\ Count
    /\ order' = [order EXCEPT ![o].call = call, ![o].when = when,
                              ![o].pattern = pattern]
    /\ UNCHANGED <<class, now, live, wheel>>

\* in(), after() and at() with a time point or a duration.
In(o, tp) ==
    /\ class = "timer_t"
    /\ Begin(o, "in", tp, NoPattern)
    /\ _tp' = [_tp EXCEPT ![o] = tp]
    /\ UNCHANGED <<_f, _dur, _interval, _pattern>>

\* The format that reads the whole of a text.
FormsOf(text) == [i \in DOMAIN text |-> text[i].form]

\* The next time that a text may mean: the one it says, or a day later.
Meant(text, tm) == LET tp == MkTime(Parsed(tm, text, FormsOf(text)))
                   IN  IF now >= tp THEN tp + Days(1) ELSE tp

AtFormats == <<TimeOfDay, DashTime, SlashTime>>

\* at() with a text; it is parsed into a std::tm whose fields have not been
\* initialized.  A text that cannot be parsed is an exception, and no call.
At(o, text) ==
    /\ class = "timer_t"
    /\ \E mday \in {1, 31} :
         LET tm == [mon |-> 11, mday |-> mday, tick |-> 0]
             r  == TryParseBy(tm, text, AtFormats)
             tp == MkTime(r.tm)
         IN  /\ r.ok
             /\ _tp' = [_tp EXCEPT ![o] = IF now >= tp THEN tp + Days(1) ELSE tp]
             /\ Begin(o, "in", Meant(text, LocalTime(now)), NoPattern)
    /\ UNCHANGED <<_f, _dur, _interval, _pattern>>

Every(o, d) ==
    /\ class = "ticker_t"
    /\ Begin(o, "every", d, NoPattern)
    /\ _dur' = [_dur EXCEPT ![o] = d] /\ _interval' = [_interval EXCEPT ![o] = FALSE]
    /\ UNCHANGED <<_tp, _f, _pattern>>

Interval(o, d) ==
    /\ class = "ticker_t"
    /\ Begin(o, "interval", d, NoPattern)
    /\ _dur' = [_dur EXCEPT ![o] = d] /\ _interval' = [_interval EXCEPT ![o] = TRUE]
    /\ UNCHANGED <<_tp, _f, _pattern>>

\* loop_for(), every_month() and every_year().
LoopFor(o, p) ==
    /\ class = "alarm_t"
    /\ Begin(o, "loop", 0, p)
    /\ _pattern' = [_pattern EXCEPT ![o] = p]
    /\ UNCHANGED <<_tp, _f, _dur, _interval>>

On(o, f) ==
    /\ o \in live
    /\ _f' = [_f EXCEPT ![o] = f]
    /\ order' = [order EXCEPT ![o].fn = f]
    /\ UNCHANGED <<class, now, live, _tp, _dur, _interval, _pattern, wheel, calls>>

-----------------------------------------------------------------------------
(* build().  It looks at nothing: a chain may leave out when, or on(), and  *)
(* gets what the members hold.                                              *)

Job(f, d, p) == [fn |-> f, dur |-> d, pattern |-> p]
Put(o, tp, job) == wheel' = [wheel EXCEPT ![o] = @ \cup {<<tp, job>>}]

\* The user has had what he gave to on().
UsedUp(o) == order' = [order EXCEPT ![o].fn = NoFunction]

\* Mutant: the function is copied, and stays for a chain without on().
BuildTimerCopies(o) ==
    /\ class = "timer_t" /\ o \in live /\ Count
    /\ Put(o, _tp[o], Job(_f[o], 0, NoPattern))
    /\ UsedUp(o)
    /\ UNCHANGED <<class, now, live, members>>

\* The function is moved into the job, which leaves the member empty with the
\* compilers' libraries,
BuildTimer(o) ==
    /\ class = "timer_t" /\ o \in live /\ Count
    /\ Put(o, _tp[o], Job(_f[o], 0, NoPattern))
    /\ _f' = [_f EXCEPT ![o] = NoFunction]
    /\ UsedUp(o)
    /\ UNCHANGED <<class, now, live, _tp, _dur, _interval, _pattern>>

\* copied into it,
BuildTicker(o) ==
    /\ class = "ticker_t" /\ o \in live /\ Count
    /\ Put(o, IF _interval[o] THEN now ELSE now + _dur[o], Job(_f[o], _dur[o], NoPattern))
    /\ UNCHANGED <<class, now, live, members, order>>

\* or moved.
BuildAlarm(o) ==
    /\ class = "alarm_t" /\ o \in live /\ Count
    /\ Put(o, NextOf(_pattern[o], now), Job(_f[o], 0, _pattern[o]))
    /\ _f' = [_f EXCEPT ![o] = NoFunction]
    /\ UsedUp(o)
    /\ UNCHANGED <<class, now, live, _tp, _dur, _interval, _pattern>>

-----------------------------------------------------------------------------
\* __copy() of timer_t: its members, and the jobs of its wheel.
CopyTimer(o, c) == /\ _tp' = [_tp EXCEPT ![c] = _tp[o]]
                   /\ _f' = [_f EXCEPT ![c] = _f[o]]
                   /\ wheel' = [wheel EXCEPT ![c] = wheel[o]]

\* __copy() of ticker_t, after that of timer_t; for a timer_t these members are
\* never set.
CopyTicker(o, c) == /\ _dur' = [_dur EXCEPT ![c] = _dur[o]]
                    /\ _interval' = [_interval EXCEPT ![c] = _interval[o]]

\* __copy() of alarm_t, after that of ticker_t.
CopyAlarm(o, c) == _pattern' = [_pattern EXCEPT ![c] = _pattern[o]]

\* The copy and move constructors: c becomes a copy of o, in the middle of a
\* chain or not.
Copy(o, c) ==
    /\ o \in live /\ c \notin live
    /\ live' = live \cup {c}
    /\ CopyTimer(o, c) /\ CopyTicker(o, c) /\ CopyAlarm(o, c)
    /\ order' = [order EXCEPT ![c] = order[o]]
    /\ UNCHANGED <<class, now, calls>>

Tick == /\ now < MaxTime
        /\ now' = now + 1
        /\ UNCHANGED <<class, live, members, wheel, order, calls>>

Idle == now = MaxTime /\ UNCHANGED vars

Next == \/ \E o \in Objects :
             \/ \E tp \in Points \cup {now + d : d \in Spans} : In(o, tp)
             \/ \E t \in Texts : At(o, t)
             \/ \E d \in Spans : Every(o, d) \/ Interval(o, d)
             \/ \E p \in Patterns : LoopFor(o, p)
             \/ \E f \in Functions : On(o, f)
             \/ BuildTimer(o) \/ BuildTicker(o) \/ BuildAlarm(o)
             \/ \E c \in Objects : Copy(o, c)
        \/ Tick
        \/ Idle

Spec == Init /\ [][Next]_vars

-----------------------------------------------------------------------------
\* What is asked for in an order: the point it is first due at when it is built
\* now, and the job.
FirstDue(r) == CASE r.call = "in" -> r.when
                 [] r.call = "every" -> now + r.when
                 [] r.call = "interval" -> now
                 [] r.call = "loop" -> NextOf(r.pattern, now)

Asked(r) == Job(r.fn, IF r.call = "in" THEN 0 ELSE r.when, r.pattern)

\* Every job built is the one its object was last told.  A chain that says when
\* and gives a function gets these, whatever incomplete or copied chains came
\* before.  One that leaves out when gets the time of the last that said it; one
\* of a timer or an alarm that leaves out on() gets no function, never that of an
\* earlier job; one of a ticker gets its last.
AsOrdered ==
    [][\A o \in Objects : wheel'[o] # wheel[o] /\ o \in live
          => wheel'[o] = wheel[o] \cup {<<FirstDue(order[o]), Asked(order[o])>>}]_vars
=============================================================================
