---------------------------- MODULE BuilderProofs ----------------------------
(***************************************************************************)
(* Proofs about Builder, for any objects, functions, times and patterns,   *)
(* and any number of calls.                                                *)
(***************************************************************************)
EXTENDS Builder, SequenceTheorems, TLAPS

-----------------------------------------------------------------------------
(* Texts.                                                                   *)

\* The texts that say a date and a time: what at() makes of another depends on
\* the fields of a std::tm that is not initialized.
Dated == \A text \in Texts : FormsOf(text) \in {DashTime, SlashTime}

\* A format is tried before three others.
LEMMA OneBeforeThree ==
    ASSUME NEW S, NEW s \in Seq(S), NEW t \in Seq(S), Len(s) = 1, Len(t) = 3
    PROVE  /\ DOMAIN (s \o t) = 1..4
           /\ (s \o t)[1] = s[1] /\ (s \o t)[2] = t[1]
           /\ (s \o t)[3] = t[2] /\ (s \o t)[4] = t[3]
<1>1. /\ s \o t \in Seq(S) /\ Len(s \o t) = Len(s) + Len(t)
      /\ \A i \in 1..(Len(s) + Len(t)) :
            (s \o t)[i] = IF i <= Len(s) THEN s[i] ELSE t[i - Len(s)]
  BY ConcatProperties, Zenon
<1>2. Len(s) + Len(t) = 4 /\ 1 \in 1..4 /\ 2 \in 1..4 /\ 3 \in 1..4 /\ 4 \in 1..4
  OBVIOUS
<1>3. DOMAIN (s \o t) = 1..4
  BY <1>1, <1>2, LenProperties
<1> QED
  BY <1>1, <1>2, <1>3

\* Every format tried before the text's own fails on it.
LEMMA OwnFormat ==
    ASSUME NEW tm, NEW text, FormsOf(text) \in {DashTime, SlashTime}
    PROVE  LET r == TryParseBy(tm, text, AtFormats)
           IN  r.ok /\ r.tm = Parsed(tm, text, FormsOf(text))
<1> DEFINE all  == <<DashTime>> \o AtFormats
           good == {i \in DOMAIN all : CanParse(text, all[i])}
           first == CHOOSE i \in good : \A k \in good : i <= k
<1>2. /\ Len(DashTime) = 2 /\ Len(SlashTime) = 2 /\ Len(TimeOfDay) = 1
      /\ DashTime[1] = "dash" /\ SlashTime[1] = "slash" /\ TimeOfDay[1] = "clock"
  BY DEF DashTime, SlashTime, TimeOfDay
<1>3. /\ DOMAIN text = 1..2 /\ Len(text) = 2 /\ text[1].form \in {"dash", "slash"}
      /\ text[2].form = "clock"
      /\ text[1].form = "dash" <=> FormsOf(text) = DashTime
  <2>1. DOMAIN FormsOf(text) = DOMAIN text /\ \A i \in DOMAIN text : FormsOf(text)[i] = text[i].form
    BY DEF FormsOf
  <2>2. DOMAIN text = 1..2
    BY <2>1 DEF DashTime, SlashTime
  <2>3. Len(text) = 2
    BY <2>2
  <2> QED
    BY <2>1, <2>2, <2>3 DEF DashTime, SlashTime
<1>4. /\ ~CanParse(text, TimeOfDay)
      /\ CanParse(text, DashTime) <=> FormsOf(text) = DashTime
      /\ CanParse(text, SlashTime) <=> FormsOf(text) # DashTime
  <2>1. ~CanParse(text, TimeOfDay)
    <3>1. 1 \in DOMAIN TimeOfDay /\ TimeOfDay[1] = "clock" /\ text[1].form # "clock"
      BY <1>3 DEF TimeOfDay
    <3> QED
      BY <3>1 DEF CanParse
  <2>2. ASSUME NEW f \in {DashTime, SlashTime}
        PROVE  CanParse(text, f) <=> text[1].form = f[1]
    <3>1. Len(f) = 2 /\ DOMAIN f = {1, 2} /\ f[2] = "clock"
      BY DEF DashTime, SlashTime
    <3> QED
      BY <1>3, <3>1 DEF CanParse
  <2> QED
    BY <1>2, <1>3, <2>1, <2>2
<1>5. DOMAIN all = 1..4 /\ all[1] = DashTime /\ all[2] = TimeOfDay
      /\ all[3] = DashTime /\ all[4] = SlashTime
  <2> DEFINE S == {DashTime, TimeOfDay, SlashTime}
             s == <<DashTime>>
  <2>1. s \in Seq(S) /\ Len(s) = 1 /\ s[1] = DashTime
    OBVIOUS
  <2>2. /\ AtFormats \in Seq(S) /\ Len(AtFormats) = 3
        /\ AtFormats[1] = TimeOfDay /\ AtFormats[2] = DashTime /\ AtFormats[3] = SlashTime
    BY DEF AtFormats
  <2>3. all = s \o AtFormats
    OBVIOUS
  <2> HIDE DEF S, s, all
  <2> QED
    BY <2>1, <2>2, <2>3, OneBeforeThree
<1>6. TryParseBy(tm, text, AtFormats) =
         IF good = {} THEN [ok |-> FALSE, tm |-> tm]
                      ELSE [ok |-> TRUE, tm |-> Parsed(tm, text, all[first])]
  BY DEF TryParseBy
<1> HIDE DEF all
<1>7. \A i \in 1..4 : i \in good <=> CanParse(text, all[i])
  BY <1>5
<1>8. good \subseteq 1..4
  BY <1>5
<1> HIDE DEF good
<1>9. all[first] = FormsOf(text) /\ good # {}
  <2>1. ASSUME NEW i \in good, \A k \in good : i <= k
        PROVE  first \in good /\ \A k \in good : first <= k
    BY <2>1
  <2> HIDE DEF first
  <2>2. CASE FormsOf(text) = DashTime
    <3>1. 1 \in good
      BY <1>4, <1>5, <1>7, <2>2
    <3>2. first \in good /\ first <= 1
      BY <1>8, <2>1, <3>1
    <3>3. first = 1
      BY <1>8, <3>2
    <3> QED
      BY <1>5, <2>2, <3>1, <3>3
  <2>3. CASE FormsOf(text) = SlashTime
    <3>1. 4 \in good /\ 1 \notin good /\ 2 \notin good /\ 3 \notin good
      BY <1>2, <1>3, <1>4, <1>5, <1>7, <2>3
    <3>2. \A k \in good : k = 4
      BY <1>8, <3>1
    <3>3. first = 4
      BY <2>1, <3>1, <3>2
    <3> QED
      BY <1>5, <2>3, <3>1, <3>3
  <2> QED
    BY <2>2, <2>3
<1> QED
  BY <1>6, <1>9

\* A text with a date and a time leaves nothing of what the std::tm held.
LEMMA NothingLeftOver ==
    ASSUME NEW text, NEW tm, NEW tm2
    PROVE  FormsOf(text) \in {DashTime, SlashTime} =>
              Parsed(tm, text, FormsOf(text)) = Parsed(tm2, text, FormsOf(text))
<1>1. ASSUME NEW f \in {DashTime, SlashTime}
      PROVE  1 \in {i \in DOMAIN f : f[i] # "clock"} /\ 2 \in {i \in DOMAIN f : f[i] = "clock"}
  BY DEF DashTime, SlashTime
<1> QED
  BY <1>1 DEF Parsed

-----------------------------------------------------------------------------
(* The members of an object say what its order does.                        *)

\* The members of all objects, and the parts of an order.
Shaped ==
    /\ DOMAIN _tp = Objects /\ DOMAIN _f = Objects /\ DOMAIN _dur = Objects
    /\ DOMAIN _interval = Objects /\ DOMAIN _pattern = Objects
    /\ DOMAIN wheel = Objects /\ DOMAIN order = Objects
    /\ \A o \in Objects : DOMAIN order[o] = {"fn", "call", "when", "pattern"}

\* The members a class uses, as its last call left them, or its construction.
TimerKnows(o) ==
    class = "timer_t" =>
        order[o].call = "in" /\ order[o].pattern = NoPattern /\ _tp[o] = order[o].when

TickerKnows(o) ==
    class = "ticker_t" =>
        /\ order[o].call \in {"every", "interval"} /\ order[o].pattern = NoPattern
        /\ _dur[o] = order[o].when /\ (_interval[o] <=> order[o].call = "interval")

AlarmKnows(o) ==
    class = "alarm_t" =>
        order[o].call = "loop" /\ order[o].when = 0 /\ _pattern[o] = order[o].pattern

Knows(o) == /\ _f[o] = order[o].fn
            /\ TimerKnows(o) /\ TickerKnows(o) /\ AlarmKnows(o)

IInv == /\ Shaped /\ class \in AllClasses
        /\ live \subseteq Objects
        /\ \A o \in Objects : Knows(o)

LEMMA InitInv == Init => IInv
<1> SUFFICES ASSUME Init PROVE IInv
  OBVIOUS
<1>1. class \in AllClasses /\ live \subseteq Objects
  BY ObjectsAssumption, ClassesAssumption DEF Init
<1>2. PICK d \in Spans \cup {0} : InitTicker(d) /\ order = Default(Untold(d))
  BY DEF Init
<1>3. /\ _tp = Default(0) /\ _f = Default(NoFunction) /\ _dur = Default(d)
      /\ _interval = Default(FALSE) /\ _pattern = Default(NoPattern) /\ wheel = Default({})
  BY <1>2 DEF Init, InitTicker, InitAlarm
<1>4. /\ DOMAIN Untold(d) = {"fn", "call", "when", "pattern"}
      /\ Untold(d).fn = NoFunction /\ Untold(d).pattern = NoPattern
      /\ class = "timer_t" => Untold(d).call = "in" /\ Untold(d).when = 0
      /\ class = "ticker_t" => Untold(d).call = "every" /\ Untold(d).when = d
      /\ class = "alarm_t" => Untold(d).call = "loop" /\ Untold(d).when = 0
  BY DEF Untold
<1>5. Shaped
  BY <1>2, <1>3, <1>4 DEF Shaped, Default
<1>6. ASSUME NEW o \in Objects PROVE Knows(o)
  <2>1. order[o] = Untold(d)
    BY <1>2 DEF Default
  <2> QED
    BY <1>3, <1>4, <2>1 DEF Knows, TimerKnows, TickerKnows, AlarmKnows, Default
<1> QED
  BY <1>1, <1>5, <1>6 DEF IInv

\* An object that a step leaves as it was.
Untouched(i) ==
    /\ order'[i] = order[i] /\ _tp'[i] = _tp[i] /\ _f'[i] = _f[i]
    /\ _dur'[i] = _dur[i] /\ _interval'[i] = _interval[i] /\ _pattern'[i] = _pattern[i]

LEMMA OthersKnow ==
    ASSUME class' = class, NEW i \in Objects, Knows(i), Untouched(i)
    PROVE  Knows(i)'
BY DEF Knows, TimerKnows, TickerKnows, AlarmKnows, Untouched

\* A member of one object assigned.
LEMMA Assigned ==
    ASSUME NEW f, DOMAIN f = Objects, NEW o \in Objects, NEW x
    PROVE  /\ DOMAIN [f EXCEPT ![o] = x] = Objects
           /\ [f EXCEPT ![o] = x][o] = x
           /\ \A i \in Objects \ {o} : [f EXCEPT ![o] = x][i] = f[i]
OBVIOUS

\* A call that says when.
LEMMA BeginStep ==
    ASSUME IInv, NEW o \in Objects, NEW call, NEW when, NEW pattern,
           Begin(o, call, when, pattern)
    PROVE  /\ order'[o].fn = order[o].fn /\ order'[o].call = call
           /\ order'[o].when = when /\ order'[o].pattern = pattern
           /\ DOMAIN order' = Objects
           /\ \A i \in Objects : DOMAIN order'[i] = {"fn", "call", "when", "pattern"}
           /\ \A i \in Objects \ {o} : order'[i] = order[i]
           /\ o \in live /\ live' = live /\ class' = class /\ now' = now /\ wheel' = wheel
<1> DEFINE r1 == [order[o] EXCEPT !.call = call]
           r2 == [r1 EXCEPT !.when = when]
           r == [r2 EXCEPT !.pattern = pattern]
           f1 == [order EXCEPT ![o] = r1]
           f2 == [f1 EXCEPT ![o] = r2]
           f == [f2 EXCEPT ![o] = r]
<1>1. DOMAIN order = Objects /\ DOMAIN order[o] = {"fn", "call", "when", "pattern"}
      /\ \A i \in Objects : DOMAIN order[i] = {"fn", "call", "when", "pattern"}
  BY DEF IInv, Shaped
<1>2. /\ DOMAIN r = {"fn", "call", "when", "pattern"}
      /\ r.fn = order[o].fn /\ r.call = call /\ r.when = when /\ r.pattern = pattern
  BY <1>1
<1>3. order' = f
  BY <1>1 DEF Begin
<1> HIDE DEF r
<1>4. DOMAIN f = Objects /\ f[o] = r /\ \A i \in Objects \ {o} : f[i] = order[i]
  BY <1>1
<1> HIDE DEF f
<1> QED
  BY <1>1, <1>2, <1>3, <1>4 DEF Begin
\* It is enough to look at the object of the step.
LEMMA OneObject ==
    ASSUME IInv, Shaped', class' = class, live' \subseteq Objects,
           NEW o \in Objects, Knows(o)', \A i \in Objects \ {o} : Untouched(i)
    PROVE  IInv'
<1>1. \A i \in Objects : Knows(i)'
  BY OthersKnow DEF IInv
<1> QED
  BY <1>1 DEF IInv

LEMMA InStep ==
    ASSUME IInv, NEW o \in Objects, NEW tp, In(o, tp)
    PROVE  IInv' /\ wheel' = wheel
<1>1. /\ order'[o].fn = order[o].fn /\ order'[o].call = "in"
      /\ order'[o].when = tp /\ order'[o].pattern = NoPattern
      /\ DOMAIN order' = Objects
      /\ \A i \in Objects : DOMAIN order'[i] = {"fn", "call", "when", "pattern"}
      /\ \A i \in Objects \ {o} : order'[i] = order[i]
      /\ o \in live /\ live' = live /\ class' = class /\ now' = now /\ wheel' = wheel
  BY BeginStep DEF In
<1>2. /\ class = "timer_t" /\ _tp' = [_tp EXCEPT ![o] = tp] /\ _f' = _f
      /\ _dur' = _dur /\ _interval' = _interval /\ _pattern' = _pattern
  BY DEF In
<1>3. Shaped'
  BY <1>1, <1>2 DEF IInv, Shaped
<1>4. _tp'[o] = tp
  BY <1>2 DEF IInv, Shaped
<1>5. Knows(o)'
  BY <1>1, <1>2, <1>4 DEF IInv, Knows, TimerKnows, TickerKnows, AlarmKnows
<1>6. \A i \in Objects \ {o} : Untouched(i)
  BY <1>1, <1>2 DEF Untouched
<1>7. live' \subseteq Objects
  BY <1>1 DEF IInv
<1> QED
  BY <1>1, <1>3, <1>5, <1>6, <1>7, OneObject

\* What at() makes of a dated text is what it means, whatever its std::tm held.
LEMMA AtIsIn ==
    ASSUME Dated, NEW o \in Objects, NEW text \in Texts, At(o, text)
    PROVE  In(o, Meant(text, LocalTime(now)))
<1>1. FormsOf(text) \in {DashTime, SlashTime}
  BY DEF Dated
<1>2. PICK mday \in {1, 31} :
         LET tm == [mon |-> 11, mday |-> mday, tick |-> 0]
             r  == TryParseBy(tm, text, AtFormats)
             tp == MkTime(r.tm)
         IN  /\ r.ok
             /\ _tp' = [_tp EXCEPT ![o] = IF now >= tp THEN tp + Days(1) ELSE tp]
             /\ Begin(o, "in", Meant(text, LocalTime(now)), NoPattern)
  BY DEF At
<1> DEFINE tm == [mon |-> 11, mday |-> mday, tick |-> 0]
           r  == TryParseBy(tm, text, AtFormats)
           tp == MkTime(r.tm)
<1>3. r.tm = Parsed(LocalTime(now), text, FormsOf(text))
  <2>1. r.tm = Parsed(tm, text, FormsOf(text))
    BY <1>1, OwnFormat
  <2>2. Parsed(tm, text, FormsOf(text)) = Parsed(LocalTime(now), text, FormsOf(text))
    BY <1>1, NothingLeftOver
  <2> QED
    BY <2>1, <2>2
<1>4. /\ _tp' = [_tp EXCEPT ![o] = IF now >= tp THEN tp + Days(1) ELSE tp]
      /\ Begin(o, "in", Meant(text, LocalTime(now)), NoPattern)
  BY <1>2
<1>5. (IF now >= tp THEN tp + Days(1) ELSE tp) = Meant(text, LocalTime(now))
  BY <1>3 DEF Meant
<1> HIDE DEF tp
<1>6. _tp' = [_tp EXCEPT ![o] = Meant(text, LocalTime(now))]
  BY <1>4, <1>5
<1> QED
  BY <1>4, <1>6 DEF In, At

LEMMA EveryStep ==
    ASSUME IInv, NEW o \in Objects, NEW d, Every(o, d) \/ Interval(o, d)
    PROVE  IInv' /\ wheel' = wheel
<1>1. PICK call \in {"every", "interval"} :
         /\ class = "ticker_t" /\ Begin(o, call, d, NoPattern)
         /\ _dur' = [_dur EXCEPT ![o] = d]
         /\ _interval' = [_interval EXCEPT ![o] = (call = "interval")]
         /\ _tp' = _tp /\ _f' = _f /\ _pattern' = _pattern
  <2>1. CASE Every(o, d)
    <3>1. _interval' = [_interval EXCEPT ![o] = ("every" = "interval")]
      BY <2>1 DEF Every
    <3> QED
      BY <2>1, <3>1 DEF Every
  <2>2. CASE Interval(o, d)
    <3>1. _interval' = [_interval EXCEPT ![o] = ("interval" = "interval")]
      BY <2>2 DEF Interval
    <3> QED
      BY <2>2, <3>1 DEF Interval
  <2> QED
    BY <2>1, <2>2
<1>2. /\ order'[o].fn = order[o].fn /\ order'[o].call = call
      /\ order'[o].when = d /\ order'[o].pattern = NoPattern
      /\ DOMAIN order' = Objects
      /\ \A i \in Objects : DOMAIN order'[i] = {"fn", "call", "when", "pattern"}
      /\ \A i \in Objects \ {o} : order'[i] = order[i]
      /\ o \in live /\ live' = live /\ class' = class /\ now' = now /\ wheel' = wheel
  BY <1>1, BeginStep
<1>3. Shaped'
  BY <1>1, <1>2 DEF IInv, Shaped
<1>4. _dur'[o] = d /\ _interval'[o] = (call = "interval")
  BY <1>1 DEF IInv, Shaped
<1>5. Knows(o)'
  BY <1>1, <1>2, <1>4 DEF IInv, Knows, TimerKnows, TickerKnows, AlarmKnows
<1>6. \A i \in Objects \ {o} : Untouched(i)
  BY <1>1, <1>2 DEF Untouched
<1>7. live' \subseteq Objects
  BY <1>2 DEF IInv
<1> QED
  BY <1>2, <1>3, <1>5, <1>6, <1>7, OneObject

LEMMA LoopForStep ==
    ASSUME IInv, NEW o \in Objects, NEW p, LoopFor(o, p)
    PROVE  IInv' /\ wheel' = wheel
<1>1. /\ order'[o].fn = order[o].fn /\ order'[o].call = "loop"
      /\ order'[o].when = 0 /\ order'[o].pattern = p
      /\ DOMAIN order' = Objects
      /\ \A i \in Objects : DOMAIN order'[i] = {"fn", "call", "when", "pattern"}
      /\ \A i \in Objects \ {o} : order'[i] = order[i]
      /\ o \in live /\ live' = live /\ class' = class /\ now' = now /\ wheel' = wheel
  BY BeginStep DEF LoopFor
<1>2. /\ class = "alarm_t" /\ _pattern' = [_pattern EXCEPT ![o] = p] /\ _f' = _f
      /\ _dur' = _dur /\ _interval' = _interval /\ _tp' = _tp
  BY DEF LoopFor
<1>3. Shaped'
  BY <1>1, <1>2 DEF IInv, Shaped
<1>4. _pattern'[o] = p
  BY <1>2 DEF IInv, Shaped
<1>5. Knows(o)'
  BY <1>1, <1>2, <1>4 DEF IInv, Knows, TimerKnows, TickerKnows, AlarmKnows
<1>6. \A i \in Objects \ {o} : Untouched(i)
  BY <1>1, <1>2 DEF Untouched
<1>7. live' \subseteq Objects
  BY <1>1 DEF IInv
<1> QED
  BY <1>1, <1>3, <1>5, <1>6, <1>7, OneObject

LEMMA OnStep ==
    ASSUME IInv, NEW o \in Objects, NEW f, On(o, f)
    PROVE  IInv' /\ wheel' = wheel
<1> DEFINE r == [order[o] EXCEPT !.fn = f]
<1>1. DOMAIN order = Objects /\ DOMAIN order[o] = {"fn", "call", "when", "pattern"}
  BY DEF IInv, Shaped
<1>2. /\ DOMAIN r = {"fn", "call", "when", "pattern"} /\ r.fn = f
      /\ r.call = order[o].call /\ r.when = order[o].when /\ r.pattern = order[o].pattern
  BY <1>1
<1>3. /\ order' = [order EXCEPT ![o] = r] /\ _f' = [_f EXCEPT ![o] = f]
      /\ UNCHANGED <<class, now, live, _tp, _dur, _interval, _pattern, wheel, calls>>
  BY DEF On
<1> HIDE DEF r
<1>4. order'[o] = r /\ _f'[o] = f
  BY <1>1, <1>3 DEF IInv, Shaped
<1>5. Shaped'
  BY <1>1, <1>2, <1>3 DEF IInv, Shaped
<1>6. Knows(o)'
  BY <1>2, <1>3, <1>4 DEF IInv, Knows, TimerKnows, TickerKnows, AlarmKnows
<1>7. \A i \in Objects \ {o} : Untouched(i)
  BY <1>1, <1>3 DEF Untouched, IInv, Shaped
<1>8. live' \subseteq Objects
  BY <1>3 DEF IInv
<1> QED
  BY <1>3, <1>5, <1>6, <1>7, <1>8, OneObject

\* The jobs of the wheel of an object, and what its order asks for.
BuiltAsOrdered(o) ==
    wheel'[o] # wheel[o] /\ o \in live
       => wheel'[o] = wheel[o] \cup {<<FirstDue(order[o]), Asked(order[o])>>}

\* build(): the one job more is that of the order, whose function a ticker keeps.
LEMMA BuildStep ==
    ASSUME IInv, NEW o \in Objects, NEW tp, NEW job, Put(o, tp, job),
           class' = class, now' = now, live' = live,
           UNCHANGED <<_tp, _dur, _interval, _pattern>>,
           \/ _f' = [_f EXCEPT ![o] = NoFunction] /\ UsedUp(o)
           \/ _f' = _f /\ order' = order,
           tp = FirstDue(order[o]), job = Asked(order[o])
    PROVE  IInv' /\ \A i \in Objects : BuiltAsOrdered(i)
<1>1. /\ DOMAIN _f' = Objects /\ DOMAIN order' = Objects /\ order'[o].fn = _f'[o]
      /\ \A i \in Objects \ {o} : _f'[i] = _f[i] /\ order'[i] = order[i]
      /\ order'[o].call = order[o].call /\ order'[o].when = order[o].when
      /\ order'[o].pattern = order[o].pattern
      /\ DOMAIN order'[o] = {"fn", "call", "when", "pattern"}
  <2>1. CASE _f' = [_f EXCEPT ![o] = NoFunction] /\ UsedUp(o)
    <3> DEFINE r == [order[o] EXCEPT !.fn = NoFunction]
    <3>1. /\ r.fn = NoFunction /\ r.call = order[o].call /\ r.when = order[o].when
          /\ r.pattern = order[o].pattern /\ DOMAIN r = {"fn", "call", "when", "pattern"}
      BY DEF IInv, Shaped
    <3>2. order' = [order EXCEPT ![o] = r] /\ _f' = [_f EXCEPT ![o] = NoFunction]
      BY <2>1 DEF UsedUp, IInv, Shaped
    <3> HIDE DEF r
    <3> QED
      BY <3>1, <3>2 DEF IInv, Shaped
  <2>2. CASE _f' = _f /\ order' = order
    BY <2>2 DEF IInv, Shaped, Knows
  <2> QED
    BY <2>1, <2>2
<1>2. /\ DOMAIN wheel' = Objects /\ wheel'[o] = wheel[o] \cup {<<tp, job>>}
      /\ \A i \in Objects \ {o} : wheel'[i] = wheel[i]
  BY DEF Put, IInv, Shaped
<1>3. Shaped'
  BY <1>1, <1>2 DEF IInv, Shaped
<1>4. Knows(o)'
  BY <1>1 DEF IInv, Knows, TimerKnows, TickerKnows, AlarmKnows
<1>5. \A i \in Objects \ {o} : Untouched(i)
  BY <1>1 DEF Untouched
<1>6. IInv'
  <2>1. live' \subseteq Objects
    BY DEF IInv
  <2> QED
    BY <1>3, <1>4, <1>5, <2>1, OneObject
<1>7. \A i \in Objects : BuiltAsOrdered(i)
  BY <1>2 DEF BuiltAsOrdered
<1> QED
  BY <1>6, <1>7

LEMMA BuildTimerStep ==
    ASSUME IInv, NEW o \in Objects, BuildTimer(o)
    PROVE  IInv' /\ \A i \in Objects : BuiltAsOrdered(i)
<1>1. /\ class = "timer_t" /\ _f[o] = order[o].fn /\ order[o].call = "in"
      /\ order[o].pattern = NoPattern /\ _tp[o] = order[o].when
  BY DEF BuildTimer, IInv, Knows, TimerKnows
<1>2. _tp[o] = FirstDue(order[o])
  BY <1>1 DEF FirstDue
<1>3. Job(_f[o], 0, NoPattern) = Asked(order[o])
  BY <1>1 DEF Asked
<1>4. /\ Put(o, _tp[o], Job(_f[o], 0, NoPattern))
      /\ _f' = [_f EXCEPT ![o] = NoFunction] /\ UsedUp(o)
      /\ class' = class /\ now' = now /\ live' = live
      /\ UNCHANGED <<_tp, _dur, _interval, _pattern>>
  BY DEF BuildTimer
<1> QED
  BY <1>1, <1>2, <1>3, <1>4, BuildStep

LEMMA BuildTickerStep ==
    ASSUME IInv, NEW o \in Objects, BuildTicker(o)
    PROVE  IInv' /\ \A i \in Objects : BuiltAsOrdered(i)
<1> DEFINE tp == IF _interval[o] THEN now ELSE now + _dur[o]
<1>1. /\ class = "ticker_t" /\ _f[o] = order[o].fn
      /\ order[o].call \in {"every", "interval"}
      /\ order[o].pattern = NoPattern /\ _dur[o] = order[o].when
      /\ _interval[o] <=> order[o].call = "interval"
  BY DEF BuildTicker, IInv, Knows, TickerKnows
<1>2. tp = FirstDue(order[o])
  <2>1. CASE order[o].call = "every"
    BY <1>1, <2>1 DEF FirstDue
  <2>2. CASE order[o].call = "interval"
    BY <1>1, <2>2 DEF FirstDue
  <2> QED
    BY <1>1, <2>1, <2>2
<1>3. Job(_f[o], _dur[o], NoPattern) = Asked(order[o])
  BY <1>1 DEF Asked
<1>4. /\ Put(o, tp, Job(_f[o], _dur[o], NoPattern))
      /\ _f' = _f /\ order' = order /\ class' = class /\ now' = now /\ live' = live
      /\ UNCHANGED <<_tp, _dur, _interval, _pattern>>
  BY DEF BuildTicker, members
<1> HIDE DEF tp
<1> QED
  BY <1>1, <1>2, <1>3, <1>4, BuildStep

LEMMA BuildAlarmStep ==
    ASSUME IInv, NEW o \in Objects, BuildAlarm(o)
    PROVE  IInv' /\ \A i \in Objects : BuiltAsOrdered(i)
<1>1. /\ class = "alarm_t" /\ _f[o] = order[o].fn /\ order[o].call = "loop"
      /\ order[o].when = 0 /\ _pattern[o] = order[o].pattern
  BY DEF BuildAlarm, IInv, Knows, AlarmKnows
<1>2. NextOf(_pattern[o], now) = FirstDue(order[o])
  BY <1>1 DEF FirstDue
<1>3. Job(_f[o], 0, _pattern[o]) = Asked(order[o])
  BY <1>1 DEF Asked
<1>4. /\ _f' = [_f EXCEPT ![o] = NoFunction] /\ UsedUp(o)
      /\ Put(o, NextOf(_pattern[o], now), Job(_f[o], 0, _pattern[o]))
      /\ class' = class /\ now' = now /\ live' = live
      /\ UNCHANGED <<_tp, _dur, _interval, _pattern>>
  BY DEF BuildAlarm
<1> QED
  BY <1>1, <1>2, <1>3, <1>4, BuildStep

\* The copy knows what its original does; it has not been built before.
LEMMA CopyStep ==
    ASSUME IInv, NEW o \in Objects, NEW c \in Objects, Copy(o, c)
    PROVE  IInv' /\ \A i \in Objects : BuiltAsOrdered(i)
<1>1. /\ DOMAIN _tp = Objects /\ DOMAIN _f = Objects /\ DOMAIN _dur = Objects
      /\ DOMAIN _interval = Objects /\ DOMAIN _pattern = Objects
      /\ DOMAIN wheel = Objects /\ DOMAIN order = Objects
      /\ \A i \in Objects : DOMAIN order[i] = {"fn", "call", "when", "pattern"}
  BY DEF IInv, Shaped
<1>2. /\ c \notin live /\ live' = live \cup {c} /\ class' = class
      /\ _tp' = [_tp EXCEPT ![c] = _tp[o]] /\ _f' = [_f EXCEPT ![c] = _f[o]]
      /\ _dur' = [_dur EXCEPT ![c] = _dur[o]]
      /\ _interval' = [_interval EXCEPT ![c] = _interval[o]]
      /\ _pattern' = [_pattern EXCEPT ![c] = _pattern[o]]
      /\ wheel' = [wheel EXCEPT ![c] = wheel[o]]
      /\ order' = [order EXCEPT ![c] = order[o]]
  BY DEF Copy, CopyTimer, CopyTicker, CopyAlarm
<1>3. Shaped'
  BY <1>1, <1>2 DEF Shaped
<1>4. /\ order'[c] = order[o] /\ _tp'[c] = _tp[o] /\ _f'[c] = _f[o]
      /\ _dur'[c] = _dur[o] /\ _interval'[c] = _interval[o] /\ _pattern'[c] = _pattern[o]
  BY <1>1, <1>2
<1>5. Knows(c)'
  BY <1>2, <1>4 DEF IInv, Knows, TimerKnows, TickerKnows, AlarmKnows
<1>6. \A i \in Objects \ {c} : Untouched(i) /\ wheel'[i] = wheel[i]
  BY <1>1, <1>2 DEF Untouched
<1>7. live' \subseteq Objects
  BY <1>2 DEF IInv
<1>8. IInv'
  BY <1>2, <1>3, <1>5, <1>6, <1>7, OneObject
<1>9. \A i \in Objects : BuiltAsOrdered(i)
  BY <1>2, <1>6 DEF BuiltAsOrdered
<1> QED
  BY <1>8, <1>9

LEMMA NextStep ==
    ASSUME Dated, IInv, [Next]_vars
    PROVE  IInv' /\ \A i \in Objects : BuiltAsOrdered(i)
<1>1. ASSUME NEW o \in Objects, NEW tp, In(o, tp)
      PROVE  IInv' /\ wheel' = wheel
  BY <1>1, InStep
<1>2. ASSUME NEW o \in Objects, NEW text \in Texts, At(o, text)
      PROVE  IInv' /\ wheel' = wheel
  BY <1>2, AtIsIn, InStep
<1>3. ASSUME NEW o \in Objects, NEW d, Every(o, d) \/ Interval(o, d)
      PROVE  IInv' /\ wheel' = wheel
  BY <1>3, EveryStep
<1>4. ASSUME NEW o \in Objects, NEW p, LoopFor(o, p)
      PROVE  IInv' /\ wheel' = wheel
  BY <1>4, LoopForStep
<1>5. ASSUME NEW o \in Objects, NEW f, On(o, f)
      PROVE  IInv' /\ wheel' = wheel
  BY <1>5, OnStep
<1>6. ASSUME Tick \/ UNCHANGED vars
      PROVE  IInv' /\ wheel' = wheel
  <2>1. /\ class' = class /\ live' = live /\ _tp' = _tp /\ _f' = _f /\ _dur' = _dur
        /\ _interval' = _interval /\ _pattern' = _pattern /\ wheel' = wheel
        /\ order' = order
    BY <1>6 DEF Tick, vars, members
  <2> QED
    BY <2>1 DEF IInv, Shaped, Knows, TimerKnows, TickerKnows, AlarmKnows
<1>7. ASSUME wheel' = wheel PROVE \A i \in Objects : BuiltAsOrdered(i)
  BY <1>7 DEF BuiltAsOrdered
<1>8. ASSUME NEW o \in Objects, BuildTimer(o) \/ BuildTicker(o) \/ BuildAlarm(o)
      PROVE  IInv' /\ \A i \in Objects : BuiltAsOrdered(i)
  BY <1>8, BuildTimerStep, BuildTickerStep, BuildAlarmStep
<1> QED
  BY <1>1, <1>2, <1>3, <1>4, <1>5, <1>6, <1>7, <1>8, CopyStep DEF Next, Idle

\* As long as every text given to at() says a date and a time, every job built is
\* the one its object was last told: its own chain's function and time, if the
\* chain says both, whatever chains came before and wherever in the middle of one
\* the object was copied; without on(), no function of an earlier job of a timer
\* or an alarm.
THEOREM EveryJobAsOrdered ==
    ASSUME Dated PROVE Spec => AsOrdered
<1>1. IInv /\ [Next]_vars => IInv'
  BY NextStep
<1>2. IInv /\ [Next]_vars
        => [\A o \in Objects : wheel'[o] # wheel[o] /\ o \in live
              => wheel'[o] = wheel[o] \cup {<<FirstDue(order[o]), Asked(order[o])>>}]_vars
  BY NextStep DEF BuiltAsOrdered
<1> QED
  BY <1>1, <1>2, InitInv, PTL DEF Spec, AsOrdered
=============================================================================
