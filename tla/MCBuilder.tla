------------------------------ MODULE MCBuilder ------------------------------
(* Texts, patterns and times for the run of Builder.                         *)
EXTENDS Builder, TLC

CONSTANTS o1, o2, f1, f2, p1, p2

\* Texts of the 14th and 15th of January; the clock begins on the 15th, at 1.  A
\* text that says no date is not among them: what at() makes of it is anybody's
\* guess.
Text(form, mday, tick) == <<Part(form, 0, mday, 0), Part("clock", 0, 0, tick)>>
DatedTexts == {Text("slash", 14, 2), Text("dash", 15, 2)}

\* A pattern comes round once a day, p2 later in the day; Nothing has no time
\* point but the epoch.
NextOfPattern(p, t) == IF p = NoPattern THEN 0
    ELSE (t \div TicksPerDay + 1) * TicksPerDay + IF p = p1 THEN 0 ELSE 1

Symmetry == Permutations(Functions)
==============================================================================
