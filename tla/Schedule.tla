------------------------------ MODULE Schedule ------------------------------
(***************************************************************************)
(* What timer_t and ticker_t promise about each job, without the wheel and *)
(* the threads: a job is armed for a time point, fires once for it, never  *)
(* before the second of that time point, and only a recurring job that has *)
(* fired is armed again, at most one period from then.  The promise is     *)
(* weaker than one would like: a job may fire early within its second, and *)
(* a job that is due may be dropped.                                       *)
(***************************************************************************)
EXTENDS Integers

CONSTANTS
    Jobs,           \* the jobs built
    TimePoints,     \* the times they can be built for
    TicksPerSecond  \* ticks of the clock in a second

NoTime == -1

VARIABLES
    clock,      \* the time
    kind, dur,  \* what each job is: "once", "every" or "interval", its period
    phase,      \* where each job is
    due         \* the time point an armed job waits for

jobVars == <<kind, dur>>
vars == <<clock, jobVars, phase, due>>

Begun(tp) == tp \div TicksPerSecond <= clock \div TicksPerSecond

Init == /\ clock = 0
        /\ phase = [j \in Jobs |-> "unset"]
        /\ due = [j \in Jobs |-> NoTime]

Enter(j, ph, tp) == /\ phase' = [phase EXCEPT ![j] = ph]
                    /\ due' = [due EXCEPT ![j] = tp]
                    /\ UNCHANGED <<clock, jobVars>>

Arm(j) == phase[j] = "unset" /\ \E tp \in TimePoints : Enter(j, "armed", tp)

Fire(j) == phase[j] = "armed" /\ Begun(due[j]) /\ Enter(j, "fired", NoTime)

Rearm(j) == /\ phase[j] = "fired" /\ kind[j] # "once"
            /\ \E tp \in 0..(clock + dur[j]) : Enter(j, "armed", tp)

\* A job is destroyed before its post_job can arm it again.
Lose(j) == phase[j] = "fired" /\ kind[j] = "interval" /\ Enter(j, "gone", NoTime)

\* Jobs that are due are dropped, several in one step: the slots before the
\* one picked are erased from the wheel.
DropSome == \E js \in SUBSET {j \in Jobs : phase[j] = "armed" /\ Begun(due[j])} :
    /\ phase' = [j \in Jobs |-> IF j \in js THEN "gone" ELSE phase[j]]
    /\ due' = [j \in Jobs |-> IF j \in js THEN NoTime ELSE due[j]]
    /\ UNCHANGED <<clock, jobVars>>

Tick == clock' = clock + 1 /\ UNCHANGED <<jobVars, phase, due>>

Next == Tick \/ DropSome \/ \E j \in Jobs : Arm(j) \/ Fire(j) \/ Rearm(j) \/ Lose(j)

Spec == Init /\ [][Next]_vars
=============================================================================
