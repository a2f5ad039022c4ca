-------------------------------- MODULE Timer --------------------------------
(***************************************************************************)
(* The timing wheel of timer_t and ticker_t (ticker-core.hh) and the       *)
(* threads that share it: user threads that build jobs, the runner thread  *)
(* in runner_loop(), and the workers of the private thread_pool _pool,     *)
(* which run the jobs and, for an _interval job, put it back.              *)
(*                                                                         *)
(* Time passes in ticks, TicksPerSecond of them in a second: find_next()   *)
(* compares whole seconds.  Each locked region of _l_twl is one action;    *)
(* each reading of the clock outside the lock is another.                  *)
(***************************************************************************)
EXTENDS Integers, FiniteSets, FiniteSetsExt

CONSTANTS
    Jobs,            \* the timer_job objects built
    Kinds,           \* the kinds of job in use, a subset of AllKinds
    Durations,       \* the durations given to in(), every() and interval()
    Absolute,        \* the time points given to at() and in()
    TicksPerSecond,  \* resolution of to_time_t against that of the clock
    LargerGap,       \* _larger_gap, 3 seconds, in ticks
    LastBuild,       \* bound: no job is built after this time
    MaxTime,         \* bound: the clock stops here
    PoolBound,       \* bound: launches of a job waiting in the pool
    Prompt           \* TRUE: threads take no time compared with a tick

\* once: in_job; every: every_job with its _interval false; interval: the
\* same with _interval true, which takes a job class of the user's.
AllKinds == {"once", "every", "interval"}

ASSUME KindsAssumption == Kinds \subseteq AllKinds
ASSUME TimeAssumption == /\ TicksPerSecond \in Nat \ {0}
                         /\ LargerGap \in Nat \ {0}
                         /\ MaxTime \in Nat /\ LastBuild \in 0..MaxTime
                         /\ Durations \subseteq Nat \ {0} /\ Durations # {}
                         /\ Absolute \subseteq Nat
                         /\ IsFiniteSet(Durations \cup Absolute)
ASSUME PoolAssumption == PoolBound \in Nat \ {0}
ASSUME PromptAssumption == Prompt \in BOOLEAN

NoTime == -1

\* Clock::to_time_t(tp).
Sec(tp) == tp \div TicksPerSecond

VARIABLES
    now,       \* Clock::now()
    kind, dur, \* what each job is
    bpc, btp,  \* each job's build(): where it is, and the _tp it read
    twl,       \* _twl: time point -> jobs
    pasts,     \* _pasts: time point -> jobs
    killed,    \* _tk
    rpc,       \* where the runner is
    d,         \* its d, and when it waits, the end of its wait_for(d)
    deadline,
    timeNow,   \* its time_now, in seconds
    itp, itn,  \* the keys its iterators point to, NoTime for end()
    jobs,      \* its local jobs,
    toLaunch,  \* those the launch loop has not reached,
    recurred,  \* and its recurred_jobs
    rtp,       \* the recurring job being put back -> its next time point
    pool,      \* launches of each job queued in _pool
    post,      \* the next time point a pool worker computed in post_job
    hits       \* _hit of each job, up to 2

jobVars == <<kind, dur>>
runVars == <<rpc, d, deadline, timeNow, itp, itn, jobs, toLaunch, recurred, rtp>>
poolVars == <<pool, post>>
vars == <<now, jobVars, bpc, btp, twl, pasts, killed, runVars, poolVars, hits>>

Slots(wheel) == DOMAIN wheel

\* Mutant: slots found empty are removed on the way.
AddTaskPruning(wheel, tp, j) ==
    [t \in {s \in DOMAIN wheel : wheel[s] # {}} \cup {tp} |->
        (IF t \in DOMAIN wheel THEN wheel[t] ELSE {})
          \cup (IF t = tp THEN {j} ELSE {})]

\* add_task(): the slot is found or made.
AddTask(wheel, tp, j) ==
    [t \in DOMAIN wheel \cup {tp} |->
        (IF t \in DOMAIN wheel THEN wheel[t] ELSE {})
          \cup (IF t = tp THEN {j} ELSE {})]

Init == /\ now = 0
        /\ kind \in [Jobs -> Kinds]
        /\ dur \in [Jobs -> Durations]
        /\ bpc = [j \in Jobs |-> "unbuilt"]
        /\ btp = [j \in Jobs |-> NoTime]
        /\ twl = <<>> /\ pasts = <<>>
        /\ killed = FALSE
        /\ rpc = "loop" /\ d = 0 /\ deadline = 0   \* 10ns is less than a tick
        /\ timeNow = 0 /\ itp = NoTime /\ itn = NoTime
        /\ jobs = {} /\ toLaunch = {} /\ recurred = {} /\ rtp = <<>>
        /\ pool = [j \in Jobs |-> 0]
        /\ post = [j \in Jobs |-> NoTime]
        /\ hits = [j \in Jobs |-> 0]

-----------------------------------------------------------------------------
(* Users.                                                                   *)

\* The time points a job can be built for.  timer_t: after(duration) and
\* at(time_point), which may be past.  ticker_t: every() starts one period
\* from now, interval() at once.
FirstPoints(j) == IF kind[j] = "once" THEN {now + dur[j]} \cup Absolute
                                      ELSE {now + dur[j], now}

\* The clock is read into _tp (or into next_time) before the lock is taken.
Prepare(j) ==
    /\ bpc[j] = "unbuilt" /\ now <= LastBuild
    /\ \E tp \in FirstPoints(j) : btp' = [btp EXCEPT ![j] = tp]
    /\ bpc' = [bpc EXCEPT ![j] = "adding"]
    /\ UNCHANGED <<now, jobVars, twl, pasts, killed, runVars, poolVars, hits>>

Build(j) ==
    /\ bpc[j] = "adding"
    /\ twl' = AddTask(twl, btp[j], j)
    /\ bpc' = [bpc EXCEPT ![j] = "built"]
    /\ UNCHANGED <<now, jobVars, btp, pasts, killed, runVars, poolVars, hits>>

\* stop() kills the wait of the runner (module TimerLifecycle has the rest).
Kill ==
    /\ ~killed
    /\ killed' = TRUE
    /\ UNCHANGED <<now, jobVars, bpc, btp, twl, pasts, runVars, poolVars, hits>>

-----------------------------------------------------------------------------
(* The runner.                                                              *)

\* _tk.wait_for(d): the time to wake up is fixed when the wait begins.
StartWait ==
    /\ rpc = "loop"
    /\ deadline' = now + d
    /\ rpc' = "waiting"
    /\ UNCHANGED <<now, jobVars, bpc, btp, twl, pasts, killed, d, timeNow, itp,
                   itn, jobs, toLaunch, recurred, rtp, poolVars, hits>>

\* The wait times out: one more round, with d reset.
WaitOver ==
    /\ rpc = "waiting" /\ now >= deadline /\ ~killed
    /\ d' = LargerGap
    /\ rpc' = "readClock"
    /\ UNCHANGED <<now, jobVars, bpc, btp, twl, pasts, killed, deadline, timeNow,
                   itp, itn, jobs, toLaunch, recurred, rtp, poolVars, hits>>

\* The condition is matched: the loop ends.
RunnerEnds ==
    /\ rpc = "waiting" /\ killed
    /\ rpc' = "ended"
    /\ UNCHANGED <<now, jobVars, bpc, btp, twl, pasts, killed, d, deadline,
                   timeNow, itp, itn, jobs, toLaunch, recurred, rtp, poolVars,
                   hits>>

\* find_next() reads the clock before it takes the lock.
ReadClock ==
    /\ rpc = "readClock"
    /\ timeNow' = Sec(now)
    /\ rpc' = "find"
    /\ UNCHANGED <<now, jobVars, bpc, btp, twl, pasts, killed, d, deadline, itp,
                   itn, jobs, toLaunch, recurred, rtp, poolVars, hits>>

\* Mutant: the loop moves itp before it compares the seconds.
FindNextOneTooFar ==
    /\ rpc = "find"
    /\ LET due   == {t \in Slots(twl) : \A s \in Slots(twl) :
                         s < t => Sec(s) <= timeNow}
           later == Slots(twl) \ due
       IN  IF due = {}
           THEN rpc' = "loop" /\ UNCHANGED <<itp, itn>>
           ELSE /\ rpc' = "pick"
                /\ itp' = Max(due)
                /\ itn' = IF later = {} THEN NoTime ELSE Min(later)
    /\ UNCHANGED <<now, jobVars, bpc, btp, twl, pasts, killed, d, deadline,
                   timeNow, jobs, toLaunch, recurred, rtp, poolVars, hits>>

\* Mutant: the loop stops before the last slot.
FindNextSkipsLast ==
    /\ rpc = "find"
    /\ LET due   == {t \in Slots(twl) : /\ Sec(t) <= timeNow
                                        /\ \E s \in Slots(twl) : s > t}
           later == Slots(twl) \ due
       IN  IF due = {}
           THEN rpc' = "loop" /\ UNCHANGED <<itp, itn>>
           ELSE /\ rpc' = "pick"
                /\ itp' = Max(due)
                /\ itn' = IF later = {} THEN NoTime ELSE Min(later)
    /\ UNCHANGED <<now, jobVars, bpc, btp, twl, pasts, killed, d, deadline,
                   timeNow, jobs, toLaunch, recurred, rtp, poolVars, hits>>

\* The rest of find_next(), under the lock: the LAST slot whose second has
\* begun, and the slot after it.
FindNext ==
    /\ rpc = "find"
    /\ LET due   == {t \in Slots(twl) : Sec(t) <= timeNow}
           later == Slots(twl) \ due
       IN  IF due = {}
           THEN rpc' = "loop" /\ UNCHANGED <<itp, itn>>
           ELSE /\ rpc' = "pick"
                /\ itp' = Max(due)
                /\ itn' = IF later = {} THEN NoTime ELSE Min(later)
    /\ UNCHANGED <<now, jobVars, bpc, btp, twl, pasts, killed, d, deadline,
                   timeNow, jobs, toLaunch, recurred, rtp, poolVars, hits>>

\* Mutant: the jobs are copied out of their slot, which keeps them.
PickCopies ==
    /\ rpc = "pick"
    /\ jobs' = twl[itp] /\ toLaunch' = twl[itp]
    /\ twl' = [t \in {s \in Slots(twl) : s >= itp} |-> twl[t]]
    /\ d' = IF itn # NoTime THEN itn - itp ELSE d
    /\ rpc' = "launch"
    /\ UNCHANGED <<now, jobVars, bpc, btp, pasts, killed, deadline, timeNow, itp,
                   itn, recurred, rtp, poolVars, hits>>

\* With the lock taken anew: the jobs of the slot are swapped out, the slots
\* before it erased.  The emptied slot itself stays.
Pick ==
    /\ rpc = "pick"
    /\ jobs' = twl[itp] /\ toLaunch' = twl[itp]
    /\ twl' = [t \in {s \in Slots(twl) : s >= itp} |->
                  IF t = itp THEN {} ELSE twl[t]]
    /\ d' = IF itn # NoTime THEN itn - itp ELSE d
    /\ rpc' = "launch"
    /\ UNCHANGED <<now, jobVars, bpc, btp, pasts, killed, deadline, timeNow, itp,
                   itn, recurred, rtp, poolVars, hits>>

\* Mutant: an _interval job, which has _recur set too, is treated as both.
LaunchIntervalAndRecur(j) ==
    /\ rpc = "launch" /\ j \in toLaunch
    /\ pool[j] < PoolBound
    /\ pool' = [pool EXCEPT ![j] = @ + 1]
    /\ hits' = [hits EXCEPT ![j] = IF @ < 2 THEN @ + 1 ELSE @]
    /\ toLaunch' = toLaunch \ {j}
    /\ IF kind[j] # "once"
       THEN recurred' = recurred \cup {j}
       ELSE UNCHANGED recurred
    /\ jobs' = IF kind[j] = "every" THEN jobs \ {j} ELSE jobs
    /\ UNCHANGED <<now, jobVars, bpc, btp, twl, pasts, killed, rpc, d, deadline,
                   timeNow, itp, itn, rtp, post>>

\* One round of the launch loop: launch_to() queues the job in _pool.  An
\* _interval job stays in jobs, where post_job will find it; a _recur job is
\* moved to recurred_jobs.
LaunchJob(j) ==
    /\ rpc = "launch" /\ j \in toLaunch
    /\ pool[j] < PoolBound
    /\ pool' = [pool EXCEPT ![j] = @ + 1]
    /\ hits' = [hits EXCEPT ![j] = IF @ < 2 THEN @ + 1 ELSE @]
    /\ toLaunch' = toLaunch \ {j}
    /\ IF kind[j] = "every"
       THEN jobs' = jobs \ {j} /\ recurred' = recurred \cup {j}
       ELSE UNCHANGED <<jobs, recurred>>
    /\ UNCHANGED <<now, jobVars, bpc, btp, twl, pasts, killed, rpc, d, deadline,
                   timeNow, itp, itn, rtp, post>>

\* _pasts.emplace(picked, std::move(jobs)): nothing is stored when _pasts has
\* the key already, and the jobs are destroyed.
HoldPasts ==
    /\ rpc = "launch" /\ toLaunch = {}
    /\ pasts' = IF itp \in Slots(pasts) THEN pasts
                ELSE [t \in Slots(pasts) \cup {itp} |->
                         IF t = itp THEN jobs ELSE pasts[t]]
    /\ jobs' = {}
    /\ rpc' = "recur"
    /\ UNCHANGED <<now, jobVars, bpc, btp, twl, killed, d, deadline, timeNow, itp,
                   itn, toLaunch, recurred, rtp, poolVars, hits>>

\* The loop over recurred_jobs reads the clock for the next time point,
NextPoint(j) ==
    /\ rpc = "recur" /\ j \in recurred /\ DOMAIN rtp = {}
    /\ rtp' = [r \in {j} |-> now + dur[j]]
    /\ UNCHANGED <<now, jobVars, bpc, btp, twl, pasts, killed, rpc, d, deadline,
                   timeNow, itp, itn, jobs, toLaunch, recurred, poolVars, hits>>

\* Mutant: the job put back is not let go of.
PutBackKept ==
    /\ rpc = "recur"
    /\ \E j \in DOMAIN rtp : /\ twl' = AddTask(twl, rtp[j], j)
                             /\ d' = rtp[j] - now
                             /\ recurred' = recurred \ {j}
    /\ UNCHANGED <<now, jobVars, bpc, btp, pasts, killed, rpc, deadline, timeNow,
                   itp, itn, jobs, toLaunch, rtp, poolVars, hits>>

\* Mutant: d is the time point, not the time left until it.
PutBackAbsolute ==
    /\ rpc = "recur"
    /\ \E j \in DOMAIN rtp : /\ twl' = AddTask(twl, rtp[j], j)
                             /\ d' = rtp[j]
                             /\ recurred' = recurred \ {j}
    /\ rtp' = <<>>
    /\ UNCHANGED <<now, jobVars, bpc, btp, pasts, killed, rpc, deadline, timeNow,
                   itp, itn, jobs, toLaunch, poolVars, hits>>

\* puts the job back, and reads it again to compute d.
PutBack ==
    /\ rpc = "recur"
    /\ \E j \in DOMAIN rtp : /\ twl' = AddTask(twl, rtp[j], j)
                             /\ d' = rtp[j] - now
                             /\ recurred' = recurred \ {j}
    /\ rtp' = <<>>
    /\ UNCHANGED <<now, jobVars, bpc, btp, pasts, killed, rpc, deadline, timeNow,
                   itp, itn, jobs, toLaunch, poolVars, hits>>

RoundOver ==
    /\ rpc = "recur" /\ recurred = {}
    /\ rpc' = "loop"
    /\ UNCHANGED <<now, jobVars, bpc, btp, twl, pasts, killed, d, deadline,
                   timeNow, itp, itn, jobs, toLaunch, recurred, rtp, poolVars,
                   hits>>

-----------------------------------------------------------------------------
(* The pool.                                                                *)

\* A worker runs fn() and then, for an _interval job, begins post_job by
\* reading the clock in next_time_point().
RunJob(j) ==
    /\ pool[j] > 0
    /\ pool' = [pool EXCEPT ![j] = @ - 1]
    /\ post' = [post EXCEPT ![j] = IF kind[j] = "interval" THEN now + dur[j]
                                                           ELSE @]
    /\ UNCHANGED <<now, jobVars, bpc, btp, twl, pasts, killed, runVars, hits>>

\* The job objects that the runner's vectors keep alive for post_job.
Held == jobs \cup UNION {pasts[t] : t \in Slots(pasts)}

\* post_job moves the job out of whichever vector its reference points into.
\* A job that was destroyed is not followed any further.
PostJob(j) ==
    /\ post[j] # NoTime
    /\ twl' = IF j \in Held THEN AddTask(twl, post[j], j) ELSE twl
    /\ jobs' = jobs \ {j}
    /\ pasts' = [t \in Slots(pasts) |-> pasts[t] \ {j}]
    /\ post' = [post EXCEPT ![j] = NoTime]
    /\ UNCHANGED <<now, jobVars, bpc, btp, killed, rpc, d, deadline, timeNow, itp,
                   itn, toLaunch, recurred, rtp, pool, hits>>

-----------------------------------------------------------------------------
(* Time.                                                                    *)

\* Every thread is waiting for time to pass.
Quiet == /\ rpc = "ended" \/ (rpc = "waiting" /\ now < deadline)
         /\ \A j \in Jobs : bpc[j] # "adding" /\ pool[j] = 0 /\ post[j] = NoTime

Tick ==
    /\ now < MaxTime
    /\ Prompt => Quiet
    /\ now' = now + 1
    /\ UNCHANGED <<jobVars, bpc, btp, twl, pasts, killed, runVars, poolVars, hits>>

\* The bound of the model, and the end of the runner.
TimeUp == now = MaxTime /\ rpc \in {"waiting", "ended"} /\ UNCHANGED vars

Runner == \/ StartWait \/ WaitOver \/ RunnerEnds
          \/ ReadClock \/ FindNext \/ Pick
          \/ (\E j \in Jobs : LaunchJob(j)) \/ HoldPasts
          \/ (\E j \in Jobs : NextPoint(j)) \/ PutBack \/ RoundOver

Next == \/ Tick \/ TimeUp \/ Kill
        \/ Runner
        \/ \E j \in Jobs : Prepare(j) \/ Build(j) \/ RunJob(j) \/ PostJob(j)

Spec == Init /\ [][Next]_vars

\* Time passes and threads that can run do run.
Fairness == /\ WF_vars(Tick)
            /\ WF_vars(Runner)
            /\ \A j \in Jobs : WF_vars(Build(j)) /\ WF_vars(RunJob(j))
                                 /\ WF_vars(PostJob(j))

FairSpec == Spec /\ Fairness

-----------------------------------------------------------------------------
(* Safety.                                                                  *)

TimePoints == 0..(MaxTime + Max(Durations \cup Absolute))
WheelType(wheel) == /\ Slots(wheel) \subseteq TimePoints
                    /\ \A t \in Slots(wheel) : wheel[t] \subseteq Jobs

\* Every variable has its type.
TypeOK == /\ now \in 0..MaxTime
          /\ kind \in [Jobs -> Kinds] /\ dur \in [Jobs -> Durations]
          /\ bpc \in [Jobs -> {"unbuilt", "adding", "built"}]
          /\ btp \in [Jobs -> TimePoints \cup {NoTime}]
          /\ WheelType(twl) /\ WheelType(pasts)
          /\ DOMAIN rtp \subseteq recurred
          /\ killed \in BOOLEAN
          /\ rpc \in {"loop", "waiting", "readClock", "find", "pick", "launch",
                      "recur", "ended"}
          /\ d \in Int /\ deadline \in Int /\ timeNow \in Nat
          /\ {itp, itn} \subseteq TimePoints \cup {NoTime}
          /\ jobs \subseteq Jobs /\ toLaunch \subseteq jobs
          /\ recurred \subseteq Jobs
          /\ pool \in [Jobs -> 0..PoolBound]
          /\ post \in [Jobs -> TimePoints \cup {NoTime}]
          /\ hits \in [Jobs -> 0..2]

\* The iterators find_next() returns are used after it has released the lock.
\* Whatever users and pool workers add meanwhile, they still point to slots
\* when runner_loop() dereferences them.
IteratorsValid == rpc = "pick" =>
    /\ itp \in Slots(twl)
    /\ itn \in Slots(twl) \cup {NoTime}
    /\ itn # NoTime => itp < itn

\* An _interval job launched whose post_job has not put it back.
InPool(j) == kind[j] = "interval" /\ (pool[j] > 0 \/ post[j] # NoTime)

\* Where job j waits for a launch, or is between a launch and the next.
Places(j) == {<<"slot", t>> : t \in {s \in Slots(twl) : j \in twl[s]}}
             \cup (IF j \in toLaunch THEN {<<"toLaunch", 0>>} ELSE {})
             \cup (IF j \in recurred THEN {<<"recurred", 0>>} ELSE {})
             \cup (IF InPool(j) THEN {<<"pool", 0>>} ELSE {})

\* A job is never in the wheel twice, nor put back twice for one launch,
\* though the runner, the pool and _pasts hold pointers to it meanwhile; and
\* a once-only job is launched at most once.
ScheduledOnce == \A j \in Jobs : /\ Cardinality(Places(j)) <= 1
                                 /\ kind[j] = "once" => hits[j] <= 1

\* Jobs leave the wheel, launched or thrown away, only in the second of their
\* time point or later: a slot that is not due is never erased, although the
\* clock is read before the lock is taken.
NothingLeavesEarly ==
    [][\A t \in Slots(twl) : \A j \in twl[t] :
          (t \in Slots(twl') => j \notin twl'[t]) => Sec(t) <= Sec(now)]_vars

\* A job that leaves the wheel is launched.
NothingDropped ==
    [][\A t \in Slots(twl) : \A j \in twl[t] :
          (t \in Slots(twl') => j \notin twl'[t]) => j \in toLaunch']_vars

\* How late a job may be launched: a job the runner puts back, not at all, as it
\* sleeps until the job is due.
Slack(j) == IF kind[j] = "every" /\ hits[j] > 0 THEN 0 ELSE LargerGap

\* Every job is launched in time, but for an _interval job with a period longer
\* than _larger_gap: a round that finds nothing to launch in between measures the
\* way to its slot from the slot emptied last, and not from now.
OnTime == ~killed => \A t \in Slots(twl) : \A j \in twl[t] :
              (kind[j] = "interval" => dur[j] <= LargerGap) => now <= t + Slack(j)

\* The time point job j waits for, in the wheel or on the way to its launch.
DueOf(j) == IF j \in toLaunch THEN itp
            ELSE LET ts == {t \in Slots(twl) : j \in twl[t]}
                 IN  IF ts = {} THEN NoTime ELSE Min(ts)

PhaseOf(j) == IF bpc[j] # "built" THEN "unset"
              ELSE IF DueOf(j) # NoTime THEN "armed"
              ELSE IF \/ kind[j] = "once" /\ hits[j] > 0
                      \/ j \in recurred
                      \/ InPool(j) THEN "fired"
              ELSE "gone"

Promise == INSTANCE Schedule WITH clock <- now,
                                  phase <- [j \in Jobs |-> PhaseOf(j)],
                                  due <- [j \in Jobs |-> DueOf(j)]

\* Wheel, runner and pool together keep the schedule of every job.
KeepsSchedule == Promise!Spec

-----------------------------------------------------------------------------
(* Liveness.                                                                *)

\* A job that was built is launched, unless the timer is stopped before.
BuiltIsLaunched == \A j \in Jobs : bpc[j] = "built" ~> hits[j] > 0 \/ killed
=============================================================================
