# TLA+ specifications of ticker-cxx

ticker-cxx is a header-only C++17 library of timers (`in`, `at`), tickers
(`every`, `interval`) and alarms (`every_month`, ...), on a thread pool of its
own, with an observer and a signal template beside them. Almost everything that
can go wrong in it is between threads: the user builds jobs, a runner thread
looks for the jobs that are due, the workers of a pool run them, and a destructor
takes all of it apart. These modules model that code, and the sequential code
around it whose cases are many (calendar days, parsing, printing, chains of
calls). TLC checks them on small instances, and TLAPS proves the main results
about the concurrent parts, the alarms and the chains of calls for every size.

Sources are under `src/include/ticker_cxx/`; `pool.hh`, `core.hh`, `common.hh`
and `chrono.hh` stand for `ticker-pool.hh`, `ticker-core.hh`, `ticker-common.hh`
and `ticker-chrono.hh`. `PROJECT.json` maps every definition to the lines it
translates.

## Inventory

| component | state | operations | hard behaviour | what makes it correct |
|---|---|---|---|---|
| `conditional_wait` and its bool, int and `timer_killer` forms (pool.hh:55-310) | `_var`, the waiters on `_cv` | `wait`, `wait_for`, `wait_until`, `set`, `set_for_all`, `kill` | the notification follows the unlock; timeouts; spurious wakeups | no wakeup is lost, waits return |
| `threaded_message_queue`, `thread_pool` (pool.hh:317-497) | `_data`, `_abort`, `_active`, `_threads`, `_cv_started`, `_future_ended` | `queue_task`, `pop_front`, `join`, constructor, destructor | several workers and clients on one queue; tasks that queue tasks; close against pop | tasks run once, none after the close; `join()` returns and leaves no thread |
| `thread_pool_lite` (pool.hh:499-574) | `tasks`, `stop`, `workers` | `enqueue`, destructor | the same, with a queue that is drained | everything taken in is run |
| `timer_t`, `ticker_t`: the wheel and the runner (core.hh:144-373, 420-438) | `_twl`, `_pasts`, the runner's `d`, `jobs`, `recurred_jobs` | `build`, `add_task`, `find_next`, a round of `runner_loop`, `post_job` | iterators used after an unlock; the clock read before the lock; jobs put back by two threads | each job is where it should be, once, and leaves in its time |
| building jobs (core.hh:104-195, 396-497) | `_tp`, `_f`, `_dur`, `_interval`, `_pattern` | `in`, `after`, `at`, `every`, `interval`, `every_month`, ..., `on`, `build`, the copies | members left over by an earlier chain; `build()` moves `_f` away and checks nothing | the job built is the one the object was last told, with no function of an earlier job |
| `timer_t`: life (core.hh:117-142, 198-215) | `_t`, `_tk`, `_started`, `_ended`, the order of the members | `start`, `stop` by `clear`, `join` and the destructor, copies | kill against sleep; members destroyed under other threads | `stop()` returns, nothing dead is touched |
| jobs (ticker-timer-job.hh, ticker-jobs.hh) | `_recur`, `_interval`, `_hit` | `launch_to`, `next_time_point` | a job outlives its launch or not | part of the wheel |
| `alarm_t`, `periodical_job`, anchors | anchor, ordinal, offset, `last_pt` | `next_time_point` | month lengths, year ends, negative offsets, a put-back after midnight | the next occurrence is the right day, once a period |
| `observable`, `registerer` (common.hh:1000-1125) | `_observers`, `_m` | `add_observer`, `remove_observer`, `emit`, `registerer`'s constructor and destructor | copy-and-swap with the copy outside the lock; removal against delivery; observers that die or throw | no registration is lost; after a removal nobody is called |
| `observable_bindable`, `signal`, binders and packs (common.hh:260-748, 1127-1266) | `_callbacks` | `add_callback`, `connect`, `emit`, `bind_tie`, `easy_bind`, `partial`, `curry` | subjects moved into the first slot; arguments spread over calls | every slot gets its values and the subjects |
| chrono helpers (chrono.hh) | `iom::_flags` | `set_flags`, savers, printing of time points and durations, `parse_datetime` | shared flag bits; paddings; a format that reads a prefix | what is printed says what was meant |
| singletons, `lock_guard`, `defer`, visitor; traits; logging, debugging, macros | none a property is about | | | see "Not modelled" |

The pieces interact as follows. A timer owns a `thread_pool` and a runner
thread. A chain of calls leaves what is wanted in the timer's members, and
`build()` puts a job in the wheel under `_l_twl`. The runner waits on `_tk`, a
`conditional_wait`, with a timeout; after the timeout it calls `find_next()`,
swaps the jobs of one slot out of the wheel, and queues them in the pool with
`launch_to()`. It puts a recurring job back itself; for an `_interval` job a pool
worker does, in `post_job`. An alarm is such a job whose `next_time_point()`
consults the calendar. `stop()` detaches the runner, kills `_tk`, and waits for
`_ended`, which the runner sets last. Observables, signals and the chrono helpers
stand beside the timer; `at(string)` parses with the helpers.

## Modules

| module | models | implements |
|---|---|---|
| `ConditionalWait` | one `conditional_wait` as a record: the value and the sleepers; one operator per critical section or notification | |
| `CondWaitClients` | waiters and setters on such an object | |
| `TaskPool` | abstract: what a pool promises about each task | |
| `ThreadPool` | `threaded_message_queue` and `thread_pool`, with `ConditionalWait` records for `_cv_started` and `_future_ended` | `TaskPool`, dropping |
| `ThreadPoolLite` | `thread_pool_lite` | `TaskPool`, draining |
| `Schedule` | abstract: what a timer promises about each job | |
| `Timer` | the wheel, the runner, the jobs in the pool, the clock | `Schedule` |
| `TimerLifecycle` | start, stop and destruction, with `ConditionalWait` records for `_tk`, `_started`, `_ended` | |
| `Builder` | the chains of calls on a timer, a ticker or an alarm and on copies of it, with `Dates` for `at(string)` | |
| `Calendar` | `std::tm` arithmetic in closed form, for every year from the first on: months, leap years, the last days of a month or a year | |
| `Alarm` | `periodical_job::next_time_point()` for every anchor, and one alarm that is built, rings and is put back | |
| `Registry` | abstract: what an observable promises about registrations and events | |
| `Observable` | `observable` in its forms (plain, locking, copying and swapping) and `registerer` | `Registry` |
| `Callables` | parameter packs, tuples and binders, as sequences; recursive templates as recursive functions | |
| `Signals` | `signal` and `observable_bindable`: connecting and emitting, on `Callables`; the subsequences the templates are compared with | |
| `Dates` | texts of dates and times read by `try_parse_by` and `parse_datetime`, on `Calendar` | |
| `Formats` | durations and time points as text | |
| `Iom` | the flags, the savers and the printing under them, on `Formats`, and the texts read back, on `Dates` | |
| `MC*` | values for the constants; in `MCAlarm` also the table of dates the tests give | |
| `CondWaitProofs`, `ThreadPoolProofs`, `ThreadPoolLiteProofs`, `TimerProofs`, `TimerLifecycleProofs`, `BuilderProofs`, `ObserverProofs`, `ChronoProofs` | theorems; `ObserverProofs` is about `Observable`, and `Signals` with `Callables`; `ChronoProofs` about `Alarm`, `Iom` and what they are built on | |

Conventions. Each thread has a program counter (`opc` owner, `wpc` workers,
`rpc` runner, ...). One critical section is one action; a notification after the
unlock is another; a reading of the clock outside the lock is another. A
condition variable is the set of threads asleep on it: a notified, timed out or
spuriously woken thread leaves the set and evaluates its predicate anew.
Definitions preceded by `Mutant:` are plausible bugs; nothing refers to them, and
`PROJECT.json` names for every property the one that breaks it.

Abstractions. A task is a model value and its future four states. Time is in
ticks, `TicksPerSecond` of them in a second, because `find_next()` compares
seconds while the wheel is kept in nanoseconds. The wheel and `_pasts` are
functions from time points to sets of jobs. `Timer` has the pool as a counter of
queued launches per job: what the pool does with them is `ThreadPool`'s business,
and `KeepsPromise` there is what `RunJob` relies on. `TimerLifecycle` reduces a
round of the runner to the members it touches, `Alarm` the wheel to the slot of
one alarm, and `Builder` a pattern of an alarm to a model value whose next time
point is a constant function.

`hours::max()`, the timeout of the parameterless `wait_for()`, is scaled in
`CondWait`: 16 bits and 3600 ticks per hour instead of 64 bits and 3.6e12. In
both the product of the largest hour count and the ticks of an hour wraps to
minus one hour's ticks, so that call may time out at once (pool.hh:99), although
the library's README.md:57 waits with it. The overflow is undefined, so no
property speaks of its result.

`Calendar` counts ticks from January 1st of its first year, in a zone without
daylight saving time, with two or three ticks in a day: a time of day is needed
only to tell one that has passed from one to come. `tm_year` and `tm_mon` are one
number, which is what the code's loops over `tm_mon > 11` and `mktime()` make of
them. A default `time_point`, with which the negative weeks begin, is `Epoch`,
some time in the past.

`Observable` has a vector of `weak_ptr` as a count of entries per observer: their
order is never observed by more than the order of calls within one event, which
the model leaves open. An observer dies when nobody owns it and no thread is
calling it, as `lock()` keeps it alive for the call. In `Callables` a pack, a
tuple and an argument list are sequences; what is computed at compile time and
what in a call are not told apart. In `Dates` a text is a sequence of parts (a
date with dashes, one with slashes, a time of day), and in `Formats` it is the
numbers in it with the digits they take; the units are scaled down (`Width`
digits where the code has three, three seconds to a minute) but keep their order
and the places where one is padded and another is not.

## Runs

Passing:

* `CondWait`: two waiters, two setters, two sets each, on three objects: a
  counter that must reach 3, a bool with `set()`, a bool with `set_for_all()`
  (the `kill()` of `timer_killer`), with `wait`, `wait_for`, `wait_until` and the
  two forms without an argument. `set()` wakes one thread, so where it is used
  one thread waits at a time, as everywhere in the library. Two setters are
  enough for a set and a notification of another to fall between any two steps
  of a waiter.
* `ThreadPool`: two workers, two clients, three tasks waiting or running at one
  time, `join()` any number of times and then the destructor. A task that is over
  may be queued again, by a client or from within a task, so there is no end to
  the tasks that pass through the pool. Three tasks on two workers make a task wait
  while both are busy, and leave one for a notification that was spent on the
  wrong worker. `NoLostWakeup` counts notifications on the way against queued
  tasks, because no single notification belongs to a single task.
  `QueuedTaskRuns` allows for the newest task being taken first (see "Known
  deviations").
* `ThreadPoolLite`: three workers, two clients, three tasks at one time, queued
  again and again like those of `ThreadPool`. The oldest task is taken first, so
  `AcceptedTaskRuns` needs no such allowance.
* `TimerSole`: one job of any kind, a horizon of 24 ticks, two ticks a second.
  With one job alone the timer keeps its word: the job is launched, and in time.
  `OnTime` says how late it may be (`Slack`): a job that was just built, up to
  `_larger_gap`, as nothing wakes the runner; one the runner puts back, not a tick,
  as the runner sleeps until it is due; one a worker puts back, up to
  `_larger_gap`, if its period is not longer than that. The durations are less than,
  half of and more than that gap of 6 ticks; the longest fits into the horizon
  twice, so a job is put back and late again. Threads are faster than the clock here
  (`Prompt`): no lateness bound holds for threads that may stall.
* `TimerTwo`: two jobs of any kinds, threads of any speed, symmetric in the
  jobs. `KeepsSchedule` is the refinement of `Schedule`, which allows what the
  code does (jobs may fire early in their second, and due jobs may be dropped)
  and nothing else: no second launch for one time point, no job put back that
  has not fired, no job lost before it is due. The horizon is short; two jobs
  in one slot, in two slots of one round, and put back while the other is
  launched all happen within it, and the proofs are for any horizon.
* `Lifecycle`: a timer or a copy of one, two pool workers, two calls of
  `clear()` or `join()`, then the destructor. A second `stop()`, or the
  destructor of a copy, throws out of the thread and ends the process, and the
  model ends there as the code does; `FirstStopIsSafe` says that this is all.
* `Builder`: two objects of a class and two functions, symmetric; five calls
  that say when or build, on either object, with any calls of `on()` between
  them, an object copied in the middle of a chain or not, the clock moving between
  the calls. No order is imposed: a chain may build without saying when, without
  `on()`, or twice. `AsOrdered` compares each job built with a record of what
  its object was last told: the time of the last call that said one, and the
  function of the last `on()`, which a timer or an alarm uses up in a job and a
  ticker keeps. Five calls are enough for a chain begun, left, overwritten by
  another, built, and built again on the object or its copy.
* `Alarm`: fifteen alarms by month, several months, year, third of a month, week
  of a month and week of a year, built on seven afternoons between December 2022
  and January 2024, for as long as until April 2024: several periods each, two
  Februaries, one of them with a 29th. The runner
  launches an alarm and puts it back up to a tick late each, so the clock it is
  put back by may be in the next day or month. `OncePerPeriod` depends on that: an
  alarm for every second month that rings on the 28th of February and is put back
  on March 1st would ring in March, so this one is for the 27th. `AgreesWithTests`
  is the table of 23 cases of tests/periodical_job.cc.
* `Observable`: two threads, two observers, three calls each, each observer
  registered twice at most, in three forms: no mutex and one thread; a mutex and
  all threads; a mutex with copy-and-swap, where one thread changes the observers
  and both emit. Observers die between any two steps and throw. `KeepsPromise`
  is the refinement of `Registry`. `QuietAfterRemove`
  is about steps: when `remove_observer()` returns no thread is in the observer, and
  none comes to it before an `add_observer()` of it returns. Two entries of one
  observer tell a removal of all entries from that of one.
* `Signals`: a signal of two subjects and a bindable, three slots with up to
  three values of their own, taking subjects by value or by reference, in every
  order. `SlotsGetTheEvent` says what each slot is called with: the event, or, for a
  signal's slots after one that takes by value, subjects that are moved from.
  `BindersAgree` compares the recursive pack templates and binders with
  subsequences, over the packs the slots produce.
* `Iom`: 18 time points whose milliseconds, microseconds and nanoseconds are
  none, short or full, printed under every combination of flags with a saver
  open or not; durations around each of them with every kind of larger unit; texts
  of dates at the ends of a month and a year.

Violation:

* `TimerDrops`: of two jobs due in one round only those in the last slot are
  launched; the slots before it are erased (core.hh:249), although the library's
  README.md:7 says of it that "it schedules to trigger your customized tasks".

No run turns deadlock checking off: each module has an explicit final state, or
always a step.

## Known deviations

Places where the code does something other than a reader would expect, met while
modelling. The models follow the code; the properties are stated so that they
say what does hold.

* A recurring job put back overwrites the runner's sleep with its own distance
  (core.hh:305), and `add_task()` does not wake the runner (core.hh:339): beside
  a job with a long period another is launched as late as that period.
  `OnTime` is therefore about a timer with one job: with `Jobs = {j1, j2}` in
  `TimerSole.cfg` TLC finds it violated.
* The runner sleeps for the distance of the next slot from the one it emptied
  last, which stays in the wheel, and not from now (core.hh:253). An `_interval`
  job with a period longer than `_larger_gap` is met by a round that finds only
  that old slot, `_larger_gap` after the launch, and then sleeps for as long as
  from that slot to the next: the job is late by `_larger_gap` more than the time
  before, and by more at every launch. `OnTime` leaves those jobs out, and only
  those.
* `pop_front()` takes the newest task (pool.hh:353; the comment at 391 says so): on a
  pool that never comes to rest an old task may wait for ever, behind a task that
  queues itself again for instance. `QueuedTaskRuns` therefore says that a queued task
  is run, or the pool is closed, or tasks are queued infinitely often.
* `build()` checks nothing (core.hh:190, 429, 481). A chain without `in()`, `every()`
  or `loop_for()` gets the time or the pattern of the one before, or the epoch. A
  timer or an alarm built again without `on()` gets a job with an empty function,
  which throws when it is launched. `_dur` has no initializer (core.hh:455): zero in
  what `get()` makes, anything in an object of a derived class, for which
  `InitTicker` takes any. `AsOrdered` says what such chains get.
* `stop()` detaches `_t` unconditionally (core.hh:200): `clear()` and then the
  destructor, or the destructor of a copy, which has no thread, throws. The
  detached runner's notification of `_ended` may come after its destruction
  (core.hh:311), so `MembersOutliveUsers` leaves that member out.
* An alarm for the 29th, 30th or 31st that meets a month without that day is put
  into the month after it (ticker-periodical-job.hh:55): `std::mktime()` counts on.
* In a month or year that begins on the very weekday an alarm is for, week 1 is
  passed over for week 2, because of the `<` at ticker-periodical-job.hh:154 and 202:
  `WeekInMonth` for the first Monday rings on the 8th of May 2023 and not on the 1st. The
  run meets it; `NamedWeek` says what the comments there mean by a week, and
  `SkipsTheFirst` names this case.
* An offset of 0 in the first or the middle third of the month is the 11th or the 21st to
  the code, the day after that third, although ticker-anchors.hh:34-36 give the offsets as
  0..9; tests/periodical_job.cc counts from 1. `Named` gives such an alarm no day, and
  `KeepToCalendar` leaves it out.
* An alarm on a weekday of a week of the month or year is put back for the same
  day while the month or year lasts (ticker-periodical-job.hh:188) and rings in
  each round until then: `RingsOnItsDay` holds of it, `OncePerPeriod` is not said
  of it. The anchors `DayInYear` and `Week` (:242) ring on days of no document, and
  negative offsets by month move to the day number of the last ring (:69, and
  :112 for the last third; tests/periodical_job.cc:57 expects the former). These
  are translated but not among the alarms of the run.
* Two threads that both copy and swap lose a registration (common.hh:1014). With
  `Forms <- SwapForms` in `Observable.cfg`, `KeepsPromise` fails.
* An observer that calls `add_observer()` or `remove_observer()` of the locking
  form from within a delivery locks the mutex twice (common.hh:1089).
* A date with slashes followed by a time loses the time: the shorter format comes
  first and what it leaves is no error (chrono.hh:804). `DatesParse` says so.
* `format_duration()` gives nanoseconds after milliseconds without microseconds
  the wrong unit, and does not pad microseconds after milliseconds unless a minute
  was printed (chrono.hh:462); `Misprinted` in `Iom` names exactly those, and
  `EveryDurationSaid` proves that it does.
* `set_flags()` with a precision clears the bits of the zone (chrono.hh:291), so
  one who asks for nanoseconds is shown local time.
* `format_time_point_to_local()` of a time point alone (chrono.hh:615) prints in the zone
  set, not in the local one, and is not modelled; the form with a stream is `PrintToLocal`.
* `at()` with a time and no date reads it into an uninitialised `std::tm`
  (core.hh:165); the run gives it dated texts.

## Fairness

Weak fairness of each thread's own steps, which is what a fair scheduler of
runnable threads gives, and of the clock in `Timer`. A task and a job are assumed
to end, and a call of an observer to return or to throw. Nothing forces a client
to queue, an owner to stop, a spurious wakeup, a user of an observable to call
it or, in `CondWaitClients` and `TimerLifecycle`, a timeout. Strong fairness is
assumed once, of the end of a task in `ThreadPoolLite`: a task that queues others is
not ready to end while it notifies, and weak fairness would let it queue for ever;
its destructor returns only if tasks end. In `ThreadPool` they need not, and weak
fairness is enough. For mutexes none is needed: they are held within one action
only, but for the one of `Observable`, and there `MaxCalls` bounds the calls of each
thread, so that it is free in the
end for whoever waits. `CallsReturn` depends on that bound: a mutex does not promise
a turn to one thread while another takes it again and again. `Alarm`, `Builder`,
`Signals` and `Iom` are models of sequential code and state no liveness.

## Proofs

Each proof is for all values of the constants under the named assumptions of the
module; none of them bounds a number of threads, tasks, jobs, observers, objects or
years. Where a property needs more than the module assumes, the theorem has it as
a named hypothesis. That of the theorems about `Iom`, `RealUnits`, fixes constants:
the units are those of the code, a thousand, sixty, twenty-four and 365, where the
run has fewer.

Every safety property and every refinement that a run checks is a theorem here,
but the two named at the end.

* `CondWaitProofs`: `TypeCorrect`; `NoWakeupLost` (`NoStrandedWaiter`). The
  invariant is inductive together with `OneCallerOrBroadcast`, that at most one
  thread is inside a call where `set()` is used: without it `notify_one()` may
  leave a second sleeper behind. That is the lemma `Discipline`.
* `ThreadPoolProofs`: `TypeCorrect`; `TasksConserved` (`TaskConservation`);
  `NoWakeupLost` (`NoLostWakeup`), by counting: every step that adds a task adds
  a thread to `Coming`, and one that takes a thread out of `Coming` takes a task or
  finds none; `NothingTouchesDestroyedPool` (`NoThreadOutlivesPool`) from
  `ClosedProperly`, which follows the workers through the owner's steps;
  `OpensReady` (`ReadyWhenOpen`) and `ActiveCounts` (`ActiveIsExact`), each from
  the equality of a counter with the number of workers at certain places; and
  `Implements` (`KeepsPromise`), that every step is a step of `TaskPool` or
  stutters, from `TaskConservation` and the fact that nothing leaves the queue
  for a worker once `abort` is set.
* `ThreadPoolLiteProofs`: `TypeCorrect`; `TasksConserved`, the same conservation
  for the other pool; `NothingLeftUndone` (`Drained`), from conservation and
  `ReturnInv`: a worker returns on a stopped pool with an empty queue, and a
  stopped pool takes nothing in, so the queue is empty for good and no worker has
  a task; `Implements` (`KeepsPromise`), with `Drains` TRUE.
* `TimerProofs`: the inductive invariant `IInv` has three parts. `TypeOK` alone is
  not inductive: that the jobs left to launch are among those taken out of the
  slot, and that no time point passes the bounds, need the others. `RunnerInv`
  relates the iterators `find_next()` returned to the clock it had read: their
  second is at most that of `timeNow`, and slots up to there are removed by the
  runner alone, so they are still there when it locks again. `JobInv` says of
  each job where it is: in one slot, in the runner's hands, waiting to be put back by
  one of the two threads that do so, or done. From it follow `TypeCorrect`,
  `IteratorsStayValid` (`IteratorsValid`), `OneLaunchEach` (`ScheduledOnce`),
  `LeavesWhenDue` (`NothingLeavesEarly`, an action property) and `Implements`
  (`KeepsSchedule`): each step of the runner, the pool or the user is a step of
  `Schedule` or a stutter. Durations are assumed to be finitely many, as integers
  of the machine are; `find_next()`'s first and last slot exist by well-founded
  induction on the naturals (`LeastOf`, `GreatestBelow`).

  `LaunchedInTime` (`OnTime`) is under `Dependable`: the timer has one job, its
  threads are prompt, and no job is built for the past, for which no bound can
  hold. `OnTime` says nothing of the runner, so its invariant `TimeInv` relates
  the time the runner will look next (`NextLook`) to the slot the job is in, by
  what the job is: before its first launch the runner never sleeps longer than
  `_larger_gap`, as no emptied slot is in the wheel to measure from
  (`FirstLaunch`); a job the runner puts back is met at its slot (`EveryLaunch`);
  one a worker puts back is in the wheel while the runner sleeps for
  `_larger_gap`, and due when it wakes up (`IntervalLaunch`).
  `RoundIsPrompt` says that no time passes within a round.
* `TimerLifecycleProofs`: `TypeCorrect`; `StopsInOrder`, the invariant `StopInv`:
  `_ended` is set exactly when the runner is past its last use of anything else,
  an owner that has detached `_t` gets out of `stop()` only then, and the members
  before `_pool` are destroyed only once its workers are joined; from it
  `NothingDeadIsTouched` (`MembersOutliveUsers`) and `ClearedIsQuiet`
  (`StoppedMeansQuiet`); and `FirstStop` (`FirstStopIsSafe`).
* `ObserverProofs`. For `Observable`: `TypeCorrect`; and, under the assumption
  `OneSwapper` that the code needs and does not check, `CopiesAreFresh`,
  `RemovedIsQuiet` (`QuietAfterRemove`) and `Implements` (`KeepsPromise`). A removal
  waits for the delivery under way, as both have the mutex (`NoDelivery`), and with
  one swapping thread no stale copy brings back what was removed; with several
  one does, and the observer may be called after its removal. `QuietStays` is that
  no other step calls an observer without entries, or one that is no more.

  For `Signals`: `EventReachesSlots` (`SlotsGetTheEvent`). `SignalsInv` says what
  the callbacks are bound to, what each slot called so far has heard, and what the
  slots that take by value have left of the subjects for the next; that is what
  makes it inductive. `PacksArrive` (`BindersAgree`) is about packs of any length and any
  spreading of one over calls. The templates are recursive functions on an interval.
  Of each, a closed form is exhibited and shown to satisfy the same equations; two
  functions that do so agree, because there would be a least place where they do
  not (`SameUpwards`, `SameDownwards`). `CurryArrives` does the same for a curry,
  whose recursion goes over calls: after each it holds the arguments so far, and it
  invokes the function at the last.
* `ChronoProofs`. First the calendar, on which no bound is put: the closed form of
  `FirstDay` adds up the lengths of the months (`FirstDays`), so months follow one
  another without gaps (`MonthsInOrder`) and every day is in exactly one
  (`MonthOfDay`), which `MonthOf` therefore finds. The result is `TimesAndDates`:
  `LocalTime` and `MkTime` are inverse to each other, and weekdays go round. Then
  `next_time_point()`: what the code does to a `std::tm` gives a day the anchor names
  (`NextOfMonthly`, and `NextOfWeekly` with the remainders of seven in
  `WeeksFrom`). Last the alarm in the wheel. `RingsOnItsDay` is not
  inductive, as an alarm is put back from a clock that has gone on: the invariant
  `AlarmInv` adds that `last_pt` is the slot, that the slot is not to come while the
  alarm rings, and by how much the clock may be past it. From it follow
  `TypeCorrect`, `EveryAlarmOnItsDay` (`RingsOnItsDay`), `NoDayPassedOver`
  (`FirstOfItsDays`) and `EveryPeriodOnce` (`OncePerPeriod`).

  The hypothesis `KeepToCalendar` excludes what the code does not keep to (see
  "Known deviations"): a monthly alarm is for one of the 28 days each month has,
  a third has no day 0, a last third is counted from its beginning, and a week is one
  that a month or year has. With an alarm for the 31st in `Alarm.cfg` TLC finds
  `RingsOnItsDay` violated. `InTime` is the
  lateness that `OncePerPeriod` tolerates: an alarm that rings every few months must
  be put back in the month it rang in, one that rings monthly before its day in the
  next. The alarms of the run satisfy both. `TypeCorrect` leaves out the anchors
  `DayInYear` and `Week` (`DayAnchors`), whose time points may be before the first
  year.

  The second half is about `Iom`, in the units of the code (`RealUnits`) and any
  calendar, printing any time points. `PrintsAsWished` is not inductive: `IomInv` adds that the flags agree with
  what was wished for, in this scope and, one by one, in those the savers will
  lead back to. With it and `PointsExact`, which is that the groups of three digits
  printed one after another are the fraction of the second, follows
  `PrintedAsWished`. For durations, `BreakDowns` exhibits what each unit leaves to
  the next, and with it that the counts add up to the duration; `GroupsSay` takes
  the eight cases of a zero or not in milliseconds, microseconds and nanoseconds
  and says of each what a reader makes of the groups and the unit. The result is
  `EveryDurationSaid`, an equivalence: the durations of `Misprinted` are exactly those
  whose text says another. `DurationsSaid` (`DurationsReadBack`) is its case for the
  durations of the run's form. For dates, `TextRead` finds the first of the six formats
  that reads a text, and `MadeOfDay` that its fields make the day it says;
  `EveryDateRead` is the result for every day, time of the day and time of reading,
  leap years and the ends of years among them, and `DatesRead` (`DatesParse`) its
  case for the days of the run. Both rest on `TimesAndDates`, as `Iom` counts its days
  with the same `Calendar`.
* `BuilderProofs`: `EveryJobAsOrdered` (`AsOrdered`). A chain leaves what it was
  asked for in members whose meaning depends on the class and on the calls before;
  the invariant `IInv` says for each class which members tell what
  the chain has ordered so far (`TimerKnows`, `TickerKnows`, `AlarmKnows`), and
  what is left of earlier ones. The theorem makes no difference between complete and
  incomplete chains. For
  `at(string)` it takes that the first format that reads a text reads its date
  (`OwnFormat`, `NothingLeftOver`), under the hypothesis `Dated`: a text given to
  `at()` says a date and a time, because a field that it does not say is not
  initialised (core.hh:165). With a text that says only a
  time in `Builder.cfg` TLC finds `AsOrdered` violated.

The assumptions are that there is a worker (a pool on a machine whose
`hardware_concurrency()` is 0 never gets past its destructor), that the workers
are finitely many and not clients, that the model values for "none" are not
members of their sets, and those named above.

Model-checked only:

* the liveness properties (`WaitsReturn`, `QueuedTaskRuns`, `JoinReturns`,
  `AcceptedTaskRuns`, `DestructorReturns`, `BuiltIsLaunched`, `StopReturns`,
  `CallsReturn`): fairness, `ENABLED` and leads-to are out of the prover's reach;
* `AgreesWithTests`: a table of concrete dates, which TLC computes;
* `NothingDropped`, which is false.

## Not modelled

The private and unused `run_task()` and the protected `remove_task()`, which has
no caller; `singleton`, a function-local static, which the language guards;
`lock_guard`, `defer` and the visitor, which nothing in the library instantiates
but `defer` in `get()`; type traits; logging, debugging, test support and
preprocessor definitions, which have no state a property is about;
`format_duration_simple()`, which is not instantiated anywhere, and
`parse_duration()`, a stub that returns true. Of modelled components: daylight
saving time; several threads that build jobs on one timer at once (its members
are not guarded); observers and slots that call back; a timer destroyed by its own
job, which cannot return; alarms in GMT, which are those of a zone of its own;
jobs shared by a timer and its copy while both run. `thread_pool`'s machine
without processors is excluded by `WorkersAssumption`.

## What remains

1. A composition of `TimerLifecycle` and `ThreadPool`, for jobs that clear other
   timers.
2. Alarms as a kind of job in `Timer`: the wheel would then see time points in
   the past.
