----------------------------- MODULE ThreadPool -----------------------------
(***************************************************************************)
(* thread_pool and its threaded_message_queue (ticker-pool.hh:317-497).    *)
(*                                                                         *)
(* Threads: the owner, who constructs the pool, may join() it while it is  *)
(* in use, and destroys it; the workers, one std::async thread each; and   *)
(* clients calling queue_task().  A running task may call queue_task() as  *)
(* well.  A critical section under a mutex is one action; a notification,  *)
(* sent after the unlock, is another.  _cv_started and _future_ended are   *)
(* conditional_wait_for_int objects (module ConditionalWait); the queue's  *)
(* _cv has its set of sleepers in idle.                                    *)
(***************************************************************************)
EXTENDS ConditionalWait, FiniteSets, SequencesExt

CONSTANTS
    Workers,  \* the threads start_thread(n) creates: n of them
    Clients,  \* threads that call queue_task()
    Tasks,    \* bound: names for the packaged_tasks that wait or run at one
              \* time; the name of one that is over is given to the next
    NoTask    \* the empty std::optional of a worker without a task

\* n > 0, or hardware_concurrency() of a machine that knows its processors.
ASSUME WorkersAssumption == IsFiniteSet(Workers) /\ Workers # {}
ASSUME ClientsAssumption == IsFiniteSet(Clients) /\ Workers \cap Clients = {}
ASSUME NoTaskAssumption == NoTask \notin Tasks

Owner == "owner"

VARIABLES
    opc,      \* where the owner is
    dying,    \* whether the owner is in ~thread_pool()
    wpc,      \* where each worker is
    held,     \* the task a worker has popped
    cpc,      \* where each client is
    data,     \* _tasks._data
    abort,    \* _tasks._abort
    idle,     \* workers blocked on _tasks._cv
    future,   \* the state the std::future of each name's last task observes
    active,   \* _active
    started,  \* _cv_started, its max_value_ is n
    ended     \* _future_ended, its max_value_ is 1

queueVars == <<data, abort, idle, future>>
vars == <<opc, dying, wpc, held, cpc, data, abort, idle, future, active,
          started, ended>>

OwnerPCs == {"launching", "awaitStarted", "open", "notifyAll", "awaitEnded",
             "joining", "freeing", "destroyed"}
WorkerPCs == {"none", "begin", "notifyStarted", "pop", "taken", "running",
              "nestedNotify", "ran", "ending", "notifyEnded", "exited"}
Futures == {"none", "pending", "value", "broken"}

\* Tasks that a worker has popped and not finished.
InHand(w) == wpc[w] \in {"taken", "running", "nestedNotify"}

\* The pool object exists until the owner has run its members' destructors.
Destroyed == opc = "destroyed"

Init == /\ opc = "launching"
        /\ dying = FALSE
        /\ wpc = [w \in Workers |-> "none"]
        /\ held = [w \in Workers |-> NoTask]
        /\ cpc = [c \in Clients |-> "idle"]
        /\ data = <<>>
        /\ abort = FALSE
        /\ idle = {}
        /\ future = [t \in Tasks |-> "none"]
        /\ active = 0
        /\ started = NewCW
        /\ ended = NewCW

-----------------------------------------------------------------------------
(* The owner: constructor.                                                  *)

\* One round of the loop in start_thread(): std::async starts a thread.
LaunchThread(w) ==
    /\ opc = "launching" /\ wpc[w] = "none"
    /\ wpc' = [wpc EXCEPT ![w] = "begin"]
    /\ UNCHANGED <<opc, dying, held, cpc, queueVars, active, started, ended>>

AllLaunched ==
    /\ opc = "launching" /\ \A w \in Workers : wpc[w] # "none"
    /\ opc' = "awaitStarted"
    /\ UNCHANGED <<dying, wpc, held, cpc, queueVars, active, started, ended>>

\* Mutant: _cv_started keeps its default max_value_ of 1.
AwaitFirstStarted ==
    /\ opc = "awaitStarted" /\ Owner \notin started.asleep
    /\ \/ Matched(started, 1) /\ opc' = "open" /\ UNCHANGED started
       \/ ~Matched(started, 1) /\ started' = Block(started, Owner) /\ UNCHANGED opc
    /\ UNCHANGED <<dying, wpc, held, cpc, queueVars, active, ended>>

\* _cv_started.wait(): the constructor returns, or the owner blocks.
AwaitStarted ==
    /\ opc = "awaitStarted" /\ Owner \notin started.asleep
    /\ \/ /\ Matched(started, Cardinality(Workers))
          /\ opc' = "open"
          /\ UNCHANGED started
       \/ /\ ~Matched(started, Cardinality(Workers))
          /\ started' = Block(started, Owner)
          /\ UNCHANGED opc
    /\ UNCHANGED <<dying, wpc, held, cpc, queueVars, active, ended>>

-----------------------------------------------------------------------------
(* The workers.                                                             *)

\* _cv_started.set(), its critical section and its notification.
SignalStarted(w) ==
    /\ wpc[w] = "begin"
    /\ started' = SetInt(started)
    /\ wpc' = [wpc EXCEPT ![w] = "notifyStarted"]
    /\ UNCHANGED <<opc, dying, held, cpc, queueVars, active, ended>>

NotifyStarted(w) ==
    /\ wpc[w] = "notifyStarted"
    /\ started' \in NotifyOne(started)
    /\ wpc' = [wpc EXCEPT ![w] = "pop"]
    /\ UNCHANGED <<opc, dying, held, cpc, queueVars, active, ended>>

\* The critical section of pop_front(): block, give up, or take the newest.
PopBlock(w) ==
    /\ wpc[w] = "pop" /\ w \notin idle
    /\ ~abort /\ data = <<>>
    /\ idle' = idle \cup {w}
    /\ UNCHANGED <<opc, dying, wpc, held, cpc, data, abort, future, active,
                   started, ended>>

PopAbort(w) ==
    /\ wpc[w] = "pop" /\ w \notin idle
    /\ abort
    /\ wpc' = [wpc EXCEPT ![w] = "ending"]
    /\ UNCHANGED <<opc, dying, held, cpc, queueVars, active, started, ended>>

\* Mutant: reads one end of the deque and pops the other.
PopTakeOtherEnd(w) ==
    /\ wpc[w] = "pop" /\ w \notin idle
    /\ ~abort /\ data # <<>>
    /\ held' = [held EXCEPT ![w] = Head(data)]
    /\ data' = Front(data)
    /\ wpc' = [wpc EXCEPT ![w] = "taken"]
    /\ UNCHANGED <<opc, dying, cpc, abort, idle, future, active, started, ended>>

\* Mutant: looks at the data before it looks at _abort.
PopTakeAnyway(w) ==
    /\ wpc[w] = "pop" /\ w \notin idle
    /\ data # <<>>
    /\ held' = [held EXCEPT ![w] = Last(data)]
    /\ data' = Front(data)
    /\ wpc' = [wpc EXCEPT ![w] = "taken"]
    /\ UNCHANGED <<opc, dying, cpc, abort, idle, future, active, started, ended>>

PopTake(w) ==
    /\ wpc[w] = "pop" /\ w \notin idle
    /\ ~abort /\ data # <<>>
    /\ held' = [held EXCEPT ![w] = Last(data)]
    /\ data' = Front(data)
    /\ wpc' = [wpc EXCEPT ![w] = "taken"]
    /\ UNCHANGED <<opc, dying, cpc, abort, idle, future, active, started, ended>>

\* A blocked worker may wake up with nothing to do.
WakeWorker(w) ==
    /\ w \in idle
    /\ idle' = idle \ {w}
    /\ UNCHANGED <<opc, dying, wpc, held, cpc, data, abort, future, active,
                   started, ended>>

\* ++_active, and the packaged_task is called.
BeginTask(w) ==
    /\ wpc[w] = "taken"
    /\ active' = active + 1
    /\ wpc' = [wpc EXCEPT ![w] = "running"]
    /\ UNCHANGED <<opc, dying, held, cpc, queueVars, started, ended>>

\* The packaged_task returns, having made its future ready.
FinishTask(w) ==
    /\ wpc[w] = "running"
    /\ future' = [future EXCEPT ![held[w]] = "value"]
    /\ held' = [held EXCEPT ![w] = NoTask]
    /\ wpc' = [wpc EXCEPT ![w] = "ran"]
    /\ UNCHANGED <<opc, dying, cpc, data, abort, idle, active, started, ended>>

\* Mutant: --_active only on the exception path.
EndTaskUncounted(w) ==
    /\ wpc[w] = "ran"
    /\ wpc' = [wpc EXCEPT ![w] = "pop"]
    /\ UNCHANGED <<opc, dying, held, cpc, queueVars, active, started, ended>>

\* --_active, and back to pop_front().
EndTask(w) ==
    /\ wpc[w] = "ran"
    /\ active' = active - 1
    /\ wpc' = [wpc EXCEPT ![w] = "pop"]
    /\ UNCHANGED <<opc, dying, held, cpc, queueVars, started, ended>>

\* The destructor of cws: _future_ended.set(), then its notification.
SignalEnded(w) ==
    /\ wpc[w] = "ending"
    /\ ended' = SetInt(ended)
    /\ wpc' = [wpc EXCEPT ![w] = "notifyEnded"]
    /\ UNCHANGED <<opc, dying, held, cpc, queueVars, active, started>>

NotifyEnded(w) ==
    /\ wpc[w] = "notifyEnded"
    /\ ended' \in NotifyOne(ended)
    /\ wpc' = [wpc EXCEPT ![w] = "exited"]
    /\ UNCHANGED <<opc, dying, held, cpc, queueVars, active, started>>

-----------------------------------------------------------------------------
(* queue_task(), by a client or by a running task.  The queue does not look *)
(* at _abort: a task queued after join() stays in _data.                    *)

EmplaceBack(t) ==
    /\ future[t] # "pending"
    /\ future' = [future EXCEPT ![t] = "pending"]
    /\ data' = Append(data, t)
    /\ UNCHANGED <<abort, idle>>

\* Mutant: the notification goes to nobody.
NotifyNobody == UNCHANGED idle

\* _cv.notify_one() of the queue.
NotifyWorker == IF idle = {} THEN UNCHANGED idle
                             ELSE \E w \in idle : idle' = idle \ {w}

\* Mutant: notify_one() only when the queue was empty.
SubmitNotifyIfEmpty(c, t) ==
    /\ cpc[c] = "idle" /\ ~dying
    /\ opc \notin {"launching", "awaitStarted"}
    /\ EmplaceBack(t)
    /\ cpc' = [cpc EXCEPT ![c] = IF data = <<>> THEN "notify" ELSE "idle"]
    /\ UNCHANGED <<opc, dying, wpc, held, active, started, ended>>

\* A client uses the pool between its construction and its destruction: that
\* is the contract of any C++ object.
Submit(c, t) ==
    /\ cpc[c] = "idle" /\ ~dying
    /\ opc \notin {"launching", "awaitStarted"}
    /\ EmplaceBack(t)
    /\ cpc' = [cpc EXCEPT ![c] = "notify"]
    /\ UNCHANGED <<opc, dying, wpc, held, active, started, ended>>

ClientNotify(c) ==
    /\ cpc[c] = "notify"
    /\ NotifyWorker
    /\ cpc' = [cpc EXCEPT ![c] = "idle"]
    /\ UNCHANGED <<opc, dying, wpc, held, data, abort, future, active, started,
                   ended>>

NestedSubmit(w, t) ==
    /\ wpc[w] = "running"
    /\ EmplaceBack(t)
    /\ wpc' = [wpc EXCEPT ![w] = "nestedNotify"]
    /\ UNCHANGED <<opc, dying, held, cpc, active, started, ended>>

NestedNotify(w) ==
    /\ wpc[w] = "nestedNotify"
    /\ NotifyWorker
    /\ wpc' = [wpc EXCEPT ![w] = "running"]
    /\ UNCHANGED <<opc, dying, held, cpc, data, abort, future, active, started,
                   ended>>

-----------------------------------------------------------------------------
(* The owner: join() and the destructor, both clear_threads().              *)

\* The packaged_tasks thrown away leave broken promises behind.
BreakQueued == [t \in Tasks |-> IF t \in Range(data) THEN "broken"
                                                     ELSE future[t]]

\* The critical section of _tasks.clear().  The destructor may run only when
\* no client is inside a call.
ClearTasks(destroy) ==
    /\ opc = "open"
    /\ destroy => \A c \in Clients : cpc[c] = "idle"
    /\ dying' = destroy
    /\ abort' = TRUE
    /\ future' = BreakQueued
    /\ data' = <<>>
    /\ opc' = "notifyAll"
    /\ UNCHANGED <<wpc, held, cpc, idle, active, started, ended>>

\* Mutant: notify_one() where the code has notify_all().
NotifyOneWorker ==
    /\ opc = "notifyAll"
    /\ NotifyWorker
    /\ opc' = "awaitEnded"
    /\ UNCHANGED <<dying, wpc, held, cpc, data, abort, future, active, started,
                   ended>>

NotifyAllWorkers ==
    /\ opc = "notifyAll"
    /\ idle' = {}
    /\ opc' = "awaitEnded"
    /\ UNCHANGED <<dying, wpc, held, cpc, data, abort, future, active, started,
                   ended>>

\* _future_ended.wait(): satisfied by the first worker that ends.
AwaitEnded ==
    /\ opc = "awaitEnded" /\ Owner \notin ended.asleep
    /\ \/ Matched(ended, 1) /\ opc' = "joining" /\ UNCHANGED ended
       \/ ~Matched(ended, 1) /\ ended' = Block(ended, Owner) /\ UNCHANGED opc
    /\ UNCHANGED <<dying, wpc, held, cpc, queueVars, active, started>>

\* Mutant: trusts _future_ended and does not join the threads.
SkipJoin ==
    /\ opc = "joining"
    /\ opc' = IF dying THEN "freeing" ELSE "open"
    /\ UNCHANGED <<dying, wpc, held, cpc, queueVars, active, started, ended>>

\* _threads.clear(): the destructor of a std::async future waits for its
\* thread to finish.
JoinThreads ==
    /\ opc = "joining"
    /\ \A w \in Workers : wpc[w] = "exited"
    /\ opc' = IF dying THEN "freeing" ELSE "open"
    /\ UNCHANGED <<dying, wpc, held, cpc, queueVars, active, started, ended>>

\* The members are destroyed; ~threaded_message_queue() clears once more.
FreeMembers ==
    /\ opc = "freeing"
    /\ future' = BreakQueued
    /\ data' = <<>>
    /\ idle' = {}
    /\ opc' = "destroyed"
    /\ UNCHANGED <<dying, wpc, held, cpc, abort, active, started, ended>>

\* The owner's waits may wake up spuriously.
WakeOwner ==
    /\ Owner \in started.asleep \cup ended.asleep
    /\ started' = Unblock(started, Owner)
    /\ ended' = Unblock(ended, Owner)
    /\ UNCHANGED <<opc, dying, wpc, held, cpc, queueVars, active>>

\* After the destructor there is nothing left to do.
Terminated == Destroyed /\ UNCHANGED vars

-----------------------------------------------------------------------------
WorkerStep(w) ==
    \/ SignalStarted(w) \/ NotifyStarted(w)
    \/ PopBlock(w) \/ PopAbort(w) \/ PopTake(w)
    \/ BeginTask(w) \/ FinishTask(w) \/ EndTask(w)
    \/ SignalEnded(w) \/ NotifyEnded(w)
    \/ NestedNotify(w) \/ \E t \in Tasks : NestedSubmit(w, t)

Construct == (\E w \in Workers : LaunchThread(w)) \/ AllLaunched \/ AwaitStarted
ClearThreads == NotifyAllWorkers \/ AwaitEnded \/ JoinThreads \/ FreeMembers

Next == \/ Construct
        \/ \E w \in Workers : WorkerStep(w) \/ WakeWorker(w)
        \/ \E c \in Clients : ClientNotify(c) \/ \E t \in Tasks : Submit(c, t)
        \/ \E destroy \in BOOLEAN : ClearTasks(destroy)
        \/ ClearThreads
        \/ WakeOwner
        \/ Terminated

Spec == Init /\ [][Next]_vars

\* Every thread that can run does, and a task ends unless it goes on queueing
\* others.  Nothing forces a client to queue, a spurious wakeup, or the owner
\* to join or destroy.
Fairness == /\ \A w \in Workers : WF_vars(WorkerStep(w))
            /\ \A c \in Clients : WF_vars(ClientNotify(c))
            /\ WF_vars(Construct)
            /\ WF_vars(ClearThreads)

FairSpec == Spec /\ Fairness

-----------------------------------------------------------------------------
(* Safety.                                                                  *)

\* Every variable has its type; a worker asleep is inside pop_front().
TypeOK == /\ opc \in OwnerPCs
          /\ dying \in BOOLEAN
          /\ wpc \in [Workers -> WorkerPCs]
          /\ held \in [Workers -> Tasks \cup {NoTask}]
          /\ cpc \in [Clients -> {"idle", "notify"}]
          /\ data \in Seq(Tasks)
          /\ abort \in BOOLEAN
          /\ idle \in SUBSET Workers
          /\ future \in [Tasks -> Futures]
          /\ active \in Int
          /\ started \in CWType({Owner})
          /\ ended \in CWType({Owner})
          /\ \A w \in idle : wpc[w] = "pop"

\* Threads on their way to the queue: awake in pop_front(), or with the
\* notification of a task they queued still to send.
Coming == {w \in Workers : \/ wpc[w] = "pop" /\ w \notin idle
                           \/ wpc[w] = "nestedNotify"}
          \cup {c \in Clients : cpc[c] = "notify"}

\* No queued task is forgotten: while a worker sleeps in an open pool, every
\* queued task has a thread on its way to the queue for it.  (The push is
\* under the lock and the notify_one() is not, so a worker can take the task
\* of somebody else's notification, or find nothing when it wakes.)
NoLostWakeup == ~abort /\ idle # {} => Len(data) <= Cardinality(Coming)

\* No task is lost or run twice: a task has a pending future exactly while it
\* is in the queue once or in the hands of one worker.
TaskConservation ==
    /\ \A t \in Tasks : future[t] = "pending" <=>
          t \in Range(data) \/ \E w \in Workers : InHand(w) /\ held[w] = t
    /\ \A i, j \in 1..Len(data) : data[i] = data[j] => i = j
    /\ \A w \in Workers : InHand(w) =>
          /\ held[w] \in Tasks \ Range(data)
          /\ \A v \in Workers \ {w} : InHand(v) => held[v] # held[w]

\* When the constructor returns every thread has announced itself.
ReadyWhenOpen == opc \notin {"launching", "awaitStarted"}
                    => \A w \in Workers : wpc[w] \notin {"none", "begin"}

\* ~thread_pool() leaves no thread that could touch a member: not the queue,
\* not _active, and not _future_ended, which each worker's cw_setter notifies
\* on the way out (the owner's wait for it is over with the first worker).
NoThreadOutlivesPool == opc \in {"freeing", "destroyed"} =>
    /\ \A w \in Workers : wpc[w] = "exited"
    /\ \A c \in Clients : cpc[c] = "idle"

\* _active counts the workers between ++_active and --_active, through
\* nested submissions, so it is 0 whenever nothing runs.
ActiveIsExact == active = Cardinality({w \in Workers :
                              wpc[w] \in {"running", "nestedNotify", "ran"}})

\* Where the pool has task t, in the terms of TaskPool.
StatusOf(t) == IF future[t] = "none" THEN "fresh"
               ELSE IF future[t] = "value" THEN "done"
               ELSE IF future[t] = "broken" THEN "dropped"
               ELSE IF t \in Range(data) THEN "queued" ELSE "running"

Promise == INSTANCE TaskPool WITH Drains <- FALSE, closed <- abort,
                                  status <- [t \in Tasks |-> StatusOf(t)]

\* The pool implements a task pool that drops what is queued when it closes:
\* at most one start per task, none after the close, broken promises only then.
KeepsPromise == Promise!Spec

-----------------------------------------------------------------------------
(* Liveness.                                                                *)

\* A queued task is run, unless the owner closes the pool first or tasks go on
\* being queued for ever: pop_front() takes the newest, so on a pool that never
\* comes to rest an old task may wait behind newer ones without end.
QueuedTaskRuns == \A t \in Tasks :
    \/ future[t] = "pending" ~> future[t] = "value" \/ abort
    \/ []<><<\E u \in Tasks : EmplaceBack(u)>>_vars

\* join() and the destructor return, although they wake the sleeping workers
\* once only and wait for _future_ended before they join the threads.
JoinReturns == opc = "notifyAll" ~> opc \in {"open", "destroyed"}
=============================================================================
