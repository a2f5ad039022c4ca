--------------------------- MODULE ThreadPoolLite ---------------------------
(***************************************************************************)
(* thread_pool_lite (ticker-pool.hh:499-574), the second pool of the       *)
(* library: a FIFO queue that its destructor lets the workers empty, and   *)
(* that refuses tasks from then on.                                        *)
(*                                                                         *)
(* Threads as in ThreadPool: the owner, the workers, clients that call     *)
(* enqueue(), and running tasks that do.  One action is one critical       *)
(* section of queue_mutex, or one notification after it.                   *)
(***************************************************************************)
EXTENDS FiniteSets, SequencesExt

CONSTANTS
    Workers,  \* the threads the constructor starts
    Clients,  \* threads that call enqueue()
    Tasks,    \* bound: names for the tasks that wait or run at one time; the
              \* name of one that is over is given to the next
    NoTask    \* the empty std::function of a worker without a task

ASSUME WorkersAssumption == IsFiniteSet(Workers) /\ Workers # {}
ASSUME ClientsAssumption == IsFiniteSet(Clients) /\ Workers \cap Clients = {}
ASSUME NoTaskAssumption == NoTask \notin Tasks

VARIABLES
    opc,     \* where the owner is
    wpc,     \* where each worker is
    held,    \* the task a worker has taken
    cpc,     \* where each client is
    tasks,   \* the queue
    stop,    \* the flag stop
    asleep,  \* workers blocked on condition
    future   \* the state the std::future of each name's last task has

queueVars == <<tasks, stop, asleep, future>>
vars == <<opc, wpc, held, cpc, queueVars>>

Init == /\ opc = "starting"
        /\ wpc = [w \in Workers |-> "none"]
        /\ held = [w \in Workers |-> NoTask]
        /\ cpc = [c \in Clients |-> "idle"]
        /\ tasks = <<>>
        /\ stop = FALSE
        /\ asleep = {}
        /\ future = [t \in Tasks |-> "none"]

-----------------------------------------------------------------------------
(* The constructor: start().  It does not wait for its threads.             *)

StartThread(w) ==
    /\ opc = "starting" /\ wpc[w] = "none"
    /\ wpc' = [wpc EXCEPT ![w] = "wait"]
    /\ UNCHANGED <<opc, held, cpc, queueVars>>

Constructed ==
    /\ opc = "starting" /\ \A w \in Workers : wpc[w] # "none"
    /\ opc' = "open"
    /\ UNCHANGED <<wpc, held, cpc, queueVars>>

-----------------------------------------------------------------------------
(* The workers.                                                             *)

\* condition.wait() with its predicate, then: block, return, or take a task.
WaitBlock(w) ==
    /\ wpc[w] = "wait" /\ w \notin asleep
    /\ ~stop /\ tasks = <<>>
    /\ asleep' = asleep \cup {w}
    /\ UNCHANGED <<opc, wpc, held, cpc, tasks, stop, future>>

\* Mutant: the thread returns on stop, whatever is queued.
ReturnUndrained(w) ==
    /\ wpc[w] = "wait" /\ w \notin asleep
    /\ stop
    /\ wpc' = [wpc EXCEPT ![w] = "returned"]
    /\ UNCHANGED <<opc, held, cpc, queueVars>>

Return(w) ==
    /\ wpc[w] = "wait" /\ w \notin asleep
    /\ stop /\ tasks = <<>>
    /\ wpc' = [wpc EXCEPT ![w] = "returned"]
    /\ UNCHANGED <<opc, held, cpc, queueVars>>

Take(w) ==
    /\ wpc[w] = "wait" /\ w \notin asleep
    /\ tasks # <<>>
    /\ held' = [held EXCEPT ![w] = Head(tasks)]
    /\ tasks' = Tail(tasks)
    /\ wpc' = [wpc EXCEPT ![w] = "running"]
    /\ UNCHANGED <<opc, cpc, stop, asleep, future>>

SpuriousWake(w) ==
    /\ w \in asleep
    /\ asleep' = asleep \ {w}
    /\ UNCHANGED <<opc, wpc, held, cpc, tasks, stop, future>>

\* The packaged_task returns.  What the task threw is in its future, and that
\* may be the runtime_error of an enqueue() on the stopped pool.
Finish(w) ==
    /\ wpc[w] = "running"
    /\ future' = [future EXCEPT ![held[w]] = "ready"]
    /\ held' = [held EXCEPT ![w] = NoTask]
    /\ wpc' = [wpc EXCEPT ![w] = "wait"]
    /\ UNCHANGED <<opc, cpc, tasks, stop, asleep>>

-----------------------------------------------------------------------------
(* enqueue(), by a client or by a running task.                             *)

\* Mutant: stop is not looked at under the lock.
EmplaceUnchecked(t) ==
    /\ future[t] # "pending"
    /\ future' = [future EXCEPT ![t] = "pending"]
    /\ tasks' = Append(tasks, t)
    /\ UNCHANGED <<stop, asleep>>

Emplace(t) ==
    /\ ~stop /\ future[t] # "pending"
    /\ future' = [future EXCEPT ![t] = "pending"]
    /\ tasks' = Append(tasks, t)
    /\ UNCHANGED <<stop, asleep>>

NotifyOne == IF asleep = {} THEN UNCHANGED asleep
                            ELSE \E w \in asleep : asleep' = asleep \ {w}

Enqueue(c, t) ==
    /\ opc = "open" /\ cpc[c] = "idle"
    /\ Emplace(t)
    /\ cpc' = [cpc EXCEPT ![c] = "notify"]
    /\ UNCHANGED <<opc, wpc, held>>

ClientNotify(c) ==
    /\ cpc[c] = "notify"
    /\ NotifyOne
    /\ cpc' = [cpc EXCEPT ![c] = "idle"]
    /\ UNCHANGED <<opc, wpc, held, tasks, stop, future>>

NestedEnqueue(w, t) ==
    /\ wpc[w] = "running"
    /\ Emplace(t)
    /\ wpc' = [wpc EXCEPT ![w] = "nestedNotify"]
    /\ UNCHANGED <<opc, held, cpc>>

NestedNotify(w) ==
    /\ wpc[w] = "nestedNotify"
    /\ NotifyOne
    /\ wpc' = [wpc EXCEPT ![w] = "running"]
    /\ UNCHANGED <<opc, held, cpc, tasks, stop, future>>

-----------------------------------------------------------------------------
(* The destructor: clear() and join(), with no client inside a call.        *)

Clear ==
    /\ opc = "open" /\ \A c \in Clients : cpc[c] = "idle"
    /\ stop' = TRUE
    /\ opc' = "notifyAll"
    /\ UNCHANGED <<wpc, held, cpc, tasks, asleep, future>>

\* Mutant: notify_one() where the code has notify_all().
ClearNotifyOne ==
    /\ opc = "notifyAll"
    /\ NotifyOne
    /\ opc' = "joining"
    /\ UNCHANGED <<wpc, held, cpc, tasks, stop, future>>

ClearNotifyAll ==
    /\ opc = "notifyAll"
    /\ asleep' = {}
    /\ opc' = "joining"
    /\ UNCHANGED <<wpc, held, cpc, tasks, stop, future>>

Join ==
    /\ opc = "joining" /\ \A w \in Workers : wpc[w] = "returned"
    /\ opc' = "destroyed"
    /\ UNCHANGED <<wpc, held, cpc, queueVars>>

Terminated == opc = "destroyed" /\ UNCHANGED vars

-----------------------------------------------------------------------------
OwnerStep == (\E w \in Workers : StartThread(w)) \/ Constructed
             \/ ClearNotifyAll \/ Join

WorkerStep(w) == \/ WaitBlock(w) \/ Return(w) \/ Take(w) \/ Finish(w)
                 \/ NestedNotify(w) \/ \E t \in Tasks : NestedEnqueue(w, t)

Next == \/ OwnerStep \/ Clear
        \/ \E w \in Workers : WorkerStep(w) \/ SpuriousWake(w)
        \/ \E c \in Clients : ClientNotify(c) \/ \E t \in Tasks : Enqueue(c, t)
        \/ Terminated

Spec == Init /\ [][Next]_vars

\* Every thread that can run does, and every task ends, whatever it queues
\* before that.  Nothing forces a client to queue, a spurious wakeup, or the
\* owner to destroy the pool.
Fairness == /\ \A w \in Workers : WF_vars(WorkerStep(w)) /\ SF_vars(Finish(w))
            /\ \A c \in Clients : WF_vars(ClientNotify(c))
            /\ WF_vars(OwnerStep)

FairSpec == Spec /\ Fairness

-----------------------------------------------------------------------------
\* Every variable has its type; a thread asleep is in condition.wait().
TypeOK == /\ opc \in {"starting", "open", "notifyAll", "joining", "destroyed"}
          /\ wpc \in [Workers -> {"none", "wait", "running", "nestedNotify",
                                  "returned"}]
          /\ held \in [Workers -> Tasks \cup {NoTask}]
          /\ cpc \in [Clients -> {"idle", "notify"}]
          /\ tasks \in Seq(Tasks)
          /\ stop \in BOOLEAN
          /\ asleep \in SUBSET Workers
          /\ future \in [Tasks -> {"none", "pending", "ready"}]
          /\ \A w \in asleep : wpc[w] = "wait"

\* Threads on their way to the queue, or with a notification to send.
Coming == {w \in Workers : \/ wpc[w] = "wait" /\ w \notin asleep
                           \/ wpc[w] = "nestedNotify"}
          \cup {c \in Clients : cpc[c] = "notify"}

\* While a worker sleeps and the destructor has not come to its notify_all(),
\* every queued task has a thread on its way to the queue.
NoLostWakeup == opc # "notifyAll" /\ asleep # {}
                    => Len(tasks) <= Cardinality(Coming)

\* The destructor returns with nothing left undone: no queued task, and every
\* future ever handed out is ready, those of tasks queued by tasks included.
Drained == opc = "destroyed" =>
    tasks = <<>> /\ \A t \in Tasks : future[t] # "pending"

\* Where the pool has task t, in the terms of TaskPool.
StatusOf(t) == IF future[t] = "none" THEN "fresh"
               ELSE IF future[t] = "ready" THEN "done"
               ELSE IF t \in Range(tasks) THEN "queued" ELSE "running"

Promise == INSTANCE TaskPool WITH Drains <- TRUE, closed <- stop,
                                  status <- [t \in Tasks |-> StatusOf(t)]

\* The pool implements a task pool that drains: one start per task, nothing
\* dropped, and nothing taken in once it is stopped (the comment at
\* ticker-pool.hh:519).
KeepsPromise == Promise!Spec

\* A task that was taken in is run, with no exception for the destructor.
AcceptedTaskRuns == \A t \in Tasks : future[t] = "pending" ~> future[t] = "ready"

\* The destructor returns.
DestructorReturns == opc = "notifyAll" ~> opc = "destroyed"
=============================================================================
