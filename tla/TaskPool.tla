------------------------------ MODULE TaskPool ------------------------------
(***************************************************************************)
(* What a pool of ticker-pool.hh promises to the owner of a task: every    *)
(* task queued is started at most once, a started task runs to its end,    *)
(* and only a closed pool drops tasks.  No threads, queue order, locks or  *)
(* notifications here: ThreadPool and ThreadPoolLite implement it.         *)
(***************************************************************************)
CONSTANTS
    Tasks,   \* names of tasks: a task that is over may give its name to another
    Drains   \* TRUE: a closed pool still starts what is queued

VARIABLES
    status,  \* where each task is
    closed   \* whether the pool has been closed

vars == <<status, closed>>

Statuses == {"fresh", "queued", "running", "done", "dropped"}

Init == /\ status = [t \in Tasks |-> "fresh"]
        /\ closed = FALSE

Move(t, from, to) == /\ status[t] \in from
                     /\ status' = [status EXCEPT ![t] = to]
                     /\ UNCHANGED closed

\* A pool that drains takes no task once it is closed; the other one does,
\* and never starts it.
Queue(t)  == (closed => ~Drains) /\ Move(t, {"fresh", "done", "dropped"}, "queued")
Start(t)  == (closed => Drains) /\ Move(t, {"queued"}, "running")
Finish(t) == Move(t, {"running"}, "done")

\* Dropping a set of queued tasks: their futures get broken promises.
Drop(ts) == [t \in Tasks |-> IF t \in ts THEN "dropped" ELSE status[t]]

QueuedTasks == {t \in Tasks : status[t] = "queued"}

\* Closing the pool, or destroying it when it is closed.
Close == /\ closed' = TRUE
         /\ status' = IF Drains THEN status ELSE Drop(QueuedTasks)

Next == Close \/ \E t \in Tasks : Queue(t) \/ Start(t) \/ Finish(t)

Spec == Init /\ [][Next]_vars
=============================================================================
