--------------------------- MODULE TimerLifecycle ---------------------------
(***************************************************************************)
(* The life of a timer_t object (ticker-core.hh:117-142, 198-232, 310-311  *)
(* and the order of its members, 376-388): construction and start(), the   *)
(* use of its members by the runner thread and by the workers of _pool,    *)
(* stop() by clear(), join() or the destructor, and the destruction of the *)
(* members one after the other.                                            *)
(*                                                                         *)
(* What a round of the runner does to the wheel is in module Timer, what   *)
(* _pool does in ThreadPool.  Here a thread is the member it touches next. *)
(***************************************************************************)
EXTENDS ConditionalWait, FiniteSets, Sequences

CONSTANTS
    Workers,   \* the threads of _pool
    Births,    \* how the timer comes about, a subset of AllBirths
    Clears     \* bound: calls of clear() or join() before the destructor

ASSUME WorkersAssumption == IsFiniteSet(Workers)
\* spawn: by the default constructor, whose start() spawns the runner.  open:
\* by the copy or move constructor, which do not call start().
AllBirths == {"spawn", "open"}

ASSUME BirthsAssumption == Births \subseteq AllBirths
ASSUME ClearsAssumption == Clears \in Nat

\* Mutant: _pool is declared before the wheel its workers post to.
MembersPoolFirst == <<"_t", "_tk", "_pool", "_wheel", "_started", "_ended">>

\* The members, in the order of their declaration.  _wheel stands for _twl,
\* _pasts and _l_twl, which are adjacent and shared by the same threads.
Members == <<"_t", "_tk", "_wheel", "_pool", "_started", "_ended">>

VARIABLES
    opc,      \* where the owner is
    next,     \* the member the destructor destroys next, an index of Members
    dying,    \* whether the owner is in ~timer_t()
    clears,   \* calls of clear() or join() left
    thread,   \* the std::thread _t: what it refers to
    rpc,      \* where the runner thread is
    wpc,      \* where each pool worker is
    queued,   \* whether _pool holds launched jobs no worker has taken
    tk,       \* _tk
    started,  \* _started
    ended     \* _ended

ownerVars == <<opc, next, dying, clears, thread>>
cws == <<tk, started, ended>>
vars == <<ownerVars, rpc, wpc, queued, cws>>

Owner == "owner"
RunnerThread == "runner"

Alive(m) == \E i \in 1..next : Members[i] = m

Init == /\ opc \in Births
        /\ next = Len(Members)
        /\ dying = FALSE
        /\ clears = Clears
        /\ thread = "none"
        /\ rpc = "unborn"
        /\ wpc = [w \in Workers |-> "idle"]
        /\ queued = FALSE
        /\ tk = NewCW /\ started = NewCW /\ ended = NewCW

-----------------------------------------------------------------------------
(* The owner.                                                               *)

\* start().
SpawnRunner ==
    /\ opc = "spawn"
    /\ thread' = "joinable" /\ rpc' = "setStarted"
    /\ opc' = "awaitStarted"
    /\ UNCHANGED <<next, dying, clears, wpc, queued, cws>>

AwaitStarted ==
    /\ opc = "awaitStarted" /\ Owner \notin started.asleep
    /\ \/ Matched(started, 1) /\ opc' = "open" /\ UNCHANGED started
       \/ ~Matched(started, 1) /\ started' = Block(started, Owner) /\ UNCHANGED opc
    /\ UNCHANGED <<next, dying, clears, thread, rpc, wpc, queued, tk, ended>>

\* clear(), join() or the destructor: all are stop().
BeginStop(destroy) ==
    /\ opc = "open"
    /\ destroy \/ clears > 0
    /\ clears' = IF destroy THEN clears ELSE clears - 1
    /\ dying' = destroy
    /\ opc' = "detach"
    /\ UNCHANGED <<next, thread, rpc, wpc, queued, cws>>

\* _t.detach() throws when _t refers to no thread: out of clear() to the
\* caller, or out of the destructor, which is std::terminate().
Detach ==
    /\ opc = "detach"
    /\ IF thread = "joinable"
       THEN thread' = "detached" /\ opc' = "kill"
       ELSE opc' = (IF dying THEN "terminated" ELSE "open") /\ UNCHANGED thread
    /\ UNCHANGED <<next, dying, clears, rpc, wpc, queued, cws>>

\* _tk.kill(), its critical section and its notify_all().
Kill ==
    /\ opc = "kill"
    /\ tk' = SetBool(tk)
    /\ opc' = "killNotify"
    /\ UNCHANGED <<next, dying, clears, thread, rpc, wpc, queued, started, ended>>

\* Mutant: the killed runner is not notified.
KillSilently ==
    /\ opc = "killNotify"
    /\ opc' = "awaitEnded"
    /\ UNCHANGED <<next, dying, clears, thread, rpc, wpc, queued, cws>>

KillNotify ==
    /\ opc = "killNotify"
    /\ tk' = NotifyAll(tk)
    /\ opc' = "awaitEnded"
    /\ UNCHANGED <<next, dying, clears, thread, rpc, wpc, queued, started, ended>>

\* Mutant: stop() waits for the wrong one of the two signals.
AwaitWrongSignal ==
    /\ opc = "awaitEnded"
    /\ Matched(started, 1)
    /\ opc' = IF dying THEN "destroy" ELSE "open"
    /\ UNCHANGED <<next, dying, clears, thread, rpc, wpc, queued, cws>>

\* Mutant: the destructor calls clear() and join(), and stops twice.
AwaitEndedTwice ==
    /\ opc = "awaitEnded" /\ Owner \notin ended.asleep
    /\ \/ /\ Matched(ended, 1)
          /\ opc' = IF dying THEN "detach" ELSE "open"
          /\ UNCHANGED ended
       \/ /\ ~Matched(ended, 1)
          /\ ended' = Block(ended, Owner)
          /\ UNCHANGED opc
    /\ UNCHANGED <<next, dying, clears, thread, rpc, wpc, queued, tk, started>>

\* _ended.wait(), the end of stop().
AwaitEnded ==
    /\ opc = "awaitEnded" /\ Owner \notin ended.asleep
    /\ \/ /\ Matched(ended, 1)
          /\ opc' = IF dying THEN "destroy" ELSE "open"
          /\ UNCHANGED ended
       \/ /\ ~Matched(ended, 1)
          /\ ended' = Block(ended, Owner)
          /\ UNCHANGED opc
    /\ UNCHANGED <<next, dying, clears, thread, rpc, wpc, queued, tk, started>>

\* The members are destroyed in the reverse order of their declaration.
DestroyMember ==
    /\ opc = "destroy" /\ next > 0 /\ Members[next] # "_pool"
    /\ next' = next - 1
    /\ UNCHANGED <<opc, dying, clears, thread, rpc, wpc, queued, cws>>

\* ~thread_pool() throws the queued jobs away, and
ClosePool ==
    /\ opc = "destroy" /\ next > 0 /\ Members[next] = "_pool"
    /\ queued' = FALSE
    /\ opc' = "joinPool"
    /\ UNCHANGED <<next, dying, clears, thread, rpc, wpc, cws>>

\* waits for the workers to finish the jobs they have.
JoinPool ==
    /\ opc = "joinPool" /\ \A w \in Workers : wpc[w] = "exited"
    /\ next' = next - 1
    /\ opc' = "destroy"
    /\ UNCHANGED <<dying, clears, thread, rpc, wpc, queued, cws>>

Gone ==
    /\ opc = "destroy" /\ next = 0
    /\ opc' = "gone"
    /\ UNCHANGED <<next, dying, clears, thread, rpc, wpc, queued, cws>>

-----------------------------------------------------------------------------
(* The runner thread.                                                       *)

\* std::terminate() ends every thread.
Running == opc # "terminated"

RunnerMove(from, to) == Running /\ rpc = from /\ rpc' = to

SetStarted ==
    /\ RunnerMove("setStarted", "notifyStarted")
    /\ started' = SetBool(started)
    /\ UNCHANGED <<ownerVars, wpc, queued, tk, ended>>

NotifyStarted ==
    /\ RunnerMove("notifyStarted", "wait")
    /\ started' \in NotifyOne(started)
    /\ UNCHANGED <<ownerVars, wpc, queued, tk, ended>>

\* _tk.wait_for(d): the loop ends when the condition is matched.
WaitMatched ==
    /\ RunnerMove("wait", "setEnded")
    /\ RunnerThread \notin tk.asleep /\ Matched(tk, 1)
    /\ UNCHANGED <<ownerVars, wpc, queued, cws>>

WaitBlock ==
    /\ Running /\ rpc = "wait"
    /\ RunnerThread \notin tk.asleep /\ ~Matched(tk, 1)
    /\ tk' = Block(tk, RunnerThread)
    /\ UNCHANGED <<ownerVars, rpc, wpc, queued, started, ended>>

\* The timeout arrives; the predicate is evaluated once more.
WaitTimeout ==
    /\ Running /\ rpc = "wait" /\ RunnerThread \in tk.asleep
    /\ tk' = Unblock(tk, RunnerThread)
    /\ rpc' = IF Matched(tk, 1) THEN "setEnded" ELSE "pick"
    /\ UNCHANGED <<ownerVars, wpc, queued, started, ended>>

\* A round: find_next() and the swap under _l_twl, with nothing found or a
\* slot of jobs; launch_to(_pool); _pasts and the recurring jobs.
RoundPick ==
    /\ RunnerMove("pick", "wait") \/ RunnerMove("pick", "launch")
    /\ UNCHANGED <<ownerVars, wpc, queued, cws>>

RoundLaunch ==
    /\ RunnerMove("launch", "hold")
    /\ queued' = TRUE
    /\ UNCHANGED <<ownerVars, wpc, cws>>

RoundHold ==
    /\ RunnerMove("hold", "wait")
    /\ UNCHANGED <<ownerVars, wpc, queued, cws>>

\* _ended.set(): the owner may go on from here.
SetEnded ==
    /\ RunnerMove("setEnded", "notifyEnded")
    /\ ended' = SetBool(ended)
    /\ UNCHANGED <<ownerVars, wpc, queued, tk, started>>

NotifyEnded ==
    /\ RunnerMove("notifyEnded", "terminated")
    /\ ended' \in NotifyOne(ended)
    /\ UNCHANGED <<ownerVars, wpc, queued, tk, started>>

-----------------------------------------------------------------------------
(* The workers of _pool.                                                    *)

\* There may be more jobs in the queue than the one taken.
TakeJob(w) ==
    /\ Running /\ wpc[w] = "idle" /\ queued
    /\ queued' \in BOOLEAN
    /\ wpc' = [wpc EXCEPT ![w] = "running"]
    /\ UNCHANGED <<ownerVars, rpc, cws>>

\* fn() has returned; post_job of an _interval job calls add_task().
JobDone(w) ==
    /\ Running /\ wpc[w] = "running"
    /\ \E to \in {"idle", "posting"} : wpc' = [wpc EXCEPT ![w] = to]
    /\ UNCHANGED <<ownerVars, rpc, queued, cws>>

JobPosted(w) ==
    /\ Running /\ wpc[w] = "posting"
    /\ wpc' = [wpc EXCEPT ![w] = "idle"]
    /\ UNCHANGED <<ownerVars, rpc, queued, cws>>

WorkerExits(w) ==
    /\ wpc[w] = "idle" /\ opc = "joinPool"
    /\ wpc' = [wpc EXCEPT ![w] = "exited"]
    /\ UNCHANGED <<ownerVars, rpc, queued, cws>>

-----------------------------------------------------------------------------
SpuriousWake ==
    /\ Running
    /\ \/ Owner \in started.asleep \cup ended.asleep
       \/ RunnerThread \in tk.asleep
    /\ started' = Unblock(started, Owner)
    /\ ended' = Unblock(ended, Owner)
    /\ tk' = Unblock(tk, RunnerThread)
    /\ UNCHANGED <<ownerVars, rpc, wpc, queued>>

\* Nothing is left of the timer, or of the process.
Finished == /\ opc = "terminated" \/ (opc = "gone" /\ rpc = "terminated")
            /\ UNCHANGED vars

OwnerStep == \/ SpawnRunner \/ AwaitStarted
             \/ Detach \/ Kill \/ KillNotify \/ AwaitEnded
             \/ DestroyMember \/ ClosePool \/ JoinPool \/ Gone

RunnerStep == \/ SetStarted \/ NotifyStarted
              \/ WaitMatched \/ WaitBlock
              \/ RoundPick \/ RoundLaunch \/ RoundHold
              \/ SetEnded \/ NotifyEnded

WorkerStep(w) == TakeJob(w) \/ JobDone(w) \/ JobPosted(w) \/ WorkerExits(w)

Next == \/ OwnerStep \/ RunnerStep \/ WaitTimeout \/ SpuriousWake
        \/ \E destroy \in BOOLEAN : BeginStop(destroy)
        \/ \E w \in Workers : WorkerStep(w)
        \/ Finished

Spec == Init /\ [][Next]_vars

\* Threads that can run do, and jobs end.  No timeout is needed: the kill is
\* what ends the runner's wait.
Fairness == /\ WF_vars(OwnerStep)
            /\ WF_vars(RunnerStep)
            /\ \A w \in Workers : WF_vars(WorkerStep(w))

FairSpec == Spec /\ Fairness

-----------------------------------------------------------------------------
\* Every variable has its type; a thread blocked is at its wait.
TypeOK == /\ opc \in {"spawn", "awaitStarted", "open", "detach", "kill",
                      "killNotify", "awaitEnded", "destroy", "joinPool", "gone",
                      "terminated"}
          /\ next \in 0..Len(Members)
          /\ dying \in BOOLEAN
          /\ clears \in 0..Clears
          /\ thread \in {"none", "joinable", "detached"}
          /\ rpc \in {"unborn", "setStarted", "notifyStarted", "wait", "pick",
                      "launch", "hold", "setEnded", "notifyEnded", "terminated"}
          /\ wpc \in [Workers -> {"idle", "running", "posting", "exited"}]
          /\ queued \in BOOLEAN
          /\ tk \in CWType({RunnerThread})
          /\ started \in CWType({Owner}) /\ ended \in CWType({Owner})
          /\ tk.asleep # {} => rpc = "wait"
          /\ started.asleep # {} => opc = "awaitStarted"
          /\ ended.asleep # {} => opc = "awaitEnded"

\* The member the runner is about to touch, or is blocked on.
RunnerTouches == CASE rpc \in {"setStarted", "notifyStarted"} -> {"_started"}
                   [] rpc = "wait" -> {"_tk"}
                   [] rpc \in {"pick", "hold"} -> {"_wheel"}
                   [] rpc = "launch" -> {"_pool"}
                   [] rpc \in {"setEnded", "notifyEnded"} -> {"_ended"}
                   [] OTHER -> {}

WorkerTouches(w) == CASE wpc[w] = "posting" -> {"_pool", "_wheel"}
                      [] wpc[w] \in {"idle", "running"} -> {"_pool"}
                      [] OTHER -> {}

\* No member is destroyed while the runner or a pool worker can still touch
\* it, _ended excepted: the runner is through with _started, _tk, the wheel
\* and _pool before it sets _ended, and _pool joins its workers before the
\* wheel they post to goes.
MembersOutliveUsers ==
    /\ \A m \in RunnerTouches \ {"_ended"} : Alive(m)
    /\ \A w \in Workers : \A m \in WorkerTouches(w) : Alive(m)

\* When clear() or join() has returned without throwing, the runner has done
\* its last round: it neither launches a job nor looks at the wheel again.
StoppedMeansQuiet == opc = "open" /\ thread = "detached"
                        => rpc \in {"notifyEnded", "terminated"}

\* The first stop() of a timer that has started its runner does not throw, be it
\* clear()'s or the destructor's.  What ends the process is a destructor that
\* finds _t stopped before, or never started because the timer is a copy.
FirstStopIsSafe == opc = "terminated" => clears < Clears \/ thread = "none"

\* Past the detach(), stop() returns and so does the destructor, however the
\* kill falls between the runner's look at _tk and its going to sleep.
StopReturns == opc = "kill" ~> opc \in {"open", "gone"}

=============================================================================
