--------------------------- MODULE CondWaitClients ---------------------------
(***************************************************************************)
(* One conditional_wait object (ticker-pool.hh:47-198) and the threads     *)
(* that use it: waiters calling wait(), wait_for(d), wait_until(t) or the  *)
(* parameterless forms, and setters calling set() or set_for_all().  Which *)
(* form of the object it is and which of the two setters it is used with   *)
(* are fixed with its construction, in obj.                                *)
(*                                                                         *)
(* Every critical section under _m is one action; the notification that    *)
(* follows the unlock in set() is an action of its own, so a waiter can    *)
(* evaluate the predicate, block, time out or wake up in between.          *)
(***************************************************************************)
EXTENDS ConditionalWait, FiniteSets

CONSTANTS
    Waiters,       \* threads that wait
    Setters,       \* threads that set
    Objects,       \* the objects considered, a subset of AllObjects
    Apis,          \* the waiting calls in use, a subset of AllApis
    SetsPerSetter, \* bound: how often each setter sets
    Width,         \* bits of the representation of a duration
    TicksPerHour   \* clock ticks (nanoseconds) in one hour

AllApis == {"wait", "wait_for", "wait_for_max", "wait_until", "wait_until_max"}

\* max: max_value_ of the int form, 1 for the bool form.  counting:
\* conditional_wait_for_int, not ..._for_bool.  broadcast: it is used with
\* set_for_all() (or kill()), not with set().
AllObjects == [max : Nat \ {0}, counting : BOOLEAN, broadcast : BOOLEAN]

\* A timer_killer (224-298), which passes every call on to the bool form that it
\* is, is killed with set_for_all().
TimerKiller == [max |-> 1, counting |-> FALSE, broadcast |-> TRUE]

ASSUME ObjectsAssumption == Objects \subseteq AllObjects
ASSUME ApisAssumption == Apis \subseteq AllApis
ASSUME SetsAssumption == SetsPerSetter \in Nat

VARIABLES
    obj,     \* what the conditional_wait is and how it is used
    cw,      \* its value and the threads blocked on it
    wpc,     \* where each waiter is
    api,     \* the call each waiter made last
    result,  \* what that call returned
    spc,     \* where each setter is
    left     \* sets each setter has still to make

vars == <<obj, cw, wpc, api, result, spc, left>>

WaiterPCs == {"idle", "waiting", "expired", "returned"}
SetterPCs == {"idle", "notify"}

-----------------------------------------------------------------------------
(* std::chrono::hours::max() in clock ticks.  wait_for(rel_time) adds       *)
(* rel_time to the steady clock's now, in ticks: the multiplication is done *)
(* in the signed representation of the duration and wraps.                  *)

WrapSigned(x) == LET m == x % 2^Width
                 IN  IF m < 2^(Width - 1) THEN m ELSE m - 2^Width

HoursMax == 2^(Width - 1) - 1

MaxTimeout == WrapSigned(HoursMax * TicksPerHour)

\* The calls whose timeout can arrive: wait() has none; that of wait_for(d) and
\* wait_until(t) is the caller's; that of wait_for() is hours::max(), which no
\* execution lives to see unless it has become a time in the past; that of
\* wait_until() is time_point::max(), which is not converted.
CanExpire(a) == \/ a \in {"wait_for", "wait_until"}
                \/ a = "wait_for_max" /\ MaxTimeout <= 0

-----------------------------------------------------------------------------
Init == /\ obj \in Objects
        /\ cw = NewCW
        /\ wpc = [w \in Waiters |-> "idle"]
        /\ api = [w \in Waiters |-> "wait"]
        /\ result = [w \in Waiters |-> TRUE]
        /\ spc = [s \in Setters |-> "idle"]
        /\ left = [s \in Setters |-> SetsPerSetter]

InCall(w) == wpc[w] \in {"waiting", "expired"}

\* set() notifies one thread only, so an object that is set with it has one
\* thread waiting at a time: the constructors and stop() wait for _started,
\* _cv_started, _ended and _future_ended, and the tests for their counters.
Call(w, a) ==
    /\ ~InCall(w)
    /\ obj.broadcast \/ \A v \in Waiters : ~InCall(v)
    /\ wpc' = [wpc EXCEPT ![w] = "waiting"]
    /\ api' = [api EXCEPT ![w] = a]
    /\ UNCHANGED <<obj, cw, result, spc, left>>

Return(w, r) == /\ wpc' = [wpc EXCEPT ![w] = "returned"]
                /\ result' = [result EXCEPT ![w] = r]

\* Mutant: _cv.wait(lk) without a predicate, blocking before looking.
EvaluateNoPredicate(w) ==
    /\ wpc[w] = "waiting" /\ w \notin cw.asleep
    /\ cw' = Block(cw, w)
    /\ UNCHANGED <<obj, wpc, api, result, spc, left>>

\* The head of the loop while (!_p()) ... in _cv.wait(lk, _p) and its timed
\* forms, entered with _m held: return, or block.
Evaluate(w) ==
    /\ wpc[w] = "waiting" /\ w \notin cw.asleep
    /\ \/ Matched(cw, obj.max) /\ Return(w, TRUE) /\ UNCHANGED cw
       \/ ~Matched(cw, obj.max) /\ cw' = Block(cw, w) /\ UNCHANGED <<wpc, result>>
    /\ UNCHANGED <<obj, api, spc, left>>

\* Mutant: the timed out waiter stays in the wait-set.
ExpireAsleep(w) ==
    /\ w \in cw.asleep /\ CanExpire(api[w])
    /\ wpc' = [wpc EXCEPT ![w] = "expired"]
    /\ UNCHANGED <<obj, cw, api, result, spc, left>>

\* The timeout arrives while w is blocked.
Expire(w) ==
    /\ w \in cw.asleep /\ CanExpire(api[w])
    /\ cw' = Unblock(cw, w)
    /\ wpc' = [wpc EXCEPT ![w] = "expired"]
    /\ UNCHANGED <<obj, api, result, spc, left>>

\* After a timeout the call returns the predicate as it is by then.
Reevaluate(w) ==
    /\ wpc[w] = "expired"
    /\ Return(w, Matched(cw, obj.max))
    /\ UNCHANGED <<obj, cw, api, spc, left>>

SpuriousWake(w) ==
    /\ w \in cw.asleep
    /\ cw' = Unblock(cw, w)
    /\ UNCHANGED <<obj, wpc, api, result, spc, left>>

\* Mutant: the notification is sent only by the set that finds _var at 0.
SetNotifyFirstOnly(s) ==
    /\ spc[s] = "idle" /\ left[s] > 0
    /\ cw' = IF obj.counting THEN SetInt(cw) ELSE SetBool(cw)
    /\ spc' = [spc EXCEPT ![s] = IF cw.var = 0 THEN "notify" ELSE "idle"]
    /\ left' = [left EXCEPT ![s] = @ - 1]
    /\ UNCHANGED <<obj, wpc, api, result>>

\* The critical section of set() and set_for_all().
Set(s) ==
    /\ spc[s] = "idle" /\ left[s] > 0
    /\ cw' = IF obj.counting THEN SetInt(cw) ELSE SetBool(cw)
    /\ spc' = [spc EXCEPT ![s] = "notify"]
    /\ left' = [left EXCEPT ![s] = @ - 1]
    /\ UNCHANGED <<obj, wpc, api, result>>

\* Their notification, with _m released.
Notify(s) ==
    /\ spc[s] = "notify"
    /\ cw' \in IF obj.broadcast THEN {NotifyAll(cw)} ELSE NotifyOne(cw)
    /\ spc' = [spc EXCEPT ![s] = "idle"]
    /\ UNCHANGED <<obj, wpc, api, result, left>>

Next == \/ \E w \in Waiters : \/ \E a \in Apis : Call(w, a)
                              \/ Evaluate(w)
                              \/ Expire(w)
                              \/ Reevaluate(w)
                              \/ SpuriousWake(w)
        \/ \E s \in Setters : Set(s) \/ Notify(s)

Spec == Init /\ [][Next]_vars

\* Threads that can run do run, and the setters make all their sets.  Nothing
\* forces a caller to wait, a timeout to arrive or a spurious wakeup.
Fairness == /\ \A w \in Waiters : WF_vars(Evaluate(w) \/ Reevaluate(w))
            /\ \A s \in Setters : WF_vars(Set(s) \/ Notify(s))

FairSpec == Spec /\ Fairness

-----------------------------------------------------------------------------
\* Every variable has its type, and a thread asleep is inside a waiting call.
TypeOK == /\ obj \in Objects
          /\ cw \in CWType(Waiters)
          /\ wpc \in [Waiters -> WaiterPCs]
          /\ api \in [Waiters -> AllApis]
          /\ result \in [Waiters -> BOOLEAN]
          /\ spc \in [Setters -> SetterPCs]
          /\ left \in [Setters -> 0..SetsPerSetter]
          /\ \A w \in cw.asleep : wpc[w] = "waiting"

\* No wakeup is lost: while the condition is matched and a thread still
\* sleeps on it, some setter has its notification still to send.
NoStrandedWaiter == Matched(cw, obj.max) /\ cw.asleep # {}
                        => \E s \in Setters : spc[s] = "notify"

\* A waiting call always returns once the setters set often enough, whatever
\* the order of the waiter's evaluations, the sets and the notifications.
WaitsReturn == \A w \in Waiters : wpc[w] = "waiting" ~> wpc[w] = "returned"

=============================================================================
