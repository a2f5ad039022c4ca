----------------------------- MODULE Observable -----------------------------
(***************************************************************************)
(* observable<S, AutoLock, CNS> (ticker-common.hh:1000-1111) and the       *)
(* registerer (1113-1125): a vector of weak_ptr to observers, which        *)
(* threads extend, shorten and walk through.                               *)
(*                                                                         *)
(* With AutoLock a mutex guards the vector.  With CNS too, a thread that   *)
(* changes it copies it first, without the mutex, and swaps the changed    *)
(* copy in under it.  emit() calls the observers with the mutex held.      *)
(***************************************************************************)
EXTENDS Naturals

CONSTANTS
    Threads,     \* the threads that use the observable
    Observers,   \* the observers that may be registered
    NoObserver,  \* no observer
    Nobody,      \* no thread: the mutex is free
    Forms,       \* instances of the template, and who does what with them
    MaxCalls,    \* bound: the calls of a thread
    MaxEntries   \* bound: how often an observer may be registered

\* The template arguments, and the threads that change and that emit.
AllForms == [autoLock : BOOLEAN, cns : BOOLEAN,
             modifiers : SUBSET Threads, emitters : SUBSET Threads]

\* Without AutoLock all calls are those of one thread.
SoleUser(f) == \A t, u \in f.modifiers \cup f.emitters : t = u

ASSUME FormsAssumption ==
    Forms \subseteq AllForms /\ \A f \in Forms : f.autoLock \/ SoleUser(f)
ASSUME NobodyAssumption == Nobody \notin Threads
ASSUME NoObserverAssumption == NoObserver \notin Observers
ASSUME BoundsAssumption == MaxCalls \in Nat /\ MaxEntries \in Nat

\* One thread at most changes a vector that is copied without the mutex.
OneSwapper == \A f \in Forms :
    (f.autoLock /\ f.cns) => \A t, u \in f.modifiers : t = u

VARIABLES
    form,       \* the form of the object
    observers,  \* _observers: how often it holds each observer
    mutex,      \* _m: the thread that holds it
    pc,         \* where each thread is
    request,    \* the call it is in
    copy,       \* its copy of _observers
    visited,    \* the entries its emit() has been to
    calling,    \* the observer whose observe() it is in
    owned,      \* the observers that a shared_ptr of the users' keeps alive
    calls,      \* how many calls each thread has made
    gone        \* the observable has been destroyed

\* A thread in emit()'s loop is delivering; the others have asked for a call.
Asked == [t \in Threads |->
            IF pc[t] \in {"visiting", "observing"}
            THEN [op |-> "deliver", of |-> NoObserver]
            ELSE request[t]]

R == INSTANCE Registry WITH registered <- observers, request <- Asked

Empty == [o \in Observers |-> 0]
NoCall == [op |-> "none", of |-> NoObserver]
Changes == [op : {"add", "remove"}, of : Observers]
Emit == [op |-> "emit", of |-> NoObserver]

PCs == {"idle", "called", "copied", "visiting", "observing"}

vars == <<form, observers, mutex, pc, request, copy, visited, calling, owned,
          calls, gone>>

Init == /\ form \in Forms
        /\ observers = Empty
        /\ mutex = Nobody
        /\ pc = [t \in Threads |-> "idle"]
        /\ request = [t \in Threads |-> NoCall]
        /\ copy = [t \in Threads |-> Empty]
        /\ visited = [t \in Threads |-> Empty]
        /\ calling = [t \in Threads |-> NoObserver]
        /\ owned = Observers
        /\ calls = [t \in Threads |-> 0]
        /\ gone = FALSE

-----------------------------------------------------------------------------
(* The calls: +=, -=, add_observer(), remove_observer(), emit().            *)

Swaps == form.autoLock /\ form.cns
MutexFree == form.autoLock => mutex = Nobody

\* weak_ptr::lock() succeeds: a user or a running emit() holds the observer.
Alive(o) == o \in owned \/ \E t \in Threads : calling[t] = o

\* push_back() of an observer, alive or not; erase(remove_if()) of the entries
\* that lead to an observer, which no entry does when it is no more.
Changed(entries, r) ==
    CASE r.op = "add" -> [entries EXCEPT ![r.of] = @ + 1]
      [] r.op = "remove" /\ Alive(r.of) -> [entries EXCEPT ![r.of] = 0]
      [] OTHER -> entries

Call(t, r) ==
    /\ ~gone /\ pc[t] = "idle" /\ calls[t] < MaxCalls
    /\ \/ r \in Changes /\ t \in form.modifiers
       \/ r = Emit /\ t \in form.emitters
    /\ r.op = "add" => observers[r.of] < MaxEntries
    /\ pc' = [pc EXCEPT ![t] = "called"]
    /\ request' = [request EXCEPT ![t] = r]
    /\ calls' = [calls EXCEPT ![t] = @ + 1]
    /\ UNCHANGED <<form, observers, mutex, copy, visited, calling, owned, gone>>

Return(t) == /\ pc' = [pc EXCEPT ![t] = "idle"]
             /\ request' = [request EXCEPT ![t] = NoCall]

-----------------------------------------------------------------------------
(* add_observer() and remove_observer().                                    *)

\* Copy-and-swap: the copy is taken and changed before the mutex is locked.
CopyOut(t) ==
    /\ pc[t] = "called" /\ request[t].op # "emit" /\ Swaps
    /\ copy' = [copy EXCEPT ![t] = Changed(observers, request[t])]
    /\ pc' = [pc EXCEPT ![t] = "copied"]
    /\ UNCHANGED <<form, observers, mutex, request, visited, calling, owned,
                   calls, gone>>

\* Mutant: the swap does not take the mutex.
SwapInUnlocked(t) ==
    /\ pc[t] = "copied"
    /\ observers' = copy[t]
    /\ copy' = [copy EXCEPT ![t] = Empty]
    /\ Return(t)
    /\ UNCHANGED <<form, mutex, visited, calling, owned, calls, gone>>

SwapIn(t) ==
    /\ pc[t] = "copied" /\ MutexFree
    /\ observers' = copy[t]
    /\ copy' = [copy EXCEPT ![t] = Empty]
    /\ Return(t)
    /\ UNCHANGED <<form, mutex, visited, calling, owned, calls, gone>>

ModifyInPlace(t) ==
    /\ pc[t] = "called" /\ request[t].op # "emit" /\ ~Swaps /\ MutexFree
    /\ observers' = Changed(observers, request[t])
    /\ Return(t)
    /\ UNCHANGED <<form, mutex, copy, visited, calling, owned, calls, gone>>

-----------------------------------------------------------------------------
(* emit().                                                                  *)

StartEmit(t) ==
    /\ pc[t] = "called" /\ request[t].op = "emit" /\ MutexFree
    /\ mutex' = IF form.autoLock THEN t ELSE mutex
    /\ visited' = [visited EXCEPT ![t] = Empty]
    /\ pc' = [pc EXCEPT ![t] = "visiting"]
    /\ UNCHANGED <<form, observers, request, copy, calling, owned, calls, gone>>

\* The next entry: its observer is called if it can be locked.
Visit(t, o) ==
    /\ pc[t] = "visiting" /\ visited[t][o] < observers[o]
    /\ visited' = [visited EXCEPT ![t][o] = @ + 1]
    /\ IF Alive(o) THEN /\ calling' = [calling EXCEPT ![t] = o]
                        /\ pc' = [pc EXCEPT ![t] = "observing"]
                   ELSE UNCHANGED <<calling, pc>>
    /\ UNCHANGED <<form, observers, mutex, request, copy, owned, calls, gone>>

\* observe() returns, and the shared_ptr spt is released.
Observed(t) ==
    /\ pc[t] = "observing"
    /\ calling' = [calling EXCEPT ![t] = NoObserver]
    /\ pc' = [pc EXCEPT ![t] = "visiting"]
    /\ UNCHANGED <<form, observers, mutex, request, copy, visited, owned, calls,
                   gone>>

Unlocked(t) == mutex' = IF form.autoLock THEN Nobody ELSE mutex

\* Mutant: an exception leaves the mutex locked.
ThrownLocked(t) ==
    /\ pc[t] = "observing"
    /\ calling' = [calling EXCEPT ![t] = NoObserver]
    /\ Return(t)
    /\ UNCHANGED <<form, observers, mutex, copy, visited, owned, calls, gone>>

\* observe() throws: the rest of the observers are not called.
Thrown(t) ==
    /\ pc[t] = "observing"
    /\ calling' = [calling EXCEPT ![t] = NoObserver]
    /\ Unlocked(t) /\ Return(t)
    /\ UNCHANGED <<form, observers, copy, visited, owned, calls, gone>>

EndEmit(t) ==
    /\ pc[t] = "visiting"
    /\ \A o \in Observers : visited[t][o] >= observers[o]
    /\ Unlocked(t) /\ Return(t)
    /\ UNCHANGED <<form, observers, copy, visited, calling, owned, calls, gone>>

-----------------------------------------------------------------------------
(* The users: an observer's last shared_ptr goes, or the observable does.   *)

Release(o) ==
    /\ o \in owned
    /\ owned' = owned \ {o}
    /\ UNCHANGED <<form, observers, mutex, pc, request, copy, visited, calling,
                   calls, gone>>

\* The users destroy an observable that none of them is using.
Destroy ==
    /\ ~gone /\ \A t \in Threads : pc[t] = "idle"
    /\ observers' = Empty
    /\ gone' = TRUE
    /\ UNCHANGED <<form, mutex, pc, request, copy, visited, calling, owned, calls>>

Finished == gone /\ UNCHANGED vars

Step(t) == \/ CopyOut(t) \/ SwapIn(t) \/ ModifyInPlace(t)
           \/ StartEmit(t) \/ Observed(t) \/ Thrown(t) \/ EndEmit(t)
           \/ \E o \in Observers : Visit(t, o)

Next == \/ \E t \in Threads : Step(t) \/ \E r \in Changes \cup {Emit} : Call(t, r)
        \/ \E o \in Observers : Release(o)
        \/ Destroy
        \/ Finished

\* A thread inside a call is scheduled, and observe() returns or throws.
Fairness == \A t \in Threads : WF_vars(Step(t))

Spec == Init /\ [][Next]_vars
FairSpec == Spec /\ Fairness

-----------------------------------------------------------------------------
(* Properties.                                                              *)

\* Type correctness; a thread calls an observer only inside emit().
TypeOK ==
    /\ form \in Forms
    /\ observers \in [Observers -> Nat]
    /\ mutex \in Threads \cup {Nobody}
    /\ pc \in [Threads -> PCs]
    /\ request \in [Threads -> Changes \cup {Emit, NoCall}]
    /\ copy \in [Threads -> [Observers -> Nat]]
    /\ visited \in [Threads -> [Observers -> Nat]]
    /\ calling \in [Threads -> Observers \cup {NoObserver}]
    /\ owned \subseteq Observers
    /\ calls \in [Threads -> Nat]
    /\ gone \in BOOLEAN
    /\ \A t \in Threads : pc[t] = "observing" <=> calling[t] # NoObserver

\* No thread is in observe() of o, and emit() would call it nowhere.
Quiet(o) == /\ \A t \in Threads : calling[t] # o
            /\ observers[o] = 0 \/ ~Alive(o)

Returns(t, r) == pc[t] # "idle" /\ pc'[t] = "idle" /\ request[t] = r

\* When remove_observer() returns, no thread is in the observer any more,
\* however long ago the event was emitted, and none comes to it again before an
\* add_observer() of it returns.
QuietAfterRemove ==
    [][\A o \in Observers :
         (\/ \E t \in Threads : Returns(t, [op |-> "remove", of |-> o])
          \/ /\ Quiet(o)
             /\ ~\E t \in Threads : Returns(t, [op |-> "add", of |-> o]))
         => Quiet(o)']_vars

\* Every registration and removal takes effect, at once, between deliveries,
\* and every event reaches all that are registered and alive (Registry).
KeepsPromise == R!Spec

\* Every call returns, although emit() keeps the mutex while it calls others.
CallsReturn == \A t \in Threads : pc[t] # "idle" ~> pc[t] = "idle"
=============================================================================
