------------------------------ MODULE Registry ------------------------------
(***************************************************************************)
(* What a thread-safe observable promises to its callers: a registration   *)
(* or removal takes effect at one moment of the call, on the registrations *)
(* of that moment, and never while an event is being delivered; an event   *)
(* goes to every registration whose observer is alive.  No copies and no   *)
(* mutex here: Observable implements it.                                   *)
(***************************************************************************)
EXTENDS Naturals

CONSTANTS Threads, Observers, NoObserver

VARIABLES
    registered,  \* how often each observer is registered
    request,     \* what each thread has asked for
    visited,     \* the registrations an event has been taken to
    calling,     \* the observer a thread is calling
    owned        \* the observers that somebody keeps alive

vars == <<registered, request, visited, calling, owned>>

Empty == [o \in Observers |-> 0]
NoRequest == [op |-> "none", of |-> NoObserver]
Deliver == [op |-> "deliver", of |-> NoObserver]
Requests == [op : {"add", "remove"}, of : Observers]
               \cup {[op |-> "emit", of |-> NoObserver]}

Alive(o) == o \in owned \/ \E t \in Threads : calling[t] = o

\* What a request may leave: whether the entries of an observer that is no more
\* are found by its removal is open, as nobody is called through them.
Results(r) ==
    IF r.op = "add"
    THEN {[registered EXCEPT ![r.of] = @ + 1]}
    ELSE {[registered EXCEPT ![r.of] = 0]}
            \cup IF Alive(r.of) THEN {} ELSE {registered}

Init == /\ registered = Empty
        /\ request = [t \in Threads |-> NoRequest]
        /\ visited = [t \in Threads |-> Empty]
        /\ calling = [t \in Threads |-> NoObserver]
        /\ owned = Observers

Quiet == \A t \in Threads : request[t] # Deliver

Ask(t) ==
    /\ request[t] = NoRequest
    /\ \E r \in Requests : request' = [request EXCEPT ![t] = r]
    /\ UNCHANGED <<registered, visited, calling, owned>>

Change(t) ==
    /\ request[t].op \in {"add", "remove"} /\ Quiet
    /\ registered' \in Results(request[t])
    /\ request' = [request EXCEPT ![t] = NoRequest]
    /\ UNCHANGED <<visited, calling, owned>>

StartDelivery(t) ==
    /\ request[t].op = "emit" /\ Quiet
    /\ request' = [request EXCEPT ![t] = Deliver]
    /\ visited' = [visited EXCEPT ![t] = Empty]
    /\ UNCHANGED <<registered, calling, owned>>

Visit(t, o) ==
    /\ request[t] = Deliver /\ calling[t] = NoObserver
    /\ visited[t][o] < registered[o]
    /\ visited' = [visited EXCEPT ![t][o] = @ + 1]
    /\ calling' = IF Alive(o) THEN [calling EXCEPT ![t] = o] ELSE calling
    /\ UNCHANGED <<registered, request, owned>>

EndCall(t) ==
    /\ calling[t] # NoObserver
    /\ calling' = [calling EXCEPT ![t] = NoObserver]
    /\ UNCHANGED <<registered, request, visited, owned>>

\* Only an observer that throws ends a delivery before its end.
Abandon(t) ==
    /\ calling[t] # NoObserver
    /\ calling' = [calling EXCEPT ![t] = NoObserver]
    /\ request' = [request EXCEPT ![t] = NoRequest]
    /\ UNCHANGED <<registered, visited, owned>>

EndDelivery(t) ==
    /\ request[t] = Deliver /\ calling[t] = NoObserver
    /\ \A o \in Observers : visited[t][o] >= registered[o]
    /\ request' = [request EXCEPT ![t] = NoRequest]
    /\ UNCHANGED <<registered, visited, calling, owned>>

Release(o) ==
    /\ o \in owned
    /\ owned' = owned \ {o}
    /\ UNCHANGED <<registered, request, visited, calling>>

Destroy ==
    /\ \A t \in Threads : request[t] = NoRequest
    /\ registered' = Empty
    /\ UNCHANGED <<request, visited, calling, owned>>

Next ==
    \/ Destroy
    \/ \E o \in Observers : Release(o)
    \/ \E t \in Threads :
         \/ Ask(t) \/ Change(t)
         \/ StartDelivery(t) \/ EndCall(t) \/ Abandon(t) \/ EndDelivery(t)
         \/ \E o \in Observers : Visit(t, o)

Spec == Init /\ [][Next]_vars
=============================================================================
