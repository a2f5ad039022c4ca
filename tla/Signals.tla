------------------------------- MODULE Signals -------------------------------
(***************************************************************************)
(* signal<SignalSubjects...> and observable_bindable<S> (ticker-common.hh: *)
(* 1127-1211): callbacks made by binding values in front of the subjects   *)
(* of an event, and called one after the other.                            *)
(*                                                                         *)
(* signal::emit() passes its subjects on by std::move(): a slot that takes *)
(* one by value leaves the slots after it a subject that is moved from.    *)
(***************************************************************************)
EXTENDS Callables, FiniteSets

CONSTANTS
    Kinds,          \* the objects of the run, a subset of AllKinds
    SubjectCount,   \* SignalSubjects, for a signal
    Values,         \* the values bound to a slot and sent as subjects
    MovedFrom,      \* what is left of a subject
    Slots,          \* the slots that may be connected
    MaxSlots,       \* bound: connections
    MaxEvents       \* bound: events

AllKinds == {"signal", "bindable"}

\* A slot is given values of its own, and takes its subjects by value or not.
ASSUME SlotsAssumption ==
    \A s \in Slots : s.values \in Seq(Values) /\ s.byValue \in BOOLEAN
ASSUME KindsAssumption == Kinds \subseteq AllKinds
ASSUME CountAssumption == /\ SubjectCount \in 1..9
                          /\ MaxSlots \in Nat /\ MaxEvents \in Nat
ASSUME ValuesAssumption == {MovedFrom, NoValue} \cap Values = {}

VARIABLES
    kind,       \* what the object is
    connected,  \* the slots connected, in order
    callbacks,  \* _callbacks: what each was bound to
    sent,       \* the event being emitted, or <<>>
    subjects,   \* what is left of it
    received,   \* what the slots called so far were called with
    events      \* how many events were emitted

signalVars == <<kind, connected, callbacks, sent, subjects, received, events>>

Arity == IF kind = "signal" THEN SubjectCount ELSE 1

SignalInit ==
    /\ kind \in Kinds
    /\ connected = <<>> /\ callbacks = <<>>
    /\ sent = <<>> /\ subjects = <<>> /\ received = <<>>
    /\ events = 0

\* Mutant: the placeholders come before the values.
BindSlotSwapped(s) == IF kind = "signal"
                      THEN BindTie(SubjectCount, Places \o BoundAll(s.values))
                      ELSE <<Place(1)>> \o BoundAll(s.values)

\* connect(), on() of a signal: as many arguments as there are subjects, those
\* of the slot's own among them.  add_callback(), on() of a bindable: these,
\* and the one subject.
BindSlot(s) == IF kind = "signal"
               THEN BindTie(SubjectCount, BoundAll(s.values) \o Places)
               ELSE Append(BoundAll(s.values), Place(1))

\* Slots do not connect others while they are called: the loop over the vector
\* does not allow it.
Connect(s) ==
    /\ sent = <<>> /\ Len(connected) < MaxSlots
    /\ connected' = Append(connected, s)
    /\ callbacks' = Append(callbacks, BindSlot(s))
    /\ UNCHANGED <<kind, sent, subjects, received, events>>

SignalEmit(e) ==
    /\ sent = <<>> /\ events < MaxEvents /\ Len(e) = Arity
    /\ sent' = e /\ subjects' = e /\ received' = <<>>
    /\ events' = events + 1
    /\ UNCHANGED <<kind, connected, callbacks>>

\* The subjects whose place a callback names.
Passed(cb) == {cb[i].place : i \in DOMAIN cb} \ {0}

\* The next callback is called.
CallSlot ==
    /\ sent # <<>> /\ Len(received) < Len(callbacks)
    /\ LET i  == Len(received) + 1
           cb == callbacks[i]
       IN  /\ received' = Append(received, BindCall(cb, subjects))
           /\ subjects' = IF kind = "signal" /\ connected[i].byValue
                          THEN [j \in DOMAIN subjects |->
                                  IF j \in Passed(cb) THEN MovedFrom ELSE subjects[j]]
                          ELSE subjects
    /\ UNCHANGED <<kind, connected, callbacks, sent, events>>

\* It throws: emit() is left, and the slots after it are not called.
SlotThrows ==
    /\ sent # <<>> /\ received # <<>>
    /\ sent' = <<>> /\ subjects' = <<>> /\ received' = <<>>
    /\ UNCHANGED <<kind, connected, callbacks, events>>

SignalEndEmit ==
    /\ sent # <<>> /\ Len(received) = Len(callbacks)
    /\ sent' = <<>> /\ subjects' = <<>> /\ received' = <<>>
    /\ UNCHANGED <<kind, connected, callbacks, events>>

SignalFinished == events = MaxEvents /\ sent = <<>> /\ UNCHANGED signalVars

Events == UNION {[1..n -> Values] : n \in {1, SubjectCount}}

SignalNext ==
    \/ \E s \in Slots : Connect(s)
    \/ \E e \in Events : SignalEmit(e)
    \/ CallSlot \/ SlotThrows \/ SignalEndEmit
    \/ SignalFinished

SignalSpec == SignalInit /\ [][SignalNext]_signalVars

-----------------------------------------------------------------------------
(* Properties.                                                              *)

\* The values of a slot, then the event: for a signal, no more than it has
\* subjects in all.
Expected(s) == LET all == s.values \o sent
               IN  IF kind = "signal" THEN SubSeq(all, 1, SubjectCount) ELSE all

\* A slot before the i-th that took its j-th argument by value: by then the
\* signal has moved the subject away.
Spoilt(i, j) ==
    /\ kind = "signal" /\ j > Len(connected[i].values)
    /\ \E h \in 1..(i - 1) :
         /\ connected[h].byValue
         /\ j - Len(connected[i].values) + Len(connected[h].values) <= SubjectCount

\* Every slot is called in the order of the connections, its own values first,
\* with the subjects that were sent, each one intact unless a slot before it
\* took that very subject by value.
SlotsGetTheEvent ==
    \A i \in DOMAIN received :
        /\ Len(received[i]) = Len(Expected(connected[i]))
        /\ \A j \in DOMAIN received[i] :
             received[i][j] = IF Spoilt(i, j) THEN MovedFrom
                                              ELSE Expected(connected[i])[j]

\* All the ways of giving the elements of a pack in one call or more, of one
\* argument at least each: k calls, and what the i-th of them ends with.
Cuts(k, l) == {cut \in [1..(k - 1) -> 1..(l - 1)] :
                  \A i \in 2..(k - 1) : cut[i - 1] < cut[i]}
CallEnd(i, k, l, cut) == IF i = 0 THEN 0 ELSE IF i = k THEN l ELSE cut[i]
Calls(pack, k, cut) == [i \in 1..k |->
    SubSeq(pack, CallEnd(i - 1, k, Len(pack), cut) + 1, CallEnd(i, k, Len(pack), cut))]
Splits(pack) == UNION {{Calls(pack, k, cut) : cut \in Cuts(k, Len(pack))} :
                       k \in 1..Len(pack)}

\* What a slot is called with is a pack of the run: values, subjects, both.
Packs == {received[i] : i \in DOMAIN received}
            \cup {connected[i].values \o sent : i \in DOMAIN connected}

\* The templates that cut packs, each in a recursion of its own, agree with the
\* subsequences they name.
CutsAgree(p) == LET l == Len(p) IN
    /\ BuildIndices(l) = Consecutive(0, l, 1)
    /\ \A n \in 0..l : LET head == SubSeq(p, 1, n) IN
         /\ head \in {Take(n, p)} \cap {HeadN(n, p)} \cap {HeadNImpl(n, p)}
                       \cap {FirstN(n, p)} \cap {FirstOf(n, p)} \cap {DropFromEnd(l - n, p)}
         /\ LastN(l - n, p) = SubSeq(p, n + 1, l)
         /\ \A m \in 0..n : Slice(m, n, p) = SubSeq(p, m + 1, n)
         /\ CompareVectorValues(head, p) <=> n = l
         /\ n < l => IsIn(p[n + 1], p)

\* What is bound early reaches the callable as if it were given in one call,
\* and a curry invokes it once.
BoundArrives(p) == LET l == Len(p) IN
    /\ \A n \in 0..l : LET head == SubSeq(p, 1, n)
                           tail == SubSeq(p, n + 1, l)
                       IN  /\ BindCall(EasyBind(l, head), tail) = p
                           /\ Partial(head, tail) = p
    /\ l > 0 => BindThis(Head(p), Tail(p)) = p
    /\ \A s \in Splits(p) : Curry({l}, s) = [held |-> <<>>, invoked |-> <<p>>]

\* The templates that cut packs agree with the subsequences they name, and what
\* easy_bind(), partial(), bind_this() or a curry binds early reaches the
\* callable as if it were given in one call, however it is spread over calls.
BindersAgree == \A p \in Packs : CutsAgree(p) /\ BoundArrives(p)
=============================================================================
