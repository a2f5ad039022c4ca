------------------------ MODULE ThreadPoolLiteProofs ------------------------
(***************************************************************************)
(* Proofs about ThreadPoolLite, for any finite set of workers and any sets *)
(* of clients and tasks.                                                   *)
(***************************************************************************)
EXTENDS ThreadPoolLite, SequenceTheorems, TLAPS

-----------------------------------------------------------------------------
(* The queue and its elements.                                              *)

\* The oldest element and what is left when it is taken away.
LEMMA HeadTail ==
    ASSUME NEW S, NEW s \in Seq(S), s # <<>>
    PROVE  /\ Head(s) \in S /\ Head(s) = s[1]
           /\ Tail(s) \in Seq(S)
           /\ Len(Tail(s)) = Len(s) - 1
           /\ \A i \in 1..(Len(s) - 1) : Tail(s)[i] = s[i + 1]
           /\ Len(s) \in Nat \ {0}
BY HeadTailProperties, EmptySeq, LenProperties, ElementOfSeq

\* The elements of a sequence with one more at its end.
LEMMA RangeOfAppend ==
    ASSUME NEW S, NEW s \in Seq(S), NEW e \in S
    PROVE  Range(Append(s, e)) = Range(s) \cup {e}
<1>1. DOMAIN s = 1..Len(s) /\ Len(s) \in Nat
  BY LenProperties
<1>2. DOMAIN Append(s, e) = 1..(Len(s) + 1)
  BY AppendProperties, LenProperties
<1>3. /\ \A i \in 1..Len(s) : Append(s, e)[i] = s[i]
      /\ Append(s, e)[Len(s) + 1] = e
  BY AppendProperties
<1> QED
  BY <1>1, <1>2, <1>3 DEF Range

\* A sequence without repetitions loses exactly its first element.
LEMMA RangeOfTail ==
    ASSUME NEW S, NEW s \in Seq(S), s # <<>>,
           \A i, j \in 1..Len(s) : s[i] = s[j] => i = j
    PROVE  /\ Head(s) \in Range(s)
           /\ Range(Tail(s)) = Range(s) \ {Head(s)}
           /\ \A i, j \in 1..Len(Tail(s)) : Tail(s)[i] = Tail(s)[j] => i = j
<1>1. DOMAIN s = 1..Len(s) /\ Len(s) \in Nat \ {0} /\ Head(s) = s[1]
  BY LenProperties, HeadTail
<1>2. /\ DOMAIN Tail(s) = 1..(Len(s) - 1)
      /\ Len(Tail(s)) = Len(s) - 1
      /\ \A i \in 1..(Len(s) - 1) : Tail(s)[i] = s[i + 1]
  BY HeadTail, LenProperties
<1>3. Range(s) = {s[i] : i \in 1..Len(s)}
  BY <1>1 DEF Range
<1>4. Range(Tail(s)) = {Tail(s)[i] : i \in 1..(Len(s) - 1)}
  BY <1>2 DEF Range
<1>5. ASSUME NEW x \in Range(Tail(s)) PROVE x \in Range(s) \ {Head(s)}
  <2>1. PICK i \in 1..(Len(s) - 1) : x = Tail(s)[i]
    BY <1>4
  <2>2. i + 1 \in 1..Len(s) /\ i + 1 # 1 /\ x = s[i + 1] /\ 1 \in 1..Len(s)
    BY <2>1, <1>1, <1>2
  <2> QED BY <2>2, <1>1, <1>3
<1>6. ASSUME NEW x \in Range(s) \ {Head(s)} PROVE x \in Range(Tail(s))
  <2>1. PICK i \in 1..Len(s) : x = s[i]
    BY <1>3
  <2>2. i # 1
    BY <2>1, <1>1
  <2>3. i - 1 \in 1..(Len(s) - 1) /\ (i - 1) + 1 = i
    BY <2>2, <1>1
  <2>4. x = Tail(s)[i - 1]
    BY <2>1, <2>3, <1>2
  <2> QED BY <2>3, <2>4, <1>4
<1>7. Head(s) \in Range(s)
  BY <1>1, <1>3
<1>8. \A i, j \in 1..Len(Tail(s)) : Tail(s)[i] = Tail(s)[j] => i = j
  BY <1>1, <1>2
<1> QED
  BY <1>5, <1>6, <1>7, <1>8

LEMMA RangeOfEmpty == Range(<<>>) = {}
BY DEF Range

-----------------------------------------------------------------------------
\* Every reachable state is well typed, and a sleeping worker is in
\* condition.wait().
THEOREM TypeCorrect == Spec => []TypeOK
<1>1. Init => TypeOK
  <2>1. <<>> \in Seq(Tasks)
    BY EmptySeq
  <2> QED BY <2>1 DEF Init, TypeOK
<1>2. TypeOK /\ [Next]_vars => TypeOK'
  <2> SUFFICES ASSUME TypeOK, [Next]_vars PROVE TypeOK'
    OBVIOUS
  <2> USE DEF TypeOK, queueVars
  <2>1. ASSUME NEW w \in Workers, StartThread(w) \/ SpuriousWake(w)
        PROVE  TypeOK'
    BY <2>1 DEF StartThread, SpuriousWake
  <2>2. CASE Constructed \/ Clear \/ ClearNotifyAll \/ Join
    BY <2>2 DEF Constructed, Clear, ClearNotifyAll, Join
  <2>3. ASSUME NEW w \in Workers, WorkerStep(w) PROVE TypeOK'
    <3>1. CASE WaitBlock(w) \/ Return(w)
      BY <3>1 DEF WaitBlock, Return
    <3>2. CASE Take(w)
      BY <3>2, HeadTail DEF Take
    <3>3. CASE Finish(w)
      BY <3>3 DEF Finish
    <3>4. CASE NestedNotify(w)
      BY <3>4 DEF NestedNotify, NotifyOne
    <3>5. ASSUME NEW t \in Tasks, NestedEnqueue(w, t) PROVE TypeOK'
      BY <3>5, AppendProperties DEF NestedEnqueue, Emplace
    <3> QED
      BY <2>3, <3>1, <3>2, <3>3, <3>4, <3>5 DEF WorkerStep
  <2>4. ASSUME NEW c \in Clients, ClientNotify(c) PROVE TypeOK'
    BY <2>4 DEF ClientNotify, NotifyOne
  <2>5. ASSUME NEW c \in Clients, NEW t \in Tasks, Enqueue(c, t) PROVE TypeOK'
    BY <2>5, AppendProperties DEF Enqueue, Emplace
  <2>6. CASE UNCHANGED vars
    BY <2>6 DEF vars
  <2> QED
    BY <2>1, <2>2, <2>3, <2>4, <2>5, <2>6 DEF Next, OwnerStep, Terminated
<1> QED
  BY <1>1, <1>2, PTL DEF Spec

-----------------------------------------------------------------------------
(* Tasks.                                                                   *)

InHand(w) == wpc[w] \in {"running", "nestedNotify"}

\* A task with a pending future is in the queue once or in the hands of one
\* worker, and no other task is.
Conservation ==
    /\ \A t \in Tasks : future[t] = "pending" <=>
          t \in Range(tasks) \/ \E w \in Workers : InHand(w) /\ held[w] = t
    /\ \A i, j \in 1..Len(tasks) : tasks[i] = tasks[j] => i = j
    /\ \A w \in Workers : InHand(w) =>
          /\ held[w] \in Tasks \ Range(tasks)
          /\ \A v \in Workers \ {w} : InHand(v) => held[v] # held[w]

LEMMA EmplaceLemma ==
    ASSUME TypeOK, Conservation, NEW t \in Tasks, Emplace(t)
    PROVE  /\ Range(tasks') = Range(tasks) \cup {t}
           /\ t \notin Range(tasks)
           /\ \A i, j \in 1..Len(tasks') : tasks'[i] = tasks'[j] => i = j
<1>1. Range(tasks') = Range(tasks) \cup {t}
  BY RangeOfAppend DEF Emplace, TypeOK
<1>2. t \notin Range(tasks)
  BY DEF Emplace, Conservation
<1>3. \A i, j \in 1..Len(tasks') : tasks'[i] = tasks'[j] => i = j
  BY <1>2, AppendProperties, LenProperties DEF Emplace, TypeOK, Conservation, Range
<1> QED
  BY <1>1, <1>2, <1>3

LEMMA TakeLemma ==
    ASSUME TypeOK, Conservation, NEW w \in Workers, Take(w)
    PROVE  /\ Head(tasks) \in Range(tasks) /\ Head(tasks) \in Tasks
           /\ Range(tasks') = Range(tasks) \ {Head(tasks)}
           /\ \A i, j \in 1..Len(tasks') : tasks'[i] = tasks'[j] => i = j
<1>1. /\ tasks \in Seq(Tasks) /\ tasks # <<>> /\ tasks' = Tail(tasks)
      /\ \A i, j \in 1..Len(tasks) : tasks[i] = tasks[j] => i = j
  BY DEF Take, TypeOK, Conservation
<1> HIDE DEF Range
<1> QED
  BY <1>1, RangeOfTail, HeadTail

LEMMA QueueConserves ==
    ASSUME TypeOK, Conservation, NEW t \in Tasks, Emplace(t), held' = held,
           \A v \in Workers : InHand(v)' <=> InHand(v)
    PROVE  Conservation'
<1>1. /\ Range(tasks') = Range(tasks) \cup {t} /\ t \notin Range(tasks)
      /\ \A i, j \in 1..Len(tasks') : tasks'[i] = tasks'[j] => i = j
  BY EmplaceLemma
<1>2. /\ future[t] # "pending" /\ future'[t] = "pending"
      /\ \A u \in Tasks \ {t} : future'[u] = future[u]
  BY DEF Emplace, TypeOK
<1>3. \A v \in Workers : InHand(v) => held[v] # t
  BY <1>2 DEF Conservation
<1>4. \A u \in Tasks : future'[u] = "pending" <=>
         \/ u \in Range(tasks')
         \/ \E v \in Workers : InHand(v)' /\ held'[v] = u
  BY <1>1, <1>2 DEF Conservation
<1>5. \A v \in Workers : InHand(v)' =>
         /\ held'[v] \in Tasks \ Range(tasks')
         /\ \A u \in Workers \ {v} : InHand(u)' => held'[u] # held'[v]
  BY <1>1, <1>3 DEF Conservation
<1> QED
  BY <1>1, <1>4, <1>5 DEF Conservation

\* For any number of workers, clients and tasks, no task is lost or doubled
\* between enqueue(), the queue and the workers.
THEOREM TasksConserved == Spec => []Conservation
<1>1. Init => Conservation
  BY RangeOfEmpty DEF Init, Conservation, InHand
<1>2. TypeOK /\ Conservation /\ [Next]_vars => Conservation'
  <2> SUFFICES ASSUME TypeOK, Conservation, [Next]_vars PROVE Conservation'
    OBVIOUS
  <2> USE DEF queueVars, Conservation, InHand
  <2>1. ASSUME NEW w \in Workers, StartThread(w) \/ SpuriousWake(w)
        PROVE  Conservation'
    BY <2>1 DEF StartThread, SpuriousWake, TypeOK
  <2>2. CASE Constructed \/ Clear \/ ClearNotifyAll \/ Join
    BY <2>2 DEF Constructed, Clear, ClearNotifyAll, Join
  <2>3. ASSUME NEW w \in Workers, WorkerStep(w) PROVE Conservation'
    <3>1. CASE WaitBlock(w) \/ Return(w)
      BY <3>1 DEF WaitBlock, Return, TypeOK
    <3>2. CASE Take(w)
      <4>1. /\ Head(tasks) \in Range(tasks) /\ Head(tasks) \in Tasks
            /\ Range(tasks') = Range(tasks) \ {Head(tasks)}
            /\ \A i, j \in 1..Len(tasks') : tasks'[i] = tasks'[j] => i = j
        BY <3>2, TakeLemma
      <4>2. /\ future' = future /\ future[Head(tasks)] = "pending"
            /\ wpc' = [wpc EXCEPT ![w] = "running"]
            /\ held' = [held EXCEPT ![w] = Head(tasks)]
            /\ wpc[w] = "wait"
        BY <3>2, <4>1 DEF Take
      <4>3. /\ \A v \in Workers : InHand(v)' <=> v = w \/ InHand(v)
            /\ held'[w] = Head(tasks) /\ ~InHand(w)
            /\ \A v \in Workers \ {w} : held'[v] = held[v]
        BY <4>2 DEF TypeOK
      <4> HIDE DEF InHand
      <4>4. \A t \in Tasks : future'[t] = "pending" <=>
               \/ t \in Range(tasks')
               \/ \E v \in Workers : InHand(v)' /\ held'[v] = t
        <5> SUFFICES ASSUME NEW t \in Tasks
                     PROVE  future'[t] = "pending" <=>
                              \/ t \in Range(tasks')
                              \/ \E v \in Workers : InHand(v)' /\ held'[v] = t
          OBVIOUS
        <5>1. CASE t = Head(tasks)
          BY <5>1, <4>2, <4>3
        <5>2. CASE t # Head(tasks)
          BY <5>2, <4>1, <4>2, <4>3
        <5> QED BY <5>1, <5>2
      <4>5. \A v \in Workers : InHand(v)' =>
               /\ held'[v] \in Tasks \ Range(tasks')
               /\ \A u \in Workers \ {v} : InHand(u)' => held'[u] # held'[v]
        BY <4>1, <4>3
      <4> QED BY <4>1, <4>4, <4>5
    <3>3. CASE Finish(w)
      BY <3>3 DEF Finish, TypeOK
    <3>4. CASE NestedNotify(w)
      BY <3>4 DEF NestedNotify, TypeOK
    <3>5. ASSUME NEW t \in Tasks, NestedEnqueue(w, t) PROVE Conservation'
      <4>1. /\ Emplace(t) /\ held' = held
            /\ \A v \in Workers : InHand(v)' <=> InHand(v)
        BY <3>5 DEF NestedEnqueue, TypeOK
      <4> QED BY <4>1, QueueConserves
    <3> QED
      BY <2>3, <3>1, <3>2, <3>3, <3>4, <3>5 DEF WorkerStep
  <2>4. ASSUME NEW c \in Clients, ClientNotify(c) PROVE Conservation'
    BY <2>4 DEF ClientNotify
  <2>5. ASSUME NEW c \in Clients, NEW t \in Tasks, Enqueue(c, t)
        PROVE  Conservation'
    <3>1. /\ Emplace(t) /\ held' = held
          /\ \A v \in Workers : InHand(v)' <=> InHand(v)
      BY <2>5 DEF Enqueue
    <3> QED BY <3>1, QueueConserves
  <2>6. CASE UNCHANGED vars
    BY <2>6 DEF vars
  <2> QED
    BY <2>1, <2>2, <2>3, <2>4, <2>5, <2>6 DEF Next, OwnerStep, Terminated
<1> QED
  BY <1>1, <1>2, TypeCorrect, PTL DEF Spec

-----------------------------------------------------------------------------
(* The destructor.                                                          *)

\* A worker that has returned has seen the pool stopped and the queue empty,
\* and after that nothing can be queued any more.
ReturnInv == /\ \A w \in Workers : wpc[w] = "returned" => stop /\ tasks = <<>>
             /\ opc = "destroyed" => \A w \in Workers : wpc[w] = "returned"

LEMMA ReturnedForGood == Spec => []ReturnInv
<1>1. Init => ReturnInv
  BY DEF Init, ReturnInv
<1>2. TypeOK /\ ReturnInv /\ [Next]_vars => ReturnInv'
  <2> SUFFICES ASSUME TypeOK, ReturnInv, [Next]_vars PROVE ReturnInv'
    OBVIOUS
  <2> USE DEF queueVars, ReturnInv
  <2>1. ASSUME NEW w \in Workers, StartThread(w) \/ SpuriousWake(w)
        PROVE  ReturnInv'
    BY <2>1 DEF StartThread, SpuriousWake, TypeOK
  <2>2. CASE Constructed \/ Clear \/ ClearNotifyAll \/ Join
    BY <2>2 DEF Constructed, Clear, ClearNotifyAll, Join
  <2>3. ASSUME NEW w \in Workers, WorkerStep(w) PROVE ReturnInv'
    <3>1. CASE WaitBlock(w) \/ Return(w)
      BY <3>1 DEF WaitBlock, Return, TypeOK
    <3>2. CASE Take(w)
      BY <3>2 DEF Take, TypeOK
    <3>3. CASE Finish(w) \/ NestedNotify(w)
      BY <3>3 DEF Finish, NestedNotify, TypeOK
    <3>4. ASSUME NEW t \in Tasks, NestedEnqueue(w, t) PROVE ReturnInv'
      BY <3>4 DEF NestedEnqueue, Emplace, TypeOK
    <3> QED
      BY <2>3, <3>1, <3>2, <3>3, <3>4 DEF WorkerStep
  <2>4. ASSUME NEW c \in Clients, ClientNotify(c) PROVE ReturnInv'
    BY <2>4 DEF ClientNotify
  <2>5. ASSUME NEW c \in Clients, NEW t \in Tasks, Enqueue(c, t)
        PROVE  ReturnInv'
    BY <2>5 DEF Enqueue, Emplace
  <2>6. CASE UNCHANGED vars
    BY <2>6 DEF vars
  <2> QED
    BY <2>1, <2>2, <2>3, <2>4, <2>5, <2>6 DEF Next, OwnerStep, Terminated
<1> QED
  BY <1>1, <1>2, TypeCorrect, PTL DEF Spec

\* When the destructor of a thread_pool_lite returns, every task it ever took
\* in has run: for any number of workers, clients and tasks.
THEOREM NothingLeftUndone == Spec => []Drained
<1>1. TypeOK /\ Conservation /\ ReturnInv => Drained
  <2> SUFFICES ASSUME TypeOK, Conservation, ReturnInv, opc = "destroyed"
               PROVE  tasks = <<>> /\ \A t \in Tasks : future[t] # "pending"
    BY DEF Drained
  <2>1. tasks = <<>>
    BY WorkersAssumption DEF ReturnInv
  <2>2. \A w \in Workers : ~InHand(w)
    BY DEF ReturnInv, InHand
  <2> QED
    BY <2>1, <2>2, RangeOfEmpty DEF Conservation
<1> QED
  BY <1>1, TypeCorrect, TasksConserved, ReturnedForGood, PTL

-----------------------------------------------------------------------------
(* The pool implements TaskPool, with Drains TRUE.                          *)

Status == [t \in Tasks |-> StatusOf(t)]

LEMMA Stutter ==
    ASSUME future' = future, tasks' = tasks, stop' = stop
    PROVE  UNCHANGED Promise!vars
BY DEF Promise!vars, StatusOf

LEMMA QueueStep ==
    ASSUME TypeOK, NEW t \in Tasks, Emplace(t)
    PROVE  Promise!Queue(t)
<1>1. Range(tasks') = Range(tasks) \cup {t}
  BY RangeOfAppend DEF Emplace, TypeOK
<1>2. /\ future[t] # "pending" /\ future' = [future EXCEPT ![t] = "pending"]
      /\ ~stop /\ stop' = stop
  BY DEF Emplace
<1>3. Status[t] \in {"fresh", "done", "dropped"}
  BY <1>2 DEF Status, StatusOf, TypeOK
<1>4. Status' = [Status EXCEPT ![t] = "queued"]
  BY <1>1, <1>2 DEF Status, StatusOf, TypeOK
<1> QED
  BY <1>2, <1>3, <1>4 DEF Promise!Queue, Promise!Move, Status

LEMMA StartStep ==
    ASSUME TypeOK, Conservation, NEW w \in Workers, Take(w)
    PROVE  \E t \in Tasks : Promise!Start(t)
<1> DEFINE t == Head(tasks)
<1>1. /\ t \in Range(tasks) /\ t \in Tasks
      /\ Range(tasks') = Range(tasks) \ {t}
  BY TakeLemma
<1>2. future[t] = "pending" /\ future' = future /\ stop' = stop
  BY <1>1 DEF Take, Conservation
<1>3. Status[t] = "queued"
  BY <1>1, <1>2 DEF Status, StatusOf
<1>4. Status' = [Status EXCEPT ![t] = "running"]
  BY <1>1, <1>2 DEF Status, StatusOf
<1>5. Promise!Start(t)
  BY <1>2, <1>3, <1>4 DEF Promise!Start, Promise!Move, Status
<1> QED
  BY <1>1, <1>5

LEMMA FinishStep ==
    ASSUME TypeOK, Conservation, NEW w \in Workers, Finish(w)
    PROVE  \E t \in Tasks : Promise!Finish(t)
<1> DEFINE t == held[w]
<1>1. t \in Tasks \ Range(tasks) /\ future[t] = "pending"
  BY DEF Finish, Conservation, InHand
<1>2. /\ future' = [future EXCEPT ![t] = "ready"]
      /\ tasks' = tasks /\ stop' = stop
  BY DEF Finish
<1>3. Status[t] = "running"
  BY <1>1 DEF Status, StatusOf
<1>4. Status' = [Status EXCEPT ![t] = "done"]
  BY <1>1, <1>2 DEF Status, StatusOf, TypeOK
<1>5. Promise!Finish(t)
  BY <1>2, <1>3, <1>4 DEF Promise!Finish, Promise!Move, Status
<1> QED
  BY <1>1, <1>5

\* thread_pool_lite implements TaskPool with Drains TRUE: no task starts
\* twice, none is dropped, and none is taken in once the pool is stopped.
THEOREM Implements == Spec => KeepsPromise
<1>1. Init => Promise!Init
  BY DEF Init, Promise!Init, StatusOf
<1>2. TypeOK /\ Conservation /\ [Next]_vars => [Promise!Next]_(Promise!vars)
  <2> SUFFICES ASSUME TypeOK, Conservation, [Next]_vars
               PROVE  Promise!Next \/ UNCHANGED Promise!vars
    OBVIOUS
  <2> USE DEF queueVars
  <2>1. ASSUME NEW w \in Workers, StartThread(w) \/ SpuriousWake(w)
        PROVE  UNCHANGED Promise!vars
    BY <2>1, Stutter DEF StartThread, SpuriousWake
  <2>2. CASE Constructed \/ ClearNotifyAll \/ Join \/ UNCHANGED vars
    BY <2>2, Stutter DEF Constructed, ClearNotifyAll, Join, vars
  <2>3. CASE Clear
    <3>1. Status' = Status /\ stop' = TRUE
      BY <2>3 DEF Clear, Status, StatusOf
    <3>2. Promise!Close
      BY <3>1 DEF Promise!Close, Status
    <3> QED BY <3>2 DEF Promise!Next
  <2>4. ASSUME NEW w \in Workers, WorkerStep(w)
        PROVE  Promise!Next \/ UNCHANGED Promise!vars
    <3>1. CASE Take(w)
      BY <3>1, StartStep DEF Promise!Next
    <3>2. CASE Finish(w)
      BY <3>2, FinishStep DEF Promise!Next
    <3>3. ASSUME NEW t \in Tasks, NestedEnqueue(w, t) PROVE Promise!Next
      BY <3>3, QueueStep DEF NestedEnqueue, Promise!Next
    <3>4. CASE WaitBlock(w) \/ Return(w) \/ NestedNotify(w)
      BY <3>4, Stutter DEF WaitBlock, Return, NestedNotify
    <3> QED
      BY <2>4, <3>1, <3>2, <3>3, <3>4 DEF WorkerStep
  <2>5. ASSUME NEW c \in Clients, ClientNotify(c)
        PROVE  UNCHANGED Promise!vars
    BY <2>5, Stutter DEF ClientNotify
  <2>6. ASSUME NEW c \in Clients, NEW t \in Tasks, Enqueue(c, t)
        PROVE  Promise!Next
    BY <2>6, QueueStep DEF Enqueue, Promise!Next
  <2> QED
    BY <2>1, <2>2, <2>3, <2>4, <2>5, <2>6 DEF Next, OwnerStep, Terminated
<1> QED
  BY <1>1, <1>2, TypeCorrect, TasksConserved, PTL
     DEF Spec, KeepsPromise, Promise!Spec
=============================================================================
