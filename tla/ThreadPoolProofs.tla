-------------------------- MODULE ThreadPoolProofs --------------------------
(***************************************************************************)
(* Proofs about ThreadPool, for any finite set of workers and clients and  *)
(* any set of tasks.                                                       *)
(***************************************************************************)
EXTENDS ThreadPool, SequenceTheorems, FiniteSetTheorems, TLAPS

-----------------------------------------------------------------------------
(* The queue and its elements.                                              *)

\* The newest element and what is left when it is taken away.
LEMMA LastFront ==
    ASSUME NEW S, NEW s \in Seq(S), s # <<>>
    PROVE  /\ Last(s) \in S
           /\ Front(s) \in Seq(S)
           /\ Len(Front(s)) = Len(s) - 1
           /\ \A i \in 1..(Len(s) - 1) : Front(s)[i] = s[i]
           /\ Len(s) \in Nat \ {0}
<1>1. Len(s) \in Nat \ {0} /\ DOMAIN s = 1..Len(s)
  BY EmptySeq, LenProperties
<1>2. Len(s) - 1 \in Nat /\ Len(s) - 1 <= Len(s)
  BY <1>1
<1>3. Last(s) \in S
  BY <1>1, ElementOfSeq DEF Last
<1>4. /\ Front(s) \in Seq(S)
      /\ Len(Front(s)) = Len(s) - 1
      /\ \A i \in 1..(Len(s) - 1) : Front(s)[i] = s[i]
  BY <1>1, <1>2, SubSeqProperties DEF Front
<1> QED
  BY <1>1, <1>3, <1>4

\* The elements of a sequence with one more at its end.
LEMMA RangeOfAppend ==
    ASSUME NEW S, NEW s \in Seq(S), NEW e \in S
    PROVE  Range(Append(s, e)) = Range(s) \cup {e}
<1>1. DOMAIN s = 1..Len(s) /\ Len(s) \in Nat
  BY LenProperties
<1>2. DOMAIN Append(s, e) = 1..(Len(s) + 1)
  BY AppendProperties, LenProperties
<1>3. /\ \A i \in 1..Len(s) : Append(s, e)[i] = s[i]
      /\ Append(s, e)[Len(s) + 1] = e
  BY AppendProperties
<1> QED
  BY <1>1, <1>2, <1>3 DEF Range

\* A sequence without repetitions loses exactly its last element.
LEMMA RangeOfFront ==
    ASSUME NEW S, NEW s \in Seq(S), s # <<>>,
           \A i, j \in 1..Len(s) : s[i] = s[j] => i = j
    PROVE  /\ Last(s) \in Range(s)
           /\ Range(Front(s)) = Range(s) \ {Last(s)}
           /\ \A i, j \in 1..Len(Front(s)) : Front(s)[i] = Front(s)[j] => i = j
<1>1. DOMAIN s = 1..Len(s) /\ Len(s) \in Nat \ {0}
  BY LenProperties, LastFront
<1>2. /\ DOMAIN Front(s) = 1..(Len(s) - 1)
      /\ Len(Front(s)) = Len(s) - 1
      /\ \A i \in 1..(Len(s) - 1) : Front(s)[i] = s[i]
  BY LastFront, LenProperties
<1> QED
  BY <1>1, <1>2 DEF Range, Last

LEMMA RangeOfEmpty == Range(<<>>) = {}
BY DEF Range

-----------------------------------------------------------------------------
(* What the operations on the condition variables and the queue return.     *)

LEMMA NotifyOneType ==
    ASSUME NEW c \in CWType({Owner}), NEW d \in NotifyOne(c)
    PROVE  /\ d \in CWType({Owner})
           /\ d.var = c.var
<1>1. CASE c.asleep = {}
  BY <1>1 DEF NotifyOne
<1>2. CASE c.asleep # {}
  <2>1. PICK o \in c.asleep : d = Unblock(c, o)
    BY <1>2 DEF NotifyOne
  <2>2. d = [var |-> c.var, asleep |-> c.asleep \ {o}]
    BY <2>1 DEF Unblock, CWType
  <2> QED
    BY <2>2 DEF CWType
<1> QED
  BY <1>1, <1>2

LEMMA CondWaitType ==
    ASSUME NEW c \in CWType({Owner})
    PROVE  /\ SetInt(c) \in CWType({Owner}) /\ SetInt(c).var = c.var + 1
           /\ Block(c, Owner) \in CWType({Owner}) /\ Block(c, Owner).var = c.var
           /\ Unblock(c, Owner) \in CWType({Owner})
           /\ Unblock(c, Owner).var = c.var
BY DEF SetInt, Block, Unblock, CWType

-----------------------------------------------------------------------------
(* Type correctness.                                                        *)

\* Every reachable state is well typed, and a sleeping worker is in
\* pop_front(): the first part of every invariant below.
THEOREM TypeCorrect == Spec => []TypeOK
<1>1. Init => TypeOK
  <2>1. <<>> \in Seq(Tasks) /\ NewCW \in CWType({Owner})
    BY EmptySeq DEF NewCW, CWType
  <2> SUFFICES ASSUME Init PROVE TypeOK
    OBVIOUS
  <2>2. /\ wpc \in [Workers -> WorkerPCs]
        /\ held \in [Workers -> Tasks \cup {NoTask}]
        /\ cpc \in [Clients -> {"idle", "notify"}]
        /\ future \in [Tasks -> Futures]
    BY DEF Init, WorkerPCs, Futures
  <2>3. data \in Seq(Tasks) /\ started \in CWType({Owner}) /\ ended \in CWType({Owner})
    BY <2>1 DEF Init
  <2>4. dying \in BOOLEAN /\ abort \in BOOLEAN
    BY Zenon DEF Init
  <2>5. /\ opc \in OwnerPCs
        /\ active \in Int
        /\ idle \in SUBSET Workers
        /\ \A w \in idle : wpc[w] = "pop"
    BY DEF Init, OwnerPCs
  <2> QED
    BY <2>2, <2>3, <2>4, <2>5 DEF TypeOK
<1>2. TypeOK /\ [Next]_vars => TypeOK'
  <2> SUFFICES ASSUME TypeOK, [Next]_vars PROVE TypeOK'
    OBVIOUS
  <2> USE DEF TypeOK, OwnerPCs, WorkerPCs, Futures, queueVars
  <2>1. ASSUME NEW w \in Workers, LaunchThread(w) PROVE TypeOK'
    BY <2>1 DEF LaunchThread
  <2>2. CASE AllLaunched
    BY <2>2 DEF AllLaunched
  <2>3. CASE AwaitStarted
    BY <2>3, CondWaitType DEF AwaitStarted
  <2>4. ASSUME NEW w \in Workers, WorkerStep(w) PROVE TypeOK'
    <3>1. CASE SignalStarted(w)
      BY <3>1, CondWaitType DEF SignalStarted
    <3>2. CASE NotifyStarted(w)
      BY <3>2, NotifyOneType DEF NotifyStarted
    <3>3. CASE PopBlock(w)
      BY <3>3 DEF PopBlock
    <3>4. CASE PopAbort(w)
      BY <3>4 DEF PopAbort
    <3>5. CASE PopTake(w)
      BY <3>5, LastFront DEF PopTake
    <3>6. CASE BeginTask(w)
      BY <3>6 DEF BeginTask
    <3>7. CASE FinishTask(w)
      BY <3>7 DEF FinishTask
    <3>8. CASE EndTask(w)
      BY <3>8 DEF EndTask
    <3>9. CASE SignalEnded(w)
      BY <3>9, CondWaitType DEF SignalEnded
    <3>10. CASE NotifyEnded(w)
      BY <3>10, NotifyOneType DEF NotifyEnded
    <3>11. CASE NestedNotify(w)
      BY <3>11 DEF NestedNotify, NotifyWorker
    <3>12. ASSUME NEW t \in Tasks, NestedSubmit(w, t) PROVE TypeOK'
      BY <3>12, AppendProperties DEF NestedSubmit, EmplaceBack
    <3> QED
      BY <2>4, <3>1, <3>2, <3>3, <3>4, <3>5, <3>6, <3>7, <3>8, <3>9, <3>10,
         <3>11, <3>12 DEF WorkerStep
  <2>5. ASSUME NEW w \in Workers, WakeWorker(w) PROVE TypeOK'
    BY <2>5 DEF WakeWorker
  <2>6. ASSUME NEW c \in Clients, ClientNotify(c) PROVE TypeOK'
    BY <2>6 DEF ClientNotify, NotifyWorker
  <2>7. ASSUME NEW c \in Clients, NEW t \in Tasks, Submit(c, t) PROVE TypeOK'
    BY <2>7, AppendProperties DEF Submit, EmplaceBack
  <2>8. ASSUME NEW destroy \in BOOLEAN, ClearTasks(destroy) PROVE TypeOK'
    BY <2>8, EmptySeq DEF ClearTasks, BreakQueued
  <2>9. CASE NotifyAllWorkers
    BY <2>9 DEF NotifyAllWorkers
  <2>10. CASE AwaitEnded
    BY <2>10, CondWaitType DEF AwaitEnded
  <2>11. CASE JoinThreads
    BY <2>11 DEF JoinThreads
  <2>12. CASE FreeMembers
    BY <2>12, EmptySeq DEF FreeMembers, BreakQueued
  <2>13. CASE WakeOwner
    BY <2>13, CondWaitType DEF WakeOwner
  <2>14. CASE UNCHANGED vars
    BY <2>14 DEF vars
  <2> QED
    BY <2>1, <2>2, <2>3, <2>4, <2>5, <2>6, <2>7, <2>8, <2>9, <2>10, <2>11,
       <2>12, <2>13, <2>14 DEF Next, Construct, ClearThreads, Terminated
<1> QED
  BY <1>1, <1>2, PTL DEF Spec

-----------------------------------------------------------------------------
(* Closing and joining.                                                     *)

\* From the moment the destructor clears the queue no client is inside a
\* call, and the members are destroyed only by an owner who has joined.
CloseInv == /\ dying => abort /\ \A c \in Clients : cpc[c] = "idle"
            /\ opc \in {"freeing", "destroyed"} =>
                  dying /\ \A w \in Workers : wpc[w] = "exited"

\* CloseInv is inductive on top of the types.
THEOREM ClosedProperly == Spec => []CloseInv
<1>1. Init => CloseInv
  BY DEF Init, CloseInv
<1>2. TypeOK /\ CloseInv /\ [Next]_vars => CloseInv'
  <2> SUFFICES ASSUME TypeOK, CloseInv, [Next]_vars PROVE CloseInv'
    OBVIOUS
  <2> USE DEF TypeOK, CloseInv, queueVars
  <2>1. ASSUME NEW w \in Workers, LaunchThread(w) PROVE CloseInv'
    BY <2>1 DEF LaunchThread
  <2>2. CASE AllLaunched \/ AwaitStarted
    BY <2>2 DEF AllLaunched, AwaitStarted
  <2>3. ASSUME NEW w \in Workers, WorkerStep(w) PROVE CloseInv'
    \* A worker that takes a step has not exited.
    <3>1. wpc[w] # "exited" /\ UNCHANGED <<opc, dying, cpc, abort>>
      BY <2>3 DEF WorkerStep, SignalStarted, NotifyStarted, PopBlock, PopAbort,
         PopTake, BeginTask, FinishTask, EndTask, SignalEnded, NotifyEnded,
         NestedNotify, NestedSubmit, EmplaceBack
    <3> QED BY <3>1
  <2>4. ASSUME NEW w \in Workers, WakeWorker(w) PROVE CloseInv'
    BY <2>4 DEF WakeWorker
  <2>5. ASSUME NEW c \in Clients, ClientNotify(c) PROVE CloseInv'
    BY <2>5 DEF ClientNotify
  <2>6. ASSUME NEW c \in Clients, NEW t \in Tasks, Submit(c, t) PROVE CloseInv'
    BY <2>6 DEF Submit, EmplaceBack
  <2>7. ASSUME NEW destroy \in BOOLEAN, ClearTasks(destroy) PROVE CloseInv'
    BY <2>7 DEF ClearTasks
  <2>8. CASE NotifyAllWorkers \/ AwaitEnded
    BY <2>8 DEF NotifyAllWorkers, AwaitEnded
  <2>9. CASE JoinThreads
    BY <2>9 DEF JoinThreads
  <2>10. CASE FreeMembers
    BY <2>10 DEF FreeMembers
  <2>11. CASE WakeOwner
    BY <2>11 DEF WakeOwner
  <2>12. CASE UNCHANGED vars
    BY <2>12 DEF vars
  <2> QED
    BY <2>1, <2>2, <2>3, <2>4, <2>5, <2>6, <2>7, <2>8, <2>9, <2>10, <2>11,
       <2>12 DEF Next, Construct, ClearThreads, Terminated
<1> QED
  BY <1>1, <1>2, TypeCorrect, PTL DEF Spec

\* For any number of workers and clients: ~thread_pool() has joined every
\* worker before the first member is destroyed, and no client is inside a
\* call, so nothing touches a destroyed member.
THEOREM NothingTouchesDestroyedPool == Spec => []NoThreadOutlivesPool
<1>1. CloseInv => NoThreadOutlivesPool
  BY DEF CloseInv, NoThreadOutlivesPool
<1> QED
  BY <1>1, ClosedProperly, PTL

-----------------------------------------------------------------------------
(* Wakeups.                                                                 *)

LEMMA ThreadsFinite ==
    ASSUME NEW S \in SUBSET (Workers \cup Clients)
    PROVE  IsFiniteSet(S) /\ Cardinality(S) \in Nat
<1>1. IsFiniteSet(Workers \cup Clients)
  BY FS_Union, WorkersAssumption, ClientsAssumption
<1> QED
  BY <1>1, FS_Subset, FS_CardinalityType

LEMMA ComingFinite ==
    /\ IsFiniteSet(Coming) /\ Cardinality(Coming) \in Nat
    /\ IsFiniteSet(Coming') /\ Cardinality(Coming') \in Nat
<1>1. Coming \subseteq Workers \cup Clients /\ Coming' \subseteq Workers \cup Clients
  BY DEF Coming
<1> QED
  BY <1>1, ThreadsFinite

\* Steps that queue nothing and send nobody away keep the balance.
LEMMA NobodyLeaves ==
    ASSUME TypeOK, NoLostWakeup, Coming \subseteq Coming',
           Len(data') = Len(data), abort' = abort, idle' # {} => idle # {}
    PROVE  NoLostWakeup'
<1>1. Cardinality(Coming) <= Cardinality(Coming')
  BY FS_Subset, ComingFinite
<1>2. Len(data) \in Nat
  BY LenProperties DEF TypeOK
<1> QED
  BY <1>1, <1>2, ComingFinite DEF NoLostWakeup

\* A step by which thread n leaves, taking a task along.
LEMMA TakerLeaves ==
    ASSUME TypeOK, NoLostWakeup, NEW n \in Coming, Coming' = Coming \ {n},
           Len(data') = Len(data) - 1, abort' = abort, idle' = idle
    PROVE  NoLostWakeup'
<1>1. Cardinality(Coming') = Cardinality(Coming) - 1
  BY FS_RemoveElement, ComingFinite
<1>2. Len(data) \in Nat
  BY LenProperties DEF TypeOK
<1> QED
  BY <1>1, <1>2, ComingFinite DEF NoLostWakeup

\* A step by which thread n queues a task, the notification still to send.
LEMMA NotifierComes ==
    ASSUME TypeOK, NoLostWakeup, NEW n, n \notin Coming, Coming' = Coming \cup {n},
           Len(data') = Len(data) + 1, abort' = abort, idle' = idle
    PROVE  NoLostWakeup'
<1>1. Cardinality(Coming') = Cardinality(Coming) + 1
  BY FS_AddElement, ComingFinite
<1>2. Len(data) \in Nat
  BY LenProperties DEF TypeOK
<1> QED
  BY <1>1, <1>2, ComingFinite DEF NoLostWakeup

\* notify_one(): the notifier leaves and, if anybody sleeps, a sleeper comes.
LEMMA NotifierReplaced ==
    ASSUME TypeOK, NoLostWakeup, NEW n \in Coming, data' = data, abort' = abort,
           idle' # {} => \E w \in idle : Coming' = (Coming \ {n}) \cup {w}
    PROVE  NoLostWakeup'
<1> SUFFICES ASSUME ~abort', idle' # {}
             PROVE  Len(data') <= Cardinality(Coming')
  BY DEF NoLostWakeup
<1>1. PICK w \in idle : Coming' = (Coming \ {n}) \cup {w}
  OBVIOUS
<1>2. w \notin Coming
  BY ClientsAssumption DEF Coming, TypeOK
<1>3. /\ IsFiniteSet(Coming \ {n})
      /\ Cardinality(Coming \ {n}) = Cardinality(Coming) - 1
  BY FS_RemoveElement, ComingFinite
<1>4. Cardinality(Coming') = Cardinality(Coming \ {n}) + 1
  BY <1>1, <1>2, <1>3, FS_AddElement
<1>5. Len(data) <= Cardinality(Coming) /\ Len(data) \in Nat
  BY <1>1, LenProperties DEF NoLostWakeup, TypeOK
<1> QED
  BY <1>3, <1>4, <1>5, ComingFinite

\* For any number of workers, clients and tasks: while a worker sleeps in an
\* open pool, every queued task has a thread on its way to the queue for it.
THEOREM NoWakeupLost == Spec => []NoLostWakeup
<1>1. Init => NoLostWakeup
  BY DEF Init, NoLostWakeup
<1>2. TypeOK /\ NoLostWakeup /\ [Next]_vars => NoLostWakeup'
  <2> SUFFICES ASSUME TypeOK, NoLostWakeup, [Next]_vars PROVE NoLostWakeup'
    OBVIOUS
  <2> USE DEF queueVars
  <2>1. ASSUME NEW w \in Workers, LaunchThread(w) PROVE NoLostWakeup'
    BY <2>1, NobodyLeaves DEF LaunchThread, Coming, TypeOK
  <2>2. CASE AllLaunched \/ AwaitStarted
    BY <2>2, NobodyLeaves DEF AllLaunched, AwaitStarted, Coming
  <2>3. ASSUME NEW w \in Workers, WorkerStep(w) PROVE NoLostWakeup'
    <3>1. CASE SignalStarted(w) \/ NotifyStarted(w)
      BY <3>1, NobodyLeaves DEF SignalStarted, NotifyStarted, Coming, TypeOK
    <3>2. CASE PopBlock(w)
      \* The queue is empty, so nobody has to be on the way.
      <4>1. Len(data') = 0
        BY <3>2, EmptySeq DEF PopBlock
      <4> QED BY <4>1, ComingFinite DEF NoLostWakeup
    <3>3. CASE PopAbort(w)
      BY <3>3 DEF PopAbort, NoLostWakeup
    <3>4. CASE PopTake(w)
      <4>1. Len(data') = Len(data) - 1
        BY <3>4, LastFront DEF PopTake, TypeOK
      <4>2. w \in Coming /\ Coming' = Coming \ {w}
        BY <3>4, ClientsAssumption DEF PopTake, Coming, TypeOK
      <4> QED BY <3>4, <4>1, <4>2, TakerLeaves DEF PopTake
    <3>5. CASE BeginTask(w) \/ FinishTask(w) \/ EndTask(w)
      BY <3>5, NobodyLeaves DEF BeginTask, FinishTask, EndTask, Coming, TypeOK
    <3>6. CASE SignalEnded(w) \/ NotifyEnded(w)
      BY <3>6, NobodyLeaves DEF SignalEnded, NotifyEnded, Coming, TypeOK
    <3>7. CASE NestedNotify(w)
      <4>1. w \in Coming /\ data' = data /\ abort' = abort
        BY <3>7 DEF NestedNotify, Coming
      <4>2. ASSUME idle' # {}
            PROVE  \E v \in idle : Coming' = (Coming \ {w}) \cup {v}
        <5>1. PICK v \in idle : idle' = idle \ {v}
          BY <3>7, <4>2 DEF NestedNotify, NotifyWorker
        <5>2. Coming' = (Coming \ {w}) \cup {v}
          BY <3>7, <5>1, ClientsAssumption DEF NestedNotify, Coming, TypeOK
        <5> QED BY <5>2
      <4> QED BY <4>1, <4>2, NotifierReplaced
    <3>8. ASSUME NEW t \in Tasks, NestedSubmit(w, t) PROVE NoLostWakeup'
      <4>1. Len(data') = Len(data) + 1 /\ abort' = abort /\ idle' = idle
        BY <3>8, AppendProperties DEF NestedSubmit, EmplaceBack, TypeOK
      <4>2. w \notin Coming /\ Coming' = Coming \cup {w}
        BY <3>8, ClientsAssumption DEF NestedSubmit, EmplaceBack, Coming, TypeOK
      <4> QED BY <4>1, <4>2, NotifierComes
    <3> QED
      BY <2>3, <3>1, <3>2, <3>3, <3>4, <3>5, <3>6, <3>7, <3>8 DEF WorkerStep
  <2>4. ASSUME NEW w \in Workers, WakeWorker(w) PROVE NoLostWakeup'
    BY <2>4, NobodyLeaves DEF WakeWorker, Coming
  <2>5. ASSUME NEW c \in Clients, ClientNotify(c) PROVE NoLostWakeup'
    <3>1. c \in Coming /\ data' = data /\ abort' = abort
      BY <2>5 DEF ClientNotify, Coming
    <3>2. ASSUME idle' # {}
          PROVE  \E v \in idle : Coming' = (Coming \ {c}) \cup {v}
      <4>1. PICK v \in idle : idle' = idle \ {v}
        BY <2>5, <3>2 DEF ClientNotify, NotifyWorker
      <4>2. Coming' = (Coming \ {c}) \cup {v}
        BY <2>5, <4>1, ClientsAssumption DEF ClientNotify, Coming, TypeOK
      <4> QED BY <4>2
    <3> QED BY <3>1, <3>2, NotifierReplaced
  <2>6. ASSUME NEW c \in Clients, NEW t \in Tasks, Submit(c, t)
        PROVE  NoLostWakeup'
    <3>1. Len(data') = Len(data) + 1 /\ abort' = abort /\ idle' = idle
      BY <2>6, AppendProperties DEF Submit, EmplaceBack, TypeOK
    <3>2. c \notin Coming /\ Coming' = Coming \cup {c}
      BY <2>6, ClientsAssumption DEF Submit, EmplaceBack, Coming, TypeOK
    <3> QED BY <3>1, <3>2, NotifierComes
  <2>7. ASSUME NEW destroy \in BOOLEAN, ClearTasks(destroy) PROVE NoLostWakeup'
    BY <2>7 DEF ClearTasks, NoLostWakeup
  <2>8. CASE NotifyAllWorkers \/ FreeMembers
    BY <2>8 DEF NotifyAllWorkers, FreeMembers, NoLostWakeup
  <2>9. CASE AwaitEnded \/ JoinThreads \/ WakeOwner
    BY <2>9, NobodyLeaves DEF AwaitEnded, JoinThreads, WakeOwner, Coming
  <2>10. CASE UNCHANGED vars
    BY <2>10, NobodyLeaves DEF vars, Coming
  <2> QED
    BY <2>1, <2>2, <2>3, <2>4, <2>5, <2>6, <2>7, <2>8, <2>9, <2>10
       DEF Next, Construct, ClearThreads, Terminated
<1> QED
  BY <1>1, <1>2, TypeCorrect, PTL DEF Spec

-----------------------------------------------------------------------------
(* Tasks.                                                                   *)

\* For any number of workers, clients and tasks, at any moment: a task with
\* a pending future is in exactly one place, once.
THEOREM TasksConserved == Spec => []TaskConservation
<1>1. Init => TaskConservation
  BY RangeOfEmpty DEF Init, TaskConservation, InHand
<1>2. TypeOK /\ TaskConservation /\ [Next]_vars => TaskConservation'
  <2> SUFFICES ASSUME TypeOK, TaskConservation, [Next]_vars
               PROVE  TaskConservation'
    OBVIOUS
  <2> USE DEF queueVars, TaskConservation, InHand
  <2>1. ASSUME NEW w \in Workers, LaunchThread(w) PROVE TaskConservation'
    BY <2>1 DEF LaunchThread, TypeOK
  <2>2. CASE AllLaunched \/ AwaitStarted
    BY <2>2 DEF AllLaunched, AwaitStarted
  <2>3. ASSUME NEW w \in Workers, WorkerStep(w) PROVE TaskConservation'
    <3>1. CASE SignalStarted(w) \/ NotifyStarted(w)
      BY <3>1 DEF SignalStarted, NotifyStarted, TypeOK
    <3>2. CASE PopBlock(w) \/ PopAbort(w)
      BY <3>2 DEF PopBlock, PopAbort, TypeOK
    <3>3. CASE PopTake(w)
      <4>1. /\ Last(data) \in Range(data) /\ Last(data) \in Tasks
            /\ Range(data') = Range(data) \ {Last(data)}
            /\ \A i, j \in 1..Len(data') : data'[i] = data'[j] => i = j
        BY <3>3, RangeOfFront, LastFront DEF PopTake, TypeOK
      <4> QED BY <3>3, <4>1 DEF PopTake, TypeOK
    <3>4. CASE BeginTask(w)
      BY <3>4 DEF BeginTask, TypeOK
    <3>5. CASE FinishTask(w)
      BY <3>5 DEF FinishTask, TypeOK
    <3>6. CASE EndTask(w)
      BY <3>6 DEF EndTask, TypeOK
    <3>7. CASE SignalEnded(w) \/ NotifyEnded(w)
      BY <3>7 DEF SignalEnded, NotifyEnded, TypeOK
    <3>8. CASE NestedNotify(w)
      BY <3>8 DEF NestedNotify, TypeOK
    <3>9. ASSUME NEW t \in Tasks, NestedSubmit(w, t) PROVE TaskConservation'
      <4>1. Range(data') = Range(data) \cup {t}
        BY <3>9, RangeOfAppend DEF NestedSubmit, EmplaceBack, TypeOK
      <4>2. t \notin Range(data)
        BY <3>9 DEF NestedSubmit, EmplaceBack
      <4>3. \A i, j \in 1..Len(data') : data'[i] = data'[j] => i = j
        BY <3>9, <4>2, AppendProperties, LenProperties
           DEF NestedSubmit, EmplaceBack, TypeOK, Range
      <4> QED BY <3>9, <4>1, <4>3 DEF NestedSubmit, EmplaceBack, TypeOK
    <3> QED
      BY <2>3, <3>1, <3>2, <3>3, <3>4, <3>5, <3>6, <3>7, <3>8, <3>9
         DEF WorkerStep
  <2>4. ASSUME NEW w \in Workers, WakeWorker(w) PROVE TaskConservation'
    BY <2>4 DEF WakeWorker
  <2>5. ASSUME NEW c \in Clients, ClientNotify(c) PROVE TaskConservation'
    BY <2>5 DEF ClientNotify
  <2>6. ASSUME NEW c \in Clients, NEW t \in Tasks, Submit(c, t)
        PROVE  TaskConservation'
    <3>1. Range(data') = Range(data) \cup {t}
      BY <2>6, RangeOfAppend DEF Submit, EmplaceBack, TypeOK
    <3>2. t \notin Range(data)
      BY <2>6 DEF Submit, EmplaceBack
    <3>3. \A i, j \in 1..Len(data') : data'[i] = data'[j] => i = j
      BY <2>6, <3>2, AppendProperties, LenProperties
         DEF Submit, EmplaceBack, TypeOK, Range
    <3> QED BY <2>6, <3>1, <3>3 DEF Submit, EmplaceBack, TypeOK
  <2>7. ASSUME NEW destroy \in BOOLEAN, ClearTasks(destroy)
        PROVE  TaskConservation'
    BY <2>7, RangeOfEmpty DEF ClearTasks, BreakQueued, TypeOK
  <2>8. CASE FreeMembers
    BY <2>8, RangeOfEmpty DEF FreeMembers, BreakQueued, TypeOK
  <2>9. CASE NotifyAllWorkers \/ AwaitEnded \/ JoinThreads \/ WakeOwner
    BY <2>9 DEF NotifyAllWorkers, AwaitEnded, JoinThreads, WakeOwner
  <2>10. CASE UNCHANGED vars
    BY <2>10 DEF vars
  <2> QED
    BY <2>1, <2>2, <2>3, <2>4, <2>5, <2>6, <2>7, <2>8, <2>9, <2>10
       DEF Next, Construct, ClearThreads, Terminated
<1> QED
  BY <1>1, <1>2, TypeCorrect, PTL DEF Spec

-----------------------------------------------------------------------------
(* Counting workers.                                                        *)

Announced == {w \in Workers : wpc[w] \notin {"none", "begin"}}
Counted == {w \in Workers : wpc[w] \in {"running", "nestedNotify", "ran"}}

LEMMA CountsFinite ==
    /\ IsFiniteSet(Announced) /\ Cardinality(Announced) \in Nat
    /\ IsFiniteSet(Counted) /\ Cardinality(Counted) \in Nat
BY ThreadsFinite DEF Announced, Counted

\* _cv_started counts the workers that have announced themselves, and an open
\* pool has seen as many as there are workers.
StartInv ==
    /\ started.var = Cardinality(Announced)
    /\ opc \notin {"launching", "awaitStarted"} => Announced = Workers

\* StartInv is inductive on top of the types.
THEOREM StartsCounted == Spec => []StartInv
<1>1. Init => StartInv
  <2> SUFFICES ASSUME Init PROVE StartInv
    OBVIOUS
  <2>1. Announced = {}
    BY DEF Init, Announced
  <2> QED
    BY <2>1, FS_EmptySet DEF Init, StartInv, NewCW
<1>2. TypeOK /\ StartInv /\ [Next]_vars => StartInv'
  <2> SUFFICES ASSUME TypeOK, StartInv, [Next]_vars PROVE StartInv'
    OBVIOUS
  <2> USE DEF queueVars
  <2>1. CASE Announced' = Announced /\ started'.var = started.var
             /\ (opc' \notin {"launching", "awaitStarted"}
                   => opc \notin {"launching", "awaitStarted"})
    BY <2>1 DEF StartInv
  <2>2. ASSUME NEW w \in Workers, SignalStarted(w) PROVE StartInv'
    <3>1. w \notin Announced /\ Announced' = Announced \cup {w}
      BY <2>2 DEF SignalStarted, Announced, TypeOK
    <3>2. started'.var = started.var + 1 /\ opc' = opc
      BY <2>2, CondWaitType DEF SignalStarted, TypeOK
    <3>3. opc' \in {"launching", "awaitStarted"}
      BY <3>1, <3>2 DEF StartInv
    <3>4. Cardinality(Announced') = Cardinality(Announced) + 1
      BY <3>1, FS_AddElement, CountsFinite
    <3>5. started'.var = Cardinality(Announced')
      BY <3>2, <3>4 DEF StartInv
    <3> QED
      BY <3>3, <3>5 DEF StartInv
  <2>3. CASE AwaitStarted
    <3>1. Announced' = Announced /\ started'.var = started.var
      BY <2>3, CondWaitType DEF AwaitStarted, Announced, TypeOK
    <3>2. opc' # opc => Cardinality(Workers) <= started.var
      BY <2>3, FS_CardinalityType, WorkersAssumption DEF AwaitStarted, Matched, TypeOK, CWType
    <3>3. Cardinality(Workers) <= Cardinality(Announced) => Announced = Workers
      <4>1. Announced \in SUBSET Workers
        BY DEF Announced
      <4> QED
        BY <4>1, FS_Subset, FS_CardinalityType, WorkersAssumption, CountsFinite
    <3>4. opc' # opc => Announced = Workers
      BY <3>2, <3>3 DEF StartInv
    <3> QED
      BY <3>1, <3>4 DEF StartInv
  <2>4. ASSUME NEW w \in Workers, WorkerStep(w), ~SignalStarted(w) PROVE StartInv'
    <3>1. started'.var = started.var /\ opc' = opc
      BY <2>4, NotifyOneType
         DEF WorkerStep, NotifyStarted, PopBlock, PopAbort, PopTake, BeginTask,
             FinishTask, EndTask, SignalEnded, NotifyEnded, NestedNotify,
             NestedSubmit, TypeOK
    <3>2. Announced' = Announced
      BY <2>4
         DEF WorkerStep, NotifyStarted, PopBlock, PopAbort, PopTake, BeginTask,
             FinishTask, EndTask, SignalEnded, NotifyEnded, NestedNotify,
             NestedSubmit, TypeOK, Announced
    <3> QED
      BY <2>1, <3>1, <3>2
  <2>5. ASSUME NEW w \in Workers, LaunchThread(w) PROVE StartInv'
    BY <2>1, <2>5 DEF LaunchThread, Announced, TypeOK
  <2>6. CASE AllLaunched \/ WakeOwner
    BY <2>1, <2>6, CondWaitType DEF AllLaunched, WakeOwner, Announced, TypeOK
  <2>7. ASSUME NEW w \in Workers, WakeWorker(w) PROVE StartInv'
    BY <2>1, <2>7 DEF WakeWorker, Announced
  <2>8. ASSUME NEW c \in Clients, NEW t \in Tasks, Submit(c, t) PROVE StartInv'
    BY <2>1, <2>8 DEF Submit, Announced
  <2>9. ASSUME NEW c \in Clients, ClientNotify(c) PROVE StartInv'
    BY <2>1, <2>9 DEF ClientNotify, Announced
  <2>10. ASSUME NEW destroy \in BOOLEAN, ClearTasks(destroy) PROVE StartInv'
    BY <2>1, <2>10 DEF ClearTasks, Announced
  <2>11. CASE ClearThreads
    BY <2>1, <2>11
       DEF ClearThreads, NotifyAllWorkers, AwaitEnded, JoinThreads, FreeMembers,
           Announced
  <2>12. CASE UNCHANGED vars
    BY <2>1, <2>12 DEF vars, Announced
  <2> QED
    BY <2>2, <2>3, <2>4, <2>5, <2>6, <2>7, <2>8, <2>9, <2>10, <2>11, <2>12
       DEF Next, Construct, Terminated
<1> QED
  BY <1>1, <1>2, TypeCorrect, PTL DEF Spec

\* For any number of workers: the constructor returns when all of them run.
THEOREM OpensReady == Spec => []ReadyWhenOpen
<1>1. StartInv => ReadyWhenOpen
  BY DEF StartInv, ReadyWhenOpen, Announced
<1> QED
  BY <1>1, StartsCounted, PTL

\* For any number of workers: _active is the number of them between the two
\* steps that count, whatever their tasks queue meanwhile.
THEOREM ActiveCounts == Spec => []ActiveIsExact
<1> USE DEF ActiveIsExact, queueVars
<1>1. Init => ActiveIsExact
  <2> SUFFICES ASSUME Init PROVE ActiveIsExact
    OBVIOUS
  <2>1. Counted = {}
    BY DEF Init, Counted
  <2> QED
    BY <2>1, FS_EmptySet DEF Init, Counted
<1>2. TypeOK /\ ActiveIsExact /\ [Next]_vars => ActiveIsExact'
  <2> SUFFICES ASSUME TypeOK, ActiveIsExact, [Next]_vars PROVE ActiveIsExact'
    OBVIOUS
  <2>0. active = Cardinality(Counted)
    BY DEF Counted
  <2>1. CASE Counted' = Counted /\ active' = active
    BY <2>1 DEF Counted
  <2>2. ASSUME NEW w \in Workers, BeginTask(w) PROVE ActiveIsExact'
    <3>1. w \notin Counted /\ Counted' = Counted \cup {w} /\ active' = active + 1
      BY <2>2 DEF BeginTask, Counted, TypeOK
    <3>2. active' = Cardinality(Counted')
      BY <2>0, <3>1, FS_AddElement, CountsFinite
    <3> QED
      BY <3>2 DEF Counted
  <2>3. ASSUME NEW w \in Workers, EndTask(w) PROVE ActiveIsExact'
    <3>1. w \in Counted /\ Counted' = Counted \ {w} /\ active' = active - 1
      BY <2>3 DEF EndTask, Counted, TypeOK
    <3>2. active' = Cardinality(Counted')
      BY <2>0, <3>1, FS_RemoveElement, CountsFinite
    <3> QED
      BY <3>2 DEF Counted
  <2>4. ASSUME NEW w \in Workers, WorkerStep(w), ~BeginTask(w), ~EndTask(w)
        PROVE  ActiveIsExact'
    <3>1. Counted' = Counted /\ active' = active
      BY <2>4
         DEF WorkerStep, SignalStarted, NotifyStarted, PopBlock, PopAbort, PopTake,
             FinishTask, SignalEnded, NotifyEnded, NestedNotify, NestedSubmit,
             TypeOK, Counted
    <3> QED
      BY <2>1, <3>1
  <2>5. ASSUME NEW w \in Workers, LaunchThread(w) PROVE ActiveIsExact'
    BY <2>1, <2>5 DEF LaunchThread, Counted, TypeOK
  <2>6. ASSUME NEW w \in Workers, WakeWorker(w) PROVE ActiveIsExact'
    BY <2>1, <2>6 DEF WakeWorker, Counted
  <2>7. ASSUME NEW c \in Clients, NEW t \in Tasks, Submit(c, t) PROVE ActiveIsExact'
    BY <2>1, <2>7 DEF Submit, Counted
  <2>8. ASSUME NEW c \in Clients, ClientNotify(c) PROVE ActiveIsExact'
    BY <2>1, <2>8 DEF ClientNotify, Counted
  <2>9. ASSUME NEW destroy \in BOOLEAN, ClearTasks(destroy) PROVE ActiveIsExact'
    BY <2>1, <2>9 DEF ClearTasks, Counted
  <2>10. CASE AllLaunched \/ AwaitStarted \/ ClearThreads \/ WakeOwner
    BY <2>1, <2>10
       DEF AllLaunched, AwaitStarted, ClearThreads, NotifyAllWorkers, AwaitEnded,
           JoinThreads, FreeMembers, WakeOwner, Counted
  <2>11. CASE UNCHANGED vars
    BY <2>1, <2>11 DEF vars, Counted
  <2> QED
    BY <2>2, <2>3, <2>4, <2>5, <2>6, <2>7, <2>8, <2>9, <2>10, <2>11
       DEF Next, Construct, Terminated
<1> QED
  BY <1>1, <1>2, TypeCorrect, PTL DEF Spec

-----------------------------------------------------------------------------
(* The pool implements TaskPool.                                            *)

Status == [t \in Tasks |-> StatusOf(t)]

\* A step that changes neither futures nor queue nor _abort is a stutter.
LEMMA Stutter ==
    ASSUME future' = future, data' = data, abort' = abort
    PROVE  UNCHANGED Promise!vars
BY DEF Promise!vars, StatusOf

\* Where one queued task more, or one less, leaves everybody's status.
LEMMA QueueStep ==
    ASSUME TypeOK, NEW t \in Tasks, EmplaceBack(t)
    PROVE  Promise!Queue(t)
<1>1. Range(data') = Range(data) \cup {t}
  BY RangeOfAppend DEF EmplaceBack, TypeOK
<1>2. future[t] # "pending" /\ future' = [future EXCEPT ![t] = "pending"]
  BY DEF EmplaceBack
<1>3. Status[t] \in {"fresh", "done", "dropped"}
  BY <1>2 DEF Status, StatusOf, TypeOK, Futures
<1>4. Status' = [Status EXCEPT ![t] = "queued"]
  BY <1>1, <1>2 DEF Status, StatusOf, TypeOK
<1> QED
  BY <1>3, <1>4 DEF Promise!Queue, Promise!Move, Status, EmplaceBack

LEMMA StartStep ==
    ASSUME TypeOK, TaskConservation, NEW w \in Workers, PopTake(w)
    PROVE  \E t \in Tasks : Promise!Start(t)
<1> DEFINE t == Last(data)
<1>1. /\ t \in Range(data) /\ t \in Tasks
      /\ Range(data') = Range(data) \ {t}
  BY RangeOfFront, LastFront DEF PopTake, TypeOK, TaskConservation
<1>2. future[t] = "pending" /\ future' = future /\ ~abort /\ abort' = abort
  BY <1>1 DEF PopTake, TaskConservation
<1>3. Status[t] = "queued"
  BY <1>1, <1>2 DEF Status, StatusOf
<1>4. Status' = [Status EXCEPT ![t] = "running"]
  BY <1>1, <1>2 DEF Status, StatusOf
<1>5. Promise!Start(t)
  BY <1>2, <1>3, <1>4 DEF Promise!Start, Promise!Move, Status
<1> QED
  BY <1>1, <1>5

LEMMA FinishStep ==
    ASSUME TypeOK, TaskConservation, NEW w \in Workers, FinishTask(w)
    PROVE  \E t \in Tasks : Promise!Finish(t)
<1> DEFINE t == held[w]
<1>1. t \in Tasks \ Range(data) /\ future[t] = "pending"
  BY DEF FinishTask, TaskConservation, InHand
<1>2. /\ future' = [future EXCEPT ![t] = "value"]
      /\ data' = data /\ abort' = abort
  BY DEF FinishTask
<1>3. Status[t] = "running"
  BY <1>1 DEF Status, StatusOf
<1>4. Status' = [Status EXCEPT ![t] = "done"]
  BY <1>1, <1>2 DEF Status, StatusOf, TypeOK
<1>5. Promise!Finish(t)
  BY <1>2, <1>3, <1>4 DEF Promise!Finish, Promise!Move, Status
<1> QED
  BY <1>1, <1>5

\* Both clears of the queue: of an open pool, and of one being destroyed.
LEMMA CloseStep ==
    ASSUME TypeOK, TaskConservation,
           future' = BreakQueued, data' = <<>>, abort' = TRUE
    PROVE  Promise!Close
<1>1. \A t \in Tasks : t \in Range(data) => future[t] = "pending"
  BY DEF TaskConservation
<1>2. \A t \in Tasks : Status[t] = "queued" <=> t \in Range(data)
  BY <1>1 DEF Status, StatusOf, TypeOK, Futures
<1>3. \A t \in Tasks : Status'[t] =
          IF Status[t] = "queued" THEN "dropped" ELSE Status[t]
  BY <1>1, <1>2, RangeOfEmpty DEF Status, StatusOf, BreakQueued, TypeOK, Futures
<1>4. Status' = [t \in Tasks |->
          IF t \in {u \in Tasks : Status[u] = "queued"} THEN "dropped"
                                                        ELSE Status[t]]
  BY <1>3 DEF Status
<1> QED
  BY <1>4, Zenon DEF Promise!Close, Promise!Drop, Promise!QueuedTasks, Status

\* ThreadPool implements TaskPool for any number of workers, clients and
\* tasks: no task starts twice, none starts after the queue was cleared, and
\* promises are broken only by a close.
THEOREM Implements == Spec => KeepsPromise
<1>1. Init => Promise!Init
  BY DEF Init, Promise!Init, StatusOf
<1>2. TypeOK /\ CloseInv /\ TaskConservation /\ [Next]_vars
        => [Promise!Next]_(Promise!vars)
  <2> SUFFICES ASSUME TypeOK, CloseInv, TaskConservation, [Next]_vars
               PROVE  Promise!Next \/ UNCHANGED Promise!vars
    OBVIOUS
  <2> USE DEF queueVars
  <2>1. ASSUME NEW w \in Workers, LaunchThread(w) \/ WakeWorker(w)
        PROVE  UNCHANGED Promise!vars
    BY <2>1, Stutter DEF LaunchThread, WakeWorker
  <2>2. CASE AllLaunched \/ AwaitStarted \/ NotifyAllWorkers \/ AwaitEnded
             \/ JoinThreads \/ WakeOwner \/ UNCHANGED vars
    BY <2>2, Stutter DEF AllLaunched, AwaitStarted, NotifyAllWorkers,
       AwaitEnded, JoinThreads, WakeOwner, vars
  <2>3. ASSUME NEW w \in Workers, WorkerStep(w)
        PROVE  Promise!Next \/ UNCHANGED Promise!vars
    <3>1. CASE PopTake(w)
      BY <3>1, StartStep DEF Promise!Next
    <3>2. CASE FinishTask(w)
      BY <3>2, FinishStep DEF Promise!Next
    <3>3. ASSUME NEW t \in Tasks, NestedSubmit(w, t)
          PROVE  Promise!Next
      BY <3>3, QueueStep DEF NestedSubmit, Promise!Next
    <3>4. CASE SignalStarted(w) \/ NotifyStarted(w) \/ PopBlock(w) \/ PopAbort(w)
               \/ BeginTask(w) \/ EndTask(w) \/ SignalEnded(w) \/ NotifyEnded(w)
               \/ NestedNotify(w)
      BY <3>4, Stutter DEF SignalStarted, NotifyStarted, PopBlock, PopAbort,
         BeginTask, EndTask, SignalEnded, NotifyEnded, NestedNotify
    <3> QED
      BY <2>3, <3>1, <3>2, <3>3, <3>4 DEF WorkerStep
  <2>4. ASSUME NEW c \in Clients, ClientNotify(c)
        PROVE  UNCHANGED Promise!vars
    BY <2>4, Stutter DEF ClientNotify
  <2>5. ASSUME NEW c \in Clients, NEW t \in Tasks, Submit(c, t)
        PROVE  Promise!Next
    BY <2>5, QueueStep DEF Submit, Promise!Next
  <2>6. ASSUME NEW destroy \in BOOLEAN, ClearTasks(destroy)
        PROVE  Promise!Next
    BY <2>6, CloseStep DEF ClearTasks, Promise!Next
  <2>7. CASE FreeMembers
    BY <2>7, CloseStep DEF FreeMembers, CloseInv, Promise!Next
  <2> QED
    BY <2>1, <2>2, <2>3, <2>4, <2>5, <2>6, <2>7
       DEF Next, Construct, ClearThreads, Terminated
<1> QED
  BY <1>1, <1>2, TypeCorrect, ClosedProperly, TasksConserved, PTL
     DEF Spec, KeepsPromise, Promise!Spec
=============================================================================
