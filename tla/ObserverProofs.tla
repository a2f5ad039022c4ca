--------------------------- MODULE ObserverProofs ---------------------------
(***************************************************************************)
(* Proofs about Observable, for any sets of threads, observers and forms   *)
(* of the template, and about Signals and Callables, for any slots,        *)
(* values, numbers of subjects and packs of any length.                    *)
(***************************************************************************)
EXTENDS Observable, Signals, SequenceTheorems, WellFoundedInduction, TLAPS

-----------------------------------------------------------------------------
\* Every reachable state is well typed, and a thread calls an observer only
\* inside emit().
THEOREM TypeCorrect == Spec => []TypeOK
<1>1. Init => TypeOK
  <2> SUFFICES ASSUME Init PROVE TypeOK
    OBVIOUS
  <2>1. Empty \in [Observers -> Nat]
    BY DEF Empty
  <2>2. /\ copy \in [Threads -> [Observers -> Nat]]
        /\ visited \in [Threads -> [Observers -> Nat]]
        /\ observers \in [Observers -> Nat]
    BY <2>1 DEF Init
  <2>3. /\ request \in [Threads -> Changes \cup {Emit, NoCall}]
        /\ calling \in [Threads -> Observers \cup {NoObserver}]
    BY DEF Init
  <2> QED
    BY <2>2, <2>3 DEF Init, TypeOK, PCs
<1>2. TypeOK /\ [Next]_vars => TypeOK'
  <2> SUFFICES ASSUME TypeOK, [Next]_vars PROVE TypeOK'
    OBVIOUS
  <2> USE DEF TypeOK, PCs, Changes, Emit, NoCall
  <2>1. ASSUME NEW t \in Threads, NEW r \in Changes \cup {Emit}, Call(t, r)
        PROVE  TypeOK'
    BY <2>1, NoObserverAssumption DEF Call
  <2>2. ASSUME NEW t \in Threads, CopyOut(t) PROVE TypeOK'
    <3>2. Changed(observers, request[t]) \in [Observers -> Nat]
      BY DEF Changed
    <3> QED
      BY <2>2, <3>2, NoObserverAssumption DEF CopyOut
  <2>3. ASSUME NEW t \in Threads, SwapIn(t) PROVE TypeOK'
    BY <2>3, NoObserverAssumption DEF SwapIn, Return, Empty
  <2>4. ASSUME NEW t \in Threads, ModifyInPlace(t) PROVE TypeOK'
    <3>1. Changed(observers, request[t]) \in [Observers -> Nat]
      BY DEF Changed
    <3> QED
      BY <2>4, <3>1, NoObserverAssumption DEF ModifyInPlace, Return
  <2>5. ASSUME NEW t \in Threads, StartEmit(t) PROVE TypeOK'
    BY <2>5, NoObserverAssumption DEF StartEmit, Empty
  <2>6. ASSUME NEW t \in Threads, NEW o \in Observers, Visit(t, o)
        PROVE  TypeOK'
    <3>1. visited' \in [Threads -> [Observers -> Nat]]
      BY <2>6 DEF Visit
    <3>2. CASE Alive(o)
      <4>1. /\ calling' = [calling EXCEPT ![t] = o]
            /\ pc' = [pc EXCEPT ![t] = "observing"]
            /\ o # NoObserver
        BY <2>6, <3>2, NoObserverAssumption DEF Visit
      <4> QED
        BY <2>6, <3>1, <4>1 DEF Visit
    <3>3. CASE ~Alive(o)
      BY <2>6, <3>1, <3>3 DEF Visit
    <3> QED
      BY <3>2, <3>3
  <2>7. ASSUME NEW t \in Threads, Observed(t) \/ Thrown(t) \/ EndEmit(t)
        PROVE  TypeOK'
    BY <2>7, NoObserverAssumption DEF Observed, Thrown, EndEmit, Return, Unlocked
  <2>8. ASSUME NEW o \in Observers, Release(o) PROVE TypeOK'
    BY <2>8 DEF Release
  <2>9. CASE Destroy
    BY <2>9 DEF Destroy, Empty
  <2>10. CASE UNCHANGED vars
    BY <2>10 DEF vars
  <2> QED
    BY <2>1, <2>2, <2>3, <2>4, <2>5, <2>6, <2>7, <2>8, <2>9, <2>10
       DEF Next, Step, Finished
<1> QED
  BY <1>1, <1>2, PTL DEF Spec

-----------------------------------------------------------------------------
(* Deliveries.                                                              *)

Delivering(t) == pc[t] \in {"visiting", "observing"}

\* The mutex is that of the thread that delivers an event, and the request of
\* each thread is the one its place in the code belongs to.
Discipline ==
    /\ form.autoLock => \A t \in Threads : Delivering(t) <=> mutex = t
    /\ \A t \in Threads :
         /\ pc[t] = "idle" => request[t] = NoCall
         /\ pc[t] = "called" => request[t] \in Changes \cup {Emit}
         /\ pc[t] = "copied" => request[t] \in Changes /\ Swaps
         /\ Delivering(t) => request[t] = Emit
         /\ request[t] \in Changes => t \in form.modifiers
         /\ request[t] = Emit => t \in form.emitters

\* A delivery has not been to more entries than there are.
Progress ==
    \A t \in Threads : Delivering(t) =>
        /\ \A o \in Observers : visited[t][o] <= observers[o]
        /\ calling[t] # NoObserver => visited[t][calling[t]] > 0

EmitInv == Discipline /\ Progress

\* A change of the observers finds no delivery under way: with AutoLock
\* because it needs the mutex, without it because one thread makes all calls.
LEMMA NoDelivery ==
    ASSUME TypeOK, Discipline, NEW t \in Threads,
           pc[t] \in {"called", "copied"}, MutexFree
    PROVE  \A u \in Threads : ~Delivering(u)
<1>1. CASE form.autoLock
  BY <1>1, NobodyAssumption DEF Discipline, MutexFree
<1>2. CASE ~form.autoLock
  <2> SUFFICES ASSUME NEW u \in Threads, Delivering(u) PROVE FALSE
    OBVIOUS
  <2>1. SoleUser(form)
    BY <1>2, FormsAssumption DEF TypeOK
  <2>2. t \in form.modifiers \cup form.emitters
    BY DEF Discipline
  <2>3. u \in form.modifiers \cup form.emitters
    BY DEF Discipline
  <2>4. t = u
    BY <2>1, <2>2, <2>3 DEF SoleUser
  <2> QED
    BY <2>4 DEF Delivering
<1>3. form.autoLock \in BOOLEAN
  BY FormsAssumption DEF TypeOK, AllForms
<1> QED
  BY <1>1, <1>2, <1>3

\* The steps that change the observers: no delivery is disturbed.
LEMMA ChangeStep ==
    ASSUME TypeOK, TypeOK', EmitInv, NEW t \in Threads, SwapIn(t) \/ ModifyInPlace(t)
    PROVE  EmitInv'
<1>1. \A u \in Threads : ~Delivering(u)
  BY NoDelivery DEF SwapIn, ModifyInPlace, EmitInv
<1>2. \A u \in Threads : ~Delivering(u)'
  BY <1>1 DEF SwapIn, ModifyInPlace, Return, Delivering, TypeOK
<1>3. Discipline'
  <2>1. Return(t) /\ form' = form /\ mutex' = mutex
    BY DEF SwapIn, ModifyInPlace
  <2>2. form'.autoLock => \A u \in Threads : Delivering(u)' <=> mutex' = u
    BY <2>1, <1>1, <1>2 DEF EmitInv, Discipline
  <2>3. NoCall \notin Changes \cup {Emit}
    BY DEF NoCall, Changes, Emit
  <2> QED
    BY <2>1, <2>2, <2>3, <1>2 DEF Return, TypeOK, EmitInv, Discipline, Swaps
<1>4. Progress'
  BY <1>2 DEF Progress
<1> QED
  BY <1>3, <1>4 DEF EmitInv
LEMMA EmitSafe == Spec => []EmitInv
<1>1. Init => EmitInv
  BY NobodyAssumption DEF Init, EmitInv, Discipline, Progress, Delivering, NoCall,
     Changes, Emit
<1>2. TypeOK /\ TypeOK' /\ EmitInv /\ [Next]_vars => EmitInv'
  <2> SUFFICES ASSUME TypeOK, TypeOK', EmitInv, [Next]_vars PROVE EmitInv'
    OBVIOUS
  <2> USE DEF EmitInv, Delivering
  <2>1. ASSUME NEW t \in Threads, NEW r \in Changes \cup {Emit}, Call(t, r)
        PROVE  EmitInv'
    <3>1. Discipline'
      BY <2>1, NobodyAssumption
         DEF Call, TypeOK, Discipline, Changes, Emit, NoCall, Swaps
    <3>2. Progress'
      BY <2>1 DEF Call, TypeOK, Progress
    <3> QED BY <3>1, <3>2
  <2>2. ASSUME NEW t \in Threads, CopyOut(t) PROVE EmitInv'
    <3>1. Discipline'
      BY <2>2 DEF CopyOut, TypeOK, Discipline, Changes, Emit, NoCall, Swaps
    <3>2. Progress'
      BY <2>2 DEF CopyOut, TypeOK, Progress
    <3> QED BY <3>1, <3>2
  <2>3. ASSUME NEW t \in Threads, StartEmit(t) PROVE EmitInv'
    <3>1. \A u \in Threads : ~Delivering(u)
      BY <2>3, NoDelivery DEF StartEmit
    <3>2. Discipline'
      BY <2>3, <3>1, NobodyAssumption
         DEF StartEmit, TypeOK, Discipline, Changes, Emit, NoCall, Swaps
    <3>3. \A o \in Observers : visited'[t][o] <= observers'[o]
      BY <2>3 DEF StartEmit, TypeOK, Empty
    <3>4. calling'[t] = NoObserver
      BY <2>3, <3>1 DEF StartEmit, TypeOK
    <3>5. Progress'
      BY <2>3, <3>1, <3>3, <3>4 DEF StartEmit, TypeOK, Progress
    <3> QED BY <3>2, <3>5
  <2>4. ASSUME NEW t \in Threads, NEW o \in Observers, Visit(t, o)
        PROVE  EmitInv'
    <3>1. Discipline'
      BY <2>4 DEF Visit, TypeOK, Discipline, Changes, Emit, NoCall, Swaps
    <3>2. /\ visited'[t] = [visited[t] EXCEPT ![o] = visited[t][o] + 1]
          /\ \A u \in Threads : u # t => visited'[u] = visited[u]
      BY <2>4 DEF Visit, TypeOK
    <3>3. Progress'
      <4> SUFFICES ASSUME NEW u \in Threads, Delivering(u)'
                   PROVE  /\ \A q \in Observers : visited'[u][q] <= observers'[q]
                          /\ calling'[u] # NoObserver => visited'[u][calling'[u]] > 0
        BY DEF Progress
      <4>1. Delivering(u) /\ observers' = observers
        BY <2>4 DEF Visit, TypeOK
      <4>2. CASE u = t
        <5>1. \A q \in Observers : visited'[u][q] <= observers'[q]
          BY <2>4, <3>2, <4>1, <4>2 DEF Visit, TypeOK, Progress
        <5>2. calling[t] = NoObserver /\ (calling'[t] = NoObserver \/ calling'[t] = o)
          BY <2>4 DEF Visit, TypeOK
        <5>3. visited'[t][o] > 0
          BY <3>2 DEF TypeOK
        <5> QED BY <4>2, <5>1, <5>2, <5>3
      <4>3. CASE u # t
        BY <2>4, <3>2, <4>1, <4>3 DEF Visit, TypeOK, Progress
      <4> QED BY <4>2, <4>3
    <3> QED BY <3>1, <3>3
  <2>5. ASSUME NEW t \in Threads, Observed(t) \/ Thrown(t) \/ EndEmit(t)
        PROVE  EmitInv'
    <3>1. CASE Observed(t)
      BY <2>5, <3>1 DEF Observed, TypeOK, Discipline, Swaps, Progress
    <3>2. CASE Thrown(t) \/ EndEmit(t)
      <4>1. Delivering(t) /\ Unlocked(t) /\ Return(t) /\ form' = form
        BY <3>2 DEF Thrown, EndEmit
      <4>2. form'.autoLock => \A u \in Threads : Delivering(u)' <=> mutex' = u
        BY <4>1, NobodyAssumption DEF Return, Unlocked, TypeOK, Discipline
      <4>3. NoCall \notin Changes \cup {Emit}
        BY DEF NoCall, Changes, Emit
      <4>4. Discipline'
        BY <4>1, <4>2, <4>3 DEF Return, TypeOK, Discipline, Swaps
      <4>5. Progress'
        BY <3>2 DEF Thrown, EndEmit, Return, TypeOK, Progress
      <4> QED BY <4>4, <4>5
    <3> QED BY <2>5, <3>1, <3>2
  <2>6. ASSUME NEW t \in Threads, SwapIn(t) \/ ModifyInPlace(t) PROVE EmitInv'
    BY <2>6, ChangeStep
  <2>7. ASSUME NEW o \in Observers, Release(o) PROVE EmitInv'
    BY <2>7 DEF Release, Discipline, Progress, Swaps
  <2>8. CASE Destroy
    <3>1. \A t \in Threads : ~Delivering(t)
      BY <2>8 DEF Destroy
    <3> QED
      BY <2>8, <3>1 DEF Destroy, Discipline, Progress, Swaps
  <2>9. CASE UNCHANGED vars
    BY <2>9 DEF vars, Discipline, Progress, Swaps
  <2> QED
    BY <2>1, <2>2, <2>3, <2>4, <2>5, <2>6, <2>7, <2>8, <2>9 DEF Next, Step, Finished
<1> QED
  BY <1>1, <1>2, TypeCorrect, PTL DEF Spec

-----------------------------------------------------------------------------
(* Copy-and-swap by one thread.                                             *)

\* A copy is what its call should leave of the vector as it is now.
FreshCopy ==
    \A t \in Threads : pc[t] = "copied" => copy[t] \in R!Results(request[t])

\* An observer that is no more does not come back.
LEMMA DeadStaysDead ==
    ASSUME TypeOK, [Next]_vars, NEW o \in Observers, Alive(o)'
    PROVE  Alive(o)
<1>1. ASSUME NEW t \in Threads, NEW r \in Changes \cup {Emit}, Call(t, r)
      PROVE  Alive(o)
  BY <1>1 DEF Call, Alive
<1>2. ASSUME NEW t \in Threads, CopyOut(t) \/ SwapIn(t) \/ ModifyInPlace(t) \/ StartEmit(t)
      PROVE  Alive(o)
  BY <1>2 DEF CopyOut, SwapIn, ModifyInPlace, StartEmit, Alive
<1>3. ASSUME NEW t \in Threads, Observed(t) \/ Thrown(t) \/ EndEmit(t)
      PROVE  Alive(o)
  BY <1>3, NoObserverAssumption DEF Observed, Thrown, EndEmit, Alive, TypeOK
<1>4. ASSUME NEW t \in Threads, NEW q \in Observers, Visit(t, q) PROVE Alive(o)
  <2>1. CASE Alive(q)
    BY <1>4, <2>1 DEF Visit, Alive, TypeOK
  <2>2. CASE ~Alive(q)
    BY <1>4, <2>2 DEF Visit, Alive
  <2> QED
    BY <2>1, <2>2
<1>5. ASSUME NEW q \in Observers, Release(q) PROVE Alive(o)
  BY <1>5 DEF Release, Alive
<1>6. CASE Destroy \/ UNCHANGED vars
  BY <1>6 DEF Destroy, vars, Alive
<1> QED
  BY <1>1, <1>2, <1>3, <1>4, <1>5, <1>6 DEF Next, Step, Finished

\* What a call may leave, in terms of Observable.
LEMMA ResultsOf ==
    ASSUME NEW r
    PROVE  /\ R!Results(r) = IF r.op = "add"
                             THEN {[observers EXCEPT ![r.of] = @ + 1]}
                             ELSE {[observers EXCEPT ![r.of] = 0]}
                                     \cup IF Alive(r.of) THEN {} ELSE {observers}
           /\ r \in Changes => Changed(observers, r) \in R!Results(r)
<1>1. R!Alive(r.of) <=> Alive(r.of)
  BY DEF R!Alive, Alive
<1> QED
  BY <1>1 DEF R!Results, Changed, Changes

THEOREM CopiesAreFresh == ASSUME OneSwapper PROVE Spec => []FreshCopy
<1>1. Init => FreshCopy
  BY DEF Init, FreshCopy
<1>2. TypeOK /\ EmitInv /\ FreshCopy /\ [Next]_vars => FreshCopy'
  <2> SUFFICES ASSUME TypeOK, EmitInv, FreshCopy, [Next]_vars,
                      NEW t \in Threads, pc'[t] = "copied"
               PROVE  (copy[t] \in R!Results(request[t]))'
    BY DEF FreshCopy
  <2>1. CASE pc[t] # "copied"
    <3>1. CopyOut(t)
      <4>1. ASSUME NEW u \in Threads, NEW r \in Changes \cup {Emit}, Call(u, r)
            PROVE  FALSE
        BY <2>1, <4>1 DEF Call, TypeOK
      <4>2. ASSUME NEW u \in Threads, CopyOut(u), u # t PROVE FALSE
        BY <2>1, <4>2 DEF CopyOut, TypeOK
      <4>3. ASSUME NEW u \in Threads,
                   SwapIn(u) \/ ModifyInPlace(u) \/ StartEmit(u) \/ Observed(u)
                     \/ Thrown(u) \/ EndEmit(u)
            PROVE  FALSE
        BY <2>1, <4>3
           DEF SwapIn, ModifyInPlace, StartEmit, Observed, Thrown, EndEmit,
               Return, TypeOK
      <4>4. ASSUME NEW u \in Threads, NEW o \in Observers, Visit(u, o) PROVE FALSE
        BY <2>1, <4>4 DEF Visit, TypeOK
      <4>5. ASSUME NEW o \in Observers, Release(o) PROVE FALSE
        BY <2>1, <4>5 DEF Release
      <4>6. CASE Destroy \/ UNCHANGED vars
        BY <2>1, <4>6 DEF Destroy, vars
      <4> QED
        BY <4>1, <4>2, <4>3, <4>4, <4>5, <4>6 DEF Next, Step, Finished
    <3>2. /\ request[t] \in Changes
          /\ copy'[t] = Changed(observers, request[t])
          /\ observers' = observers /\ request' = request
      BY <3>1 DEF CopyOut, EmitInv, Discipline, TypeOK, Emit
    <3>3. Alive(request[t].of) <=> Alive(request[t].of)'
      BY <3>1 DEF CopyOut, Alive
    <3>4. R!Results(request[t])' = R!Results(request[t])
      BY <3>1, <3>2 DEF R!Results, R!Alive, CopyOut
    <3> QED
      BY <3>2, <3>4, ResultsOf
  <2>2. CASE pc[t] = "copied"
    <3>1. /\ copy[t] \in R!Results(request[t])
          /\ request[t] \in Changes /\ Swaps /\ t \in form.modifiers
      BY <2>2 DEF FreshCopy, EmitInv, Discipline
    <3>2. ASSUME NEW u \in Threads, SwapIn(u) PROVE FALSE
      <4>1. u # t
        BY <3>2 DEF SwapIn, Return, TypeOK
      <4>2. u \in form.modifiers
        BY <3>2 DEF SwapIn, EmitInv, Discipline
      <4> QED
        BY <3>1, <4>1, <4>2 DEF OneSwapper, Swaps, TypeOK
    <3>3. ASSUME NEW u \in Threads, ModifyInPlace(u) PROVE FALSE
      BY <3>1, <3>3 DEF ModifyInPlace
    <3>4. ~Destroy
      BY <2>2 DEF Destroy
    <3>5. copy'[t] = copy[t] /\ request'[t] = request[t] /\ observers' = observers
      <4>1. ASSUME NEW u \in Threads, NEW r \in Changes \cup {Emit}, Call(u, r)
            PROVE  copy'[t] = copy[t] /\ request'[t] = request[t]
                     /\ observers' = observers
        BY <2>2, <4>1 DEF Call, TypeOK
      <4>2. ASSUME NEW u \in Threads, CopyOut(u)
            PROVE  copy'[t] = copy[t] /\ request'[t] = request[t]
                     /\ observers' = observers
        BY <2>2, <4>2 DEF CopyOut, TypeOK
      <4>3. ASSUME NEW u \in Threads,
                   StartEmit(u) \/ Observed(u) \/ Thrown(u) \/ EndEmit(u)
            PROVE  copy'[t] = copy[t] /\ request'[t] = request[t]
                     /\ observers' = observers
        BY <2>2, <4>3 DEF StartEmit, Observed, Thrown, EndEmit, Return, TypeOK
      <4>4. ASSUME NEW u \in Threads, NEW o \in Observers, Visit(u, o)
            PROVE  copy'[t] = copy[t] /\ request'[t] = request[t]
                     /\ observers' = observers
        BY <4>4 DEF Visit
      <4>5. ASSUME NEW o \in Observers, Release(o)
            PROVE  copy'[t] = copy[t] /\ request'[t] = request[t]
                     /\ observers' = observers
        BY <4>5 DEF Release
      <4>6. CASE UNCHANGED vars
        BY <4>6 DEF vars
      <4> QED
        BY <3>2, <3>3, <3>4, <4>1, <4>2, <4>3, <4>4, <4>5, <4>6
           DEF Next, Step, Finished
    <3>6. Alive(request[t].of)' => Alive(request[t].of)
      <4>1. request[t].of \in Observers
        BY <3>1 DEF Changes
      <4> QED
        BY <3>5, <4>1, DeadStaysDead DEF Alive
    <3>7. R!Results(request[t]) \subseteq R!Results(request[t])'
      BY <3>5, <3>6 DEF R!Results, R!Alive, Alive
    <3> QED
      BY <3>1, <3>5, <3>7
  <2> QED
    BY <2>1, <2>2
<1> QED
  BY <1>1, <1>2, TypeCorrect, EmitSafe, PTL DEF Spec

\* What is returned by the steps that do not change the observers.
LEMMA OthersReturnEmit ==
    ASSUME TypeOK, EmitInv, [Next]_vars,
           \A t \in Threads : ~SwapIn(t) /\ ~ModifyInPlace(t),
           NEW t \in Threads, NEW r \in Changes
    PROVE  ~Returns(t, r)
<1> SUFFICES ASSUME pc[t] # "idle", pc'[t] = "idle", request[t] = r PROVE FALSE
  BY DEF Returns
<1> USE DEF TypeOK
<1>1. r # Emit
  BY DEF Changes, Emit
<1>2. ASSUME NEW u \in Threads, NEW q \in Changes \cup {Emit}, Call(u, q)
      PROVE  FALSE
  BY <1>2 DEF Call
<1>3. ASSUME NEW u \in Threads, CopyOut(u) \/ StartEmit(u) \/ Observed(u) PROVE FALSE
  BY <1>3 DEF CopyOut, StartEmit, Observed
<1>4. ASSUME NEW u \in Threads, Thrown(u) \/ EndEmit(u) PROVE FALSE
  <2>1. Delivering(u) /\ u = t
    BY <1>4 DEF Thrown, EndEmit, Return, Delivering
  <2> QED
    BY <1>1, <2>1 DEF EmitInv, Discipline
<1>5. ASSUME NEW u \in Threads, NEW o \in Observers, Visit(u, o) PROVE FALSE
  BY <1>5 DEF Visit
<1>6. ASSUME NEW o \in Observers, Release(o) PROVE FALSE
  BY <1>6 DEF Release
<1>7. CASE Destroy \/ UNCHANGED vars
  BY <1>7 DEF Destroy, vars
<1> QED
  BY <1>2, <1>3, <1>4, <1>5, <1>6, <1>7 DEF Next, Step, Finished

\* The steps that leave the observers alone call none that is quiet.
LEMMA QuietStays ==
    ASSUME TypeOK, [Next]_vars, NEW o \in Observers, Quiet(o),
           \A t \in Threads : ~SwapIn(t) /\ ~ModifyInPlace(t)
    PROVE  Quiet(o)'
<1> USE DEF TypeOK
<1>1. Alive(o)' => Alive(o)
  BY DeadStaysDead
<1>2. observers'[o] = observers[o] \/ observers'[o] = 0
  <2>1. ASSUME NEW t \in Threads, NEW r \in Changes \cup {Emit}, Call(t, r)
        PROVE  observers' = observers
    BY <2>1 DEF Call
  <2>2. ASSUME NEW t \in Threads,
               CopyOut(t) \/ StartEmit(t) \/ Observed(t) \/ Thrown(t) \/ EndEmit(t)
        PROVE  observers' = observers
    BY <2>2 DEF CopyOut, StartEmit, Observed, Thrown, EndEmit
  <2>3. ASSUME NEW t \in Threads, NEW q \in Observers, Visit(t, q)
        PROVE  observers' = observers
    BY <2>3 DEF Visit
  <2>4. ASSUME NEW q \in Observers, Release(q) PROVE observers' = observers
    BY <2>4 DEF Release
  <2>5. CASE Destroy
    BY <2>5 DEF Destroy, Empty
  <2>6. CASE UNCHANGED vars
    BY <2>6 DEF vars
  <2> QED
    BY <2>1, <2>2, <2>3, <2>4, <2>5, <2>6 DEF Next, Step, Finished
<1>3. ASSUME NEW u \in Threads PROVE calling'[u] # o
  <2>1. calling[u] # o
    BY DEF Quiet
  <2>2. ASSUME NEW t \in Threads, NEW r \in Changes \cup {Emit}, Call(t, r)
        PROVE  calling'[u] # o
    BY <2>1, <2>2 DEF Call
  <2>3. ASSUME NEW t \in Threads, CopyOut(t) \/ StartEmit(t) \/ EndEmit(t)
        PROVE  calling'[u] # o
    BY <2>1, <2>3 DEF CopyOut, StartEmit, EndEmit
  <2>4. ASSUME NEW t \in Threads, Observed(t) \/ Thrown(t) PROVE calling'[u] # o
    BY <2>1, <2>4, NoObserverAssumption DEF Observed, Thrown
  <2>5. ASSUME NEW t \in Threads, NEW q \in Observers, Visit(t, q)
        PROVE  calling'[u] # o
    <3>1. CASE Alive(q)
      <4>1. observers[q] > 0
        BY <2>5 DEF Visit
      <4>2. q # o
        BY <3>1, <4>1 DEF Quiet
      <4> QED
        BY <2>1, <2>5, <3>1, <4>2 DEF Visit
    <3>2. CASE ~Alive(q)
      BY <2>1, <2>5, <3>2 DEF Visit
    <3> QED
      BY <3>1, <3>2
  <2>6. ASSUME NEW q \in Observers, Release(q) PROVE calling'[u] # o
    BY <2>1, <2>6 DEF Release
  <2>7. CASE Destroy \/ UNCHANGED vars
    BY <2>1, <2>7 DEF Destroy, vars
  <2> QED
    BY <2>2, <2>3, <2>4, <2>5, <2>6, <2>7 DEF Next, Step, Finished
<1> QED
  BY <1>1, <1>2, <1>3 DEF Quiet

\* After remove_observer() no thread is in the observer, nor comes to it before
\* it is added again: the removal waits for the delivery under way, and what one
\* thread takes out no other puts back (with several that copy and swap, one may).
THEOREM RemovedIsQuiet == ASSUME OneSwapper PROVE Spec => QuietAfterRemove
<1> DEFINE Add(o) == [op |-> "add", of |-> o]
           Remove(o) == [op |-> "remove", of |-> o]
           Turn == \A o \in Observers :
             (\/ \E t \in Threads : Returns(t, Remove(o))
              \/ /\ Quiet(o)
                 /\ ~\E t \in Threads : Returns(t, Add(o)))
             => Quiet(o)'
<1>1. TypeOK /\ EmitInv /\ FreshCopy /\ [Next]_vars => [Turn]_vars
  <2> SUFFICES ASSUME TypeOK, EmitInv, FreshCopy, [Next]_vars, NEW o \in Observers,
                      \/ \E t \in Threads : Returns(t, Remove(o))
                      \/ Quiet(o) /\ ~\E t \in Threads : Returns(t, Add(o))
               PROVE  Quiet(o)'
    OBVIOUS
  <2>1. Remove(o) \in Changes /\ Add(o) \in Changes
    BY DEF Changes
  <2>2. ASSUME NEW t \in Threads, SwapIn(t) \/ ModifyInPlace(t) PROVE Quiet(o)'
    <3>1. /\ pc[t] \in {"called", "copied"} /\ MutexFree /\ Return(t)
          /\ calling' = calling /\ owned' = owned
      BY <2>2 DEF SwapIn, ModifyInPlace
    <3>2. \A u \in Threads : calling[u] = NoObserver
      <4>1. \A u \in Threads : ~Delivering(u)
        BY <3>1, NoDelivery DEF EmitInv
      <4> QED
        BY <4>1 DEF TypeOK, Delivering
    <3>3. request[t] \in Changes
      <4>1. CASE SwapIn(t)
        BY <4>1 DEF SwapIn, EmitInv, Discipline
      <4>2. CASE ModifyInPlace(t)
        BY <4>2 DEF ModifyInPlace, EmitInv, Discipline, Emit
      <4> QED
        BY <2>2, <4>1, <4>2
    <3>4. observers' \in R!Results(request[t])
      <4>1. CASE SwapIn(t)
        BY <4>1 DEF SwapIn, FreshCopy
      <4>2. CASE ModifyInPlace(t)
        BY <3>3, <4>2, ResultsOf DEF ModifyInPlace
      <4> QED
        BY <2>2, <4>1, <4>2
    <3>5. \A u \in Threads : calling'[u] # o
      BY <3>1, <3>2, NoObserverAssumption
    <3>6. Alive(o)' <=> Alive(o)
      BY <3>1 DEF Alive
    <3>7. \A u \in Threads, r \in Changes : Returns(u, r) => u = t /\ r = request[t]
      BY <3>1 DEF Returns, Return, TypeOK
    <3>8. Returns(t, request[t])
      BY <3>1 DEF Returns, Return, TypeOK
    <3>9. CASE request[t] = Remove(o)
      <4>1. \/ observers' = [observers EXCEPT ![o] = 0]
            \/ ~Alive(o)
        BY <3>4, <3>9, ResultsOf
      <4> QED
        BY <3>5, <3>6, <4>1 DEF Quiet, TypeOK
    <3>10. CASE request[t] # Remove(o)
      <4>1. Quiet(o) /\ request[t] # Add(o)
        BY <2>1, <3>7, <3>8, <3>10
      <4>2. request[t].of # o
        BY <3>3, <3>10, <4>1 DEF Changes
      <4>3. observers'[o] = observers[o]
        BY <3>3, <3>4, <4>2, ResultsOf DEF TypeOK, Changes
      <4> QED
        BY <3>5, <3>6, <4>1, <4>3 DEF Quiet
    <3> QED
      BY <3>9, <3>10
  <2>3. CASE \A t \in Threads : ~SwapIn(t) /\ ~ModifyInPlace(t)
    <3>1. Quiet(o)
      BY <2>1, <2>3, OthersReturnEmit
    <3> QED
      BY <2>3, <3>1, QuietStays
  <2> QED
    BY <2>2, <2>3
<1> QED
  BY <1>1, TypeCorrect, EmitSafe, CopiesAreFresh, PTL DEF Spec, QuietAfterRemove

-----------------------------------------------------------------------------
(* The refinement.                                                          *)

\* What the requests of Registry are after a step of one thread.
LEMMA AskedAfter ==
    ASSUME TypeOK, NEW t \in Threads, NEW p, NEW r,
           pc' = [pc EXCEPT ![t] = p], request' = [request EXCEPT ![t] = r]
    PROVE  Asked' = [Asked EXCEPT ![t] =
                        IF p \in {"visiting", "observing"} THEN R!Deliver ELSE r]
<1> DEFINE After(u) == IF pc'[u] \in {"visiting", "observing"}
                       THEN R!Deliver ELSE request'[u]
<1>1. Asked' = [u \in Threads |-> After(u)]
  BY DEF Asked, R!Deliver
<1>2. After(t) = IF p \in {"visiting", "observing"} THEN R!Deliver ELSE r
  BY DEF TypeOK
<1>3. ASSUME NEW u \in Threads, u # t PROVE After(u) = Asked[u]
  BY <1>3 DEF TypeOK, Asked, R!Deliver
<1> HIDE DEF After
<1> QED
  BY <1>1, <1>2, <1>3 DEF Asked

\* No call that was asked for is taken for a delivery.
LEMMA EmitRequests ==
    ASSUME TypeOK
    PROVE  \A t \in Threads : request[t] # R!Deliver
<1>1. \A r \in Changes \cup {Emit, NoCall} : r.op # "deliver"
  BY DEF Changes, Emit, NoCall
<1>2. R!Deliver.op = "deliver"
  BY DEF R!Deliver
<1>3. request \in [Threads -> Changes \cup {Emit, NoCall}]
  BY DEF TypeOK
<1> QED
  BY <1>1, <1>2, <1>3

\* A change that returns is a change of the registrations, between deliveries.
LEMMA ChangeImplements ==
    ASSUME TypeOK, EmitInv, NEW t \in Threads,
           pc[t] \in {"called", "copied"}, request[t].op # "emit", MutexFree,
           observers' \in R!Results(request[t]), Return(t),
           UNCHANGED <<visited, calling, owned>>
    PROVE  R!Change(t)
<1>1. \A u \in Threads : ~Delivering(u)
  BY NoDelivery DEF EmitInv
<1>2. R!Quiet
  BY <1>1, EmitRequests DEF R!Quiet, R!Deliver, Asked, Delivering
<1>3. Asked[t] = request[t] /\ request[t] \in Changes
  BY DEF Asked, EmitInv, Discipline, Emit
<1>4. Asked' = [Asked EXCEPT ![t] = NoCall]
  BY AskedAfter DEF Return
<1> QED
  BY <1>2, <1>3, <1>4 DEF R!Change, R!NoRequest, NoCall, Changes

\* An observable that is changed in place, or copied and swapped by one thread
\* only, implements Registry: no registration or removal is lost, none falls
\* into a delivery, and every delivery goes to all.
THEOREM Implements == ASSUME OneSwapper PROVE Spec => KeepsPromise
<1>1. Init => R!Init
  BY DEF Init, R!Init, Asked, Empty, R!Empty, NoCall, R!NoRequest
<1>2. TypeOK /\ EmitInv /\ FreshCopy /\ [Next]_vars => [R!Next]_(R!vars)
  <2> SUFFICES ASSUME TypeOK, EmitInv, FreshCopy, [Next]_vars
               PROVE  R!Next \/ UNCHANGED R!vars
    OBVIOUS
  <2>1. ASSUME NEW t \in Threads, NEW r \in Changes \cup {Emit}, Call(t, r)
        PROVE  R!Ask(t)
    <3>1. Asked[t] = R!NoRequest
      BY <2>1 DEF Call, Asked, EmitInv, Discipline, NoCall, R!NoRequest
    <3>2. Asked' = [Asked EXCEPT ![t] = r]
      BY <2>1, AskedAfter DEF Call
    <3>3. r \in R!Requests
      BY DEF R!Requests, Changes, Emit
    <3> QED
      BY <2>1, <3>1, <3>2, <3>3 DEF Call, R!Ask
  <2>2. ASSUME NEW t \in Threads, CopyOut(t) PROVE UNCHANGED R!vars
    <3>1. Asked' = Asked
      BY <2>2 DEF CopyOut, Asked, TypeOK
    <3> QED
      BY <2>2, <3>1 DEF CopyOut, R!vars
  <2>3. ASSUME NEW t \in Threads, SwapIn(t) PROVE R!Change(t)
    <3>1. request[t] \in Changes /\ copy[t] \in R!Results(request[t])
      BY <2>3 DEF SwapIn, FreshCopy, EmitInv, Discipline
    <3> QED
      BY <2>3, <3>1, ChangeImplements DEF SwapIn, Changes
  <2>4. ASSUME NEW t \in Threads, ModifyInPlace(t) PROVE R!Change(t)
    <3>1. request[t] \in Changes
      BY <2>4 DEF ModifyInPlace, EmitInv, Discipline, Emit
    <3> QED
      BY <2>4, <3>1, ChangeImplements, ResultsOf DEF ModifyInPlace
  <2>5. ASSUME NEW t \in Threads, StartEmit(t) PROVE R!StartDelivery(t)
    <3>1. \A u \in Threads : ~Delivering(u)
      BY <2>5, NoDelivery DEF StartEmit, EmitInv
    <3>2. R!Quiet
      BY <3>1, EmitRequests DEF R!Quiet, R!Deliver, Asked, Delivering
    <3>3. Asked[t] = request[t]
      BY <2>5 DEF StartEmit, Asked
    <3>4. Asked' = [Asked EXCEPT ![t] = R!Deliver]
      BY <2>5 DEF StartEmit, Asked, R!Deliver, TypeOK
    <3> QED
      BY <2>5, <3>2, <3>3, <3>4 DEF StartEmit, R!StartDelivery, Empty, R!Empty
  <2>6. ASSUME NEW t \in Threads, NEW o \in Observers, Visit(t, o)
        PROVE  R!Visit(t, o)
    <3>1. Asked[t] = R!Deliver /\ calling[t] = NoObserver
      BY <2>6 DEF Visit, Asked, R!Deliver, TypeOK
    <3>2. Asked' = Asked
      BY <2>6 DEF Visit, Asked, TypeOK
    <3>3. R!Alive(o) <=> Alive(o)
      BY DEF R!Alive, Alive
    <3> QED
      BY <2>6, <3>1, <3>2, <3>3 DEF Visit, R!Visit
  <2>7. ASSUME NEW t \in Threads, Observed(t) PROVE R!EndCall(t)
    <3>1. Asked' = Asked /\ calling[t] # NoObserver
      BY <2>7 DEF Observed, Asked, TypeOK
    <3> QED
      BY <2>7, <3>1 DEF Observed, R!EndCall
  <2>8. ASSUME NEW t \in Threads, Thrown(t) PROVE R!Abandon(t)
    <3>1. Asked' = [Asked EXCEPT ![t] = NoCall] /\ calling[t] # NoObserver
      BY <2>8, AskedAfter DEF Thrown, Return, TypeOK
    <3> QED
      BY <2>8, <3>1 DEF Thrown, R!Abandon, R!NoRequest, NoCall
  <2>9. ASSUME NEW t \in Threads, EndEmit(t) PROVE R!EndDelivery(t)
    <3>1. Asked[t] = R!Deliver /\ calling[t] = NoObserver
      BY <2>9 DEF EndEmit, Asked, R!Deliver, TypeOK
    <3>2. Asked' = [Asked EXCEPT ![t] = NoCall]
      BY <2>9, AskedAfter DEF EndEmit, Return
    <3> QED
      BY <2>9, <3>1, <3>2 DEF EndEmit, R!EndDelivery, R!NoRequest, NoCall
  <2>10. ASSUME NEW o \in Observers, Release(o) PROVE R!Release(o)
    <3>1. Asked' = Asked
      BY <2>10 DEF Release, Asked
    <3> QED
      BY <2>10, <3>1 DEF Release, R!Release
  <2>11. CASE Destroy
    <3>1. \A t \in Threads : Asked[t] = R!NoRequest
      BY <2>11 DEF Destroy, Asked, EmitInv, Discipline, NoCall, R!NoRequest
    <3>2. Asked' = Asked
      BY <2>11 DEF Destroy, Asked
    <3>3. R!Destroy
      BY <2>11, <3>1, <3>2 DEF Destroy, R!Destroy, Empty, R!Empty
    <3> QED
      BY <3>3 DEF R!Next
  <2>12. CASE UNCHANGED vars
    BY <2>12 DEF vars, R!vars, Asked
  <2> QED
    BY <2>1, <2>2, <2>3, <2>4, <2>5, <2>6, <2>7, <2>8, <2>9, <2>10, <2>11, <2>12
       DEF Next, Step, Finished, R!Next
<1> QED
  BY <1>1, <1>2, TypeCorrect, EmitSafe, CopiesAreFresh, PTL
     DEF Spec, KeepsPromise, R!Spec

-----------------------------------------------------------------------------
(* Functions on an interval as sequences.                                   *)

LEMMA SeqOfFcn ==
    ASSUME NEW n \in Nat, NEW S, NEW f \in [1..n -> S]
    PROVE  f \in Seq(S) /\ Len(f) = n
OBVIOUS

LEMMA SameSeq ==
    ASSUME NEW S, NEW T, NEW s \in Seq(S), NEW n \in Nat, NEW f \in [1..n -> T],
           Len(s) = n, \A i \in 1..n : s[i] = f[i]
    PROVE  s = f
<1>1. s = [i \in 1..n |-> s[i]] /\ f = [i \in 1..n |-> f[i]]
  BY LenProperties
<1> QED
  BY <1>1

LEMMA AppendFcn ==
    ASSUME NEW S, NEW n \in Nat, NEW f \in [1..n -> S], NEW x \in S
    PROVE  Append(f, x) = [i \in 1..(n + 1) |-> IF i <= n THEN f[i] ELSE x]
<1>1. f \in Seq(S) /\ Len(f) = n
  BY SeqOfFcn
<1>2. /\ Append(f, x) \in Seq(S) /\ Len(Append(f, x)) = n + 1
      /\ \A i \in 1..(n + 1) : Append(f, x)[i] = IF i <= n THEN f[i] ELSE x
  BY <1>1, AppendProperties
<1>3. Append(f, x) = [i \in 1..(n + 1) |-> Append(f, x)[i]]
  BY <1>2, LenProperties
<1> QED
  BY <1>2, <1>3

-----------------------------------------------------------------------------
(* What a slot is bound to.                                                 *)

\* The arguments a slot is called with, and which of them are subjects.
Width(s) == IF kind = "signal" THEN SubjectCount ELSE Len(s.values) + 1
Names(s) == 1..(Width(s) - Len(s.values))
Bounds == {Bound(x) : x \in Values} \cup {Place(k) : k \in 1..9}

LEMMA BoundShape ==
    ASSUME kind \in Kinds, NEW s \in Slots
    PROVE  /\ Width(s) \in Nat /\ Len(s.values) \in Nat
           /\ BindSlot(s) = [j \in 1..Width(s) |->
                               IF j <= Len(s.values) THEN Bound(s.values[j])
                               ELSE Place(j - Len(s.values))]
<1>1. PICK v : v = s.values
  OBVIOUS
<1>2. PICK n \in Nat : n = Len(v) /\ v \in [1..n -> Values]
  BY <1>1, SlotsAssumption, LenProperties
<1>3. SubjectCount \in 1..9
  BY CountAssumption
<1>4. Width(s) \in Nat
  BY <1>1, <1>2, <1>3 DEF Width
<1>5. BoundAll(v) \in [1..n -> Bounds] /\ \A j \in 1..n : BoundAll(v)[j] = Bound(v[j])
  BY <1>2 DEF BoundAll, Bounds
<1>6. PICK m \in Nat : m = 9
  OBVIOUS
<1>7. Places \in [1..m -> Bounds] /\ \A k \in 1..m : Places[k] = Place(k)
  BY <1>6 DEF Places, Bounds
<1>8. CASE kind = "signal"
  <2>1. PICK all : all = BoundAll(v) \o Places
    OBVIOUS
  <2>2. \A i \in 1..(n + m) : all[i] = IF i <= n THEN BoundAll(v)[i] ELSE Places[i - n]
    <3>1. /\ BoundAll(v) \in Seq(Bounds) /\ Len(BoundAll(v)) = n
          /\ Places \in Seq(Bounds) /\ Len(Places) = m
      BY <1>5, <1>7
    <3> QED
      BY <2>1, <3>1, ConcatProperties
  <2>3. BindSlot(s) = [i \in 1..SubjectCount |-> all[i]]
    <3>1. SubPack(Consecutive(0, SubjectCount, 1), all) = [i \in 1..SubjectCount |-> all[i]]
      BY <1>3 DEF SubPack, Consecutive
    <3> QED
      BY <3>1, <1>1, <1>8, <2>1 DEF BindSlot, BindTie, FirstN
  <2>4. \A i \in 1..SubjectCount : all[i] = IF i <= n THEN Bound(v[i]) ELSE Place(i - n)
    <3> TAKE i \in 1..SubjectCount
    <3>1. i \in 1..(n + m)
      BY <1>2, <1>3, <1>6
    <3>2. all[i] = IF i <= n THEN BoundAll(v)[i] ELSE Places[i - n]
      BY <2>2, <3>1
    <3>3. CASE i <= n
      BY <3>2, <3>3, <1>5, <1>2, <1>3
    <3>4. CASE ~(i <= n)
      <4>1. i - n \in 1..m
        BY <3>4, <1>2, <1>3, <1>6
      <4> QED
        BY <3>2, <3>4, <4>1, <1>7
    <3> QED
      BY <3>3, <3>4
  <2>5. Width(s) = SubjectCount
    BY <1>8 DEF Width
  <2> QED
    BY <2>3, <2>4, <2>5, <1>1, <1>2, <1>4
<1>9. CASE kind # "signal"
  <2>1. Place(1) \in Bounds
    BY DEF Bounds
  <2>2. Append(BoundAll(v), Place(1))
          = [i \in 1..(n + 1) |-> IF i <= n THEN BoundAll(v)[i] ELSE Place(1)]
    BY <1>5, <2>1, AppendFcn
  <2>3. Width(s) = n + 1 /\ BindSlot(s) = Append(BoundAll(v), Place(1))
    BY <1>1, <1>2, <1>9 DEF Width, BindSlot
  <2>4. \A i \in 1..(n + 1) : (IF i <= n THEN BoundAll(v)[i] ELSE Place(1))
                             = IF i <= n THEN Bound(v[i]) ELSE Place(i - n)
    BY <1>2, <1>5
  <2> QED
    BY <2>2, <2>3, <2>4, <1>1, <1>2, <1>4
<1> QED
  BY <1>8, <1>9

\* The places it names are those of the first subjects, as many as are left.
LEMMA BoundNames ==
    ASSUME kind \in Kinds, NEW s \in Slots
    PROVE  Passed(BindSlot(s)) = Names(s)
<1> DEFINE v == s.values
           w == Width(s)
<1>1. w \in Nat /\ Len(v) \in Nat
  BY BoundShape
<1>2. /\ DOMAIN BindSlot(s) = 1..w
      /\ \A j \in 1..w : BindSlot(s)[j].place = IF j <= Len(v) THEN 0 ELSE j - Len(v)
  BY BoundShape DEF Bound, Place
<1> HIDE DEF v, w
<1>3. \A k \in Passed(BindSlot(s)) : k \in 1..(w - Len(v))
  BY <1>1, <1>2 DEF Passed
<1>4. ASSUME NEW k \in 1..(w - Len(v)) PROVE k \in Passed(BindSlot(s))
  <2>1. k + Len(v) \in 1..w /\ ~(k + Len(v) <= Len(v)) /\ k = (k + Len(v)) - Len(v)
    BY <1>1, <1>4
  <2>2. BindSlot(s)[k + Len(v)].place = k
    BY <2>1, <1>2
  <2>3. k \in {BindSlot(s)[i].place : i \in DOMAIN BindSlot(s)}
    BY <2>1, <2>2, <1>2
  <2> QED
    BY <2>3, <1>1, <1>4 DEF Passed
<1> QED
  BY <1>3, <1>4 DEF Names, v, w

LEMMA CalledWith ==
    ASSUME kind \in Kinds, NEW s \in Slots, NEW args
    PROVE  BindCall(BindSlot(s), args) =
             [j \in 1..Width(s) |-> IF j <= Len(s.values) THEN s.values[j]
                                    ELSE args[j - Len(s.values)]]
<1> DEFINE b == BindSlot(s)
           v == s.values
<1>1. /\ Width(s) \in Nat /\ Len(v) \in Nat /\ DOMAIN b = 1..Width(s)
      /\ \A j \in 1..Width(s) : b[j] = IF j <= Len(v) THEN Bound(v[j])
                                                     ELSE Place(j - Len(v))
  BY BoundShape
<1> HIDE DEF b, v
<1>2. \A j \in 1..Width(s) : (IF b[j].place = 0 THEN b[j].val ELSE args[b[j].place])
                              = IF j <= Len(v) THEN v[j] ELSE args[j - Len(v)]
  BY <1>1 DEF Bound, Place
<1> QED
  BY <1>1, <1>2 DEF BindCall, b, v

\* What it is to receive: its values, then the event.
LEMMA ExpectedShape ==
    ASSUME kind \in Kinds, NEW s \in Slots, sent \in [1..Arity -> Values]
    PROVE  /\ Len(Expected(s)) = Width(s)
           /\ \A j \in 1..Width(s) :
                Expected(s)[j] = IF j <= Len(s.values) THEN s.values[j]
                                 ELSE sent[j - Len(s.values)]
<1> DEFINE v == s.values
           all == v \o sent
<1>1. v \in Seq(Values) /\ Len(v) \in Nat /\ SubjectCount \in 1..9 /\ Arity \in 1..9
  BY SlotsAssumption, CountAssumption, LenProperties DEF Arity
<1>2. sent \in Seq(Values) /\ Len(sent) = Arity
  BY <1>1, SeqOfFcn
<1>3. /\ Len(all) = Len(v) + Arity /\ all \in Seq(Values)
      /\ \A i \in 1..(Len(v) + Arity) : all[i] = IF i <= Len(v) THEN v[i]
                                                              ELSE sent[i - Len(v)]
  BY <1>1, <1>2, ConcatProperties
<1>4. CASE kind = "signal"
  <2>1. Expected(s) = SubSeq(all, 1, SubjectCount) /\ Width(s) = SubjectCount
        /\ Arity = SubjectCount
    BY <1>4 DEF Expected, Width, Arity
  <2> HIDE DEF all, v
  <2>2. \A i \in 1..SubjectCount : all[i] \in Values
    BY <1>1, <1>3, <2>1, LenProperties
  <2>3. /\ Len(SubSeq(all, 1, SubjectCount)) = SubjectCount
        /\ \A i \in 1..SubjectCount : SubSeq(all, 1, SubjectCount)[i] = all[i]
    BY <1>1, <2>2, SubSeqProperties
  <2> QED
    BY <1>1, <1>3, <2>1, <2>3 DEF v
<1>5. CASE kind # "signal"
  BY <1>1, <1>3, <1>5 DEF Expected, Width, Arity
<1> QED
  BY <1>4, <1>5

-----------------------------------------------------------------------------
(* What every slot receives.                                                *)

\* What is left of an event when the first n slots have been called: a signal
\* moved to the slots that take their arguments by value what they name.
Taken(n, p) == /\ kind = "signal"
               /\ \E h \in 1..n : connected[h].byValue /\ p \in Names(connected[h])
Left(n) == [p \in 1..Arity |-> IF Taken(n, p) THEN MovedFrom ELSE sent[p]]

\* What the i-th slot is called with.
Heard(i) == LET own == connected[i].values
            IN  [j \in 1..Width(connected[i]) |->
                   IF j <= Len(own) THEN own[j] ELSE Left(i - 1)[j - Len(own)]]

\* The inductive invariant: each callback is its slot's, and in an event of n
\* calls each subject is intact unless one of them took it.
SignalsInv ==
    /\ kind \in Kinds
    /\ connected \in Seq(Slots)
    /\ callbacks = [i \in 1..Len(connected) |-> BindSlot(connected[i])]
    /\ sent = <<>> => received = <<>>
    /\ sent # <<>> =>
         /\ sent \in [1..Arity -> Values]
         /\ \E n \in 0..Len(connected) : /\ received = [i \in 1..n |-> Heard(i)]
                                        /\ subjects = Left(n)

\* The event is passed on whole when no slot has been called.
LEMMA LeftAtFirst ==
    ASSUME sent \in [1..Arity -> Values] PROVE Left(0) = sent
<1>1. \A p : ~Taken(0, p)
  BY DEF Taken
<1>2. Left(0) = [p \in 1..Arity |-> sent[p]]
  BY <1>1 DEF Left
<1> QED
  BY <1>2

\* A call hands on what is left, and takes its part of it.
LEMMA NextCall ==
    ASSUME SignalsInv, NEW n \in 0..(Len(connected) - 1),
           received = [i \in 1..n |-> Heard(i)], subjects = Left(n), CallSlot
    PROVE  /\ received' = [i \in 1..(n + 1) |-> Heard(i)]
           /\ subjects' = Left(n + 1)
<1>1. /\ kind \in Kinds /\ connected \in Seq(Slots) /\ Len(connected) \in Nat
      /\ n \in Nat /\ n + 1 \in 1..Len(connected) /\ connected[n + 1] \in Slots
  BY LenProperties, ElementOfSeq DEF SignalsInv
<1>2. PICK slot \in Slots : slot = connected[n + 1]
  BY <1>1
<1>3. PICK cb : cb = BindSlot(slot)
  OBVIOUS
<1>4. callbacks[n + 1] = cb
  BY <1>1, <1>2, <1>3 DEF SignalsInv
<1>5. Len(received) = n
  BY <1>1
<1>6. /\ received' = Append(received, BindCall(cb, subjects))
      /\ subjects' = IF kind = "signal" /\ slot.byValue
                     THEN [j \in DOMAIN subjects |->
                             IF j \in Passed(cb) THEN MovedFrom ELSE subjects[j]]
                     ELSE subjects
  BY <1>2, <1>4, <1>5 DEF CallSlot
<1>7. BindCall(cb, subjects) = Heard(n + 1)
  <2>1. BindCall(cb, Left(n)) =
          [j \in 1..Width(slot) |-> IF j <= Len(slot.values) THEN slot.values[j]
                                    ELSE Left(n)[j - Len(slot.values)]]
    BY <1>1, <1>3, CalledWith
  <2>2. Heard(n + 1) =
          [j \in 1..Width(slot) |-> IF j <= Len(slot.values) THEN slot.values[j]
                                    ELSE Left(n)[j - Len(slot.values)]]
    <3>1. (n + 1) - 1 = n
      BY <1>1
    <3> QED
      BY <1>2, <3>1 DEF Heard
  <2> QED
    BY <2>1, <2>2
<1>8. received' = [i \in 1..(n + 1) |-> Heard(i)]
  <2> DEFINE H == {Heard(i) : i \in 1..(n + 1)}
  <2>1. received \in [1..n -> H] /\ Heard(n + 1) \in H
    BY <1>1
  <2>2. Append(received, Heard(n + 1))
          = [i \in 1..(n + 1) |-> IF i <= n THEN received[i] ELSE Heard(n + 1)]
    <3> HIDE DEF H
    <3> QED
      BY <1>1, <2>1, AppendFcn
  <2>3. \A i \in 1..(n + 1) : (IF i <= n THEN received[i] ELSE Heard(n + 1)) = Heard(i)
    BY <1>1
  <2> QED
    BY <1>6, <1>7, <2>2, <2>3
<1>9. subjects' = Left(n + 1)
  <2>1. Passed(cb) = Names(slot)
    BY <1>1, <1>3, BoundNames
  <2>2. \A p : Taken(n + 1, p) <=> \/ Taken(n, p)
                                   \/ kind = "signal" /\ slot.byValue /\ p \in Names(slot)
    BY <1>1, <1>2 DEF Taken
  <2>3. DOMAIN subjects = 1..Arity
        /\ \A p \in 1..Arity : subjects[p] = IF Taken(n, p) THEN MovedFrom ELSE sent[p]
    BY DEF Left
  <2>4. CASE kind = "signal" /\ slot.byValue
    <3>1. subjects' = [p \in 1..Arity |-> IF p \in Names(slot) THEN MovedFrom
                                          ELSE subjects[p]]
      BY <1>6, <2>1, <2>3, <2>4
    <3>2. \A p \in 1..Arity :
            (IF p \in Names(slot) THEN MovedFrom ELSE subjects[p])
              = IF Taken(n + 1, p) THEN MovedFrom ELSE sent[p]
      BY <2>2, <2>3, <2>4
    <3> QED
      BY <3>1, <3>2 DEF Left
  <2>5. CASE ~(kind = "signal" /\ slot.byValue)
    <3>1. subjects' = Left(n)
      BY <1>6, <2>5
    <3>2. \A p \in 1..Arity : Taken(n + 1, p) <=> Taken(n, p)
      BY <2>2, <2>5
    <3> QED
      BY <3>1, <3>2 DEF Left
  <2> QED
    BY <2>4, <2>5
<1> QED
  BY <1>8, <1>9

LEMMA SignalsInvInductive ==
    /\ SignalInit => SignalsInv
    /\ SignalsInv /\ [SignalNext]_signalVars => SignalsInv'
<1>1. SignalInit => SignalsInv
  <2> SUFFICES ASSUME SignalInit PROVE SignalsInv
    OBVIOUS
  <2>1. /\ kind \in Kinds /\ connected = <<>> /\ callbacks = <<>>
        /\ sent = <<>> /\ received = <<>>
    BY DEF SignalInit
  <2>2. connected \in Seq(Slots) /\ Len(connected) = 0
    BY <2>1
  <2>3. callbacks = [i \in 1..Len(connected) |-> BindSlot(connected[i])]
    BY <2>1, <2>2
  <2> QED
    BY <2>1, <2>2, <2>3 DEF SignalsInv
<1>2. SignalsInv /\ [SignalNext]_signalVars => SignalsInv'
  <2> SUFFICES ASSUME SignalsInv, [SignalNext]_signalVars PROVE SignalsInv'
    OBVIOUS
  <2>1. /\ kind \in Kinds /\ connected \in Seq(Slots) /\ Len(connected) \in Nat
        /\ callbacks = [i \in 1..Len(connected) |-> BindSlot(connected[i])]
    BY LenProperties DEF SignalsInv
  <2>2. ASSUME kind' = kind, connected' = connected, sent' = sent
        PROVE  /\ Arity' = Arity
               /\ \A n : Left(n)' = Left(n) /\ Heard(n)' = Heard(n)
    BY <2>2 DEF Arity, Left, Heard, Taken, Names, Width
  <2>3. ASSUME kind' = kind PROVE \A s : BindSlot(s)' = BindSlot(s)
    BY <2>3 DEF BindSlot
  <2>4. ASSUME NEW s \in Slots, Connect(s) PROVE SignalsInv'
    <3>1. /\ connected' = Append(connected, s) /\ callbacks' = Append(callbacks, BindSlot(s))
          /\ sent = <<>> /\ sent' = <<>> /\ received' = received /\ kind' = kind
      BY <2>4 DEF Connect
    <3>2. PICK m \in Nat : m = Len(connected)
      BY <2>1
    <3>3. /\ connected' \in Seq(Slots) /\ Len(connected') = m + 1
          /\ \A i \in 1..m : connected'[i] = connected[i]
          /\ connected'[m + 1] = s
      BY <2>1, <3>1, <3>2, AppendProperties
    <3>4. callbacks' = [i \in 1..(m + 1) |-> BindSlot(connected'[i])]
      <4> DEFINE B == {BindSlot(connected'[i]) : i \in 1..(m + 1)}
      <4>1. callbacks \in [1..m -> B] /\ BindSlot(s) \in B
        BY <2>1, <3>2, <3>3
      <4>2. Append(callbacks, BindSlot(s))
              = [i \in 1..(m + 1) |-> IF i <= m THEN callbacks[i] ELSE BindSlot(s)]
        <5> HIDE DEF B
        <5> QED
          BY <3>2, <4>1, AppendFcn
      <4>3. \A i \in 1..(m + 1) : (IF i <= m THEN callbacks[i] ELSE BindSlot(s))
                                  = BindSlot(connected'[i])
        BY <2>1, <3>2, <3>3
      <4> QED
        BY <3>1, <4>2, <4>3
    <3>5. callbacks' = [i \in 1..Len(connected') |-> BindSlot(connected[i])']
      BY <2>3, <3>1, <3>3, <3>4
    <3>6. received' = <<>>
      BY <3>1 DEF SignalsInv
    <3> QED
      BY <2>1, <3>1, <3>3, <3>5, <3>6 DEF SignalsInv
  <2>5. ASSUME NEW e \in Events, SignalEmit(e) PROVE SignalsInv'
    <3>1. /\ connected' = connected /\ callbacks' = callbacks /\ kind' = kind
          /\ sent' = e /\ subjects' = e /\ received' = <<>> /\ Len(e) = Arity
      BY <2>5 DEF SignalEmit
    <3>2. Arity \in Nat \ {0} /\ Arity' = Arity
      BY <3>1, CountAssumption DEF Arity
    <3>3. e \in [1..Arity -> Values] /\ e # <<>>
      <4>1. PICK k \in Nat : e \in [1..k -> Values]
        <5>1. PICK one \in Nat : one = 1
          OBVIOUS
        <5>2. PICK k \in {one, SubjectCount} : e \in [1..k -> Values]
          BY <5>1 DEF Events
        <5>3. k \in Nat
          BY <5>2, CountAssumption
        <5> QED
          BY <5>2, <5>3
      <4>2. e \in Seq(Values) /\ Len(e) = k
        BY <4>1, SeqOfFcn
      <4> QED
        BY <3>1, <3>2, <4>1, <4>2
    <3>4. Left(0)' = sent'
      <4>1. sent' \in [1..Arity' -> Values]
        BY <3>1, <3>2, <3>3
      <4>2. \A p : ~Taken(0, p)'
        BY DEF Taken
      <4>3. Left(0)' = [p \in 1..Arity' |-> sent'[p]]
        BY <4>2 DEF Left
      <4> QED
        BY <4>1, <4>3
    <3>5. received' = [i \in 1..0 |-> Heard(i)'] /\ 0 \in 0..Len(connected')
      BY <2>1, <3>1
    <3>6. callbacks' = [i \in 1..Len(connected') |-> BindSlot(connected[i])']
      BY <2>1, <2>3, <3>1
    <3> QED
      BY <2>1, <3>1, <3>2, <3>3, <3>4, <3>5, <3>6 DEF SignalsInv
  <2>6. CASE CallSlot
    <3>1. /\ connected' = connected /\ callbacks' = callbacks /\ kind' = kind
          /\ sent' = sent /\ sent # <<>> /\ Len(received) < Len(callbacks)
      BY <2>6 DEF CallSlot
    <3>2. PICK n \in 0..Len(connected) : /\ received = [i \in 1..n |-> Heard(i)]
                                         /\ subjects = Left(n)
      BY <3>1 DEF SignalsInv
    <3>3. n \in 0..(Len(connected) - 1)
      <4>1. Len(received) = n
        BY <2>1, <3>2
      <4>2. Len(callbacks) = Len(connected)
        BY <2>1
      <4> QED
        BY <2>1, <3>1, <4>1, <4>2
    <3>4. /\ received' = [i \in 1..(n + 1) |-> Heard(i)]
          /\ subjects' = Left(n + 1)
      BY <2>6, <3>2, <3>3, NextCall
    <3>5. received' = [i \in 1..(n + 1) |-> Heard(i)'] /\ subjects' = Left(n + 1)'
          /\ Arity' = Arity /\ n + 1 \in 0..Len(connected')
      BY <2>1, <2>2, <3>1, <3>3, <3>4
    <3>6. callbacks' = [i \in 1..Len(connected') |-> BindSlot(connected[i])']
      BY <2>1, <2>3, <3>1
    <3> QED
      BY <2>1, <3>1, <3>5, <3>6 DEF SignalsInv
  <2>7. CASE SlotThrows \/ SignalEndEmit
    <3>1. /\ connected' = connected /\ callbacks' = callbacks /\ kind' = kind
          /\ sent' = <<>> /\ received' = <<>>
      BY <2>7 DEF SlotThrows, SignalEndEmit
    <3>2. callbacks' = [i \in 1..Len(connected') |-> BindSlot(connected[i])']
      BY <2>1, <2>3, <3>1
    <3> QED
      BY <2>1, <3>1, <3>2 DEF SignalsInv
  <2>8. CASE UNCHANGED signalVars
    <3>1. /\ connected' = connected /\ callbacks' = callbacks /\ kind' = kind
          /\ sent' = sent /\ received' = received /\ subjects' = subjects
      BY <2>8 DEF signalVars
    <3>2. callbacks' = [i \in 1..Len(connected') |-> BindSlot(connected[i])']
      BY <2>1, <2>3, <3>1
    <3> QED
      BY <2>1, <2>2, <3>1, <3>2 DEF SignalsInv
  <2> QED
    BY <2>4, <2>5, <2>6, <2>7, <2>8 DEF SignalNext, SignalFinished
<1> QED
  BY <1>1, <1>2

\* Every slot is called in the order of the connections, its own values first,
\* with the subjects that were sent, each one intact unless a slot before it
\* took that very subject by value: for any slots and any number of subjects.
THEOREM EventReachesSlots == SignalSpec => []SlotsGetTheEvent
<1>1. SignalsInv => SlotsGetTheEvent
  <2> SUFFICES ASSUME SignalsInv, NEW i \in DOMAIN received
               PROVE  /\ Len(received[i]) = Len(Expected(connected[i]))
                      /\ \A j \in DOMAIN received[i] :
                           received[i][j] = IF Spoilt(i, j) THEN MovedFrom
                                            ELSE Expected(connected[i])[j]
    BY DEF SlotsGetTheEvent
  <2>1. sent # <<>>
    BY DEF SignalsInv
  <2>2. PICK n \in 0..Len(connected) : received = [k \in 1..n |-> Heard(k)]
    BY <2>1 DEF SignalsInv
  <2>3. /\ kind \in Kinds /\ sent \in [1..Arity -> Values] /\ i \in Nat \ {0}
        /\ connected[i] \in Slots /\ received[i] = Heard(i) /\ i \in 1..Len(connected)
        /\ \A h \in 1..i : connected[h] \in Slots
    <3>1. /\ connected \in Seq(Slots) /\ Len(connected) \in Nat /\ kind \in Kinds
          /\ sent \in [1..Arity -> Values]
      BY <2>1, LenProperties DEF SignalsInv
    <3>2. i \in 1..n /\ received[i] = Heard(i)
      BY <2>2
    <3> QED
      BY <3>1, <3>2, ElementOfSeq
  <2>4. PICK slot \in Slots : slot = connected[i]
    BY <2>3
  <2>5. PICK own : own = slot.values /\ own = connected[i].values
    BY <2>4
  <2>6. Width(slot) \in Nat /\ Len(own) \in Nat
    BY <2>3, <2>5, BoundShape
  <2>7. /\ Len(Expected(slot)) = Width(slot)
        /\ \A j \in 1..Width(slot) :
             Expected(slot)[j] = IF j <= Len(own) THEN own[j] ELSE sent[j - Len(own)]
    BY <2>3, <2>5, ExpectedShape
  <2>8. received[i] = [j \in 1..Width(slot) |->
                         IF j <= Len(own) THEN own[j] ELSE Left(i - 1)[j - Len(own)]]
    BY <2>3, <2>4, <2>5 DEF Heard
  <2>9. Len(received[i]) = Width(slot)
    BY <2>6, <2>8
  <2>10. ASSUME NEW j \in 1..Width(slot)
         PROVE  received[i][j] = IF Spoilt(i, j) THEN MovedFrom ELSE Expected(slot)[j]
    <3>1. CASE j <= Len(own)
      <4>1. ~Spoilt(i, j)
        <5>1. ~(j > Len(own))
          BY <2>6, <3>1
        <5> QED
          BY <2>5, <5>1 DEF Spoilt
      <4> QED
        BY <2>7, <2>8, <3>1, <4>1
    <3>2. CASE ~(j <= Len(own))
      <4>1. PICK p \in Nat : p = j - Len(own) /\ p >= 1
        BY <2>6, <3>2
      <4>2. p \in 1..Arity
        <5>1. CASE kind = "signal"
          BY <2>6, <4>1, <5>1, CountAssumption DEF Width, Arity
        <5>2. CASE kind # "signal"
          BY <2>5, <2>6, <4>1, <5>2 DEF Width, Arity
        <5> QED
          BY <5>1, <5>2
      <4>3. received[i][j] = IF Taken(i - 1, p) THEN MovedFrom ELSE sent[p]
        BY <2>8, <3>2, <4>1, <4>2 DEF Left
      <4>4. Expected(slot)[j] = sent[p]
        BY <2>7, <3>2, <4>1
      <4>5. Spoilt(i, j) <=> Taken(i - 1, p)
        <5>1. CASE kind # "signal"
          BY <5>1 DEF Spoilt, Taken
        <5>2. CASE kind = "signal"
          <6>1. \A h \in 1..(i - 1) :
                  (p + Len(connected[h].values) <= SubjectCount)
                    <=> p \in Names(connected[h])
            <7> TAKE h \in 1..(i - 1)
            <7>1. connected[h] \in Slots
              BY <2>3
            <7>2. Len(connected[h].values) \in Nat /\ Width(connected[h]) = SubjectCount
                  /\ SubjectCount \in Nat
              BY <2>3, <5>2, <7>1, BoundShape, CountAssumption DEF Width
            <7> QED
              BY <4>1, <7>2 DEF Names
          <6>2. Spoilt(i, j) <=> \E h \in 1..(i - 1) :
                  connected[h].byValue /\ p + Len(connected[h].values) <= SubjectCount
            <7>1. Spoilt(i, j) <=> \E h \in 1..(i - 1) :
                    connected[h].byValue
                      /\ j - Len(own) + Len(connected[h].values) <= SubjectCount
              <8>1. j > Len(own)
                BY <2>6, <3>2
              <8> QED
                BY <2>5, <5>2, <8>1 DEF Spoilt
            <7> QED
              BY <4>1, <7>1
          <6>3. Taken(i - 1, p) <=> \E h \in 1..(i - 1) :
                  connected[h].byValue /\ p \in Names(connected[h])
            BY <5>2 DEF Taken
          <6> QED
            BY <6>1, <6>2, <6>3
        <5> QED
          BY <5>1, <5>2
      <4> QED
        BY <4>3, <4>4, <4>5
    <3> QED
      BY <3>1, <3>2
  <2> QED
    BY <2>4, <2>7, <2>8, <2>9, <2>10
<1> QED
  BY <1>1, SignalsInvInductive, PTL DEF SignalSpec

-----------------------------------------------------------------------------
(* Recursion over an interval: two functions with the same first value and  *)
(* the same steps are the same.                                             *)

LEMMA LeastOf ==
    ASSUME NEW S \in SUBSET Nat, S # {}
    PROVE  \E x \in S : \A y \in S : x <= y
<1>1. PICK x \in S : \A y \in S : ~(<<y, x>> \in OpToRel(<, Nat))
  BY NatLessThanWellFounded, WFMin
<1>2. ASSUME NEW y \in S, y < x PROVE FALSE
  <2>1. <<y, x>> \in Nat \X Nat
    BY Zenon
  <2>2. <<y, x>>[1] < <<y, x>>[2]
    BY <1>2
  <2>3. <<y, x>> \in OpToRel(<, Nat)
    BY <2>1, <2>2, Zenon DEF OpToRel
  <2> QED
    BY <2>3, <1>1, Zenon
<1> QED
  BY <1>2

LEMMA SameUpwards ==
    ASSUME NEW n \in Nat, NEW g, NEW h,
           \A m \in 0..n : (m # 0 => g[m - 1] = h[m - 1]) => g[m] = h[m]
    PROVE  g[n] = h[n]
<1> DEFINE D == {m \in 0..n : g[m] # h[m]}
<1>1. SUFFICES ASSUME D # {} PROVE FALSE
  <2>1. n \in 0..n
    OBVIOUS
  <2> QED
    BY <2>1
<1>2. D \in SUBSET Nat
  OBVIOUS
<1>3. PICK k \in D : \A m \in D : k <= m
  <2> HIDE DEF D
  <2> QED
    BY <1>1, <1>2, LeastOf
<1>4. k # 0 => k - 1 \in 0..n /\ ~(k <= k - 1)
  OBVIOUS
<1>5. k # 0 => g[k - 1] = h[k - 1]
  BY <1>3, <1>4
<1> QED
  BY <1>5

LEMMA SameDownwards ==
    ASSUME NEW n \in Nat, NEW g, NEW h,
           \A m \in 0..n : (m # n => g[m + 1] = h[m + 1]) => g[m] = h[m]
    PROVE  \A m \in 0..n : g[m] = h[m]
<1> DEFINE u == [m \in 0..n |-> g[n - m]]
           v == [m \in 0..n |-> h[n - m]]
<1>1. ASSUME NEW m \in 0..n, m # 0 => u[m - 1] = v[m - 1] PROVE u[m] = v[m]
  <2>1. n - m \in 0..n /\ (m # 0 => m - 1 \in 0..n /\ n - (m - 1) = (n - m) + 1)
    OBVIOUS
  <2>2. n - m # n => g[(n - m) + 1] = h[(n - m) + 1]
    BY <1>1, <2>1
  <2> QED
    BY <2>1, <2>2
<1>2. ASSUME NEW k \in Nat, k <= n PROVE u[k] = v[k]
  <2>1. \A m \in 0..k : (m # 0 => u[m - 1] = v[m - 1]) => u[m] = v[m]
    <3> HIDE DEF u, v
    <3> QED
      BY <1>1, <1>2
  <2> HIDE DEF u, v
  <2> QED
    BY <2>1, SameUpwards
<1> QED
  <2> TAKE m \in 0..n
  <2>1. n - m \in Nat /\ n - m <= n /\ n - m \in 0..n /\ n - (n - m) = m
    OBVIOUS
  <2>2. u[n - m] = v[n - m]
    <3> HIDE DEF u, v
    <3> QED
      BY <1>2, <2>1
  <2> QED
    BY <2>1, <2>2

-----------------------------------------------------------------------------
(* The templates that cut packs.                                            *)

LEMMA CutShape ==
    ASSUME NEW S, NEW p \in Seq(S), NEW a \in Nat \ {0}, NEW b \in Nat,
           a <= b + 1, b <= Len(p)
    PROVE  /\ SubSeq(p, a, b) \in Seq(S)
           /\ Len(SubSeq(p, a, b)) = b - a + 1
           /\ \A i \in 1..(b - a + 1) : SubSeq(p, a, b)[i] = p[a + i - 1]
<1>1. Len(p) \in Nat /\ \A i \in 1..Len(p) : p[i] \in S
  BY LenProperties
<1>2. \A i \in a..b : p[i] \in S
  BY <1>1
<1>3. /\ SubSeq(p, a, b) \in Seq(S)
      /\ Len(SubSeq(p, a, b)) = IF a <= b THEN b - a + 1 ELSE 0
      /\ \A i \in 1..(b - a + 1) : SubSeq(p, a, b)[i] = p[a + i - 1]
  BY <1>2, SubSeqProperties
<1> QED
  BY <1>3

LEMMA IsCut ==
    ASSUME NEW S, NEW p \in Seq(S), NEW a \in Nat \ {0}, NEW b \in Nat,
           a <= b + 1, b <= Len(p), NEW n \in Nat, n = b - a + 1, NEW q,
           q = [i \in 1..n |-> q[i]], \A i \in 1..n : q[i] = p[a + i - 1]
    PROVE  q = SubSeq(p, a, b)
<1>1. /\ SubSeq(p, a, b) \in Seq(S) /\ Len(SubSeq(p, a, b)) = n
      /\ \A i \in 1..n : SubSeq(p, a, b)[i] = p[a + i - 1]
  BY CutShape
<1>2. SubSeq(p, a, b) = [i \in 1..n |-> SubSeq(p, a, b)[i]]
  BY <1>1, LenProperties
<1> QED
  BY <1>1, <1>2

LEMMA BuildIndicesCounts ==
    ASSUME NEW n \in Nat PROVE BuildIndices(n) = [i \in 1..n |-> i - 1]
<1> DEFINE Rec(h) == h = [m \in 0..n |-> IF m = n THEN <<>> ELSE <<m>> \o h[m + 1]]
<1>1. PICK g : g = [m \in 0..n |-> [i \in 1..(n - m) |-> m + i - 1]]
  OBVIOUS
<1>2. Rec(g)
  <2>1. g[n] = <<>>
    <3>1. g[n] = [i \in 1..0 |-> n + i - 1]
      BY <1>1
    <3> QED
      BY <3>1
  <2>2. ASSUME NEW m \in 0..n, m # n PROVE g[m] = <<m>> \o g[m + 1]
    <3>1. PICK k \in Nat : k = n - (m + 1)
      BY <2>2
    <3>2. g[m + 1] = [i \in 1..k |-> m + i]
      BY <1>1, <2>2, <3>1
    <3>3. PICK t : t = g[m + 1]
      OBVIOUS
    <3>4. t \in Seq(Nat) /\ Len(t) = k /\ \A i \in 1..k : t[i] = m + i
      BY <3>2, <3>3
    <3>5. <<m>> \in Seq(Nat) /\ Len(<<m>>) = 1 /\ <<m>>[1] = m
      OBVIOUS
    <3>6. /\ <<m>> \o t \in Seq(Nat) /\ Len(<<m>> \o t) = k + 1
          /\ \A i \in 1..(k + 1) : (<<m>> \o t)[i] = IF i <= 1 THEN <<m>>[i] ELSE t[i - 1]
      BY <3>4, <3>5, ConcatProperties
    <3>7. \A i \in 1..(k + 1) : (<<m>> \o t)[i] = m + i - 1
      BY <3>4, <3>5, <3>6
    <3>8. g[m] = [i \in 1..(k + 1) |-> m + i - 1]
      BY <1>1, <3>1
    <3>9. <<m>> \o t = [i \in 1..(k + 1) |-> (<<m>> \o t)[i]]
      BY <3>6, LenProperties
    <3> QED
      BY <3>3, <3>7, <3>8, <3>9
  <2>3. g = [m \in 0..n |-> g[m]]
    BY <1>1
  <2> QED
    BY <2>1, <2>2, <2>3
<1>3. PICK f : f = CHOOSE h : Rec(h)
  OBVIOUS
<1>4. Rec(f)
  <2> HIDE DEF Rec
  <2> QED
    BY <1>2, <1>3
<1>5. BuildIndices(n) = f[0]
  BY <1>3 DEF BuildIndices
<1>6. \A m \in 0..n : (m # n => f[m + 1] = g[m + 1]) => f[m] = g[m]
  BY <1>2, <1>4
<1>7. f[0] = g[0]
  BY <1>6, SameDownwards
<1>8. g[0] = [i \in 1..n |-> i - 1]
  BY <1>1
<1> QED
  BY <1>5, <1>7, <1>8

LEMMA TakeCuts ==
    ASSUME NEW S, NEW p \in Seq(S), NEW n \in Nat, n <= Len(p)
    PROVE  Take(n, p) = SubSeq(p, 1, n)
<1> DEFINE Rec(h) == h = [m \in 0..n |-> IF m = 0 \/ n - m >= Len(p) THEN <<>>
                                         ELSE <<p[n - m + 1]>> \o h[m - 1]]
<1>0. Len(p) \in Nat
  BY LenProperties
<1>1. PICK g : g = [m \in 0..n |-> SubSeq(p, n - m + 1, n)]
  OBVIOUS
<1>2. Rec(g)
  <2>1. g[0] = <<>>
    BY <1>0, <1>1, SubSeqEmpty
  <2>2. ASSUME NEW m \in 0..n, m # 0
        PROVE  ~(n - m >= Len(p)) /\ g[m] = <<p[n - m + 1]>> \o g[m - 1]
    <3>1. /\ n - m + 1 \in 1..Len(p) /\ n \in (n - m + 1)..Len(p)
          /\ m - 1 \in 0..n /\ n - (m - 1) + 1 = (n - m + 1) + 1
      BY <1>0, <2>2
    <3>2. SubSeq(p, n - m + 1, n) = <<p[n - m + 1]>> \o SubSeq(p, (n - m + 1) + 1, n)
      BY <3>1, SubSeqRecursiveFirst
    <3> QED
      <4>1. g[m] = SubSeq(p, n - m + 1, n) /\ g[m - 1] = SubSeq(p, (n - m + 1) + 1, n)
        BY <1>1, <3>1
      <4> QED
        BY <1>0, <2>2, <3>2, <4>1
  <2>3. g = [m \in 0..n |-> g[m]]
    BY <1>1
  <2> QED
    BY <2>1, <2>2, <2>3
<1>3. PICK f : f = CHOOSE h : Rec(h)
  OBVIOUS
<1>4. Rec(f)
  <2> HIDE DEF Rec
  <2> QED
    BY <1>2, <1>3
<1>5. Take(n, p) = f[n]
  BY <1>3 DEF Take
<1>6. \A m \in 0..n : (m # 0 => f[m - 1] = g[m - 1]) => f[m] = g[m]
  BY <1>2, <1>4
<1>7. f[n] = g[n]
  BY <1>6, SameUpwards
<1>8. g[n] = SubSeq(p, 1, n)
  BY <1>0, <1>1
<1> QED
  BY <1>5, <1>7, <1>8

LEMMA HeadNCuts ==
    ASSUME NEW S, NEW p \in Seq(S), NEW n \in Nat, n <= Len(p)
    PROVE  HeadN(n, p) = SubSeq(p, 1, n)
<1> DEFINE Rec(h) == h = [i \in 0..Len(p) |-> IF i = Len(p) \/ n <= i THEN <<>>
                                              ELSE <<p[i + 1]>> \o h[i + 1]]
<1>0. Len(p) \in Nat
  BY LenProperties
<1>1. PICK g : g = [i \in 0..Len(p) |-> SubSeq(p, i + 1, n)]
  OBVIOUS
<1>2. Rec(g)
  <2>1. ASSUME NEW i \in 0..Len(p), i = Len(p) \/ n <= i PROVE g[i] = <<>>
    <3>1. n < i + 1
      BY <1>0, <2>1
    <3> QED
      BY <1>0, <1>1, <3>1, SubSeqEmpty
  <2>2. ASSUME NEW i \in 0..Len(p), ~(i = Len(p) \/ n <= i)
        PROVE  g[i] = <<p[i + 1]>> \o g[i + 1]
    <3>1. i + 1 \in 1..Len(p) /\ n \in (i + 1)..Len(p) /\ i + 1 \in 0..Len(p)
      BY <1>0, <2>2
    <3>2. SubSeq(p, i + 1, n) = <<p[i + 1]>> \o SubSeq(p, (i + 1) + 1, n)
      BY <3>1, SubSeqRecursiveFirst
    <3> QED
      BY <1>1, <3>1, <3>2
  <2>3. g = [i \in 0..Len(p) |-> g[i]]
    BY <1>1
  <2> QED
    BY <2>1, <2>2, <2>3
<1>3. PICK f : f = CHOOSE h : Rec(h)
  OBVIOUS
<1>4. Rec(f)
  <2> HIDE DEF Rec
  <2> QED
    BY <1>2, <1>3
<1>5. HeadN(n, p) = f[0]
  BY <1>3 DEF HeadN
<1>6. \A i \in 0..Len(p) : (i # Len(p) => f[i + 1] = g[i + 1]) => f[i] = g[i]
  BY <1>2, <1>4
<1>7. f[0] = g[0]
  <2>1. PICK l \in Nat : l = Len(p)
    BY <1>0
  <2>2. \A i \in 0..l : (i # l => f[i + 1] = g[i + 1]) => f[i] = g[i]
    BY <1>6, <2>1
  <2>3. \A n1 \in Nat : (\A i \in 0..n1 : (i # n1 => f[i + 1] = g[i + 1]) => f[i] = g[i])
                           => \A i \in 0..n1 : f[i] = g[i]
    BY SameDownwards
  <2>4. \A i \in 0..l : f[i] = g[i]
    BY <2>2, <2>3
  <2> QED
    BY <2>4
<1>8. g[0] = SubSeq(p, 1, n)
  BY <1>0, <1>1
<1> QED
  BY <1>5, <1>7, <1>8

LEMMA HeadNImplCuts ==
    ASSUME NEW S, NEW p \in Seq(S), NEW n \in Nat, n <= Len(p)
    PROVE  HeadNImpl(n, p) = SubSeq(p, 1, n)
<1> DEFINE Rec(h) == h = [m \in 0..n |-> IF m = 0 THEN <<>> ELSE Append(h[m - 1], p[m])]
<1>0. Len(p) \in Nat
  BY LenProperties
<1>1. PICK g : g = [m \in 0..n |-> SubSeq(p, 1, m)]
  OBVIOUS
<1>2. Rec(g)
  <2>1. g[0] = <<>>
    BY <1>0, <1>1, SubSeqEmpty
  <2>2. ASSUME NEW m \in 0..n, m # 0 PROVE g[m] = Append(g[m - 1], p[m])
    <3>1. m \in 1..Len(p) /\ 1 \in 1..Len(p) /\ m - 1 \in 0..n
      BY <1>0, <2>2
    <3>2. SubSeq(p, 1, m) = Append(SubSeq(p, 1, m - 1), p[m])
      <4>1. SubSeq(p, 1, m) = SubSeq(p, 1, m - 1) \o <<p[m]>>
        BY <3>1, SubSeqRecursiveSecond
      <4>2. p[m] \in S /\ SubSeq(p, 1, m - 1) \in Seq(S)
        BY <1>0, <3>1, LenProperties, CutShape
      <4> QED
        BY <4>1, <4>2, AppendIsConcat
    <3> QED
      BY <1>1, <3>1, <3>2
  <2>3. g = [m \in 0..n |-> g[m]]
    BY <1>1
  <2> QED
    BY <2>1, <2>2, <2>3
<1>3. PICK f : f = CHOOSE h : Rec(h)
  OBVIOUS
<1>4. Rec(f)
  <2> HIDE DEF Rec
  <2> QED
    BY <1>2, <1>3
<1>5. HeadNImpl(n, p) = f[n]
  BY <1>3 DEF HeadNImpl
<1>6. \A m \in 0..n : (m # 0 => f[m - 1] = g[m - 1]) => f[m] = g[m]
  BY <1>2, <1>4
<1>7. f[n] = g[n]
  BY <1>6, SameUpwards
<1>8. g[n] = SubSeq(p, 1, n)
  BY <1>0, <1>1
<1> QED
  BY <1>5, <1>7, <1>8

LEMMA PacksCut ==
    ASSUME NEW S, NEW p \in Seq(S) PROVE CutsAgree(p)
<1>1. PICK l \in Nat : l = Len(p)
  BY LenProperties
<1>2. BuildIndices(l) = Consecutive(0, l, 1)
  BY BuildIndicesCounts DEF Consecutive
<1>3. ASSUME NEW m \in Nat, NEW n \in Nat, m <= n, n <= l
      PROVE  Slice(m, n, p) = SubSeq(p, m + 1, n)
  <2>1. PICK k \in Nat : k = n - m
    BY <1>3
  <2>2. Slice(m, n, p) = [i \in 1..k |-> p[m + i]]
    <3>1. Consecutive(m, k, 1) = [i \in 1..k |-> m + i - 1]
      BY <2>1 DEF Consecutive
    <3>2. SubPack(Consecutive(m, k, 1), p) = [i \in 1..k |-> p[m + i]]
      BY <2>1, <3>1 DEF SubPack
    <3> QED
      BY <2>1, <3>2 DEF Slice
  <2>3. m + 1 \in Nat \ {0} /\ m + 1 <= n + 1 /\ n <= Len(p) /\ k = n - (m + 1) + 1
    BY <1>1, <1>3, <2>1
  <2>4. \A i \in 1..k : Slice(m, n, p)[i] = p[(m + 1) + i - 1]
    BY <2>1, <2>2
  <2>5. Slice(m, n, p) = [i \in 1..k |-> Slice(m, n, p)[i]]
    BY <2>2
  <2> QED
    BY <2>3, <2>4, <2>5, IsCut
<1>4. ASSUME NEW n \in Nat, n <= l
      PROVE  LET head == SubSeq(p, 1, n) IN
             /\ head \in {Take(n, p)} \cap {HeadN(n, p)} \cap {HeadNImpl(n, p)}
                         \cap {FirstN(n, p)} \cap {FirstOf(n, p)} \cap {DropFromEnd(l - n, p)}
             /\ LastN(l - n, p) = SubSeq(p, n + 1, l)
             /\ \A m \in 0..n : Slice(m, n, p) = SubSeq(p, m + 1, n)
             /\ CompareVectorValues(head, p) <=> n = l
             /\ n < l => IsIn(p[n + 1], p)
  <2>1. PICK head : head = SubSeq(p, 1, n)
    OBVIOUS
  <2>2. Take(n, p) = head /\ HeadN(n, p) = head /\ HeadNImpl(n, p) = head
    BY <1>1, <1>4, <2>1, TakeCuts, HeadNCuts, HeadNImplCuts
  <2>3. DropFromEnd(l - n, p) = head
    <3>1. Len(p) - (l - n) = n
      BY <1>1
    <3> QED
      BY <2>2, <3>1 DEF DropFromEnd
  <2>4. FirstN(n, p) = head
    <3>1. FirstN(n, p) = Slice(0, n, p)
      <4>1. n - 0 = n
        OBVIOUS
      <4> QED
        BY <4>1 DEF FirstN, Slice
    <3>2. Slice(0, n, p) = SubSeq(p, 0 + 1, n)
      BY <1>3, <1>4
    <3> QED
      BY <2>1, <3>1, <3>2
  <2>5. FirstOf(n, p) = head
    <3>1. FirstOf(n, p) = [i \in 1..n |-> p[i]]
      BY DEF FirstOf, Iterate
    <3>2. FirstN(n, p) = [i \in 1..n |-> p[i]]
      BY DEF FirstN, SubPack, Consecutive
    <3> QED
      BY <2>4, <3>1, <3>2
  <2>6. LastN(l - n, p) = SubSeq(p, n + 1, l)
    <3>1. Len(p) - (l - n) = n
      BY <1>1
    <3>2. LastN(l - n, p) = Slice(n, l, p)
      BY <3>1 DEF LastN, Slice
    <3> QED
      BY <1>3, <1>4, <3>2
  <2>7. \A m \in 0..n : Slice(m, n, p) = SubSeq(p, m + 1, n)
    BY <1>3, <1>4
  <2>8. CompareVectorValues(head, p) <=> n = l
    <3>1. Len(head) = n /\ \A i \in 1..n : head[i] = p[i]
      BY <1>1, <1>4, <2>1, CutShape
    <3> QED
      BY <1>1, <3>1 DEF CompareVectorValues
  <2>9. n < l => IsIn(p[n + 1], p)
    BY <1>1, <1>4, LenProperties DEF IsIn
  <2> QED
    BY <2>1, <2>2, <2>3, <2>4, <2>5, <2>6, <2>7, <2>8, <2>9
<1>5. \A n \in 0..l : n \in Nat /\ n <= l
  OBVIOUS
<1> QED
  BY <1>1, <1>2, <1>4, <1>5 DEF CutsAgree

-----------------------------------------------------------------------------
(* The binders.                                                             *)

LEMMA PartsOfPack ==
    ASSUME NEW S, NEW p \in Seq(S), NEW n \in Nat, n <= Len(p)
    PROVE  SubSeq(p, 1, n) \o SubSeq(p, n + 1, Len(p)) = p
<1>0. PICK l \in Nat : l = Len(p)
  BY LenProperties
<1>1. l = Len(p) /\ n <= l
  BY <1>0
<1>2. PICK h : h = SubSeq(p, 1, n)
  OBVIOUS
<1>3. PICK t : t = SubSeq(p, n + 1, l)
  OBVIOUS
<1>4. /\ h \in Seq(S) /\ Len(h) = n /\ \A i \in 1..n : h[i] = p[i]
      /\ t \in Seq(S) /\ Len(t) = l - n /\ \A i \in 1..(l - n) : t[i] = p[n + i]
  BY <1>1, <1>2, <1>3, CutShape
<1>5. /\ h \o t \in Seq(S) /\ Len(h \o t) = l
      /\ \A i \in 1..l : (h \o t)[i] = IF i <= n THEN h[i] ELSE t[i - n]
  BY <1>1, <1>4, ConcatProperties
<1>6. \A i \in 1..l : (h \o t)[i] = p[i]
  BY <1>1, <1>4, <1>5
<1> QED
  BY <1>1, <1>2, <1>3, <1>5, <1>6, SeqEqual

LEMMA EasyBindArrives ==
    ASSUME NEW S, NEW p \in Seq(S), NEW n \in Nat, n <= Len(p)
    PROVE  BindCall(EasyBind(Len(p), SubSeq(p, 1, n)), SubSeq(p, n + 1, Len(p))) = p
<1>0. PICK l \in Nat : l = Len(p)
  BY LenProperties
<1>1. l = Len(p) /\ n <= l
  BY <1>0
<1>2. PICK h : h = SubSeq(p, 1, n)
  OBVIOUS
<1>3. PICK t : t = SubSeq(p, n + 1, l)
  OBVIOUS
<1>4. PICK k \in Nat : k = l - n
  <2>1. n <= l
    BY <1>1
  <2> QED
    BY <2>1
<1>5. /\ Len(h) = n /\ DOMAIN h = 1..n /\ \A i \in 1..n : h[i] = p[i]
      /\ \A i \in 1..k : t[i] = p[n + i]
  <2>1. h \in Seq(S) /\ Len(h) = n /\ \A i \in 1..n : h[i] = p[i]
    BY <1>1, <1>2, CutShape
  <2>2. \A i \in 1..(l - (n + 1) + 1) : t[i] = p[(n + 1) + i - 1]
    BY <1>1, <1>3, CutShape
  <2> QED
    BY <1>4, <2>1, <2>2, LenProperties
<1> DEFINE own  == BoundAll(h)
           rest == [i \in 1..k |-> Place(i)]
           B    == {Bound(h[i]) : i \in 1..n} \cup {Place(i) : i \in 1..k}
<1>6. EasyBind(l, h) = own \o rest
  <2>1. l - Len(h) = k
    BY <1>4, <1>5
  <2>2. BuildIndices(k) = [i \in 1..k |-> i - 1]
    BY BuildIndicesCounts
  <2>3. [i \in DOMAIN BuildIndices(k) |-> Place(BuildIndices(k)[i] + 1)] = rest
    BY <2>2
  <2> QED
    BY <2>1, <2>3 DEF EasyBind
<1>7. own \in Seq(B) /\ Len(own) = n /\ \A i \in 1..n : own[i] = Bound(h[i])
  <2>1. own \in [1..n -> B] /\ \A i \in 1..n : own[i] = Bound(h[i])
    BY <1>5 DEF BoundAll
  <2> HIDE DEF own, B
  <2> QED
    BY <1>1, <2>1
<1>8. rest \in Seq(B) /\ Len(rest) = k /\ \A i \in 1..k : rest[i] = Place(i)
  OBVIOUS
<1>9. PICK all : all = EasyBind(l, h)
  OBVIOUS
<1>10. /\ DOMAIN all = 1..l
       /\ \A i \in 1..l : all[i] = IF i <= n THEN Bound(h[i]) ELSE Place(i - n)
  <2>1. /\ own \o rest \in Seq(B) /\ Len(own \o rest) = n + k
        /\ \A i \in 1..(n + k) : (own \o rest)[i] = IF i <= n THEN own[i] ELSE rest[i - n]
    <3>1. /\ own \o rest \in Seq(B) /\ Len(own \o rest) = Len(own) + Len(rest)
          /\ \A i \in 1..(Len(own) + Len(rest)) :
               (own \o rest)[i] = IF i <= Len(own) THEN own[i] ELSE rest[i - Len(own)]
      <4> HIDE DEF own, rest, B
      <4> QED
        BY <1>7, <1>8, ConcatProperties
    <3> HIDE DEF own, rest, B
    <3> QED
      BY <1>7, <1>8, <3>1
  <2>2. n + k = l /\ \A i \in 1..l : ~(i <= n) => i - n \in 1..k
    BY <1>1, <1>4
  <2> HIDE DEF own, rest, B
  <2> QED
    BY <1>1, <1>6, <1>7, <1>8, <1>9, <2>1, <2>2, LenProperties
<1>11. \A i \in 1..l : (IF all[i].place = 0 THEN all[i].val ELSE t[all[i].place]) = p[i]
  <2> TAKE i \in 1..l
  <2>1. CASE i <= n
    BY <1>1, <1>5, <1>10, <2>1 DEF Bound
  <2>2. CASE ~(i <= n)
    <3>1. i - n \in 1..k /\ n + (i - n) = i /\ i - n # 0
      BY <1>1, <1>4, <2>2
    <3>2. all[i].place = i - n
      BY <1>10, <2>2 DEF Place
    <3> QED
      BY <1>5, <3>1, <3>2
  <2> QED
    BY <2>1, <2>2
<1>12. BindCall(all, t) = [i \in 1..l |-> p[i]]
  BY <1>10, <1>11 DEF BindCall
<1> QED
  BY <1>1, <1>2, <1>3, <1>9, <1>12, LenProperties

\* A curry, called with the parts of a pack, holds what it was given so far,
\* and with the last of them is invoked.
LEMMA CurryArrives ==
    ASSUME NEW S, NEW p \in Seq(S), NEW k \in Nat, 1 <= k, k <= Len(p),
           NEW cut \in Cuts(k, Len(p))
    PROVE  Curry({Len(p)}, Calls(p, k, cut)) = [held |-> <<>>, invoked |-> <<p>>]
<1>1. PICK l \in Nat : l = Len(p)
  BY LenProperties
<1>2. PICK pieces : pieces = Calls(p, k, cut)
  OBVIOUS
<1>3. PICK end : end = [i \in 0..k |-> CallEnd(i, k, l, cut)]
  OBVIOUS
<1>4. k \in Nat \ {0} /\ k <= l
  BY <1>1
<1>5. /\ end \in [0..k -> 0..l] /\ end[0] = 0 /\ end[k] = l
      /\ \A i \in 1..k : end[i - 1] < end[i]
  <2>1. /\ cut \in [1..(k - 1) -> 1..(l - 1)]
        /\ \A i \in 2..(k - 1) : cut[i - 1] < cut[i]
    BY <1>1 DEF Cuts
  <2>2. end[0] = 0 /\ end[k] = l /\ \A i \in 1..(k - 1) : end[i] = cut[i]
    BY <1>3, <1>4 DEF CallEnd
  <2>3. \A i \in 1..(k - 1) : end[i] \in 1..(l - 1)
    BY <2>1, <2>2
  <2>4. end \in [0..k -> 0..l]
    <3>1. \A i \in 0..k : i = 0 \/ i = k \/ i \in 1..(k - 1)
      BY <1>4
    <3>2. \A i \in 0..k : end[i] \in 0..l
      BY <1>1, <2>2, <2>3, <3>1
    <3> QED
      BY <1>3, <3>2
  <2>5. ASSUME NEW i \in 1..k PROVE end[i - 1] < end[i]
    <3>1. CASE i = 1 /\ i = k
      BY <1>4, <2>2, <3>1
    <3>2. CASE i = 1 /\ i # k
      <4>1. 1 \in 1..(k - 1)
        BY <1>4, <3>2
      <4> QED
        BY <2>2, <2>3, <3>2, <4>1
    <3>3. CASE i # 1 /\ i = k
      <4>1. k - 1 \in 1..(k - 1)
        BY <1>4, <3>3
      <4> QED
        BY <1>1, <2>2, <2>3, <3>3, <4>1
    <3>4. CASE i # 1 /\ i # k
      <4>1. i \in 2..(k - 1) /\ i \in 1..(k - 1) /\ i - 1 \in 1..(k - 1)
        BY <1>4, <3>4
      <4> QED
        BY <2>1, <2>2, <4>1
    <3> QED
      BY <3>1, <3>2, <3>3, <3>4
  <2> QED
    BY <2>2, <2>4, <2>5
<1>6. pieces = [i \in 1..k |-> SubSeq(p, end[i - 1] + 1, end[i])]
  <2>1. \A i \in 1..k : /\ CallEnd(i - 1, k, l, cut) = end[i - 1]
                        /\ CallEnd(i, k, l, cut) = end[i]
    BY <1>3, <1>4
  <2> QED
    BY <1>1, <1>2, <2>1 DEF Calls
<1>7. Len(pieces) = k
  BY <1>4, <1>6
<1> DEFINE start == [held |-> <<>>, invoked |-> <<>>]
           Rec(h) == h = [i \in 0..Len(pieces) |->
                            IF i = 0 THEN start
                            ELSE IF h[i - 1].invoked # <<>> THEN h[i - 1]
                            ELSE CurryCall({l}, h[i - 1], pieces[i])]
<1>8. PICK g : g = [i \in 0..k |-> IF i = k THEN [held |-> <<>>, invoked |-> <<p>>]
                                  ELSE [held |-> SubSeq(p, 1, end[i]), invoked |-> <<>>]]
  OBVIOUS
<1>9. Rec(g)
  <2>1. g[0] = start
    <3>1. SubSeq(p, 1, 0) = <<>>
      BY SubSeqEmpty
    <3> QED
      BY <1>4, <1>5, <1>8, <3>1
  <2>2. ASSUME NEW i \in 1..k
        PROVE  g[i - 1].invoked = <<>> /\ g[i] = CurryCall({l}, g[i - 1], pieces[i])
    <3>1. i - 1 \in 0..k /\ i - 1 # k /\ i \in 0..k
      BY <1>4
    <3>2. g[i - 1] = [held |-> SubSeq(p, 1, end[i - 1]), invoked |-> <<>>]
      BY <1>8, <3>1
    <3>3. PICK a \in Nat : a = end[i - 1]
      BY <1>5, <3>1
    <3>4. PICK b \in 0..l : b = end[i]
      BY <1>5, <3>1
    <3>14. a < b /\ b <= l /\ b <= Len(p) /\ b \in Nat /\ a <= Len(p)
      BY <1>1, <1>5, <3>3, <3>4
    <3>5. SubSeq(p, 1, a) \o SubSeq(p, a + 1, b) = SubSeq(p, 1, b)
      <4>1. PICK q : q = SubSeq(p, 1, b)
        OBVIOUS
      <4>2. q \in Seq(S) /\ Len(q) = b /\ \A j \in 1..b : q[j] = p[j]
        BY <3>14, <4>1, CutShape
      <4>3. SubSeq(q, 1, a) \o SubSeq(q, a + 1, Len(q)) = q
        <5>1. a <= Len(q)
          BY <3>14, <4>2
        <5> QED
          BY <4>2, <5>1, PartsOfPack
      <4>4. SubSeq(q, 1, a) = SubSeq(p, 1, a)
        <5>1. /\ SubSeq(q, 1, a) \in Seq(S) /\ Len(SubSeq(q, 1, a)) = a
              /\ \A j \in 1..a : SubSeq(q, 1, a)[j] = q[j]
          BY <3>14, <4>2, CutShape
        <5>2. /\ SubSeq(p, 1, a) \in Seq(S) /\ Len(SubSeq(p, 1, a)) = a
              /\ \A j \in 1..a : SubSeq(p, 1, a)[j] = p[j]
          BY <3>14, CutShape
        <5>3. \A j \in 1..a : q[j] = p[j]
          BY <3>14, <4>2
        <5> QED
          BY <5>1, <5>2, <5>3, SeqEqual
      <4>5. SubSeq(q, a + 1, b) = SubSeq(p, a + 1, b)
        <5>1. /\ SubSeq(q, a + 1, b) \in Seq(S) /\ Len(SubSeq(q, a + 1, b)) = b - a
              /\ \A j \in 1..(b - a) : SubSeq(q, a + 1, b)[j] = q[a + j]
          BY <3>14, <4>2, CutShape
        <5>2. /\ SubSeq(p, a + 1, b) \in Seq(S) /\ Len(SubSeq(p, a + 1, b)) = b - a
              /\ \A j \in 1..(b - a) : SubSeq(p, a + 1, b)[j] = p[a + j]
          BY <3>14, CutShape
        <5>3. \A j \in 1..(b - a) : q[a + j] = p[a + j]
          BY <3>14, <4>2
        <5> QED
          BY <5>1, <5>2, <5>3, SeqEqual
      <4> QED
        BY <4>1, <4>2, <4>3, <4>4, <4>5
    <3>6. pieces[i] = SubSeq(p, a + 1, b)
      BY <1>6, <3>3, <3>4
    <3>7. PICK held : held = SubSeq(p, 1, b)
      OBVIOUS
    <3>8. Len(held) = b
      BY <3>14, <3>7, CutShape
    <3>9. CurryCall({l}, g[i - 1], pieces[i]) =
            IF b = l THEN [held |-> <<>>, invoked |-> Append(<<>>, held)]
                     ELSE [held |-> held, invoked |-> <<>>]
      <4>1. g[i - 1].held \o pieces[i] = held /\ g[i - 1].invoked = <<>>
        <5>1. g[i - 1].held = SubSeq(p, 1, a) /\ g[i - 1].invoked = <<>>
          BY <3>2, <3>3
        <5> QED
          BY <5>1, <3>5, <3>6, <3>7
      <4>2. [g[i - 1] EXCEPT !.held = held] = [held |-> held, invoked |-> <<>>]
        BY <3>2
      <4> QED
        BY <3>8, <4>1, <4>2 DEF CurryCall
    <3>10. b = l <=> i = k
      <4>1. CASE i = k
        BY <1>5, <3>4, <4>1
      <4>2. CASE i # k
        <5>1. i + 1 \in 1..k /\ (i + 1) - 1 = i
          BY <4>2
        <5>2. end[i] < end[i + 1] /\ end[i + 1] \in 0..l
          BY <1>5, <5>1
        <5> QED
          BY <3>4, <4>2, <5>2
      <4> QED
        BY <4>1, <4>2
    <3>11. Append(<<>>, held) = <<held>>
      OBVIOUS
    <3>12. CASE i = k
      <4>1. held = p
        <5>1. b = Len(p) /\ \A j \in 1..b : held[j] = p[j]
          BY <1>1, <3>14, <3>7, <3>10, <3>12, CutShape
        <5>2. held \in Seq(S)
          BY <3>14, <3>7, CutShape
        <5> QED
          BY <3>8, <5>1, <5>2, SeqEqual
      <4> QED
        BY <1>8, <3>1, <3>2, <3>9, <3>10, <3>11, <3>12, <4>1
    <3>13. CASE i # k
      BY <1>8, <3>1, <3>2, <3>4, <3>7, <3>9, <3>10, <3>13
    <3> QED
      BY <3>12, <3>13
  <2>3. g = [i \in 0..Len(pieces) |-> g[i]]
    BY <1>7, <1>8
  <2>4. \A i \in 0..Len(pieces) : g[i] = IF i = 0 THEN start
                                  ELSE IF g[i - 1].invoked # <<>> THEN g[i - 1]
                                  ELSE CurryCall({l}, g[i - 1], pieces[i])
    <3>1. \A i \in 0..Len(pieces) : i = 0 \/ i \in 1..k
      BY <1>4, <1>7
    <3> HIDE DEF start
    <3> QED
      BY <2>1, <2>2, <3>1
  <2> HIDE DEF start
  <2> QED
    BY <2>3, <2>4
<1>10. PICK f : f = CHOOSE h : Rec(h)
  OBVIOUS
<1>11. Rec(f)
  <2> HIDE DEF Rec
  <2> QED
    BY <1>9, <1>10
<1>12. Curry({l}, pieces) = f[k]
  BY <1>7, <1>10 DEF Curry
<1>13. \A i \in 0..k : (i # 0 => f[i - 1] = g[i - 1]) => f[i] = g[i]
  <2> HIDE DEF start
  <2> QED
    BY <1>7, <1>9, <1>11
<1>14. f[k] = g[k]
  BY <1>13, SameUpwards
<1>15. g[k] = [held |-> <<>>, invoked |-> <<p>>]
  BY <1>4, <1>8
<1> QED
  BY <1>1, <1>2, <1>12, <1>14, <1>15

LEMMA PackArrives ==
    ASSUME NEW S, NEW p \in Seq(S) PROVE BoundArrives(p)
<1>1. PICK l \in Nat : l = Len(p)
  BY LenProperties
<1>2. ASSUME NEW n \in Nat, n <= l
      PROVE  /\ BindCall(EasyBind(l, SubSeq(p, 1, n)), SubSeq(p, n + 1, l)) = p
             /\ Partial(SubSeq(p, 1, n), SubSeq(p, n + 1, l)) = p
  BY <1>1, <1>2, EasyBindArrives, PartsOfPack DEF Partial
<1>3. ASSUME l > 0 PROVE BindThis(Head(p), Tail(p)) = p
  <2>1. p # <<>> /\ 1 \in 1..Len(p) /\ Len(p) \in 1..Len(p)
    BY <1>1, <1>3
  <2>2. Head(p) = p[1] /\ Tail(p) = SubSeq(p, 2, Len(p))
    BY <2>1, TailIsSubSeq
  <2>3. SubSeq(p, 1, Len(p)) = <<p[1]>> \o SubSeq(p, 1 + 1, Len(p))
    BY <2>1, SubSeqRecursiveFirst
  <2>4. SubSeq(p, 1, Len(p)) = p
    <3>1. /\ SubSeq(p, 1, l) \in Seq(S) /\ Len(SubSeq(p, 1, l)) = l
          /\ \A i \in 1..l : SubSeq(p, 1, l)[i] = p[i]
      BY <1>1, CutShape
    <3> QED
      BY <1>1, <3>1, SeqEqual
  <2> QED
    BY <2>2, <2>3, <2>4 DEF BindThis
<1>4. ASSUME NEW s \in Splits(p)
      PROVE  Curry({l}, s) = [held |-> <<>>, invoked |-> <<p>>]
  <2>1. PICK k \in 1..Len(p) : \E cut \in Cuts(k, Len(p)) : s = Calls(p, k, cut)
    BY DEF Splits
  <2>2. PICK cut \in Cuts(k, Len(p)) : s = Calls(p, k, cut)
    BY <2>1
  <2>3. k \in Nat /\ 1 <= k /\ k <= Len(p)
    BY <1>1
  <2> QED
    BY <1>1, <2>2, <2>3, CurryArrives
<1>5. \A n \in 0..l : n \in Nat /\ n <= l
  OBVIOUS
<1> QED
  BY <1>1, <1>2, <1>3, <1>4, <1>5 DEF BoundArrives

\* The templates that cut packs agree with the subsequences they name, and what
\* easy_bind(), partial(), bind_this() or a curry binds early reaches the
\* callable as if it were given in one call: for packs of any length and every
\* way of spreading them over calls.
THEOREM PacksArrive == SignalSpec => []BindersAgree
<1>1. SignalsInv => BindersAgree
  <2> SUFFICES ASSUME SignalsInv, NEW p \in Packs PROVE CutsAgree(p) /\ BoundArrives(p)
    BY DEF BindersAgree
  <2> DEFINE S == Values \cup {MovedFrom}
  <2>1. p \in Seq(S)
    <3>1. /\ kind \in Kinds /\ connected \in Seq(Slots)
          /\ \A i \in DOMAIN connected : connected[i] \in Slots
      BY ElementOfSeq, LenProperties DEF SignalsInv
    <3>2. Arity \in 1..9
      BY CountAssumption DEF Arity
    <3>3. CASE \E i \in DOMAIN received : p = received[i]
      <4>1. PICK i \in DOMAIN received : p = received[i]
        BY <3>3
      <4>2. sent # <<>> /\ sent \in [1..Arity -> Values]
        BY <4>1 DEF SignalsInv
      <4>3. PICK n \in 0..Len(connected) : received = [k \in 1..n |-> Heard(k)]
        BY <4>2 DEF SignalsInv
      <4>4. i \in DOMAIN connected /\ i \in 1..n /\ p = Heard(i)
        BY <3>1, <4>1, <4>3, LenProperties
      <4>5. PICK slot \in Slots : slot = connected[i]
        BY <3>1, <4>4
      <4>6. PICK own : own = slot.values
        OBVIOUS
      <4>7. PICK w \in Nat : w = Width(slot)
        BY <3>1, BoundShape
      <4>8. own \in Seq(Values) /\ Len(own) \in Nat
        BY <4>6, SlotsAssumption, LenProperties
      <4>9. p = [j \in 1..w |-> IF j <= Len(own) THEN own[j]
                                ELSE Left(i - 1)[j - Len(own)]]
        BY <4>4, <4>5, <4>6, <4>7 DEF Heard
      <4>10. ASSUME NEW j \in 1..w PROVE p[j] \in S
        <5>1. CASE j <= Len(own)
          BY <4>8, <4>9, <5>1, ElementOfSeq
        <5>2. CASE ~(j <= Len(own))
          <6>1. j - Len(own) \in 1..Arity
            <7>1. CASE kind = "signal"
              BY <4>7, <4>8, <5>2, <7>1, CountAssumption DEF Width, Arity
            <7>2. CASE kind # "signal"
              BY <4>6, <4>7, <4>8, <5>2, <7>2 DEF Width, Arity
            <7> QED
              BY <7>1, <7>2
          <6>2. Left(i - 1)[j - Len(own)] \in S
            BY <4>2, <6>1 DEF Left
          <6> QED
            BY <4>9, <5>2, <6>2
        <5> QED
          BY <5>1, <5>2
      <4>11. p \in [1..w -> S]
        BY <4>9, <4>10
      <4> HIDE DEF S
      <4> QED
        BY <4>11, SeqOfFcn
    <3>4. CASE \E i \in DOMAIN connected : p = connected[i].values \o sent
      <4>1. PICK i \in DOMAIN connected : p = connected[i].values \o sent
        BY <3>4
      <4>2. connected[i].values \in Seq(Values)
        BY <3>1, SlotsAssumption
      <4>3. sent \in Seq(Values)
        <5>1. CASE sent = <<>>
          BY <5>1
        <5>2. CASE sent # <<>>
          BY <3>2, <5>2, SeqOfFcn DEF SignalsInv
        <5> QED
          BY <5>1, <5>2
      <4>4. p \in Seq(Values)
        BY <4>1, <4>2, <4>3, ConcatProperties
      <4> QED
        BY <4>4, SeqMonotonic
    <3> QED
      BY <3>3, <3>4 DEF Packs
  <2> HIDE DEF S
  <2> QED
    BY <2>1, PacksCut, PackArrives
<1> QED
  BY <1>1, SignalsInvInductive, PTL DEF SignalSpec
=============================================================================
