--------------------------- MODULE CondWaitProofs ---------------------------
(***************************************************************************)
(* Proofs about CondWaitClients, for any numbers of waiters and setters,   *)
(* any objects and any bound on the sets.                                  *)
(***************************************************************************)
EXTENDS CondWaitClients, TLAPS

\* The library's two ways of waiting safely: everybody is notified, or there
\* is at most one thread to notify.  NoStrandedWaiter is inductive with it.
OneCallerOrBroadcast ==
    \/ obj.broadcast
    \/ \A v, w \in Waiters : InCall(v) /\ InCall(w) => v = w

-----------------------------------------------------------------------------
\* What a notification does to the record: the value is kept, nobody falls
\* asleep, and whoever was the only sleeper is awake afterwards.
LEMMA NotifyOneLemma ==
    ASSUME NEW T, NEW c \in CWType(T), NEW d \in NotifyOne(c)
    PROVE  /\ d \in CWType(T)
           /\ d.var = c.var
           /\ d.asleep \subseteq c.asleep
           /\ (\A v, w \in c.asleep : v = w) => d.asleep = {}
<1>1. CASE c.asleep = {}
  BY <1>1 DEF NotifyOne
<1>2. CASE c.asleep # {}
  <2>1. PICK t \in c.asleep : d = Unblock(c, t)
    BY <1>2 DEF NotifyOne
  <2>2. d = [var |-> c.var, asleep |-> c.asleep \ {t}]
    BY <2>1 DEF Unblock, CWType
  <2> QED
    BY <2>2 DEF CWType
<1> QED
  BY <1>1, <1>2

LEMMA NotifyAllLemma ==
    ASSUME NEW T, NEW c \in CWType(T)
    PROVE  /\ NotifyAll(c) \in CWType(T)
           /\ NotifyAll(c).var = c.var
           /\ NotifyAll(c).asleep = {}
BY DEF NotifyAll, CWType

\* The two setters never lower the value and move no thread.
LEMMA SetLemma ==
    ASSUME NEW T, NEW c \in CWType(T)
    PROVE  /\ SetInt(c) \in CWType(T) /\ SetInt(c).asleep = c.asleep
           /\ SetBool(c) \in CWType(T) /\ SetBool(c).asleep = c.asleep
BY DEF SetInt, SetBool, CWType

LEMMA BlockLemma ==
    ASSUME NEW T, NEW c \in CWType(T), NEW t \in T
    PROVE  /\ Block(c, t) \in CWType(T)
           /\ Block(c, t).var = c.var
           /\ Block(c, t).asleep = c.asleep \cup {t}
           /\ Unblock(c, t) \in CWType(T)
           /\ Unblock(c, t).var = c.var
           /\ Unblock(c, t).asleep = c.asleep \ {t}
BY DEF Block, Unblock, CWType

-----------------------------------------------------------------------------
\* Type correctness of every reachable state, and only a thread inside a
\* waiting call sleeps.
THEOREM TypeCorrect == Spec => []TypeOK
<1>1. Init => TypeOK
  BY SetsAssumption DEF Init, TypeOK, NewCW, CWType, WaiterPCs, SetterPCs, AllApis
<1>2. TypeOK /\ [Next]_vars => TypeOK'
  <2> SUFFICES ASSUME TypeOK, [Next]_vars PROVE TypeOK'
    OBVIOUS
  <2> USE DEF TypeOK, WaiterPCs, SetterPCs, InCall
  <2>1. ASSUME NEW w \in Waiters, NEW a \in Apis, Call(w, a) PROVE TypeOK'
    BY <2>1, ApisAssumption DEF Call
  <2>2. ASSUME NEW w \in Waiters, Evaluate(w) PROVE TypeOK'
    <3>1. CASE Matched(cw, obj.max) /\ Return(w, TRUE) /\ UNCHANGED cw
      BY <2>2, <3>1 DEF Evaluate, Return
    <3>2. CASE cw' = Block(cw, w) /\ UNCHANGED <<wpc, result>>
      BY <2>2, <3>2, BlockLemma DEF Evaluate
    <3> QED BY <2>2, <3>1, <3>2 DEF Evaluate
  <2>3. ASSUME NEW w \in Waiters, Expire(w) PROVE TypeOK'
    <3>1. /\ cw' \in CWType(Waiters)
          /\ cw'.asleep = cw.asleep \ {w}
      BY <2>3, BlockLemma DEF Expire
    <3> QED BY <2>3, <3>1 DEF Expire
  <2>4. ASSUME NEW w \in Waiters, Reevaluate(w) PROVE TypeOK'
    BY <2>4 DEF Reevaluate, Return, Matched
  <2>5. ASSUME NEW w \in Waiters, SpuriousWake(w) PROVE TypeOK'
    BY <2>5, BlockLemma DEF SpuriousWake
  <2>6. ASSUME NEW s \in Setters, Set(s) PROVE TypeOK'
    BY <2>6, SetLemma, SetsAssumption DEF Set
  <2>7. ASSUME NEW s \in Setters, Notify(s) PROVE TypeOK'
    BY <2>7, NotifyOneLemma, NotifyAllLemma DEF Notify
  <2>8. CASE UNCHANGED vars
    BY <2>8 DEF vars
  <2> QED
    BY <2>1, <2>2, <2>3, <2>4, <2>5, <2>6, <2>7, <2>8 DEF Next
<1> QED
  BY <1>1, <1>2, PTL DEF Spec

\* Where set() is used, at most one thread is inside a waiting call.
LEMMA Discipline == Spec => []OneCallerOrBroadcast
<1>1. Init => OneCallerOrBroadcast
  BY DEF Init, OneCallerOrBroadcast, InCall
<1>2. TypeOK /\ OneCallerOrBroadcast /\ [Next]_vars => OneCallerOrBroadcast'
  <2> SUFFICES ASSUME TypeOK, OneCallerOrBroadcast, [Next]_vars
               PROVE  OneCallerOrBroadcast'
    OBVIOUS
  <2> USE DEF OneCallerOrBroadcast, InCall
  <2>1. ASSUME NEW w \in Waiters, NEW a \in Apis, Call(w, a)
        PROVE  OneCallerOrBroadcast'
    BY <2>1 DEF Call, TypeOK
  <2>2. ASSUME NEW w \in Waiters, Evaluate(w) \/ Reevaluate(w)
        PROVE  OneCallerOrBroadcast'
    BY <2>2 DEF Evaluate, Reevaluate, Return, TypeOK
  <2>3. ASSUME NEW w \in Waiters, Expire(w) PROVE OneCallerOrBroadcast'
    BY <2>3 DEF Expire, TypeOK
  <2>4. ASSUME NEW w \in Waiters, SpuriousWake(w) PROVE OneCallerOrBroadcast'
    BY <2>4 DEF SpuriousWake
  <2>5. ASSUME NEW s \in Setters, Set(s) \/ Notify(s)
        PROVE  OneCallerOrBroadcast'
    BY <2>5 DEF Set, Notify
  <2>6. CASE UNCHANGED vars
    BY <2>6 DEF vars
  <2> QED
    BY <2>1, <2>2, <2>3, <2>4, <2>5, <2>6 DEF Next
<1> QED
  BY <1>1, <1>2, TypeCorrect, PTL DEF Spec

\* No wakeup of a conditional_wait is lost between the unlock of a set() or
\* set_for_all() and its notification, for any number of threads.
THEOREM NoWakeupLost == Spec => []NoStrandedWaiter
<1>1. Init => NoStrandedWaiter
  BY DEF Init, NoStrandedWaiter, NewCW
<1>2. TypeOK /\ OneCallerOrBroadcast /\ NoStrandedWaiter /\ [Next]_vars
        => NoStrandedWaiter'
  <2> SUFFICES ASSUME TypeOK, OneCallerOrBroadcast, NoStrandedWaiter,
                      [Next]_vars
               PROVE  NoStrandedWaiter'
    OBVIOUS
  <2> USE DEF NoStrandedWaiter, Matched
  <2>1. ASSUME NEW w \in Waiters, NEW a \in Apis, Call(w, a)
        PROVE  NoStrandedWaiter'
    BY <2>1 DEF Call
  <2>2. ASSUME NEW w \in Waiters, Evaluate(w) PROVE NoStrandedWaiter'
    \* A thread blocks only when the condition is not matched.
    <3>1. CASE Matched(cw, obj.max)
      BY <2>2, <3>1 DEF Evaluate
    <3>2. CASE ~Matched(cw, obj.max)
      <4>1. cw' = Block(cw, w)
        BY <2>2, <3>2 DEF Evaluate
      <4>2. cw'.var = cw.var /\ obj' = obj
        BY <2>2, <4>1, BlockLemma DEF Evaluate, TypeOK
      <4> QED BY <3>2, <4>2
    <3> QED BY <3>1, <3>2
  <2>3. ASSUME NEW w \in Waiters, Expire(w) PROVE NoStrandedWaiter'
    <3>1. cw'.var = cw.var /\ cw'.asleep = cw.asleep \ {w}
      BY <2>3, BlockLemma DEF Expire, TypeOK
    <3> QED BY <2>3, <3>1 DEF Expire
  <2>4. ASSUME NEW w \in Waiters, Reevaluate(w) PROVE NoStrandedWaiter'
    BY <2>4 DEF Reevaluate
  <2>5. ASSUME NEW w \in Waiters, SpuriousWake(w) PROVE NoStrandedWaiter'
    BY <2>5, BlockLemma DEF SpuriousWake, TypeOK
  <2>6. ASSUME NEW s \in Setters, Set(s) PROVE NoStrandedWaiter'
    BY <2>6 DEF Set, TypeOK
  <2>7. ASSUME NEW s \in Setters, Notify(s) PROVE NoStrandedWaiter'
    \* The notification leaves nobody asleep, in either mode.
    <3>1. CASE obj.broadcast
      BY <2>7, <3>1, NotifyAllLemma DEF Notify, TypeOK
    <3>2. CASE ~obj.broadcast
      <4>1. \A v, w \in cw.asleep : v = w
        BY <3>2 DEF OneCallerOrBroadcast, InCall, TypeOK, CWType
      <4>2. cw' \in NotifyOne(cw)
        BY <2>7, <3>2 DEF Notify
      <4>3. cw'.asleep = {}
        BY <4>1, <4>2, NotifyOneLemma DEF TypeOK
      <4> QED BY <4>3
    <3> QED BY <3>1, <3>2
  <2>8. CASE UNCHANGED vars
    BY <2>8 DEF vars
  <2> QED
    BY <2>1, <2>2, <2>3, <2>4, <2>5, <2>6, <2>7, <2>8 DEF Next
<1> QED
  BY <1>1, <1>2, TypeCorrect, Discipline, PTL DEF Spec
=============================================================================
