------------------------ MODULE TimerLifecycleProofs ------------------------
(***************************************************************************)
(* Proofs about TimerLifecycle, for any finite set of workers, any ways    *)
(* for the timer to come about and any number of calls of clear().         *)
(***************************************************************************)
EXTENDS TimerLifecycle, TLAPS

-----------------------------------------------------------------------------
(* The members and the conditional_waits among them.                        *)

LEMMA MemberOrder ==
    /\ Len(Members) = 6
    /\ \A i \in 1..6 : Members[i] = "_pool" <=> i = 4
    /\ Members[2] = "_tk" /\ Members[3] = "_wheel" /\ Members[4] = "_pool"
    /\ Members[5] = "_started"
BY DEF Members

\* What the operations on a conditional_wait with the one waiter t return.
OperationsOn(c, t) ==
    /\ SetBool(c) \in CWType({t})
    /\ SetBool(c).var = 1 /\ SetBool(c).asleep = c.asleep
    /\ Block(c, t) \in CWType({t}) /\ Block(c, t).var = c.var
    /\ Unblock(c, t) \in CWType({t}) /\ Unblock(c, t).var = c.var
    /\ Unblock(c, t).asleep = {}
    /\ NotifyAll(c) \in CWType({t}) /\ NotifyAll(c).asleep = {}
    /\ \A d \in NotifyOne(c) :
          d \in CWType({t}) /\ d.var = c.var /\ d.asleep = {}
    /\ t \notin c.asleep => c.asleep = {}

LEMMA LoneWaiter ==
    ASSUME NEW t, NEW c \in CWType({t})
    PROVE  OperationsOn(c, t)
<1>1. c \in [var : Nat, asleep : {{}, {t}}]
  BY DEF CWType
<1>2. /\ SetBool(c) = [var |-> 1, asleep |-> c.asleep]
      /\ Block(c, t) = [var |-> c.var, asleep |-> {t}]
      /\ Unblock(c, t) = [var |-> c.var, asleep |-> {}]
      /\ NotifyAll(c) = [var |-> c.var, asleep |-> {}]
  BY <1>1 DEF SetBool, Block, Unblock, NotifyAll
<1>3. ASSUME NEW d \in NotifyOne(c) PROVE d = [var |-> c.var, asleep |-> {}]
  <2>1. CASE c.asleep = {}
    BY <1>1, <2>1, <1>3 DEF NotifyOne
  <2>2. CASE c.asleep = {t}
    BY <1>2, <2>2, <1>3 DEF NotifyOne
  <2> QED
    BY <1>1, <2>1, <2>2
<1> QED
  BY <1>1, <1>2, <1>3 DEF CWType, OperationsOn

-----------------------------------------------------------------------------
(* Type correctness.                                                        *)

\* The types are inductive with two facts about the owner: the runner does
\* not run before start(), and _pool is joined by its own destructor.
TypeInv == /\ TypeOK
           /\ opc = "spawn" => rpc = "unborn"
           /\ opc = "joinPool" => next = 4

\* Every reachable state is well typed, and a thread asleep on a
\* conditional_wait of the timer is at the call that put it there.
THEOREM TypeCorrect == Spec => []TypeOK
<1>1. Init => TypeInv
  <2> SUFFICES ASSUME Init PROVE TypeInv
    OBVIOUS
  <2>1. NewCW \in CWType({Owner}) /\ NewCW \in CWType({RunnerThread})
        /\ NewCW.asleep = {}
    BY DEF NewCW, CWType
  <2>2. opc \in {"spawn", "open"}
    BY BirthsAssumption DEF Init, AllBirths
  <2>3. next \in 0..Len(Members) /\ clears \in 0..Clears
    BY MemberOrder, ClearsAssumption DEF Init
  <2>4. dying \in BOOLEAN /\ queued \in BOOLEAN
    BY DEF Init
  <2>5. wpc \in [Workers -> {"idle", "running", "posting", "exited"}]
    BY DEF Init
  <2> QED
    BY <2>1, <2>2, <2>3, <2>4, <2>5 DEF Init, TypeInv, TypeOK
<1>2. TypeInv /\ [Next]_vars => TypeInv'
  <2> SUFFICES ASSUME TypeInv, [Next]_vars PROVE TypeInv'
    OBVIOUS
  <2> USE DEF TypeInv, TypeOK, ownerVars, cws
  <2>0. OperationsOn(tk, RunnerThread) /\ OperationsOn(started, Owner)
        /\ OperationsOn(ended, Owner)
    BY LoneWaiter DEF TypeInv, TypeOK
  <2>1. CASE SpawnRunner \/ Gone
    BY <2>1 DEF SpawnRunner, Gone
  <2>2. CASE ClosePool
    <3>1. next = 4
      BY <2>2, MemberOrder DEF ClosePool
    <3>2. queued' \in BOOLEAN
      BY <2>2 DEF ClosePool
    <3> QED
      BY <2>2, <3>1, <3>2 DEF ClosePool
  <2>3. CASE Detach
    BY <2>3 DEF Detach
  <2>4. CASE DestroyMember
    <3>1. next' \in 0..Len(Members)
      BY <2>4, MemberOrder DEF DestroyMember
    <3> QED
      BY <2>4, <3>1 DEF DestroyMember
  <2>5. CASE JoinPool
    <3>1. next' \in 0..Len(Members)
      BY <2>5, MemberOrder DEF JoinPool
    <3> QED
      BY <2>5, <3>1 DEF JoinPool
  <2>6. CASE AwaitStarted
    BY <2>6, <2>0 DEF OperationsOn, AwaitStarted
  <2>7. CASE Kill \/ KillNotify
    BY <2>7, <2>0 DEF OperationsOn, Kill, KillNotify
  <2>8. CASE AwaitEnded
    BY <2>8, <2>0 DEF OperationsOn, AwaitEnded
  <2>9. ASSUME NEW destroy \in BOOLEAN, BeginStop(destroy) PROVE TypeInv'
    BY <2>9, ClearsAssumption DEF BeginStop
  <2>10. CASE RunnerStep
    <3> USE DEF RunnerMove
    <3>1. CASE SetStarted \/ SetEnded
      BY <3>1, <2>0 DEF OperationsOn, SetStarted, SetEnded
    <3>2. CASE NotifyStarted \/ NotifyEnded
      BY <3>2, <2>0 DEF OperationsOn, NotifyStarted, NotifyEnded
    <3>3. CASE WaitMatched
      BY <3>3, <2>0 DEF OperationsOn, WaitMatched
    <3>4. CASE WaitBlock
      BY <3>4, <2>0 DEF OperationsOn, WaitBlock
    <3>5. CASE RoundPick \/ RoundLaunch \/ RoundHold
      BY <3>5 DEF RoundPick, RoundLaunch, RoundHold
    <3> QED
      BY <2>10, <3>1, <3>2, <3>3, <3>4, <3>5 DEF RunnerStep
  <2>11. CASE WaitTimeout
    BY <2>11, <2>0 DEF OperationsOn, WaitTimeout
  <2>12. CASE SpuriousWake
    BY <2>12, <2>0 DEF OperationsOn, SpuriousWake
  <2>13. ASSUME NEW w \in Workers, WorkerStep(w) PROVE TypeInv'
    BY <2>13 DEF WorkerStep, TakeJob, JobDone, JobPosted, WorkerExits
  <2>14. CASE UNCHANGED vars
    BY <2>14 DEF vars
  <2> QED
    BY <2>1, <2>2, <2>3, <2>4, <2>5, <2>6, <2>7, <2>8, <2>9, <2>10, <2>11,
       <2>12, <2>13, <2>14 DEF Next, OwnerStep, Finished
<1> QED
  BY <1>1, <1>2, PTL DEF Spec, TypeInv

-----------------------------------------------------------------------------
(* Stopping and destroying.                                                 *)

\* The runner is past _ended.set().
Through == rpc \in {"notifyEnded", "terminated"}

Destroying == opc \in {"destroy", "joinPool", "gone"}

\* _ended says that the runner is through.  An owner that has detached _t
\* leaves stop() only when it is, and destroys members only after that; the
\* wheel and what is before it only after the workers have been joined.
StopInv ==
    /\ Matched(ended, 1) <=> Through
    /\ opc \in {"kill", "killNotify", "awaitEnded"} => thread = "detached"
    /\ opc = "awaitStarted" => thread = "joinable"
    /\ opc = "spawn" => rpc = "unborn"
    /\ opc \in {"open", "detach"} /\ thread = "detached" => Through
    /\ Destroying => Through
    /\ ~Destroying => next = Len(Members)
    /\ opc = "joinPool" => next = 4
    /\ opc = "gone" => next = 0
    /\ next < 4 => \A w \in Workers : wpc[w] = "exited"

\* StopInv is inductive on top of the types.
THEOREM StopsInOrder == Spec => []StopInv
<1>1. Init => StopInv
  BY BirthsAssumption, MemberOrder
     DEF Init, StopInv, AllBirths, Matched, NewCW, Through, Destroying
<1>2. TypeOK /\ StopInv /\ [Next]_vars => StopInv'
  <2> SUFFICES ASSUME TypeOK, StopInv, [Next]_vars PROVE StopInv'
    OBVIOUS
  <2> USE MemberOrder
      DEF TypeOK, StopInv, Through, Destroying, ownerVars, cws
  <2>0. OperationsOn(tk, RunnerThread) /\ OperationsOn(started, Owner)
        /\ OperationsOn(ended, Owner)
    BY LoneWaiter DEF TypeOK
  <2>1. CASE SpawnRunner \/ Detach
    BY <2>1 DEF SpawnRunner, Detach
  <2>2. CASE DestroyMember \/ ClosePool \/ JoinPool \/ Gone
    BY <2>2 DEF DestroyMember, ClosePool, JoinPool, Gone
  <2>3. CASE AwaitStarted
    BY <2>3 DEF AwaitStarted
  <2>4. CASE Kill \/ KillNotify
    BY <2>4 DEF Kill, KillNotify
  <2>5. CASE AwaitEnded
    BY <2>5, <2>0 DEF OperationsOn, AwaitEnded, Matched
  <2>6. ASSUME NEW destroy \in BOOLEAN, BeginStop(destroy) PROVE StopInv'
    BY <2>6 DEF BeginStop
  <2>7. CASE RunnerStep
    <3> USE DEF RunnerMove
    <3>1. CASE SetStarted \/ WaitMatched \/ WaitBlock
      BY <3>1 DEF SetStarted, WaitMatched, WaitBlock
    <3>2. CASE SetEnded
      BY <3>2, <2>0 DEF OperationsOn, SetEnded, Matched
    <3>3. CASE NotifyStarted
      BY <3>3 DEF NotifyStarted
    <3>4. CASE NotifyEnded
      BY <3>4, <2>0 DEF OperationsOn, NotifyEnded, Matched
    <3>5. CASE RoundPick \/ RoundLaunch \/ RoundHold
      BY <3>5 DEF RoundPick, RoundLaunch, RoundHold
    <3> QED
      BY <2>7, <3>1, <3>2, <3>3, <3>4, <3>5 DEF RunnerStep
  <2>8. CASE WaitTimeout
    BY <2>8 DEF WaitTimeout
  <2>9. CASE SpuriousWake
    BY <2>9, <2>0 DEF OperationsOn, SpuriousWake, Matched
  <2>10. ASSUME NEW w \in Workers, WorkerStep(w) PROVE StopInv'
    BY <2>10 DEF WorkerStep, TakeJob, JobDone, JobPosted, WorkerExits
  <2>11. CASE UNCHANGED vars
    BY <2>11 DEF vars
  <2> QED
    BY <2>1, <2>2, <2>3, <2>4, <2>5, <2>6, <2>7, <2>8, <2>9, <2>10, <2>11
       DEF Next, OwnerStep, Finished
<1> QED
  BY <1>1, <1>2, TypeCorrect, PTL DEF Spec

\* For any number of pool workers, no member of a timer is destroyed while the
\* runner (but for _ended) or a worker can still touch it.
THEOREM NothingDeadIsTouched == Spec => []MembersOutliveUsers
<1>1. TypeOK /\ StopInv => MembersOutliveUsers
  <2> SUFFICES ASSUME TypeOK, StopInv PROVE MembersOutliveUsers
    OBVIOUS
  <2>1. ASSUME ~Through PROVE \A m \in RunnerTouches \ {"_ended"} : Alive(m)
    <3>1. next = 6
      BY <2>1, MemberOrder DEF StopInv
    <3>2. Alive("_started") /\ Alive("_tk") /\ Alive("_wheel") /\ Alive("_pool")
      BY <3>1, MemberOrder DEF Alive
    <3>3. RunnerTouches \subseteq {"_started", "_tk", "_wheel", "_pool", "_ended"}
      BY DEF RunnerTouches, TypeOK
    <3> QED
      BY <3>2, <3>3
  <2>2. ASSUME Through PROVE RunnerTouches \subseteq {"_ended"}
    BY <2>2 DEF RunnerTouches, Through
  <2>3. ASSUME NEW w \in Workers, NEW m \in WorkerTouches(w) PROVE Alive(m)
    <3>1. wpc[w] # "exited" /\ m \in {"_pool", "_wheel"}
      BY <2>3 DEF WorkerTouches, TypeOK
    <3>2. next \in Nat /\ next >= 4
      BY <3>1, MemberOrder DEF StopInv, TypeOK
    <3> QED
      BY <3>1, <3>2, MemberOrder DEF Alive
  <2> QED
    BY <2>1, <2>2, <2>3 DEF MembersOutliveUsers
<1> QED
  BY <1>1, TypeCorrect, StopsInOrder, PTL

\* A clear() or join() that returned without throwing leaves a runner that
\* does nothing more.
THEOREM ClearedIsQuiet == Spec => []StoppedMeansQuiet
<1>1. StopInv => StoppedMeansQuiet
  BY DEF StopInv, StoppedMeansQuiet, Through
<1> QED
  BY <1>1, StopsInOrder, PTL

-----------------------------------------------------------------------------
(* The first stop().                                                        *)

\* Before any clear() or join(), only a destructor that is past its detach() has
\* detached _t.
FirstStopInv ==
    /\ FirstStopIsSafe
    /\ clears = Clears =>
          /\ opc = "detach" => dying
          /\ thread = "detached" =>
                dying /\ opc \notin {"spawn", "awaitStarted", "open", "detach"}

\* For any number of pool workers and of calls of clear(), the first stop() of a
\* timer that started its runner does not throw.
THEOREM FirstStop == Spec => []FirstStopIsSafe
<1>1. Init => FirstStopInv
  BY BirthsAssumption DEF Init, FirstStopInv, FirstStopIsSafe, AllBirths
<1>2. TypeOK /\ StopInv /\ FirstStopInv /\ [Next]_vars => FirstStopInv'
  <2> SUFFICES ASSUME TypeOK, StopInv, FirstStopInv, [Next]_vars
               PROVE  FirstStopInv'
    OBVIOUS
  <2> USE DEF FirstStopInv, FirstStopIsSafe, ownerVars
  <2>1. CASE SpawnRunner \/ AwaitStarted
    BY <2>1 DEF SpawnRunner, AwaitStarted, StopInv
  <2>2. CASE Detach
    BY <2>2, ClearsAssumption DEF Detach, TypeOK
  <2>3. CASE Kill \/ KillNotify
    BY <2>3 DEF Kill, KillNotify
  <2>4. CASE AwaitEnded
    BY <2>4 DEF AwaitEnded, StopInv
  <2>5. CASE DestroyMember \/ ClosePool \/ JoinPool \/ Gone
    BY <2>5 DEF DestroyMember, ClosePool, JoinPool, Gone
  <2>6. ASSUME NEW destroy \in BOOLEAN, BeginStop(destroy) PROVE FirstStopInv'
    BY <2>6, ClearsAssumption DEF BeginStop, TypeOK
  <2>7. CASE RunnerStep
    BY <2>7 DEF RunnerStep, RunnerMove, SetStarted, NotifyStarted, WaitMatched,
                WaitBlock, RoundPick, RoundLaunch, RoundHold, SetEnded, NotifyEnded
  <2>8. CASE WaitTimeout \/ SpuriousWake
    BY <2>8 DEF WaitTimeout, SpuriousWake
  <2>9. ASSUME NEW w \in Workers, WorkerStep(w) PROVE FirstStopInv'
    BY <2>9 DEF WorkerStep, TakeJob, JobDone, JobPosted, WorkerExits
  <2>10. CASE UNCHANGED vars
    BY <2>10 DEF vars
  <2> QED
    BY <2>1, <2>2, <2>3, <2>4, <2>5, <2>6, <2>7, <2>8, <2>9, <2>10
       DEF Next, OwnerStep, Finished
<1>3. FirstStopInv => FirstStopIsSafe
  BY DEF FirstStopInv
<1> QED
  BY <1>1, <1>2, <1>3, TypeCorrect, StopsInOrder, PTL DEF Spec
=============================================================================
