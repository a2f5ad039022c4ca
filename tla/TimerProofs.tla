---------------------------- MODULE TimerProofs ----------------------------
(***************************************************************************)
(* Proofs about Timer, for any jobs, durations and time points, any        *)
(* resolution of the clock, and threads of any speed.                      *)
(***************************************************************************)
EXTENDS Timer, FiniteSetTheorems, WellFoundedInduction, TLAPS

-----------------------------------------------------------------------------
(* The least and the greatest of a set, and whole seconds.                  *)

LEMMA LeastOf ==
    ASSUME NEW S \in SUBSET Nat, S # {}
    PROVE  Min(S) \in S /\ \A t \in S : Min(S) <= t
<1>1. PICK x \in S : \A y \in S : ~(<<y, x>> \in OpToRel(<, Nat))
  BY NatLessThanWellFounded, WFMin
<1>2. ASSUME NEW y \in S, y < x PROVE FALSE
  <2>1. <<y, x>> \in Nat \X Nat
    BY Zenon
  <2>2. <<y, x>>[1] < <<y, x>>[2]
    BY <1>2
  <2>3. <<y, x>> \in OpToRel(<, Nat)
    BY <2>1, <2>2, Zenon DEF OpToRel
  <2> QED
    BY <2>3, <1>1, Zenon
<1>3. \A y \in S : x =< y
  BY <1>2
<1> QED
  BY <1>3 DEF Min

LEMMA GreatestBelow ==
    ASSUME NEW b \in Nat, NEW S \in SUBSET (0..b), S # {}
    PROVE  Max(S) \in S /\ \A t \in S : t <= Max(S)
<1> DEFINE Gaps == {b - t : t \in S}
<1>1. Gaps \in SUBSET Nat /\ Gaps # {}
  <2>1. \A t \in S : b - t \in Nat
    OBVIOUS
  <2>2. \A g \in Gaps : g \in Nat
    BY <2>1
  <2> QED
    BY <2>2
<1> HIDE DEF Gaps
<1>2. Min(Gaps) \in Gaps /\ \A g \in Gaps : Min(Gaps) <= g
  BY <1>1, LeastOf
<1>3. PICK x \in S : Min(Gaps) = b - x
  BY <1>2 DEF Gaps
<1>4. ASSUME NEW y \in S PROVE x >= y
  <2>1. b - y \in Gaps
    BY DEF Gaps
  <2> QED
    BY <2>1, <1>2, <1>3
<1> QED
  BY <1>4 DEF Max

\* A finite set without a greatest element would have a smallest part without.
LEMMA GreatestOfFinite ==
    ASSUME NEW S \in SUBSET Nat, IsFiniteSet(S), S # {}
    PROVE  Max(S) \in S /\ \A t \in S : t <= Max(S)
<1> DEFINE Topped(T) == \E x \in T : \A y \in T : x >= y
           Sizes == {Cardinality(T) : T \in {U \in SUBSET S : U # {} /\ ~Topped(U)}}
<1>1. SUFFICES Topped(S)
  BY DEF Max
<1>2. SUFFICES ASSUME ~Topped(S) PROVE FALSE
  OBVIOUS
<1>3. \A T \in SUBSET S : IsFiniteSet(T) /\ Cardinality(T) \in Nat
  BY FS_Subset, FS_CardinalityType
<1>4. Sizes \in SUBSET Nat /\ Cardinality(S) \in Sizes
  BY <1>2, <1>3
<1> HIDE DEF Sizes
<1>5. Min(Sizes) \in Sizes /\ \A n \in Sizes : Min(Sizes) <= n
  BY <1>4, LeastOf
<1>6. PICK T \in SUBSET S : T # {} /\ ~Topped(T) /\ Cardinality(T) = Min(Sizes)
  BY <1>5 DEF Sizes
<1>7. PICK x \in T : TRUE
  BY <1>6
<1>8. T \ {x} \in SUBSET S /\ Cardinality(T \ {x}) < Cardinality(T)
  <2>1. Cardinality(T \ {x}) = Cardinality(T) - 1
    BY <1>3, <1>7, FS_RemoveElement
  <2> QED
    BY <2>1, <1>3
<1>9. CASE T \ {x} = {}
  <2>1. \A y \in T : x >= y
    BY <1>9
  <2> QED
    BY <2>1, <1>6, <1>7
<1>10. CASE T \ {x} # {} /\ Topped(T \ {x})
  <2>1. PICK z \in T \ {x} : \A y \in T \ {x} : z >= y
    BY <1>10
  <2>2. z \in Nat /\ x \in Nat /\ \A y \in T : y \in Nat
    OBVIOUS
  <2>3. CASE z >= x
    <3>1. \A y \in T : z >= y
      BY <2>1, <2>3
    <3> QED
      BY <3>1, <1>6
  <2>4. CASE x >= z
    <3>1. \A y \in T : x >= y
      BY <2>1, <2>2, <2>4
    <3> QED
      BY <3>1, <1>6
  <2> QED
    BY <2>2, <2>3, <2>4
<1>11. CASE T \ {x} # {} /\ ~Topped(T \ {x})
  <2>1. Cardinality(T \ {x}) \in Sizes
    BY <1>8, <1>11 DEF Sizes
  <2>2. Min(Sizes) <= Cardinality(T \ {x})
    BY <1>5, <2>1
  <2> QED
    BY <2>2, <1>3, <1>6, <1>8
<1> QED
  BY <1>9, <1>10, <1>11

\* The time points of the model are a range of numbers, with the clock in it.
LEMMA TimePointsRange ==
    /\ MaxTime + Max(Durations \cup Absolute) \in Nat
    /\ 0..MaxTime \subseteq TimePoints /\ TimePoints \subseteq Nat
    /\ NoTime \notin TimePoints
    /\ \A t \in 0..MaxTime, r \in Durations : t + r \in TimePoints
    /\ Absolute \subseteq TimePoints
<1>1. /\ Max(Durations \cup Absolute) \in Nat
      /\ \A t \in Durations \cup Absolute : t <= Max(Durations \cup Absolute)
  BY TimeAssumption, GreatestOfFinite
<1> QED
  BY <1>1, TimeAssumption DEF TimePoints, NoTime

LEMMA SecondsMonotone ==
    ASSUME NEW s \in Nat, NEW t \in Nat, s <= t
    PROVE  Sec(s) \in Nat /\ Sec(t) \in Nat /\ Sec(s) <= Sec(t)
BY TimeAssumption DEF Sec

-----------------------------------------------------------------------------
(* The invariant.                                                           *)

\* The runner's clock is not ahead, its iterators are valid when it uses them
\* and point to a slot that is due, and it holds jobs to launch in one place
\* of its loop only.
RunnerInv ==
    /\ timeNow <= Sec(now)
    /\ IteratorsValid
    /\ rpc \in {"pick", "launch"} => itp \in TimePoints /\ Sec(itp) <= timeNow
    /\ rpc # "launch" => toLaunch = {}
    /\ \A j \in DOMAIN rtp : rtp[j] \in TimePoints /\ rtp[j] <= now + dur[j]

Waiting(j) == \E t \in Slots(twl) : j \in twl[t]
OneSlot(j) == \A s, t \in Slots(twl) : j \in twl[s] /\ j \in twl[t] => s = t

\* Each job is in one place, and only jobs of the right kind are where a job is
\* put back from; a pool worker has at most one launch of an _interval job.
Placed(j) ==
    /\ OneSlot(j)
    /\ Waiting(j) => j \notin toLaunch /\ j \notin recurred /\ ~InPool(j)
    /\ j \in toLaunch => j \notin recurred /\ ~InPool(j)
    /\ j \in recurred => kind[j] = "every"
    /\ post[j] # NoTime => /\ kind[j] = "interval" /\ pool[j] = 0
                           /\ post[j] <= now + dur[j]
    /\ kind[j] = "interval" => pool[j] <= 1
    /\ kind[j] = "once" => hits[j] <= 1
    /\ kind[j] = "once" /\ hits[j] > 0 => ~Waiting(j) /\ j \notin toLaunch
    /\ bpc[j] # "built" => /\ ~Waiting(j) /\ j \notin toLaunch /\ j \notin recurred
                           /\ pool[j] = 0 /\ post[j] = NoTime /\ hits[j] = 0
    /\ bpc[j] = "adding" => btp[j] \in TimePoints

JobInv == \A j \in Jobs : Placed(j)

IInv == TypeOK /\ RunnerInv /\ JobInv

\* What add_task() does to the slots of the wheel, and to the jobs in them.
LEMMA AddTaskSlots ==
    ASSUME NEW wheel, NEW tp, NEW j
    PROVE  /\ Slots(AddTask(wheel, tp, j)) = Slots(wheel) \cup {tp}
           /\ \A t \in Slots(wheel) \cup {tp} : \A i :
                 i \in AddTask(wheel, tp, j)[t] <=>
                    (t \in Slots(wheel) /\ i \in wheel[t]) \/ (t = tp /\ i = j)
BY DEF AddTask, Slots

LEMMA AddTaskType ==
    ASSUME NEW wheel, WheelType(wheel), NEW tp \in TimePoints, NEW j \in Jobs
    PROVE  WheelType(AddTask(wheel, tp, j))
<1>1. Slots(AddTask(wheel, tp, j)) \subseteq TimePoints
  BY AddTaskSlots DEF WheelType
<1>2. ASSUME NEW t \in Slots(AddTask(wheel, tp, j)), NEW i \in AddTask(wheel, tp, j)[t]
      PROVE  i \in Jobs
  BY <1>2, AddTaskSlots DEF WheelType
<1> QED
  BY <1>1, <1>2 DEF WheelType

\* The choice of find_next(): slots of the wheel, the first of them due and the
\* second after it.
LEMMA FindNextPicks ==
    ASSUME TypeOK, FindNext, rpc' = "pick"
    PROVE  /\ itp' \in Slots(twl) /\ Sec(itp') <= timeNow
           /\ itn' \in Slots(twl) \cup {NoTime}
           /\ itn' # NoTime => itp' < itn'
<1> DEFINE due == {t \in Slots(twl) : Sec(t) <= timeNow}
           later == Slots(twl) \ due
<1>1. Slots(twl) \subseteq TimePoints /\ timeNow \in Nat
  BY DEF TypeOK, WheelType
<1>2. /\ due # {} /\ itp' = Max(due)
      /\ itn' = IF later = {} THEN NoTime ELSE Min(later)
  BY DEF FindNext
<1>3. itp' \in due
  BY <1>1, <1>2, GreatestBelow, TimePointsRange DEF TimePoints
<1>4. ASSUME later # {} PROVE itn' \in later
  BY <1>1, <1>2, <1>4, LeastOf, TimePointsRange
<1>5. ASSUME itn' # NoTime PROVE itp' < itn'
  <2>1. itn' \in later
    BY <1>2, <1>4, <1>5
  <2>2. itp' \in Nat /\ itn' \in Nat
    BY <1>1, <1>3, <2>1, TimePointsRange
  <2>3. ~(itn' <= itp')
    <3> SUFFICES ASSUME itn' <= itp' PROVE FALSE
      OBVIOUS
    <3>1. Sec(itn') <= Sec(itp') /\ Sec(itn') \in Nat /\ Sec(itp') \in Nat
      BY <2>2, SecondsMonotone
    <3>2. Sec(itp') <= timeNow /\ ~(Sec(itn') <= timeNow)
      BY <1>3, <2>1
    <3> QED
      BY <3>1, <3>2, <1>1
  <2> QED
    BY <2>2, <2>3
<1> QED
  BY <1>2, <1>3, <1>4, <1>5

\* No step changes what the jobs are, or sets the clock back.
LEMMA ClockStep ==
    ASSUME TypeOK, [Next]_vars
    PROVE  /\ now \in Nat /\ now' \in Nat /\ now <= now'
           /\ dur \in [Jobs -> Nat] /\ UNCHANGED jobVars
<1>1. now \in Nat /\ dur \in [Jobs -> Nat]
  <2>1. now \in 0..MaxTime /\ dur \in [Jobs -> Durations]
    BY DEF TypeOK
  <2>2. \A r \in Durations : r \in Nat
    BY TimeAssumption
  <2>3. now \in Nat
    BY <2>1
  <2> QED
    BY <2>1, <2>2, <2>3
<1>2. CASE Tick
  BY <1>1, <1>2 DEF Tick, jobVars
<1>3. CASE UNCHANGED <<now, jobVars>>
  BY <1>1, <1>3 DEF jobVars
<1>4. CASE Runner
  BY <1>3, <1>4
     DEF Runner, StartWait, WaitOver, RunnerEnds, ReadClock, FindNext, Pick,
         LaunchJob, HoldPasts, NextPoint, PutBack, RoundOver
<1>5. ASSUME NEW j \in Jobs, Prepare(j) \/ Build(j) \/ RunJob(j) \/ PostJob(j)
      PROVE  UNCHANGED <<now, jobVars>>
  BY <1>5 DEF Prepare, Build, RunJob, PostJob
<1> QED
  BY <1>2, <1>3, <1>4, <1>5 DEF Next, Kill, TimeUp, vars

LEMMA InitInv == Init => IInv
<1> SUFFICES ASSUME Init PROVE IInv
  OBVIOUS
<1>1. Slots(twl) = {} /\ Slots(pasts) = {} /\ DOMAIN rtp = {}
  BY DEF Init, Slots
<1>2. TypeOK
  <2>1. now \in 0..MaxTime /\ d \in Int /\ deadline \in Int /\ timeNow \in Nat
    BY TimeAssumption DEF Init
  <2>2. killed \in BOOLEAN
    BY Zenon DEF Init
  <2> QED
    BY <1>1, <2>1, <2>2, PoolAssumption DEF Init, TypeOK, WheelType
<1>3. RunnerInv
  BY <1>1, TimeAssumption DEF Init, RunnerInv, IteratorsValid, Sec
<1>4. JobInv
  BY <1>1 DEF Init, JobInv, Placed, OneSlot, Waiting, InPool
<1> QED
  BY <1>2, <1>3, <1>4 DEF IInv

-----------------------------------------------------------------------------
(* Types.                                                                   *)

LEMMA TypeStep == IInv /\ [Next]_vars => TypeOK'
<1> SUFFICES ASSUME IInv, [Next]_vars PROVE TypeOK'
  OBVIOUS
<1> USE DEF TypeOK, jobVars, runVars, poolVars
<1>1. TypeOK /\ RunnerInv /\ JobInv
  BY DEF IInv
<1>2. CASE Tick
  BY <1>1, <1>2, TimeAssumption DEF Tick
<1>3. CASE Kill
  BY <1>1, <1>3 DEF Kill
<1>4. CASE StartWait
  BY <1>1, <1>4, TimeAssumption DEF StartWait
<1>5. CASE WaitOver
  BY <1>1, <1>5, TimeAssumption DEF WaitOver
<1>6. CASE RunnerEnds
  BY <1>1, <1>6 DEF RunnerEnds
<1>7. CASE ReadClock
  <2>1. now \in Nat
    BY <1>1, TimeAssumption
  <2> QED
    BY <1>1, <1>7, <2>1, SecondsMonotone DEF ReadClock
<1>8. CASE FindNext
  <2>1. CASE rpc' = "pick"
    <3>1. {itp', itn'} \subseteq TimePoints \cup {NoTime}
      BY <1>1, <1>8, <2>1, FindNextPicks DEF WheelType
    <3> QED
      BY <1>1, <1>8, <2>1, <3>1 DEF FindNext
  <2>2. CASE rpc' # "pick"
    BY <1>1, <1>8, <2>2 DEF FindNext
  <2> QED
    BY <2>1, <2>2
<1>9. CASE Pick
  <2>1. itp \in Slots(twl) /\ itp \in Nat /\ itn \in Nat \cup {NoTime}
    BY <1>1, <1>9, TimePointsRange DEF Pick, RunnerInv, IteratorsValid, WheelType
  <2>2. d' \in Int
    BY <1>1, <1>9, <2>1 DEF Pick, NoTime
  <2>3. jobs' \subseteq Jobs /\ toLaunch' \subseteq jobs'
    BY <1>1, <1>9, <2>1 DEF Pick, WheelType
  <2>4. WheelType(twl')
    BY <1>1, <1>9, <2>1 DEF Pick, WheelType, Slots
  <2> QED
    BY <1>1, <1>9, <2>2, <2>3, <2>4 DEF Pick
<1>10. ASSUME NEW j \in Jobs, LaunchJob(j) PROVE TypeOK'
  BY <1>1, <1>10, PoolAssumption DEF LaunchJob
<1>11. CASE HoldPasts
  <2>1. WheelType(pasts')
    BY <1>1, <1>11 DEF HoldPasts, WheelType, Slots, RunnerInv
  <2> QED
    BY <1>1, <1>11, <2>1 DEF HoldPasts
<1>12. ASSUME NEW j \in Jobs, NextPoint(j) PROVE TypeOK'
  BY <1>1, <1>12 DEF NextPoint
<1>13. CASE PutBack
  <2>1. PICK j \in DOMAIN rtp : /\ twl' = AddTask(twl, rtp[j], j)
                                /\ d' = rtp[j] - now
                                /\ recurred' = recurred \ {j}
    BY <1>13 DEF PutBack
  <2>2. j \in Jobs /\ rtp[j] \in TimePoints /\ rtp[j] \in Nat /\ now \in Nat
    BY <1>1, <2>1, TimePointsRange, TimeAssumption DEF RunnerInv
  <2>3. WheelType(twl') /\ d' \in Int /\ recurred' \subseteq Jobs
    BY <1>1, <2>1, <2>2, AddTaskType
  <2>4. DOMAIN rtp' = {}
    BY <1>13 DEF PutBack
  <2> QED
    BY <1>1, <1>13, <2>3, <2>4 DEF PutBack
<1>14. CASE RoundOver
  BY <1>1, <1>14 DEF RoundOver
<1>15. ASSUME NEW j \in Jobs, Prepare(j) PROVE TypeOK'
  <2>1. PICK tp \in FirstPoints(j) : btp' = [btp EXCEPT ![j] = tp]
    BY <1>15 DEF Prepare
  <2>2. tp \in TimePoints
    BY <1>1, <2>1, TimePointsRange DEF FirstPoints
  <2> QED
    BY <1>1, <1>15, <2>1, <2>2 DEF Prepare
<1>16. ASSUME NEW j \in Jobs, Build(j) PROVE TypeOK'
  <2>1. WheelType(twl')
    BY <1>1, <1>16, AddTaskType DEF Build, JobInv, Placed
  <2> QED
    BY <1>1, <1>16, <2>1 DEF Build
<1>17. ASSUME NEW j \in Jobs, RunJob(j) PROVE TypeOK'
  <2>1. now + dur[j] \in TimePoints
    BY <1>1, TimePointsRange
  <2>2. post' \in [Jobs -> TimePoints \cup {NoTime}]
    BY <1>1, <1>17, <2>1 DEF RunJob
  <2>3. pool' \in [Jobs -> 0..PoolBound]
    BY <1>1, <1>17, PoolAssumption DEF RunJob
  <2> QED
    BY <1>1, <1>17, <2>2, <2>3 DEF RunJob
<1>18. ASSUME NEW j \in Jobs, PostJob(j) PROVE TypeOK'
  <2>1. WheelType(twl')
    BY <1>1, <1>18, AddTaskType DEF PostJob
  <2>2. WheelType(pasts')
    BY <1>1, <1>18 DEF PostJob, WheelType, Slots
  <2>3. j \notin toLaunch
    BY <1>1, <1>18 DEF PostJob, JobInv, Placed, InPool
  <2>4. toLaunch' \subseteq jobs' /\ jobs' \subseteq Jobs
    BY <1>1, <1>18, <2>3 DEF PostJob
  <2> QED
    BY <1>1, <1>18, <2>1, <2>2, <2>4 DEF PostJob
<1>19. CASE UNCHANGED vars
  BY <1>1, <1>19 DEF vars
<1> QED
  BY <1>2, <1>3, <1>4, <1>5, <1>6, <1>7, <1>8, <1>9, <1>10, <1>11, <1>12, <1>13,
     <1>14, <1>15, <1>16, <1>17, <1>18, <1>19 DEF Next, Runner, TimeUp

-----------------------------------------------------------------------------
(* The runner.                                                              *)

LEMMA RunnerStep == IInv /\ [Next]_vars => RunnerInv'
<1> SUFFICES ASSUME IInv, [Next]_vars PROVE RunnerInv'
  OBVIOUS
<1> USE DEF jobVars, runVars, poolVars
<1>1. TypeOK /\ RunnerInv /\ JobInv
  BY DEF IInv
<1>2. TimePoints' = TimePoints
  BY DEF TimePoints
<1>3. CASE Tick
  <2>1. Sec(now) <= Sec(now') /\ Sec(now) \in Nat /\ Sec(now') \in Nat /\ timeNow \in Nat
    BY <1>1, <1>3, SecondsMonotone, TimeAssumption DEF Tick, TypeOK
  <2>2. timeNow' <= Sec(now')
    BY <1>1, <1>3, <2>1 DEF Tick, RunnerInv
  <2>3. \A j \in DOMAIN rtp : j \in Jobs /\ rtp[j] \in Nat /\ rtp[j] <= now + dur[j]
    BY <1>1, TimePointsRange DEF TypeOK, RunnerInv
  <2>4. \A j \in DOMAIN rtp : rtp[j] <= now' + dur[j]
    BY <1>1, <2>3, ClockStep
  <2> QED
    BY <1>1, <1>2, <1>3, <2>2, <2>4, Zenon
       DEF Tick, RunnerInv, IteratorsValid, Slots, Sec
<1>4. CASE StartWait \/ WaitOver \/ RunnerEnds \/ RoundOver
  BY <1>1, <1>2, <1>4
     DEF StartWait, WaitOver, RunnerEnds, RoundOver, RunnerInv, IteratorsValid, Sec
<1>5. CASE ReadClock
  <2>1. Sec(now) <= Sec(now)
    BY <1>1, SecondsMonotone, TimeAssumption DEF TypeOK
  <2> QED
    BY <1>1, <1>2, <1>5, <2>1 DEF ReadClock, RunnerInv, IteratorsValid, Sec
<1>6. CASE FindNext
  <2>1. CASE rpc' = "pick"
    <3>1. /\ itp' \in Slots(twl) /\ Sec(itp') <= timeNow
          /\ itn' \in Slots(twl) \cup {NoTime}
          /\ itn' # NoTime => itp' < itn'
      BY <1>1, <1>6, <2>1, FindNextPicks
    <3>2. itp' \in TimePoints
      BY <1>1, <3>1 DEF TypeOK, WheelType
    <3> QED
      BY <1>1, <1>2, <1>6, <2>1, <3>1, <3>2
         DEF FindNext, RunnerInv, IteratorsValid, Slots, Sec
  <2>2. CASE rpc' # "pick"
    BY <1>1, <1>2, <1>6, <2>2 DEF FindNext, RunnerInv, IteratorsValid, Sec
  <2> QED
    BY <2>1, <2>2
<1>7. CASE Pick
  BY <1>1, <1>2, <1>7 DEF Pick, RunnerInv, IteratorsValid, Sec
<1>8. ASSUME NEW j \in Jobs, LaunchJob(j) PROVE RunnerInv'
  BY <1>1, <1>2, <1>8 DEF LaunchJob, RunnerInv, IteratorsValid, Sec
<1>9. CASE HoldPasts
  BY <1>1, <1>2, <1>9 DEF HoldPasts, RunnerInv, IteratorsValid, Sec
<1>10. ASSUME NEW j \in Jobs, NextPoint(j) PROVE RunnerInv'
  <2>1. now + dur[j] \in TimePoints
    BY <1>1, TimePointsRange DEF TypeOK
  <2>2. now + dur[j] <= now + dur[j]
    BY <1>1, ClockStep
  <2> QED
    BY <1>1, <1>2, <1>10, <2>1, <2>2 DEF NextPoint, RunnerInv, IteratorsValid, Sec
<1>11. CASE PutBack
  <2>1. DOMAIN rtp' = {}
    BY <1>11 DEF PutBack
  <2> QED
    BY <1>1, <1>2, <1>11, <2>1 DEF PutBack, RunnerInv, IteratorsValid, Sec
<1>12. ASSUME NEW j \in Jobs, Prepare(j) \/ RunJob(j) PROVE RunnerInv'
  BY <1>1, <1>2, <1>12 DEF Prepare, RunJob, RunnerInv, IteratorsValid, Slots, Sec
<1>13. ASSUME NEW j \in Jobs, Build(j) PROVE RunnerInv'
  <2>1. Slots(twl) \subseteq Slots(twl')
    BY <1>13 DEF Build, AddTask, Slots
  <2> QED
    BY <1>1, <1>2, <1>13, <2>1 DEF Build, RunnerInv, IteratorsValid, Slots, Sec
<1>14. ASSUME NEW j \in Jobs, PostJob(j) PROVE RunnerInv'
  <2>1. Slots(twl) \subseteq Slots(twl')
    BY <1>14 DEF PostJob, AddTask, Slots
  <2> QED
    BY <1>1, <1>2, <1>14, <2>1 DEF PostJob, RunnerInv, IteratorsValid, Sec
<1>15. CASE Kill \/ UNCHANGED vars
  BY <1>1, <1>2, <1>15 DEF Kill, vars, RunnerInv, IteratorsValid, Slots, Sec
<1> QED
  BY <1>3, <1>4, <1>5, <1>6, <1>7, <1>8, <1>9, <1>10, <1>11, <1>12, <1>13, <1>14,
     <1>15 DEF Next, Runner, TimeUp

-----------------------------------------------------------------------------
(* The jobs.                                                                *)

\* A job that a step does not move, or that it only takes away.
LEMMA Elsewhere ==
    ASSUME NEW i \in Jobs, Placed(i),
           now \in Nat, now' \in Nat, now <= now', dur \in [Jobs -> Nat],
           UNCHANGED jobVars, post[i] \in Nat \cup {NoTime},
           bpc'[i] = bpc[i], btp'[i] = btp[i],
           pool'[i] = pool[i], post'[i] = post[i], hits'[i] = hits[i],
           \A t \in Slots(twl') : i \in twl'[t] => t \in Slots(twl) /\ i \in twl[t],
           i \in toLaunch' => i \in toLaunch,
           i \in recurred' => i \in recurred
    PROVE  Placed(i)'
BY DEF Placed, OneSlot, Waiting, InPool, Slots, TimePoints, jobVars

\* A job that was nowhere is put in the wheel.
LEMMA Armed ==
    ASSUME NEW j \in Jobs, NEW tp, twl' = AddTask(twl, tp, j),
           kind' = kind, kind[j] = "once" => hits[j] = 0, hits' = hits,
           ~Waiting(j), j \notin toLaunch', j \notin recurred', ~InPool(j)',
           post'[j] = NoTime, pool'[j] = 0 \/ kind[j] # "interval",
           bpc'[j] = "built"
    PROVE  Placed(j)'
<1>1. \A t \in Slots(twl') : j \in twl'[t] => t = tp
  BY DEF Waiting, AddTask, Slots
<1>2. OneSlot(j)'
  BY <1>1 DEF OneSlot, Slots
<1> QED
  BY <1>2 DEF Placed

\* The other jobs keep their slots.
LEMMA Joined ==
    ASSUME NEW tp, NEW j, twl' = AddTask(twl, tp, j), NEW i, i # j
    PROVE  \A t \in Slots(twl') : i \in twl'[t] => t \in Slots(twl) /\ i \in twl[t]
BY DEF AddTask, Slots

LEMMA JobStep == IInv /\ [Next]_vars => JobInv'
<1> SUFFICES ASSUME IInv, [Next]_vars, NEW i \in Jobs PROVE Placed(i)'
  BY DEF JobInv
<1> USE DEF jobVars, runVars, poolVars
<1>1. TypeOK /\ RunnerInv /\ Placed(i)
  BY DEF IInv, JobInv
<1>0. /\ now \in Nat /\ now' \in Nat /\ now <= now'
      /\ dur \in [Jobs -> Nat] /\ UNCHANGED jobVars
      /\ post[i] \in Nat \cup {NoTime}
  BY <1>1, ClockStep, TimePointsRange DEF TypeOK
<1>2. CASE /\ bpc'[i] = bpc[i] /\ btp'[i] = btp[i]
           /\ pool'[i] = pool[i] /\ post'[i] = post[i] /\ hits'[i] = hits[i]
           /\ twl' = twl /\ toLaunch' = toLaunch /\ recurred' = recurred
  BY <1>0, <1>1, <1>2, Elsewhere
<1>3. CASE \/ Tick \/ Kill \/ StartWait \/ WaitOver \/ RunnerEnds \/ ReadClock
           \/ FindNext \/ HoldPasts \/ RoundOver \/ UNCHANGED vars
  BY <1>2, <1>3
     DEF Tick, Kill, StartWait, WaitOver, RunnerEnds, ReadClock, FindNext,
         HoldPasts, RoundOver, vars
<1>4. ASSUME NEW j \in Jobs, NextPoint(j) PROVE Placed(i)'
  BY <1>2, <1>4 DEF NextPoint
<1>5. CASE Pick
  <2>1. itp \in Slots(twl) /\ toLaunch = {}
    BY <1>1, <1>5 DEF Pick, RunnerInv, IteratorsValid
  <2>2. \A t \in Slots(twl') : i \in twl'[t] => t # itp /\ t \in Slots(twl) /\ i \in twl[t]
    BY <1>5 DEF Pick, Slots
  <2>3. CASE i \notin twl[itp]
    BY <1>1, <1>5, <2>2, <2>3, <1>0, Elsewhere DEF Pick
  <2>4. CASE i \in twl[itp]
    <3>1. Waiting(i)
      BY <2>1, <2>4 DEF Waiting
    <3>2. ~Waiting(i)' /\ OneSlot(i)'
      BY <1>1, <2>1, <2>2, <2>4 DEF Placed, OneSlot, Waiting, Slots
    <3>3. InPool(i)' = InPool(i)
      BY <1>5 DEF Pick, InPool
    <3>4. TimePoints' = TimePoints
      BY DEF TimePoints
    <3> QED
      BY <1>1, <1>5, <3>1, <3>2, <3>3, <3>4 DEF Pick, Placed, TypeOK
  <2> QED
    BY <2>3, <2>4
<1>6. ASSUME NEW j \in Jobs, LaunchJob(j) PROVE Placed(i)'
  <2>1. CASE i # j
    BY <1>1, <1>6, <2>1, <1>0, Elsewhere DEF LaunchJob, TypeOK
  <2>2. CASE i = j
    <3>1. /\ ~Waiting(j) /\ j \notin recurred /\ ~InPool(j) /\ bpc[j] = "built"
          /\ kind[j] = "once" => hits[j] = 0
      BY <1>1, <1>6, <2>2 DEF LaunchJob, Placed, TypeOK
    <3>2. ~Waiting(j)' /\ OneSlot(j)'
      BY <1>6, <3>1 DEF LaunchJob, Waiting, OneSlot, Slots
    <3>3. /\ j \notin toLaunch' /\ bpc'[j] = "built" /\ post'[j] = NoTime
          /\ kind' = kind
          /\ j \in recurred' => kind[j] = "every"
      BY <1>1, <1>6, <2>2, <3>1 DEF LaunchJob, Placed, TypeOK, InPool
    <3>4. /\ kind[j] = "interval" => pool'[j] <= 1
          /\ kind[j] = "once" => hits'[j] <= 1
      BY <1>1, <1>6, <3>1 DEF LaunchJob, InPool, TypeOK
    <3> QED
      BY <2>2, <3>2, <3>3, <3>4 DEF Placed, InPool
  <2> QED
    BY <2>1, <2>2
<1>7. CASE PutBack
  <2>1. PICK j \in DOMAIN rtp : /\ twl' = AddTask(twl, rtp[j], j)
                                /\ recurred' = recurred \ {j}
    BY <1>7 DEF PutBack
  <2>2. CASE i # j
    <3>1. \A t \in Slots(twl') : i \in twl'[t] => t \in Slots(twl) /\ i \in twl[t]
      BY <2>1, <2>2, Joined
    <3> QED
      BY <1>1, <1>7, <2>1, <3>1, <1>0, Elsewhere DEF PutBack
  <2>3. CASE i = j
    <3>1. j \in Jobs /\ j \in recurred
      BY <1>1, <2>1 DEF TypeOK
    <3>2. /\ kind[j] = "every" /\ ~Waiting(j) /\ j \notin toLaunch
          /\ bpc[j] = "built" /\ post[j] = NoTime
      BY <1>1, <2>3, <3>1 DEF Placed
    <3>3. ~InPool(j)'
      BY <1>7, <3>2 DEF PutBack, InPool
    <3> QED
      BY <1>7, <2>1, <2>3, <3>1, <3>2, <3>3, Armed DEF PutBack
  <2> QED
    BY <2>2, <2>3
<1>8. ASSUME NEW j \in Jobs, Prepare(j) PROVE Placed(i)'
  <2>1. CASE i # j
    BY <1>1, <1>2, <1>8, <2>1 DEF Prepare, TypeOK
  <2>2. CASE i = j
    <3>1. btp'[j] \in TimePoints
      BY <1>1, <1>8, TimePointsRange DEF Prepare, FirstPoints, TypeOK
    <3>2. bpc[j] # "built" /\ bpc'[j] = "adding"
      BY <1>1, <1>8 DEF Prepare, TypeOK
    <3>3. TimePoints' = TimePoints
      BY DEF TimePoints
    <3> QED
      BY <1>1, <1>8, <2>2, <3>1, <3>2, <3>3
         DEF Prepare, Placed, OneSlot, Waiting, InPool, Slots
  <2> QED
    BY <2>1, <2>2
<1>9. ASSUME NEW j \in Jobs, Build(j) PROVE Placed(i)'
  <2>1. CASE i # j
    <3>1. \A t \in Slots(twl') : i \in twl'[t] => t \in Slots(twl) /\ i \in twl[t]
      BY <1>9, <2>1, Joined DEF Build
    <3> QED
      BY <1>1, <1>9, <2>1, <3>1, <1>0, Elsewhere DEF Build, TypeOK
  <2>2. CASE i = j
    <3>1. /\ ~Waiting(j) /\ j \notin toLaunch /\ j \notin recurred
          /\ pool[j] = 0 /\ post[j] = NoTime /\ hits[j] = 0
      BY <1>1, <1>9, <2>2 DEF Build, Placed
    <3>2. ~InPool(j)' /\ bpc'[j] = "built"
      BY <1>1, <1>9, <3>1 DEF Build, InPool, TypeOK
    <3> QED
      BY <1>9, <2>2, <3>1, <3>2, Armed DEF Build
  <2> QED
    BY <2>1, <2>2
<1>10. ASSUME NEW j \in Jobs, RunJob(j) PROVE Placed(i)'
  <2>1. CASE i # j
    BY <1>1, <1>2, <1>10, <2>1 DEF RunJob, TypeOK
  <2>2. CASE i = j
    <3>1. bpc[j] = "built" /\ pool[j] \in Nat /\ pool[j] > 0
      BY <1>1, <1>10, <2>2 DEF RunJob, Placed, TypeOK
    <3>2. Waiting(j)' = Waiting(j) /\ OneSlot(j)' = OneSlot(j)
      BY <1>10 DEF RunJob, Waiting, OneSlot, Slots
    <3>3. CASE kind[j] = "interval"
      <4>1. pool'[j] = 0 /\ InPool(j)
        BY <1>1, <1>10, <2>2, <3>1, <3>3 DEF RunJob, Placed, TypeOK, InPool
      <4>2. post'[j] <= now' + dur'[j]
        BY <1>0, <1>1, <1>10, <3>3 DEF RunJob, TypeOK
      <4> QED
        BY <1>1, <1>10, <2>2, <3>1, <3>2, <3>3, <4>1, <4>2 DEF RunJob, Placed, InPool
    <3>4. CASE kind[j] # "interval"
      <4>1. post'[j] = post[j] /\ ~InPool(j)'
        BY <1>1, <1>10, <3>4 DEF RunJob, TypeOK, InPool
      <4> QED
        BY <1>1, <1>10, <2>2, <3>1, <3>2, <3>4, <4>1 DEF RunJob, Placed
    <3> QED
      BY <3>3, <3>4
  <2> QED
    BY <2>1, <2>2
<1>11. ASSUME NEW j \in Jobs, PostJob(j) PROVE Placed(i)'
  <2>1. CASE i # j
    <3>1. \A t \in Slots(twl') : i \in twl'[t] => t \in Slots(twl) /\ i \in twl[t]
      BY <1>11, <2>1, Joined DEF PostJob
    <3> QED
      BY <1>1, <1>11, <2>1, <3>1, <1>0, Elsewhere DEF PostJob, TypeOK
  <2>2. CASE i = j
    <3>1. kind[j] = "interval" /\ pool[j] = 0 /\ InPool(j)
      BY <1>1, <1>11, <2>2 DEF PostJob, Placed, InPool
    <3>2. /\ ~Waiting(j) /\ j \notin toLaunch /\ j \notin recurred /\ bpc[j] = "built"
      BY <1>1, <1>11, <2>2, <3>1 DEF Placed, PostJob
    <3>3. post'[j] = NoTime /\ ~InPool(j)'
      BY <1>1, <1>11, <3>1 DEF PostJob, TypeOK, InPool
    <3>4. CASE twl' = AddTask(twl, post[j], j)
      BY <1>11, <2>2, <3>1, <3>2, <3>3, <3>4, Armed DEF PostJob
    <3>5. CASE twl' = twl
      BY <1>1, <1>11, <2>2, <3>1, <3>2, <3>3, <3>5
         DEF PostJob, Placed, Waiting, OneSlot, Slots
    <3> QED
      BY <1>11, <3>4, <3>5 DEF PostJob
  <2> QED
    BY <2>1, <2>2
<1> QED
  BY <1>3, <1>4, <1>5, <1>6, <1>7, <1>8, <1>9, <1>10, <1>11 DEF Next, Runner, TimeUp

\* The invariant is inductive.
THEOREM Invariant == Spec => []IInv
<1>1. IInv /\ [Next]_vars => IInv'
  BY TypeStep, RunnerStep, JobStep DEF IInv
<1> QED
  BY <1>1, InitInv, PTL DEF Spec

\* Every reachable state is well typed: all time points are between the bounds,
\* and the jobs left to launch are among those taken out of the slot.
THEOREM TypeCorrect == Spec => []TypeOK
<1>1. IInv => TypeOK
  BY DEF IInv
<1> QED
  BY <1>1, Invariant, PTL

\* For any jobs and any threads: the iterators that find_next() returns still
\* point to slots when the runner dereferences them.
THEOREM IteratorsStayValid == Spec => []IteratorsValid
<1>1. IInv => IteratorsValid
  BY DEF IInv, RunnerInv
<1> QED
  BY <1>1, Invariant, PTL

LEMMA AtMostOne ==
    ASSUME NEW S, \A p, q \in S : p = q
    PROVE  Cardinality(S) <= 1
<1>1. CASE S = {}
  BY <1>1, FS_EmptySet
<1>2. ASSUME NEW p \in S PROVE Cardinality(S) <= 1
  <2>1. S = {p}
    BY <1>2
  <2>2. Cardinality({p}) = 1
    BY FS_Singleton, Zenon
  <2> QED
    BY <2>1, <2>2
<1> QED
  BY <1>1, <1>2

\* For any jobs and any threads: no job is in the wheel twice or put back twice
\* for one launch, and one that is not recurring is launched once.
THEOREM OneLaunchEach == Spec => []ScheduledOnce
<1>1. IInv => ScheduledOnce
  <2> SUFFICES ASSUME IInv, NEW j \in Jobs
               PROVE  Cardinality(Places(j)) <= 1 /\ (kind[j] = "once" => hits[j] <= 1)
    BY DEF ScheduledOnce
  <2>1. Placed(j)
    BY DEF IInv, JobInv
  <2>2. \A p, q \in Places(j) : p = q
    BY <2>1 DEF Places, Placed, OneSlot, Waiting, InPool
  <2> QED
    BY <2>1, <2>2, AtMostOne DEF Placed
<1> QED
  BY <1>1, Invariant, PTL

-----------------------------------------------------------------------------
(* What leaves the wheel is due.                                            *)

\* A slot the runner empties or erases is not after the one it picked.
LEMMA PickedIsDue ==
    ASSUME IInv, Pick, NEW t \in Slots(twl), t <= itp
    PROVE  Sec(t) <= Sec(now)
<1>1. t \in Nat /\ itp \in Nat /\ Sec(itp) <= timeNow /\ timeNow <= Sec(now)
  BY TimePointsRange DEF IInv, RunnerInv, TypeOK, WheelType, Pick
<1>2. now \in Nat /\ timeNow \in Nat
  BY TimeAssumption DEF IInv, TypeOK
<1>3. Sec(t) <= Sec(itp) /\ Sec(t) \in Nat /\ Sec(itp) \in Nat /\ Sec(now) \in Nat
  BY <1>1, <1>2, SecondsMonotone
<1> QED
  BY <1>1, <1>2, <1>3

\* Only the runner takes jobs out of the wheel.
LEMMA WheelGrows ==
    ASSUME [Next]_vars, ~Pick, NEW t \in Slots(twl)
    PROVE  t \in Slots(twl') /\ twl[t] \subseteq twl'[t]
<1> USE DEF jobVars, runVars, poolVars
<1>1. CASE twl' = twl
  BY <1>1 DEF Slots
<1>2. ASSUME NEW tp, NEW j, twl' = AddTask(twl, tp, j)
      PROVE  t \in Slots(twl') /\ twl[t] \subseteq twl'[t]
  BY <1>2 DEF AddTask, Slots
<1>3. CASE Runner
  BY <1>1, <1>2, <1>3
     DEF Runner, StartWait, WaitOver, RunnerEnds, ReadClock, FindNext,
         LaunchJob, HoldPasts, NextPoint, PutBack, RoundOver
<1>4. ASSUME NEW j \in Jobs, Prepare(j) \/ Build(j) \/ RunJob(j) \/ PostJob(j)
      PROVE  t \in Slots(twl') /\ twl[t] \subseteq twl'[t]
  BY <1>1, <1>2, <1>4 DEF Prepare, Build, RunJob, PostJob
<1> QED
  BY <1>1, <1>3, <1>4 DEF Next, Tick, Kill, TimeUp, vars

\* For any jobs and any threads: a job leaves the wheel, launched or erased, in
\* the second of its time point or later.
THEOREM LeavesWhenDue == Spec => NothingLeavesEarly
<1> DEFINE Due == \A t \in Slots(twl) : \A j \in twl[t] :
                     (t \in Slots(twl') => j \notin twl'[t]) => Sec(t) <= Sec(now)
<1>1. IInv /\ [Next]_vars => [Due]_vars
  <2> SUFFICES ASSUME IInv, [Next]_vars, NEW t \in Slots(twl), NEW j \in twl[t],
                      t \in Slots(twl') => j \notin twl'[t]
               PROVE  Sec(t) <= Sec(now)
    OBVIOUS
  <2>1. Pick
    BY WheelGrows
  <2>2. t <= itp
    <3>1. t \in Nat /\ itp \in Nat
      BY <2>1, TimePointsRange DEF Pick, IInv, RunnerInv, TypeOK, WheelType
    <3>2. t > itp => t \in Slots(twl') /\ twl'[t] = twl[t]
      BY <2>1, <3>1 DEF Pick, Slots
    <3> QED
      BY <3>1, <3>2
  <2> QED
    BY <2>1, <2>2, PickedIsDue
<1> QED
  BY <1>1, Invariant, PTL DEF Spec, NothingLeavesEarly

-----------------------------------------------------------------------------
(* The timer keeps the schedule of its jobs.                                *)

LEMMA OnlyOne ==
    ASSUME NEW S \in SUBSET Nat, NEW t \in S, \A s \in S : s = t
    PROVE  S # {} /\ Min(S) = t
BY LeastOf

\* Where job j is in the schedule when it is not in the wheel or about to be
\* launched.
OffPhase(j) == IF bpc[j] # "built" THEN "unset"
               ELSE IF \/ kind[j] = "once" /\ hits[j] > 0
                       \/ j \in recurred
                       \/ InPool(j) THEN "fired" ELSE "gone"

\* The phase and the time point of a job in its slot, of one that is being
\* launched, and of one elsewhere.
DueFacts ==
    /\ \A j \in Jobs, t \in Slots(twl) : j \in twl[t] =>
          DueOf(j) = t /\ PhaseOf(j) = "armed" /\ t \in Nat
    /\ \A j \in toLaunch : /\ DueOf(j) = itp /\ PhaseOf(j) = "armed"
                           /\ j \in Jobs /\ Sec(itp) <= Sec(now)
    /\ \A j \in Jobs : ~Waiting(j) /\ j \notin toLaunch =>
          DueOf(j) = NoTime /\ PhaseOf(j) = OffPhase(j)

LEMMA DuesFollow == IInv => DueFacts
<1> SUFFICES ASSUME IInv PROVE DueFacts
  OBVIOUS
<1>1. ASSUME NEW j \in Jobs, NEW t \in Slots(twl), j \in twl[t]
      PROVE  DueOf(j) = t /\ PhaseOf(j) = "armed" /\ t \in Nat
  <2>1. Placed(j) /\ Slots(twl) \subseteq Nat
    BY TimePointsRange DEF IInv, JobInv, TypeOK, WheelType
  <2>2. j \notin toLaunch /\ bpc[j] = "built"
    BY <1>1, <2>1 DEF Placed, Waiting
  <2> DEFINE ts == {s \in Slots(twl) : j \in twl[s]}
  <2>3. ts \in SUBSET Nat /\ t \in ts /\ \A s \in ts : s = t
    BY <1>1, <2>1 DEF Placed, OneSlot
  <2> HIDE DEF ts
  <2>4. ts # {} /\ Min(ts) = t
    BY <2>3, OnlyOne
  <2>5. DueOf(j) = t
    BY <2>2, <2>4 DEF DueOf, ts
  <2> QED
    BY <2>1, <2>2, <2>5 DEF PhaseOf, NoTime
<1>2. ASSUME NEW j \in toLaunch
      PROVE  /\ DueOf(j) = itp /\ PhaseOf(j) = "armed"
             /\ j \in Jobs /\ Sec(itp) <= Sec(now)
  <2>1. j \in Jobs /\ Placed(j) /\ rpc = "launch"
    BY DEF IInv, JobInv, TypeOK, RunnerInv
  <2>2. bpc[j] = "built"
    BY <2>1 DEF Placed
  <2>3. itp \in Nat /\ timeNow \in Nat /\ now \in Nat
    BY <2>1, TimePointsRange, TimeAssumption DEF IInv, RunnerInv, TypeOK
  <2>4. Sec(itp) <= Sec(now)
    BY <2>1, <2>3, SecondsMonotone DEF IInv, RunnerInv
  <2> QED
    BY <2>1, <2>2, <2>3, <2>4 DEF DueOf, PhaseOf, NoTime
<1>3. ASSUME NEW j \in Jobs, ~Waiting(j), j \notin toLaunch
      PROVE  DueOf(j) = NoTime /\ PhaseOf(j) = OffPhase(j)
  BY <1>3 DEF DueOf, PhaseOf, OffPhase, Waiting
<1> QED
  BY <1>1, <1>2, <1>3 DEF DueFacts

\* A job whose place a step does not change.
Still(i) ==
    /\ \A t : t \in Slots(twl') /\ i \in twl'[t] <=> t \in Slots(twl) /\ i \in twl[t]
    /\ i \in toLaunch' <=> i \in toLaunch
    /\ i \in toLaunch => itp' = itp
    /\ i \in recurred' <=> i \in recurred
    /\ bpc'[i] = "built" <=> bpc[i] = "built"
    /\ InPool(i)' <=> InPool(i)
    /\ kind[i] = "once" => (hits'[i] > 0 <=> hits[i] > 0)

LEMMA KeepsPlace ==
    ASSUME DueFacts, DueFacts', kind' = kind, NEW i \in Jobs, Still(i)
    PROVE  DueOf(i)' = DueOf(i) /\ PhaseOf(i)' = PhaseOf(i)
<1>1. ASSUME NEW t \in Slots(twl), i \in twl[t]
      PROVE  DueOf(i)' = DueOf(i) /\ PhaseOf(i)' = PhaseOf(i)
  BY <1>1 DEF DueFacts, Still, Slots
<1>2. CASE i \in toLaunch
  BY <1>2 DEF DueFacts, Still
<1>3. CASE ~Waiting(i) /\ i \notin toLaunch
  <2>1. ~Waiting(i)' /\ i \notin toLaunch'
    BY <1>3 DEF Waiting, Still, Slots
  <2>2. OffPhase(i)' = OffPhase(i)
    BY DEF OffPhase, Still
  <2> QED
    BY <1>3, <2>1, <2>2 DEF DueFacts
<1> QED
  BY <1>1, <1>2, <1>3 DEF Waiting

\* One job moves, to where the next state has it.
LEMMA OneMoves ==
    ASSUME DueFacts, DueFacts', now' = now, UNCHANGED jobVars, NEW j \in Jobs,
           \A i \in Jobs \ {j} : Still(i),
           NEW ph, NEW tp, PhaseOf(j)' = ph, DueOf(j)' = tp
    PROVE  Promise!Enter(j, ph, tp)
<1>1. \A i \in Jobs \ {j} : DueOf(i)' = DueOf(i) /\ PhaseOf(i)' = PhaseOf(i)
  BY KeepsPlace DEF jobVars
<1> QED
  BY <1>1 DEF Promise!Enter, Promise!jobVars, jobVars

LEMMA NobodyMoves ==
    ASSUME DueFacts, DueFacts', UNCHANGED jobVars, \A i \in Jobs : Still(i)
    PROVE  /\ now' = now => UNCHANGED Promise!vars
           /\ now' = now + 1 => Promise!Tick
<1>1. \A i \in Jobs : DueOf(i)' = DueOf(i) /\ PhaseOf(i)' = PhaseOf(i)
  BY KeepsPlace DEF jobVars
<1> QED
  BY <1>1 DEF Promise!Tick, Promise!vars, Promise!jobVars, jobVars

LEMMA RangeOfNext ==
    ASSUME TypeOK, NEW j \in Jobs, NEW tp \in Nat, tp <= now + dur[j]
    PROVE  tp \in 0..(now + dur[j])
<1>1. now \in 0..MaxTime /\ dur[j] \in Durations
  BY DEF TypeOK
<1>2. \A r \in Durations : r \in Nat
  BY TimeAssumption
<1>3. now \in Nat /\ dur[j] \in Nat
  BY <1>1, <1>2
<1> QED
  BY <1>3

LEMMA BuildArms ==
    ASSUME IInv, DueFacts, DueFacts', NEW j \in Jobs, Build(j)
    PROVE  Promise!Arm(j)
<1> USE DEF jobVars, runVars, poolVars
<1>1. TypeOK /\ Placed(j) /\ btp[j] \in TimePoints /\ bpc[j] = "adding"
  BY DEF IInv, JobInv, Placed, Build
<1>2. PhaseOf(j) = "unset"
  BY <1>1 DEF PhaseOf
<1>3. DueOf(j)' = btp[j] /\ PhaseOf(j)' = "armed"
  <2>1. btp[j] \in Slots(twl') /\ j \in twl'[btp[j]]
    BY DEF Build, AddTask, Slots
  <2> QED
    BY <2>1, <1>1 DEF DueFacts, Slots
<1>4. ASSUME NEW i \in Jobs \ {j} PROVE Still(i)
  BY <1>1, <1>4 DEF Build, AddTask, Still, Slots, InPool, TypeOK
<1>5. Promise!Enter(j, "armed", btp[j])
  <2>1. now' = now /\ UNCHANGED jobVars
    BY DEF Build
  <2> QED
    BY <1>3, <1>4, <2>1, OneMoves
<1> QED
  BY <1>1, <1>2, <1>5 DEF Promise!Arm

\* The jobs in the slots before the one picked are dropped, all due.
LEMMA PickDrops ==
    ASSUME IInv, DueFacts, DueFacts', Pick
    PROVE  Promise!DropSome
<1> USE DEF jobVars, runVars, poolVars
<1> DEFINE js == {j \in Jobs : \E t \in Slots(twl) : t < itp /\ j \in twl[t]}
<1>1. TypeOK /\ RunnerInv /\ JobInv
  BY DEF IInv
<1>2. itp \in Slots(twl) /\ toLaunch = {} /\ Slots(twl) \subseteq Nat
  BY <1>1, TimePointsRange DEF Pick, RunnerInv, IteratorsValid, TypeOK, WheelType
<1>3. ASSUME NEW j \in js
      PROVE  /\ j \in Jobs /\ PhaseOf(j) = "armed" /\ Sec(DueOf(j)) <= Sec(now)
             /\ PhaseOf(j)' = "gone" /\ DueOf(j)' = NoTime
  <2>1. PICK t \in Slots(twl) : t < itp /\ j \in twl[t]
    OBVIOUS
  <2>2. t <= itp /\ j \in Jobs
    BY <1>2, <2>1
  <2>3. DueOf(j) = t /\ PhaseOf(j) = "armed" /\ Sec(t) <= Sec(now)
    BY <2>1, <2>2, PickedIsDue DEF DueFacts
  <2>4. j \notin twl[itp] /\ \A u \in Slots(twl) : j \in twl[u] => u = t
    BY <1>1, <1>2, <2>1, <2>2 DEF JobInv, Placed, OneSlot
  <2>5. ~Waiting(j)' /\ j \notin toLaunch'
    BY <1>2, <2>1, <2>4 DEF Pick, Waiting, Slots
  <2>6. OffPhase(j)' = "gone"
    <3>1. /\ j \notin recurred /\ ~InPool(j) /\ bpc[j] = "built"
          /\ ~(kind[j] = "once" /\ hits[j] > 0)
      BY <1>1, <2>1, <2>2 DEF JobInv, Placed, Waiting
    <3>2. InPool(j)' = InPool(j)
      BY DEF Pick, InPool
    <3> QED
      BY <3>1, <3>2 DEF Pick, OffPhase
  <2> QED
    BY <2>2, <2>3, <2>5, <2>6 DEF DueFacts
<1>4. ASSUME NEW j \in Jobs \ js
      PROVE  PhaseOf(j)' = PhaseOf(j) /\ DueOf(j)' = DueOf(j)
  <2>1. CASE j \in twl[itp]
    <3>1. DueOf(j) = itp /\ PhaseOf(j) = "armed"
      BY <1>2, <2>1 DEF DueFacts
    <3>2. j \in toLaunch' /\ itp' = itp
      BY <2>1 DEF Pick
    <3> QED
      BY <3>1, <3>2 DEF DueFacts
  <2>2. CASE j \notin twl[itp]
    <3>1. \A t \in Slots(twl) : j \in twl[t] => t \in Nat /\ t >= itp /\ t # itp
      BY <1>2, <2>2
    <3>2. \A t : t \in Slots(twl') /\ j \in twl'[t] <=> t \in Slots(twl) /\ j \in twl[t]
      BY <1>2, <3>1 DEF Pick, Slots
    <3>3. Still(j)
      BY <1>2, <2>2, <3>2 DEF Pick, Still, InPool
    <3> QED
      BY <3>3, KeepsPlace DEF Pick
  <2> QED
    BY <2>1, <2>2
<1>5. js \in SUBSET {j \in Jobs : PhaseOf(j) = "armed" /\ Sec(DueOf(j)) <= Sec(now)}
  BY <1>3
<1>6. /\ [j \in Jobs |-> PhaseOf(j)'] = [j \in Jobs |-> IF j \in js THEN "gone" ELSE PhaseOf(j)]
      /\ [j \in Jobs |-> DueOf(j)'] = [j \in Jobs |-> IF j \in js THEN NoTime ELSE DueOf(j)]
  BY <1>3, <1>4
<1>7. now' = now /\ UNCHANGED jobVars
  BY DEF Pick
<1> HIDE DEF js
<1> QED
  BY <1>5, <1>6, <1>7
     DEF Promise!DropSome, Promise!Begun, Promise!NoTime, NoTime, Promise!jobVars, Sec

LEMMA LaunchFires ==
    ASSUME IInv, DueFacts, DueFacts', NEW j \in Jobs, LaunchJob(j)
    PROVE  Promise!Fire(j)
<1> USE DEF jobVars, runVars, poolVars
<1>1. TypeOK /\ Placed(j) /\ j \in toLaunch /\ toLaunch' = toLaunch \ {j}
  BY DEF IInv, JobInv, LaunchJob
<1>2. PhaseOf(j) = "armed" /\ Sec(DueOf(j)) <= Sec(now)
  BY <1>1 DEF DueFacts
<1>3. /\ ~Waiting(j)' /\ bpc'[j] = "built"
  BY <1>1 DEF LaunchJob, Placed, Waiting, Slots
<1>4. OffPhase(j)' = "fired"
  <2>1. kind[j] \in AllKinds /\ kind' = kind
    BY <1>1, KindsAssumption DEF TypeOK, LaunchJob
  <2>2. CASE kind[j] = "once"
    <3>1. hits'[j] > 0
      BY <1>1 DEF LaunchJob, TypeOK
    <3> QED
      BY <1>3, <2>1, <2>2, <3>1 DEF OffPhase
  <2>3. CASE kind[j] = "every"
    BY <1>3, <2>3 DEF LaunchJob, OffPhase
  <2>4. CASE kind[j] = "interval"
    <3>1. pool'[j] > 0
      BY <1>1 DEF LaunchJob, TypeOK
    <3>2. InPool(j)'
      BY <2>1, <2>4, <3>1 DEF InPool
    <3> QED
      BY <1>3, <3>2 DEF OffPhase
  <2> QED
    BY <2>1, <2>2, <2>3, <2>4 DEF AllKinds
<1>5. PhaseOf(j)' = "fired" /\ DueOf(j)' = NoTime
  BY <1>1, <1>3, <1>4 DEF DueFacts
<1>6. ASSUME NEW i \in Jobs \ {j} PROVE Still(i)
  BY <1>1, <1>6 DEF LaunchJob, Still, Slots, InPool, TypeOK
<1>7. Promise!Enter(j, "fired", NoTime)
  <2>1. now' = now /\ UNCHANGED jobVars
    BY DEF LaunchJob
  <2> QED
    BY <1>5, <1>6, <2>1, OneMoves
<1> QED
  BY <1>2, <1>7 DEF Promise!Fire, Promise!Begun, Sec, Promise!NoTime, NoTime

\* The runner puts a recurring job back.
LEMMA PutBackRearms ==
    ASSUME IInv, DueFacts, DueFacts', PutBack
    PROVE  \E j \in Jobs : Promise!Rearm(j)
<1> USE DEF jobVars, runVars, poolVars
<1>1. TypeOK /\ RunnerInv /\ JobInv
  BY DEF IInv
<1>2. PICK j \in DOMAIN rtp : /\ twl' = AddTask(twl, rtp[j], j)
                              /\ recurred' = recurred \ {j}
  BY DEF PutBack
<1>3. /\ j \in Jobs /\ j \in recurred
      /\ rtp[j] \in Nat /\ rtp[j] <= now + dur[j]
  BY <1>1, TimePointsRange DEF TypeOK, RunnerInv
<1>4. /\ kind[j] = "every" /\ ~Waiting(j) /\ j \notin toLaunch /\ bpc[j] = "built"
  BY <1>1, <1>3 DEF JobInv, Placed
<1>5. PhaseOf(j) = "fired"
  BY <1>3, <1>4 DEF DueFacts, OffPhase
<1>6. DueOf(j)' = rtp[j] /\ PhaseOf(j)' = "armed"
  <2>1. rtp[j] \in Slots(twl') /\ j \in twl'[rtp[j]]
    BY <1>2 DEF AddTask, Slots
  <2> QED
    BY <1>3, <2>1 DEF DueFacts, Slots
<1>7. ASSUME NEW i \in Jobs \ {j} PROVE Still(i)
  BY <1>1, <1>2, <1>7 DEF PutBack, AddTask, Still, Slots, InPool
<1>8. Promise!Enter(j, "armed", rtp[j])
  <2>1. now' = now /\ UNCHANGED jobVars
    BY DEF PutBack
  <2> QED
    BY <1>3, <1>6, <1>7, <2>1, OneMoves
<1>9. rtp[j] \in 0..(now + dur[j])
  BY <1>1, <1>3, RangeOfNext
<1> QED
  BY <1>3, <1>4, <1>5, <1>8, <1>9 DEF Promise!Rearm

\* A pool worker puts an _interval job back, or finds it destroyed.
LEMMA PostRearms ==
    ASSUME IInv, DueFacts, DueFacts', NEW j \in Jobs, PostJob(j)
    PROVE  Promise!Rearm(j) \/ Promise!Lose(j)
<1> USE DEF jobVars, runVars, poolVars
<1>1. TypeOK /\ Placed(j) /\ post[j] # NoTime /\ post'[j] = NoTime
  BY DEF IInv, JobInv, PostJob, TypeOK
<1>2. /\ kind[j] = "interval" /\ pool[j] = 0 /\ InPool(j)
      /\ post[j] \in Nat /\ post[j] <= now + dur[j]
  BY <1>1, TimePointsRange DEF Placed, InPool, TypeOK
<1>3. /\ ~Waiting(j) /\ j \notin toLaunch /\ j \notin recurred /\ bpc[j] = "built"
  BY <1>1, <1>2 DEF Placed
<1>4. PhaseOf(j) = "fired"
  BY <1>2, <1>3 DEF DueFacts, OffPhase
<1>5. now' = now /\ UNCHANGED jobVars
  BY DEF PostJob
<1>6. ASSUME NEW i \in Jobs \ {j} PROVE Still(i)
  BY <1>1, <1>6 DEF PostJob, AddTask, Still, Slots, InPool, TypeOK
<1>7. CASE twl' = AddTask(twl, post[j], j)
  <2>1. post[j] \in Slots(twl') /\ j \in twl'[post[j]]
    BY <1>7 DEF AddTask, Slots
  <2>2. DueOf(j)' = post[j] /\ PhaseOf(j)' = "armed"
    BY <2>1 DEF DueFacts, Slots
  <2>3. Promise!Enter(j, "armed", post[j])
    BY <1>5, <1>6, <2>2, OneMoves
  <2>4. post[j] \in 0..(now + dur[j])
    BY <1>1, <1>2, RangeOfNext
  <2> QED
    BY <1>2, <1>4, <2>3, <2>4 DEF Promise!Rearm
<1>8. CASE twl' = twl
  <2>1. ~Waiting(j)' /\ j \notin toLaunch' /\ ~InPool(j)'
    BY <1>1, <1>2, <1>3, <1>8 DEF PostJob, Waiting, InPool, Slots
  <2>2. DueOf(j)' = NoTime /\ PhaseOf(j)' = "gone"
    BY <1>2, <1>3, <2>1 DEF PostJob, DueFacts, OffPhase
  <2>3. Promise!Enter(j, "gone", NoTime)
    BY <1>5, <1>6, <2>2, OneMoves
  <2> QED
    BY <1>2, <1>4, <2>3 DEF Promise!Lose, Promise!NoTime, NoTime
<1> QED
  BY <1>7, <1>8 DEF PostJob

\* Timer implements Schedule, for any jobs, any periods and threads of any speed:
\* each job fires once for each time point it is armed for, never before the
\* second of that time point, and is armed again only once it has fired.
THEOREM Implements == Spec => KeepsSchedule
<1>1. Init => Promise!Init
  <2> SUFFICES ASSUME Init PROVE Promise!Init
    OBVIOUS
  <2>1. Slots(twl) = {}
    BY DEF Init, Slots
  <2>2. \A j \in Jobs : PhaseOf(j) = "unset" /\ DueOf(j) = NoTime
    BY <2>1 DEF Init, PhaseOf, DueOf
  <2>3. now = 0
    BY DEF Init
  <2> QED
    BY <2>2, <2>3 DEF Promise!Init, Promise!NoTime, NoTime
<1>2. IInv /\ IInv' /\ [Next]_vars => [Promise!Next]_(Promise!vars)
  <2> SUFFICES ASSUME IInv, IInv', [Next]_vars
               PROVE  Promise!Next \/ UNCHANGED Promise!vars
    OBVIOUS
  <2> USE DEF jobVars, runVars, poolVars
  <2>1. DueFacts
    BY DuesFollow
  <2>2. DueFacts'
    BY DuesFollow, PTL
  <2>3. TypeOK /\ RunnerInv /\ JobInv
    BY DEF IInv
  <2>4. CASE Tick
    <3>1. \A i \in Jobs : Still(i)
      BY <2>4 DEF Tick, Still, Slots, InPool
    <3> QED
      BY <2>1, <2>2, <2>4, <3>1, NobodyMoves DEF Tick, Promise!Next
  <2>5. CASE /\ now' = now /\ UNCHANGED jobVars /\ \A i \in Jobs : Still(i)
    BY <2>1, <2>2, <2>5, NobodyMoves
  <2>6. CASE \/ Kill \/ StartWait \/ WaitOver \/ RunnerEnds \/ ReadClock
             \/ HoldPasts \/ RoundOver \/ UNCHANGED vars
    <3>1. \A i \in Jobs : Still(i)
      BY <2>6 DEF Kill, StartWait, WaitOver, RunnerEnds, ReadClock, HoldPasts,
                  RoundOver, vars, Still, Slots, InPool
    <3>2. now' = now /\ UNCHANGED jobVars
      BY <2>6 DEF Kill, StartWait, WaitOver, RunnerEnds, ReadClock, HoldPasts,
                  RoundOver, vars
    <3> QED
      BY <2>5, <3>1, <3>2
  <2>7. CASE FindNext
    <3>1. toLaunch = {}
      BY <2>3, <2>7 DEF FindNext, RunnerInv
    <3>2. \A i \in Jobs : Still(i)
      BY <2>7, <3>1 DEF FindNext, Still, Slots, InPool
    <3> QED
      BY <2>5, <2>7, <3>2 DEF FindNext
  <2>8. ASSUME NEW j \in Jobs, NextPoint(j) PROVE Promise!Next \/ UNCHANGED Promise!vars
    <3>1. \A i \in Jobs : Still(i)
      BY <2>8 DEF NextPoint, Still, Slots, InPool
    <3> QED
      BY <2>5, <2>8, <3>1 DEF NextPoint
  <2>9. ASSUME NEW j \in Jobs, Prepare(j) PROVE Promise!Next \/ UNCHANGED Promise!vars
    <3>1. \A i \in Jobs : Still(i)
      BY <2>3, <2>9 DEF Prepare, Still, Slots, InPool, TypeOK
    <3> QED
      BY <2>5, <2>9, <3>1 DEF Prepare
  <2>10. ASSUME NEW j \in Jobs, RunJob(j) PROVE Promise!Next \/ UNCHANGED Promise!vars
    <3>1. \A i \in Jobs : InPool(i)' <=> InPool(i)
      <4>1. now + dur[j] # NoTime
        BY <2>3, TimePointsRange DEF TypeOK
      <4>2. ASSUME NEW i \in Jobs \ {j} PROVE InPool(i)' <=> InPool(i)
        BY <2>3, <2>10, <4>2 DEF RunJob, InPool, TypeOK
      <4>3. InPool(j)' <=> InPool(j)
        BY <2>3, <2>10, <4>1 DEF RunJob, InPool, TypeOK
      <4> QED
        BY <4>2, <4>3
    <3>2. \A i \in Jobs : Still(i)
      BY <2>10, <3>1 DEF RunJob, Still, Slots
    <3> QED
      BY <2>5, <2>10, <3>2 DEF RunJob
  <2>11. ASSUME NEW j \in Jobs, Build(j) PROVE Promise!Next
    BY <2>1, <2>2, <2>11, BuildArms DEF Promise!Next
  <2>12. CASE Pick
    BY <2>1, <2>2, <2>12, PickDrops DEF Promise!Next
  <2>13. ASSUME NEW j \in Jobs, LaunchJob(j) PROVE Promise!Next
    BY <2>1, <2>2, <2>13, LaunchFires DEF Promise!Next
  <2>14. CASE PutBack
    BY <2>1, <2>2, <2>14, PutBackRearms DEF Promise!Next
  <2>15. ASSUME NEW j \in Jobs, PostJob(j) PROVE Promise!Next
    BY <2>1, <2>2, <2>15, PostRearms DEF Promise!Next
  <2> QED
    BY <2>4, <2>6, <2>7, <2>8, <2>9, <2>10, <2>11, <2>12, <2>13, <2>14, <2>15
       DEF Next, Runner, TimeUp
<1> QED
  BY <1>1, <1>2, Invariant, PTL DEF Spec, KeepsSchedule, Promise!Spec

-----------------------------------------------------------------------------
(* A timer with one job, and threads that are fast, launches it in time.    *)

\* The conditions: threads take no time compared with a tick, the timer has one
\* job, and no job is built for the past.
Dependable == /\ Prompt
              /\ \A i, j \in Jobs : i = j
              /\ \A t \in Absolute : LastBuild <= t

\* When the runner will look at the wheel again.
NextLook == IF rpc = "waiting" THEN deadline ELSE now + d

\* No time passes in a round of the runner, nor while a job is on its way into
\* the wheel.
RoundIsPrompt ==
    /\ rpc # "ended"
    /\ rpc \in {"find", "pick", "launch"} => timeNow = Sec(now)
    /\ rpc \in {"readClock", "find", "pick"} => d = LargerGap
    /\ rpc \notin {"launch", "recur"} => recurred = {}
    /\ \A j \in Jobs : /\ bpc[j] = "adding" => now <= btp[j]
                       /\ post[j] # NoTime => post[j] = now + dur[j]
                       /\ j \in DOMAIN rtp => rtp[j] = now + dur[j]

\* A job not launched before: no slot was ever emptied, and the runner does not
\* sleep for longer than _larger_gap.
FirstLaunch(j) ==
    hits[j] = 0 =>
        /\ j \notin toLaunch => \A t \in Slots(twl) : j \in twl[t]
        /\ rpc = "launch" => j \in toLaunch
        /\ rpc # "recur"
        /\ d <= LargerGap
        /\ rpc = "waiting" => deadline <= now + LargerGap
        /\ rpc \in {"loop", "waiting"} =>
              \A t \in Slots(twl) : NextLook <= t + LargerGap

\* A job the runner puts back: it sleeps until then.
EveryLaunch(j) ==
    kind[j] = "every" /\ hits[j] > 0 =>
        \A t \in Slots(twl) : j \in twl[t] =>
            /\ rpc \in {"loop", "waiting", "recur"} => NextLook = t
            /\ rpc \in {"readClock", "find"} => t <= now
            /\ rpc = "pick" => t <= itp
            /\ rpc # "launch"

\* A job that a pool worker puts back, while the runner sleeps for _larger_gap
\* or before: that is not shorter than its period, and the slots emptied are
\* before its own.
IntervalLaunch(j) ==
    kind[j] = "interval" =>
        /\ bpc[j] = "adding" => btp[j] <= now + dur[j]
        /\ \A s \in Slots(twl) : s <= now + dur[j]
        /\ \A s, t \in Slots(twl) : j \in twl[t] => s <= t
        /\ j \in toLaunch \/ InPool(j) =>
              /\ rpc \in {"launch", "recur", "loop", "waiting"}
              /\ rpc # "waiting" => d = LargerGap
              /\ rpc = "waiting" => deadline = now + LargerGap
        /\ hits[j] > 0 /\ dur[j] <= LargerGap =>
              \A t \in Slots(twl) : j \in twl[t] =>
                  /\ rpc \in {"launch", "recur", "loop", "waiting"} =>
                        t <= NextLook /\ NextLook <= t + LargerGap
                  /\ rpc \in {"readClock", "find"} => t <= now
                  /\ rpc = "pick" => t <= itp

\* A job in the wheel is not late.
NotLate(j) == \A t \in Slots(twl) :
    j \in twl[t] /\ (kind[j] = "interval" => dur[j] <= LargerGap) => now <= t + Slack(j)

Timely(j) == FirstLaunch(j) /\ EveryLaunch(j) /\ IntervalLaunch(j) /\ NotLate(j)

TimeInv == ~killed => RoundIsPrompt /\ \A j \in Jobs : Timely(j)

\* What the types say of one job and of the runner.
LEMMA TimeTypes ==
    ASSUME IInv, NEW j \in Jobs
    PROVE  /\ now \in Nat /\ dur[j] \in Nat \ {0} /\ hits[j] \in 0..2
           /\ Slots(twl) \subseteq Nat /\ d \in Int /\ deadline \in Int
           /\ LargerGap \in Nat \ {0} /\ timeNow \in Nat
           /\ kind[j] \in {"once", "every", "interval"}
           /\ Placed(j)
           /\ DOMAIN rtp \subseteq recurred
<1>1. now \in 0..MaxTime /\ dur[j] \in Durations /\ Durations \subseteq Nat \ {0}
  BY TimeAssumption DEF IInv, TypeOK
<1>2. now \in Nat
  BY <1>1
<1>3. Slots(twl) \subseteq Nat
  BY TimePointsRange DEF IInv, TypeOK, WheelType
<1>4. kind[j] \in AllKinds
  BY KindsAssumption DEF IInv, TypeOK
<1> QED
  BY <1>1, <1>2, <1>3, <1>4, TimeAssumption DEF IInv, TypeOK, JobInv, AllKinds

\* find_next() does not stop before a slot that is due.
LEMMA FindNextReaches ==
    ASSUME IInv, FindNext, timeNow = Sec(now), NEW t \in Slots(twl), t <= now
    PROVE  rpc' = "pick" /\ t <= itp'
<1> DEFINE due == {s \in Slots(twl) : Sec(s) <= timeNow}
<1>1. Slots(twl) \subseteq TimePoints /\ t \in Nat /\ now \in Nat
  BY TimePointsRange, TimeAssumption DEF IInv, TypeOK, WheelType
<1>2. t \in due
  BY <1>1, SecondsMonotone
<1>3. rpc' = "pick" /\ itp' = Max(due)
  BY <1>2 DEF FindNext
<1> QED
  BY <1>1, <1>2, <1>3, GreatestBelow, TimePointsRange DEF TimePoints

\* A slot that is not due is in the future.
LEMMA FindNextNone ==
    ASSUME IInv, FindNext, timeNow = Sec(now), rpc' # "pick", NEW t \in Slots(twl)
    PROVE  now < t
<1>1. t \in Nat /\ now \in Nat
  BY TimePointsRange, TimeAssumption DEF IInv, TypeOK, WheelType
<1>2. ~(t <= now)
  BY FindNextReaches
<1> QED
  BY <1>1, <1>2

LEMMA KilledForGood ==
    ASSUME [Next]_vars, ~killed'
    PROVE  ~killed
<1> USE DEF jobVars, runVars, poolVars
<1>1. CASE Runner
  BY <1>1 DEF Runner, StartWait, WaitOver, RunnerEnds, ReadClock, FindNext, Pick,
              LaunchJob, HoldPasts, NextPoint, PutBack, RoundOver
<1>2. ASSUME NEW j \in Jobs, Prepare(j) \/ Build(j) \/ RunJob(j) \/ PostJob(j)
      PROVE  ~killed
  BY <1>2 DEF Prepare, Build, RunJob, PostJob
<1> QED
  BY <1>1, <1>2 DEF Next, Tick, TimeUp, Kill, vars

LEMMA PromptStep ==
    ASSUME Dependable, IInv, ~killed', RoundIsPrompt, [Next]_vars
    PROVE  RoundIsPrompt'
<1> USE DEF jobVars, runVars, poolVars
<1>1. Prompt /\ \A t \in Absolute : LastBuild <= t
  BY DEF Dependable
<1>2. \A j \in Jobs : /\ now \in Nat /\ dur[j] \in Nat \ {0}
                      /\ post[j] # NoTime => j \in Jobs
  BY TimeTypes
<1>3. ~killed /\ TypeOK
  BY KilledForGood DEF IInv
<1>4. CASE Tick
  BY <1>1, <1>4 DEF Tick, Quiet, RoundIsPrompt, IInv, TypeOK
<1>5. CASE StartWait \/ RunnerEnds \/ Kill \/ UNCHANGED vars
  BY <1>3, <1>5 DEF StartWait, RunnerEnds, Kill, vars, RoundIsPrompt, Sec
<1>6. CASE WaitOver \/ ReadClock
  BY <1>6 DEF WaitOver, ReadClock, RoundIsPrompt, Sec
<1>7. CASE FindNext \/ Pick
  BY <1>7 DEF FindNext, Pick, RoundIsPrompt, Sec
<1>8. ASSUME NEW j \in Jobs, LaunchJob(j) PROVE RoundIsPrompt'
  BY <1>8 DEF LaunchJob, RoundIsPrompt, Sec
<1>9. CASE HoldPasts \/ RoundOver
  BY <1>9 DEF HoldPasts, RoundOver, RoundIsPrompt, Sec
<1>10. ASSUME NEW j \in Jobs, NextPoint(j) PROVE RoundIsPrompt'
  BY <1>10 DEF NextPoint, RoundIsPrompt, Sec
<1>11. CASE PutBack
  <2>1. DOMAIN rtp' = {}
    BY <1>11 DEF PutBack
  <2> QED
    BY <1>11, <2>1 DEF PutBack, RoundIsPrompt, Sec
<1>12. ASSUME NEW j \in Jobs, Prepare(j) PROVE RoundIsPrompt'
  <2>1. PICK tp \in FirstPoints(j) : btp' = [btp EXCEPT ![j] = tp]
    BY <1>12 DEF Prepare
  <2>2. now <= tp
    <3>1. \A t \in Absolute : t \in Nat
      BY TimeAssumption
    <3>2. LastBuild \in Nat /\ now <= LastBuild
      BY <1>12, TimeAssumption DEF Prepare
    <3> QED
      BY <1>1, <1>2, <2>1, <3>1, <3>2 DEF FirstPoints
  <2> QED
    BY <1>3, <1>12, <2>1, <2>2 DEF Prepare, RoundIsPrompt, Sec, TypeOK
<1>13. ASSUME NEW j \in Jobs, Build(j) PROVE RoundIsPrompt'
  BY <1>3, <1>13 DEF Build, RoundIsPrompt, Sec, TypeOK
<1>14. ASSUME NEW j \in Jobs, RunJob(j) \/ PostJob(j) PROVE RoundIsPrompt'
  BY <1>3, <1>14 DEF RunJob, PostJob, RoundIsPrompt, Sec, TypeOK
<1> QED
  BY <1>4, <1>5, <1>6, <1>7, <1>8, <1>9, <1>10, <1>11, <1>12, <1>13, <1>14
     DEF Next, Runner, TimeUp

\* A slot of its own is picked with no slot after it: the runner will sleep for
\* _larger_gap.
LEMMA PicksLast ==
    ASSUME IInv, Pick, NEW t \in Slots(twl), t <= itp, \A s \in Slots(twl) : s <= t
    PROVE  d' = d
<1>1. Slots(twl) \subseteq Nat /\ rpc = "pick"
  BY TimePointsRange DEF IInv, TypeOK, WheelType, Pick
<1>2. itp \in Nat /\ (itn # NoTime => itn \in Slots(twl) /\ itp < itn)
  BY <1>1 DEF IInv, RunnerInv, IteratorsValid
<1>3. itn = NoTime
  BY <1>1, <1>2
<1> QED
  BY <1>3 DEF Pick

LEMMA FirstLaunchStep ==
    ASSUME Dependable, IInv, IInv', ~killed', RoundIsPrompt, [Next]_vars,
           NEW j \in Jobs, FirstLaunch(j)
    PROVE  FirstLaunch(j)'
<1> USE DEF jobVars, runVars, poolVars
<1> SUFFICES ASSUME hits'[j] = 0 PROVE FirstLaunch(j)'
  BY DEF FirstLaunch
<1>1. /\ ~killed /\ TypeOK /\ RunnerInv
      /\ Prompt /\ \A i \in Jobs : i = j
  BY KilledForGood DEF IInv, Dependable
<1>2. /\ now \in Nat /\ Slots(twl) \subseteq Nat /\ d \in Int /\ deadline \in Int
      /\ LargerGap \in Nat \ {0} /\ hits[j] \in 0..2 /\ dur[j] \in Nat \ {0}
      /\ Placed(j)
  BY TimeTypes
<1>3. CASE Tick
  BY <1>1, <1>2, <1>3 DEF Tick, Quiet, FirstLaunch, RoundIsPrompt, NextLook, Slots
<1>4. CASE RunnerEnds \/ Kill
  BY <1>1, <1>4 DEF RunnerEnds, Kill
<1>5. CASE UNCHANGED vars
  BY <1>5 DEF vars, FirstLaunch, NextLook, Slots
<1>6. CASE StartWait
  BY <1>2, <1>6 DEF StartWait, FirstLaunch, NextLook, Slots
<1>7. CASE WaitOver \/ ReadClock
  BY <1>2, <1>7 DEF WaitOver, ReadClock, FirstLaunch, NextLook, Slots
<1>8. CASE FindNext
  <2>1. /\ rpc = "find" /\ rpc' \in {"loop", "pick"}
        /\ UNCHANGED <<now, d, deadline, twl, toLaunch, hits>>
    BY <1>8 DEF FindNext
  <2>2. d = LargerGap /\ timeNow = Sec(now)
    BY <2>1 DEF RoundIsPrompt
  <2>3. ASSUME rpc' = "loop", NEW t \in Slots(twl) PROVE now + d <= t + LargerGap
    <3>1. now < t
      BY <1>8, <2>2, <2>3, FindNextNone
    <3> QED
      BY <1>2, <2>2, <3>1
  <2> QED
    BY <2>1, <2>2, <2>3 DEF FirstLaunch, NextLook, Slots
<1>9. CASE Pick
  <2>1. /\ rpc = "pick" /\ rpc' = "launch" /\ hits[j] = 0 /\ toLaunch' = twl[itp]
        /\ itp \in Slots(twl)
    BY <1>1, <1>9 DEF Pick, RunnerInv, IteratorsValid
  <2>2. \A t \in Slots(twl) : j \in twl[t] /\ t = itp
    BY <1>1, <1>2, <2>1 DEF FirstLaunch, RunnerInv, Placed, OneSlot
  <2>3. d' = d
    BY <1>2, <1>9, <2>1, <2>2, PicksLast
  <2> QED
    BY <2>1, <2>2, <2>3 DEF FirstLaunch
<1>10. ASSUME NEW i \in Jobs, LaunchJob(i) PROVE FirstLaunch(j)'
  <2>1. hits'[j] # 0
    BY <1>1, <1>2, <1>10 DEF LaunchJob, TypeOK
  <2> QED
    BY <2>1
<1>11. CASE HoldPasts
  BY <1>11 DEF HoldPasts, FirstLaunch
<1>12. CASE (\E i \in Jobs : NextPoint(i)) \/ PutBack \/ RoundOver
  BY <1>12 DEF NextPoint, PutBack, RoundOver, FirstLaunch
<1>13. ASSUME NEW i \in Jobs, Prepare(i) \/ RunJob(i) PROVE FirstLaunch(j)'
  BY <1>13 DEF Prepare, RunJob, FirstLaunch, NextLook, Slots
<1>14. ASSUME NEW i \in Jobs, Build(i) PROVE FirstLaunch(j)'
  <2>1. i = j /\ bpc[j] = "adding" /\ twl' = AddTask(twl, btp[j], j)
    BY <1>1, <1>14 DEF Build
  <2>2. Slots(twl) = {}
    BY <1>2, <1>14, <2>1 DEF FirstLaunch, Placed, Waiting, Build
  <2>3. Slots(twl') = {btp[j]} /\ j \in twl'[btp[j]]
    BY <2>1, <2>2 DEF AddTask, Slots
  <2>4. now <= btp[j] /\ btp[j] \in Nat
    BY <1>2, <2>1, TimePointsRange DEF RoundIsPrompt, Placed
  <2> QED
    BY <1>2, <1>14, <2>3, <2>4 DEF Build, FirstLaunch, NextLook
<1>15. ASSUME NEW i \in Jobs, PostJob(i) PROVE FirstLaunch(j)'
  <2>1. i = j /\ post[j] # NoTime /\ twl' \in {twl, AddTask(twl, post[j], j)}
    BY <1>1, <1>15 DEF PostJob
  <2>2. ~Waiting(j) /\ j \notin toLaunch /\ post[j] = now + dur[j]
    BY <1>2, <2>1 DEF Placed, InPool, RoundIsPrompt
  <2>3. Slots(twl) = {}
    BY <1>15, <2>2 DEF FirstLaunch, Waiting, PostJob
  <2>4. \A t \in Slots(twl') : t = now + dur[j] /\ j \in twl'[t]
    BY <2>1, <2>2, <2>3, AddTaskSlots
  <2> QED
    BY <1>2, <1>15, <2>2, <2>4 DEF PostJob, FirstLaunch, NextLook
<1> QED
  BY <1>3, <1>4, <1>5, <1>6, <1>7, <1>8, <1>9, <1>10, <1>11, <1>12, <1>13, <1>14,
     <1>15 DEF Next, Runner, TimeUp

LEMMA EveryLaunchStep ==
    ASSUME Dependable, IInv, IInv', ~killed', RoundIsPrompt, [Next]_vars,
           NEW j \in Jobs, FirstLaunch(j), EveryLaunch(j)
    PROVE  EveryLaunch(j)'
<1> USE DEF jobVars, runVars, poolVars
<1>1. /\ ~killed /\ TypeOK /\ RunnerInv
      /\ Prompt /\ \A i \in Jobs : i = j
  BY KilledForGood DEF IInv, Dependable
<1>2. /\ now \in Nat /\ Slots(twl) \subseteq Nat /\ d \in Int /\ deadline \in Int
      /\ LargerGap \in Nat \ {0} /\ hits[j] \in 0..2 /\ dur[j] \in Nat \ {0}
      /\ Placed(j) /\ DOMAIN rtp \subseteq recurred
  BY TimeTypes
<1> SUFFICES ASSUME kind[j] = "every", hits'[j] > 0 PROVE EveryLaunch(j)'
  BY ClockStep, <1>1 DEF EveryLaunch
<1>3. CASE Tick
  BY <1>1, <1>2, <1>3 DEF Tick, Quiet, EveryLaunch, RoundIsPrompt, NextLook, Slots
<1>4. CASE RunnerEnds \/ Kill
  BY <1>1, <1>4 DEF RunnerEnds, Kill
<1>5. CASE UNCHANGED vars
  BY <1>5 DEF vars, EveryLaunch, NextLook, Slots
<1>6. CASE StartWait \/ RoundOver
  BY <1>6 DEF StartWait, RoundOver, EveryLaunch, NextLook, Slots
<1>7. CASE WaitOver \/ ReadClock
  BY <1>2, <1>7 DEF WaitOver, ReadClock, EveryLaunch, NextLook, Slots
<1>8. CASE FindNext
  <2>1. /\ rpc = "find" /\ timeNow = Sec(now) /\ UNCHANGED <<twl, hits, kind>>
    BY <1>8 DEF FindNext, RoundIsPrompt
  <2>2. ASSUME NEW t \in Slots(twl), j \in twl[t] PROVE rpc' = "pick" /\ t <= itp'
    BY <1>8, <2>1, <2>2, FindNextReaches DEF EveryLaunch
  <2> QED
    BY <2>1, <2>2 DEF EveryLaunch, Slots
<1>9. CASE Pick
  <2>1. rpc = "pick" /\ UNCHANGED <<hits, kind>>
    BY <1>9 DEF Pick
  <2>2. ASSUME NEW t \in Slots(twl'), j \in twl'[t] PROVE FALSE
    <3>1. t \in Slots(twl) /\ j \in twl[t] /\ t >= itp /\ t # itp
      BY <1>9, <2>2 DEF Pick, Slots
    <3>2. t \in Nat /\ itp \in Nat /\ t <= itp
      BY <1>1, <1>2, <2>1, <3>1 DEF EveryLaunch, RunnerInv, IteratorsValid
    <3> QED
      BY <3>1, <3>2
  <2> QED
    BY <2>2 DEF EveryLaunch
<1>10. ASSUME NEW i \in Jobs, LaunchJob(i) PROVE EveryLaunch(j)'
  BY <1>1, <1>2, <1>10 DEF LaunchJob, EveryLaunch, Placed, Waiting, Slots
<1>11. CASE HoldPasts
  BY <1>11 DEF HoldPasts, EveryLaunch, Slots
<1>12. ASSUME NEW i \in Jobs, NextPoint(i) PROVE EveryLaunch(j)'
  BY <1>12 DEF NextPoint, EveryLaunch, NextLook, Slots
<1>13. CASE PutBack
  <2>1. /\ j \in DOMAIN rtp /\ twl' = AddTask(twl, rtp[j], j) /\ d' = rtp[j] - now
    BY <1>1, <1>2, <1>13 DEF PutBack, TypeOK
  <2>2. rtp[j] = now + dur[j] /\ ~Waiting(j)
    BY <1>2, <2>1 DEF RoundIsPrompt, Placed
  <2>3. \A t \in Slots(twl') : j \in twl'[t] => t = now + dur[j]
    BY <2>1, <2>2, AddTaskSlots DEF Waiting
  <2> QED
    BY <1>2, <1>13, <2>1, <2>2, <2>3 DEF PutBack, EveryLaunch, NextLook
<1>14. ASSUME NEW i \in Jobs, Prepare(i) \/ RunJob(i) PROVE EveryLaunch(j)'
  BY <1>14 DEF Prepare, RunJob, EveryLaunch, NextLook, Slots
<1>15. ASSUME NEW i \in Jobs, Build(i) PROVE EveryLaunch(j)'
  BY <1>1, <1>2, <1>15 DEF Build, Placed
<1>16. ASSUME NEW i \in Jobs, PostJob(i) PROVE EveryLaunch(j)'
  BY <1>1, <1>2, <1>16 DEF PostJob, Placed
<1> QED
  BY <1>3, <1>4, <1>5, <1>6, <1>7, <1>8, <1>9, <1>10, <1>11, <1>12, <1>13, <1>14,
     <1>15, <1>16 DEF Next, Runner, TimeUp

LEMMA IntervalLaunchStep ==
    ASSUME Dependable, IInv, IInv', ~killed', RoundIsPrompt, [Next]_vars,
           NEW j \in Jobs, FirstLaunch(j), IntervalLaunch(j)
    PROVE  IntervalLaunch(j)'
<1> USE DEF jobVars, runVars, poolVars
<1>1. /\ ~killed /\ TypeOK /\ RunnerInv
      /\ Prompt /\ \A i \in Jobs : i = j
  BY KilledForGood DEF IInv, Dependable
<1>2. /\ now \in Nat /\ Slots(twl) \subseteq Nat /\ d \in Int /\ deadline \in Int
      /\ LargerGap \in Nat \ {0} /\ hits[j] \in 0..2 /\ dur[j] \in Nat \ {0}
      /\ Placed(j) /\ DOMAIN rtp \subseteq recurred
  BY TimeTypes
<1> SUFFICES ASSUME kind[j] = "interval", dur' = dur, kind' = kind
             PROVE  IntervalLaunch(j)'
  BY ClockStep, <1>1 DEF IntervalLaunch
<1>3. CASE Tick
  <2>1. /\ rpc = "waiting" /\ now < deadline /\ now' = now + 1
        /\ bpc'[j] # "adding" /\ j \notin toLaunch' /\ ~InPool(j)'
    BY <1>1, <1>3 DEF Tick, Quiet, RoundIsPrompt, RunnerInv, InPool
  <2> QED
    BY <1>2, <1>3, <2>1 DEF Tick, IntervalLaunch, NextLook, Slots
<1>4. CASE RunnerEnds \/ Kill
  BY <1>1, <1>4 DEF RunnerEnds, Kill
<1>5. CASE UNCHANGED vars
  BY <1>5 DEF vars, IntervalLaunch, NextLook, Slots, InPool
<1>6. CASE StartWait
  BY <1>1, <1>6 DEF StartWait, IntervalLaunch, NextLook, Slots, InPool, RunnerInv
<1>7. CASE WaitOver \/ ReadClock
  <2>1. j \notin toLaunch /\ ~InPool(j)
    BY <1>1, <1>2, <1>7 DEF WaitOver, ReadClock, RunnerInv, IntervalLaunch
  <2> QED
    BY <1>2, <1>7, <2>1 DEF WaitOver, ReadClock, IntervalLaunch, NextLook, Slots, InPool
<1>8. CASE FindNext
  <2>1. /\ rpc = "find" /\ timeNow = Sec(now) /\ rpc' \in {"loop", "pick"}
        /\ UNCHANGED <<now, bpc, btp, twl, toLaunch, pool, post, hits>>
    BY <1>8 DEF FindNext, RoundIsPrompt
  <2>2. j \notin toLaunch' /\ ~InPool(j)'
    BY <1>1, <2>1 DEF RunnerInv, IntervalLaunch, InPool
  <2>3. ASSUME NEW t \in Slots(twl), j \in twl[t], hits[j] > 0, dur[j] <= LargerGap
        PROVE  rpc' = "pick" /\ t <= itp'
    BY <1>8, <2>1, <2>3, FindNextReaches DEF IntervalLaunch
  <2> QED
    BY <2>1, <2>2, <2>3 DEF IntervalLaunch, Slots
<1>9. CASE Pick
  <2>1. /\ rpc = "pick" /\ rpc' = "launch" /\ toLaunch' = twl[itp]
        /\ Slots(twl') \subseteq Slots(twl)
        /\ UNCHANGED <<now, bpc, btp, pool, post, hits>>
    BY <1>9 DEF Pick, Slots
  <2>2. itp \in Slots(twl) /\ itp \in Nat /\ d = LargerGap
    BY <1>1, <1>2, <2>1 DEF RunnerInv, IteratorsValid, RoundIsPrompt
  <2>3. ASSUME NEW t \in Slots(twl'), j \in twl'[t]
        PROVE  t \in Slots(twl) /\ j \in twl[t] /\ t > itp
    BY <1>2, <1>9, <2>2, <2>3 DEF Pick, Slots
  <2>4. ~InPool(j)'
    BY <2>1 DEF IntervalLaunch, InPool
  <2>5. ASSUME j \in toLaunch' PROVE d' = LargerGap
    <3>1. \A s \in Slots(twl) : s <= itp
      BY <2>1, <2>2, <2>5 DEF IntervalLaunch
    <3> QED
      BY <1>9, <2>2, <3>1, PicksLast
  <2>6. ASSUME NEW t \in Slots(twl'), j \in twl'[t], hits'[j] > 0, dur[j] <= LargerGap
        PROVE  FALSE
    <3>1. t \in Nat /\ t <= itp /\ t > itp
      BY <1>2, <2>1, <2>3, <2>6 DEF IntervalLaunch
    <3> QED
      BY <2>2, <3>1
  <2>7. \A s, t \in Slots(twl') : j \in twl'[t] => s <= t
    BY <2>1, <2>3 DEF IntervalLaunch
  <2> QED
    BY <2>1, <2>4, <2>5, <2>6, <2>7 DEF IntervalLaunch
<1>10. ASSUME NEW i \in Jobs, LaunchJob(i) PROVE IntervalLaunch(j)'
  <2>1. /\ j \in toLaunch /\ rpc = "launch" /\ rpc' = "launch"
        /\ UNCHANGED <<now, bpc, btp, twl, d>>
    BY <1>1, <1>10 DEF LaunchJob
  <2>2. ~Waiting(j) /\ d = LargerGap
    BY <1>2, <2>1 DEF Placed, IntervalLaunch
  <2> QED
    BY <2>1, <2>2 DEF IntervalLaunch, Waiting, Slots
<1>11. CASE HoldPasts \/ RoundOver
  BY <1>11 DEF HoldPasts, RoundOver, IntervalLaunch, NextLook, Slots, InPool
<1>12. ASSUME NEW i \in Jobs, NextPoint(i) PROVE IntervalLaunch(j)'
  BY <1>12 DEF NextPoint, IntervalLaunch, NextLook, Slots, InPool
<1>13. CASE PutBack
  <2>1. j \in recurred
    BY <1>1, <1>2, <1>13 DEF PutBack, TypeOK
  <2> QED
    BY <1>2, <2>1 DEF Placed
<1>14. ASSUME NEW i \in Jobs, Prepare(i) PROVE IntervalLaunch(j)'
  <2>1. i = j /\ btp'[j] \in FirstPoints(j)
    BY <1>1, <1>14 DEF Prepare, TypeOK
  <2>2. btp'[j] <= now + dur[j]
    BY <1>2, <2>1 DEF FirstPoints
  <2> QED
    BY <1>14, <2>2 DEF Prepare, IntervalLaunch, NextLook, Slots, InPool
<1>15. ASSUME NEW i \in Jobs, Build(i) PROVE IntervalLaunch(j)'
  <2>1. i = j /\ bpc[j] = "adding" /\ twl' = AddTask(twl, btp[j], j)
    BY <1>1, <1>15 DEF Build
  <2>2. /\ Slots(twl) = {} /\ hits[j] = 0 /\ j \notin toLaunch /\ ~InPool(j)
    BY <1>2, <2>1 DEF FirstLaunch, Placed, Waiting, InPool
  <2>3. Slots(twl') = {btp[j]}
    BY <2>1, <2>2, AddTaskSlots
  <2>4. btp[j] \in Nat /\ btp[j] <= now + dur[j]
    BY <1>2, <2>1, TimePointsRange DEF IntervalLaunch, Placed
  <2>5. bpc'[j] = "built"
    BY <1>1, <1>15, <2>1 DEF Build, TypeOK
  <2> QED
    BY <1>2, <1>15, <2>2, <2>3, <2>4, <2>5 DEF Build, IntervalLaunch, InPool
<1>16. ASSUME NEW i \in Jobs, RunJob(i) PROVE IntervalLaunch(j)'
  <2>1. i = j /\ InPool(j)
    BY <1>1, <1>16 DEF RunJob, InPool
  <2> QED
    BY <1>16, <2>1 DEF RunJob, IntervalLaunch, NextLook, Slots
<1>17. ASSUME NEW i \in Jobs, PostJob(i) PROVE IntervalLaunch(j)'
  <2>1. i = j /\ post[j] # NoTime /\ twl' \in {twl, AddTask(twl, post[j], j)}
    BY <1>1, <1>17 DEF PostJob
  <2>2. /\ ~Waiting(j) /\ j \notin toLaunch /\ InPool(j) /\ pool[j] = 0
        /\ bpc[j] = "built" /\ post[j] = now + dur[j]
    BY <1>2, <2>1 DEF Placed, InPool, RoundIsPrompt
  <2>3. j \notin toLaunch' /\ ~InPool(j)' /\ bpc'[j] = "built"
    BY <1>1, <1>17, <2>1, <2>2 DEF PostJob, InPool, TypeOK
  <2>4. \A s \in Slots(twl') : /\ s \in Nat /\ s <= now + dur[j]
                               /\ j \in twl'[s] => s = now + dur[j]
    BY <1>2, <2>1, <2>2, AddTaskSlots DEF IntervalLaunch, Waiting
  <2>5. NextLook = now + LargerGap /\ rpc \in {"launch", "recur", "loop", "waiting"}
    BY <2>2 DEF IntervalLaunch, NextLook
  <2> QED
    BY <1>2, <1>17, <2>3, <2>4, <2>5 DEF PostJob, IntervalLaunch, NextLook
<1> QED
  BY <1>3, <1>4, <1>5, <1>6, <1>7, <1>8, <1>9, <1>10, <1>11, <1>12, <1>13, <1>14,
     <1>15, <1>16, <1>17 DEF Next, Runner, TimeUp

LEMMA NotLateStep ==
    ASSUME Dependable, IInv, IInv', ~killed', RoundIsPrompt, [Next]_vars,
           NEW j \in Jobs, Timely(j)
    PROVE  NotLate(j)'
<1> USE DEF jobVars, runVars, poolVars
<1>1. /\ ~killed /\ TypeOK /\ RunnerInv /\ UNCHANGED jobVars
      /\ Prompt /\ \A i \in Jobs : i = j
  BY KilledForGood, ClockStep DEF IInv, Dependable
<1>2. /\ now \in Nat /\ Slots(twl) \subseteq Nat /\ deadline \in Int
      /\ LargerGap \in Nat \ {0} /\ hits[j] \in 0..2 /\ dur[j] \in Nat \ {0}
      /\ Placed(j) /\ kind[j] \in {"once", "every", "interval"}
  BY TimeTypes
<1>3. Slack(j)' \in Nat
  BY <1>2 DEF Slack
<1>4. CASE Tick
  <2>1. /\ rpc = "waiting" /\ now < deadline /\ now' = now + 1 /\ twl' = twl
        /\ Slack(j)' = Slack(j)
    BY <1>1, <1>4 DEF Tick, Quiet, RoundIsPrompt, Slack
  <2>2. ASSUME NEW t \in Slots(twl), j \in twl[t],
               kind[j] = "interval" => dur[j] <= LargerGap
        PROVE  deadline <= t + Slack(j)
    <3>1. CASE hits[j] = 0
      BY <1>2, <2>1, <3>1 DEF Timely, FirstLaunch, NextLook, Slack
    <3>2. CASE hits[j] > 0 /\ kind[j] = "every"
      BY <1>2, <2>1, <2>2, <3>2 DEF Timely, EveryLaunch, NextLook, Slack
    <3>3. CASE hits[j] > 0 /\ kind[j] = "interval"
      BY <1>2, <2>1, <2>2, <3>3 DEF Timely, IntervalLaunch, NextLook, Slack
    <3>4. CASE hits[j] > 0 /\ kind[j] = "once"
      BY <1>2, <2>2, <3>4 DEF Placed, Waiting
    <3> QED
      BY <1>2, <3>1, <3>2, <3>3, <3>4
  <2> QED
    BY <1>1, <1>2, <2>1, <2>2 DEF NotLate, Slots, Slack
<1>5. CASE Pick
  <2>1. Slack(j)' = Slack(j) /\ now' = now
    BY <1>1, <1>5 DEF Pick, Slack
  <2>2. \A t \in Slots(twl') : j \in twl'[t] => t \in Slots(twl) /\ j \in twl[t]
    BY <1>5 DEF Pick, Slots
  <2> QED
    BY <1>1, <2>1, <2>2 DEF Timely, NotLate
<1>6. ASSUME NEW i \in Jobs, LaunchJob(i) PROVE NotLate(j)'
  BY <1>1, <1>2, <1>6 DEF LaunchJob, NotLate, Placed, Waiting, Slots
<1>7. ASSUME now' = now, ~Waiting(j), NEW tp \in Nat, now <= tp,
             twl' \in {twl, AddTask(twl, tp, j)}
      PROVE  NotLate(j)'
  <2>1. \A t \in Slots(twl') : j \in twl'[t] => t = tp
    BY <1>7, AddTaskSlots DEF Waiting
  <2> QED
    BY <1>2, <1>3, <1>7, <2>1 DEF NotLate
<1>8. CASE PutBack
  <2>1. /\ j \in DOMAIN rtp /\ j \in recurred /\ twl' = AddTask(twl, rtp[j], j)
        /\ now' = now
    BY <1>1, <1>8 DEF PutBack, TypeOK
  <2> QED
    BY <1>2, <1>7, <2>1 DEF RoundIsPrompt, Placed
<1>9. ASSUME NEW i \in Jobs, Build(i) PROVE NotLate(j)'
  <2>1. i = j /\ bpc[j] = "adding" /\ twl' = AddTask(twl, btp[j], j) /\ now' = now
    BY <1>1, <1>9 DEF Build
  <2> QED
    BY <1>2, <1>7, <2>1, TimePointsRange DEF RoundIsPrompt, Placed
<1>10. ASSUME NEW i \in Jobs, PostJob(i) PROVE NotLate(j)'
  <2>1. /\ i = j /\ post[j] # NoTime /\ twl' \in {twl, AddTask(twl, post[j], j)}
        /\ now' = now
    BY <1>1, <1>10 DEF PostJob
  <2> QED
    BY <1>2, <1>7, <2>1 DEF RoundIsPrompt, Placed, InPool
<1>11. CASE UNCHANGED <<now, twl, hits>>
  BY <1>1, <1>11 DEF Timely, NotLate, Slots, Slack
<1>12. CASE \/ StartWait \/ WaitOver \/ RunnerEnds \/ ReadClock \/ FindNext
            \/ HoldPasts \/ RoundOver \/ Kill \/ UNCHANGED vars
  BY <1>11, <1>12 DEF StartWait, WaitOver, RunnerEnds, ReadClock, FindNext,
                      HoldPasts, RoundOver, Kill, vars
<1>13. ASSUME NEW i \in Jobs, NextPoint(i) \/ Prepare(i) \/ RunJob(i) PROVE NotLate(j)'
  BY <1>11, <1>13 DEF NextPoint, Prepare, RunJob
<1> QED
  BY <1>4, <1>5, <1>6, <1>8, <1>9, <1>10, <1>12, <1>13 DEF Next, Runner, TimeUp

\* A timer with one job, its threads faster than the clock and nothing built for
\* the past, launches the job in time: within _larger_gap when it was just built,
\* at its time point when the runner puts it back; an _interval job with a period
\* of at most _larger_gap, within _larger_gap.
THEOREM LaunchedInTime == ASSUME Dependable PROVE Spec => []OnTime
<1>1. Init => TimeInv
  <2> SUFFICES ASSUME Init PROVE TimeInv
    OBVIOUS
  <2>1. Slots(twl) = {} /\ DOMAIN rtp = {}
    BY DEF Init, Slots
  <2> QED
    BY <2>1, TimeAssumption
       DEF Init, TimeInv, RoundIsPrompt, Timely, FirstLaunch, EveryLaunch,
           IntervalLaunch, NotLate, InPool
<1>2. IInv /\ IInv' /\ TimeInv /\ [Next]_vars => TimeInv'
  <2> SUFFICES ASSUME IInv, IInv', TimeInv, [Next]_vars, ~killed'
               PROVE  RoundIsPrompt' /\ \A j \in Jobs : Timely(j)'
    BY DEF TimeInv
  <2>1. RoundIsPrompt /\ \A j \in Jobs : Timely(j)
    BY KilledForGood DEF TimeInv
  <2>2. RoundIsPrompt'
    BY <2>1, PromptStep
  <2>3. ASSUME NEW j \in Jobs PROVE Timely(j)'
    BY <2>1, FirstLaunchStep, EveryLaunchStep, IntervalLaunchStep, NotLateStep
       DEF Timely
  <2> QED
    BY <2>2, <2>3
<1>3. IInv /\ TimeInv => OnTime
  <2> SUFFICES ASSUME IInv, TimeInv, ~killed, NEW t \in Slots(twl), NEW j \in twl[t],
                      kind[j] = "interval" => dur[j] <= LargerGap
               PROVE  now <= t + Slack(j)
    BY DEF OnTime
  <2>1. j \in Jobs
    BY DEF IInv, TypeOK, WheelType
  <2> QED
    BY <2>1 DEF TimeInv, Timely, NotLate
<1> QED
  BY <1>1, <1>2, <1>3, Invariant, PTL DEF Spec
=============================================================================
