--------------------------- MODULE ConditionalWait ---------------------------
(***************************************************************************)
(* conditional_wait<T> of ticker-pool.hh and its two subclasses, as a data *)
(* type: the value _var that _m guards, and the set of threads blocked on  *)
(* _cv.  A critical section of the code is one application of an operator  *)
(* below; a notification is another, because set() and set_for_all()       *)
(* notify only after they have unlocked _m.                                *)
(*                                                                         *)
(* The modules that contain a conditional_wait keep such a record in a     *)
(* variable of theirs and say which thread applies which operator when.    *)
(***************************************************************************)
EXTENDS Integers

\* A fresh object.  Nothing is set and nobody waits.
NewCW == [var |-> 0, asleep |-> {}]

CWType(Threads) == [var : Nat, asleep : SUBSET Threads]

\* The predicate _wait().  A conditional_wait_for_bool keeps _var in {0, 1}
\* and is matched at 1, like a conditional_wait_for_int with max_value_ 1.
Matched(cw, max) == cw.var >= max

\* The setters: _var++ of the int form, _var = true of the bool form.
SetInt(cw)  == [cw EXCEPT !.var = @ + 1]
SetBool(cw) == [cw EXCEPT !.var = 1]

\* Thread t found the predicate false: it releases _m and blocks, atomically.
Block(cw, t) == [cw EXCEPT !.asleep = @ \cup {t}]

\* Thread t is unblocked (notified, timed out, or spuriously).  It still has
\* to take _m again and re-evaluate the predicate.
Unblock(cw, t) == [cw EXCEPT !.asleep = @ \ {t}]

\* The possible results of _cv.notify_one(): some sleeper wakes, if any.
NotifyOne(cw) == IF cw.asleep = {} THEN {cw}
                                   ELSE {Unblock(cw, t) : t \in cw.asleep}

\* The result of _cv.notify_all().
NotifyAll(cw) == [cw EXCEPT !.asleep = {}]

=============================================================================
