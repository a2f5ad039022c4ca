------------------------------ MODULE Callables ------------------------------
(***************************************************************************)
(* The parameter packs and binders of ticker-common.hh (260-748, 1230-     *)
(* 1266).  A pack, a tuple and an argument list are sequences; a template  *)
(* that recurses over a pack recurses here.  What is computed at compile   *)
(* time and what is computed in a call are not told apart.                 *)
(***************************************************************************)
EXTENDS Integers, Sequences

CONSTANT NoValue  \* no argument

-----------------------------------------------------------------------------
(* Packs.                                                                   *)

\* take<N, Head, Tail...>: take[m] is what m more to take make of the rest.
Take(n, pack) ==
    LET take[m \in 0..n] == IF m = 0 \/ n - m >= Len(pack) THEN <<>>
                            ELSE <<pack[n - m + 1]>> \o take[m - 1]
    IN  take[n]

\* drop_from_end<N, A...>.
DropFromEnd(n, pack) == Take(Len(pack) - n, pack)

\* head<I, N, Head, Tail...> counts I up to N, head_n_impl down from it.
HeadN(n, pack) ==
    LET head[i \in 0..Len(pack)] == IF i = Len(pack) \/ n <= i THEN <<>>
                                    ELSE <<pack[i + 1]>> \o head[i + 1]
    IN  head[0]
HeadNImpl(n, pack) ==
    LET done[m \in 0..n] == IF m = 0 THEN <<>> ELSE Append(done[m - 1], pack[m])
    IN  done[n]

\* first_of<N, Is...>() picks them one by one with iterate<N>.
Iterate(n) == [i \in 1..n |-> i - 1]
FirstOf(n, is) == [i \in 1..n |-> is[Iterate(n)[i] + 1]]

\* make_consecutive_integer_sequence and the packs picked with one.
Consecutive(start, count, step) == [i \in 1..count |-> start + step * (i - 1)]
SubPack(is, pack) == [i \in DOMAIN is |-> pack[is[i] + 1]]
FirstN(n, pack) == SubPack(Consecutive(0, n, 1), pack)
LastN(n, pack) == SubPack(Consecutive(Len(pack) - n, n, 1), pack)
Slice(b, e, pack) == SubPack(Consecutive(b, e - b, 1), pack)

\* build_indices<N>: 0 to N - 1, put in front from the last on.
BuildIndices(n) ==
    LET is[m \in 0..n] == IF m = n THEN <<>> ELSE <<m>> \o is[m + 1]
    IN  is[0]

-----------------------------------------------------------------------------
(* Binders.  What a callable is invoked with is the sequence of arguments.  *)

\* An argument bound: a value, or the place of an argument of the call.
Bound(v) == [val |-> v, place |-> 0]
Place(k) == [val |-> NoValue, place |-> k]
BoundAll(values) == [i \in DOMAIN values |-> Bound(values[i])]
Places == [k \in 1..9 |-> Place(k)]

\* std::bind(): arguments of the call that no placeholder names are not used.
BindCall(bound, args) == [i \in DOMAIN bound |->
    IF bound[i].place = 0 THEN bound[i].val ELSE args[bound[i].place]]

\* easy_bind() of a function of `arity` parameters leaves open those not given.
EasyBind(arity, values) ==
    LET is == BuildIndices(arity - Len(values))
    IN  BoundAll(values) \o [i \in DOMAIN is |-> Place(is[i] + 1)]

\* bind_tie<N>() and bind_tie_mem<N>(): the first N of the arguments given.
BindTie(n, bound) == FirstN(n, bound)

\* bind_this(): a member function, called as the function with the object before
\* its arguments.
BindThis(c, args) == <<c>> \o args

\* partial(f, values...)(rest...).
Partial(values, rest) == values \o rest

\* Mutant: what was given before is put after what is given now.
CurryCallReversed(arities, c, args) ==
    LET held == args \o c.held
    IN  IF Len(held) \in arities THEN [held |-> <<>>, invoked |-> Append(c.invoked, held)]
                                 ELSE [c EXCEPT !.held = held]

\* A call of a curry_t: f is invoked as soon as one of its arities is reached.
CurryCall(arities, c, args) ==
    LET held == c.held \o args
    IN  IF Len(held) \in arities THEN [held |-> <<>>, invoked |-> Append(c.invoked, held)]
                                 ELSE [c EXCEPT !.held = held]

\* Calls are made until it is invoked.
Curry(arities, calls) ==
    LET after[i \in 0..Len(calls)] ==
            IF i = 0 THEN [held |-> <<>>, invoked |-> <<>>]
            ELSE IF after[i - 1].invoked # <<>> THEN after[i - 1]
            ELSE CurryCall(arities, after[i - 1], calls[i])
    IN  after[Len(calls)]

-----------------------------------------------------------------------------
(* Values.                                                                  *)

IsIn(first, pack) == \E i \in DOMAIN pack : first = pack[i]

\* compare_vector_values(): up to the first difference.
CompareVectorValues(v1, v2) ==
    Len(v1) = Len(v2) /\ ~\E i \in 1..Len(v1) : v1[i] # v2[i]
=============================================================================
