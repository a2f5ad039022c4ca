------------------------- MODULE MCCondWaitClients --------------------------
(* Values for the constants of CondWaitClients.  hours::max() is scaled to   *)
(* 16 bits and 3600 ticks in an hour: like 2^63 - 1 hours in nanoseconds,    *)
(* the product is a multiple of 2^Width less one hour.                       *)
EXTENDS CondWaitClients

CONSTANTS w1, w2, s1, s2

Counter == [max |-> 3, counting |-> TRUE, broadcast |-> FALSE]

\* A counter that has to reach 3 of 4 sets, a bool, and a bool that is killed.
LibraryObjects == {Counter,
                   [Counter EXCEPT !.max = 1, !.counting = FALSE],
                   TimerKiller}
=============================================================================
