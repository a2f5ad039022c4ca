-------------------------------- MODULE MCIom --------------------------------
(* Time points for the run of Iom.                                           *)
EXTENDS Iom

\* Counts that are none, one digit and two digits long, for each unit.
Counts == {0, 5, 70}
SomeTimes == {ms * Milli + us * Micro + ns : ms \in Counts, us \in Counts, ns \in {0, 42}}
=============================================================================
