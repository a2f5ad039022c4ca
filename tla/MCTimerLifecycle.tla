-------------------------- MODULE MCTimerLifecycle --------------------------
(* Values for the constants of TimerLifecycle.                               *)
EXTENDS TimerLifecycle

CONSTANTS v1, v2
=============================================================================
