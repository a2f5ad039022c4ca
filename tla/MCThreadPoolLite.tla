-------------------------- MODULE MCThreadPoolLite --------------------------
(* Values for the constants of ThreadPoolLite.                               *)
EXTENDS ThreadPoolLite

CONSTANTS v1, v2, v3, c1, c2, t1, t2, t3
=============================================================================
