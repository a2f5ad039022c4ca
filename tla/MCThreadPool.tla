---------------------------- MODULE MCThreadPool ----------------------------
(* Values for the constants of ThreadPool.                                   *)
EXTENDS ThreadPool

CONSTANTS v1, v2, c1, c2, t1, t2, t3
=============================================================================
