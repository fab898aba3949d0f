------------------------------ MODULE MCRunLoop ------------------------------
(***************************************************************************)
(* TLC instances of RunLoop.  WORKER_CONCURRENCY = 0 makes Permits 1, so   *)
(* that a batch always has runs waiting.                                   *)
(***************************************************************************)
EXTENDS RunLoop

CONSTANTS j1, j2, j3, j4
==============================================================================
