-------------------------- MODULE MCIdempotentCreate --------------------------
(***************************************************************************)
(* TLC instances of IdempotentCreate: two clients that share a key, each   *)
(* sending twice, and one that sends none.                                 *)
(***************************************************************************)
EXTENDS IdempotentCreate, TLC

CONSTANTS c1, c2, c3, k1

SharedKey == [c \in Clients |-> IF c = c3 THEN NoKey ELSE k1]
==============================================================================
