-------------------------- MODULE MCSharedConnection --------------------------
(***************************************************************************)
(* TLC instances of SharedConnection.                                      *)
(***************************************************************************)
EXTENDS SharedConnection, TLC

CONSTANTS p1, p2, p3, g1, g2

RequestSymmetry == Permutations(Posts) \cup Permutations(Gets)
==============================================================================
