----------------------------- MODULE MCTaskPilot -----------------------------
(***************************************************************************)
(* TLC instances of TaskPilot.                                             *)
(***************************************************************************)
EXTENDS TaskPilot, TLC

CONSTANTS t1, t2, w1, w2

\* Clients PATCH any task out of any status.
PatchAny == [t \in Tasks |-> TaskStatus]

\* Clients leave t1 alone once it is running, and do anything to t2.
PatchAnyButT1 == [t \in Tasks |-> IF t = t1 THEN {"pending"} ELSE TaskStatus]

Failing == {t2}
Stalling == {t2}

WorkerSymmetry == Permutations(Workers)
==============================================================================
