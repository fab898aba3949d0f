------------------------------ MODULE RowRequests ------------------------------
(***************************************************************************)
(* What the API promises about concurrent requests on one task: each takes *)
(* effect at most once, in one instant, and what it is told fits the row   *)
(* at that instant.  A request that failed may have taken effect, because  *)
(* its answer can be lost after the commit.                                *)
(***************************************************************************)
EXTENDS TaskModel

CONSTANTS Requests, Kinds, NoKind

VARIABLES status,      \* the task's status, or "deleted"
          kind,        \* kind[r]: what r asks for, NoKind before it is sent
          outcome      \* outcome[r]: what became of it

vars == <<status, kind, outcome>>

Outcomes == {"open", "done", "missing", "conflict", "failed"}

Init ==
  /\ status \in TaskStatus \cup {"deleted"}
  /\ kind = [r \in Requests |-> NoKind]
  /\ outcome = [r \in Requests |-> "open"]

Ask(r) ==
  /\ kind[r] = NoKind
  /\ \E k \in Kinds : kind' = [kind EXCEPT ![r] = k]
  /\ UNCHANGED <<status, outcome>>

Becomes(r, o) == outcome' = [outcome EXCEPT ![r] = o]

Open(r, op) == kind[r] # NoKind /\ kind[r].op = op /\ outcome[r] = "open"

Patch(r) ==
  /\ Open(r, "patch")
  /\ status # "deleted"
  /\ status = kind[r].to \/ can_transition(status, kind[r].to)
  /\ status' = kind[r].to
  /\ Becomes(r, "done") \/ Becomes(r, "failed")
  /\ UNCHANGED kind

Refuse(r) ==
  /\ Open(r, "patch")
  /\ status \notin {"deleted", kind[r].to}
  /\ ~can_transition(status, kind[r].to)
  /\ Becomes(r, "conflict")
  /\ UNCHANGED <<status, kind>>

\* A DELETE that found the task and was overtaken by another is done too.
Delete(r) ==
  /\ Open(r, "delete")
  /\ status' = "deleted"
  /\ Becomes(r, "done") \/ Becomes(r, "failed")
  /\ UNCHANGED kind

Miss(r) ==
  /\ Open(r, "patch") \/ Open(r, "delete")
  /\ status = "deleted"
  /\ Becomes(r, "missing")
  /\ UNCHANGED <<status, kind>>

Fail(r) ==
  /\ outcome[r] \in {"open", "done"}
  /\ Becomes(r, "failed")
  /\ UNCHANGED <<status, kind>>

\* A worker claims a pending task, or writes the outcome of a run.
Work ==
  /\ status # "deleted"
  /\ \/ status = "pending" /\ status' = "running"
     \/ status' \in {"pending", "succeeded", "dead"}
  /\ UNCHANGED <<kind, outcome>>

Next == \/ Work
        \/ \E r \in Requests : \/ Ask(r) \/ Patch(r) \/ Refuse(r)
                               \/ Delete(r) \/ Miss(r) \/ Fail(r)

Spec == Init /\ [][Next]_vars
==============================================================================
