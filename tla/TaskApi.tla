------------------------------- MODULE TaskApi -------------------------------
(***************************************************************************)
(* The writing half of the HTTP API (app/service.py behind                 *)
(* app/routers/tasks.py): POST /tasks, PATCH /tasks/{id}/status and        *)
(* DELETE /tasks/{id}.  Idempotency keys have a module of their own.       *)
(***************************************************************************)
EXTENDS TaskTable

CONSTANT PatchSources     \* PatchSources[t]: the statuses clients PATCH t out of

ASSUME ApiAssumption == PatchSources \in [Tasks -> SUBSET TaskStatus]

\* scheduled_at is now, in the past, or in the future.
CreateTask(t) ==
  /\ row[t].status = "absent"
  /\ \E isDue \in BOOLEAN : row' = [row EXCEPT ![t] = NewTask(isDue)]
  /\ UNCHANGED lock

\* SELECT ... FOR UPDATE, validate, UPDATE, COMMIT.  A target equal to the
\* status, or refused (409), changes nothing.
UpdateStatus(t, target) ==
  /\ Exists(t)
  /\ Unlocked(t)
  /\ row[t].status \in PatchSources[t]
  /\ row[t].status # target
  /\ can_transition(row[t].status, target)
  /\ row' = [row EXCEPT ![t] = Touch([@ EXCEPT !.status = target])]
  /\ UNCHANGED lock

DeleteTask(t) ==
  /\ Exists(t)
  /\ Unlocked(t)
  /\ row' = [row EXCEPT ![t] = Blank("deleted")]
  /\ UNCHANGED lock

Request == \E t \in Tasks : \/ CreateTask(t)
                            \/ \E target \in TaskStatus : UpdateStatus(t, target)
                            \/ DeleteTask(t)
==============================================================================
