------------------------------ MODULE TaskModel ------------------------------
(***************************************************************************)
(* A row of the `tasks' table (app/models.py), the status machine the API  *)
(* consults (app/state_machine.py), and what one failed run makes of a row *)
(* (app/worker/processing.py, _apply_failure).  Constant-level only.       *)
(*                                                                         *)
(* Title, payload, key and created_at are left out: nothing here depends   *)
(* on them.  The two timestamps the queries compare with the clock are     *)
(* kept as the outcome of the comparison:                                  *)
(*   due    scheduled_at <= now           (claim_due_tasks)                *)
(*   stale  updated_at < now - timeout    (reclaim_stale_running)          *)
(***************************************************************************)
EXTENDS Integers

CONSTANT MaxRetries       \* settings.max_retries

ASSUME RetriesAssumption == MaxRetries \in Nat

TaskStatus == {"pending", "running", "succeeded", "failed", "dead"}

\* A task id names no row before its POST and none after its DELETE.
RowStatus == TaskStatus \cup {"absent", "deleted"}

\* last_error: NULL, the text of a failed run, or the reaper's text.
LastError == {"none", "failed", "stalled"}

Row == [status      : RowStatus,
        retry_count : 0 .. MaxRetries,
        last_error  : LastError,
        due         : BOOLEAN,
        stale       : BOOLEAN]

Blank(s) == [status |-> s, retry_count |-> 0, last_error |-> "none",
             due |-> FALSE, stale |-> FALSE]

NewTask(isDue) == [Blank("pending") EXCEPT !.due = isDue]

------------------------------------------------------------------------------
ALLOWED_TRANSITIONS ==
  [pending   |-> {"running", "dead"},
   running   |-> {"succeeded", "failed"},
   failed    |-> {"pending", "dead"},
   succeeded |-> {},
   dead      |-> {}]

can_transition(current, target) == target \in ALLOWED_TRANSITIONS[current]

------------------------------------------------------------------------------
\* Mutants: compares the count before the increment; >= for >.
Exhausted_TooLate(task) == task.retry_count > MaxRetries
Exhausted_TooSoon(task) == task.retry_count + 1 >= MaxRetries

Exhausted(task) == task.retry_count + 1 > MaxRetries

\* Mutants: the retry is not counted; the task is parked in `failed', as the
\* diagram of state_machine.py has it.
apply_failure_Uncounted(task, error) ==
  IF Exhausted(task)
    THEN [task EXCEPT !.status = "dead", !.last_error = error]
    ELSE [task EXCEPT !.status = "pending", !.last_error = error, !.due = FALSE]
apply_failure_Parked(task, error) ==
  IF Exhausted(task)
    THEN [task EXCEPT !.status = "dead", !.last_error = error]
    ELSE [task EXCEPT !.status = "failed", !.last_error = error,
                      !.retry_count = @ + 1]

\* Dead-letter the task, or requeue it for now + backoff (hence not due).
apply_failure(task, error) ==
  IF Exhausted(task)
    THEN [task EXCEPT !.status = "dead", !.last_error = error]
    ELSE [task EXCEPT !.status = "pending", !.last_error = error,
                      !.retry_count = @ + 1, !.due = FALSE]
==============================================================================
