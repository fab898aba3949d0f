------------------------------ MODULE TaskTable ------------------------------
(***************************************************************************)
(* The PostgreSQL table the API and the workers share, at READ COMMITTED:  *)
(* one committed row per task and the row locks that open transactions     *)
(* hold.  PostgreSQL and the SQLAlchemy unit of work are external to the   *)
(* repository; they are modelled from the statements app/ issues.          *)
(*                                                                         *)
(* Only a worker's SELECT ... FOR UPDATE holds locks across steps.  Every  *)
(* other statement that writes a row waits until the row is unlocked and   *)
(* commits at once, so it is a single step.                                *)
(***************************************************************************)
EXTENDS TaskModel, FiniteSets

CONSTANTS Tasks,          \* task ids (UUIDs: never reused)
          Workers,        \* worker processes
          NoOne           \* owner of an unlocked row

ASSUME TableAssumption == NoOne \notin Workers

VARIABLES row,            \* row[t]: the committed row of task t
          lock            \* lock[t]: the worker whose transaction locks it

TableTypeOK ==
  /\ row \in [Tasks -> Row]
  /\ lock \in [Tasks -> Workers \cup {NoOne}]

TableInit ==
  /\ row = [t \in Tasks |-> Blank("absent")]
  /\ lock = [t \in Tasks |-> NoOne]

Exists(t) == row[t].status \in TaskStatus

Unlocked(t) == lock[t] = NoOne

LockedBy(w) == {t \in Tasks : lock[t] = w}

\* The result sets LIMIT may return: all the rows, or any `limit' of them.
Limited(rows, limit) ==
  {S \in SUBSET rows :
     IF Cardinality(rows) <= limit THEN S = rows ELSE Cardinality(S) = limit}

\* SELECT ... FOR UPDATE in w's transaction.
LockRows(w, rows) ==
  lock' = [t \in Tasks |-> IF t \in rows THEN w ELSE lock[t]]

\* COMMIT or ROLLBACK of w's transaction.
ReleaseLocks(w) ==
  lock' = [t \in Tasks |-> IF lock[t] = w THEN NoOne ELSE lock[t]]

\* updated_at has onupdate=func.now(): every UPDATE makes the row fresh.
Touch(r) == [r EXCEPT !.stale = FALSE]

(***************************************************************************)
(* The UPDATE a session flushes for task t after `obj' was derived from    *)
(* the object it had loaded: only the columns that differ from the loaded  *)
(* values are in the SET list; the others keep what the table holds now.   *)
(***************************************************************************)
Flush(t, loaded, obj) ==
  [status      |-> IF obj.status = loaded.status
                     THEN row[t].status ELSE obj.status,
   retry_count |-> IF obj.retry_count = loaded.retry_count
                     THEN row[t].retry_count ELSE obj.retry_count,
   last_error  |-> IF obj.last_error = loaded.last_error
                     THEN row[t].last_error ELSE obj.last_error,
   due         |-> IF obj.due = loaded.due THEN row[t].due ELSE obj.due,
   stale       |-> FALSE]

\* Time passes until scheduled_at; only a pending row's due time is read.
BecomeDue(t) ==
  /\ row[t].status = "pending"
  /\ ~row[t].due
  /\ row' = [row EXCEPT ![t].due = TRUE]
  /\ UNCHANGED lock
==============================================================================
