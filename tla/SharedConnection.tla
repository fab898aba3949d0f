--------------------------- MODULE SharedConnection ---------------------------
(***************************************************************************)
(* task_service_fixed.py: every request of the process uses the one        *)
(* aiosqlite connection that the lifespan opened.  aiosqlite runs the      *)
(* calls of all coroutines one at a time in a thread of its own, so each   *)
(* call is a step, and calls of other requests come between two awaits.    *)
(* sqlite3 opens a transaction before an INSERT if none is open: it is the *)
(* connection's, not the request's, and a commit takes all that is in it.  *)
(*                                                                         *)
(* SQLite is external.  When a statement or a COMMIT fails because another *)
(* process holds the lock, the open transaction stays; when the disk is    *)
(* full or fails, SQLite may roll all of it back by itself.                *)
(*                                                                         *)
(* A POST stands for the task it inserts (a fresh UUID); the users table,  *)
(* columns and JSON are left out.                                          *)
(***************************************************************************)
EXTENDS Integers

CONSTANTS Posts,          \* the POST /tasks requests
          Gets,           \* the GET /tasks requests
          MaxFaults       \* bound: failed statements and crashes

ASSUME SharedAssumption == Posts \cap Gets = {} /\ MaxFaults \in Nat

VARIABLES up,             \* is the process between startup and shutdown?
          durable,        \* the tasks on disk
          txn,            \* the tasks in the connection's open transaction
          undone,         \* history: the tasks SQLite rolled back by itself
          pc,             \* pc[r]: where request r is
          rows,           \* rows[g]: what GET g fetched
          faults

vars == <<up, durable, txn, undone, pc, rows, faults>>

Requests == Posts \cup Gets

Active == {"inserted", "committed", "fetched"}

\* 500: where it failed; `cut': the process died, no answer.
Over == {"created", "listed", "refused", "insert_failed", "commit_failed",
         "select_failed", "cut"}

TypeOK ==
  /\ up \in BOOLEAN
  /\ durable \subseteq Posts /\ txn \subseteq Posts /\ undone \subseteq Posts
  /\ pc \in [Requests -> {"new"} \cup Active \cup Over]
  /\ rows \in [Gets -> SUBSET Posts]
  /\ faults \in 0 .. MaxFaults
  /\ ~up => txn = {} /\ \A r \in Requests : pc[r] \notin Active

Init ==
  /\ up = FALSE
  /\ durable = {} /\ txn = {} /\ undone = {}
  /\ pc = [r \in Requests |-> "new"]
  /\ rows = [g \in Gets |-> {}]
  /\ faults = 0

Goto(r, place) == pc' = [pc EXCEPT ![r] = place]

\* What a statement on the connection sees: its own open transaction too.
Visible == durable \cup txn

------------------------------------------------------------------------------
\* The lifespan connects and creates the tables IF NOT EXISTS.
Startup ==
  /\ ~up
  /\ up' = TRUE
  /\ UNCHANGED <<durable, txn, undone, pc, rows, faults>>

\* Mutants: requests are still running; close() commits.
Shutdown_Undrained ==
  /\ up
  /\ up' = FALSE
  /\ txn' = {}
  /\ UNCHANGED <<durable, undone, pc, rows, faults>>
Shutdown_Commits ==
  /\ up
  /\ \A r \in Requests : pc[r] \notin Active
  /\ up' = FALSE
  /\ durable' = durable \cup txn
  /\ txn' = {}
  /\ UNCHANGED <<undone, pc, rows, faults>>

\* uvicorn has drained the requests; close() drops an open transaction.
Shutdown ==
  /\ up
  /\ \A r \in Requests : pc[r] \notin Active
  /\ up' = FALSE
  /\ txn' = {}
  /\ UNCHANGED <<durable, undone, pc, rows, faults>>

\* 401 for a wrong key, 422 for a body TaskCreate does not accept.
Refuse(r) ==
  /\ up
  /\ pc[r] = "new"
  /\ Goto(r, "refused")
  /\ UNCHANGED <<up, durable, txn, undone, rows, faults>>

Insert(p) ==
  /\ up
  /\ pc[p] = "new"
  /\ txn' = txn \cup {p}
  /\ Goto(p, "inserted")
  /\ UNCHANGED <<up, durable, undone, rows, faults>>

\* Also succeeds, doing nothing, if another request has ended the transaction.
Commit(p) ==
  /\ pc[p] = "inserted"
  /\ durable' = durable \cup txn
  /\ txn' = {}
  /\ Goto(p, "committed")
  /\ UNCHANGED <<up, undone, rows, faults>>

AnswerCreated(p) ==
  /\ pc[p] = "committed"
  /\ Goto(p, "created")
  /\ UNCHANGED <<up, durable, txn, undone, rows, faults>>

\* Mutant: ends what it takes for a read transaction of its own.
Select_ThenRollback(g) ==
  /\ up
  /\ pc[g] = "new"
  /\ rows' = [rows EXCEPT ![g] = Visible]
  /\ txn' = {}
  /\ Goto(g, "fetched")
  /\ UNCHANGED <<up, durable, undone, faults>>

\* ORDER BY without an index sorts all the rows in the first step, so what
\* fetchall returns is what execute saw.
Select(g) ==
  /\ up
  /\ pc[g] = "new"
  /\ rows' = [rows EXCEPT ![g] = Visible]
  /\ Goto(g, "fetched")
  /\ UNCHANGED <<up, durable, txn, undone, faults>>

AnswerList(g) ==
  /\ pc[g] = "fetched"
  /\ Goto(g, "listed")
  /\ UNCHANGED <<up, durable, txn, undone, rows, faults>>

------------------------------------------------------------------------------
\* Mutant: each handler rolls back the connection after an error.
AfterFailure_Rollback == txn' = {} /\ undone' = undone

\* No handler rolls back: the transaction stays, or SQLite ended it itself.
AfterFailure == \/ UNCHANGED <<txn, undone>>
                \/ txn' = {} /\ undone' = undone \cup txn

Fault == faults < MaxFaults /\ faults' = faults + 1

\* The exception becomes a 500.
Fails(r, from, to) ==
  /\ pc[r] = from
  /\ Goto(r, to)
  /\ Fault
  /\ AfterFailure
  /\ UNCHANGED <<up, durable, rows>>

\* Mutant: what fails is a second statement, after the INSERT.
InsertFails_AfterInsert(p) ==
  /\ up
  /\ pc[p] = "new"
  /\ Goto(p, "insert_failed")
  /\ Fault
  /\ txn' = txn \cup {p}
  /\ UNCHANGED <<up, durable, undone, rows>>

InsertFails(p) == up /\ Fails(p, "new", "insert_failed")

CommitFails(p) == Fails(p, "inserted", "commit_failed")

SelectFails(g) == up /\ Fails(g, "new", "select_failed")

Crash ==
  /\ up
  /\ up' = FALSE
  /\ txn' = {}
  /\ pc' = [r \in Requests |-> IF pc[r] \in Active THEN "cut" ELSE pc[r]]
  /\ Fault
  /\ UNCHANGED <<durable, undone, rows>>

Next == \/ Startup \/ Shutdown \/ Crash
        \/ \E r \in Requests : Refuse(r)
        \/ \E p \in Posts : \/ Insert(p) \/ Commit(p) \/ AnswerCreated(p)
                            \/ InsertFails(p) \/ CommitFails(p)
        \/ \E g \in Gets : Select(g) \/ AnswerList(g) \/ SelectFails(g)

Spec == Init /\ [][Next]_vars

------------------------------------------------------------------------------
\* A task that was answered 201 is on disk and survives every crash, although
\* other requests commit, fail and leave transactions open on the same
\* connection; only SQLite's own rollback, caused by a failure of another
\* request, can take it (task_service_fixed.py:157-163).
AcknowledgedIsDurable ==
  \A p \in Posts : pc[p] \in {"committed", "created"} => p \in durable \cup undone

\* What is left in the open transaction belongs to a request that has still
\* to commit, or whose commit failed: a create whose INSERT failed leaves
\* nothing that the commit of another request could bring to light.
OpenTransactionIsOwned ==
  \A p \in txn : pc[p] \in {"inserted", "commit_failed"}

\* The price of sharing the connection, and all of it.  Once the request of a
\* task is over, the task gets on disk only if its own commit failed and
\* another create commits; a listing shows it before that only out of the open
\* transaction, where the failed commit left it, with no commit at all
\* (task_service_fixed.py:162, 176).
GhostsAreExplained ==
  [][\A p \in Posts : pc[p] \in Over =>
        /\ p \in durable' \ durable =>
             /\ pc[p] = "commit_failed"
             /\ \E q \in Posts \ {p} : pc[q] = "inserted" /\ pc'[q] = "committed"
        /\ \A g \in Gets : p \in rows'[g] \ rows[g] =>
             p \in durable \/ (p \in txn /\ pc[p] = "commit_failed")]_vars

\* A listing reads what others have not committed yet, so a row it has shown may
\* be gone later; but only if its own commit failed, the process died before its
\* answer, or SQLite undid it: never under a create that is still going on, or
\* was answered 201 (task_service_fixed.py:162, 176).
ListedRowsStay ==
  \A g \in Gets : \A p \in rows[g] \ Visible :
     p \in undone \/ pc[p] \in {"commit_failed", "cut"}
==============================================================================
