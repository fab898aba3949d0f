------------------------------ MODULE TaskPilot ------------------------------
(***************************************************************************)
(* The core of the system: the API's requests and the workers' ticks over  *)
(* one tasks table.                                                        *)
(***************************************************************************)
EXTENDS Worker, TaskApi

vars == <<row, lock, pc, gathered, run, claims, faults>>

Init == TableInit /\ WorkerInit

Next == \/ WorkerNext
        \/ Request /\ UNCHANGED workerVars
        \/ \E t \in Tasks : BecomeDue(t) /\ UNCHANGED workerVars

Spec == Init /\ [][Next]_vars

(***************************************************************************)
(* Workers keep ticking and their runs end (every await in a tick is       *)
(* bounded by a timeout or by PostgreSQL), a dead worker is restarted      *)
(* (docker compose: restart: unless-stopped), and clocks advance.  Nothing *)
(* is assumed of the clients, nor that faults happen.                      *)
(***************************************************************************)
Fairness ==
  /\ \A w \in Workers : WF_vars(Tick(w)) /\ WF_vars(Restart(w))
  /\ \A r \in Runs : WF_vars(Process(r))
  /\ \A t \in Tasks : WF_vars(GoStale(t))
                      /\ WF_vars(BecomeDue(t) /\ UNCHANGED workerVars)

FairSpec == Spec /\ Fairness

------------------------------------------------------------------------------
(***************************************************************************)
(* Invariants and step properties that hold however clients PATCH and      *)
(* however long a run stalls.                                              *)
(***************************************************************************)
TypeOK == TableTypeOK /\ WorkerTypeOK

\* What a worker selected FOR UPDATE stays as the query found it until the
\* worker commits: no request and no other worker gets in between, so that
\* the commit acts on the rows its WHERE clause meant (processing.py, the
\* SKIP LOCKED queries).
SelectedRowsUntouched ==
  \A w \in Workers : \A t \in LockedBy(w) :
     \/ /\ pc[w] = "reclaiming"
        /\ row[t].status = "running"
        /\ row[t].stale
     \/ /\ pc[w] = "claiming"
        /\ row[t].status = "pending"
        /\ row[t].due

\* A deleted task stays deleted: neither a run that is still executing it nor
\* a PATCH that raced the DELETE brings the row back.
DeletedStaysDeleted ==
  [][\A t \in Tasks : row[t].status = "deleted" => row'[t] = row[t]]_vars

\* A retry is never lost to a crash: a row that a worker or a client made
\* running and nobody runs is picked up again by the reaper.
StuckRunningIsReclaimed ==
  \A t \in Tasks : row[t].status = "running" ~> row[t].status # "running"

------------------------------------------------------------------------------
(***************************************************************************)
(* Properties of the tasks that are left undisturbed: every run of such a  *)
(* task ends within the running timeout, and no client PATCHes it while it *)
(* is running.  The other tasks may be treated in any way.                 *)
(***************************************************************************)
Undisturbed == {t \in Tasks : t \notin MayStall /\ "running" \notin PatchSources[t]}

AtMostOneRun(t) == \A r1, r2 \in LiveRuns(t) : r1 = r2

\* No task is executed twice at a time (processing.py:9-12, README): over all
\* workers there is at most one live run of a task.
NoOverlap == \A t \in Undisturbed : AtMostOneRun(t)

\* A run records its outcome over the very row it loaded: the task is still
\* running it, with the retry_count and last_error the run saw.
RunsAreFresh ==
  \A t \in Undisturbed : \A r \in LiveRuns(t) :
     run[r].pc = "executing" /\ Exists(t) =>
        /\ row[t].status = "running"
        /\ row[t].retry_count = run[r].retry_count
        /\ row[t].last_error = run[r].last_error

\* A task is claimed once and then at most once per retry it was granted, so
\* never more than MAX_RETRIES + 1 times.
ClaimBudget ==
  \A t \in Undisturbed : Exists(t) =>
     claims[t] <= row[t].retry_count + (IF row[t].status = "pending" THEN 0 ELSE 1)

\* A task that succeeded carries no error text.
SucceededHasNoError ==
  \A t \in Undisturbed :
     row[t].status = "succeeded" => row[t].last_error = "none"

StaysFinal(t) == row[t].status \in {"succeeded", "dead"} =>
                    row'[t] = row[t] \/ row'[t].status = "deleted"

\* `succeeded' and `dead' are terminal (state_machine.py:14): only a DELETE
\* ever touches such a row again.
TerminalIsFinal == [][\A t \in Undisturbed : StaysFinal(t)]_vars

\* retry_count never goes back while the task exists.
RetryCountNeverDrops ==
  [][\A t \in Undisturbed : Exists(t) /\ Exists(t)' =>
        row'[t].retry_count >= row[t].retry_count]_vars

\* Every task that is accepted is eventually settled: no crash, lost commit or
\* rollback strands it (README: "no job is ever silently lost").
EventuallySettled ==
  \A t \in Undisturbed : row[t].status \in {"pending", "running"}
                            ~> row[t].status \in {"succeeded", "dead", "deleted"}

------------------------------------------------------------------------------
(***************************************************************************)
(* What the repository says of every task and the core does not do.        *)
(***************************************************************************)
\* No task runs twice at a time, whatever clients PATCH (README.md:121).
NoTaskRunsTwice == \A t \in Tasks : AtMostOneRun(t)

\* `succeeded' and `dead' are final: a request racing the worker cannot
\* corrupt the state (README.md:250).
FinalIsFinal == [][\A t \in Tasks : StaysFinal(t)]_vars

------------------------------------------------------------------------------
(***************************************************************************)
(* On the undisturbed tasks the core implements the at-least-once queue of *)
(* JobQueue.  A job is active while one of its runs is live; `failed'      *)
(* never occurs there.                                                     *)
(***************************************************************************)
Phase(t) == CASE row[t].status = "pending" -> "waiting"
              [] row[t].status = "running" -> "taken"
              [] OTHER -> row[t].status

Jobs == [t \in Undisturbed |-> [phase   |-> Phase(t),
                                retries |-> row[t].retry_count,
                                active  |-> LiveRuns(t) # {}]]

Queue == INSTANCE JobQueue WITH Tasks <- Undisturbed, job <- Jobs

\* No job is given back or dead-lettered under a live execution of another,
\* none succeeds without one, and each is retried at most MAX_RETRIES times.
ImplementsJobQueue == Queue!Spec
==============================================================================
