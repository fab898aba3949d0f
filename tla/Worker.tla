-------------------------------- MODULE Worker --------------------------------
(***************************************************************************)
(* The worker processes (app/worker/processing.py): run_once reaps stale   *)
(* rows, claims due ones, and processes what it claimed concurrently.      *)
(*                                                                         *)
(* A `run' <<t, n>> is process_claimed_task for the n-th time task t is    *)
(* claimed.  It loads the task once, executes it with no lock held, and    *)
(* writes the outcome from the object it loaded: session.get finds that    *)
(* object in the identity map (expire_on_commit=False) and does not read   *)
(* the row again.                                                          *)
(***************************************************************************)
EXTENDS TaskTable

CONSTANTS WorkerBatchSize,    \* settings.worker_batch_size
          ForceFail,          \* tasks whose payload has force_fail: true
          MayStall,           \* tasks whose runs may outlast
                              \* running_task_timeout_seconds
          MaxClaims,          \* bound: claims per task
          MaxFaults           \* bound: crashes and database errors

ASSUME WorkerAssumption ==
  /\ WorkerBatchSize \in Nat \ {0}
  /\ ForceFail \subseteq Tasks
  /\ MayStall \subseteq Tasks
  /\ MaxClaims \in Nat
  /\ MaxFaults \in Nat

VARIABLES pc,             \* pc[w]: where worker w is in run_once
          gathered,       \* gathered[w]: the runs asyncio.gather of w awaits
          run,            \* run[r]: the state of run r
          claims,         \* claims[t]: committed claims of t so far
          faults          \* faults so far

workerVars == <<pc, gathered, run, claims, faults>>

Runs == Tasks \X (1 .. MaxClaims)

TaskOf(r) == r[1]

RunState == [pc          : {"over", "queued", "executing"},
             worker      : Workers \cup {NoOne},
             retry_count : 0 .. MaxRetries,     \* as loaded
             last_error  : LastError]           \* as loaded

Over == [pc |-> "over", worker |-> NoOne, retry_count |-> 0,
         last_error |-> "none"]

Queued(w) == [Over EXCEPT !.pc = "queued", !.worker = w]

WorkerTypeOK ==
  /\ pc \in [Workers -> {"idle", "reclaiming", "reclaimed", "claiming",
                         "gathering", "down"}]
  /\ gathered \in [Workers -> SUBSET Runs]
  /\ run \in [Runs -> RunState]
  /\ claims \in [Tasks -> 0 .. MaxClaims]
  /\ faults \in 0 .. MaxFaults

WorkerInit ==
  /\ pc = [w \in Workers |-> "idle"]
  /\ gathered = [w \in Workers |-> {}]
  /\ run = [r \in Runs |-> Over]
  /\ claims = [t \in Tasks |-> 0]
  /\ faults = 0

Live(r) == run[r].pc # "over"

LiveRuns(t) == {r \in Runs : TaskOf(r) = t /\ Live(r)}

Goto(w, place) == pc' = [pc EXCEPT ![w] = place]

------------------------------------------------------------------------------
(***************************************************************************)
(* reclaim_stale_running.  The reaper does not know which runs are alive:  *)
(* it goes by updated_at alone.                                            *)
(***************************************************************************)
\* Mutants: no `updated_at < cutoff'; looks for `failed' rows.
StaleRows_AnyAge == {t \in Tasks : row[t].status = "running" /\ Unlocked(t)}
StaleRows_Failed == {t \in Tasks : row[t].status = "failed" /\ Unlocked(t)}

StaleRows == {t \in Tasks : row[t].status = "running" /\ row[t].stale /\ Unlocked(t)}

ReclaimSelect(w) ==
  /\ pc[w] = "idle"
  /\ \E rows \in Limited(StaleRows, WorkerBatchSize) : LockRows(w, rows)
  /\ Goto(w, "reclaiming")
  /\ UNCHANGED <<row, gathered, run, claims, faults>>

ReclaimCommit(w) ==
  /\ pc[w] = "reclaiming"
  /\ row' = [t \in Tasks |->
               IF lock[t] = w THEN Touch(apply_failure(row[t], "stalled"))
               ELSE row[t]]
  /\ ReleaseLocks(w)
  /\ Goto(w, "reclaimed")
  /\ UNCHANGED <<gathered, run, claims, faults>>

------------------------------------------------------------------------------
(***************************************************************************)
(* claim_due_tasks.  Which of the due rows come first (scheduled_at) is    *)
(* left open.                                                              *)
(***************************************************************************)
\* Mutants: no filter on scheduled_at; claims running rows as well.
DueRows_AnyTime == {t \in Tasks : /\ row[t].status = "pending" /\ Unlocked(t)
                                  /\ claims[t] < MaxClaims}
DueRows_Running == {t \in Tasks : /\ row[t].status \in {"pending", "running"}
                                  /\ row[t].due /\ Unlocked(t)
                                  /\ claims[t] < MaxClaims}

DueRows == {t \in Tasks : /\ row[t].status = "pending" /\ row[t].due
                          /\ Unlocked(t)
                          /\ claims[t] < MaxClaims}

ClaimSelect(w) ==
  /\ pc[w] = "reclaimed"
  /\ \E rows \in Limited(DueRows, WorkerBatchSize) : LockRows(w, rows)
  /\ Goto(w, "claiming")
  /\ UNCHANGED <<row, gathered, run, claims, faults>>

\* Flip the locked rows to running and commit.
FlipToRunning(w) ==
  /\ row' = [t \in Tasks |->
               IF lock[t] = w THEN Touch([row[t] EXCEPT !.status = "running"])
               ELSE row[t]]
  /\ claims' = [t \in Tasks |-> IF lock[t] = w THEN claims[t] + 1 ELSE claims[t]]
  /\ ReleaseLocks(w)

Claimed(w) == {r \in Runs : lock[TaskOf(r)] = w /\ r[2] = claims[TaskOf(r)] + 1}

\* The claim commits and run_once starts one run per claimed task; with no
\* task the tick is over.
ClaimCommit(w) ==
  /\ pc[w] = "claiming"
  /\ FlipToRunning(w)
  /\ run' = [r \in Runs |-> IF r \in Claimed(w) THEN Queued(w) ELSE run[r]]
  /\ gathered' = [gathered EXCEPT ![w] = Claimed(w)]
  /\ Goto(w, IF Claimed(w) = {} THEN "idle" ELSE "gathering")
  /\ UNCHANGED faults

\* The COMMIT is applied but its acknowledgement is lost: the tick fails and
\* nothing runs the rows it made running.
ClaimLost(w) ==
  /\ pc[w] = "claiming"
  /\ LockedBy(w) # {}
  /\ faults < MaxFaults
  /\ faults' = faults + 1
  /\ FlipToRunning(w)
  /\ Goto(w, "idle")
  /\ UNCHANGED <<gathered, run>>

\* A database error before the commit: rollback; run_loop logs it and goes on
\* to its next tick.
TickFails(w) ==
  /\ pc[w] \in {"reclaiming", "reclaimed", "claiming"}
  /\ faults < MaxFaults
  /\ faults' = faults + 1
  /\ ReleaseLocks(w)
  /\ Goto(w, "idle")
  /\ UNCHANGED <<row, gathered, run, claims>>

------------------------------------------------------------------------------
(***************************************************************************)
(* process_claimed_task                                                    *)
(***************************************************************************)
Ends(r) == run' = [run EXCEPT ![r] = Over]

\* The first transaction: skip the task unless it is still running.
ProcessStart(r) ==
  LET task == row[TaskOf(r)] IN
  /\ run[r].pc = "queued"
  /\ \/ /\ task.status # "running"
        /\ Ends(r)
     \/ /\ task.status = "running"
        /\ run' = [run EXCEPT ![r] =
                     [pc |-> "executing", worker |-> run[r].worker,
                      retry_count |-> task.retry_count,
                      last_error |-> task.last_error]]
  /\ UNCHANGED <<row, lock, pc, gathered, claims, faults>>

\* The object in the identity map of the run's session.  It was due when it
\* was claimed; a retry always writes scheduled_at.
Loaded(r) == [status      |-> "running",
              retry_count |-> run[r].retry_count,
              last_error  |-> run[r].last_error,
              due         |-> TRUE,
              stale       |-> FALSE]

\* Mutant: session.merge, which would insert the row again.
Writes_Merge(r, obj) ==
  /\ run[r].pc = "executing"
  /\ Unlocked(TaskOf(r))
  /\ row' = [row EXCEPT ![TaskOf(r)] = Flush(TaskOf(r), Loaded(r), obj)]

\* The last transaction writes `obj' over the row.
Writes(r, obj) ==
  /\ run[r].pc = "executing"
  /\ Exists(TaskOf(r))
  /\ Unlocked(TaskOf(r))
  /\ row' = [row EXCEPT ![TaskOf(r)] = Flush(TaskOf(r), Loaded(r), obj)]

\* Mutants: last_error is not cleared; retry_count is reset.
WritesSuccess_KeepsError(r) ==
  /\ TaskOf(r) \notin ForceFail
  /\ Writes(r, [Loaded(r) EXCEPT !.status = "succeeded"])
WritesSuccess_ResetsCount(r) ==
  /\ TaskOf(r) \notin ForceFail
  /\ Writes(r, [Loaded(r) EXCEPT !.status = "succeeded", !.last_error = "none",
                                 !.retry_count = 0])

WritesSuccess(r) ==
  /\ TaskOf(r) \notin ForceFail
  /\ Writes(r, [Loaded(r) EXCEPT !.status = "succeeded", !.last_error = "none"])

\* The execution raised, or exceeded execution_timeout_seconds.
WritesFailure(r) == Writes(r, apply_failure(Loaded(r), "failed"))

RecordSuccess(r) == /\ WritesSuccess(r)
                    /\ Ends(r)
                    /\ UNCHANGED <<lock, pc, gathered, claims, faults>>

RecordFailure(r) == /\ WritesFailure(r)
                    /\ Ends(r)
                    /\ UNCHANGED <<lock, pc, gathered, claims, faults>>

\* An exception leaves _run: gather raises it at once and stops awaiting the
\* sibling runs, which go on; run_loop goes on to its next tick.
Raises(r) ==
  LET w == run[r].worker IN
  /\ Ends(r)
  /\ IF r \in gathered[w]
       THEN /\ Goto(w, "idle")
            /\ gathered' = [gathered EXCEPT ![w] = {}]
       ELSE UNCHANGED <<pc, gathered>>
  /\ UNCHANGED <<lock, claims>>

\* The row is gone: the UPDATE matches 0 rows.
StaleDataError(r) ==
  /\ run[r].pc = "executing"
  /\ ~Exists(TaskOf(r))
  /\ Raises(r)
  /\ UNCHANGED <<row, faults>>

\* The connection breaks before the run's COMMIT is applied, or after.
DatabaseError(r) ==
  /\ Live(r)
  /\ faults < MaxFaults
  /\ faults' = faults + 1
  /\ UNCHANGED row \/ WritesSuccess(r) \/ WritesFailure(r)
  /\ Raises(r)

\* gather returns once all its runs have.
TickEnds(w) ==
  /\ pc[w] = "gathering"
  /\ \A r \in gathered[w] : ~Live(r)
  /\ Goto(w, "idle")
  /\ gathered' = [gathered EXCEPT ![w] = {}]
  /\ UNCHANGED <<row, lock, run, claims, faults>>

------------------------------------------------------------------------------
\* The process dies; PostgreSQL rolls its open transactions back.
Crash(w) ==
  /\ pc[w] # "down"
  /\ faults < MaxFaults
  /\ faults' = faults + 1
  /\ Goto(w, "down")
  /\ gathered' = [gathered EXCEPT ![w] = {}]
  /\ run' = [r \in Runs |-> IF run[r].worker = w THEN Over ELSE run[r]]
  /\ ReleaseLocks(w)
  /\ UNCHANGED <<row, claims>>

Restart(w) ==
  /\ pc[w] = "down"
  /\ Goto(w, "idle")
  /\ UNCHANGED <<row, lock, gathered, run, claims, faults>>

\* running_task_timeout_seconds pass with no write to the row.  A run
\* of a task not in MayStall ends sooner (execution_timeout_seconds bounds it).
GoStale(t) ==
  /\ row[t].status = "running"
  /\ ~row[t].stale
  /\ t \in MayStall \/ LiveRuns(t) = {}
  /\ row' = [row EXCEPT ![t].stale = TRUE]
  /\ UNCHANGED <<lock, workerVars>>

------------------------------------------------------------------------------
Tick(w) == \/ ReclaimSelect(w) \/ ReclaimCommit(w)
           \/ ClaimSelect(w) \/ ClaimCommit(w)
           \/ TickEnds(w)

Process(r) == \/ ProcessStart(r)
              \/ RecordSuccess(r) \/ RecordFailure(r)
              \/ StaleDataError(r)

Fault == \/ \E w \in Workers : ClaimLost(w) \/ TickFails(w) \/ Crash(w)
         \/ \E r \in Runs : DatabaseError(r)

WorkerNext == \/ \E w \in Workers : Tick(w) \/ Restart(w)
              \/ \E r \in Runs : Process(r)
              \/ \E t \in Tasks : GoStale(t)
              \/ Fault
==============================================================================
