--------------------------- MODULE TaskPilotProofs ---------------------------
(***************************************************************************)
(* Theorems about TaskPilot, for any tasks, workers and settings.          *)
(***************************************************************************)
EXTENDS TaskPilot, TLAPS

------------------------------------------------------------------------------
(***************************************************************************)
(* Type correctness.                                                       *)
(***************************************************************************)

\* A failure never takes retry_count beyond MAX_RETRIES.
LEMMA ApplyFailureType ==
  ASSUME NEW task \in Row, NEW error \in LastError
  PROVE  apply_failure(task, error) \in Row
<1>1. CASE Exhausted(task)
  <2>1. [task EXCEPT !.status = "dead", !.last_error = error] \in Row
    BY DEF Row, RowStatus, TaskStatus
  <2>2. QED
    BY <1>1, <2>1 DEF apply_failure
<1>2. CASE ~Exhausted(task)
  <2>1. task.retry_count + 1 \in 0 .. MaxRetries
    BY <1>2, RetriesAssumption DEF Row, Exhausted
  <2>2. [task EXCEPT !.status = "pending", !.last_error = error,
                     !.retry_count = @ + 1, !.due = FALSE] \in Row
    BY <2>1 DEF Row, RowStatus, TaskStatus
  <2>3. QED
    BY <1>2, <2>2 DEF apply_failure
<1>3. QED
  BY <1>1, <1>2

\* Blank and new rows are rows.
LEMMA BlankType ==
  /\ \A s \in RowStatus : Blank(s) \in Row
  /\ \A isDue \in BOOLEAN : NewTask(isDue) \in Row
<1>1. 0 \in 0 .. MaxRetries
  BY RetriesAssumption
<1>2. \A s \in RowStatus : Blank(s) \in Row
  BY <1>1 DEF Blank, Row, LastError
<1>3. Blank("pending") \in Row
  BY <1>2 DEF RowStatus, TaskStatus
<1>4. QED
  BY <1>2, <1>3 DEF NewTask, Row

\* A row an UPDATE leaves fresh is a row.
LEMMA TouchType == ASSUME NEW r \in Row PROVE Touch(r) \in Row
BY DEF Touch, Row

\* The task of a run is a task.
LEMMA TaskOfType == ASSUME NEW r \in Runs PROVE TaskOf(r) \in Tasks
BY DEF Runs, TaskOf

\* What a run flushes over a row is a row.
LEMMA FlushType ==
  ASSUME NEW t \in Tasks, row[t] \in Row,
         NEW loaded \in Row, NEW obj \in Row
  PROVE  Flush(t, loaded, obj) \in Row
BY DEF Flush, Row

\* The object a run loaded is a row.
LEMMA LoadedType ==
  ASSUME NEW r \in Runs, run[r] \in RunState
  PROVE  Loaded(r) \in Row
BY DEF Loaded, RunState, Row, RowStatus, TaskStatus

\* A finished run and a queued one are runs.
LEMMA RunStateType ==
  /\ Over \in RunState
  /\ \A w \in Workers : Queued(w) \in RunState
<1>1. 0 \in 0 .. MaxRetries
  BY RetriesAssumption
<1>2. QED
  BY <1>1 DEF Over, Queued, RunState, LastError

\* The writes of a run keep the table well-typed.
LEMMA WritesType ==
  ASSUME TypeOK, NEW r \in Runs, WritesSuccess(r) \/ WritesFailure(r)
  PROVE  row' \in [Tasks -> Row]
<1>1. TaskOf(r) \in Tasks
  BY TaskOfType
<1>2. row \in [Tasks -> Row] /\ Loaded(r) \in Row
  BY LoadedType DEF TypeOK, TableTypeOK, WorkerTypeOK
<1>3. ASSUME NEW obj \in Row, Writes(r, obj)
      PROVE  row' \in [Tasks -> Row]
  BY <1>1, <1>2, <1>3, FlushType DEF Writes
<1>4. [Loaded(r) EXCEPT !.status = "succeeded", !.last_error = "none"] \in Row
  BY <1>2 DEF Row, RowStatus, TaskStatus, LastError
<1>5. apply_failure(Loaded(r), "failed") \in Row
  BY <1>2, ApplyFailureType DEF LastError
<1>6. QED
  BY <1>3, <1>4, <1>5 DEF WritesSuccess, WritesFailure

\* Locking rows for a worker, and releasing them, keeps the locks well-typed.
LEMMA LockType ==
  ASSUME TypeOK, NEW w \in Workers
  PROVE  /\ ReleaseLocks(w) => lock' \in [Tasks -> Workers \cup {NoOne}]
         /\ \A rows : LockRows(w, rows) => lock' \in [Tasks -> Workers \cup {NoOne}]
BY DEF TypeOK, TableTypeOK, ReleaseLocks, LockRows

\* The claim of a worker respects the bound on claims and starts typed runs.
LEMMA FlipToRunningType ==
  ASSUME TypeOK, NEW w \in Workers, FlipToRunning(w),
         \A t \in LockedBy(w) : claims[t] < MaxClaims
  PROVE  /\ row' \in [Tasks -> Row]
         /\ lock' \in [Tasks -> Workers \cup {NoOne}]
         /\ claims' \in [Tasks -> 0 .. MaxClaims]
<1>1. ASSUME NEW t \in Tasks
      PROVE  Touch([row[t] EXCEPT !.status = "running"]) \in Row
  <2>1. row[t] \in Row
    BY DEF TypeOK, TableTypeOK
  <2>2. [row[t] EXCEPT !.status = "running"] \in Row
    BY <2>1 DEF Row, RowStatus, TaskStatus
  <2>3. QED
    BY <2>2, TouchType
<1>2. row' \in [Tasks -> Row]
  BY <1>1 DEF FlipToRunning, TypeOK, TableTypeOK
<1>3. claims' \in [Tasks -> 0 .. MaxClaims]
  BY WorkerAssumption
     DEF FlipToRunning, LockedBy, TypeOK, WorkerTypeOK, WorkerAssumption
<1>4. QED
  BY <1>2, <1>3, LockType DEF FlipToRunning

(***************************************************************************)
(* TypeOK alone is not inductive: a claim counts up to MaxClaims because   *)
(* the query it commits selected only tasks below it.  LockInv adds what   *)
(* a row lock means, and that only a worker that awaits its runs has any   *)
(* to await (an exception from one of them ends no other step of a tick).  *)
(***************************************************************************)
LockInv ==
  /\ SelectedRowsUntouched
  /\ \A w \in Workers : pc[w] = "claiming" =>
        \A t \in LockedBy(w) : claims[t] < MaxClaims
  /\ \A w \in Workers : gathered[w] # {} => pc[w] = "gathering"

LEMMA TypeStep == TypeOK /\ LockInv /\ [Next]_vars => TypeOK'
<1> SUFFICES ASSUME TypeOK, LockInv, [Next]_vars PROVE TypeOK'
  OBVIOUS
<1> USE DEF TypeOK, TableTypeOK, WorkerTypeOK
<1>1. ASSUME NEW w \in Workers, ReclaimSelect(w) PROVE TypeOK'
  BY <1>1, LockType DEF ReclaimSelect, Goto
<1>2. ASSUME NEW w \in Workers, ReclaimCommit(w) PROVE TypeOK'
  <2>1. \A t \in Tasks : Touch(apply_failure(row[t], "stalled")) \in Row
    BY ApplyFailureType, TouchType DEF LastError
  <2>2. row' \in [Tasks -> Row]
    BY <1>2, <2>1 DEF ReclaimCommit
  <2>3. QED
    BY <1>2, <2>2, LockType DEF ReclaimCommit, Goto
<1>3. ASSUME NEW w \in Workers, ClaimSelect(w) PROVE TypeOK'
  BY <1>3, LockType DEF ClaimSelect, Goto
<1>4. ASSUME NEW w \in Workers, ClaimCommit(w) PROVE TypeOK'
  <2>1. row' \in [Tasks -> Row] /\ claims' \in [Tasks -> 0 .. MaxClaims]
        /\ lock' \in [Tasks -> Workers \cup {NoOne}]
    BY <1>4, FlipToRunningType DEF ClaimCommit, LockInv
  <2>2. run' \in [Runs -> RunState] /\ Claimed(w) \in SUBSET Runs
    BY <1>4, RunStateType DEF ClaimCommit, Claimed
  <2>3. QED
    BY <1>4, <2>1, <2>2 DEF ClaimCommit, Goto
<1>5. ASSUME NEW w \in Workers, ClaimLost(w) PROVE TypeOK'
  <2>1. row' \in [Tasks -> Row] /\ claims' \in [Tasks -> 0 .. MaxClaims]
        /\ lock' \in [Tasks -> Workers \cup {NoOne}]
    BY <1>5, FlipToRunningType DEF ClaimLost, LockInv
  <2>2. QED
    BY <1>5, <2>1, WorkerAssumption DEF ClaimLost, Goto, WorkerAssumption
<1>6. ASSUME NEW w \in Workers, TickFails(w) PROVE TypeOK'
  BY <1>6, LockType, WorkerAssumption DEF TickFails, Goto, WorkerAssumption
<1>7. ASSUME NEW w \in Workers, TickEnds(w) PROVE TypeOK'
  BY <1>7 DEF TickEnds, Goto
<1>8. ASSUME NEW w \in Workers, Crash(w) PROVE TypeOK'
  BY <1>8, LockType, RunStateType, WorkerAssumption DEF Crash, Goto, WorkerAssumption
<1>9. ASSUME NEW w \in Workers, Restart(w) PROVE TypeOK'
  BY <1>9 DEF Restart, Goto
<1>10. ASSUME NEW r \in Runs, ProcessStart(r) PROVE TypeOK'
  <2>1. run' \in [Runs -> RunState]
    BY <1>10, RunStateType, TaskOfType DEF ProcessStart, Ends, RunState, Row
  <2>2. QED
    BY <1>10, <2>1 DEF ProcessStart
<1>11. ASSUME NEW r \in Runs, RecordSuccess(r) \/ RecordFailure(r) PROVE TypeOK'
  <2>1. row' \in [Tasks -> Row]
    BY <1>11, WritesType DEF RecordSuccess, RecordFailure
  <2>2. run' \in [Runs -> RunState]
    BY <1>11, RunStateType DEF RecordSuccess, RecordFailure, Ends
  <2>3. QED
    BY <1>11, <2>1, <2>2 DEF RecordSuccess, RecordFailure
<1>12. ASSUME NEW r \in Runs, Raises(r), run[r].pc # "over",
              row' \in [Tasks -> Row], faults' \in 0 .. MaxFaults
       PROVE  TypeOK'
  BY <1>12, RunStateType DEF Raises, Ends, Goto
<1>13. ASSUME NEW r \in Runs, StaleDataError(r) \/ DatabaseError(r) PROVE TypeOK'
  <2>1. row' \in [Tasks -> Row]
    BY <1>13, WritesType DEF StaleDataError, DatabaseError
  <2>2. faults' \in 0 .. MaxFaults
    BY <1>13, WorkerAssumption DEF StaleDataError, DatabaseError, WorkerAssumption
  <2>3. QED
    BY <1>12, <1>13, <2>1, <2>2 DEF StaleDataError, DatabaseError, Live
<1>14. ASSUME NEW t \in Tasks, GoStale(t) PROVE TypeOK'
  BY <1>14 DEF GoStale, workerVars, Row
<1>15. ASSUME Request, UNCHANGED workerVars PROVE TypeOK'
  <2>1. ASSUME NEW t \in Tasks, CreateTask(t) PROVE TypeOK'
    BY <1>15, <2>1, BlankType DEF CreateTask, workerVars
  <2>2. ASSUME NEW t \in Tasks, NEW target \in TaskStatus, UpdateStatus(t, target)
        PROVE  TypeOK'
    <3>1. [row[t] EXCEPT !.status = target] \in Row
      BY DEF Row, RowStatus
    <3>2. QED
      BY <1>15, <2>2, <3>1, TouchType DEF UpdateStatus, workerVars
  <2>3. ASSUME NEW t \in Tasks, DeleteTask(t) PROVE TypeOK'
    BY <1>15, <2>3, BlankType DEF DeleteTask, workerVars, RowStatus
  <2>4. QED
    BY <1>15, <2>1, <2>2, <2>3 DEF Request
<1>16. ASSUME NEW t \in Tasks, BecomeDue(t), UNCHANGED workerVars PROVE TypeOK'
  BY <1>16 DEF BecomeDue, workerVars, Row
<1>17. CASE UNCHANGED vars
  BY <1>17 DEF vars, RunState
<1>18. QED
  BY <1>1, <1>2, <1>3, <1>4, <1>5, <1>6, <1>7, <1>8, <1>9, <1>10, <1>11,
     <1>13, <1>14, <1>15, <1>16, <1>17
     DEF Next, WorkerNext, Tick, Process, Fault

------------------------------------------------------------------------------
(***************************************************************************)
(* Row locks.                                                              *)
(***************************************************************************)

\* Releasing a worker's locks leaves the other workers' locks alone.
LEMMA ReleaseKeepsOthers ==
  ASSUME TypeOK, NEW w \in Workers, NEW t \in Tasks, NEW u \in Workers,
         ReleaseLocks(w), lock'[t] = u
  PROVE  u # w /\ lock[t] = u
BY TableAssumption DEF TypeOK, TableTypeOK, ReleaseLocks, TableAssumption

\* The first two parts of LockInv, row by row.
Held(t, w) ==
  \/ /\ pc[w] = "reclaiming"
     /\ row[t].status = "running"
     /\ row[t].stale
  \/ /\ pc[w] = "claiming"
     /\ row[t].status = "pending"
     /\ row[t].due
     /\ claims[t] < MaxClaims

AwaitsWhileGathering == \A w \in Workers : gathered[w] # {} => pc[w] = "gathering"

LEMMA LockInvByRow ==
  LockInv <=> /\ \A w \in Workers : \A t \in Tasks : lock[t] = w => Held(t, w)
              /\ AwaitsWhileGathering
BY DEF LockInv, SelectedRowsUntouched, LockedBy, Held, AwaitsWhileGathering

LEMMA AwaitsStep == TypeOK /\ LockInv /\ [Next]_vars => AwaitsWhileGathering'
<1> SUFFICES ASSUME TypeOK, LockInv, [Next]_vars,
                    NEW u \in Workers, gathered'[u] # {}
             PROVE  pc'[u] = "gathering"
  BY DEF AwaitsWhileGathering
<1> USE DEF TypeOK, WorkerTypeOK
<1>a. gathered[u] # {} => pc[u] = "gathering"
  BY DEF LockInv
<1>1. ASSUME NEW w \in Workers, Tick(w) \/ Restart(w) PROVE pc'[u] = "gathering"
  BY <1>1, <1>a DEF Tick, Restart, ReclaimSelect, ReclaimCommit, ClaimSelect,
                    ClaimCommit, TickEnds, Goto
<1>2. ASSUME NEW w \in Workers, ClaimLost(w) \/ TickFails(w) \/ Crash(w)
      PROVE  pc'[u] = "gathering"
  BY <1>2, <1>a DEF ClaimLost, TickFails, Crash, Goto
<1>3. ASSUME NEW r \in Runs,
             ProcessStart(r) \/ RecordSuccess(r) \/ RecordFailure(r)
      PROVE  pc'[u] = "gathering"
  BY <1>3, <1>a DEF ProcessStart, RecordSuccess, RecordFailure
<1>4. ASSUME NEW r \in Runs, Raises(r) PROVE pc'[u] = "gathering"
  BY <1>4, <1>a DEF Raises, Goto
<1>5. CASE UNCHANGED workerVars \/ UNCHANGED vars
  BY <1>5, <1>a DEF workerVars, vars
<1>6. QED
  BY <1>1, <1>2, <1>3, <1>4, <1>5
     DEF Next, WorkerNext, Process, Fault, StaleDataError, DatabaseError, GoStale

LEMMA LockStep == TypeOK /\ LockInv /\ [Next]_vars => LockInv'
<1> SUFFICES ASSUME TypeOK, LockInv, [Next]_vars,
                    NEW u \in Workers, NEW t \in Tasks, lock'[t] = u
             PROVE  Held(t, u)'
  BY AwaitsStep DEF LockInv, SelectedRowsUntouched, LockedBy, Held, AwaitsWhileGathering
<1> USE DEF TypeOK, TableTypeOK, WorkerTypeOK
<1> u # NoOne
  BY TableAssumption DEF TableAssumption
<1>a. ASSUME lock[t] = u PROVE Held(t, u)
  BY <1>a, LockInvByRow
<1>1. ASSUME NEW w \in Workers, ReclaimSelect(w) PROVE Held(t, u)'
  BY <1>1, <1>a DEF ReclaimSelect, Limited, StaleRows, LockRows, Goto, Held
<1>2. ASSUME NEW w \in Workers, ReclaimCommit(w) PROVE Held(t, u)'
  BY <1>2, <1>a, ReleaseKeepsOthers DEF ReclaimCommit, Goto, Held
<1>3. ASSUME NEW w \in Workers, ClaimSelect(w) PROVE Held(t, u)'
  BY <1>3, <1>a DEF ClaimSelect, Limited, DueRows, LockRows, Goto, Held
<1>4. ASSUME NEW w \in Workers, FlipToRunning(w),
             pc' = [pc EXCEPT ![w] = pc'[w]]
      PROVE  Held(t, u)'
  <2>1. u # w /\ lock[t] = u
    BY <1>4, ReleaseKeepsOthers DEF FlipToRunning
  <2>2. row'[t] = row[t] /\ claims'[t] = claims[t]
    BY <1>4, <2>1 DEF FlipToRunning
  <2>3. QED
    BY <1>4, <1>a, <2>1, <2>2 DEF Held
<1>5. ASSUME NEW w \in Workers, ClaimCommit(w) \/ ClaimLost(w) PROVE Held(t, u)'
  BY <1>4, <1>5 DEF ClaimCommit, ClaimLost, Goto
<1>6. ASSUME NEW w \in Workers, TickFails(w) \/ Crash(w) PROVE Held(t, u)'
  BY <1>6, <1>a, ReleaseKeepsOthers DEF TickFails, Crash, Goto, Held
<1>7. ASSUME NEW w \in Workers, TickEnds(w) \/ Restart(w) PROVE Held(t, u)'
  BY <1>7, <1>a DEF TickEnds, Restart, Goto, Held
<1>8. ASSUME NEW r \in Runs, ProcessStart(r) PROVE Held(t, u)'
  BY <1>8, <1>a DEF ProcessStart, Held
<1>9. ASSUME NEW r \in Runs, WritesSuccess(r) \/ WritesFailure(r), lock' = lock
      PROVE  row'[t] = row[t]
  BY <1>9, TaskOfType DEF WritesSuccess, WritesFailure, Writes, Unlocked
<1>10. ASSUME NEW r \in Runs, RecordSuccess(r) \/ RecordFailure(r) PROVE Held(t, u)'
  BY <1>9, <1>10, <1>a DEF RecordSuccess, RecordFailure, Held
<1>11. ASSUME NEW r \in Runs, Raises(r), row'[t] = row[t] PROVE Held(t, u)'
  <2>1. Held(t, u) /\ claims' = claims
    BY <1>11, <1>a DEF Raises
  <2>2. pc'[u] = pc[u]
    BY <1>11, <2>1 DEF Raises, Goto, Held, LockInv
  <2>3. QED
    BY <1>11, <2>1, <2>2 DEF Held
<1>12. ASSUME NEW r \in Runs, StaleDataError(r) \/ DatabaseError(r) PROVE Held(t, u)'
  <2>1. Raises(r) /\ lock' = lock
    BY <1>12 DEF StaleDataError, DatabaseError, Raises
  <2>2. row'[t] = row[t]
    BY <1>9, <1>12, <2>1 DEF StaleDataError, DatabaseError
  <2>3. QED
    BY <1>11, <2>1, <2>2
<1>13. ASSUME NEW s \in Tasks, GoStale(s) PROVE Held(t, u)'
  BY <1>13, <1>a DEF GoStale, workerVars, Held
<1>14. ASSUME Request, UNCHANGED workerVars PROVE Held(t, u)'
  <2>1. lock[t] = u /\ Held(t, u)
    BY <1>14, <1>a DEF Request, CreateTask, UpdateStatus, DeleteTask
  <2>2. row'[t] = row[t]
    BY <1>14, <2>1
       DEF Request, CreateTask, UpdateStatus, DeleteTask, Unlocked, Held
  <2>3. QED
    BY <1>14, <2>1, <2>2 DEF workerVars, Held
<1>15. ASSUME NEW s \in Tasks, BecomeDue(s), UNCHANGED workerVars PROVE Held(t, u)'
  BY <1>15, <1>a DEF BecomeDue, workerVars, Held
<1>16. CASE UNCHANGED vars
  BY <1>16, <1>a DEF vars, Held
<1>17. QED
  BY <1>1, <1>2, <1>3, <1>5, <1>6, <1>7, <1>8, <1>10, <1>12, <1>13, <1>14,
     <1>15, <1>16
     DEF Next, WorkerNext, Tick, Process, Fault

LEMMA CoreInit == Init => TypeOK /\ LockInv
<1> SUFFICES ASSUME Init PROVE TypeOK /\ LockInv
  OBVIOUS
<1>1. TypeOK
  BY BlankType, RunStateType, WorkerAssumption
     DEF Init, TableInit, WorkerInit, TypeOK, TableTypeOK, WorkerTypeOK,
         RowStatus, WorkerAssumption
<1>2. LockInv
  BY TableAssumption
     DEF Init, TableInit, WorkerInit, LockInv, SelectedRowsUntouched, LockedBy,
         TableAssumption
<1>3. QED
  BY <1>1, <1>2

\* Types and locks, together, are inductive.
LEMMA CoreInvariant == Spec => [](TypeOK /\ LockInv)
<1>1. Init => TypeOK /\ LockInv
  BY CoreInit
<1>2. TypeOK /\ LockInv /\ [Next]_vars => (TypeOK /\ LockInv)'
  BY TypeStep, LockStep
<1>3. QED
  BY <1>1, <1>2, PTL DEF Spec

\* The table and the workers always hold values of their types; in particular
\* no row and no object a run loaded ever has more retries than MAX_RETRIES,
\* however requests, runs, the reaper and faults interleave.
THEOREM TypeCorrect == Spec => []TypeOK
BY CoreInvariant, PTL

\* The rows a worker selects FOR UPDATE SKIP LOCKED are, until it commits,
\* the rows its query found.
THEOREM LocksProtect == Spec => []SelectedRowsUntouched
<1>1. LockInv => SelectedRowsUntouched
  BY DEF LockInv
<1>2. QED
  BY <1>1, CoreInvariant, PTL

\* A step leaves a deleted row alone.
LEMMA DeletedStep ==
  ASSUME TypeOK, LockInv, [Next]_vars, NEW t \in Tasks, row[t].status = "deleted"
  PROVE  row'[t] = row[t]
<1> USE DEF TypeOK, TableTypeOK
<1>1. \A w \in Workers : lock[t] # w
  BY DEF LockInv, SelectedRowsUntouched, LockedBy
<1>2. ASSUME NEW w \in Workers, Tick(w) \/ Restart(w) PROVE row'[t] = row[t]
  BY <1>1, <1>2 DEF Tick, ReclaimSelect, ReclaimCommit, ClaimSelect, ClaimCommit,
                    FlipToRunning, TickEnds, Restart
<1>3. ASSUME NEW w \in Workers, ClaimLost(w) \/ TickFails(w) \/ Crash(w)
      PROVE  row'[t] = row[t]
  BY <1>1, <1>3 DEF ClaimLost, FlipToRunning, TickFails, Crash
<1>4. ASSUME NEW r \in Runs, WritesSuccess(r) \/ WritesFailure(r)
      PROVE  row'[t] = row[t]
  BY <1>4, TaskOfType DEF WritesSuccess, WritesFailure, Writes, Exists, TaskStatus
<1>5. ASSUME NEW r \in Runs, Process(r) \/ DatabaseError(r) PROVE row'[t] = row[t]
  BY <1>4, <1>5 DEF Process, ProcessStart, RecordSuccess, RecordFailure,
                    StaleDataError, DatabaseError
<1>6. ASSUME Request PROVE row'[t] = row[t]
  BY <1>6 DEF Request, CreateTask, UpdateStatus, DeleteTask, Exists, TaskStatus
<1>7. ASSUME NEW s \in Tasks, GoStale(s) \/ BecomeDue(s) PROVE row'[t] = row[t]
  BY <1>7 DEF GoStale, BecomeDue
<1>8. CASE UNCHANGED vars
  BY <1>8 DEF vars
<1>9. QED
  BY <1>2, <1>3, <1>5, <1>6, <1>7, <1>8 DEF Next, WorkerNext, Fault

\* No run that still executes a deleted task, no commit of a batch and no
\* request ever brings its row back.
THEOREM DeletionIsFinal == Spec => DeletedStaysDeleted
<1>1. TypeOK /\ LockInv /\ [Next]_vars
        => [\A t \in Tasks : row[t].status = "deleted" => row'[t] = row[t]]_vars
  BY DeletedStep
<1>2. QED
  BY <1>1, CoreInvariant, PTL DEF Spec, DeletedStaysDeleted
==============================================================================
