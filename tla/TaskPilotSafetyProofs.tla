------------------------ MODULE TaskPilotSafetyProofs ------------------------
(***************************************************************************)
(* Theorems about the undisturbed tasks of TaskPilot, those whose runs end *)
(* within the running timeout and which no client PATCHes while they run:  *)
(* one execution at a time, no stale outcome, bounded attempts.  Nothing   *)
(* that is done to other tasks matters to them.                            *)
(***************************************************************************)
EXTENDS TaskPilotProofs

UndisturbedRuns == {r \in Runs : TaskOf(r) \in Undisturbed}

(***************************************************************************)
(* NoOverlap, RunsAreFresh and ClaimBudget support each other, and need    *)
(* what a live run means: it is the run of the latest claim, and the row   *)
(* is still running (and fresh) for it, or deleted.                        *)
(***************************************************************************)
LiveOK(r) ==
  /\ r[2] = claims[TaskOf(r)]
  /\ \/ row[TaskOf(r)].status = "running" /\ ~row[TaskOf(r)].stale
     \/ row[TaskOf(r)].status = "deleted"

FreshOK(r) ==
  row[TaskOf(r)].status = "running" =>
     /\ row[TaskOf(r)].retry_count = run[r].retry_count
     /\ row[TaskOf(r)].last_error = run[r].last_error

RunOK(r) == /\ Live(r) => LiveOK(r)
            /\ run[r].pc = "executing" => FreshOK(r)

TaskOK(t) ==
  /\ row[t].status # "failed"
  /\ row[t].status = "absent" => claims[t] = 0 /\ row[t].retry_count = 0
  /\ row[t].status = "pending" => claims[t] <= row[t].retry_count
  /\ row[t].status # "deleted" => claims[t] <= row[t].retry_count + 1
  /\ row[t].status = "succeeded" => row[t].last_error = "none"

SafeInv == /\ TypeOK
           /\ LockInv
           /\ \A r \in UndisturbedRuns : RunOK(r)
           /\ \A t \in Undisturbed : TaskOK(t)

LEMMA UndisturbedType ==
  /\ Undisturbed \subseteq Tasks
  /\ \A r \in UndisturbedRuns : /\ r \in Runs
                                 /\ TaskOf(r) \in Undisturbed
                                 /\ TaskOf(r) \in Tasks
BY DEF Undisturbed, UndisturbedRuns

\* A task that is neither running nor deleted, or whose row is stale, has no
\* live run.
LEMMA NotLive ==
  ASSUME SafeInv, NEW r \in UndisturbedRuns,
         \/ row[TaskOf(r)].status \notin {"running", "deleted"}
         \/ row[TaskOf(r)].status = "running" /\ row[TaskOf(r)].stale
  PROVE  run[r].pc = "over"
BY DEF SafeInv, RunOK, LiveOK, Live

\* Two live runs of one task are the same run.
LEMMA LiveIsUnique ==
  ASSUME SafeInv, NEW r1 \in UndisturbedRuns, NEW r2 \in UndisturbedRuns,
         TaskOf(r1) = TaskOf(r2), Live(r1), Live(r2)
  PROVE  r1 = r2
BY UndisturbedType DEF SafeInv, RunOK, LiveOK, TaskOf, Runs

\* A step that leaves the row and the claims of a run's task as they are, and
\* at most ends the run, preserves RunOK.
LEMMA RunFrame ==
  ASSUME SafeInv, NEW r \in UndisturbedRuns,
         row'[TaskOf(r)] = row[TaskOf(r)], claims'[TaskOf(r)] = claims[TaskOf(r)],
         run'[r] = run[r] \/ run'[r] = Over
  PROVE  RunOK(r)'
BY DEF SafeInv, RunOK, LiveOK, FreshOK, Live, Over

\* A run that is over is always all right.
LEMMA OverOK == ASSUME NEW r \in UndisturbedRuns, run'[r].pc = "over" PROVE RunOK(r)'
BY DEF RunOK, Live

------------------------------------------------------------------------------
\* Committing a reclaim: the reclaimed rows are stale, so nothing runs them.
LEMMA ReclaimSafe ==
  ASSUME SafeInv, NEW w \in Workers, ReclaimCommit(w)
  PROVE  (\A r \in UndisturbedRuns : RunOK(r)') /\ (\A t \in Undisturbed : TaskOK(t)')
<1> USE UndisturbedType DEF SafeInv
<1>1. ASSUME NEW t \in Tasks, lock[t] = w
      PROVE  row[t].status = "running" /\ row[t].stale
  BY <1>1 DEF ReclaimCommit, LockInv, SelectedRowsUntouched, LockedBy
<1>2. ASSUME NEW r \in UndisturbedRuns PROVE RunOK(r)'
  <2>1. TaskOf(r) \in Tasks
    BY UndisturbedType
  <2>2. CASE lock[TaskOf(r)] = w
    BY <2>1, <2>2, <1>1, NotLive, OverOK DEF ReclaimCommit
  <2>3. CASE lock[TaskOf(r)] # w
    BY <2>1, <2>3, RunFrame DEF ReclaimCommit
  <2>4. QED
    BY <2>2, <2>3
<1>3. ASSUME NEW t \in Undisturbed PROVE TaskOK(t)'
  <2>1. CASE lock[t] = w
    <3>1. row'[t] = Touch(apply_failure(row[t], "stalled")) /\ claims' = claims
      BY <2>1 DEF ReclaimCommit
    <3>2. row[t] \in Row /\ claims[t] \in 0 .. MaxClaims
      BY DEF TypeOK, TableTypeOK, WorkerTypeOK
    <3>3. claims[t] <= row[t].retry_count + 1
      BY <2>1, <1>1 DEF TaskOK
    <3>4. CASE Exhausted(row[t])
      BY <3>1, <3>2, <3>3, <3>4 DEF apply_failure, Touch, TaskOK, Row
    <3>5. CASE ~Exhausted(row[t])
      BY <3>1, <3>2, <3>3, <3>5, WorkerAssumption
         DEF apply_failure, Touch, TaskOK, Row, WorkerAssumption
    <3>6. QED
      BY <3>4, <3>5
  <2>2. CASE lock[t] # w
    BY <2>2 DEF ReclaimCommit, TaskOK
  <2>3. QED
    BY <2>1, <2>2
<1>4. QED
  BY <1>2, <1>3

\* Committing a claim: the claimed rows are pending, so nothing runs them.
LEMMA FlipSafe ==
  ASSUME SafeInv, NEW w \in Workers, FlipToRunning(w), pc[w] = "claiming"
  PROVE  /\ \A r \in UndisturbedRuns : lock[TaskOf(r)] = w => run[r].pc = "over"
         /\ \A t \in Undisturbed : TaskOK(t)'
<1> USE UndisturbedType DEF SafeInv
<1>1. ASSUME NEW t \in Tasks, lock[t] = w PROVE row[t].status = "pending"
  BY <1>1 DEF LockInv, SelectedRowsUntouched, LockedBy
<1>2. ASSUME NEW r \in UndisturbedRuns, lock[TaskOf(r)] = w PROVE run[r].pc = "over"
  BY <1>1, <1>2, NotLive
<1>3. ASSUME NEW t \in Undisturbed PROVE TaskOK(t)'
  <2>1. CASE lock[t] = w
    <3>1. row[t] \in Row /\ claims[t] \in 0 .. MaxClaims
      BY DEF TypeOK, TableTypeOK, WorkerTypeOK
    <3>2. claims[t] <= row[t].retry_count
      BY <1>1, <2>1 DEF TaskOK
    <3>3. /\ row'[t] = Touch([row[t] EXCEPT !.status = "running"])
          /\ claims'[t] = claims[t] + 1
      BY <2>1 DEF FlipToRunning
    <3>4. QED
      BY <3>1, <3>2, <3>3, WorkerAssumption DEF Touch, TaskOK, Row, WorkerAssumption
  <2>2. CASE lock[t] # w
    BY <2>2 DEF FlipToRunning, TaskOK
  <2>3. QED
    BY <2>1, <2>2
<1>4. QED
  BY <1>2, <1>3

\* A run writes the row of its own task only.
LEMMA WritesFrame ==
  ASSUME SafeInv, NEW r \in Runs, WritesSuccess(r) \/ WritesFailure(r)
  PROVE  \A s \in Tasks \ {TaskOf(r)} : row'[s] = row[s]
BY TaskOfType
   DEF WritesSuccess, WritesFailure, Writes, SafeInv, TypeOK, TableTypeOK

\* The row a run writes: it comes from the row the run loaded.
LEMMA WrittenRow ==
  ASSUME SafeInv, NEW r \in UndisturbedRuns, WritesSuccess(r) \/ WritesFailure(r)
  PROVE  LET t == TaskOf(r) IN
         /\ t \in Tasks
         /\ row[t].status = "running"
         /\ \/ /\ row'[t].status = "succeeded"
               /\ row'[t].retry_count = row[t].retry_count
               /\ row'[t].last_error = "none"
            \/ /\ row'[t].status = "dead"
               /\ row'[t].retry_count = row[t].retry_count
               /\ row[t].retry_count = MaxRetries
            \/ /\ row'[t].status = "pending"
               /\ row'[t].retry_count = row[t].retry_count + 1
<1> DEFINE t == TaskOf(r)
<1>1. t \in Tasks /\ run[r] \in RunState /\ row[t] \in Row
  BY UndisturbedType DEF SafeInv, TypeOK, TableTypeOK, WorkerTypeOK
<1>2. run[r].pc = "executing" /\ row[t].status \in TaskStatus
  BY DEF WritesSuccess, WritesFailure, Writes, Exists
<1>3. /\ row[t].status = "running"
      /\ row[t].retry_count = run[r].retry_count
      /\ row[t].last_error = run[r].last_error
  BY <1>2 DEF SafeInv, RunOK, LiveOK, FreshOK, Live, TaskStatus
<1>5. CASE WritesSuccess(r)
  <2>1. row'[t] = Flush(t, Loaded(r), [Loaded(r) EXCEPT !.status = "succeeded",
                                                       !.last_error = "none"])
    BY <1>1, <1>5 DEF WritesSuccess, Writes, SafeInv, TypeOK, TableTypeOK
  <2>2. QED
    BY <1>1, <1>3, <2>1 DEF Flush, Loaded
<1>6. CASE WritesFailure(r)
  <2> DEFINE obj == apply_failure(Loaded(r), "failed")
  <2>1. row'[t] = Flush(t, Loaded(r), obj)
    BY <1>1, <1>6 DEF WritesFailure, Writes, SafeInv, TypeOK, TableTypeOK
  <2>2. /\ Loaded(r).status = "running"
        /\ Loaded(r).retry_count = row[t].retry_count
        /\ row[t].retry_count \in 0 .. MaxRetries
    BY <1>1, <1>3 DEF Loaded, Row
  <2>3. CASE Exhausted(Loaded(r))
    <3>1. obj.status = "dead" /\ obj.retry_count = row[t].retry_count
      BY <1>3, <2>3 DEF apply_failure, Loaded
    <3>2. row[t].retry_count = MaxRetries
      BY <2>2, <2>3, RetriesAssumption DEF Exhausted
    <3> HIDE DEF obj
    <3>3. row'[t].status = "dead" /\ row'[t].retry_count = row[t].retry_count
      BY <2>1, <2>2, <3>1 DEF Flush
    <3>4. QED
      BY <1>1, <1>3, <3>2, <3>3
  <2>4. CASE ~Exhausted(Loaded(r))
    <3>1. obj.status = "pending" /\ obj.retry_count = row[t].retry_count + 1
      BY <1>3, <2>4 DEF apply_failure, Loaded
    <3> HIDE DEF obj
    <3>2. row'[t].status = "pending"
      BY <2>1, <2>2, <3>1 DEF Flush
    <3>3. row'[t].retry_count = row[t].retry_count + 1
      BY <2>1, <2>2, <3>1 DEF Flush
    <3>4. QED
      BY <1>1, <1>3, <3>2, <3>3
  <2>5. QED
    BY <2>3, <2>4
<1>7. QED
  BY <1>5, <1>6

\* Recording an outcome: the run that records is the only one of its task.
LEMMA WritesSafe ==
  ASSUME SafeInv, NEW r \in Runs, WritesSuccess(r) \/ WritesFailure(r),
         Ends(r), claims' = claims
  PROVE  (\A q \in UndisturbedRuns : RunOK(q)') /\ (\A t \in Undisturbed : TaskOK(t)')
<1> USE UndisturbedType
<1>1. ASSUME NEW q \in UndisturbedRuns PROVE RunOK(q)'
  <2>1. run[r].pc = "executing" /\ run \in [Runs -> RunState]
    BY DEF WritesSuccess, WritesFailure, Writes, SafeInv, TypeOK, WorkerTypeOK
  <2>2. CASE q = r
    BY <2>1, <2>2, OverOK DEF Ends, Over
  <2>3. CASE q # r /\ TaskOf(q) = TaskOf(r)
    <3>1. r \in UndisturbedRuns
      BY <2>3 DEF UndisturbedRuns
    <3>2. ~Live(q)
      BY <2>1, <2>3, <3>1, LiveIsUnique DEF Live
    <3>3. QED
      BY <2>1, <2>3, <3>2, OverOK DEF Ends, Live
  <2>4. CASE TaskOf(q) # TaskOf(r)
    <3>1. row'[TaskOf(q)] = row[TaskOf(q)] /\ run'[q] = run[q]
      BY <2>1, <2>4, WritesFrame DEF Ends
    <3>2. QED
      BY <3>1, RunFrame
  <2>5. QED
    BY <2>2, <2>3, <2>4
<1>2. ASSUME NEW t \in Undisturbed PROVE TaskOK(t)'
  <2>1. row[t] \in Row /\ claims[t] \in 0 .. MaxClaims /\ TaskOK(t)
    BY DEF SafeInv, TypeOK, TableTypeOK, WorkerTypeOK
  <2>2. CASE t = TaskOf(r)
    <3>1. r \in UndisturbedRuns
      BY <2>2 DEF UndisturbedRuns
    <3>2. claims[t] <= row[t].retry_count + 1
      BY <2>1, <2>2, <3>1, WrittenRow DEF TaskOK
    <3>3. QED
      BY <2>1, <2>2, <3>1, <3>2, WrittenRow, WorkerAssumption
         DEF TaskOK, Row, WorkerAssumption
  <2>3. CASE t # TaskOf(r)
    BY <2>1, <2>3, WritesFrame DEF TaskOK
  <2>4. QED
    BY <2>2, <2>3
<1>3. QED
  BY <1>1, <1>2

------------------------------------------------------------------------------
\* Nothing runs a task that a client may change the status of.
LEMMA RequestSafe ==
  ASSUME SafeInv, Request, UNCHANGED workerVars
  PROVE  (\A r \in UndisturbedRuns : RunOK(r)') /\ (\A t \in Undisturbed : TaskOK(t)')
<1> USE UndisturbedType DEF SafeInv, TypeOK, TableTypeOK, WorkerTypeOK
<1> DEFINE Others(s) == \A t \in Tasks \ {s} : row'[t] = row[t]
<1>1. ASSUME NEW s \in Tasks, Others(s), s \in Undisturbed => TaskOK(s)',
             \A r \in UndisturbedRuns : TaskOf(r) = s => RunOK(r)'
      PROVE  (\A r \in UndisturbedRuns : RunOK(r)') /\ (\A t \in Undisturbed : TaskOK(t)')
  <2>1. ASSUME NEW r \in UndisturbedRuns, TaskOf(r) # s PROVE RunOK(r)'
    BY <1>1, <2>1, RunFrame DEF workerVars
  <2>2. ASSUME NEW t \in Undisturbed, t # s PROVE TaskOK(t)'
    BY <1>1, <2>2 DEF TaskOK, workerVars
  <2>3. QED
    BY <1>1, <2>1, <2>2
<1>2. ASSUME NEW s \in Tasks, CreateTask(s)
      PROVE  (\A r \in UndisturbedRuns : RunOK(r)') /\ (\A t \in Undisturbed : TaskOK(t)')
  <2>1. \A r \in UndisturbedRuns : TaskOf(r) = s => RunOK(r)'
    BY <1>2, NotLive, OverOK DEF CreateTask, workerVars
  <2>2. s \in Undisturbed => TaskOK(s)'
    BY <1>2 DEF CreateTask, NewTask, Blank, TaskOK, workerVars
  <2>3. QED
    BY <1>1, <1>2, <2>1, <2>2 DEF CreateTask
<1>3. ASSUME NEW s \in Tasks, NEW target \in TaskStatus, UpdateStatus(s, target)
      PROVE  (\A r \in UndisturbedRuns : RunOK(r)') /\ (\A t \in Undisturbed : TaskOK(t)')
  <2>1. ASSUME s \in Undisturbed
        PROVE  row[s].status = "pending" /\ target \in {"running", "dead"}
    BY <1>3, <2>1 DEF UpdateStatus, Exists, TaskStatus, Undisturbed, TaskOK,
                      can_transition, ALLOWED_TRANSITIONS
  <2>2. \A r \in UndisturbedRuns : TaskOf(r) = s => RunOK(r)'
    BY <2>1, NotLive, OverOK DEF workerVars
  <2>3. /\ row'[s].status = target
        /\ row'[s].retry_count = row[s].retry_count
    BY <1>3 DEF UpdateStatus, Touch, Row
  <2>4. ASSUME s \in Undisturbed PROVE TaskOK(s)'
    <3>1. /\ claims[s] \in Nat /\ row[s].retry_count \in Nat
          /\ claims[s] <= row[s].retry_count
      BY <2>1, <2>4, RetriesAssumption, WorkerAssumption
         DEF TaskOK, Row, WorkerAssumption
    <3>2. QED
      BY <2>1, <2>3, <2>4, <3>1 DEF TaskOK, workerVars
  <2>5. QED
    BY <1>1, <1>3, <2>2, <2>4 DEF UpdateStatus
<1>4. ASSUME NEW s \in Tasks, DeleteTask(s)
      PROVE  (\A r \in UndisturbedRuns : RunOK(r)') /\ (\A t \in Undisturbed : TaskOK(t)')
  <2>1. row'[s] = Blank("deleted")
    BY <1>4 DEF DeleteTask
  <2>2. \A r \in UndisturbedRuns : TaskOf(r) = s => RunOK(r)'
    BY <2>1 DEF RunOK, LiveOK, FreshOK, Live, Blank, workerVars
  <2>3. TaskOK(s)'
    BY <2>1 DEF Blank, TaskOK
  <2>4. QED
    BY <1>1, <1>4, <2>2, <2>3 DEF DeleteTask
<1>5. QED
  BY <1>2, <1>3, <1>4 DEF Request

LEMMA SafeStep == ASSUME SafeInv, [Next]_vars PROVE SafeInv'
<1> DEFINE Safe == (\A r \in UndisturbedRuns : RunOK(r)') /\ (\A t \in Undisturbed : TaskOK(t)')
<1>0. TypeOK' /\ LockInv'
  BY TypeStep, LockStep DEF SafeInv
<1> SUFFICES Safe
  BY <1>0 DEF SafeInv
<1> USE UndisturbedType DEF SafeInv, TypeOK, TableTypeOK, WorkerTypeOK
\* Steps that write no row and start no run.
<1>a. ASSUME UNCHANGED <<row, claims>>,
             \A r \in Runs : run'[r] = run[r] \/ run'[r] = Over
      PROVE  Safe
  BY <1>a, RunFrame DEF TaskOK
<1>1. ASSUME NEW w \in Workers,
             ReclaimSelect(w) \/ ClaimSelect(w) \/ TickEnds(w) \/ TickFails(w)
               \/ Restart(w)
      PROVE  Safe
  BY <1>a, <1>1 DEF ReclaimSelect, ClaimSelect, TickEnds, TickFails, Restart
<1>2. ASSUME NEW w \in Workers, ReclaimCommit(w) PROVE Safe
  BY <1>2, ReclaimSafe
<1>3. ASSUME NEW w \in Workers, ClaimCommit(w) PROVE Safe
  <2>1. /\ FlipToRunning(w) /\ pc[w] = "claiming"
        /\ run' = [r \in Runs |-> IF r \in Claimed(w) THEN Queued(w) ELSE run[r]]
    BY <1>3 DEF ClaimCommit
  <2>2. ASSUME NEW r \in UndisturbedRuns PROVE RunOK(r)'
    <3>1. TaskOf(r) \in Tasks
      OBVIOUS
    <3>2. CASE r \in Claimed(w)
      <4>1. lock[TaskOf(r)] = w /\ r[2] = claims[TaskOf(r)] + 1
        BY <3>2 DEF Claimed
      <4>2. /\ row'[TaskOf(r)] = Touch([row[TaskOf(r)] EXCEPT !.status = "running"])
            /\ claims'[TaskOf(r)] = r[2]
        BY <2>1, <3>1, <4>1 DEF FlipToRunning
      <4>3. row'[TaskOf(r)].status = "running" /\ ~row'[TaskOf(r)].stale
        BY <3>1, <4>2 DEF Touch, Row
      <4>4. run'[r].pc = "queued"
        BY <2>1, <3>2 DEF Queued, Over
      <4>5. QED
        BY <4>2, <4>3, <4>4 DEF RunOK, LiveOK
    <3>3. CASE r \notin Claimed(w) /\ lock[TaskOf(r)] = w
      BY <2>1, <3>3, FlipSafe, OverOK
    <3>4. CASE r \notin Claimed(w) /\ lock[TaskOf(r)] # w
      BY <2>1, <3>1, <3>4, RunFrame DEF FlipToRunning
    <3>5. QED
      BY <3>2, <3>3, <3>4
  <2>3. QED
    BY <2>1, <2>2, FlipSafe
<1>4. ASSUME NEW w \in Workers, ClaimLost(w) PROVE Safe
  <2>1. FlipToRunning(w) /\ pc[w] = "claiming" /\ run' = run
    BY <1>4 DEF ClaimLost
  <2>2. ASSUME NEW r \in UndisturbedRuns PROVE RunOK(r)'
    <3>1. CASE lock[TaskOf(r)] = w
      BY <2>1, <3>1, FlipSafe, OverOK
    <3>2. CASE lock[TaskOf(r)] # w
      BY <2>1, <3>2, RunFrame DEF FlipToRunning
    <3>3. QED
      BY <3>1, <3>2
  <2>3. QED
    BY <2>1, <2>2, FlipSafe
<1>5. ASSUME NEW w \in Workers, Crash(w) PROVE Safe
  BY <1>a, <1>5 DEF Crash
<1>6. ASSUME NEW r \in Runs, ProcessStart(r) PROVE Safe
  <2>1. CASE run' = [run EXCEPT ![r] = Over]
    BY <1>a, <1>6, <2>1 DEF ProcessStart
  <2>2. CASE row[TaskOf(r)].status = "running" /\ run' # [run EXCEPT ![r] = Over]
    <3>1. \A q \in UndisturbedRuns : q # r => RunOK(q)'
      BY <1>6, <2>2, RunFrame DEF ProcessStart, Ends
    <3>2. r \in UndisturbedRuns => RunOK(r)'
      BY <1>6, <2>2 DEF ProcessStart, Ends, RunOK, LiveOK, FreshOK, Live
    <3>3. QED
      BY <1>6, <3>1, <3>2 DEF ProcessStart, TaskOK
  <2>3. QED
    BY <1>6, <2>1, <2>2 DEF ProcessStart, Ends
<1>7. ASSUME NEW r \in Runs, RecordSuccess(r) \/ RecordFailure(r) PROVE Safe
  BY <1>7, WritesSafe DEF RecordSuccess, RecordFailure
<1>8. ASSUME NEW r \in Runs, StaleDataError(r) \/ DatabaseError(r) PROVE Safe
  <2>1. Ends(r) /\ claims' = claims
    BY <1>8 DEF StaleDataError, DatabaseError, Raises
  <2>2. CASE row' = row
    BY <1>a, <2>1, <2>2 DEF Ends
  <2>3. CASE WritesSuccess(r) \/ WritesFailure(r)
    BY <2>1, <2>3, WritesSafe
  <2>4. QED
    BY <1>8, <2>2, <2>3 DEF StaleDataError, DatabaseError
<1>9. ASSUME NEW s \in Tasks, GoStale(s) PROVE Safe
  <2>1. \A r \in UndisturbedRuns : TaskOf(r) = s => run[r].pc = "over"
    BY <1>9 DEF GoStale, Undisturbed, LiveRuns, Live
  <2>2. ASSUME NEW r \in UndisturbedRuns PROVE RunOK(r)'
    BY <1>9, <2>1, RunFrame, OverOK DEF GoStale, workerVars
  <2>3. ASSUME NEW t \in Undisturbed PROVE TaskOK(t)'
    BY <1>9 DEF GoStale, workerVars, TaskOK, Row
  <2>4. QED
    BY <2>2, <2>3
<1>10. ASSUME Request, UNCHANGED workerVars PROVE Safe
  BY <1>10, RequestSafe
<1>11. ASSUME NEW s \in Tasks, BecomeDue(s), UNCHANGED workerVars PROVE Safe
  <2>1. ASSUME NEW r \in UndisturbedRuns PROVE RunOK(r)'
    <3>1. CASE TaskOf(r) = s
      BY <1>11, <3>1, NotLive, OverOK DEF BecomeDue, workerVars
    <3>2. CASE TaskOf(r) # s
      BY <1>11, <3>2, RunFrame DEF BecomeDue, workerVars
    <3>3. QED
      BY <3>1, <3>2
  <2>2. ASSUME NEW t \in Undisturbed PROVE TaskOK(t)'
    BY <1>11 DEF BecomeDue, workerVars, TaskOK, Row
  <2>3. QED
    BY <2>1, <2>2
<1>12. CASE UNCHANGED vars
  BY <1>a, <1>12 DEF vars
<1>13. QED
  BY <1>1, <1>2, <1>3, <1>4, <1>5, <1>6, <1>7, <1>8, <1>9, <1>10, <1>11, <1>12
     DEF Next, WorkerNext, Tick, Process, Fault

LEMMA SafeInvariant == Spec => []SafeInv
<1>1. Init => SafeInv
  <2> SUFFICES ASSUME Init PROVE SafeInv
    OBVIOUS
  <2>1. TypeOK /\ LockInv
    BY CoreInit
  <2>2. QED
    BY <2>1, UndisturbedType, RetriesAssumption
       DEF Init, TableInit, WorkerInit, SafeInv, RunOK, TaskOK, Live, Over, Blank
<1>2. SafeInv /\ [Next]_vars => SafeInv'
  BY SafeStep
<1>3. QED
  BY <1>1, <1>2, PTL DEF Spec

------------------------------------------------------------------------------
\* No task is executed twice at a time, whatever the number of workers, their
\* crashes, and the rows deleted under them.
THEOREM NeverTwiceAtATime == Spec => []NoOverlap
<1>1. SafeInv => NoOverlap
  BY LiveIsUnique DEF NoOverlap, AtMostOneRun, LiveRuns, UndisturbedRuns
<1>2. QED
  BY <1>1, SafeInvariant, PTL

\* The object a run writes from is the row as it is: the outcome it records
\* never overwrites what someone else wrote since.
THEOREM OutcomesAreFresh == Spec => []RunsAreFresh
<1>1. SafeInv => RunsAreFresh
  BY DEF SafeInv, RunsAreFresh, RunOK, LiveOK, FreshOK, LiveRuns, Live, Exists,
         TaskStatus, UndisturbedRuns
<1>2. QED
  BY <1>1, SafeInvariant, PTL

\* A task is claimed at most once more than it was retried.
THEOREM AttemptsAreBounded == Spec => []ClaimBudget
<1>1. SafeInv => ClaimBudget
  BY UndisturbedType, RetriesAssumption, WorkerAssumption
     DEF SafeInv, ClaimBudget, TaskOK, Exists, TaskStatus, TypeOK, TableTypeOK,
         WorkerTypeOK, Row, WorkerAssumption
<1>2. QED
  BY <1>1, SafeInvariant, PTL

\* Success leaves no error text behind.
THEOREM SuccessIsClean == Spec => []SucceededHasNoError
<1>1. SafeInv => SucceededHasNoError
  BY DEF SafeInv, SucceededHasNoError, TaskOK
<1>2. QED
  BY <1>1, SafeInvariant, PTL

------------------------------------------------------------------------------
(***************************************************************************)
(* What one step does to an undisturbed task: nothing that matters, or one *)
(* of the moves a job of JobQueue makes.  The step properties and the      *)
(* refinement all follow from this.                                        *)
(***************************************************************************)
Active(t) == LiveRuns(t) # {}

Moved(t, status, target) == row[t].status = status /\ row'[t].status = target

KeepsCount(t) == row'[t].retry_count = row[t].retry_count

\* The row is as it was, or a clock passed it; its run may have ended.
Stays(t) == /\ row'[t] = row[t] \/ row[t].status \in {"pending", "running"}
            /\ Moved(t, row[t].status, row[t].status)
            /\ KeepsCount(t)
            /\ Active(t)' => Active(t)

Created(t) == /\ Moved(t, "absent", "pending")
              /\ KeepsCount(t)
              /\ Active(t)' = Active(t)

Taken(t) == Moved(t, "pending", "running") /\ KeepsCount(t)

Succeeded(t) == /\ Moved(t, "running", "succeeded")
                /\ KeepsCount(t)
                /\ Active(t) /\ ~Active(t)'

GivenBack(t) == /\ Moved(t, "running", "pending")
                /\ row'[t].retry_count = row[t].retry_count + 1
                /\ ~Active(t)'

DeadLettered(t) == /\ Moved(t, "running", "dead")
                   /\ row[t].retry_count = MaxRetries
                   /\ KeepsCount(t)
                   /\ ~Active(t)'

Cancelled(t) == /\ Moved(t, "pending", "dead")
                /\ KeepsCount(t)
                /\ Active(t)' = Active(t)

Deleted(t) == /\ Exists(t)
              /\ row'[t] = Blank("deleted")
              /\ Active(t)' = Active(t)

Move(t) == \/ Stays(t) \/ Created(t) \/ Taken(t) \/ Succeeded(t) \/ GivenBack(t)
           \/ DeadLettered(t) \/ Cancelled(t) \/ Deleted(t)

\* A step that leaves the runs of a task alone leaves it active or not; one
\* that only ends runs never makes it active.
LEMMA ActiveFrame ==
  ASSUME NEW t \in Tasks
  PROVE  /\ (\A r \in Runs : TaskOf(r) = t => run'[r] = run[r])
              => Active(t)' = Active(t)
         /\ (\A r \in Runs : TaskOf(r) = t => run'[r] = run[r] \/ run'[r] = Over)
              => (Active(t)' => Active(t))
<1>1. ASSUME \A r \in Runs : TaskOf(r) = t => run'[r] = run[r]
      PROVE  Active(t)' = Active(t)
  <2>1. LiveRuns(t)' = LiveRuns(t)
    BY <1>1 DEF LiveRuns, Live
  <2>2. QED
    BY <2>1 DEF Active
<1>2. ASSUME \A r \in Runs : TaskOf(r) = t => run'[r] = run[r] \/ run'[r] = Over,
             Active(t)'
      PROVE  Active(t)
  BY <1>2 DEF Active, LiveRuns, Live, Over
<1>3. QED
  BY <1>1, <1>2

\* A step that keeps the row and at most ends runs is no move of the task.
LEMMA StaysFrame ==
  ASSUME NEW t \in Tasks, row'[t] = row[t],
         \A r \in Runs : TaskOf(r) = t => run'[r] = run[r] \/ run'[r] = Over
  PROVE  Move(t)
BY ActiveFrame DEF Move, Stays, Moved, KeepsCount

\* A task that is neither running nor deleted, or whose row is stale, is not
\* active.
LEMMA NotActive ==
  ASSUME SafeInv, NEW t \in Undisturbed,
         \/ row[t].status \notin {"running", "deleted"}
         \/ row[t].status = "running" /\ row[t].stale
  PROVE  ~Active(t)
BY NotLive DEF Active, LiveRuns, Live, UndisturbedRuns

\* When the only run of a task ends, the task is no longer active.
LEMMA LastRun ==
  ASSUME SafeInv, NEW r \in UndisturbedRuns, Live(r), Ends(r)
  PROVE  Active(TaskOf(r)) /\ ~Active(TaskOf(r))'
<1>1. Active(TaskOf(r))
  BY DEF Active, LiveRuns, UndisturbedRuns
<1>2. ASSUME NEW q \in Runs, TaskOf(q) = TaskOf(r) PROVE ~Live(q)'
  <2>1. q \in UndisturbedRuns /\ run \in [Runs -> RunState]
    BY <1>2 DEF UndisturbedRuns, SafeInv, TypeOK, WorkerTypeOK
  <2>2. q # r => ~Live(q)
    BY <1>2, <2>1, LiveIsUnique
  <2>3. QED
    BY <2>1, <2>2 DEF Ends, Live, Over
<1>3. QED
  BY <1>1, <1>2 DEF Active, LiveRuns

\* A reclaim gives back or dead-letters tasks nothing executes.
LEMMA ReclaimMoves ==
  ASSUME SafeInv, NEW w \in Workers, ReclaimCommit(w), NEW t \in Undisturbed
  PROVE  Move(t)
<1> USE UndisturbedType
<1>1. run' = run /\ row \in [Tasks -> Row]
  BY DEF ReclaimCommit, SafeInv, TypeOK, TableTypeOK
<1>2. CASE lock[t] # w
  BY <1>1, <1>2, StaysFrame DEF ReclaimCommit
<1>3. CASE lock[t] = w
  <2>1. row[t].status = "running" /\ row[t].stale
    BY <1>3 DEF ReclaimCommit, SafeInv, LockInv, SelectedRowsUntouched, LockedBy
  <2>2. ~Active(t)'
    BY <1>1, <2>1, NotActive, ActiveFrame
  <2>3. row'[t] = Touch(apply_failure(row[t], "stalled"))
    BY <1>3 DEF ReclaimCommit
  <2>4. CASE Exhausted(row[t])
    <3>1. row[t].retry_count = MaxRetries
      BY <1>1, <2>4, RetriesAssumption DEF Exhausted, Row
    <3>2. row'[t].status = "dead" /\ KeepsCount(t)
      BY <1>1, <2>3, <2>4 DEF apply_failure, Touch, Row, KeepsCount
    <3>3. QED
      BY <2>1, <2>2, <3>1, <3>2 DEF Move, DeadLettered, Moved
  <2>5. CASE ~Exhausted(row[t])
    <3>1. /\ row'[t].status = "pending"
          /\ row'[t].retry_count = row[t].retry_count + 1
      BY <1>1, <2>3, <2>5 DEF apply_failure, Touch, Row
    <3>2. QED
      BY <2>1, <2>2, <3>1 DEF Move, GivenBack, Moved
  <2>6. QED
    BY <2>4, <2>5
<1>4. QED
  BY <1>2, <1>3

\* A claim takes tasks that are pending, whether or not its runs then start.
LEMMA ClaimMoves ==
  ASSUME SafeInv, NEW w \in Workers, FlipToRunning(w), pc[w] = "claiming",
         \A r \in Runs : lock[TaskOf(r)] # w => run'[r] = run[r],
         NEW t \in Undisturbed
  PROVE  Move(t)
<1> USE UndisturbedType
<1>1. CASE lock[t] # w
  BY <1>1, StaysFrame DEF FlipToRunning
<1>2. CASE lock[t] = w
  <2>1. row[t].status = "pending" /\ row[t] \in Row
    BY <1>2 DEF SafeInv, LockInv, SelectedRowsUntouched, LockedBy, TypeOK, TableTypeOK
  <2>2. row'[t] = Touch([row[t] EXCEPT !.status = "running"])
    BY <1>2 DEF FlipToRunning
  <2>3. QED
    BY <2>1, <2>2 DEF Touch, Row, Move, Taken, Moved, KeepsCount
<1>3. QED
  BY <1>1, <1>2

\* A run that records an outcome settles its own task, or gives it back.
LEMMA OutcomeMoves ==
  ASSUME SafeInv, NEW r \in Runs, WritesSuccess(r) \/ WritesFailure(r), Ends(r),
         NEW t \in Undisturbed
  PROVE  Move(t)
<1> USE UndisturbedType
<1>1. CASE TaskOf(r) # t
  <2>1. \A q \in Runs : TaskOf(q) = t => run'[q] = run[q]
    BY <1>1 DEF Ends, SafeInv, TypeOK, WorkerTypeOK
  <2>2. row'[t] = row[t]
    BY <1>1, WritesFrame
  <2>3. QED
    BY <2>1, <2>2, StaysFrame
<1>2. CASE TaskOf(r) = t
  <2>1. r \in UndisturbedRuns /\ Live(r)
    BY <1>2 DEF UndisturbedRuns, Live, WritesSuccess, WritesFailure, Writes
  <2>2. Active(t) /\ ~Active(t)'
    BY <1>2, <2>1, LastRun
  <2>3. row[t].status = "running"
    BY <1>2, <2>1, WrittenRow
  <2>4. \/ /\ row'[t].status = "succeeded"
           /\ row'[t].retry_count = row[t].retry_count
        \/ /\ row'[t].status = "dead"
           /\ row'[t].retry_count = row[t].retry_count
           /\ row[t].retry_count = MaxRetries
        \/ /\ row'[t].status = "pending"
           /\ row'[t].retry_count = row[t].retry_count + 1
    BY <1>2, <2>1, WrittenRow
  <2>5. QED
    BY <2>2, <2>3, <2>4
       DEF Move, Succeeded, DeadLettered, GivenBack, Moved, KeepsCount
<1>3. QED
  BY <1>1, <1>2

\* A request creates, takes, cancels or deletes one task.
LEMMA RequestMoves ==
  ASSUME SafeInv, Request, UNCHANGED workerVars, NEW t \in Undisturbed
  PROVE  Move(t)
<1> USE UndisturbedType
<1>1. run' = run /\ row \in [Tasks -> Row]
  BY DEF workerVars, SafeInv, TypeOK, TableTypeOK
<1>2. Active(t)' = Active(t)
  BY <1>1, ActiveFrame
<1>3. ASSUME row'[t] = row[t] PROVE Move(t)
  BY <1>1, <1>3, StaysFrame
<1>4. ASSUME NEW s \in Tasks, CreateTask(s) PROVE Move(t)
  <2>1. CASE s = t
    <3>1. row[t].status = "absent" /\ row[t].retry_count = 0
      BY <1>4, <2>1 DEF CreateTask, SafeInv, TaskOK
    <3>2. PICK isDue \in BOOLEAN : row'[t] = NewTask(isDue)
      BY <1>1, <1>4, <2>1 DEF CreateTask
    <3>3. row'[t].status = "pending" /\ row'[t].retry_count = 0
      BY <3>2 DEF NewTask, Blank
    <3>4. QED
      BY <1>2, <3>1, <3>3 DEF Move, Created, Moved, KeepsCount
  <2>2. CASE s # t
    BY <1>1, <1>3, <1>4, <2>2 DEF CreateTask
  <2>3. QED
    BY <2>1, <2>2
<1>5. ASSUME NEW s \in Tasks, NEW target \in TaskStatus, UpdateStatus(s, target)
      PROVE  Move(t)
  <2>1. CASE s = t
    <3>1. row[t].status = "pending" /\ target \in {"running", "dead"}
      BY <1>5, <2>1 DEF UpdateStatus, Exists, TaskStatus, Undisturbed, SafeInv,
                        TaskOK, can_transition, ALLOWED_TRANSITIONS
    <3>2. row'[t].status = target /\ KeepsCount(t)
      BY <1>1, <1>5, <2>1 DEF UpdateStatus, Touch, Row, KeepsCount
    <3>3. QED
      BY <1>2, <3>1, <3>2 DEF Move, Taken, Cancelled, Moved
  <2>2. CASE s # t
    BY <1>1, <1>3, <1>5, <2>2 DEF UpdateStatus
  <2>3. QED
    BY <2>1, <2>2
<1>6. ASSUME NEW s \in Tasks, DeleteTask(s) PROVE Move(t)
  <2>1. CASE s = t
    BY <1>1, <1>2, <1>6, <2>1 DEF DeleteTask, Move, Deleted
  <2>2. CASE s # t
    BY <1>1, <1>3, <1>6, <2>2 DEF DeleteTask
  <2>3. QED
    BY <2>1, <2>2
<1>7. QED
  BY <1>4, <1>5, <1>6 DEF Request

\* Every step moves every undisturbed task as a job may move, or not at all.
LEMMA TaskMoves ==
  ASSUME SafeInv, [Next]_vars, NEW t \in Undisturbed PROVE Move(t)
<1> USE UndisturbedType
<1>0. /\ row \in [Tasks -> Row]
      /\ run \in [Runs -> RunState]
  BY DEF SafeInv, TypeOK, TableTypeOK, WorkerTypeOK
<1>a. ASSUME row' = row, \A r \in Runs : run'[r] = run[r] \/ run'[r] = Over
      PROVE  Move(t)
  BY <1>a, StaysFrame
<1>1. ASSUME NEW w \in Workers,
             ReclaimSelect(w) \/ ClaimSelect(w) \/ TickEnds(w) \/ TickFails(w)
               \/ Restart(w) \/ Crash(w)
      PROVE  Move(t)
  BY <1>0, <1>a, <1>1
     DEF ReclaimSelect, ClaimSelect, TickEnds, TickFails, Restart, Crash
<1>2. ASSUME NEW w \in Workers, ReclaimCommit(w) PROVE Move(t)
  BY <1>2, ReclaimMoves
<1>3. ASSUME NEW w \in Workers, ClaimCommit(w) \/ ClaimLost(w) PROVE Move(t)
  <2>1. \A r \in Runs : lock[TaskOf(r)] # w => run'[r] = run[r]
    BY <1>3 DEF ClaimCommit, ClaimLost, Claimed
  <2>2. QED
    BY <1>3, <2>1, ClaimMoves DEF ClaimCommit, ClaimLost
<1>4. ASSUME NEW r \in Runs, ProcessStart(r) PROVE Move(t)
  <2>1. CASE Ends(r)
    BY <1>0, <1>a, <1>4, <2>1 DEF ProcessStart, Ends
  <2>2. CASE ~Ends(r)
    <3>1. Live(r) /\ Live(r)' /\ row' = row
      BY <1>0, <1>4, <2>2 DEF ProcessStart, Live
    <3>2. \A q \in Runs : q # r => run'[q] = run[q]
      BY <1>0, <1>4 DEF ProcessStart, Ends
    <3>3. LiveRuns(t)' = LiveRuns(t)
      BY <3>1, <3>2 DEF LiveRuns, Live
    <3>4. QED
      BY <3>1, <3>3 DEF Active, Move, Stays, Moved, KeepsCount
  <2>3. QED
    BY <2>1, <2>2
<1>5. ASSUME NEW r \in Runs, \/ RecordSuccess(r) \/ RecordFailure(r)
                             \/ StaleDataError(r) \/ DatabaseError(r)
      PROVE  Move(t)
  <2>1. Ends(r)
    BY <1>5 DEF RecordSuccess, RecordFailure, StaleDataError, DatabaseError, Raises
  <2>2. CASE row' = row
    BY <1>0, <1>a, <2>1, <2>2 DEF Ends
  <2>3. CASE WritesSuccess(r) \/ WritesFailure(r)
    BY <2>1, <2>3, OutcomeMoves
  <2>4. QED
    BY <1>5, <2>2, <2>3
       DEF RecordSuccess, RecordFailure, StaleDataError, DatabaseError
<1>6. ASSUME NEW s \in Tasks,
             GoStale(s) \/ (BecomeDue(s) /\ UNCHANGED workerVars)
      PROVE  Move(t)
  <2>1. run' = run
    BY <1>6 DEF GoStale, workerVars
  <2>2. Active(t)' = Active(t)
    BY <2>1, ActiveFrame
  <2>3. CASE s # t
    BY <1>0, <1>6, <2>1, <2>3, StaysFrame DEF GoStale, BecomeDue
  <2>4. CASE s = t
    <3>1. row[t].status \in {"pending", "running"}
      BY <1>6, <2>4 DEF GoStale, BecomeDue
    <3>2. row'[t].status = row[t].status /\ KeepsCount(t)
      BY <1>0, <1>6, <2>4 DEF GoStale, BecomeDue, KeepsCount, Row
    <3>3. QED
      BY <2>2, <3>1, <3>2 DEF Move, Stays, Moved
  <2>5. QED
    BY <2>3, <2>4
<1>7. CASE Request /\ UNCHANGED workerVars
  BY <1>7, RequestMoves
<1>8. CASE UNCHANGED vars
  BY <1>a, <1>8 DEF vars
<1>9. QED
  BY <1>1, <1>2, <1>3, <1>4, <1>5, <1>6, <1>7, <1>8
     DEF Next, WorkerNext, Tick, Process, Fault

\* `succeeded' and `dead' are final: a late run, a reaper or a PATCH never
\* touches such a row of an undisturbed task again.
THEOREM FinalStatusIsFinal == Spec => TerminalIsFinal
<1>1. ASSUME SafeInv, [Next]_vars, NEW t \in Undisturbed PROVE StaysFinal(t)
  BY <1>1, TaskMoves
     DEF StaysFinal, Move, Stays, Created, Taken, Succeeded, GivenBack,
         DeadLettered, Cancelled, Deleted, Moved, Blank
<1>2. SafeInv /\ [Next]_vars => [\A t \in Undisturbed : StaysFinal(t)]_vars
  BY <1>1
<1>3. QED
  BY <1>2, SafeInvariant, PTL DEF Spec, TerminalIsFinal

\* No step of any actor takes back a retry that was counted.
THEOREM RetriesAreNotForgotten == Spec => RetryCountNeverDrops
<1> DEFINE Kept(t) == Exists(t) /\ Exists(t)' =>
                        row'[t].retry_count >= row[t].retry_count
<1>1. ASSUME SafeInv, [Next]_vars, NEW t \in Undisturbed PROVE Kept(t)
  <2>1. row[t].retry_count \in Nat
    BY <1>1, UndisturbedType, RetriesAssumption
       DEF SafeInv, TypeOK, TableTypeOK, Row
  <2>2. QED
    BY <1>1, <2>1, TaskMoves
       DEF Exists, TaskStatus, Move, Stays, Created, Taken, Succeeded,
           GivenBack, DeadLettered, Cancelled, Deleted, Moved, KeepsCount, Blank
<1>2. SafeInv /\ [Next]_vars => [\A t \in Undisturbed : Kept(t)]_vars
  BY <1>1
<1>3. QED
  BY <1>2, SafeInvariant, PTL DEF Spec, RetryCountNeverDrops

------------------------------------------------------------------------------
(***************************************************************************)
(* The refinement of JobQueue.                                             *)
(***************************************************************************)
\* The jobs of the undisturbed tasks are jobs: none of them is `failed'.
LEMMA JobsType == ASSUME SafeInv PROVE Jobs \in [Undisturbed -> Queue!Job]
<1>1. ASSUME NEW t \in Undisturbed
      PROVE  [phase |-> Phase(t), retries |-> row[t].retry_count,
              active |-> LiveRuns(t) # {}] \in Queue!Job
  <2>1. row[t] \in Row /\ row[t].status # "failed"
    BY UndisturbedType DEF SafeInv, TypeOK, TableTypeOK, TaskOK
  <2>2. Phase(t) \in Queue!Phase
    BY <2>1 DEF Phase, Queue!Phase, Row, RowStatus, TaskStatus
  <2>3. row[t].retry_count \in 0 .. MaxRetries
    BY <2>1 DEF Row
  <2>4. QED
    BY <2>2, <2>3 DEF Queue!Job
<1>2. QED
  BY <1>1 DEF Jobs

\* The moves of a job, one field at a time.
LEMMA JobMovesByField ==
  ASSUME NEW j \in Queue!Job, NEW k \in Queue!Job
  PROVE  /\ j.phase = "absent" /\ k.phase = "waiting"
            /\ k.retries = j.retries /\ k.active = j.active => Queue!Submit(j, k)
         /\ j.phase = "waiting" /\ k.phase = "taken" /\ k.retries = j.retries
            => Queue!Take(j, k)
         /\ j.phase = "taken" /\ j.active /\ k.phase = "succeeded"
            /\ k.retries = j.retries /\ ~k.active => Queue!Succeed(j, k)
         /\ j.phase = "taken" /\ j.retries < MaxRetries /\ k.phase = "waiting"
            /\ k.retries = j.retries + 1 /\ ~k.active => Queue!GiveBack(j, k)
         /\ j.phase = "taken" /\ j.retries = MaxRetries /\ k.phase = "dead"
            /\ k.retries = j.retries /\ ~k.active => Queue!DeadLetter(j, k)
         /\ j.phase = "waiting" /\ k.phase = "dead"
            /\ k.retries = j.retries /\ k.active = j.active => Queue!Cancel(j, k)
         /\ j.phase \notin {"absent", "deleted"} /\ k.phase = "deleted"
            /\ k.retries = 0 /\ k.active = j.active => Queue!Delete(j, k)
         /\ j.active /\ ~k.active /\ k.phase = j.phase
            /\ k.retries = j.retries => Queue!Abandon(j, k)
         /\ k.phase = j.phase /\ k.retries = j.retries /\ k.active = j.active
            => k = j
<1>1. j.active \in BOOLEAN /\ k.active \in BOOLEAN
  BY DEF Queue!Job
<1>2. /\ j = [phase |-> j.phase, retries |-> j.retries, active |-> j.active]
      /\ k = [phase |-> k.phase, retries |-> k.retries, active |-> k.active]
  BY DEF Queue!Job
<1>3. QED
  BY <1>1, <1>2
     DEF Queue!Submit, Queue!Take, Queue!Succeed, Queue!GiveBack,
         Queue!DeadLetter, Queue!Cancel, Queue!Delete, Queue!Abandon

\* The fields of a job.
LEMMA JobFields ==
  ASSUME SafeInv, NEW t \in Undisturbed
  PROVE  /\ Jobs[t] \in Queue!Job
         /\ Jobs[t].phase = Phase(t)
         /\ Jobs[t].retries = row[t].retry_count
         /\ Jobs[t].active = Active(t)
BY JobsType DEF Jobs, Active

\* A move of a task is a move of its job.
LEMMA JobMoves ==
  ASSUME NEW t \in Undisturbed, NEW j \in Queue!Job, NEW k \in Queue!Job, Move(t),
         j.phase = Phase(t), j.retries = row[t].retry_count, j.active = Active(t),
         k.phase = Phase(t)', k.retries = row'[t].retry_count, k.active = Active(t)'
  PROVE  k = j \/ Queue!Moves(j, k)
<1> USE JobMovesByField
<1>1. j.retries \in 0 .. MaxRetries /\ k.retries \in 0 .. MaxRetries
  BY DEF Queue!Job
<1>2. CASE Stays(t)
  <2>1. k.phase = j.phase /\ k.retries = j.retries
    BY <1>2 DEF Stays, Moved, KeepsCount, Phase
  <2>2. k.active = j.active \/ (j.active /\ ~k.active)
    BY <1>2 DEF Stays, Queue!Job
  <2>3. QED
    BY <2>1, <2>2 DEF Queue!Moves
<1>3. CASE Created(t)
  <2>1. Queue!Submit(j, k)
    BY <1>3 DEF Created, Moved, KeepsCount, Phase
  <2>2. QED
    BY <2>1 DEF Queue!Moves
<1>4. CASE Taken(t)
  <2>1. Queue!Take(j, k)
    BY <1>4 DEF Taken, Moved, KeepsCount, Phase
  <2>2. QED
    BY <2>1 DEF Queue!Moves
<1>5. CASE Succeeded(t)
  <2>1. Queue!Succeed(j, k)
    BY <1>5 DEF Succeeded, Moved, KeepsCount, Phase
  <2>2. QED
    BY <2>1 DEF Queue!Moves
<1>6. CASE GivenBack(t)
  <2>1. j.retries < MaxRetries
    BY <1>1, <1>6, RetriesAssumption DEF GivenBack
  <2>2. Queue!GiveBack(j, k)
    BY <1>6, <2>1 DEF GivenBack, Moved, Phase
  <2>3. QED
    BY <2>2 DEF Queue!Moves
<1>7. CASE DeadLettered(t)
  <2>1. Queue!DeadLetter(j, k)
    BY <1>7 DEF DeadLettered, Moved, KeepsCount, Phase
  <2>2. QED
    BY <2>1 DEF Queue!Moves
<1>8. CASE Cancelled(t)
  <2>1. Queue!Cancel(j, k)
    BY <1>8 DEF Cancelled, Moved, KeepsCount, Phase
  <2>2. QED
    BY <2>1 DEF Queue!Moves
<1>9. CASE Deleted(t)
  <2>1. j.phase \notin {"absent", "deleted"}
    BY <1>9 DEF Deleted, Exists, TaskStatus, Phase
  <2>2. k.phase = "deleted" /\ k.retries = 0 /\ k.active = j.active
    BY <1>9 DEF Deleted, Blank, Phase
  <2>3. Queue!Delete(j, k)
    BY <2>1, <2>2
  <2>4. QED
    BY <2>3 DEF Queue!Moves
<1>10. QED
  BY <1>2, <1>3, <1>4, <1>5, <1>6, <1>7, <1>8, <1>9 DEF Move

\* On the undisturbed tasks, TaskPilot implements the at-least-once queue: no
\* crash, lost commit, reaper, second worker or racing request makes a job do
\* what the queue does not allow.
THEOREM CoreImplementsQueue == Spec => ImplementsJobQueue
<1>1. Init => Queue!Init
  <2> SUFFICES ASSUME Init PROVE Queue!Init
    OBVIOUS
  <2>1. ASSUME NEW t \in Undisturbed
        PROVE  /\ Phase(t) = "absent" /\ row[t].retry_count = 0
               /\ LiveRuns(t) = {}
    BY UndisturbedType
       DEF Init, TableInit, WorkerInit, Blank, Phase, LiveRuns, Live, Over
  <2>2. Jobs = [t \in Undisturbed |-> Queue!NoJob]
    BY <2>1 DEF Jobs, Queue!NoJob
  <2>3. QED
    BY <2>2 DEF Queue!Init
<1> DEFINE Typed == \A t \in Undisturbed : /\ Jobs[t] \in Queue!Job
                                            /\ Jobs[t].phase = Phase(t)
                                            /\ Jobs[t].retries = row[t].retry_count
                                            /\ Jobs[t].active = Active(t)
           Domain == Jobs \in [Undisturbed -> Queue!Job]
<1>2. SafeInv => Typed /\ Domain
  BY JobFields, JobsType
<1>3. SafeInv /\ Typed /\ Typed' /\ Domain' /\ [Next]_vars => [Queue!Next]_Jobs
  <2> SUFFICES ASSUME SafeInv, Typed, Typed', Domain', [Next]_vars PROVE Queue!Next
    OBVIOUS
  <2>1. ASSUME NEW t \in Undisturbed
        PROVE  Jobs'[t] = Jobs[t] \/ Queue!Moves(Jobs[t], Jobs'[t])
    BY TaskMoves, JobMoves
  <2>2. QED
    BY <2>1 DEF Queue!Next
<1>4. QED
  BY <1>1, <1>2, <1>3, SafeInvariant, PTL
     DEF Spec, ImplementsJobQueue, Queue!Spec
==============================================================================
