------------------------------ MODULE TickTiming ------------------------------
(***************************************************************************)
(* How long one tick of run_once (app/worker/processing.py) keeps its      *)
(* claims running: a claimed task waits for a permit of the tick's         *)
(* semaphore and is then executed for at most execution_timeout_seconds.   *)
(* The reaper takes whatever is running longer than                        *)
(* running_task_timeout_seconds for lost: it compares its own clock with   *)
(* the database's, which wrote updated_at at the claim.                    *)
(*                                                                         *)
(* Time is counted in a unit that divides all the timeouts.  Runs of one   *)
(* age are alike, so they are counted, each age with the younger ones:     *)
(* then no sum is needed to say how many there are.  Statements take no    *)
(* time.                                                                   *)
(***************************************************************************)
EXTENDS Integers, FiniteSetsExt

CONSTANTS WorkerBatchSize, WorkerConcurrency, ExecutionTimeout,
          RunningTaskTimeout,
          ClockSkew       \* how far a worker's clock is ahead of the database's

ASSUME TimingAssumption ==
  /\ WorkerBatchSize \in Nat \ {0} /\ WorkerConcurrency \in Nat
  /\ ExecutionTimeout \in Nat \ {0}
  /\ RunningTaskTimeout \in Nat /\ ClockSkew \in Nat

VARIABLES waiting,        \* claimed tasks without a permit
          upto,           \* upto[a]: runs that have executed for at most a
          elapsed         \* time since the claim

vars == <<waiting, upto, elapsed>>

Ages == 0 .. ExecutionTimeout

Executing == upto[ExecutionTimeout]

\* upto[a - 1]: there is none younger than 0.
Younger(a) == IF a = 0 THEN 0 ELSE upto[a - 1]

\* Is there a run that has executed for exactly a?
SomeOfAge(a) == upto[a] > Younger(a)

Unfinished == waiting + Executing

\* Mutant: the batch is processed one task after the other.
Permits_Single == 1

Permits == Max({1, WorkerConcurrency})

\* A batch runs in waves of Permits runs.
Waves == (WorkerBatchSize + Permits - 1) \div Permits

TypeOK ==
  /\ waiting \in 0 .. WorkerBatchSize
  /\ upto \in [Ages -> 0 .. Permits]
  /\ \A a, b \in Ages : a <= b => upto[a] <= upto[b]
  /\ elapsed \in Nat

\* claim_due_tasks has committed.
Init == /\ waiting \in 1 .. WorkerBatchSize
        /\ upto = [a \in Ages |-> 0]
        /\ elapsed = 0

\* Mutant: one permit too many.
CanStart_Late == waiting > 0 /\ Executing <= Permits

\* `async with semaphore': a permit is free.
CanStart == waiting > 0 /\ Executing < Permits

Start == /\ CanStart
         /\ waiting' = waiting - 1
         /\ upto' = [a \in Ages |-> upto[a] + 1]
         /\ UNCHANGED elapsed

\* A run of age a returns, raises or times out, and frees its permit.
End(a) == /\ SomeOfAge(a)
          /\ upto' = [b \in Ages |-> IF b < a THEN upto[b] ELSE upto[b] - 1]
          /\ UNCHANGED <<waiting, elapsed>>

\* Mutant: the timeout of a run is served late.
TimersAllow_Late == ~CanStart

\* No time passes while a permit can be taken or a timeout is due.
TimersAllow == ~CanStart /\ ~SomeOfAge(ExecutionTimeout)

Advance == /\ Unfinished > 0
           /\ TimersAllow
           /\ upto' = [a \in Ages |-> Younger(a)]
           /\ elapsed' = elapsed + 1
           /\ UNCHANGED waiting

Next == Start \/ (\E a \in Ages : End(a)) \/ Advance

Spec == Init /\ [][Next]_vars

------------------------------------------------------------------------------
\* A tick lasts at most ExecutionTimeout for each wave, whatever order the
\* runs end in (processing.py:170-177).
TickIsShort == elapsed <= Waves * ExecutionTimeout

\* What a worker's clock says about the age of a claim.
ApparentAge == elapsed + ClockSkew

\* A task that some worker's reaper takes for lost is not still waiting for a
\* permit or executing in a live tick, although that worker's clock is ahead
\* (processing.py:76-79, config.py:51-58: the four defaults together).
OverBeforeReaped == Unfinished > 0 => ApparentAge <= RunningTaskTimeout
==============================================================================
