------------------------------- MODULE RunLoop -------------------------------
(***************************************************************************)
(* The event loop of one worker process: run_loop's ticks                  *)
(* (app/worker/runner.py), the gather and the semaphore of each tick       *)
(* (run_once in app/worker/processing.py), and shutdown, by signal         *)
(* (app/worker/worker.py) or by the lifespan of the API that hosts the     *)
(* loop (app/main.py).                                                     *)
(*                                                                         *)
(* A job is one claim of a task; what it does to the table is the module   *)
(* Worker's business.                                                      *)
(***************************************************************************)
EXTENDS Integers, FiniteSets

CONSTANTS Jobs,               \* the claims this process will make
          WorkerBatchSize,    \* settings.worker_batch_size
          WorkerConcurrency,  \* settings.worker_concurrency
          MayRaise            \* may process_claimed_task raise?

ASSUME LoopAssumption ==
  /\ IsFiniteSet(Jobs)
  /\ WorkerBatchSize \in Nat \ {0}
  /\ WorkerConcurrency \in Int
  /\ MayRaise \in BOOLEAN

VARIABLES loop,               \* where run_loop is
          stop,               \* the asyncio.Event
          tick,               \* ticks that claimed something
          job,                \* job[j]: the state of the _run of j
          tickOf              \* tickOf[j]: the tick that claimed j

vars == <<loop, stop, tick, job, tickOf>>

JobState == {"unclaimed", "waiting", "processing", "done", "raised",
             "cut", "killed"}

TypeOK ==
  /\ loop \in {"check", "tick", "awaiting", "sleeping", "returned", "exited"}
  /\ stop \in BOOLEAN
  /\ tick \in 0 .. Cardinality(Jobs)
  /\ job \in [Jobs -> JobState]
  /\ tickOf \in [Jobs -> 0 .. tick]

Init ==
  /\ loop = "check"
  /\ stop = FALSE
  /\ tick = 0
  /\ job = [j \in Jobs |-> "unclaimed"]
  /\ tickOf = [j \in Jobs |-> 0]

Claimed == {j \in Jobs : job[j] # "unclaimed"}

Unfinished == {j \in Jobs : job[j] \in {"waiting", "processing"}}

Batch(n) == {j \in Claimed : tickOf[j] = n}

Processing(n) == {j \in Batch(n) : job[j] = "processing"}

Raised(n) == \E i \in Batch(n) : job[i] = "raised"

------------------------------------------------------------------------------
\* Mutant: while True.
CheckStop_Never ==
  /\ loop = "check"
  /\ loop' = "tick"
  /\ UNCHANGED <<stop, tick, job, tickOf>>

\* while not stop.is_set()
CheckStop ==
  /\ loop = "check"
  /\ loop' = IF stop THEN "returned" ELSE "tick"
  /\ UNCHANGED <<stop, tick, job, tickOf>>

\* Mutant: counts ticks that claimed nothing.
IdleTick_Counts ==
  /\ loop = "tick"
  /\ loop' = "sleeping"
  /\ tick' = tick + 1
  /\ UNCHANGED <<stop, job, tickOf>>

\* run_once claims nothing, or raises before it starts a run.
IdleTick ==
  /\ loop = "tick"
  /\ loop' = "sleeping"
  /\ UNCHANGED <<stop, tick, job, tickOf>>

\* Mutant: create_task for each run, and nothing awaits them.
BusyTick_NotAwaited ==
  /\ loop = "tick"
  /\ \E batch \in SUBSET (Jobs \ Claimed) :
        /\ Cardinality(batch) \in 1 .. WorkerBatchSize
        /\ job' = [j \in Jobs |-> IF j \in batch THEN "waiting" ELSE job[j]]
        /\ tickOf' = [j \in Jobs |-> IF j \in batch THEN tick + 1 ELSE tickOf[j]]
  /\ tick' = tick + 1
  /\ loop' = "sleeping"
  /\ UNCHANGED stop

\* run_once claims a batch and gathers one _run per task.
BusyTick ==
  /\ loop = "tick"
  /\ \E batch \in SUBSET (Jobs \ Claimed) :
        /\ Cardinality(batch) \in 1 .. WorkerBatchSize
        /\ job' = [j \in Jobs |-> IF j \in batch THEN "waiting" ELSE job[j]]
        /\ tickOf' = [j \in Jobs |-> IF j \in batch THEN tick + 1 ELSE tickOf[j]]
  /\ tick' = tick + 1
  /\ loop' = "awaiting"
  /\ UNCHANGED stop

\* Mutant: Semaphore(worker_concurrency).
Permits_AsConfigured == WorkerConcurrency

\* Semaphore(max(1, worker_concurrency)), a new one in every tick.
Permits == IF WorkerConcurrency < 1 THEN 1 ELSE WorkerConcurrency

Acquire(j) ==
  /\ job[j] = "waiting"
  /\ Cardinality(Processing(tickOf[j])) < Permits
  /\ job' = [job EXCEPT ![j] = "processing"]
  /\ UNCHANGED <<loop, stop, tick, tickOf>>

Finish(j) ==
  /\ job[j] = "processing"
  /\ job' = [job EXCEPT ![j] = "done"]
  /\ UNCHANGED <<loop, stop, tick, tickOf>>

\* The first exception of a tick leaves gather at once: run_loop logs it and
\* goes on, while the other runs of the batch go on without it.
Raise(j) ==
  /\ MayRaise
  /\ job[j] = "processing"
  /\ job' = [job EXCEPT ![j] = "raised"]
  /\ loop' = IF loop = "awaiting" /\ tickOf[j] = tick THEN "sleeping" ELSE loop
  /\ UNCHANGED <<stop, tick, tickOf>>

\* Mutant: waits for the first run only.
GatherReturns_First ==
  /\ loop = "awaiting"
  /\ Batch(tick) \ Unfinished # {}
  /\ loop' = "sleeping"
  /\ UNCHANGED <<stop, tick, job, tickOf>>

GatherReturns ==
  /\ loop = "awaiting"
  /\ Batch(tick) \cap Unfinished = {}
  /\ loop' = "sleeping"
  /\ UNCHANGED <<stop, tick, job, tickOf>>

\* The rest of the interval passes, or stop wakes the loop.
Wake ==
  /\ loop = "sleeping"
  /\ loop' = "check"
  /\ UNCHANGED <<stop, tick, job, tickOf>>

------------------------------------------------------------------------------
\* SIGTERM, SIGINT, or the end of the API's lifespan.
SetStop ==
  /\ ~stop
  /\ stop' = TRUE
  /\ UNCHANGED <<loop, tick, job, tickOf>>

\* The process ends, and with it every run that is still going on.
Exits(fate) ==
  /\ loop' = "exited"
  /\ job' = [j \in Jobs |-> IF j \in Unfinished THEN fate ELSE job[j]]
  /\ UNCHANGED <<stop, tick, tickOf>>

Exit == loop = "returned" /\ Exits("cut")

\* SIGKILL when stop_grace_period is over.
Kill == stop /\ loop # "exited" /\ Exits("killed")

------------------------------------------------------------------------------
LoopStep == CheckStop \/ IdleTick \/ BusyTick \/ GatherReturns \/ Wake \/ Exit

JobStep(j) == Acquire(j) \/ Finish(j) \/ Raise(j)

Next == \/ LoopStep
        \/ loop # "exited" /\ \E j \in Jobs : JobStep(j)
        \/ loop # "exited" /\ SetStop
        \/ Kill

Spec == Init /\ [][Next]_vars

\* The event loop schedules the loop and every run; a run ends, as its
\* execution has a timeout.  Nobody has to stop the process.
FairSpec == /\ Spec
            /\ WF_vars(LoopStep)
            /\ \A j \in Jobs : WF_vars(loop # "exited" /\ JobStep(j))

------------------------------------------------------------------------------
\* The semaphore is the tick's, the cap is the process's: the process executes
\* more than worker_concurrency tasks at a time only if ticks had a run that
\* raised, and each such tick adds no more than one semaphore, however many of
\* its runs still wait for theirs (processing.py:170-184).
CapUnlessRaised ==
  Cardinality({j \in Jobs : job[j] = "processing"})
    <= Permits * Cardinality({tick} \cup {n \in 1 .. tick : Raised(n)})

\* A run outlives its tick only if a sibling raised; short of a SIGKILL, those
\* are the only runs that shutdown can cut.
OnlyOrphansOutlive ==
  \A j \in Jobs :
     \/ job[j] \in {"waiting", "processing"} /\ ~(loop = "awaiting" /\ tickOf[j] = tick)
     \/ job[j] = "cut"
     => Raised(tickOf[j])

\* Shutdown ends: whatever was going on, a stopped loop returns.
StopIsHonoured == stop ~> loop = "exited"

\* Every claimed task is executed, cut or killed: no run waits for a permit for ever.
EveryRunEnds ==
  \A j \in Jobs : job[j] = "waiting" ~> job[j] \in {"done", "raised", "cut", "killed"}

------------------------------------------------------------------------------
\* What the repository says (runner.py:6, README.md:356) and the loop does not
\* do.  The loop returns only when the runs it started are over: the in-flight
\* tick always finishes first.
GracefulShutdown == loop = "returned" => Unfinished = {}
==============================================================================
