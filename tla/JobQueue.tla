------------------------------- MODULE JobQueue -------------------------------
(***************************************************************************)
(* What TaskPilot promises about its jobs, with no rows, locks or workers: *)
(* each job waits, is taken, and is settled by exactly the execution that  *)
(* was going on, or is given back and taken again at most MaxRetries       *)
(* times.  One commit of a worker moves a batch of jobs at once.           *)
(***************************************************************************)
EXTENDS Integers

CONSTANTS Tasks, MaxRetries

VARIABLE job      \* job[t]: the state of job t

Phase == {"absent", "waiting", "taken", "succeeded", "dead", "deleted"}

Job == [phase   : Phase,
        retries : 0 .. MaxRetries,     \* times the job was given back
        active  : BOOLEAN]             \* is an execution going on?

NoJob == [phase |-> "absent", retries |-> 0, active |-> FALSE]

Init == job = [t \in Tasks |-> NoJob]

\* The moves of one job, from its state j to its next state k.

Submit(j, k) == /\ j.phase = "absent"
                /\ k = [j EXCEPT !.phase = "waiting"]

\* A client may mark a job taken without executing it; so may a worker that
\* fails as it takes it.
Take(j, k) == /\ j.phase = "waiting"
              /\ \E active \in BOOLEAN :
                    k = [j EXCEPT !.phase = "taken", !.active = active]

\* Only the execution of the job reports its success.
Succeed(j, k) == /\ j.phase = "taken"
                 /\ j.active
                 /\ k = [j EXCEPT !.phase = "succeeded", !.active = FALSE]

\* Failed, or reclaimed when nothing executes it any longer.
GiveBack(j, k) == /\ j.phase = "taken"
                  /\ j.retries < MaxRetries
                  /\ k = [phase |-> "waiting", retries |-> j.retries + 1,
                          active |-> FALSE]

DeadLetter(j, k) == /\ j.phase = "taken"
                    /\ j.retries = MaxRetries
                    /\ k = [j EXCEPT !.phase = "dead", !.active = FALSE]

\* A client dead-letters a job that waits.
Cancel(j, k) == /\ j.phase = "waiting"
                /\ k = [j EXCEPT !.phase = "dead"]

\* The job goes at once, an execution of it only when it next reports.
Delete(j, k) == /\ j.phase \notin {"absent", "deleted"}
                /\ k = [j EXCEPT !.phase = "deleted", !.retries = 0]

\* The execution is lost, or finds that its job is gone.
Abandon(j, k) == /\ j.active
                 /\ k = [j EXCEPT !.active = FALSE]

Moves(j, k) == \/ Submit(j, k) \/ Take(j, k)
               \/ Succeed(j, k) \/ GiveBack(j, k) \/ DeadLetter(j, k)
               \/ Cancel(j, k) \/ Delete(j, k) \/ Abandon(j, k)

Next == /\ job' \in [Tasks -> Job]
        /\ \A t \in Tasks : job'[t] = job[t] \/ Moves(job[t], job'[t])

Spec == Init /\ [][Next]_job
==============================================================================
