---------------------------- MODULE RunLoopProofs ----------------------------
(***************************************************************************)
(* Theorems about the event loop of a worker process, for any number of    *)
(* jobs, any batch size and concurrency, and whether or not runs raise.    *)
(***************************************************************************)
EXTENDS RunLoop, FiniteSetTheorems, TLAPS

(***************************************************************************)
(* A tick that counts claimed a job, so there are no more ticks than       *)
(* claimed jobs.  Every claim belongs to a tick that has begun, so that a  *)
(* new tick starts with an empty semaphore.                                *)
(***************************************************************************)
LoopTypes ==
  /\ loop \in {"check", "tick", "awaiting", "sleeping", "returned", "exited"}
  /\ stop \in BOOLEAN
  /\ tick \in Nat
  /\ job \in [Jobs -> JobState]
  /\ tickOf \in [Jobs -> 0 .. tick]

\* A tick executes no more runs at a time than its semaphore has permits.
TickIsBounded == \A n \in 1 .. tick : Cardinality(Processing(n)) <= Permits

LoopInv == /\ LoopTypes
           /\ tick <= Cardinality(Claimed)
           /\ \A j \in Claimed : tickOf[j] >= 1
           /\ TickIsBounded
           /\ OnlyOrphansOutlive

\* The claimed jobs are finitely many, and so are those of each tick.
LEMMA FiniteJobs ==
  /\ IsFiniteSet(Claimed) /\ Cardinality(Claimed) \in Nat
  /\ Cardinality(Claimed) <= Cardinality(Jobs) /\ Cardinality(Jobs) \in Nat
  /\ \A n : IsFiniteSet(Processing(n)) /\ Cardinality(Processing(n)) \in Nat
<1>1. IsFiniteSet(Jobs)
  BY LoopAssumption DEF LoopAssumption
<1>2. Claimed \subseteq Jobs
  BY DEF Claimed
<1>3. \A n : Processing(n) \subseteq Jobs
  BY DEF Processing, Batch, Claimed
<1>4. QED
  BY <1>1, <1>2, <1>3, FS_Subset, FS_CardinalityType

LEMMA PermitsType == Permits \in Nat \ {0}
BY LoopAssumption DEF LoopAssumption, Permits

\* The steps of one run, of shutdown, and of the loop but for a claim, leave
\* every job with its tick.
LEMMA ClaimedKept ==
  ASSUME LoopTypes, [Next]_vars, ~BusyTick
  PROVE  /\ LoopTypes'
         /\ tick' = tick /\ tickOf' = tickOf
         /\ Claimed' = Claimed
<1> USE DEF LoopTypes, Claimed, JobState
<1>1. CASE LoopStep
  BY <1>1 DEF LoopStep, CheckStop, IdleTick, GatherReturns, Wake, Exit, Exits,
              Unfinished
<1>2. ASSUME NEW j \in Jobs, JobStep(j)
      PROVE  /\ LoopTypes'
             /\ tick' = tick /\ tickOf' = tickOf
             /\ Claimed' = Claimed
  <2>1. /\ job[j] \in {"waiting", "processing"}
        /\ \E s \in {"processing", "done", "raised"} : job' = [job EXCEPT ![j] = s]
        /\ tick' = tick /\ tickOf' = tickOf /\ stop' = stop
        /\ loop' \in {loop, "sleeping"}
    BY <1>2 DEF JobStep, Acquire, Finish, Raise
  <2>2. QED
    BY <2>1
<1>3. CASE SetStop \/ Kill
  BY <1>3 DEF SetStop, Kill, Exits, Unfinished
<1>4. CASE UNCHANGED vars
  BY <1>4 DEF vars
<1>5. QED
  BY <1>1, <1>2, <1>3, <1>4 DEF Next

\* A claim begins a tick and makes at least one more job claimed.
LEMMA BusyTickKeeps ==
  ASSUME LoopInv, BusyTick
  PROVE  /\ LoopTypes'
         /\ tick' <= Cardinality(Claimed')
         /\ tick' = tick + 1
         /\ \A j \in Claimed : job'[j] = job[j] /\ tickOf'[j] = tickOf[j]
         /\ \A j \in Jobs \ Claimed : \/ job'[j] = "unclaimed"
                                      \/ job'[j] = "waiting" /\ tickOf'[j] = tick'
<1> USE DEF LoopInv, LoopTypes
<1>1. PICK batch \in SUBSET (Jobs \ Claimed) :
           /\ Cardinality(batch) \in 1 .. WorkerBatchSize
           /\ job' = [j \in Jobs |-> IF j \in batch THEN "waiting" ELSE job[j]]
           /\ tickOf' = [j \in Jobs |-> IF j \in batch THEN tick + 1 ELSE tickOf[j]]
  BY DEF BusyTick
<1>2. tick' = tick + 1 /\ loop' = "awaiting" /\ stop' = stop
  BY DEF BusyTick
<1>3. LoopTypes'
  BY <1>1, <1>2 DEF JobState
<1>4. Claimed' = Claimed \cup batch
  BY <1>1 DEF Claimed
<1>5. Claimed # Claimed'
  <2>1. batch # {}
    BY <1>1, FS_EmptySet
  <2>2. QED
    BY <1>4, <2>1
<1>6. Cardinality(Claimed) < Cardinality(Claimed')
  <2>1. IsFiniteSet(Jobs) /\ Claimed' \subseteq Jobs
    BY <1>4, LoopAssumption DEF LoopAssumption, Claimed
  <2>2. IsFiniteSet(Claimed') /\ Cardinality(Claimed') \in Nat
    BY <2>1, FS_Subset, FS_CardinalityType
  <2>3. /\ Cardinality(Claimed) <= Cardinality(Claimed')
        /\ Cardinality(Claimed') = Cardinality(Claimed) => Claimed' = Claimed
    BY <1>4, <2>2, FS_Subset
  <2>4. QED
    BY <1>5, <2>2, <2>3, FiniteJobs
<1>7. tick' <= Cardinality(Claimed')
  <2>1. IsFiniteSet(Jobs) /\ Claimed' \subseteq Jobs
    BY <1>4, LoopAssumption DEF LoopAssumption, Claimed
  <2>2. Cardinality(Claimed') \in Nat
    BY <2>1, FS_Subset, FS_CardinalityType
  <2>3. QED
    BY <1>2, <1>6, <2>2, FiniteJobs
<1>8. QED
  BY <1>1, <1>2, <1>3, <1>7 DEF Claimed

\* A run gets a permit of its own tick's semaphore, and no other step gives a
\* tick more runs.
LEMMA BoundStep ==
  ASSUME LoopInv, [Next]_vars PROVE TickIsBounded'
<1> USE DEF LoopInv
<1>1. \A n \in 1 .. tick : Cardinality(Processing(n)) <= Permits
  BY DEF TickIsBounded
<1>2. ASSUME NEW n, n \in 1 .. tick, Processing(n)' \subseteq Processing(n)
      PROVE  Cardinality(Processing(n)') <= Permits
  <2>1. /\ Cardinality(Processing(n)') <= Cardinality(Processing(n))
        /\ Cardinality(Processing(n)') \in Nat
    BY <1>2, FiniteJobs, FS_Subset, FS_CardinalityType
  <2>2. QED
    BY <1>1, <1>2, <2>1, FiniteJobs, PermitsType
<1>3. CASE BusyTick
  <2>1. ASSUME NEW n \in 1 .. tick' PROVE Cardinality(Processing(n)') <= Permits
    <3>1. CASE n \in 1 .. tick
      <4>1. Processing(n)' \subseteq Processing(n)
        BY <1>3, BusyTickKeeps DEF Processing, Batch, Claimed
      <4>2. QED
        BY <1>2, <3>1, <4>1
    <3>2. CASE n = tick + 1
      <4>1. \A j \in Claimed : tickOf'[j] # n
        BY <1>3, <3>2, BusyTickKeeps DEF LoopTypes, Claimed
      <4>2. Processing(n)' = {}
        BY <1>3, <4>1, BusyTickKeeps DEF Processing, Batch, Claimed
      <4>3. QED
        BY <4>2, FS_EmptySet, PermitsType
    <3>3. QED
      BY <1>3, <3>1, <3>2, BusyTickKeeps DEF LoopTypes
  <2>2. QED
    BY <2>1 DEF TickIsBounded, Permits
<1>4. ASSUME NEW j \in Jobs, Acquire(j) PROVE TickIsBounded'
  <2>1. /\ tick' = tick /\ tickOf' = tickOf /\ job[j] = "waiting"
        /\ job' = [job EXCEPT ![j] = "processing"]
        /\ Cardinality(Processing(tickOf[j])) < Permits
    BY <1>4 DEF Acquire
  <2>2. ASSUME NEW n \in 1 .. tick PROVE Cardinality(Processing(n)') <= Permits
    <3>1. CASE n # tickOf[j]
      <4>1. Processing(n)' \subseteq Processing(n)
        BY <2>1, <3>1 DEF Processing, Batch, Claimed, LoopTypes
      <4>2. QED
        BY <1>2, <4>1
    <3>2. CASE n = tickOf[j]
      <4>1. Processing(n)' = Processing(n) \cup {j} /\ j \notin Processing(n)
        BY <2>1, <3>2 DEF Processing, Batch, Claimed, LoopTypes
      <4>2. Cardinality(Processing(n)') = Cardinality(Processing(n)) + 1
        BY <4>1, FiniteJobs, FS_AddElement
      <4>3. QED
        BY <2>1, <3>2, <4>2, FiniteJobs, PermitsType
    <3>3. QED
      BY <3>1, <3>2
  <2>3. QED
    BY <2>1, <2>2 DEF TickIsBounded, Permits
<1>5. ASSUME ~BusyTick, \A j \in Jobs : ~Acquire(j) PROVE TickIsBounded'
  <2>1. tick' = tick /\ tickOf' = tickOf /\ Claimed' = Claimed
    BY <1>5, ClaimedKept
  <2>2. \A j \in Jobs : job'[j] = "processing" => job[j] = "processing"
    BY <1>5 DEF LoopTypes, Next, LoopStep, CheckStop, IdleTick, GatherReturns, Wake,
                Exit, Exits, JobStep, Finish, Raise, SetStop, Kill, vars, Unfinished
  <2>3. ASSUME NEW n \in 1 .. tick PROVE Processing(n)' \subseteq Processing(n)
    BY <2>1, <2>2 DEF Processing, Batch, Claimed
  <2>4. QED
    BY <1>2, <2>1, <2>3 DEF TickIsBounded, Permits
<1>6. QED
  BY <1>3, <1>4, <1>5

\* An exception of a tick's run is never forgotten.
LEMMA RaisedStays ==
  ASSUME LoopInv, [Next]_vars, NEW n, Raised(n) PROVE Raised(n)'
<1> USE DEF LoopInv
<1>1. PICK i \in Batch(n) : job[i] = "raised"
  BY DEF Raised
<1>2. i \in Jobs /\ i \in Claimed /\ tickOf[i] = n
  BY <1>1 DEF Batch, Claimed
<1>3. CASE BusyTick
  BY <1>1, <1>2, <1>3, BusyTickKeeps DEF Raised, Batch, Claimed
<1>4. CASE ~BusyTick
  <2>1. job'[i] = "raised"
    BY <1>1, <1>2, <1>4
       DEF LoopTypes, Next, LoopStep, CheckStop, IdleTick, GatherReturns, Wake, Exit,
           Exits, JobStep, Acquire, Finish, Raise, SetStop, Kill, vars, Unfinished
  <2>2. QED
    BY <1>2, <1>4, <2>1, ClaimedKept DEF Raised, Batch
<1>5. QED
  BY <1>3, <1>4

\* A run that nothing awaits any more, or that shutdown has cut.
Orphan(j) == \/ /\ job[j] \in {"waiting", "processing"}
                /\ ~(loop = "awaiting" /\ tickOf[j] = tick)
             \/ job[j] = "cut"

LEMMA OrphanStep ==
  ASSUME LoopInv, [Next]_vars, NEW j \in Jobs, Orphan(j)'
  PROVE  Raised(tickOf[j])' /\ tickOf'[j] = tickOf[j]
<1> USE DEF LoopInv
<1>1. Orphan(j) => Raised(tickOf[j])
  BY DEF OnlyOrphansOutlive, Orphan
<1>2. CASE BusyTick
  <2>1. loop = "tick" /\ loop' = "awaiting"
    BY <1>2 DEF BusyTick
  <2>2. j \in Claimed
    BY <1>2, <2>1, BusyTickKeeps DEF Orphan
  <2>3. Orphan(j)
    BY <1>2, <2>1, <2>2, BusyTickKeeps DEF Orphan
  <2>4. QED
    BY <1>1, <1>2, <2>2, <2>3, RaisedStays, BusyTickKeeps
<1>3. CASE ~BusyTick
  <2>1. tick' = tick /\ tickOf' = tickOf /\ Claimed' = Claimed
    BY <1>3, ClaimedKept
  <2>2. CASE Orphan(j)
    BY <1>1, <2>1, <2>2, RaisedStays
  <2>3. CASE ~Orphan(j)
    <3>1. PICK i \in Jobs : Raise(i) /\ loop = "awaiting" /\ tickOf[i] = tick
                                     /\ tickOf[j] = tick
      <4>1. job'[j] # "cut"
        BY <1>3, <2>3 DEF Orphan, LoopTypes, Next, LoopStep, CheckStop, IdleTick,
           GatherReturns, Wake, Exit, Exits, JobStep, Acquire, Finish, Raise, SetStop,
           Kill, vars, Unfinished
      <4>2. /\ job[j] \in {"waiting", "processing"}
            /\ loop = "awaiting" /\ tickOf[j] = tick /\ loop' # "awaiting"
        BY <1>3, <2>1, <2>3, <4>1 DEF Orphan, LoopTypes, Next, LoopStep, CheckStop,
           IdleTick, GatherReturns, Wake, Exit, Exits, JobStep, Acquire, Finish, Raise,
           SetStop, Kill, vars, Unfinished
      <4>3. ~GatherReturns
        BY <4>2 DEF GatherReturns, Batch, Unfinished, Claimed
      <4>4. ~Kill
        <5>1. job'[j] \in {"waiting", "processing"}
          BY <4>1 DEF Orphan
        <5>2. QED
          BY <4>2, <5>1 DEF Kill, Exits, Unfinished
      <4>5. QED
        BY <1>3, <4>2, <4>3, <4>4 DEF Next, LoopStep, CheckStop, IdleTick, Wake, Exit,
           JobStep, Acquire, Finish, Raise, SetStop, vars
    <3>2. i \in Claimed /\ job'[i] = "raised"
      BY <3>1 DEF Raise, LoopTypes, Claimed
    <3>3. QED
      BY <2>1, <3>1, <3>2 DEF Raised, Batch
  <2>4. QED
    BY <2>2, <2>3
<1>4. QED
  BY <1>2, <1>3

LEMMA LoopInvariant == Spec => []LoopInv
<1>1. Init => LoopInv
  <2> SUFFICES ASSUME Init PROVE LoopInv
    OBVIOUS
  <2>1. LoopTypes
    <3>1. tickOf \in [Jobs -> 0 .. tick] /\ job \in [Jobs -> JobState]
      BY DEF Init, JobState
    <3>2. QED
      BY <3>1 DEF Init, LoopTypes
  <2>2. TickIsBounded
    BY DEF Init, TickIsBounded
  <2>3. OnlyOrphansOutlive
    BY DEF Init, OnlyOrphansOutlive
  <2>4. Claimed = {}
    BY DEF Init, Claimed
  <2>5. QED
    BY <2>1, <2>2, <2>3, <2>4, FiniteJobs DEF Init, LoopInv
<1>2. LoopInv /\ [Next]_vars => LoopInv'
  <2> SUFFICES ASSUME LoopInv, [Next]_vars PROVE LoopInv'
    OBVIOUS
  <2>1. LoopTypes' /\ tick' <= Cardinality(Claimed')
    BY BusyTickKeeps, ClaimedKept DEF LoopInv
  <2>2. OnlyOrphansOutlive'
    BY OrphanStep DEF OnlyOrphansOutlive, Orphan
  <2>3. ASSUME NEW j \in Claimed' PROVE tickOf'[j] >= 1
    <3>1. CASE BusyTick
      BY <3>1, BusyTickKeeps DEF LoopInv, LoopTypes, Claimed
    <3>2. CASE ~BusyTick
      BY <3>2, ClaimedKept DEF LoopInv
    <3>3. QED
      BY <3>1, <3>2
  <2>4. QED
    BY <2>1, <2>2, <2>3, BoundStep DEF LoopInv
<1>3. QED
  BY <1>1, <1>2, PTL DEF Spec

\* The loop's state is well typed: no more ticks count than there are jobs.
THEOREM LoopTypesHold == Spec => []TypeOK
<1>1. LoopInv => TypeOK
  BY FiniteJobs DEF LoopInv, LoopTypes, TypeOK
<1>2. QED
  BY <1>1, LoopInvariant, PTL

(***************************************************************************)
(* The cap of the process.  What executes belongs to the current tick or   *)
(* to one with a run that raised, and each of these ticks can seat its     *)
(* runs on its permits: so all of them have a seat of their own among the  *)
(* pairs of such a tick and a permit.                                      *)
(***************************************************************************)
LEMMA Seating ==
  ASSUME LoopInv, NEW n \in 1 .. tick
  PROVE  \E f : f \in Injection(Processing(n), 1 .. Permits)
<1> DEFINE c == Cardinality(Processing(n))
<1>1. IsFiniteSet(Processing(n)) /\ c \in Nat /\ c <= Permits
  BY FiniteJobs DEF LoopInv, TickIsBounded
<1>2. IsFiniteSet(1 .. c) /\ Cardinality(1 .. c) = c
  BY <1>1, FS_Interval
<1>3. PICK f : f \in Bijection(Processing(n), 1 .. c)
  BY <1>1, <1>2, FS_SameCardinalityBij DEF ExistsBijection
<1>4. f \in Injection(Processing(n), 1 .. c)
  BY <1>3 DEF Bijection
<1>5. 1 .. c \subseteq 1 .. Permits
  BY <1>1, PermitsType
<1>6. QED
  BY <1>4, <1>5 DEF Injection, IsInjective

LEMMA CapHolds ==
  ASSUME LoopInv PROVE CapUnlessRaised
<1> DEFINE running == {j \in Jobs : job[j] = "processing"}
           ticks == {tick} \cup {n \in 1 .. tick : Raised(n)}
           seat == [n \in 1 .. tick |-> CHOOSE f : f \in Injection(Processing(n), 1 .. Permits)]
           place == [j \in running |-> <<tickOf[j], seat[tickOf[j]][j]>>]
<1>1. \A j \in running : tickOf[j] \in 1 .. tick /\ tickOf[j] \in ticks
  BY DEF LoopInv, LoopTypes, OnlyOrphansOutlive, Claimed
<1>2. \A n \in 1 .. tick : seat[n] \in Injection(Processing(n), 1 .. Permits)
  BY Seating
<1> HIDE DEF seat, ticks
<1>3. \A j \in running : j \in Processing(tickOf[j])
  BY DEF Processing, Batch, Claimed
<1>4. \A j \in running : seat[tickOf[j]][j] \in 1 .. Permits
  BY <1>1, <1>2, <1>3 DEF Injection
<1>5. \A i, j \in running :
        tickOf[i] = tickOf[j] /\ seat[tickOf[i]][i] = seat[tickOf[j]][j] => i = j
  BY <1>1, <1>2, <1>3 DEF Injection, IsInjective
<1>6. place \in Injection(running, ticks \X (1 .. Permits))
  BY <1>1, <1>4, <1>5 DEF Injection, IsInjective
<1>7. /\ IsFiniteSet(1 .. Permits) /\ Cardinality(1 .. Permits) = Permits
      /\ IsFiniteSet(ticks) /\ Cardinality(ticks) \in Nat
  <2>1. IsFiniteSet(1 .. tick) /\ {n \in 1 .. tick : Raised(n)} \subseteq 1 .. tick
    BY FS_Interval DEF LoopInv, LoopTypes
  <2>2. IsFiniteSet({n \in 1 .. tick : Raised(n)})
    BY <2>1, FS_Subset
  <2>3. IsFiniteSet(ticks)
    BY <2>2, FS_Singleton, FS_Union DEF ticks
  <2>4. IsFiniteSet(1 .. Permits) /\ Cardinality(1 .. Permits) = Permits
    BY PermitsType, FS_Interval
  <2>5. Cardinality(ticks) \in Nat
    BY <2>3, FS_CardinalityType
  <2>6. QED
    BY <2>3, <2>4, <2>5
<1>8. /\ IsFiniteSet(ticks \X (1 .. Permits))
      /\ Cardinality(ticks \X (1 .. Permits)) = Cardinality(ticks) * Permits
  BY <1>7, FS_Product
<1>9. Cardinality(running) <= Cardinality(ticks) * Permits
  BY <1>6, <1>8, FS_Injection
<1>10. Cardinality(ticks) * Permits = Permits * Cardinality(ticks)
  BY <1>7, PermitsType
<1>11. QED
  BY <1>9, <1>10 DEF CapUnlessRaised, ticks

\* The process executes more tasks at a time than one semaphore has permits
\* only beside ticks with a run that raised, by one semaphore for each.
THEOREM CapIsOnlyRaisedByRaising == Spec => []CapUnlessRaised
<1>1. QED
  BY CapHolds, LoopInvariant, PTL

\* Only an exception makes a run outlive its tick, and shutdown cuts only such
\* runs.
THEOREM OrphansAreExplained == Spec => []OnlyOrphansOutlive
<1>1. LoopInv => OnlyOrphansOutlive
  BY DEF LoopInv
<1>2. QED
  BY <1>1, LoopInvariant, PTL
==============================================================================
