--------------------------- MODULE TickTimingProofs ---------------------------
(***************************************************************************)
(* How long a tick lasts, for any batch size, concurrency and timeouts,    *)
(* and that it is over before the reaper looks if the settings leave room  *)
(* for the skew of the clocks.                                             *)
(***************************************************************************)
EXTENDS TickTiming, TLAPS

(***************************************************************************)
(* Types and the bound alone are not inductive: that no run is left after  *)
(* the last wave needs that no task is left waiting for it.  The count     *)
(* behind that is Backlog.  Time elapsed = (M - 1) * ExecutionTimeout + a, *)
(* so the runs of age < a have started since (M - 1) * ExecutionTimeout;   *)
(* as long as tasks wait, all permits have been taken all the time and     *)
(* each was freed within ExecutionTimeout, so that the others are at least *)
(* M full sets of permits.                                                 *)
(***************************************************************************)
Backlog(M, a) == /\ elapsed + ExecutionTimeout = M * ExecutionTimeout + a
                 /\ waiting > 0 => waiting + upto[a - 1] + M * Permits <= WorkerBatchSize

\* The tasks that wait get a permit before the last wave begins, ...
WaitingIsEarly == waiting > 0 => elapsed <= (Waves - 1) * ExecutionTimeout

\* ... and the runs of age at most a have started by then.
LastWave == \A a \in Ages :
               elapsed > (Waves - 1) * ExecutionTimeout + a => upto[a] = 0

TickInv == /\ TypeOK
           /\ \E M \in Nat : \E a \in 1 .. ExecutionTimeout : Backlog(M, a)
           /\ LastWave

\* `max(1, settings.worker_concurrency)' is at least 1.
LEMMA PermitsType == Permits \in Nat \ {0}
<1>1. {1, WorkerConcurrency} \subseteq Nat
  BY TimingAssumption DEF TimingAssumption
<1>2. \E x \in {1, WorkerConcurrency} : \A y \in {1, WorkerConcurrency} : x >= y
  BY TimingAssumption DEF TimingAssumption
<1>3. Permits \in {1, WorkerConcurrency} /\ Permits >= 1
  BY <1>2 DEF Permits, Max
<1>4. QED
  BY <1>1, <1>3

\* Multiplication by the timeout respects order.
LEMMA TimesTimeout ==
  ASSUME NEW m \in Int, NEW n \in Int, m <= n
  PROVE  /\ m * ExecutionTimeout \in Int /\ n * ExecutionTimeout \in Int
         /\ m * ExecutionTimeout <= n * ExecutionTimeout
         /\ (m + 1) * ExecutionTimeout = m * ExecutionTimeout + ExecutionTimeout
BY TimingAssumption DEF TimingAssumption

\* Division with remainder.
LEMMA Division ==
  ASSUME NEW n \in Nat, NEW p \in Nat \ {0}
  PROVE  n \div p \in Nat /\ p * (n \div p) \in Nat /\ n < p * (n \div p) + p
<1> DEFINE q == n \div p
<1>1. q \in Int /\ n < p * q + p
  OBVIOUS
<1> HIDE DEF q
<1>2. q < 0 => p * q <= -p
  BY <1>1
<1>3. q \in Nat /\ p * q \in Nat
  BY <1>1, <1>2
<1>4. QED
  BY <1>1, <1>3 DEF q

\* Waves * Permits is the batch rounded up.
LEMMA WavesType ==
  /\ Waves \in Nat \ {0}
  /\ \A M \in Nat : M * Permits < WorkerBatchSize => M <= Waves - 1
<1>1. WorkerBatchSize \in Nat \ {0}
  BY TimingAssumption DEF TimingAssumption
<1> DEFINE P == Permits
           n == WorkerBatchSize + P - 1
<1>2. P \in Nat \ {0} /\ n \in Nat /\ n >= P
  BY <1>1, PermitsType
<1> HIDE DEF P
<1>3. n \div P \in Nat /\ P * (n \div P) \in Nat /\ n < P * (n \div P) + P
  BY <1>2, Division
<1>4. Waves = n \div P
  BY DEF Waves, P
<1> HIDE DEF n
<1>5. Waves \in Nat /\ n < P * Waves + P /\ P * Waves \in Nat
  BY <1>2, <1>3, <1>4
<1>6. Waves # 0
  <2>1. Waves = 0 => P * Waves = 0
    BY <1>2
  <2>2. QED
    BY <1>2, <1>5, <2>1
<1>7. ASSUME NEW M \in Nat, M * P < WorkerBatchSize, M >= Waves PROVE FALSE
  <2>1. P * Waves <= M * P
    BY <1>2, <1>5, <1>7
  <2>2. WorkerBatchSize + P - 1 < P * Waves + P
    BY <1>2, <1>5 DEF n
  <2>3. M * P \in Nat
    BY <1>2
  <2>4. QED
    BY <1>1, <1>2, <1>5, <1>7, <2>1, <2>2, <2>3
<1>8. ASSUME NEW M \in Nat, M * P < WorkerBatchSize PROVE M <= Waves - 1
  BY <1>5, <1>7, <1>8
<1>9. QED
  BY <1>5, <1>6, <1>8 DEF P

\* As long as tasks wait, elapsed has not reached the last wave.
LEMMA BacklogIsEarly ==
  ASSUME TypeOK, NEW M \in Nat, NEW a \in 1 .. ExecutionTimeout, Backlog(M, a),
         waiting > 0
  PROVE  elapsed <= (Waves - 1) * ExecutionTimeout
<1>1. M * Permits < WorkerBatchSize
  <2>1. /\ ExecutionTimeout \in Nat \ {0} /\ WorkerBatchSize \in Nat
        /\ a - 1 \in Ages
    BY TimingAssumption DEF TimingAssumption, Ages
  <2>2. upto[a - 1] \in Nat /\ waiting \in Nat
    BY <2>1, PermitsType DEF TypeOK
  <2>3. M * Permits \in Nat
    BY PermitsType
  <2>4. QED
    BY <2>1, <2>2, <2>3 DEF Backlog
<1>2. M <= Waves - 1 /\ Waves - 1 \in Int
  BY <1>1, WavesType
<1>3. M * ExecutionTimeout <= (Waves - 1) * ExecutionTimeout
  BY <1>2, TimesTimeout
<1>4. elapsed <= M * ExecutionTimeout
  BY TimesTimeout, TimingAssumption DEF Backlog, TypeOK, TimingAssumption
<1>5. QED
  BY <1>2, <1>3, <1>4, TimesTimeout DEF TypeOK

LEMMA WaitingIsEarlyLemma == ASSUME TickInv PROVE WaitingIsEarly
BY BacklogIsEarly DEF TickInv, WaitingIsEarly

\* What an age is, and what the counts of the ages are.
LEMMA CountType ==
  ASSUME TypeOK
  PROVE  /\ ExecutionTimeout \in Nat \ {0} /\ ExecutionTimeout \in Ages
         /\ ExecutionTimeout - 1 \in Ages /\ 0 \in Ages
         /\ Permits \in Nat \ {0} /\ WorkerBatchSize \in Nat
         /\ waiting \in Nat /\ elapsed \in Nat
         /\ \A a \in Ages : /\ a \in Nat
                            /\ upto[a] \in Nat /\ upto[a] <= Permits
                            /\ a > 0 => a - 1 \in Ages /\ upto[a - 1] <= upto[a]
<1>1. ExecutionTimeout \in Nat \ {0} /\ WorkerBatchSize \in Nat
  BY TimingAssumption DEF TimingAssumption
<1>2. QED
  BY <1>1, PermitsType DEF TypeOK, Ages, Younger

\* Nothing has executed for less than no time; what is of age a is not younger.
LEMMA AgeType ==
  ASSUME TypeOK, NEW a \in Ages
  PROVE  /\ Younger(a) \in Nat /\ Younger(a) <= upto[a]
         /\ SomeOfAge(a) => \A b \in Ages : /\ b < a => upto[b] < upto[a]
                                            /\ b >= a => upto[b] > 0
         /\ ~SomeOfAge(a) => Younger(a) = upto[a]
<1>1. CASE a = 0
  BY <1>1, CountType DEF Younger, SomeOfAge, TypeOK
<1>2. CASE a # 0
  <2>1. a - 1 \in Ages /\ Younger(a) = upto[a - 1] /\ a \in Nat
    BY <1>2, CountType DEF Younger
  <2>2. \A b \in Ages : b < a => upto[b] <= upto[a - 1]
    BY <2>1, CountType DEF TypeOK
  <2>3. QED
    BY <2>1, <2>2, CountType DEF SomeOfAge, TypeOK
<1>3. QED
  BY <1>1, <1>2

\* A task that starts is the youngest of all.
LEMMA StartStep == ASSUME TickInv, Start PROVE TickInv'
<1>0. TypeOK /\ LastWave
  BY DEF TickInv
<1> USE <1>0, CountType
<1>1. /\ waiting > 0 /\ waiting' = waiting - 1 /\ elapsed' = elapsed
      /\ upto' = [a \in Ages |-> upto[a] + 1]
      /\ upto[ExecutionTimeout] < Permits
  BY DEF Start, CanStart, Executing
<1>2. \A a \in Ages : upto[a] <= upto[ExecutionTimeout]
  BY DEF TypeOK, Ages
<1>3. TypeOK'
  <2>1. waiting' \in 0 .. WorkerBatchSize
    BY <1>1 DEF TypeOK
  <2>2. upto' \in [Ages -> 0 .. Permits]
    BY <1>1, <1>2
  <2>3. \A a, b \in Ages : a <= b => upto'[a] <= upto'[b]
    BY <1>1 DEF TypeOK
  <2>4. QED
    BY <1>1, <2>1, <2>2, <2>3 DEF TypeOK
<1>4. ASSUME NEW M \in Nat, NEW a \in 1 .. ExecutionTimeout, Backlog(M, a)
      PROVE  Backlog(M, a)'
  <2>1. a - 1 \in Ages
    BY DEF Ages
  <2>2. M * Permits \in Nat
    OBVIOUS
  <2>3. QED
    BY <1>1, <1>4, <2>1, <2>2 DEF Backlog
<1>5. LastWave'
  <2>1. elapsed <= (Waves - 1) * ExecutionTimeout
    BY <1>1, WaitingIsEarlyLemma DEF WaitingIsEarly
  <2>2. Waves - 1 \in Int /\ (Waves - 1) * ExecutionTimeout \in Int
    BY WavesType
  <2>3. QED
    BY <1>1, <2>1, <2>2 DEF LastWave
<1>6. QED
  BY <1>3, <1>4, <1>5 DEF TickInv

\* A run that ends leaves fewer runs of its age and of those above.
LEMMA EndStep == ASSUME TickInv, NEW a \in Ages, End(a) PROVE TickInv'
<1>0. TypeOK /\ LastWave
  BY DEF TickInv
<1> USE <1>0, CountType
<1>1. /\ SomeOfAge(a) /\ waiting' = waiting /\ elapsed' = elapsed
      /\ upto' = [b \in Ages |-> IF b < a THEN upto[b] ELSE upto[b] - 1]
  BY DEF End
<1>2. \A b \in Ages : upto'[b] \in 0 .. Permits /\ upto'[b] <= upto[b]
  BY <1>1, AgeType
<1>3. TypeOK'
  <2>1. \A b, c \in Ages : b <= c => upto'[b] <= upto'[c]
    <3>1. ASSUME NEW b \in Ages, NEW c \in Ages, b <= c PROVE upto'[b] <= upto'[c]
      <4>1. CASE b < a /\ a <= c
        <5>1. upto[b] < upto[a] /\ upto[a] <= upto[c]
          BY <1>1, <4>1, AgeType DEF TypeOK
        <5>2. QED
          BY <1>1, <4>1, <5>1
      <4>2. CASE ~(b < a /\ a <= c)
        BY <1>1, <3>1, <4>2 DEF TypeOK
      <4>3. QED
        BY <4>1, <4>2
    <3>2. QED
      BY <3>1
  <2>2. upto' \in [Ages -> 0 .. Permits]
    BY <1>1, <1>2
  <2>3. QED
    BY <1>1, <2>1, <2>2 DEF TypeOK
<1>4. ASSUME NEW M \in Nat, NEW d \in 1 .. ExecutionTimeout, Backlog(M, d)
      PROVE  Backlog(M, d)'
  <2>1. d - 1 \in Ages
    BY DEF Ages
  <2>2. M * Permits \in Nat
    OBVIOUS
  <2>3. QED
    BY <1>1, <1>2, <1>4, <2>1, <2>2 DEF Backlog
<1>5. LastWave'
  <2>1. Waves - 1 \in Int /\ (Waves - 1) * ExecutionTimeout \in Int
    BY WavesType
  <2>2. QED
    BY <1>1, <1>2, <2>1 DEF LastWave
<1>6. QED
  BY <1>3, <1>4, <1>5 DEF TickInv

\* While tasks wait, time passes only with all permits taken; a full timeout
\* later none of those runs is left, which makes one more set of permits.
LEMMA AdvanceStep == ASSUME TickInv, Advance PROVE TickInv'
<1>0. TypeOK /\ LastWave
  BY DEF TickInv
<1> USE <1>0, CountType
<1>1. /\ waiting' = waiting /\ elapsed' = elapsed + 1
      /\ upto' = [a \in Ages |-> Younger(a)]
      /\ ~CanStart /\ ~SomeOfAge(ExecutionTimeout)
  BY DEF Advance, TimersAllow
<1>2. /\ upto'[0] = 0
      /\ \A a \in Ages : a # 0 => upto'[a] = upto[a - 1]
  BY <1>1 DEF Younger
<1>3. TypeOK'
  <2>1. \A a \in Ages : upto'[a] \in 0 .. Permits
    BY <1>1, AgeType
  <2>2. \A a, b \in Ages : a <= b => upto'[a] <= upto'[b]
    BY <1>2, <2>1 DEF TypeOK
  <2>3. upto' \in [Ages -> 0 .. Permits]
    BY <1>1, <2>1
  <2>4. QED
    BY <1>1, <2>2, <2>3 DEF TypeOK
<1>4. ASSUME NEW M \in Nat, NEW a \in 1 .. ExecutionTimeout, Backlog(M, a)
      PROVE  \E N \in Nat : \E b \in 1 .. ExecutionTimeout : Backlog(N, b)'
  <2>0. M * Permits \in Nat /\ M * ExecutionTimeout \in Nat /\ a - 1 \in Ages
    BY DEF Ages
  <2>1. CASE a < ExecutionTimeout
    <3>1. a + 1 \in 1 .. ExecutionTimeout /\ a \in Ages /\ a # 0
      BY <2>1 DEF Ages
    <3>2. upto'[a] = upto[a - 1]
      BY <1>2, <3>1
    <3>3. Backlog(M, a + 1)'
      BY <1>1, <1>4, <2>0, <3>1, <3>2 DEF Backlog
    <3>4. QED
      BY <3>1, <3>3
  <2>2. CASE a = ExecutionTimeout
    <3>1. /\ (M + 1) * Permits = M * Permits + Permits
          /\ (M + 1) * ExecutionTimeout = M * ExecutionTimeout + ExecutionTimeout
      OBVIOUS
    <3>2. waiting > 0 => upto[ExecutionTimeout - 1] = Permits
      <4>1. waiting > 0 => upto[ExecutionTimeout] = Permits
        BY <1>1 DEF CanStart, Executing
      <4>2. Younger(ExecutionTimeout) = upto[ExecutionTimeout]
        BY <1>1, AgeType
      <4>3. QED
        BY <4>1, <4>2 DEF Younger
    <3>3. Backlog(M + 1, 1)'
      BY <1>1, <1>2, <1>4, <2>0, <2>2, <3>1, <3>2 DEF Backlog
    <3>4. M + 1 \in Nat /\ 1 \in 1 .. ExecutionTimeout
      OBVIOUS
    <3>5. QED
      BY <3>3, <3>4
  <2>3. QED
    BY <2>1, <2>2
<1>5. LastWave'
  <2>1. Waves - 1 \in Int /\ (Waves - 1) * ExecutionTimeout \in Int
    BY WavesType
  <2>2. QED
    BY <1>1, <1>2, <2>1 DEF LastWave
<1>6. QED
  BY <1>3, <1>4, <1>5 DEF TickInv

LEMMA TickInvariant == Spec => []TickInv
<1>1. Init => TickInv
  <2> SUFFICES ASSUME Init PROVE TickInv
    OBVIOUS
  <2>1. ExecutionTimeout \in Nat \ {0} /\ WorkerBatchSize \in Nat /\ Permits \in Nat
    BY PermitsType, TimingAssumption DEF TimingAssumption
  <2>2. TypeOK
    BY <2>1 DEF Init, TypeOK
  <2>3. Backlog(0, ExecutionTimeout)
    BY <2>1 DEF Init, Backlog, Ages
  <2>4. LastWave
    BY DEF Init, LastWave
  <2>5. QED
    BY <2>1, <2>2, <2>3, <2>4 DEF TickInv
<1>2. TickInv /\ [Next]_vars => TickInv'
  <2> SUFFICES ASSUME TickInv, [Next]_vars PROVE TickInv'
    OBVIOUS
  <2>1. CASE UNCHANGED vars
    BY <2>1 DEF vars, TickInv, TypeOK, Backlog, LastWave
  <2>2. QED
    BY <2>1, StartStep, EndStep, AdvanceStep DEF Next
<1>3. QED
  BY <1>1, <1>2, PTL DEF Spec

\* The counts of a tick's tasks are well typed: at most Permits run at a time.
THEOREM TimingTypes == Spec => []TypeOK
<1>1. TickInv => TypeOK
  BY DEF TickInv
<1>2. QED
  BY <1>1, TickInvariant, PTL

\* Time passes only while something is unfinished, and then not beyond the
\* last wave.
LEMMA AdvanceIsShort ==
  ASSUME TickInv, TickIsShort, [Next]_vars PROVE TickIsShort'
<1> USE CountType DEF TickInv
<1> DEFINE W == Waves - 1
<1>1. /\ W \in Int /\ W * ExecutionTimeout \in Int
      /\ Waves * ExecutionTimeout = W * ExecutionTimeout + ExecutionTimeout
  BY WavesType
<1> HIDE DEF W
<1>2. CASE Advance
  <2>1. elapsed < Waves * ExecutionTimeout
    <3>1. CASE waiting > 0
      BY <1>1, <3>1, WaitingIsEarlyLemma DEF WaitingIsEarly, W
    <3>2. CASE waiting = 0
      <4>1. upto[ExecutionTimeout] > 0
        BY <1>2, <3>2 DEF Advance, Unfinished, Executing
      <4>2. upto[ExecutionTimeout - 1] > 0
        BY <1>2, <4>1, AgeType DEF Advance, TimersAllow, Younger
      <4>3. ~(elapsed > W * ExecutionTimeout + (ExecutionTimeout - 1))
        BY <4>2 DEF LastWave, W
      <4>4. QED
        BY <1>1, <4>3
    <3>3. QED
      BY <3>1, <3>2
  <2>2. QED
    BY <1>1, <1>2, <2>1 DEF Advance, TickIsShort
<1>3. CASE elapsed' = elapsed
  BY <1>3 DEF TickIsShort
<1>4. QED
  BY <1>2, <1>3 DEF Next, Start, End, vars

\* A tick is over after one timeout per wave, in whatever order its runs end.
THEOREM TicksAreShort == Spec => []TickIsShort
<1>1. Init => TickIsShort
  <2>1. Waves * ExecutionTimeout \in Nat
    BY WavesType, TimingAssumption DEF TimingAssumption
  <2>2. QED
    BY <2>1 DEF Init, TickIsShort
<1>2. TickInv /\ TickIsShort /\ [Next]_vars => TickIsShort'
  BY AdvanceIsShort
<1>3. QED
  BY <1>1, <1>2, TickInvariant, PTL DEF Spec

\* Where the settings leave room for the skew, as the defaults do for three
\* minutes, no reaper takes a task of a live tick for lost.
THEOREM NotReapedAlive ==
  ASSUME Waves * ExecutionTimeout + ClockSkew <= RunningTaskTimeout
  PROVE  Spec => []OverBeforeReaped
<1>1. TickInv /\ TickIsShort => OverBeforeReaped
  <2> SUFFICES ASSUME TickInv, TickIsShort PROVE OverBeforeReaped
    OBVIOUS
  <2>1. /\ Waves * ExecutionTimeout \in Nat /\ elapsed \in Nat
        /\ ClockSkew \in Nat /\ RunningTaskTimeout \in Nat
    BY WavesType, TimingAssumption DEF TimingAssumption, TickInv, TypeOK
  <2>2. QED
    BY <2>1 DEF OverBeforeReaped, ApparentAge, TickIsShort
<1>2. QED
  BY <1>1, TickInvariant, TicksAreShort, PTL
==============================================================================
