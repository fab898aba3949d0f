------------------------ MODULE IdempotentCreateProofs ------------------------
(***************************************************************************)
(* create_task implements an atomic get-or-create, for any clients, keys   *)
(* and number of resent requests.                                          *)
(***************************************************************************)
EXTENDS IdempotentCreate, FiniteSetTheorems, TLAPS

Types ==
  /\ table \subseteq Requests
  /\ deleted \subseteq Requests
  /\ pc \in [Requests -> ActivePlaces \cup {"unsent", "answered"}]
  /\ reply \in [Requests -> Requests \cup {None, Failed}]

(***************************************************************************)
(* Where a request is says whether its row was committed and whether it    *)
(* has an answer.  With OneTaskPerKey this is inductive: the commit of a   *)
(* row finds no other row with its key, because its transaction has held   *)
(* the key in the index since its INSERT.                                  *)
(***************************************************************************)
Progress(r) ==
  /\ r \in Created => pc[r] \in {"refresh", "answered"}
  /\ pc[r] = "refresh" => r \in Created
  /\ reply[r] = None <=> pc[r] # "answered"

CreateInv == Types /\ OneTaskPerKey /\ \A r \in Requests : Progress(r)

\* A step of one request, and what the other requests keep.
LEMMA OneMoves ==
  ASSUME Types, NEW r \in Requests, Send(r) \/ Step(r) \/ DatabaseError(r)
  PROVE  /\ Types'
         /\ deleted' = deleted
         /\ table' = table \/ (pc[r] = "commit" /\ table' = table \cup {r})
         /\ \A q \in Requests \ {r} : pc'[q] = pc[q] /\ reply'[q] = reply[q]
BY DEF Types, Send, Step, Lookup, Insert, Commit, Relookup, Refresh, DatabaseError,
       Goto, Answer, FindByKey, ActivePlaces

LEMMA ProgressStep ==
  ASSUME CreateInv, NEW r \in Requests, Send(r) \/ Step(r) \/ DatabaseError(r)
  PROVE  \A q \in Requests : Progress(q)'
<1> USE DEF CreateInv, Types
<1>1. ASSUME NEW q \in Requests, q # r PROVE Progress(q)'
  BY <1>1, OneMoves DEF Progress, Created
<1>2. Progress(r)'
  <2>1. CASE Send(r) \/ Insert(r) \/ Commit(r)
    BY <2>1, CreateAssumption
       DEF Send, Insert, Commit, Goto, Progress, Created, CreateAssumption
  <2>2. CASE Lookup(r) \/ Relookup(r) \/ Refresh(r)
    BY <2>2, CreateAssumption
       DEF Lookup, Relookup, Refresh, FindByKey, Goto, Answer, Progress, Created,
           CreateAssumption
  <2>3. CASE DatabaseError(r)
    BY <2>3, CreateAssumption
       DEF DatabaseError, Answer, Progress, Created, CreateAssumption
  <2>4. QED
    BY <2>1, <2>2, <2>3 DEF Step
<1>3. QED
  BY <1>1, <1>2

\* Only an INSERT adds a task or a transaction to a key, and it waits for the
\* key to have neither.
LEMMA KeyStep ==
  ASSUME CreateInv, NEW r \in Requests, Send(r) \/ Step(r) \/ DatabaseError(r)
  PROVE  OneTaskPerKey'
<1> USE DEF CreateInv, Types
<1> DEFINE Holds(q) == q \in table \/ pc[q] = "commit"
<1>1. \A q \in Requests \ {r} : Holds(q)' => Holds(q)
  BY OneMoves
<1>2. CASE Insert(r)
  <2>1. Holds(r)' => \A q \in Requests \ {r} :
                        Holds(q) => KeyOf[q] # KeyOf[r] \/ KeyOf[r] = NoKey
    BY <1>2 DEF Insert, Goto, KeyInFlight, FindByKey, Progress, Created
  <2>2. QED
    BY <1>1, <2>1 DEF OneTaskPerKey
<1>3. CASE ~Insert(r)
  <2>1. Holds(r)' => Holds(r)
    BY <1>3 DEF Send, Step, Lookup, Commit, Relookup, Refresh, DatabaseError,
                Goto, Answer
  <2>2. QED
    BY <1>1, <2>1 DEF OneTaskPerKey
<1>4. QED
  BY <1>2, <1>3

LEMMA CreateInvariant == Spec => []CreateInv
<1>1. Init => CreateInv
  BY CreateAssumption
     DEF Init, CreateInv, Types, OneTaskPerKey, Progress, Created, ActivePlaces,
         CreateAssumption
<1>2. CreateInv /\ [Next]_vars => CreateInv'
  <2> SUFFICES ASSUME CreateInv, [Next]_vars PROVE CreateInv'
    OBVIOUS
  <2>1. ASSUME NEW r \in Requests, Send(r) \/ Step(r) \/ DatabaseError(r)
        PROVE  CreateInv'
    BY <2>1, OneMoves, ProgressStep, KeyStep DEF CreateInv
  <2>2. ASSUME NEW t \in table, Delete(t) PROVE CreateInv'
    BY <2>2 DEF Delete, CreateInv, Types, OneTaskPerKey, Progress, Created
  <2>3. CASE UNCHANGED vars
    BY <2>3 DEF vars, CreateInv, Types, OneTaskPerKey, Progress, Created
  <2>4. QED
    BY <2>1, <2>2, <2>3 DEF Next
<1>3. QED
  BY <1>1, <1>2, PTL DEF Spec

\* A key never has two tasks, however requests with that key race.
THEOREM KeysAreUnique == Spec => []OneTaskPerKey
<1>1. CreateInv => OneTaskPerKey
  BY DEF CreateInv
<1>2. QED
  BY <1>1, CreateInvariant, PTL

------------------------------------------------------------------------------
(***************************************************************************)
(* The refinement.  A request decides when its row is committed, or when a *)
(* lookup or an error gives it its answer.                                 *)
(***************************************************************************)
decidedBar == [r \in Requests |-> IF r \in Created THEN r ELSE reply[r]]

LEMMA SameKeyIsFindByKey ==
  ASSUME NEW r \in Requests PROVE Registry!SameKey(r) = FindByKey(r)
BY DEF Registry!SameKey, FindByKey

\* A request that gets an answer before any row of its own was committed.
LEMMA DecidedByAnswer ==
  ASSUME CreateInv, NEW r \in Requests, pc[r] \in ActivePlaces \ {"refresh"},
         NEW a, reply' = [reply EXCEPT ![r] = a],
         table' = table, deleted' = deleted
  PROVE  /\ decidedBar[r] = None
         /\ decidedBar' = [decidedBar EXCEPT ![r] = a]
BY DEF CreateInv, Types, Progress, Created, decidedBar, ActivePlaces

\* A request whose row is committed finds its key free and decides for it.
LEMMA DecidedByCommit ==
  ASSUME CreateInv, NEW r \in Requests, pc[r] = "commit",
         table' = table \cup {r}, deleted' = deleted,
         \A q \in Requests \ {r} : reply'[q] = reply[q]
  PROVE  /\ decidedBar[r] = None
         /\ Registry!SameKey(r) = {}
         /\ decidedBar' = [decidedBar EXCEPT ![r] = r]
<1> USE DEF CreateInv, Types
<1>1. decidedBar[r] = None /\ r \notin table
  BY DEF Progress, Created, decidedBar
<1>2. FindByKey(r) = {}
  BY <1>1 DEF OneTaskPerKey, FindByKey
<1>3. decidedBar' = [decidedBar EXCEPT ![r] = r]
  BY DEF Created, decidedBar
<1>4. QED
  BY <1>1, <1>2, <1>3, SameKeyIsFindByKey

LEMMA RegistryStep ==
  ASSUME CreateInv, [Next]_vars
  PROVE  Registry!Next \/ UNCHANGED <<table, decidedBar>>
<1> USE DEF CreateInv, Types
<1>1. ASSUME NEW r \in Requests, decidedBar[r] = None,
             Registry!Get(r) \/ Registry!Create(r) \/ Registry!Fail(r)
      PROVE  Registry!Next
  BY <1>1 DEF Registry!Next, decidedBar
<1>2. ASSUME NEW r \in Requests, Lookup(r) \/ Relookup(r)
      PROVE  Registry!Next \/ UNCHANGED <<table, decidedBar>>
  <2>a. /\ pc[r] \in ActivePlaces \ {"refresh"}
        /\ table' = table /\ deleted' = deleted
    BY <1>2 DEF Lookup, Relookup, ActivePlaces
  <2>1. ASSUME NEW t \in FindByKey(r), Answer(r, t) PROVE Registry!Next
    <3>1. /\ decidedBar[r] = None
          /\ decidedBar' = [decidedBar EXCEPT ![r] = t]
      BY <2>a, <2>1, DecidedByAnswer DEF Answer
    <3>2. Registry!Get(r)
      BY <2>a, <2>1, <3>1, SameKeyIsFindByKey DEF Registry!Get, decidedBar
    <3>3. QED
      BY <1>1, <3>1, <3>2
  <2>2. ASSUME Answer(r, Failed) PROVE Registry!Next
    <3>1. /\ decidedBar[r] = None
          /\ decidedBar' = [decidedBar EXCEPT ![r] = Failed]
      BY <2>a, <2>2, DecidedByAnswer DEF Answer
    <3>2. Registry!Fail(r)
      BY <2>a, <3>1 DEF Registry!Fail, decidedBar
    <3>3. QED
      BY <1>1, <3>1, <3>2
  <2>3. CASE UNCHANGED <<table, deleted, reply>>
    BY <2>3 DEF decidedBar, Created
  <2>4. QED
    BY <1>2, <2>1, <2>2, <2>3 DEF Lookup, Relookup, Goto
<1>3. ASSUME NEW r \in Requests, Send(r) \/ Insert(r)
      PROVE  UNCHANGED <<table, decidedBar>>
  BY <1>3 DEF Send, Insert, Goto, decidedBar, Created
<1>4. ASSUME NEW r \in Requests, Commit(r) PROVE Registry!Next
  BY <1>1, <1>4, DecidedByCommit DEF Commit, Goto, Registry!Create, decidedBar
<1>5. ASSUME NEW r \in Requests, Refresh(r) PROVE UNCHANGED <<table, decidedBar>>
  BY <1>5 DEF Refresh, Answer, decidedBar, Created, Progress
<1>6. ASSUME NEW r \in Requests, DatabaseError(r)
      PROVE  Registry!Next \/ UNCHANGED <<table, decidedBar>>
  <2>1. CASE pc[r] = "refresh"
    BY <1>6, <2>1 DEF DatabaseError, Answer, decidedBar, Created, Progress
  <2>2. CASE pc[r] # "refresh" /\ table' = table
    BY <1>1, <1>6, <2>2, DecidedByAnswer
       DEF DatabaseError, Answer, Registry!Fail, decidedBar
  <2>3. CASE pc[r] = "commit" /\ table' = table \cup {r}
    BY <1>1, <1>6, <2>3, DecidedByCommit
       DEF DatabaseError, Answer, Registry!Create, decidedBar
  <2>4. QED
    BY <1>6, <2>1, <2>2, <2>3 DEF DatabaseError
<1>7. ASSUME NEW t \in table, Delete(t) PROVE Registry!Next
  BY <1>7 DEF Delete, Registry!Next, Registry!Delete, decidedBar, Created
<1>8. CASE UNCHANGED vars
  BY <1>8 DEF vars, decidedBar, Created
<1>9. QED
  BY <1>2, <1>3, <1>4, <1>5, <1>6, <1>7, <1>8 DEF Next, Step

\* Concurrent, resent and failing POSTs with a key behave as if each, at one
\* instant, had got the key's task or created it.
THEOREM CreateIsAtomic == Spec => IsAtomic
<1>1. Init => Registry!Init
  BY DEF Init, Registry!Init, Created
<1>2. CreateInv /\ [Next]_vars => [Registry!Next]_<<table, decidedBar>>
  BY RegistryStep
<1>3. QED
  BY <1>1, <1>2, CreateInvariant, PTL
     DEF Spec, IsAtomic, Registry!Spec, decidedBar

------------------------------------------------------------------------------
(***************************************************************************)
(* What requests are answered, and what is counted.  A loser that looks    *)
(* its key up again must remember that a task had the key when its INSERT  *)
(* failed: if the lookup then finds none, a DELETE is to blame.            *)
(***************************************************************************)
LostRace(r) == pc[r] = "relookup" =>
                 KeyOf[r] # NoKey /\ \E t \in Created : KeyOf[t] = KeyOf[r]

Counted == {r \in Created : reply[r] = r}

AnswerInv == /\ CreateInv
             /\ RepliesAgree
             /\ \A r \in Requests : LostRace(r)
             /\ FailuresAreExplained
             /\ IsFiniteSet(Created)
             /\ CounterIsExact
             /\ faults \in 0 .. MaxFaults

\* No step takes a task out of Created; one may add that of its request, whose
\* answer is still to come.
LEMMA CreatedGrows ==
  ASSUME CreateInv, [Next]_vars
  PROVE  /\ Created \subseteq Created'
         /\ deleted \subseteq deleted'
         /\ \/ Created' = Created
            \/ \E r \in Requests : Created' = Created \cup {r}
<1>1. ASSUME NEW r \in Requests, Send(r) \/ Step(r) \/ DatabaseError(r)
      PROVE  /\ Created' = Created \/ Created' = Created \cup {r}
             /\ deleted' = deleted
  BY <1>1, OneMoves DEF CreateInv, Created
<1>2. ASSUME NEW t \in table, Delete(t)
      PROVE  Created' = Created /\ deleted \subseteq deleted'
  BY <1>2 DEF Delete, Created
<1>3. CASE UNCHANGED vars
  BY <1>3 DEF vars, Created
<1>4. QED
  BY <1>1, <1>2, <1>3 DEF Next

\* What one step of one request answers.
LEMMA AnswerOfStep ==
  ASSUME CreateInv, NEW r \in Requests, Send(r) \/ Step(r) \/ DatabaseError(r)
  PROVE  \/ /\ reply'[r] = reply[r]
            /\ tasks_created_total' = tasks_created_total
         \/ /\ reply'[r] \in FindByKey(r)
            /\ r \notin Created'
            /\ tasks_created_total' = tasks_created_total
         \/ /\ pc[r] = "refresh" /\ r \in table
            /\ reply'[r] = r
            /\ tasks_created_total' = tasks_created_total + 1
         \/ /\ reply'[r] = Failed
            /\ \/ pc[r] = "relookup" /\ FindByKey(r) = {}
               \/ r \in deleted \/ DatabaseError(r)
            /\ tasks_created_total' = tasks_created_total
<1> USE DEF CreateInv, Types
<1>1. CASE Send(r) \/ Insert(r) \/ Commit(r)
  BY <1>1 DEF Send, Insert, Commit, Goto
<1>2. CASE Lookup(r) \/ Relookup(r)
  <2>1. r \notin Created /\ Created' = Created
    BY <1>2 DEF Lookup, Relookup, Progress, Created
  <2>2. QED
    BY <1>2, <2>1 DEF Lookup, Relookup, Goto, Answer
<1>3. CASE Refresh(r)
  BY <1>3 DEF Refresh, Answer, Progress, Created
<1>4. CASE DatabaseError(r)
  BY <1>4 DEF DatabaseError, Answer
<1>5. QED
  BY <1>1, <1>2, <1>3, <1>4 DEF Step

LEMMA RepliesStep ==
  ASSUME AnswerInv, [Next]_vars PROVE RepliesAgree'
<1> USE DEF AnswerInv, CreateInv, Types
<1>1. ASSUME NEW r \in Requests, Send(r) \/ Step(r) \/ DatabaseError(r)
      PROVE  RepliesAgree'
  <2>1. ASSUME NEW q \in Requests, reply'[q] = reply[q], reply[q] \in Requests
        PROVE  /\ KeyOf[reply[q]] = KeyOf[q]
               /\ reply[q] \in Created'
               /\ reply[q] # q => KeyOf[q] # NoKey
    BY <2>1, CreatedGrows DEF RepliesAgree, Created
  <2>2. ASSUME reply'[r] \in FindByKey(r)
        PROVE  /\ KeyOf[reply'[r]] = KeyOf[r] /\ KeyOf[r] # NoKey
               /\ reply'[r] \in Created'
    BY <2>2, CreatedGrows DEF FindByKey, Created
  <2>3. r \in table => r \in Created'
    BY CreatedGrows DEF Created
  <2>4. ASSUME NEW q \in Requests, reply'[q] \in Requests
        PROVE  /\ KeyOf[reply'[q]] = KeyOf[q]
               /\ reply'[q] \in Created'
               /\ reply'[q] # q => KeyOf[q] # NoKey
    <3>1. CASE q # r
      BY <1>1, <2>1, <2>4, <3>1, OneMoves
    <3>2. CASE q = r
      BY <1>1, <2>1, <2>2, <2>3, <2>4, <3>2, AnswerOfStep, CreateAssumption
         DEF CreateAssumption
    <3>3. QED
      BY <3>1, <3>2
  <2>5. QED
    BY <2>4 DEF RepliesAgree, Created
<1>2. ASSUME NEW t \in table, Delete(t) PROVE RepliesAgree'
  BY <1>2 DEF Delete, RepliesAgree
<1>3. CASE UNCHANGED vars
  BY <1>3 DEF vars, RepliesAgree
<1>4. QED
  BY <1>1, <1>2, <1>3 DEF Next

LEMMA FailuresStep ==
  ASSUME AnswerInv, [Next]_vars
  PROVE  FailuresAreExplained' /\ faults' \in 0 .. MaxFaults
<1> USE DEF AnswerInv, CreateInv, Types
<1>1. faults' \in 0 .. MaxFaults /\ faults' >= faults
  <2>1. faults' = faults \/ (faults < MaxFaults /\ faults' = faults + 1)
    BY DEF Next, Step, Send, Lookup, Insert, Commit, Relookup, Refresh,
           DatabaseError, Delete, vars
  <2>2. MaxFaults \in Nat /\ faults \in 0 .. MaxFaults
    BY CreateAssumption DEF CreateAssumption
  <2>3. QED
    BY <2>1, <2>2
<1>2. ASSUME NEW q \in Requests, reply[q] = Failed
      PROVE  faults' > 0 \/ \E t \in deleted' : Explains(t, q)
  BY <1>1, <1>2, CreatedGrows DEF FailuresAreExplained
<1>3. ASSUME NEW r \in Requests, Send(r) \/ Step(r) \/ DatabaseError(r)
      PROVE  FailuresAreExplained'
  <2>1. ASSUME pc[r] = "relookup", FindByKey(r) = {}
        PROVE  \E t \in deleted : Explains(t, r)
    BY <2>1 DEF LostRace, FindByKey, Created, Explains
  <2>2. DatabaseError(r) => faults' > 0
    BY DEF DatabaseError
  <2>3. ASSUME NEW q \in Requests, reply'[q] = Failed
        PROVE  faults' > 0 \/ \E t \in deleted' : Explains(t, q)
    <3>1. CASE reply[q] = Failed
      BY <1>2, <3>1
    <3>2. CASE reply[q] # Failed
      <4>1. q = r
        BY <1>3, <2>3, <3>2, OneMoves
      <4>2. \/ pc[r] = "relookup" /\ FindByKey(r) = {}
            \/ r \in deleted
            \/ DatabaseError(r)
        BY <1>3, <2>3, <3>2, <4>1, AnswerOfStep, CreateAssumption
           DEF FindByKey, CreateAssumption
      <4>3. QED
        BY <2>1, <2>2, <4>1, <4>2, CreatedGrows DEF Explains
    <3>3. QED
      BY <3>1, <3>2
  <2>4. QED
    BY <1>1, <2>3 DEF FailuresAreExplained
<1>4. ASSUME NEW t \in table, Delete(t) PROVE FailuresAreExplained'
  BY <1>2, <1>4 DEF Delete, FailuresAreExplained
<1>5. CASE UNCHANGED vars
  BY <1>5 DEF vars, FailuresAreExplained
<1>6. QED
  BY <1>1, <1>3, <1>4, <1>5 DEF Next

LEMMA LostRaceStep ==
  ASSUME AnswerInv, [Next]_vars, NEW q \in Requests PROVE LostRace(q)'
<1> USE DEF AnswerInv, CreateInv, Types
<1>1. pc[q] = "relookup" => LostRace(q)'
  BY CreatedGrows DEF LostRace
<1>2. CASE pc[q] # "relookup" /\ pc'[q] = "relookup"
  <2>1. Insert(q) /\ FindByKey(q) # {}
    BY <1>2 DEF Next, Step, Send, Lookup, Insert, Commit, Relookup, Refresh,
                DatabaseError, Delete, vars, Goto, Answer
  <2>2. QED
    BY <2>1, CreatedGrows DEF LostRace, FindByKey, Created
<1>3. QED
  BY <1>1, <1>2 DEF LostRace

\* The counter and the set it counts grow together.
LEMMA CounterStep ==
  ASSUME AnswerInv, [Next]_vars PROVE CounterIsExact' /\ IsFiniteSet(Created')
<1> USE DEF AnswerInv, CreateInv, Types
<1>1. IsFiniteSet(Created')
  BY CreatedGrows, FS_AddElement
<1>2. IsFiniteSet(Counted) /\ tasks_created_total = Cardinality(Counted)
  BY FS_Subset DEF Counted, CounterIsExact
<1>3. \/ Counted' = Counted /\ tasks_created_total' = tasks_created_total
      \/ \E r \in Requests : /\ r \notin Counted
                             /\ Counted' = Counted \cup {r}
                             /\ tasks_created_total' = tasks_created_total + 1
  <2>1. ASSUME NEW r \in Requests, Send(r) \/ Step(r) \/ DatabaseError(r)
        PROVE  \/ /\ Counted' = Counted
                  /\ tasks_created_total' = tasks_created_total
               \/ /\ r \notin Counted /\ Counted' = Counted \cup {r}
                  /\ tasks_created_total' = tasks_created_total + 1
    <3>1. \A q \in Requests \ {r} : /\ q \in Created' <=> q \in Created
                                    /\ reply'[q] = reply[q]
      BY <2>1, OneMoves DEF Created
    <3>a. Created \subseteq Requests /\ Created' \subseteq Requests
      BY <2>1, OneMoves DEF Created
    <3>2. reply[r] = r => pc[r] = "answered"
      BY CreateAssumption DEF Progress, CreateAssumption
    <3>3. pc[r] # "answered"
      BY <2>1 DEF Send, Step, Lookup, Insert, Commit, Relookup, Refresh,
                  DatabaseError, ActivePlaces
    <3>4. r \notin Counted
      BY <3>2, <3>3 DEF Counted
    <3>5. CASE reply'[r] = r /\ r \in Created'
      <4>1. tasks_created_total' = tasks_created_total + 1
        BY <2>1, <3>2, <3>3, <3>5, AnswerOfStep, CreateAssumption DEF CreateAssumption
      <4>2. Counted' = Counted \cup {r}
        BY <3>1, <3>a, <3>4, <3>5 DEF Counted
      <4>3. QED
        BY <3>4, <4>1, <4>2
    <3>6. CASE ~(reply'[r] = r /\ r \in Created')
      <4>1. tasks_created_total' = tasks_created_total
        BY <2>1, <3>6, AnswerOfStep, CreatedGrows DEF Created
      <4>2. Counted' = Counted
        BY <3>1, <3>a, <3>4, <3>6 DEF Counted
      <4>3. QED
        BY <4>1, <4>2
    <3>7. QED
      BY <3>5, <3>6
  <2>2. ASSUME NEW t \in table, Delete(t)
        PROVE  Counted' = Counted /\ tasks_created_total' = tasks_created_total
    BY <2>2 DEF Delete, Counted, Created
  <2>3. CASE UNCHANGED vars
    BY <2>3 DEF vars, Counted, Created
  <2>4. QED
    BY <2>1, <2>2, <2>3 DEF Next
<1>4. tasks_created_total' = Cardinality(Counted')
  BY <1>2, <1>3, FS_AddElement
<1>5. QED
  BY <1>1, <1>4 DEF CounterIsExact, Counted

LEMMA AnswerInvariant == Spec => []AnswerInv
<1>1. Init /\ CreateInv => AnswerInv
  <2> SUFFICES ASSUME Init, CreateInv PROVE AnswerInv
    OBVIOUS
  <2>1. Created = {} /\ \A r \in Requests : reply[r] = None /\ pc[r] = "unsent"
    BY DEF Init, Created
  <2>2. {r \in Created : reply[r] = r} = {}
    BY <2>1
  <2>3. CounterIsExact /\ IsFiniteSet(Created)
    BY <2>1, <2>2, FS_EmptySet DEF Init, CounterIsExact
  <2>4. QED
    BY <2>1, <2>3, CreateAssumption
       DEF Init, AnswerInv, RepliesAgree, LostRace, FailuresAreExplained,
           CreateAssumption
<1>2. AnswerInv /\ CreateInv' /\ [Next]_vars => AnswerInv'
  BY RepliesStep, FailuresStep, LostRaceStep, CounterStep DEF AnswerInv
<1>3. QED
  BY <1>1, <1>2, CreateInvariant, PTL DEF Spec

\* Requests that share a key are never told of tasks with different keys, nor
\* of tasks that never were.
THEOREM AnswersAgree == Spec => []RepliesAgree
<1>1. AnswerInv => RepliesAgree
  BY DEF AnswerInv
<1>2. QED
  BY <1>1, AnswerInvariant, PTL

\* Losing the race for a key never fails a request by itself.
THEOREM LosingIsNoFailure == Spec => []FailuresAreExplained
<1>1. AnswerInv => FailuresAreExplained
  BY DEF AnswerInv
<1>2. QED
  BY <1>1, AnswerInvariant, PTL

\* tasks_created_total is exact, however many requests race.
THEOREM CountsAreExact == Spec => []CounterIsExact
<1>1. AnswerInv => CounterIsExact
  BY DEF AnswerInv
<1>2. QED
  BY <1>1, AnswerInvariant, PTL

\* The counter never exceeds the tasks that were created.
THEOREM CreateTypes == Spec => []TypeOK
<1>1. AnswerInv => TypeOK
  <2> SUFFICES ASSUME AnswerInv PROVE TypeOK
    OBVIOUS
  <2>1. tasks_created_total \in Nat /\ tasks_created_total <= Cardinality(Created)
    BY FS_Subset, FS_CardinalityType DEF AnswerInv, CounterIsExact
  <2>2. Cardinality(Created) \in Nat
    BY FS_CardinalityType DEF AnswerInv
  <2>3. QED
    BY <2>1, <2>2 DEF AnswerInv, CreateInv, Types, TypeOK, Created
<1>2. QED
  BY <1>1, AnswerInvariant, PTL
==============================================================================
