--------------------------- MODULE DashboardProofs ---------------------------
(***************************************************************************)
(* What GET /tasks answers and the page holds, for any table, page size,   *)
(* filters and number of loads in flight.                                  *)
(***************************************************************************)
EXTENDS Dashboard, FiniteSetTheorems, SequenceTheorems, TLAPS

(***************************************************************************)
(* Paging.  The rank numbers the matches 1, 2, ... CountOf(q) without gap  *)
(* or repetition, so a page has as many rows as its window of ranks.       *)
(***************************************************************************)
LEMMA CountFacts ==
  ASSUME NEW S, table \in Seq(S), NEW q
  PROVE  /\ Matching(q) \subseteq 1 .. Len(table)
         /\ IsFiniteSet(Matching(q))
         /\ CountOf(q) \in 0 .. Len(table)
<1>1. Len(table) \in Nat
  BY LenProperties
<1>2. IsFiniteSet(1 .. Len(table)) /\ Cardinality(1 .. Len(table)) = Len(table)
  BY <1>1, FS_Interval
<1>3. Matching(q) \subseteq 1 .. Len(table)
  BY DEF Matching
<1>4. /\ IsFiniteSet(Matching(q)) /\ Cardinality(Matching(q)) \in Nat
      /\ Cardinality(Matching(q)) <= Len(table)
  BY <1>2, <1>3, FS_Subset, FS_CardinalityType
<1>5. QED
  BY <1>1, <1>3, <1>4 DEF CountOf

LEMMA RankRange ==
  ASSUME NEW S, table \in Seq(S), NEW q, NEW i \in Matching(q)
  PROVE  Rank(q, i) \in 1 .. CountOf(q)
<1> DEFINE upTo == {j \in Matching(q) : j <= i}
<1>1. upTo \subseteq Matching(q) /\ i \in upTo
  BY CountFacts
<1>2. IsFiniteSet(Matching(q)) /\ CountOf(q) \in Nat
  BY CountFacts
<1>3. /\ IsFiniteSet(upTo) /\ Cardinality(upTo) \in Nat
      /\ Cardinality(upTo) <= Cardinality(Matching(q))
  BY <1>1, <1>2, FS_Subset, FS_CardinalityType
<1>4. Cardinality(upTo) # 0
  BY <1>1, <1>3, FS_EmptySet
<1>5. Rank(q, i) = Cardinality(upTo)
  BY DEF Rank
<1> HIDE DEF upTo
<1>6. QED
  BY <1>2, <1>3, <1>4, <1>5 DEF CountOf

LEMMA RankIncreases ==
  ASSUME NEW S, table \in Seq(S), NEW q,
         NEW i \in Matching(q), NEW k \in Matching(q), i < k
  PROVE  Rank(q, i) < Rank(q, k)
<1> DEFINE upTo(n) == {j \in Matching(q) : j <= n}
<1>1. Matching(q) \subseteq Int /\ IsFiniteSet(Matching(q))
  BY CountFacts
<1>2. upTo(i) \subseteq upTo(k) /\ k \in upTo(k) /\ k \notin upTo(i)
  BY <1>1
<1>3. IsFiniteSet(upTo(k))
  BY <1>1, FS_Subset
<1>4. /\ IsFiniteSet(upTo(i))
      /\ Cardinality(upTo(i)) <= Cardinality(upTo(k))
      /\ Cardinality(upTo(i)) # Cardinality(upTo(k))
  BY <1>2, <1>3, FS_Subset
<1>5. Cardinality(upTo(i)) \in Nat /\ Cardinality(upTo(k)) \in Nat
  BY <1>3, <1>4, FS_CardinalityType
<1>6. Rank(q, i) = Cardinality(upTo(i)) /\ Rank(q, k) = Cardinality(upTo(k))
  BY DEF Rank
<1> HIDE DEF upTo
<1>7. QED
  BY <1>4, <1>5, <1>6

LEMMA RankDistinguishes ==
  ASSUME NEW S, table \in Seq(S), NEW q,
         NEW i \in Matching(q), NEW k \in Matching(q), Rank(q, i) = Rank(q, k)
  PROVE  i = k
<1>1. i \in Int /\ k \in Int /\ Rank(q, i) \in Int
  BY CountFacts, RankRange
<1>2. ~(i < k) /\ ~(k < i)
  BY <1>1, RankIncreases
<1>3. QED
  BY <1>1, <1>2

LEMMA RankReachesAll ==
  ASSUME NEW S, table \in Seq(S), NEW q, NEW n \in 1 .. CountOf(q)
  PROVE  \E i \in Matching(q) : Rank(q, i) = n
<1> DEFINE ranks == 1 .. CountOf(q)
           f == [i \in Matching(q) |-> Rank(q, i)]
<1>1. CountOf(q) \in Nat
  BY CountFacts
<1>2. IsFiniteSet(ranks) /\ Cardinality(ranks) = CountOf(q)
  BY <1>1, FS_Interval
<1>3. f \in [Matching(q) -> ranks]
  BY RankRange
<1>4. f \in Injection(Matching(q), ranks)
  BY <1>3, RankDistinguishes DEF Injection, IsInjective
<1>5. f \in Surjection(Matching(q), ranks)
  BY <1>2, <1>4, FS_Injection DEF CountOf
<1>6. QED
  BY <1>5 DEF Surjection

\* A page has the rows of its window that there are.
LEMMA PageLength ==
  ASSUME NEW S, table \in Seq(S), NEW q, q.offset \in Nat, PageSize \in Nat
  PROVE  LET rest == CountOf(q) - q.offset
         IN  /\ Cardinality(OnPage(q)) \in Nat
             /\ Cardinality(OnPage(q)) = IF rest <= 0 THEN 0
                                         ELSE IF rest < PageSize THEN rest ELSE PageSize
<1> DEFINE rest == CountOf(q) - q.offset
           size == IF rest <= 0 THEN 0 ELSE IF rest < PageSize THEN rest ELSE PageSize
           window == q.offset + 1 .. q.offset + size
           f == [i \in OnPage(q) |-> Rank(q, i)]
<1>1. CountOf(q) \in Nat /\ size \in Nat
  BY CountFacts
<1>2. \A i \in Matching(q) : i \in OnPage(q) <=> Rank(q, i) \in window
  BY <1>1, RankRange DEF OnPage
<1>3. OnPage(q) \subseteq Matching(q)
  BY DEF OnPage
<1>4. f \in Injection(OnPage(q), window)
  BY <1>2, <1>3, RankDistinguishes DEF Injection, IsInjective
<1>5. \A n \in window : \E i \in OnPage(q) : Rank(q, i) = n
  <2>1. window \subseteq 1 .. CountOf(q)
    BY <1>1
  <2>2. QED
    BY <1>2, <2>1, RankReachesAll
<1>6. f \in Surjection(OnPage(q), window)
  BY <1>4, <1>5 DEF Injection, Surjection
<1>7. IsFiniteSet(window) /\ Cardinality(window) = size
  <2> DEFINE a == q.offset + 1
             b == q.offset + size
  <2> HIDE DEF size
  <2>1. a \in Int /\ b \in Int /\ (IF a > b THEN 0 ELSE b - a + 1) = size
    BY <1>1
  <2> HIDE DEF a, b
  <2>2. IsFiniteSet(a .. b) /\ Cardinality(a .. b) = IF a > b THEN 0 ELSE b - a + 1
    BY <2>1, FS_Interval
  <2>3. window = a .. b
    BY DEF a, b
  <2>4. QED
    BY <2>1, <2>2, <2>3
<1>8. Cardinality(OnPage(q)) = size
  BY <1>4, <1>6, <1>7, FS_Injection
<1>9. QED
  BY <1>1, <1>8

\* Every place of a page has its row, which matches.
LEMMA PageRows ==
  ASSUME NEW S, table \in Seq(S), NEW q, q.offset \in Nat, PageSize \in Nat
  PROVE  /\ PageOf(q) \in Seq(S)
         /\ Len(PageOf(q)) = Cardinality(OnPage(q))
         /\ \A n \in 1 .. Len(PageOf(q)) : \E i \in Matching(q) :
               Rank(q, i) = q.offset + n /\ PageOf(q)[n] = table[i]
<1> DEFINE size == Cardinality(OnPage(q))
           at(n) == CHOOSE i \in OnPage(q) : Rank(q, i) = q.offset + n
<1>1. size \in Nat /\ CountOf(q) \in Nat
  BY PageLength, CountFacts
<1>2. \A n \in 1 .. size : \E i \in OnPage(q) : Rank(q, i) = q.offset + n
  <2> SUFFICES ASSUME NEW n \in 1 .. size
               PROVE  \E i \in OnPage(q) : Rank(q, i) = q.offset + n
    OBVIOUS
  <2>1. q.offset + n \in 1 .. CountOf(q) /\ n <= PageSize
    BY <1>1, PageLength
  <2>2. PICK i \in Matching(q) : Rank(q, i) = q.offset + n
    BY <2>1, RankReachesAll
  <2>3. i \in OnPage(q)
    BY <1>1, <2>1, <2>2 DEF OnPage
  <2>4. QED
    BY <2>2, <2>3
<1>3. \A n \in 1 .. size : at(n) \in OnPage(q) /\ Rank(q, at(n)) = q.offset + n
  BY <1>2
<1>4. PageOf(q) = [n \in 1 .. size |-> table[at(n)]]
  BY DEF PageOf
<1> HIDE DEF size, at
<1>5. \A i \in OnPage(q) : i \in Matching(q) /\ i \in 1 .. Len(table) /\ table[i] \in S
  BY CountFacts, ElementOfSeq DEF OnPage
<1>6. PageOf(q) \in [1 .. size -> S]
  BY <1>3, <1>4, <1>5
<1>7. PageOf(q) \in Seq(S) /\ Len(PageOf(q)) = size
  BY <1>1, <1>6
<1>8. QED
  BY <1>3, <1>4, <1>5, <1>7 DEF size

------------------------------------------------------------------------------
(***************************************************************************)
(* A count that no write has followed is the count of the table as it is,  *)
(* so the page that is cut next fits it.  The offset only moves by whole   *)
(* pages and by one per click.                                             *)
(***************************************************************************)
LoadTypes == {Idle} \cup Asking \cup Counted \cup Answered

Sure(l) ==
  /\ load[l].at = "counted" /\ ~load[l].torn => load[l].total = CountOf(load[l].query)
  /\ load[l].at = "answered" /\ ~load[l].torn =>
       LET rest == load[l].total - load[l].query.offset
       IN  Len(load[l].rows) = IF rest <= 0 THEN 0
                               ELSE IF rest < PageSize THEN rest ELSE PageSize

Reached == \E n \in 0 .. clicks : selection.offset = PageSize * n

PageInv == TypeOK /\ Reached /\ \A l \in Loads : Sure(l)

LEMMA SelectionFacts ==
  \A q \in Selections : q.offset \in Nat /\ q.status \in Filters
<1> SUFFICES ASSUME NEW q \in Selections PROVE q.offset \in Nat /\ q.status \in Filters
  OBVIOUS
<1>1. PICK n \in 0 .. MaxClicks : q.offset = PageSize * n
  BY DEF Selections
<1>2. PageSize \in Nat /\ n \in Nat
  BY DashboardAssumption DEF DashboardAssumption
<1>3. PageSize * n \in Nat
  BY <1>2
<1>4. QED
  BY <1>1, <1>3 DEF Selections

LEMMA AskedType == \A q \in Selections : Asked(q) \in Asking /\ Asked(q) \in LoadTypes
BY DEF Asked, Asking, LoadTypes

LEMMA HomeType == Home \in Selections
<1>1. PageSize * 0 = 0 /\ 0 \in 0 .. MaxClicks
  BY DashboardAssumption DEF DashboardAssumption
<1>2. QED
  BY <1>1, DashboardAssumption DEF Home, Selections, DashboardAssumption

LEMMA PageInit == Init => PageInv
<1> SUFFICES ASSUME Init PROVE PageInv
  OBVIOUS
<1> USE DashboardAssumption DEF DashboardAssumption
<1>1. table \in Seq(Rows) /\ Len(table) <= MaxTasks
  <2>1. Len(FirstTable) \in Nat
    BY LenProperties
  <2>2. [id : 0 .. Len(FirstTable), status : Statuses] \subseteq Rows
    BY <2>1 DEF Rows
  <2>3. FirstTable \in Seq(Rows)
    BY <2>2, SeqMonotonic
  <2>4. QED
    BY <2>3 DEF Init
<1>2. load \in [Loads -> LoadTypes]
  BY AskedType, HomeType DEF Init, LoadTypes
<1>3. /\ call \in [ClickNumbers -> {Idle} \cup Calls] /\ selection \in Selections
      /\ timers \subseteq Selections
      /\ loading \in BOOLEAN /\ error \in BOOLEAN
      /\ changes \in 0 .. MaxChanges /\ clicks \in 0 .. MaxClicks
      /\ errors \in 0 .. MaxErrors
  <2>1. selection \in Selections /\ timers \subseteq Selections
        /\ call \in [ClickNumbers -> {Idle} \cup Calls]
    BY HomeType DEF Init
  <2>2. loading \in BOOLEAN /\ error \in BOOLEAN
    BY DEF Init
  <2>3. changes \in 0 .. MaxChanges /\ clicks \in 0 .. MaxClicks /\ errors \in 0 .. MaxErrors
    BY DEF Init
  <2>4. QED
    BY <2>1, <2>2, <2>3
<1>4. view \in [query : Selections, rows : Seq(Rows), total : 0 .. MaxTasks]
  <2>1. << >> \in Seq(Rows)
    BY EmptySeq
  <2>2. QED
    BY <2>1, HomeType DEF Init
<1>5. Reached
  <2>1. PageSize * 0 = 0
    OBVIOUS
  <2>2. QED
    BY <2>1 DEF Init, Home, Reached
<1>6. \A l \in Loads : Sure(l)
  BY DEF Init, Sure, Asked, Idle
<1>7. QED
  BY <1>1, <1>2, <1>3, <1>4, <1>5, <1>6 DEF PageInv, TypeOK, LoadTypes

LEMMA StartType ==
  ASSUME PageInv, NEW q \in Selections, Start(q)
  PROVE  /\ load' \in [Loads -> LoadTypes]
         /\ \A l \in Loads : load'[l] = load[l] \/ load'[l] = Asked(q)
<1>1. load \in [Loads -> LoadTypes]
  BY DEF PageInv, TypeOK, LoadTypes
<1>2. load' = [load EXCEPT ![Place] = Asked(q)]
  BY DEF Start
<1> HIDE DEF Place, Asked
<1>3. QED
  BY <1>1, <1>2, AskedType

\* Loads that only start, or end, leave the counts and the answers true.
LEMMA SureFrame ==
  ASSUME table' = table,
         \A l \in Loads : load'[l] = load[l] \/ load'[l] = Idle
                             \/ \E q \in Selections : load'[l] = Asked(q),
         \A l \in Loads : Sure(l)
  PROVE  \A l \in Loads : Sure(l)'
<1> SUFFICES ASSUME NEW l \in Loads PROVE Sure(l)'
  OBVIOUS
<1>1. CASE load'[l] = load[l]
  <2>1. CountOf(load[l].query)' = CountOf(load[l].query)
    BY <1>1 DEF CountOf, Matching
  <2> HIDE DEF CountOf
  <2>2. QED
    BY <1>1, <2>1 DEF Sure
<1>2. CASE load'[l] = Idle \/ \E q \in Selections : load'[l] = Asked(q)
  <2>1. Idle.at = "idle" /\ \A q \in Selections : Asked(q).at = "asked"
    BY DEF Idle, Asked
  <2>2. load'[l].at = "idle" \/ load'[l].at = "asked"
    BY <1>2, <2>1
  <2>3. QED
    BY <2>2 DEF Sure
<1>3. QED
  BY <1>1, <1>2

\* A write keeps the table typed, and leaves no count that claims to hold.
LEMMA TearStep ==
  ASSUME PageInv, Tear
  PROVE  load' \in [Loads -> LoadTypes] /\ \A l \in Loads : Sure(l)'
<1>1. load \in [Loads -> LoadTypes]
  BY DEF PageInv, TypeOK, LoadTypes
<1>2. \A l \in Loads :
        load'[l] = IF load[l].at = "counted" THEN [load[l] EXCEPT !.torn = TRUE]
                                             ELSE load[l]
  BY DEF Tear
<1>3. ASSUME NEW l \in Loads, load[l].at = "counted"
      PROVE  load[l] \in Counted /\ [load[l] EXCEPT !.torn = TRUE] \in Counted
  <2>1. load[l] \notin {Idle} \cup Asking \cup Answered
    BY <1>3 DEF Idle, Asking, Answered
  <2>2. load[l] \in Counted
    BY <1>1, <2>1 DEF LoadTypes
  <2>3. QED
    BY <2>2 DEF Counted
<1>4. load' \in [Loads -> LoadTypes]
  BY <1>1, <1>3 DEF Tear, LoadTypes
<1>5. ASSUME NEW l \in Loads PROVE Sure(l)'
  <2>1. CASE load[l].at = "counted"
    BY <1>2, <1>3, <2>1 DEF Sure, Counted
  <2>2. CASE load[l].at # "counted"
    BY <1>2, <2>2 DEF Sure, PageInv
  <2>3. QED
    BY <2>1, <2>2
<1>6. QED
  BY <1>4, <1>5

LEMMA InsertedType ==
  ASSUME PageInv, NEW id \in 0 .. Len(FirstTable) + MaxChanges + MaxClicks, Inserted(id)
  PROVE  table' \in Seq(Rows) /\ Len(table') <= MaxTasks
<1> DEFINE row == [id |-> id, status |-> "pending"]
<1>1. row \in Rows
  BY DashboardAssumption DEF DashboardAssumption, Rows
<1> HIDE DEF row
<1>2. << row >> \in Seq(Rows) /\ Len(<< row >>) = 1
  BY <1>1
<1>3. table \in Seq(Rows) /\ Len(table) < MaxTasks /\ table' = << row >> \o table
  BY DEF PageInv, TypeOK, Inserted, row
<1>4. /\ << row >> \o table \in Seq(Rows)
      /\ Len(<< row >> \o table) = Len(<< row >>) + Len(table)
  BY <1>2, <1>3, ConcatProperties
<1>5. MaxTasks \in Nat /\ Len(table) \in Nat
  BY <1>3, LenProperties, DashboardAssumption DEF DashboardAssumption
<1>6. QED
  BY <1>2, <1>3, <1>4, <1>5

LEMMA RemovedType ==
  ASSUME PageInv, Removed
  PROVE  table' \in Seq(Rows) /\ Len(table') <= MaxTasks
<1>1. PICK i \in 1 .. Len(table) : table' = RemoveAt(table, i)
  BY DEF Removed
<1>2. /\ table \in Seq(Rows) /\ Len(table) \in Nat /\ Len(table) <= MaxTasks
      /\ MaxTasks \in Nat
  BY LenProperties, DashboardAssumption DEF PageInv, TypeOK, DashboardAssumption
<1>3. i - 1 \in Int /\ i + 1 \in Int /\ Len(table) \in Int
  BY <1>2
<1>4. \A n \in 1 .. Len(table) : table[n] \in Rows
  BY <1>2, ElementOfSeq
<1> DEFINE before == SubSeq(table, 1, i - 1)
           after == SubSeq(table, i + 1, Len(table))
<1>5. before \in Seq(Rows) /\ Len(before) = i - 1
  BY <1>2, <1>3, <1>4, SubSeqProperties
<1>6. after \in Seq(Rows) /\ Len(after) = Len(table) - i
  BY <1>2, <1>3, <1>4, SubSeqProperties
<1>7. table' = before \o after
  BY <1>1 DEF RemoveAt
<1> HIDE DEF before, after
<1>8. table' \in Seq(Rows) /\ Len(table') = Len(before) + Len(after)
  BY <1>5, <1>6, <1>7, ConcatProperties
<1>9. QED
  BY <1>2, <1>5, <1>6, <1>8

LEMMA EditedType ==
  ASSUME PageInv, NEW i \in 1 .. Len(table), NEW s \in Statuses,
         table' = [table EXCEPT ![i].status = s]
  PROVE  table' \in Seq(Rows) /\ Len(table') <= MaxTasks
<1> DEFINE row == [table[i] EXCEPT !.status = s]
<1>1. table \in Seq(Rows) /\ Len(table) <= MaxTasks
  BY DEF PageInv, TypeOK
<1>2. table[i] \in Rows
  BY <1>1, ElementOfSeq
<1>3. row \in Rows
  BY <1>2 DEF Rows
<1>4. table' = [table EXCEPT ![i] = row]
  OBVIOUS
<1> HIDE DEF row
<1>5. table' \in Seq(Rows) /\ Len(table') = Len(table)
  BY <1>1, <1>3, <1>4, ExceptSeq
<1>6. QED
  BY <1>1, <1>5

\* Every write to the table, of another client, a worker or the user.
LEMMA WriteStep ==
  ASSUME PageInv, ServerChanges \/ \E n \in ClickNumbers : Serve(n)
  PROVE  /\ table' \in Seq(Rows) /\ Len(table') <= MaxTasks
         /\ load' \in [Loads -> LoadTypes] /\ \A l \in Loads : Sure(l)'
<1> DEFINE ids == 0 .. Len(FirstTable) + MaxChanges + MaxClicks
<1>1. /\ Len(FirstTable) \in Nat /\ MaxChanges \in Nat /\ MaxClicks \in Nat
      /\ changes \in 0 .. MaxChanges /\ clicks \in 0 .. MaxClicks
  BY LenProperties, DashboardAssumption DEF DashboardAssumption, PageInv, TypeOK
<1>2. /\ Len(FirstTable) + changes \in ids
      /\ \A n \in ClickNumbers : Len(FirstTable) + MaxChanges + n \in ids
  BY <1>1 DEF ClickNumbers
<1> HIDE DEF ids
<1>3. \/ \E id \in ids : Inserted(id)
      \/ Removed
      \/ \E i \in 1 .. Len(table), s \in Statuses : table' = [table EXCEPT ![i].status = s]
      \/ table' = table
  <2> HIDE DEF Inserted, Removed
  <2>1. CASE ServerChanges
    BY <1>2, <2>1 DEF ServerChanges
  <2>2. CASE \E n \in ClickNumbers : Serve(n)
    BY <1>2, <2>2 DEF Serve
  <2>3. QED
    BY <2>1, <2>2
<1>4. Tear
  BY DEF ServerChanges, Serve
<1>5. CASE table' = table
  BY <1>4, <1>5, TearStep DEF PageInv, TypeOK
<1>6. CASE table' # table
  BY <1>3, <1>4, <1>6, TearStep, InsertedType, RemovedType, EditedType DEF ids
<1>7. QED
  BY <1>5, <1>6

LEMMA CountStep ==
  ASSUME PageInv, NEW l \in Loads, Count(l)
  PROVE  load' \in [Loads -> LoadTypes] /\ \A k \in Loads : Sure(k)'
<1> DEFINE q == load[l].query
           counted == [at |-> "counted", query |-> q, total |-> CountOf(q), torn |-> FALSE]
<1>1. load \in [Loads -> LoadTypes] /\ \A k \in Loads : Sure(k)
  BY DEF PageInv, TypeOK, LoadTypes
<1>2. load' = [load EXCEPT ![l] = counted] /\ table' = table /\ load[l].at = "asked"
  BY DEF Count
<1>3. q \in Selections
  <2>1. load[l] \notin {Idle} \cup Counted \cup Answered
    BY <1>2 DEF Idle, Counted, Answered
  <2>2. load[l] \in Asking
    BY <1>1, <2>1 DEF LoadTypes
  <2>3. QED
    BY <2>2 DEF Asking
<1>4. CountOf(q) \in 0 .. MaxTasks
  BY CountFacts, LenProperties, DashboardAssumption
     DEF PageInv, TypeOK, DashboardAssumption
<1>5. counted \in Counted
  BY <1>3, <1>4 DEF Counted
<1> HIDE DEF counted
<1>6. load' \in [Loads -> LoadTypes]
  BY <1>1, <1>2, <1>5 DEF LoadTypes
<1>7. \A k \in Loads \ {l} : load'[k] = load[k]
  BY <1>1, <1>2
<1>8. ASSUME NEW k \in Loads PROVE Sure(k)'
  <2>1. CASE k # l
    <3>1. CountOf(load[k].query)' = CountOf(load[k].query)
      BY <1>2, <1>7, <2>1 DEF CountOf, Matching
    <3> HIDE DEF CountOf
    <3>2. QED
      BY <1>1, <1>7, <2>1, <3>1 DEF Sure
  <2>2. CASE k = l
    <3>1. load'[l] = counted
      BY <1>1, <1>2
    <3>2. CountOf(load[l].query)' = CountOf(q)
      BY <1>2, <3>1 DEF CountOf, Matching, counted
    <3> HIDE DEF CountOf
    <3>3. load'[l].at = "counted" /\ load'[l].total = CountOf(load[l].query)'
      BY <3>1, <3>2 DEF counted
    <3>4. QED
      BY <2>2, <3>3 DEF Sure
  <2>3. QED
    BY <2>1, <2>2
<1>9. QED
  BY <1>6, <1>8

LEMMA PagingStep ==
  ASSUME PageInv, NEW l \in Loads, Page(l)
  PROVE  load' \in [Loads -> LoadTypes] /\ \A k \in Loads : Sure(k)'
<1> DEFINE old == load[l]
           answered == [at |-> "answered", query |-> old.query, torn |-> old.torn,
                        total |-> old.total, rows |-> PageOf(old.query)]
<1>1. load \in [Loads -> LoadTypes] /\ \A k \in Loads : Sure(k)
  BY DEF PageInv, TypeOK, LoadTypes
<1>2. load' = [load EXCEPT ![l] = answered] /\ table' = table /\ old.at = "counted"
  BY DEF Page
<1>3. old \in Counted
  <2>1. old \notin {Idle} \cup Asking \cup Answered
    BY <1>2 DEF Idle, Asking, Answered
  <2>2. QED
    BY <1>1, <2>1 DEF LoadTypes
<1>4. /\ old.query \in Selections /\ old.query.offset \in Nat /\ PageSize \in Nat
      /\ table \in Seq(Rows)
  BY <1>3, SelectionFacts, DashboardAssumption
     DEF Counted, DashboardAssumption, PageInv, TypeOK
<1>5. /\ PageOf(old.query) \in Seq(Rows)
      /\ Len(PageOf(old.query)) = Cardinality(OnPage(old.query))
  BY <1>4, PageRows
<1>6. answered \in Answered
  BY <1>3, <1>4, <1>5 DEF Answered, Counted
<1>7. ~old.torn =>
        LET rest == old.total - old.query.offset
        IN  Len(answered.rows) = IF rest <= 0 THEN 0
                                 ELSE IF rest < PageSize THEN rest ELSE PageSize
  <2>1. ~old.torn => old.total = CountOf(old.query)
    BY <1>1, <1>2 DEF Sure
  <2>2. QED
    BY <1>4, <1>5, <2>1, PageLength
<1>8. /\ answered.torn = old.torn /\ answered.total = old.total
      /\ answered.query = old.query /\ answered.at = "answered"
  OBVIOUS
<1> HIDE DEF answered
<1>9. load' \in [Loads -> LoadTypes]
  BY <1>1, <1>2, <1>6 DEF LoadTypes
<1>10. ASSUME NEW k \in Loads PROVE Sure(k)'
  <2>1. CASE k # l
    <3>1. load'[k] = load[k]
      BY <1>1, <1>2, <2>1
    <3>2. CountOf(load[k].query)' = CountOf(load[k].query)
      BY <1>2, <3>1 DEF CountOf, Matching
    <3> HIDE DEF CountOf
    <3>3. QED
      BY <1>1, <3>1, <3>2 DEF Sure
  <2>2. CASE k = l
    <3>1. load'[l] = answered
      BY <1>1, <1>2
    <3>2. QED
      BY <1>7, <1>8, <2>2, <3>1 DEF Sure
  <2>3. QED
    BY <2>1, <2>2
<1>11. QED
  BY <1>9, <1>10

\* A click selects a page that is within the user's reach.
LEMMA ClicksReach ==
  ASSUME PageInv, User
  PROVE  \/ \E q \in Selections : Click(q) /\ \E n \in 0 .. clicks + 1 : q.offset = PageSize * n
         \/ \E op \in {"create", "delete"} : Send(op)
<1> USE DashboardAssumption DEF DashboardAssumption
<1>1. selection \in Selections /\ clicks \in 0 .. MaxClicks /\ PageSize \in Nat \ {0}
  BY DEF PageInv, TypeOK
<1>2. PICK n \in 0 .. clicks : selection.offset = PageSize * n
  BY DEF PageInv, Reached
<1>3. ASSUME NEW q, NEW m \in Int, Click(q), m \in 0 .. n + 1,
             q = [offset |-> PageSize * m, status |-> q.status], q.status \in Filters
      PROVE  \E r \in Selections : Click(r) /\ \E k \in 0 .. clicks + 1 : r.offset = PageSize * k
  <2>1. clicks < MaxClicks
    BY <1>3 DEF Click
  <2>2. m \in 0 .. MaxClicks /\ m \in 0 .. clicks + 1
    BY <1>1, <1>2, <1>3, <2>1
  <2>3. q \in Selections /\ q.offset = PageSize * m
    BY <1>3, <2>2 DEF Selections
  <2>4. QED
    BY <1>3, <2>2, <2>3
<1>4. selection = [offset |-> PageSize * n, status |-> selection.status]
      /\ selection.status \in Filters
  BY <1>1, <1>2 DEF Selections
<1>5. CASE \E s \in Filters : ChooseStatus(s)
  <2>1. PICK s \in Filters : ChooseStatus(s)
    BY <1>5
  <2> DEFINE q == [offset |-> 0, status |-> s]
  <2>2. Click(q) /\ q = [offset |-> PageSize * 0, status |-> q.status] /\ q.status \in Filters
    BY <1>1, <2>1 DEF ChooseStatus
  <2>3. 0 \in Int /\ 0 \in 0 .. n + 1
    BY <1>2
  <2> HIDE DEF q
  <2>4. QED
    BY <1>3, <2>2, <2>3
<1>6. CASE NextPage
  <2> DEFINE q == [selection EXCEPT !.offset = @ + PageSize]
  <2>1. PageSize * n + PageSize = PageSize * (n + 1)
    BY <1>1, <1>2
  <2> DEFINE there == PageSize * (n + 1)
  <2>2. q = [offset |-> there, status |-> q.status] /\ q.status \in Filters
    <3>1. selection.offset + PageSize = there
      BY <1>2, <2>1
    <3> HIDE DEF there
    <3>2. QED
      BY <1>4, <3>1
  <2>3. Click(q)
    BY <1>6 DEF NextPage
  <2>4. n + 1 \in Int /\ n + 1 \in 0 .. n + 1
    BY <1>1, <1>2
  <2> HIDE DEF q
  <2>5. QED
    BY <1>3, <2>2, <2>3, <2>4
<1>7. CASE Previous
  <2> DEFINE q == [selection EXCEPT !.offset = @ - PageSize]
  <2>1. PageSize * n - PageSize = PageSize * (n - 1) /\ PageSize * 0 = 0
    BY <1>1, <1>2
  <2>2. q = [offset |-> PageSize * (n - 1), status |-> q.status] /\ q.status \in Filters
    BY <1>4, <2>1
  <2>3. Click(q) /\ n # 0
    BY <1>2, <1>7, <2>1 DEF Previous
  <2>4. n - 1 \in Int /\ n - 1 \in 0 .. n + 1
    BY <1>1, <1>2, <2>3
  <2> HIDE DEF q
  <2>5. QED
    BY <1>3, <2>2, <2>3, <2>4
<1>8. QED
  BY <1>5, <1>6, <1>7 DEF User

\* All other steps only start and end loads.
LEMMA OtherLoads ==
  ASSUME PageInv, \/ Poll \/ User
                  \/ \E n \in ClickNumbers : DeleteReturns(n) \/ CreateReturns(n) \/ CallFails(n)
                  \/ \E l \in Loads : Land(l) \/ LandsInError(l)
  PROVE  /\ table' = table
         /\ load' \in [Loads -> LoadTypes]
         /\ \A l \in Loads : \/ load'[l] = load[l] \/ load'[l] = Idle
                              \/ \E q \in Selections : load'[l] = Asked(q)
<1> USE DEF LoadTypes
<1>1. load \in [Loads -> LoadTypes]
  BY DEF PageInv, TypeOK
<1>2. CASE \E q \in Selections : Start(q) /\ table' = table
  BY <1>2, StartType
<1>3. CASE load' = load /\ table' = table
  BY <1>1, <1>3
<1>4. CASE \E l \in Loads : load' = [load EXCEPT ![l] = Idle] /\ table' = table
  BY <1>1, <1>4
<1>5. CASE Poll
  BY <1>2, <1>5 DEF Poll, PageInv, TypeOK
<1>6. CASE User
  <2>1. CASE \E q \in Selections : Click(q)
    BY <1>2, <1>3, <2>1 DEF Click, Select
  <2>2. CASE \E op \in {"create", "delete"} : Send(op)
    BY <1>3, <2>2 DEF Send
  <2>3. QED
    BY <1>6, <2>1, <2>2, ClicksReach
<1>7. ASSUME NEW n \in ClickNumbers, DeleteReturns(n) \/ CreateReturns(n)
      PROVE  /\ table' = table
             /\ load' \in [Loads -> LoadTypes]
             /\ \A l \in Loads : \/ load'[l] = load[l] \/ load'[l] = Idle
                                  \/ \E q \in Selections : load'[l] = Asked(q)
  <2>1. call[n] \in Calls /\ call[n].query \in Selections
    <3>1. call[n].at = "served"
      BY <1>7 DEF DeleteReturns, CreateReturns
    <3>2. call[n] \in Calls
      BY <3>1 DEF Idle, PageInv, TypeOK
    <3>3. QED
      BY <3>2 DEF Calls
  <2>2. CASE DeleteReturns(n)
    BY <1>2, <2>1, <2>2 DEF DeleteReturns
  <2>3. CASE CreateReturns(n) /\ selection' = selection
    BY <1>2, <2>1, <2>3 DEF CreateReturns
  <2>4. CASE CreateReturns(n) /\ selection' # selection
    <3>1. PICK l \in Free, k \in Free :
             load' = [load EXCEPT ![l] = Asked(call[n].query), ![k] = Asked(selection')]
      BY <2>4 DEF CreateReturns
    <3>2. selection' \in Selections
      <4>1. PageSize * 0 = 0 /\ 0 \in 0 .. MaxClicks
        BY DashboardAssumption DEF DashboardAssumption
      <4>2. QED
        BY <2>4, <4>1 DEF CreateReturns, PageInv, TypeOK, Selections
    <3> HIDE DEF LoadTypes
    <3>3. Asked(call[n].query) \in LoadTypes /\ Asked(selection') \in LoadTypes
      BY <2>1, <3>2, AskedType
    <3>4. load' \in [Loads -> LoadTypes]
      BY <1>1, <3>1, <3>3
    <3>5. \A m \in Loads : load'[m] \in {load[m], Asked(call[n].query), Asked(selection')}
      BY <1>1, <3>1
    <3>6. table' = table
      BY <2>4 DEF CreateReturns
    <3>7. QED
      BY <2>1, <3>2, <3>4, <3>5, <3>6
  <2>5. QED
    BY <1>7, <2>2, <2>3, <2>4
<1>8. CASE \E n \in ClickNumbers : CallFails(n)
  BY <1>3, <1>8 DEF CallFails
<1>9. CASE \E l \in Loads : Land(l) \/ LandsInError(l)
  BY <1>4, <1>9 DEF Land, LandsInError
<1>10. QED
  BY <1>5, <1>6, <1>7, <1>8, <1>9

\* The types of the table and the loads, and what the loads claim.
LoadsOK ==
  /\ table \in Seq(Rows) /\ Len(table) <= MaxTasks
  /\ load \in [Loads -> LoadTypes] /\ \A l \in Loads : Sure(l)

LEMMA LoadsStep ==
  ASSUME PageInv, Next
  PROVE  LoadsOK'
<1>1. LoadsOK
  BY DEF PageInv, TypeOK, LoadTypes, LoadsOK
<1>2. CASE ServerChanges \/ \E n \in ClickNumbers : Serve(n)
  BY <1>2, WriteStep DEF LoadsOK
<1>3. CASE \E l \in Loads : Count(l)
  BY <1>1, <1>3, CountStep DEF Count, LoadsOK
<1>4. CASE \E l \in Loads : Page(l)
  BY <1>1, <1>4, PagingStep DEF Page, LoadsOK
<1>5. CASE \/ Poll \/ User
           \/ \E n \in ClickNumbers : DeleteReturns(n) \/ CreateReturns(n) \/ CallFails(n)
           \/ \E l \in Loads : Land(l) \/ LandsInError(l)
  BY <1>1, <1>5, OtherLoads, SureFrame DEF LoadsOK
<1>6. QED
  BY <1>2, <1>3, <1>4, <1>5 DEF Next, CallStep, LoadStep

\* The types of all that is not the table or a load.
ScreenOK ==
  /\ call \in [ClickNumbers -> {Idle} \cup Calls]
  /\ selection \in Selections
  /\ timers \subseteq Selections
  /\ view \in [query : Selections, rows : Seq(Rows), total : 0 .. MaxTasks]
  /\ loading \in BOOLEAN /\ error \in BOOLEAN

BoundsOK ==
  /\ changes \in 0 .. MaxChanges /\ clicks \in 0 .. MaxClicks /\ errors \in 0 .. MaxErrors
  /\ Reached

LEMMA BoundsStep ==
  ASSUME PageInv, Next
  PROVE  BoundsOK'
<1> USE DashboardAssumption DEF DashboardAssumption, BoundsOK
<1>1. BoundsOK
  BY DEF PageInv, TypeOK
<1>2. CASE User
  <2>1. ASSUME NEW q \in Selections, NEW n \in 0 .. clicks + 1,
               Click(q), q.offset = PageSize * n
        PROVE  BoundsOK'
    <3>1. /\ selection' = q /\ clicks' = clicks + 1 /\ clicks < MaxClicks
          /\ changes' = changes /\ errors' = errors
      BY <2>1 DEF Click, Select
    <3>2. selection'.offset = PageSize * n /\ n \in 0 .. clicks'
      BY <2>1, <3>1
    <3>3. Reached'
      BY <3>2 DEF Reached
    <3> HIDE DEF Reached
    <3>4. QED
      BY <1>1, <3>1, <3>3
  <2>2. CASE \E op \in {"create", "delete"} : Send(op)
    <3>1. /\ selection' = selection /\ clicks' = clicks + 1 /\ clicks < MaxClicks
          /\ changes' = changes /\ errors' = errors
      BY <2>2 DEF Send, page
    <3>2. PICK n \in 0 .. clicks : selection.offset = PageSize * n
      BY <1>1 DEF Reached
    <3>3. selection'.offset = PageSize * n /\ n \in 0 .. clicks'
      BY <1>1, <3>1, <3>2
    <3>4. Reached'
      BY <3>3 DEF Reached
    <3> HIDE DEF Reached
    <3>5. QED
      BY <1>1, <3>1, <3>4
  <2>3. QED
    BY <1>2, <2>1, <2>2, ClicksReach
<1>3. CASE \E n \in ClickNumbers : CreateReturns(n)
  <2>1. PageSize * 0 = 0
    OBVIOUS
  <2>2. selection' = [selection EXCEPT !.offset = 0] /\ bounds' = bounds
    BY <1>3 DEF CreateReturns
  <2>3. selection'.offset = 0
    BY <2>2 DEF PageInv, TypeOK, Selections
  <2>4. QED
    BY <1>1, <2>1, <2>2, <2>3 DEF Reached, bounds
<1>4. CASE ~User /\ \A n \in ClickNumbers : ~CreateReturns(n)
  <2>1. selection' = selection /\ clicks' = clicks
    BY <1>4 DEF Next, ServerChanges, Poll, CallStep, Serve, DeleteReturns, CallFails,
       LoadStep, Count, Page, Land, LandsInError, page, bounds
  <2>2. changes' \in 0 .. MaxChanges /\ errors' \in 0 .. MaxErrors
    BY <1>1, <1>4 DEF Next, ServerChanges, Poll, CallStep, Serve, DeleteReturns, CallFails,
       LoadStep, Count, Page, Land, LandsInError, page, bounds
  <2>3. QED
    BY <1>1, <2>1, <2>2 DEF Reached
<1>5. QED
  BY <1>2, <1>3, <1>4

LEMMA ScreenStep ==
  ASSUME PageInv, Next
  PROVE  ScreenOK'
<1>1. ScreenOK /\ load \in [Loads -> LoadTypes]
  BY DEF PageInv, TypeOK, ScreenOK, LoadTypes
<1>2. CASE UNCHANGED <<call, page, view, error>>
  BY <1>1, <1>2 DEF ScreenOK, page
<1>3. CASE User
  <2>1. ASSUME NEW q \in Selections, Click(q)
        PROVE  ScreenOK'
    <3>1. /\ call' = call /\ view' = view /\ error' = error /\ selection' = q
          /\ timers' = timers \/ timers' = {q}
          /\ loading' = loading \/ loading' = TRUE
      BY <2>1 DEF Click, Select, Timers
    <3>2. QED
      BY <1>1, <2>1, <3>1 DEF ScreenOK
  <2>2. ASSUME NEW op \in {"create", "delete"}, Send(op)
        PROVE  ScreenOK'
    <3>1. /\ call' = [call EXCEPT ![clicks + 1] = [at |-> "sent", op |-> op, query |-> selection]]
          /\ UNCHANGED <<page, view, error>>
      BY <2>2 DEF Send
    <3>2. [at |-> "sent", op |-> op, query |-> selection] \in Calls
      BY <1>1, <2>2 DEF ScreenOK, Calls
    <3>3. call' \in [ClickNumbers -> {Idle} \cup Calls]
      BY <1>1, <3>1, <3>2 DEF ScreenOK
    <3>4. QED
      BY <1>1, <3>1, <3>3 DEF ScreenOK, page
  <2>3. QED
    BY <1>3, <2>1, <2>2, ClicksReach
<1>4. ASSUME NEW n \in ClickNumbers, Serve(n)
      PROVE  ScreenOK'
  <2>1. /\ call[n].at = "sent"
        /\ call' = [call EXCEPT ![n] = [call[n] EXCEPT !.at = "served"]]
        /\ UNCHANGED <<page, view, error>>
    BY <1>4 DEF Serve
  <2>2. call[n] \in Calls
    BY <1>1, <2>1 DEF ScreenOK, Idle
  <2>3. [call[n] EXCEPT !.at = "served"] \in Calls
    BY <2>2 DEF Calls
  <2>4. call' \in [ClickNumbers -> {Idle} \cup Calls]
    BY <1>1, <2>1, <2>3 DEF ScreenOK
  <2>5. QED
    BY <1>1, <2>1, <2>4 DEF ScreenOK, page
<1>5. ASSUME NEW n \in ClickNumbers, CreateReturns(n)
      PROVE  ScreenOK'
  <2>1. /\ selection' = [selection EXCEPT !.offset = 0]
        /\ call' = [call EXCEPT ![n] = Idle]
        /\ view' = view /\ error' = error
        /\ timers' = timers \/ timers' = {selection'}
        /\ loading' = loading \/ loading' = TRUE
    BY <1>5 DEF CreateReturns, Timers
  <2>2. selection' \in Selections
    <3>1. PageSize * 0 = 0 /\ 0 \in 0 .. MaxClicks
      BY DashboardAssumption DEF DashboardAssumption
    <3>2. QED
      BY <1>1, <2>1, <3>1 DEF ScreenOK, Selections
  <2>3. QED
    BY <1>1, <2>1, <2>2 DEF ScreenOK
<1>6. ASSUME NEW n \in ClickNumbers, DeleteReturns(n) \/ CallFails(n)
      PROVE  ScreenOK'
  BY <1>1, <1>6 DEF DeleteReturns, CallFails, ScreenOK, page
<1>7. ASSUME NEW l \in Loads, Land(l)
      PROVE  ScreenOK'
  <2>1. /\ load[l].at = "answered" /\ loading' = FALSE /\ error' = FALSE
        /\ view' = [query |-> load[l].query, rows |-> load[l].rows, total |-> load[l].total]
        /\ UNCHANGED <<call, selection, timers>>
    BY <1>7 DEF Land
  <2>2. load[l] \in Answered
    <3>1. load[l] \notin {Idle} \cup Asking \cup Counted
      BY <2>1 DEF Idle, Asking, Counted
    <3>2. QED
      BY <1>1, <3>1 DEF LoadTypes
  <2>3. view' \in [query : Selections, rows : Seq(Rows), total : 0 .. MaxTasks]
    BY <2>1, <2>2 DEF Answered
  <2>4. QED
    BY <1>1, <2>1, <2>3 DEF ScreenOK
<1>8. ASSUME NEW l \in Loads, LandsInError(l)
      PROVE  ScreenOK'
  BY <1>1, <1>8 DEF LandsInError, ScreenOK
<1>9. CASE ServerChanges \/ Poll \/ \E l \in Loads : Count(l) \/ Page(l)
  BY <1>2, <1>9 DEF ServerChanges, Poll, Count, Page
<1>10. QED
  BY <1>3, <1>4, <1>5, <1>6, <1>7, <1>8, <1>9 DEF Next, CallStep, LoadStep

LEMMA PageInvariant == Spec => []PageInv
<1>1. PageInv /\ [Next]_vars => PageInv'
  <2>1. ASSUME PageInv, Next PROVE PageInv'
    <3>1. TypeOK'
      BY <2>1, LoadsStep, BoundsStep, ScreenStep
         DEF TypeOK, LoadsOK, ScreenOK, BoundsOK, LoadTypes
    <3>2. QED
      BY <2>1, <3>1, LoadsStep, BoundsStep DEF PageInv, LoadsOK, BoundsOK
  <2>2. ASSUME PageInv, UNCHANGED vars PROVE PageInv'
    <3>1. TypeOK'
      BY <2>2 DEF PageInv, TypeOK, vars, page, bounds
    <3>2. Reached'
      BY <2>2 DEF PageInv, Reached, vars, page, bounds
    <3>3. \A l \in Loads : Sure(l)'
      BY <2>2, SureFrame DEF PageInv, vars
    <3>4. QED
      BY <3>1, <3>2, <3>3 DEF PageInv
  <2>3. QED
    BY <2>1, <2>2
<1>2. QED
  BY PageInit, <1>1, PTL DEF Spec

\* Every reachable state of the page is well typed: an offset is a number of
\* whole pages, never below the first, and every place of a page has a row.
THEOREM PageTypes == Spec => []TypeOK
<1>1. PageInv => TypeOK
  BY DEF PageInv
<1>2. QED
  BY PageInvariant, <1>1, PTL

\* However many rows, pages, filters and loads there are, an answer between
\* whose two statements nobody wrote has exactly the rows its total promises.
THEOREM UntornAnswersAreWhole == Spec => []WholeUnlessTorn
<1>1. PageInv => WholeUnlessTorn
  BY DEF PageInv, Sure, WholeUnlessTorn
<1>2. QED
  BY PageInvariant, <1>1, PTL
==============================================================================
