------------------------ MODULE SharedConnectionProofs ------------------------
(***************************************************************************)
(* What sharing one connection does not cost: theorems of SharedConnection *)
(* for any number of requests, failures and crashes.                       *)
(***************************************************************************)
EXTENDS SharedConnection, TLAPS

(***************************************************************************)
(* An acknowledged create is durable because an inserted one cannot get    *)
(* lost before its commit, although others commit, fail and roll back: it  *)
(* is in the transaction, on disk, or undone by SQLite.                    *)
(***************************************************************************)
Kept ==
  \A p \in Posts : pc[p] = "inserted" => p \in txn \cup durable \cup undone

SharedInv == /\ TypeOK /\ Kept
             /\ AcknowledgedIsDurable /\ OpenTransactionIsOwned /\ ListedRowsStay

LEMMA SharedInit == Init => SharedInv
<1> SUFFICES ASSUME Init PROVE SharedInv
  OBVIOUS
<1>1. pc \in [Requests -> {"new"}] /\ rows \in [Gets -> {{}}] /\ \A r \in Requests : pc[r] = "new"
  BY DEF Init
<1>2. TypeOK
  <2>1. up \in BOOLEAN
    BY DEF Init
  <2>2. pc \in [Requests -> {"new"} \cup Active \cup Over] /\ rows \in [Gets -> SUBSET Posts]
    BY <1>1
  <2>3. QED
    BY <1>1, <2>1, <2>2, SharedAssumption DEF Init, TypeOK, Active, SharedAssumption
<1>3. QED
  BY <1>1, <1>2
     DEF Init, SharedInv, Kept, AcknowledgedIsDurable, OpenTransactionIsOwned,
         ListedRowsStay, Requests

LEMMA TypeStep == TypeOK /\ [Next]_vars => TypeOK'
<1> SUFFICES ASSUME TypeOK, [Next]_vars PROVE TypeOK'
  OBVIOUS
<1> USE SharedAssumption DEF TypeOK, Requests, Active, Over, SharedAssumption
<1>1. CASE Startup \/ Shutdown
  BY <1>1 DEF Startup, Shutdown
<1>2. CASE Crash
  <2>0. faults' \in 0 .. MaxFaults
    BY <1>2 DEF Crash, Fault
  <2>1. up' \in BOOLEAN
    BY <1>2 DEF Crash
  <2>2. pc' \in [Requests -> {"new"} \cup Active \cup Over]
    BY <1>2 DEF Crash
  <2>3. txn' = {} /\ \A r \in Requests : pc'[r] \notin Active
    BY <1>2 DEF Crash
  <2>4. QED
    BY <1>2, <2>0, <2>1, <2>2, <2>3 DEF Crash
<1>3. ASSUME NEW r \in Requests, Refuse(r) PROVE TypeOK'
  BY <1>3 DEF Refuse, Goto
<1>4. ASSUME NEW p \in Posts, Insert(p) \/ Commit(p) \/ AnswerCreated(p) PROVE TypeOK'
  BY <1>4 DEF Insert, Commit, AnswerCreated, Goto
<1>5. ASSUME NEW p \in Posts, InsertFails(p) \/ CommitFails(p) PROVE TypeOK'
  BY <1>5 DEF InsertFails, CommitFails, Fails, AfterFailure, Fault, Goto
<1>6. ASSUME NEW g \in Gets, Select(g) \/ AnswerList(g) PROVE TypeOK'
  BY <1>6 DEF Select, AnswerList, Goto, Visible
<1>7. ASSUME NEW g \in Gets, SelectFails(g) PROVE TypeOK'
  BY <1>7 DEF SelectFails, Fails, AfterFailure, Fault, Goto
<1>8. CASE UNCHANGED vars
  BY <1>8 DEF vars
<1>9. QED
  BY <1>1, <1>2, <1>3, <1>4, <1>5, <1>6, <1>7, <1>8 DEF Next

\* A row that a listing has shown gets lost only with the open transaction, and
\* those whose rows are in it are known.
LEMMA ListedStep == SharedInv /\ [Next]_vars => ListedRowsStay'
<1> SUFFICES ASSUME SharedInv, [Next]_vars, NEW g \in Gets, NEW p \in rows'[g], p \notin Visible'
             PROVE  p \in undone' \/ pc'[p] \in {"commit_failed", "cut"}
  BY DEF ListedRowsStay
<1> USE SharedAssumption DEF SharedInv, TypeOK, Requests, SharedAssumption
<1> DEFINE Lost == p \in undone \/ pc[p] \in {"commit_failed", "cut"}
<1>0. p \in Posts
  BY TypeStep
<1>1. p \in rows[g] /\ p \notin Visible => Lost
  BY DEF ListedRowsStay
<1>2. p \in txn => pc[p] \in {"inserted", "commit_failed"}
  BY DEF OpenTransactionIsOwned
<1>3. CASE Startup \/ Shutdown
  BY <1>1, <1>2, <1>3 DEF Startup, Shutdown, Visible, Active
<1>4. CASE Crash
  BY <1>0, <1>1, <1>2, <1>4 DEF Crash, Visible, Active
<1>5. ASSUME NEW r \in Requests, Refuse(r)
      PROVE  p \in undone' \/ pc'[p] \in {"commit_failed", "cut"}
  BY <1>0, <1>1, <1>5 DEF Refuse, Goto, Visible
<1>6. ASSUME NEW q \in Posts, Insert(q) \/ Commit(q) \/ AnswerCreated(q)
      PROVE  p \in undone' \/ pc'[p] \in {"commit_failed", "cut"}
  BY <1>0, <1>1, <1>6 DEF Insert, Commit, AnswerCreated, Goto, Visible
<1>7. ASSUME NEW q \in Posts, InsertFails(q) \/ CommitFails(q)
      PROVE  p \in undone' \/ pc'[p] \in {"commit_failed", "cut"}
  BY <1>0, <1>1, <1>7 DEF InsertFails, CommitFails, Fails, AfterFailure, Goto, Visible
<1>8. ASSUME NEW h \in Gets, Select(h) \/ AnswerList(h)
      PROVE  p \in undone' \/ pc'[p] \in {"commit_failed", "cut"}
  BY <1>0, <1>1, <1>8 DEF Select, AnswerList, Goto, Visible
<1>9. ASSUME NEW h \in Gets, SelectFails(h)
      PROVE  p \in undone' \/ pc'[p] \in {"commit_failed", "cut"}
  BY <1>0, <1>1, <1>9 DEF SelectFails, Fails, AfterFailure, Goto, Visible
<1>10. CASE UNCHANGED vars
  BY <1>1, <1>10 DEF vars, Visible
<1>11. QED
  BY <1>3, <1>4, <1>5, <1>6, <1>7, <1>8, <1>9, <1>10 DEF Next

LEMMA SharedStep == SharedInv /\ [Next]_vars => SharedInv'
<1> SUFFICES ASSUME SharedInv, [Next]_vars PROVE SharedInv'
  OBVIOUS
<1> DEFINE Rest == Kept /\ AcknowledgedIsDurable /\ OpenTransactionIsOwned
<1>0. TypeOK'
  BY TypeStep DEF SharedInv
<1>1. Rest'
  <2> USE SharedAssumption
      DEF SharedInv, TypeOK, Kept, AcknowledgedIsDurable, OpenTransactionIsOwned,
          Requests, Active, Over, SharedAssumption
  <2>1. CASE Startup \/ Shutdown
    BY <2>1 DEF Startup, Shutdown
  <2>2. CASE Crash
    BY <2>2 DEF Crash
  <2>3. ASSUME NEW r \in Requests, Refuse(r) PROVE Rest'
    BY <2>3 DEF Refuse, Goto
  <2>4. ASSUME NEW p \in Posts, Insert(p) \/ Commit(p) \/ AnswerCreated(p) PROVE Rest'
    BY <2>4 DEF Insert, Commit, AnswerCreated, Goto
  <2>5. ASSUME NEW p \in Posts, InsertFails(p) \/ CommitFails(p) PROVE Rest'
    BY <2>5 DEF InsertFails, CommitFails, Fails, AfterFailure, Goto
  <2>6. ASSUME NEW g \in Gets, Select(g) \/ AnswerList(g) PROVE Rest'
    BY <2>6 DEF Select, AnswerList, Goto
  <2>7. ASSUME NEW g \in Gets, SelectFails(g) PROVE Rest'
    BY <2>7 DEF SelectFails, Fails, AfterFailure, Goto
  <2>8. CASE UNCHANGED vars
    BY <2>8 DEF vars
  <2>9. QED
    BY <2>1, <2>2, <2>3, <2>4, <2>5, <2>6, <2>7, <2>8 DEF Next
<1>2. QED
  BY <1>0, <1>1, ListedStep DEF SharedInv

LEMMA SharedInvariant == Spec => []SharedInv
<1>1. QED
  BY SharedInit, SharedStep, PTL DEF Spec

\* The variables stay in range, and a stopped process has no open transaction
\* and no request half way.
THEOREM SharedTypes == Spec => []TypeOK
<1>1. SharedInv => TypeOK
  BY DEF SharedInv
<1>2. QED
  BY <1>1, SharedInvariant, PTL

\* A task that was answered 201 is on disk, through all crashes and failures
\* of other requests, unless SQLite itself undid it.
THEOREM AcknowledgedSurvives == Spec => []AcknowledgedIsDurable
<1>1. SharedInv => AcknowledgedIsDurable
  BY DEF SharedInv
<1>2. QED
  BY <1>1, SharedInvariant, PTL

\* The open transaction never holds a row of a request that did not insert it
\* successfully.
THEOREM TransactionIsOwned == Spec => []OpenTransactionIsOwned
<1>1. SharedInv => OpenTransactionIsOwned
  BY DEF SharedInv
<1>2. QED
  BY <1>1, SharedInvariant, PTL

\* What a listing has shown stays, except what its own create did not get to
\* commit and what SQLite undid.
THEOREM ListingsAreKept == Spec => []ListedRowsStay
<1>1. SharedInv => ListedRowsStay
  BY DEF SharedInv
<1>2. QED
  BY <1>1, SharedInvariant, PTL

\* When its own request is over, only the commit of another create makes a task
\* durable; and only a failed commit leaves it where a listing finds it earlier.
THEOREM GhostsHaveTwoWays == Spec => GhostsAreExplained
<1> DEFINE Carried(p) ==
             p \in durable' \ durable =>
               /\ pc[p] = "commit_failed"
               /\ \E q \in Posts \ {p} : pc[q] = "inserted" /\ pc'[q] = "committed"
           Shown(p) ==
             \A g \in Gets : p \in rows'[g] \ rows[g] =>
               p \in durable \/ (p \in txn /\ pc[p] = "commit_failed")
<1>1. ASSUME SharedInv, [Next]_vars, NEW p \in Posts, pc[p] \in Over
      PROVE  Carried(p)
  <2> SUFFICES ASSUME p \in durable' \ durable
               PROVE  /\ pc[p] = "commit_failed"
                      /\ \E q \in Posts \ {p} : pc[q] = "inserted" /\ pc'[q] = "committed"
    OBVIOUS
  <2>1. PICK q \in Posts : Commit(q)
    BY <1>1 DEF Next, vars, Startup, Shutdown, Crash, Refuse, Insert, AnswerCreated,
                InsertFails, CommitFails, Fails, Select, AnswerList, SelectFails
  <2>2. p \in txn /\ pc[p] = "commit_failed"
    BY <1>1, <2>1 DEF Commit, SharedInv, OpenTransactionIsOwned, Over
  <2>3. q # p /\ pc[q] = "inserted" /\ pc'[q] = "committed"
    BY <1>1, <2>1, <2>2 DEF Commit, Goto, SharedInv, TypeOK, Requests
  <2>4. QED
    BY <2>2, <2>3
<1>2. ASSUME SharedInv, [Next]_vars, NEW p \in Posts, pc[p] \in Over
      PROVE  Shown(p)
  <2> SUFFICES ASSUME NEW g \in Gets, p \in rows'[g] \ rows[g]
               PROVE  p \in durable \/ (p \in txn /\ pc[p] = "commit_failed")
    OBVIOUS
  <2>1. Select(g)
    BY <1>2 DEF SharedInv, TypeOK, Next, vars, Startup, Shutdown, Crash, Refuse, Insert,
                Commit, AnswerCreated, InsertFails, CommitFails, Fails, Select,
                AnswerList, SelectFails
  <2>2. p \in durable \cup txn
    BY <1>2, <2>1 DEF Select, Visible, SharedInv, TypeOK
  <2>3. QED
    BY <1>2, <2>2 DEF SharedInv, OpenTransactionIsOwned, Over
<1> DEFINE Explained ==
             \A p \in Posts : pc[p] \in Over =>
               /\ p \in durable' \ durable =>
                    /\ pc[p] = "commit_failed"
                    /\ \E q \in Posts \ {p} : pc[q] = "inserted" /\ pc'[q] = "committed"
               /\ \A g \in Gets : p \in rows'[g] \ rows[g] =>
                    p \in durable \/ (p \in txn /\ pc[p] = "commit_failed")
<1>3. SharedInv /\ [Next]_vars => Explained
  BY <1>1, <1>2
<1>4. QED
  BY <1>3, SharedInvariant, PTL DEF Spec, GhostsAreExplained

==============================================================================
