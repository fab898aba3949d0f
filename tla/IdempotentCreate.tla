--------------------------- MODULE IdempotentCreate ---------------------------
(***************************************************************************)
(* create_task (app/service.py) under concurrent and resent requests.  The *)
(* lookup is only a fast path; the partial unique index on idempotency_key *)
(* (app/models.py) decides the race, and the loser looks the key up again. *)
(*                                                                         *)
(* Clients that send a key may resend a request whenever they like: after  *)
(* an error, or having given up on an answer, so that the earlier request  *)
(* may still be in progress.  Request <<c, n>> is the n-th of client c,    *)
(* and names the task it inserts (a fresh UUID).                           *)
(***************************************************************************)
EXTENDS Integers, FiniteSets

CONSTANTS Clients,
          Key,            \* Key[c]: the idempotency_key client c sends
          NoKey,          \* idempotency_key is None
          None,           \* no answer yet
          Failed,         \* a 500 answer
          MaxSends,       \* bound: requests per client
          MaxFaults       \* bound: database errors

VARIABLES table,          \* the committed tasks
          deleted,        \* the tasks DELETE removed
          pc,             \* pc[r]: where request r is in create_task
          reply,          \* reply[r]: the task answered to r, None or Failed
          tasks_created_total,
          faults

vars == <<table, deleted, pc, reply, tasks_created_total, faults>>

Requests == Clients \X (1 .. MaxSends)

ASSUME CreateAssumption ==
  /\ MaxSends \in Nat /\ MaxFaults \in Nat
  /\ None \notin Requests /\ Failed \notin Requests /\ None # Failed

KeyOf == [r \in Requests |-> Key[r[1]]]

ActivePlaces == {"lookup", "insert", "commit", "relookup", "refresh"}

TypeOK ==
  /\ table \subseteq Requests
  /\ deleted \subseteq Requests
  /\ pc \in [Requests -> ActivePlaces \cup {"unsent", "answered"}]
  /\ reply \in [Requests -> Requests \cup {None, Failed}]
  /\ tasks_created_total \in 0 .. Cardinality(table \cup deleted)
  /\ faults \in 0 .. MaxFaults

Init ==
  /\ table = {}
  /\ deleted = {}
  /\ pc = [r \in Requests |-> "unsent"]
  /\ reply = [r \in Requests |-> None]
  /\ tasks_created_total = 0
  /\ faults = 0

Goto(r, place) == pc' = [pc EXCEPT ![r] = place] /\ UNCHANGED reply

Answer(r, task) == /\ pc' = [pc EXCEPT ![r] = "answered"]
                   /\ reply' = [reply EXCEPT ![r] = task]

\* Mutant: the WHERE clause is lost.
FindByKey_AnyKey(r) == {t \in table : KeyOf[r] # NoKey}

\* The committed tasks with the key of r.
FindByKey(r) == {t \in table : KeyOf[t] = KeyOf[r] /\ KeyOf[r] # NoKey}

\* Has another transaction inserted the key of r and not committed yet?
KeyInFlight(r) ==
  \E q \in Requests \ {r} :
     pc[q] = "commit" /\ KeyOf[q] = KeyOf[r] /\ KeyOf[r] # NoKey

------------------------------------------------------------------------------
Send(r) ==
  /\ pc[r] = "unsent"
  /\ r[2] > 1 => KeyOf[r] # NoKey /\ pc[<<r[1], r[2] - 1>>] # "unsent"
  /\ Goto(r, IF KeyOf[r] = NoKey THEN "insert" ELSE "lookup")
  /\ UNCHANGED <<table, deleted, tasks_created_total, faults>>

\* Mutant: counts the task it found as created.
Lookup_Counts(r) ==
  /\ pc[r] = "lookup"
  /\ \/ /\ \E t \in FindByKey(r) : Answer(r, t)
        /\ tasks_created_total' = tasks_created_total + 1
     \/ /\ FindByKey(r) = {}
        /\ Goto(r, "insert")
        /\ UNCHANGED tasks_created_total
  /\ UNCHANGED <<table, deleted, faults>>

Lookup(r) ==
  /\ pc[r] = "lookup"
  /\ \/ \E t \in FindByKey(r) : Answer(r, t)
     \/ FindByKey(r) = {} /\ Goto(r, "insert")
  /\ UNCHANGED <<table, deleted, tasks_created_total, faults>>

\* Mutants: there is no unique index; the index is checked against committed
\* rows only; a conflict is waited out.
Insert_NoIndex(r) ==
  /\ pc[r] = "insert"
  /\ Goto(r, "commit")
  /\ UNCHANGED <<table, deleted, tasks_created_total, faults>>
Insert_NoWait(r) ==
  /\ pc[r] = "insert"
  /\ Goto(r, IF FindByKey(r) = {} THEN "commit" ELSE "relookup")
  /\ UNCHANGED <<table, deleted, tasks_created_total, faults>>
Insert_Spins(r) ==
  /\ pc[r] = "insert"
  /\ ~KeyInFlight(r) /\ FindByKey(r) = {}
  /\ Goto(r, "commit")
  /\ UNCHANGED <<table, deleted, tasks_created_total, faults>>

\* INSERT: waits for a transaction that holds the key in the index, then
\* succeeds or raises IntegrityError (and rolls back).
Insert(r) ==
  /\ pc[r] = "insert"
  /\ ~KeyInFlight(r)
  /\ Goto(r, IF FindByKey(r) = {} THEN "commit" ELSE "relookup")
  /\ UNCHANGED <<table, deleted, tasks_created_total, faults>>

Commit(r) ==
  /\ pc[r] = "commit"
  /\ table' = table \cup {r}
  /\ Goto(r, "refresh")
  /\ UNCHANGED <<deleted, tasks_created_total, faults>>

\* Mutant: the loser re-raises at once.
Relookup_Raises(r) ==
  /\ pc[r] = "relookup"
  /\ Answer(r, Failed)
  /\ UNCHANGED <<table, deleted, tasks_created_total, faults>>

\* The loser returns the winner's row; if that is gone by now, it re-raises.
Relookup(r) ==
  /\ pc[r] = "relookup"
  /\ \/ \E t \in FindByKey(r) : Answer(r, t)
     \/ FindByKey(r) = {} /\ Answer(r, Failed)
  /\ UNCHANGED <<table, deleted, tasks_created_total, faults>>

\* Mutant: counts before it refreshes.
Refresh_CountsFirst(r) ==
  /\ pc[r] = "refresh"
  /\ Answer(r, IF r \in table THEN r ELSE Failed)
  /\ tasks_created_total' = tasks_created_total + 1
  /\ UNCHANGED <<table, deleted, faults>>

\* session.refresh reads the new row back, and raises if it is gone.
Refresh(r) ==
  /\ pc[r] = "refresh"
  /\ \/ /\ r \in table
        /\ Answer(r, r)
        /\ tasks_created_total' = tasks_created_total + 1
     \/ /\ r \notin table
        /\ Answer(r, Failed)
        /\ UNCHANGED tasks_created_total
  /\ UNCHANGED <<table, deleted, faults>>

\* The database connection breaks; a COMMIT may have been applied.
DatabaseError(r) ==
  /\ pc[r] \in ActivePlaces
  /\ faults < MaxFaults
  /\ faults' = faults + 1
  /\ Answer(r, Failed)
  /\ \/ UNCHANGED table
     \/ pc[r] = "commit" /\ table' = table \cup {r}
  /\ UNCHANGED <<deleted, tasks_created_total>>

\* DELETE /tasks/{id} by anyone.
Delete(t) ==
  /\ t \in table
  /\ table' = table \ {t}
  /\ deleted' = deleted \cup {t}
  /\ UNCHANGED <<pc, reply, tasks_created_total, faults>>

Step(r) == \/ Lookup(r) \/ Insert(r) \/ Commit(r)
           \/ Relookup(r) \/ Refresh(r)

Next == \/ \E r \in Requests : Send(r) \/ Step(r) \/ DatabaseError(r)
        \/ \E t \in table : Delete(t)

Spec == Init /\ [][Next]_vars

\* Every request that was sent makes progress.
FairSpec == Spec /\ \A r \in Requests : WF_vars(Step(r))

------------------------------------------------------------------------------
Created == table \cup deleted

\* A key never has two tasks, counting the one a transaction is about to
\* commit, so that scalar_one_or_none (service.py:26) never sees two rows.
OneTaskPerKey ==
  \A r1, r2 \in {r \in Requests : r \in table \/ pc[r] = "commit"} :
     KeyOf[r1] = KeyOf[r2] /\ KeyOf[r1] # NoKey => r1 = r2

\* Every answer with a key is the task that holds the key, or one that was
\* deleted since: clients that share a key are never told of different tasks.
RepliesAgree ==
  \A r \in Requests :
     reply[r] \in Requests => /\ KeyOf[reply[r]] = KeyOf[r]
                              /\ reply[r] \in table \cup deleted
                              /\ reply[r] # r => KeyOf[r] # NoKey

\* The IntegrityError of a lost race is never the client's problem: a request
\* fails only if the database did, or a DELETE hit its own task or, if it has a
\* key, the task that won it.
Explains(t, r) == t = r \/ (KeyOf[t] = KeyOf[r] /\ KeyOf[r] # NoKey)

FailuresAreExplained ==
  \A r \in Requests :
     reply[r] = Failed => faults > 0 \/ \E t \in deleted : Explains(t, r)

\* tasks_created_total counts each created task once, except those whose
\* creator never answered with them.
CounterIsExact ==
  tasks_created_total = Cardinality({r \in Created : reply[r] = r})

\* create_task is an atomic get-or-create.  Its instant is the commit of the
\* row, or the lookup that found one.
Registry == INSTANCE GetOrCreate WITH
  Undecided <- None,
  decided <- [r \in Requests |-> IF r \in Created THEN r ELSE reply[r]]

IsAtomic == Registry!Spec

\* Every request is answered: no wait on the unique index lasts for ever.
EveryRequestIsAnswered ==
  \A r \in Requests : pc[r] \in ActivePlaces ~> pc[r] = "answered"
==============================================================================
