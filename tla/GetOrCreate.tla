----------------------------- MODULE GetOrCreate -----------------------------
(***************************************************************************)
(* What POST /tasks with an idempotency key promises: each request, at one *)
(* instant, gets the task its key names or creates it.  A request that     *)
(* creates a task names it.                                                *)
(***************************************************************************)
CONSTANTS Requests,       \* requests, and the ids of the tasks they create
          KeyOf,          \* KeyOf[r]: the key of request r
          NoKey,          \* the key of a request that sends none
          Undecided,
          Failed

VARIABLES table,          \* the tasks that exist
          decided         \* decided[r]: the task request r got, or Failed

SameKey(r) == {t \in table : KeyOf[t] = KeyOf[r] /\ KeyOf[r] # NoKey}

Init == /\ table = {}
        /\ decided = [r \in Requests |-> Undecided]

Get(r) == \E t \in SameKey(r) :
            /\ decided' = [decided EXCEPT ![r] = t]
            /\ UNCHANGED table

Create(r) == /\ SameKey(r) = {}
             /\ table' = table \cup {r}
             /\ decided' = [decided EXCEPT ![r] = r]

Fail(r) == /\ decided' = [decided EXCEPT ![r] = Failed]
           /\ UNCHANGED table

Delete(t) == /\ table' = table \ {t}
             /\ UNCHANGED decided

Next == \/ \E r \in Requests : /\ decided[r] = Undecided
                               /\ Get(r) \/ Create(r) \/ Fail(r)
        \/ \E t \in table : Delete(t)

Spec == Init /\ [][Next]_<<table, decided>>
==============================================================================
