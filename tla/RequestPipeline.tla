--------------------------- MODULE RequestPipeline ---------------------------
(***************************************************************************)
(* The way of a request through the API process: middleware (size guard,   *)
(* request id, access log, metrics), routing, body, key and validation,    *)
(* a connection of the pool, the handler's statements and its transaction, *)
(* the error handlers.  All requests are about one task.                   *)
(*                                                                         *)
(* POST and its key are IdempotentCreate, GET /tasks is Dashboard.  A      *)
(* session takes a connection for its first statement and gives it back    *)
(* when its transaction ends: the refresh after a commit needs another.    *)
(***************************************************************************)
EXTENDS TaskModel, Sequences, FiniteSets

CONSTANTS Requests,
          KindsOf,        \* KindsOf[r]: what request r may ask for
          NoKind, NoOne,
          PoolLimit,      \* db_pool_size + db_max_overflow
          MaxFaults       \* bound: database errors

Ops == {"live", "health", "get", "patch", "delete"}

\* The checks before a handler, in their order, and the answer of each.  The
\* body is parsed before the dependencies run, and these before validation.
Checks == << [flaw |-> "oversized", code |-> 413],
             [flaw |-> "unrouted",  code |-> 404],
             [flaw |-> "malformed", code |-> 422],
             [flaw |-> "no_key",    code |-> 401],
             [flaw |-> "invalid",   code |-> 422] >>

Flaws == {Checks[i].flaw : i \in 1 .. Len(Checks)}

Kinds == UNION {KindsOf[r] : r \in Requests}

ASSUME PipelineAssumption ==
  /\ \A k \in Kinds : k.op \in Ops /\ k.to \in TaskStatus /\ k.flaws \subseteq Flaws
  /\ IsFiniteSet(Requests)
  /\ NoKind \notin Kinds /\ NoOne \notin Requests
  /\ PoolLimit \in Nat \ {0} /\ MaxFaults \in Nat

VARIABLES status,          \* the task's status, or "deleted"
          holder,          \* the request whose transaction locks the row
          free,            \* connections the pool can still hand out
          kind, pc, code,  \* of each request: what it asks, where it is, its answer
          context,         \* context[r]: is request_id_ctx set in r's context?
          logged,          \* logged[r]: the code in r's line of the access log
          unlabelled,      \* history: requests with a log record without their id
          http_requests_total,
          faults

data == <<status, holder>>
trace == <<context, logged, unlabelled, http_requests_total>>
vars == <<data, free, kind, pc, code, trace, faults>>

Codes == {200, 204, 401, 404, 409, 413, 422, 500, 503}

\* Places in which the request's session holds a connection.
Connected == {"query", "locked", "delete", "refresh"}

Places == Connected \cup {"new", "checkout", "refresh_checkout", "responding",
                          "raised", "unhandled", "answered"}

TypeOK ==
  /\ status \in TaskStatus \cup {"deleted"}
  /\ holder \in Requests \cup {NoOne}
  /\ free \in 0 .. PoolLimit
  /\ kind \in [Requests -> Kinds \cup {NoKind}]
  /\ pc \in [Requests -> Places]
  /\ code \in [Requests -> Codes \cup {0}]
  /\ logged \in [Requests -> Codes \cup {0}]
  /\ context \in [Requests -> BOOLEAN]
  /\ unlabelled \subseteq Requests
  /\ http_requests_total \in [Codes -> 0 .. Cardinality(Requests)]
  /\ faults \in 0 .. MaxFaults

Init ==
  /\ status \in TaskStatus \cup {"deleted"}
  /\ holder = NoOne
  /\ free = PoolLimit
  /\ kind = [r \in Requests |-> NoKind]
  /\ pc = [r \in Requests |-> "new"]
  /\ code = [r \in Requests |-> 0]
  /\ context = [r \in Requests |-> FALSE]
  /\ logged = [r \in Requests |-> 0]
  /\ unlabelled = {}
  /\ http_requests_total = [c \in Codes |-> 0]
  /\ faults = 0

Goto(r, place) == pc' = [pc EXCEPT ![r] = place]

\* The handler has its answer: its session is closed before the middleware
\* sees the response, or the exception.
Answer(r, c) == Goto(r, "responding") /\ code' = [code EXCEPT ![r] = c]

Raises(r) == Goto(r, "raised") /\ UNCHANGED code

\* Mutant: an unlimited overflow.
TakeConnection_Unlimited == free' = free - 1

TakeConnection == free > 0 /\ free' = free - 1
GiveBack == free' = free + 1

------------------------------------------------------------------------------
\* The checks.

Refusal(k) ==
  LET fails(i) == Checks[i].flaw \in k.flaws
      first    == CHOOSE i \in 1 .. Len(Checks) :
                    fails(i) /\ \A j \in 1 .. i - 1 : ~fails(j)
  IN  Checks[first].code

\* The size guard answers by itself, before the log and the counter.
Receive(r) ==
  /\ pc[r] = "new"
  /\ \E k \in KindsOf[r] :
       /\ kind' = [kind EXCEPT ![r] = k]
       /\ context' = [context EXCEPT ![r] = "oversized" \notin k.flaws]
       /\ IF k.flaws # {}
            THEN /\ code' = [code EXCEPT ![r] = Refusal(k)]
                 /\ Goto(r, IF "oversized" \in k.flaws THEN "answered" ELSE "responding")
            ELSE IF k.op = "live" THEN Answer(r, 200)
                                  ELSE Goto(r, "checkout") /\ UNCHANGED code
  /\ UNCHANGED <<data, free, logged, unlabelled, http_requests_total, faults>>

------------------------------------------------------------------------------
\* The handlers.

Is(r, place, op) == pc[r] = place /\ kind[r].op = op

\* readiness() catches everything; nothing else does.
Breaks(r) == IF kind[r].op = "health" THEN Answer(r, 503) ELSE Raises(r)

Checkout(r) ==
  /\ \/ pc[r] = "checkout" /\ Goto(r, "query")
     \/ pc[r] = "refresh_checkout" /\ Goto(r, "refresh")
  /\ TakeConnection
  /\ UNCHANGED <<data, kind, code, trace, faults>>

\* No connection became free for pool_timeout seconds.
PoolTimeout(r) ==
  /\ pc[r] \in {"checkout", "refresh_checkout"}
  /\ free = 0
  /\ Breaks(r)
  /\ UNCHANGED <<data, free, kind, trace, faults>>

Probe(r) ==
  /\ Is(r, "query", "health")
  /\ Answer(r, 200)
  /\ GiveBack
  /\ UNCHANGED <<data, kind, trace, faults>>

Get(r) ==
  /\ Is(r, "query", "get")
  /\ Answer(r, IF status = "deleted" THEN 404 ELSE 200)
  /\ GiveBack
  /\ UNCHANGED <<data, kind, trace, faults>>

Allowed(r) == status # "deleted" /\ can_transition(status, kind[r].to)

\* Mutant: SELECT without FOR UPDATE.
KeepsLock_Never(r) == UNCHANGED holder

KeepsLock(r) == holder' = r

\* Mutants: the transaction is left open; the session is never closed.
LeavesAtOnce_InTransaction(r) == GiveBack /\ holder' = r
LeavesAtOnce_Leaks(r) == UNCHANGED <<holder, free>>

LeavesAtOnce(r) == GiveBack /\ UNCHANGED holder

\* SELECT ... FOR UPDATE waits for the row's lock.  Only an allowed
\* transition keeps it: 404, the no-op and 409 end the transaction.
PatchSelect(r) ==
  /\ Is(r, "query", "patch")
  /\ holder = NoOne
  /\ IF Allowed(r)
       THEN KeepsLock(r) /\ Goto(r, "locked") /\ UNCHANGED <<code, free>>
       ELSE LeavesAtOnce(r) /\ Answer(r, IF status = "deleted" THEN 404
                                         ELSE IF status = kind[r].to THEN 200 ELSE 409)
  /\ UNCHANGED <<status, kind, trace, faults>>

Commits(r, s) == status' = s /\ holder' = IF holder = r THEN NoOne ELSE holder

PatchCommit(r) ==
  /\ pc[r] = "locked"
  /\ Commits(r, kind[r].to)
  /\ GiveBack
  /\ Goto(r, "refresh_checkout")
  /\ UNCHANGED <<kind, code, trace, faults>>

\* The answer shows the row as it is now; there may be none any more.
PatchRefresh(r) ==
  /\ pc[r] = "refresh"
  /\ IF status = "deleted" THEN Raises(r) ELSE Answer(r, 200)
  /\ GiveBack
  /\ UNCHANGED <<data, kind, trace, faults>>

\* A plain SELECT: no lock is asked for.
DeleteSelect(r) ==
  /\ Is(r, "query", "delete")
  /\ IF status = "deleted" THEN Answer(r, 404) /\ GiveBack
                           ELSE Goto(r, "delete") /\ UNCHANGED <<code, free>>
  /\ UNCHANGED <<data, kind, trace, faults>>

\* DELETE waits for the lock.  If another request was faster it matches no
\* row, of which SQLAlchemy only warns.
DeleteCommit(r) ==
  /\ pc[r] = "delete"
  /\ holder = NoOne
  /\ Commits(r, "deleted")
  /\ GiveBack
  /\ Answer(r, 204)
  /\ UNCHANGED <<kind, trace, faults>>

\* The connection breaks; if it was at a commit, before or after its effect.
DatabaseError(r) ==
  /\ faults < MaxFaults
  /\ faults' = faults + 1
  /\ pc[r] \in Connected \cup {"checkout", "refresh_checkout"}
  /\ \/ Commits(r, status)
     \/ pc[r] = "locked" /\ Commits(r, kind[r].to)
     \/ pc[r] = "delete" /\ holder = NoOne /\ Commits(r, "deleted")
  /\ Breaks(r)
  /\ free' = IF pc[r] \in Connected THEN free + 1 ELSE free
  /\ UNCHANGED <<kind, trace>>

------------------------------------------------------------------------------
\* The way back.

\* A log record carries the id that is in the context, if any.
Record(r) == unlabelled' = IF context[r] THEN unlabelled ELSE unlabelled \cup {r}

Observe(r, c) ==
  /\ http_requests_total' = [http_requests_total EXCEPT ![c] = @ + 1]
  /\ logged' = [logged EXCEPT ![r] = c]
  /\ Record(r)
  /\ context' = [context EXCEPT ![r] = FALSE]

\* dispatch() gets a response: the access record, the counter, the header.
Respond(r) ==
  /\ pc[r] = "responding"
  /\ Observe(r, code[r])
  /\ Goto(r, "answered")
  /\ UNCHANGED <<data, free, kind, code, faults>>

\* Mutant: the exception passes dispatch() as it is.
RequestFailed_Unseen(r) ==
  /\ pc[r] = "raised"
  /\ Goto(r, "unhandled")
  /\ UNCHANGED <<data, free, kind, code, trace, faults>>

\* dispatch() gets an exception: "request_failed", 500, the id reset, raise.
RequestFailed(r) ==
  /\ pc[r] = "raised"
  /\ Observe(r, 500)
  /\ Goto(r, "unhandled")
  /\ UNCHANGED <<data, free, kind, code, faults>>

\* _handle_unexpected runs outside of the middleware.
HandleUnexpected(r) ==
  /\ pc[r] = "unhandled"
  /\ Record(r)
  /\ Goto(r, "answered")
  /\ code' = [code EXCEPT ![r] = 500]
  /\ UNCHANGED <<data, free, kind, context, logged, http_requests_total, faults>>

------------------------------------------------------------------------------
\* A worker claims the pending task, or a run writes its outcome over
\* whatever status the task has (Worker).  Both respect the row's lock.
WorkerWrites ==
  /\ status # "deleted"
  /\ holder = NoOne
  /\ \/ status = "pending" /\ status' = "running"
     \/ status' \in {"pending", "succeeded", "dead"}
  /\ UNCHANGED <<holder, free, kind, pc, code, trace, faults>>

Step(r) == \/ Checkout(r) \/ PoolTimeout(r) \/ Probe(r) \/ Get(r)
           \/ PatchSelect(r) \/ PatchCommit(r) \/ PatchRefresh(r)
           \/ DeleteSelect(r) \/ DeleteCommit(r)
           \/ Respond(r) \/ RequestFailed(r) \/ HandleUnexpected(r)

Next == \/ WorkerWrites
        \/ \E r \in Requests : Receive(r) \/ Step(r) \/ DatabaseError(r)

Spec == Init /\ [][Next]_vars

\* Every await of a handler ends: by its result, the pool's timeout, or the
\* release of a lock, for which PostgreSQL queues the waiting.
Fairness == \A r \in Requests : WF_vars(Step(r))

FairSpec == Spec /\ Fairness

------------------------------------------------------------------------------
\* The outcome a request has reached, as RowRequests knows it.
Outcome(r) ==
  IF \/ kind[r] = NoKind
     \/ kind[r].flaws # {}
     \/ kind[r].op \notin {"patch", "delete"}
    THEN "open"
    ELSE CASE pc[r] \in {"refresh_checkout", "refresh"} \/ code[r] \in {200, 204} -> "done"
           [] pc[r] \in {"raised", "unhandled"} \/ code[r] = 500 -> "failed"
           [] code[r] = 404 -> "missing"
           [] code[r] = 409 -> "conflict"
           [] OTHER -> "open"

Promise == INSTANCE RowRequests WITH outcome <- [r \in Requests |-> Outcome(r)]

\* PATCH and DELETE race each other, the worker, a broken connection and the
\* end of the pool; each takes effect at most once and in one instant, and is
\* told what was true then.  A 500 may hide an effect.  (service.py:91-120)
ImplementsRowRequests == Promise!Spec

\* No path through a handler, by an answer, a refusal, an exception or a
\* timeout, keeps a connection, or a lock without its connection; the pool
\* would shrink with every such request (database.py:25-41).
NothingLeaks ==
  /\ free = PoolLimit - Cardinality({r \in Requests : pc[r] \in Connected})
  /\ holder # NoOne => pc[holder] = "locked"

\* What the metrics and the access log say of a request is what its client
\* was told, on the paths that end in an exception too; only what the size
\* guard rejects is in neither (middleware.py:36-97).
LogsAgreeWithAnswers ==
  /\ \A r \in Requests : pc[r] = "answered" =>
       logged[r] = IF "oversized" \in kind[r].flaws THEN 0 ELSE code[r]
  /\ \A c \in Codes : http_requests_total[c] = Cardinality({r \in Requests : logged[r] = c})

\* Requests that wait for a connection, which others hold while they wait for
\* the row's lock, do not block each other: all are answered.
EveryRequestIsAnswered ==
  \A r \in Requests : pc[r] # "new" ~> pc[r] = "answered"

\* "Structured JSON logs with a per-request id on every line" (README.md:357).
EveryRecordHasId == unlabelled = {}
==============================================================================
