------------------------------ MODULE Dashboard ------------------------------
(***************************************************************************)
(* The dashboard (frontend/components/Dashboard.tsx) over GET /tasks       *)
(* (list_tasks of app/service.py, through the proxy's route handlers).     *)
(*                                                                         *)
(* A load is one fetch: the proxy passes it on, the API counts, then pages *)
(* (two statements, READ COMMITTED), and the answer lands whenever it      *)
(* comes.  A render's functions keep the selection of that render: the     *)
(* interval, the delete button and the form call the load they were made   *)
(* with.  React runs a click, the render and its effect before the next    *)
(* event, so they are one step.                                            *)
(***************************************************************************)
EXTENDS Integers, Sequences, FiniteSets, SequencesExt

CONSTANTS PageSize,       \* PAGE_SIZE
          Statuses,       \* the statuses a task may have here
          Filters,        \* what the user chooses from: "all", or a status
          FirstTable,     \* the rows when the page is opened
          MaxLoads,       \* bound: the loads in flight
          MaxTasks,       \* bound: the rows of the table
          MaxChanges,     \* bound: writes of workers and other clients
          MaxClicks,      \* bound: what the user does
          MaxErrors       \* bound: requests that fail

ASSUME DashboardAssumption ==
  /\ PageSize \in Nat \ {0} /\ "pending" \in Statuses
  /\ "all" \notin Statuses /\ "all" \in Filters /\ Filters \subseteq Statuses \cup {"all"}
  /\ FirstTable \in Seq([id : 0 .. Len(FirstTable), status : Statuses])
  /\ MaxLoads \in Nat \ {0} /\ MaxTasks \in Nat /\ Len(FirstTable) <= MaxTasks
  /\ MaxChanges \in Nat /\ MaxClicks \in Nat /\ MaxErrors \in Nat

VARIABLES table,          \* the rows, newest first (ORDER BY created_at DESC)
          load,           \* load[l]: a fetch, from its call to its answer
          call,           \* call[n]: the POST or DELETE that the n-th click sent
          selection,      \* the offset and status states
          timers,         \* the selections that running intervals load
          view,           \* what is shown: whose answer, its rows and total
          loading, error,
          changes, clicks, errors

page == <<selection, timers, loading>>
bounds == <<changes, clicks, errors>>
vars == <<table, load, call, page, view, error, bounds>>

Loads == 1 .. MaxLoads

ClickNumbers == 1 .. MaxClicks

Selections == [offset : {PageSize * n : n \in 0 .. MaxClicks}, status : Filters]

Rows == [id : 0 .. Len(FirstTable) + MaxChanges + MaxClicks, status : Statuses]

Idle == [at |-> "idle"]

Asked(q) == [at |-> "asked", query |-> q]

Asking == [at : {"asked"}, query : Selections]

Counted == [at : {"counted"}, query : Selections, total : 0 .. MaxTasks, torn : BOOLEAN]

Answered == [at : {"answered"}, query : Selections, total : 0 .. MaxTasks,
             torn : BOOLEAN, rows : Seq(Rows)]

Calls == [at : {"sent", "served"}, op : {"create", "delete"}, query : Selections]

TypeOK ==
  /\ table \in Seq(Rows) /\ Len(table) <= MaxTasks
  /\ load \in [Loads -> {Idle} \cup Asking \cup Counted \cup Answered]
  /\ call \in [ClickNumbers -> {Idle} \cup Calls]
  /\ selection \in Selections
  /\ timers \subseteq Selections
  /\ view \in [query : Selections, rows : Seq(Rows), total : 0 .. MaxTasks]
  /\ loading \in BOOLEAN /\ error \in BOOLEAN
  /\ changes \in 0 .. MaxChanges /\ clicks \in 0 .. MaxClicks /\ errors \in 0 .. MaxErrors

Free == {l \in Loads : load[l] = Idle}

\* The loads are alike: a new one takes the first place that is free.
Place == CHOOSE l \in Free : \A k \in Free : l <= k

\* load(): the functions of a render ask for that render's selection.
Start(q) == Free # {} /\ load' = [load EXCEPT ![Place] = Asked(q)]

Home == [offset |-> 0, status |-> "all"]

\* The first render and its effect.
Init ==
  /\ table = FirstTable
  /\ selection = Home
  /\ timers = {Home}
  /\ load = [l \in Loads |-> IF l = 1 THEN Asked(Home) ELSE Idle]
  /\ call = [n \in ClickNumbers |-> Idle]
  /\ view = [query |-> Home, rows |-> <<>>, total |-> 0]
  /\ loading = TRUE /\ error = FALSE
  /\ changes = 0 /\ clicks = 0 /\ errors = 0

------------------------------------------------------------------------------
\* list_tasks.

\* The places of the rows that match.
Matching(q) ==
  {i \in 1 .. Len(table) : q.status = "all" \/ table[i].status = q.status}

\* Mutant: the filter is not put on the count query.
CountOf_Unfiltered(q) == Len(table)

CountOf(q) == Cardinality(Matching(q))

\* A match is the Rank-th of the ordered result.
Rank(q, i) == Cardinality({j \in Matching(q) : j <= i})

\* OFFSET and LIMIT.
OnPage(q) == {i \in Matching(q) : Rank(q, i) \in q.offset + 1 .. q.offset + PageSize}

PageOf(q) ==
  [n \in 1 .. Cardinality(OnPage(q)) |->
     table[CHOOSE i \in OnPage(q) : Rank(q, i) = q.offset + n]]

Count(l) ==
  /\ load[l].at = "asked"
  /\ load' = [load EXCEPT ![l] = [at |-> "counted", query |-> @.query,
                                  total |-> CountOf(@.query), torn |-> FALSE]]
  /\ UNCHANGED <<table, call, page, view, error, bounds>>

Page(l) ==
  /\ load[l].at = "counted"
  /\ load' = [load EXCEPT ![l] = [at |-> "answered", query |-> @.query, torn |-> @.torn,
                                  total |-> @.total, rows |-> PageOf(@.query)]]
  /\ UNCHANGED <<table, call, page, view, error, bounds>>

\* A write between the two statements of a load tears its answer.
Tear == load' = [l \in Loads |->
                   IF load[l].at = "counted" THEN [load[l] EXCEPT !.torn = TRUE]
                                             ELSE load[l]]

Inserted(id) ==
  /\ Len(table) < MaxTasks
  /\ table' = << [id |-> id, status |-> "pending"] >> \o table

Removed == \E i \in 1 .. Len(table) : table' = RemoveAt(table, i)

\* Another client creates or deletes, or a worker moves a task.
ServerChanges ==
  /\ changes < MaxChanges
  /\ \/ Inserted(Len(FirstTable) + changes)
     \/ Removed
     \/ \E i \in 1 .. Len(table), s \in Statuses : table' = [table EXCEPT ![i].status = s]
  /\ Tear
  /\ changes' = changes + 1
  /\ UNCHANGED <<call, page, view, error, clicks, errors>>

------------------------------------------------------------------------------
\* The page.

\* load() resumes with an answer of status 200.
Land(l) ==
  /\ load[l].at = "answered"
  /\ view' = [query |-> load[l].query, rows |-> load[l].rows, total |-> load[l].total]
  /\ error' = FALSE
  /\ loading' = FALSE
  /\ load' = [load EXCEPT ![l] = Idle]
  /\ UNCHANGED <<table, call, selection, timers, bounds>>

\* It resumes with another status, or fetch() throws.  A load changes nothing
\* but the page, so it need not have got any further.
LandsInError(l) ==
  /\ errors < MaxErrors
  /\ errors' = errors + 1
  /\ load[l].at = "asked"
  /\ error' = TRUE
  /\ loading' = FALSE
  /\ load' = [load EXCEPT ![l] = Idle]
  /\ UNCHANGED <<table, call, selection, timers, view, changes, clicks>>

Poll ==
  /\ \E q \in timers : Start(q)
  /\ UNCHANGED <<table, call, page, view, error, bounds>>

\* Mutant: the effect returns no clean-up.
Timers_Kept(q) == timers \cup {q}

Timers(q) == {q}

\* A render with another offset or status: load is a new function, so the
\* effect runs again.
Select(q) ==
  /\ selection' = q
  /\ IF q = selection
       THEN UNCHANGED <<load, timers, loading>>
       ELSE /\ Start(q)
            /\ timers' = Timers(q)
            /\ loading' = TRUE

Click(q) ==
  /\ clicks < MaxClicks
  /\ clicks' = clicks + 1
  /\ Select(q)
  /\ UNCHANGED <<table, call, view, error, changes, errors>>

ChooseStatus(s) == Click([offset |-> 0, status |-> s])

HasNext == selection.offset + PageSize < view.total

NextPage == HasNext /\ Click([selection EXCEPT !.offset = @ + PageSize])

\* Mutant: neither `disabled' nor Math.max keeps the offset from 0 - PAGE_SIZE.
Previous_Below == Click([selection EXCEPT !.offset = @ - PageSize])

Previous == selection.offset > 0 /\ Click([selection EXCEPT !.offset = @ - PageSize])

\* The POST that disables the form's submit button.
Submitting == \E n \in ClickNumbers : call[n] # Idle /\ call[n].op = "create"

\* handleDelete and handleSubmit send their request and await it.  Only the
\* form waits: the rows' delete buttons do not, for it or for each other.
Send(op) ==
  /\ clicks < MaxClicks
  /\ clicks' = clicks + 1
  /\ IF op = "create" THEN ~Submitting ELSE view.rows # <<>>
  /\ call' = [call EXCEPT ![clicks'] = [at |-> "sent", op |-> op, query |-> selection]]
  /\ UNCHANGED <<table, load, page, view, error, changes, errors>>

Serve(n) ==
  /\ call[n].at = "sent"
  /\ IF call[n].op = "create"
       THEN Inserted(Len(FirstTable) + MaxChanges + n)
       ELSE Removed \/ UNCHANGED table     \* another call may have been faster
  /\ Tear
  /\ call' = [call EXCEPT ![n].at = "served"]
  /\ UNCHANGED <<page, view, error, bounds>>

\* handleDelete calls the load of the render that was clicked.
DeleteReturns(n) ==
  /\ call[n].at = "served"
  /\ call[n].op = "delete"
  /\ Start(call[n].query)
  /\ call' = [call EXCEPT ![n] = Idle]
  /\ UNCHANGED <<table, page, view, error, bounds>>

\* onCreated goes to the first page, and loads the page of the old render;
\* if that was another one the effect loads the first page as well.
CreateReturns(n) ==
  /\ call[n].at = "served"
  /\ call[n].op = "create"
  /\ selection' = [selection EXCEPT !.offset = 0]
  /\ IF selection' = selection
       THEN Start(call[n].query) /\ UNCHANGED <<timers, loading>>
       ELSE /\ \E l, k \in Free :
                 l < k /\ load' = [load EXCEPT ![l] = Asked(call[n].query),
                                               ![k] = Asked(selection')]
            /\ timers' = Timers(selection')
            /\ loading' = TRUE
  /\ call' = [call EXCEPT ![n] = Idle]
  /\ UNCHANGED <<table, view, error, bounds>>

\* A refused create shows an error in the form, a failed delete nothing.
CallFails(n) ==
  /\ errors < MaxErrors
  /\ errors' = errors + 1
  /\ call[n] # Idle
  /\ call' = [call EXCEPT ![n] = Idle]
  /\ UNCHANGED <<table, load, page, view, error, changes, clicks>>

LoadStep(l) == Count(l) \/ Page(l) \/ Land(l)

CallStep(n) == Serve(n) \/ DeleteReturns(n) \/ CreateReturns(n)

User == \/ \E s \in Filters : ChooseStatus(s)
        \/ NextPage \/ Previous
        \/ \E op \in {"create", "delete"} : Send(op)

Next == \/ ServerChanges \/ User \/ Poll
        \/ \E n \in ClickNumbers : CallStep(n) \/ CallFails(n)
        \/ \E l \in Loads : LoadStep(l) \/ LandsInError(l)

Spec == Init /\ [][Next]_vars

\* Requests are answered or fail in the end, and intervals fire.  Nobody has
\* to click, write or fail.
Fairness == /\ WF_vars(Poll)
            /\ \A n \in ClickNumbers : WF_vars(CallStep(n))
            /\ \A l \in Loads : WF_vars(LoadStep(l))

FairSpec == Spec /\ Fairness

------------------------------------------------------------------------------
\* The rows and the total of an answer belong together, unless a write came
\* between the two statements (service.py:70-88).
WholeUnlessTorn ==
  \A l \in Loads : load[l].at = "answered" /\ ~load[l].torn =>
    LET rest == load[l].total - load[l].query.offset
    IN  Len(load[l].rows) = IF rest <= 0 THEN 0
                            ELSE IF rest < PageSize THEN rest ELSE PageSize

\* However late the answers of old selections land, and whatever an old
\* render's functions load once more: when the user and the tasks come to
\* rest, the page comes to show the selected page as it is on the server, and
\* keeps showing it (Dashboard.tsx:29-64).
EventuallyCurrent ==
  <>[](/\ view = [query |-> selection, rows |-> PageOf(selection), total |-> CountOf(selection)]
       /\ ~error /\ ~loading)
==============================================================================
