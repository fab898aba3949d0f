------------------------ MODULE RequestPipelineProofs ------------------------
(***************************************************************************)
(* PATCH and DELETE, as the API carries them out, are the atomic requests  *)
(* of RowRequests: for any number of requests, any pool and any faults.    *)
(***************************************************************************)
EXTENDS RequestPipeline, FiniteSetTheorems, TLAPS

Types ==
  /\ status \in TaskStatus \cup {"deleted"}
  /\ holder \in Requests \cup {NoOne}
  /\ kind \in [Requests -> Kinds \cup {NoKind}]
  /\ pc \in [Requests -> Places]
  /\ code = [r \in Requests |-> code[r]]

InHandler == Connected \cup {"checkout", "refresh_checkout", "raised", "unhandled"}

(***************************************************************************)
(* A request in the handler is flawless, was asked for and has no answer   *)
(* yet.  The lock belongs to the PATCH that is about to commit, and keeps  *)
(* the status such that its transition is allowed: what makes the commit   *)
(* the instant at which the request takes effect.                          *)
(***************************************************************************)
Sound(r) ==
  /\ kind[r] = NoKind <=> pc[r] = "new"
  /\ pc[r] \in InHandler => kind[r].flaws = {}
  /\ pc[r] \notin {"responding", "answered"} => code[r] = 0
  /\ pc[r] = "delete" => kind[r].op = "delete"
  /\ pc[r] \in {"locked", "refresh_checkout", "refresh"} => kind[r].op = "patch"
  /\ pc[r] = "locked" <=> holder = r
  /\ pc[r] = "locked" => Allowed(r)

PipeInv == Types /\ \A r \in Requests : Sound(r)

LEMMA PipeInit == Init => PipeInv
<1> SUFFICES ASSUME Init PROVE PipeInv
  OBVIOUS
<1>1. Types
  BY DEF Init, Types, Places
<1>2. \A r \in Requests : Sound(r)
  BY PipelineAssumption DEF Init, Sound, InHandler, Connected, PipelineAssumption
<1>3. QED
  BY <1>1, <1>2 DEF PipeInv

LEMMA KindsFit == \A r \in Requests : KindsOf[r] \subseteq Kinds
BY DEF Kinds

\* The steps of one request.
Act(r) == Receive(r) \/ Step(r) \/ DatabaseError(r)

LEMMA TypesStep == ASSUME PipeInv, NEW r \in Requests, Act(r) PROVE Types'
<1> USE DEF PipeInv, Types, Places, Connected
<1>1. CASE Receive(r)
  BY <1>1, KindsFit DEF Receive, Answer, Goto, data
<1>2. CASE Checkout(r) \/ PoolTimeout(r) \/ Probe(r) \/ Get(r)
  BY <1>2 DEF Checkout, PoolTimeout, Probe, Get, Breaks, Answer, Raises, Goto, data
<1>3. CASE PatchSelect(r)
  BY <1>3 DEF PatchSelect, KeepsLock, LeavesAtOnce, Answer, Goto
<1>4. CASE PatchCommit(r)
  BY <1>4, PipelineAssumption
     DEF PatchCommit, Commits, Goto, Sound, PipelineAssumption
<1>5. CASE PatchRefresh(r) \/ DeleteSelect(r) \/ DeleteCommit(r)
  BY <1>5 DEF PatchRefresh, DeleteSelect, DeleteCommit, Commits, Answer, Raises, Goto, data
<1>6. CASE Respond(r) \/ RequestFailed(r) \/ HandleUnexpected(r)
  BY <1>6 DEF Respond, RequestFailed, HandleUnexpected, Goto, data
<1>7. CASE DatabaseError(r)
  BY <1>7, PipelineAssumption
     DEF DatabaseError, Commits, Breaks, Answer, Raises, Goto, Sound, PipelineAssumption
<1>8. QED
  BY <1>1, <1>2, <1>3, <1>4, <1>5, <1>6, <1>7 DEF Act, Step

\* A request's step touches no other request, nor the row that one has locked.
LEMMA OthersKept ==
  ASSUME PipeInv, NEW r \in Requests, Act(r), NEW q \in Requests, q # r
  PROVE  /\ pc'[q] = pc[q] /\ kind'[q] = kind[q] /\ code'[q] = code[q]
         /\ holder' = q <=> holder = q
         /\ holder = q => status' = status
<1> USE PipelineAssumption DEF PipeInv, Types, Sound, PipelineAssumption
<1>1. CASE Receive(r)
  BY <1>1 DEF Receive, Answer, Goto, data
<1>2. CASE Checkout(r) \/ PoolTimeout(r) \/ Probe(r) \/ Get(r)
  BY <1>2 DEF Checkout, PoolTimeout, Probe, Get, Breaks, Answer, Raises, Goto, data
<1>3. CASE PatchSelect(r)
  BY <1>3 DEF PatchSelect, KeepsLock, LeavesAtOnce, Answer, Goto
<1>4. CASE PatchCommit(r)
  BY <1>4 DEF PatchCommit, Commits, Goto
<1>5. CASE PatchRefresh(r) \/ DeleteSelect(r) \/ DeleteCommit(r)
  BY <1>5 DEF PatchRefresh, DeleteSelect, DeleteCommit, Commits, Answer, Raises, Goto, data
<1>6. CASE Respond(r) \/ RequestFailed(r) \/ HandleUnexpected(r)
  BY <1>6 DEF Respond, RequestFailed, HandleUnexpected, Goto, data
<1>7. CASE DatabaseError(r)
  BY <1>7 DEF DatabaseError, Commits, Breaks, Answer, Raises, Goto
<1>8. QED
  BY <1>1, <1>2, <1>3, <1>4, <1>5, <1>6, <1>7 DEF Act, Step

LEMMA SoundStep == ASSUME PipeInv, NEW r \in Requests, Act(r) PROVE Sound(r)'
<1> USE PipelineAssumption
    DEF PipeInv, Types, Sound, InHandler, Connected, PipelineAssumption
<1>1. CASE Receive(r)
  BY <1>1, KindsFit DEF Receive, Answer, Goto, data
<1>2. CASE Checkout(r) \/ PoolTimeout(r) \/ Probe(r) \/ Get(r)
  BY <1>2 DEF Checkout, PoolTimeout, Probe, Get, Is, Breaks, Answer, Raises, Goto, data
<1>3. CASE PatchSelect(r)
  BY <1>3 DEF PatchSelect, Is, Allowed, KeepsLock, LeavesAtOnce, Answer, Goto
<1>4. CASE PatchCommit(r)
  BY <1>4 DEF PatchCommit, Commits, Goto
<1>5. CASE PatchRefresh(r) \/ DeleteSelect(r) \/ DeleteCommit(r)
  BY <1>5 DEF PatchRefresh, DeleteSelect, DeleteCommit, Is, Commits, Answer, Raises, Goto, data
<1>6. CASE Respond(r) \/ RequestFailed(r) \/ HandleUnexpected(r)
  BY <1>6 DEF Respond, RequestFailed, HandleUnexpected, Goto, data
<1>7. CASE DatabaseError(r)
  BY <1>7 DEF DatabaseError, Commits, Breaks, Answer, Raises, Goto
<1>8. QED
  BY <1>1, <1>2, <1>3, <1>4, <1>5, <1>6, <1>7 DEF Act, Step

LEMMA PipeStep == PipeInv /\ [Next]_vars => PipeInv'
<1> SUFFICES ASSUME PipeInv, [Next]_vars PROVE PipeInv'
  OBVIOUS
<1>1. ASSUME NEW r \in Requests, Act(r) PROVE PipeInv'
  <2>1. ASSUME NEW q \in Requests, q # r PROVE Sound(q)'
    BY <1>1, <2>1, OthersKept DEF PipeInv, Sound, Allowed
  <2>2. QED
    BY <1>1, <2>1, TypesStep, SoundStep DEF PipeInv
<1>2. CASE WorkerWrites
  BY <1>2, PipelineAssumption
     DEF WorkerWrites, PipeInv, Types, Sound, TaskStatus, PipelineAssumption
<1>3. CASE UNCHANGED vars
  BY <1>3 DEF vars, data, PipeInv, Types, Sound, Allowed
<1>4. QED
  BY <1>1, <1>2, <1>3 DEF Next, Act

LEMMA PipeInvariant == Spec => []PipeInv
BY PipeInit, PipeStep, PTL DEF Spec

------------------------------------------------------------------------------
Told == [r \in Requests |-> Outcome(r)]

\* Only the request that moves is told anything.
LEMMA OneIsTold ==
  ASSUME PipeInv, NEW r \in Requests, Act(r)
  PROVE  Told' = [Told EXCEPT ![r] = Outcome(r)']
<1>1. ASSUME NEW q \in Requests, q # r PROVE Outcome(q)' = Outcome(q)
  BY <1>1, OthersKept DEF Outcome
<1>2. QED
  BY <1>1 DEF Told

RowRequest(r) == kind[r] # NoKind /\ kind[r].flaws = {} /\ kind[r].op \in {"patch", "delete"}

\* Every other request stays open, whatever it does.
LEMMA OthersStayOpen ==
  ASSUME NEW r \in Requests, ~RowRequest(r) PROVE Outcome(r) = "open"
BY DEF RowRequest, Outcome

LEMMA AskMaps ==
  ASSUME PipeInv, NEW r \in Requests, Receive(r) PROVE Promise!Ask(r)
<1>1. Outcome(r) = "open" /\ Outcome(r)' = "open"
  BY PipelineAssumption
     DEF PipeInv, Types, Sound, Receive, Answer, Goto, Outcome, PipelineAssumption
<1>2. Told' = Told
  BY <1>1, OneIsTold DEF Act, Told
<1>3. QED
  BY <1>2, KindsFit DEF Promise!Ask, Receive, Told, data, PipeInv, Types, Sound

Stutters == UNCHANGED <<status, kind, Told>>

LEMMA StutterMaps == Stutters => UNCHANGED Promise!vars
BY DEF Stutters, Promise!vars, Told

\* A request that is told nothing new and leaves the status alone stutters.
LEMMA NothingTold ==
  ASSUME PipeInv, NEW r \in Requests, Step(r) \/ DatabaseError(r),
         Outcome(r)' = Outcome(r), status' = status, kind' = kind
  PROVE  Stutters
BY OneIsTold DEF Act, Stutters, Told

LEMMA KindKept ==
  ASSUME NEW r \in Requests, Step(r) \/ DatabaseError(r) PROVE kind' = kind
BY DEF Step, Checkout, PoolTimeout, Probe, Get, PatchSelect, PatchCommit, PatchRefresh,
       DeleteSelect, DeleteCommit, Respond, RequestFailed, HandleUnexpected, DatabaseError

LEMMA OthersMap ==
  ASSUME PipeInv, NEW r \in Requests, Step(r) \/ DatabaseError(r), ~RowRequest(r)
  PROVE  Stutters
<1>1. Outcome(r)' = Outcome(r)
  BY OthersStayOpen, KindKept DEF RowRequest, Outcome
<1>2. status' = status
  BY DEF Step, Checkout, PoolTimeout, Probe, Get, PatchSelect, PatchCommit, PatchRefresh,
         DeleteSelect, DeleteCommit, Respond, RequestFailed, HandleUnexpected,
         DatabaseError, Commits, data, PipeInv, Types, Sound, InHandler, Connected,
         RowRequest
<1>3. QED
  BY <1>1, <1>2, KindKept, NothingTold

\* A request without an answer that fails, or one that is told so too late.
LEMMA FailMaps ==
  ASSUME PipeInv, NEW r \in Requests, Step(r) \/ DatabaseError(r),
         Outcome(r) \in {"open", "done"}, Outcome(r)' = "failed", status' = status
  PROVE  Promise!Fail(r)
BY OneIsTold, KindKept DEF Act, Promise!Fail, Promise!Becomes, Told

\* The commit of a PATCH is the instant at which it takes effect.
LEMMA PatchMaps ==
  ASSUME PipeInv, NEW r \in Requests, Step(r) \/ DatabaseError(r),
         RowRequest(r), kind[r].op = "patch", Outcome(r) = "open",
         status # "deleted",
         status = kind[r].to \/ can_transition(status, kind[r].to),
         status' = kind[r].to, Outcome(r)' \in {"done", "failed"}
  PROVE  Promise!Patch(r)
BY OneIsTold, KindKept
   DEF Act, Promise!Patch, Promise!Open, Promise!Becomes, Promise!can_transition,
       Promise!ALLOWED_TRANSITIONS, can_transition, ALLOWED_TRANSITIONS, Told, RowRequest

LEMMA DeleteMaps ==
  ASSUME PipeInv, NEW r \in Requests, Step(r) \/ DatabaseError(r),
         RowRequest(r), kind[r].op = "delete", Outcome(r) = "open",
         status' = "deleted", Outcome(r)' \in {"done", "failed"}
  PROVE  Promise!Delete(r)
BY OneIsTold, KindKept
   DEF Act, Promise!Delete, Promise!Open, Promise!Becomes, Told, RowRequest

LEMMA MissMaps ==
  ASSUME PipeInv, NEW r \in Requests, Step(r) \/ DatabaseError(r),
         RowRequest(r), Outcome(r) = "open",
         status = "deleted", status' = status, Outcome(r)' = "missing"
  PROVE  Promise!Miss(r)
BY OneIsTold, KindKept
   DEF Act, Promise!Miss, Promise!Open, Promise!Becomes, Told, RowRequest

LEMMA PatchSelectMaps ==
  ASSUME PipeInv, NEW r \in Requests, PatchSelect(r), RowRequest(r)
  PROVE  Stutters \/ Promise!Miss(r) \/ Promise!Patch(r) \/ Promise!Refuse(r)
<1> USE DEF PipeInv, Types, Sound
<1>0. Step(r) /\ kind[r].op = "patch" /\ Outcome(r) = "open" /\ status' = status
  BY DEF PatchSelect, Is, Outcome, Step
<1>1. CASE Allowed(r)
  <2>1. Outcome(r)' = "open"
    <3>1. pc[r] = "query" /\ pc'[r] = "locked" /\ code'[r] = code[r] /\ kind' = kind
      BY <1>0, <1>1, KindKept DEF PatchSelect, Is, KeepsLock, Goto
    <3>2. QED
      BY <1>0, <3>1 DEF Outcome
  <2>2. QED
    BY <1>0, <2>1, KindKept, NothingTold
<1>2. CASE ~Allowed(r)
  <2> DEFINE c == IF status = "deleted" THEN 404
                  ELSE IF status = kind[r].to THEN 200 ELSE 409
  <2>1. code'[r] = c /\ pc'[r] = "responding" /\ kind' = kind
    BY <1>0, <1>2, KindKept DEF PatchSelect, Answer, Goto
  <2>2. CASE status = "deleted"
    <3>1. Outcome(r)' = "missing"
      BY <2>1, <2>2 DEF Outcome, RowRequest
    <3>2. QED
      BY <1>0, <2>2, <3>1, MissMaps
  <2>3. CASE status # "deleted" /\ status = kind[r].to
    <3>1. Outcome(r)' = "done"
      BY <2>1, <2>3 DEF Outcome, RowRequest
    <3>2. QED
      BY <1>0, <2>3, <3>1, PatchMaps
  <2>4. CASE status # "deleted" /\ status # kind[r].to
    <3>1. Outcome(r)' = "conflict"
      BY <2>1, <2>4 DEF Outcome, RowRequest
    <3>2. ~can_transition(status, kind[r].to)
      BY <1>2, <2>4 DEF Allowed
    <3>3. QED
      BY <1>0, <2>1, <2>4, <3>1, <3>2, OneIsTold
         DEF Act, Promise!Refuse, Promise!Open, Promise!Becomes, Promise!can_transition,
             Promise!ALLOWED_TRANSITIONS, can_transition, ALLOWED_TRANSITIONS, Told,
             RowRequest
  <2>5. QED
    BY <2>2, <2>3, <2>4
<1>3. QED
  BY <1>1, <1>2

\* What the abstract specification makes of a request's step.
Mapped(r) == \/ Stutters
             \/ Promise!Patch(r) \/ Promise!Refuse(r) \/ Promise!Delete(r)
             \/ Promise!Miss(r) \/ Promise!Fail(r)

LEMMA SmallStepsMap ==
  ASSUME PipeInv, NEW r \in Requests, RowRequest(r),
         Checkout(r) \/ PoolTimeout(r) \/ Probe(r) \/ Get(r)
  PROVE  Mapped(r)
<1> USE DEF PipeInv, Types, Sound, InHandler, Connected
<1>0. Step(r) /\ kind' = kind /\ status' = status
  BY KindKept DEF Step, Checkout, PoolTimeout, Probe, Get, data
<1>1. CASE Checkout(r)
  <2>1. Outcome(r)' = Outcome(r)
    BY <1>0, <1>1 DEF Checkout, Goto, Outcome, RowRequest
  <2>2. QED
    BY <1>0, <2>1, NothingTold DEF Mapped
<1>2. CASE PoolTimeout(r)
  <2>1. pc'[r] = "raised" /\ code'[r] = 0
    BY <1>2 DEF PoolTimeout, Breaks, Answer, Raises, Goto, RowRequest
  <2>2. Outcome(r)' = "failed"
    BY <1>0, <2>1 DEF Outcome, RowRequest
  <2>3. Outcome(r) \in {"open", "done"}
    BY <1>2 DEF PoolTimeout, Outcome
  <2>4. QED
    BY <1>0, <2>2, <2>3, FailMaps DEF Mapped
<1>3. CASE Probe(r) \/ Get(r)
  BY <1>3 DEF Probe, Get, Is, RowRequest
<1>4. QED
  BY <1>1, <1>2, <1>3

LEMMA PatchCommitMaps ==
  ASSUME PipeInv, NEW r \in Requests, PatchCommit(r), RowRequest(r)
  PROVE  Mapped(r)
<1> USE DEF PipeInv, Types, Sound
<1>1. Step(r) /\ kind[r].op = "patch" /\ status' = kind[r].to
  BY DEF PatchCommit, Step, Commits
<1>2. Outcome(r) = "open" /\ status # "deleted" /\ can_transition(status, kind[r].to)
  BY DEF PatchCommit, Outcome, Allowed
<1>3. Outcome(r)' = "done"
  BY DEF PatchCommit, Goto, Outcome, RowRequest
<1>4. QED
  BY <1>1, <1>2, <1>3, PatchMaps DEF Mapped

LEMMA PatchRefreshMaps ==
  ASSUME PipeInv, NEW r \in Requests, PatchRefresh(r), RowRequest(r)
  PROVE  Mapped(r)
<1> USE DEF PipeInv, Types, Sound
<1>1. Step(r) /\ kind' = kind /\ status' = status
  BY KindKept DEF PatchRefresh, Step, data
<1>2. Outcome(r) = "done" /\ code[r] = 0
  BY DEF PatchRefresh, Outcome, RowRequest
<1>3. CASE status = "deleted"
  <2>1. Outcome(r)' = "failed"
    <3>1. pc'[r] = "raised" /\ code'[r] = code[r]
      BY <1>3 DEF PatchRefresh, Raises, Goto, GiveBack
    <3>2. QED
      BY <1>1, <1>2, <3>1 DEF Outcome, RowRequest
  <2>2. QED
    BY <1>1, <1>2, <2>1, FailMaps DEF Mapped
<1>4. CASE status # "deleted"
  <2>1. Outcome(r)' = Outcome(r)
    <3>1. pc'[r] = "responding" /\ code'[r] = 200
      BY <1>4 DEF PatchRefresh, Answer, Goto, GiveBack
    <3>2. QED
      BY <1>1, <1>2, <3>1 DEF Outcome, RowRequest
  <2>2. QED
    BY <1>1, <2>1, NothingTold DEF Mapped
<1>5. QED
  BY <1>3, <1>4

LEMMA DeleteSelectMaps ==
  ASSUME PipeInv, NEW r \in Requests, DeleteSelect(r), RowRequest(r)
  PROVE  Mapped(r)
<1> USE DEF PipeInv, Types, Sound
<1>1. Step(r) /\ kind' = kind /\ status' = status /\ code[r] = 0
  BY KindKept DEF DeleteSelect, Step, Is, data
<1>2. Outcome(r) = "open"
  BY <1>1 DEF DeleteSelect, Is, Outcome, RowRequest
<1>3. CASE status = "deleted"
  <2>0. Answer(r, 404)
    BY <1>3 DEF DeleteSelect
  <2>1. pc'[r] = "responding" /\ code'[r] = 404
    BY <2>0 DEF Answer, Goto
  <2>2. Outcome(r)' = "missing"
    BY <1>1, <2>1 DEF Outcome, RowRequest
  <2>3. QED
    BY <1>1, <1>2, <1>3, <2>2, MissMaps DEF Mapped
<1>4. CASE status # "deleted"
  <2>1. Outcome(r)' = Outcome(r)
    <3>1. pc'[r] = "delete" /\ code'[r] = code[r]
      BY <1>4 DEF DeleteSelect, Goto
    <3>2. QED
      BY <1>1, <1>2, <3>1 DEF Outcome, RowRequest
  <2>2. QED
    BY <1>1, <2>1, NothingTold DEF Mapped
<1>5. QED
  BY <1>3, <1>4

LEMMA DeleteCommitMaps ==
  ASSUME PipeInv, NEW r \in Requests, DeleteCommit(r), RowRequest(r)
  PROVE  Mapped(r)
<1> USE DEF PipeInv, Types, Sound
<1>1. Step(r) /\ kind' = kind /\ status' = "deleted" /\ kind[r].op = "delete"
  BY KindKept DEF DeleteCommit, Step, Commits
<1>2. Outcome(r) = "open"
  BY DEF DeleteCommit, Outcome
<1>3. pc'[r] = "responding" /\ code'[r] = 204
  BY DEF DeleteCommit, Answer, Goto
<1>4. Outcome(r)' = "done"
  BY <1>1, <1>3 DEF Outcome, RowRequest
<1>5. QED
  BY <1>1, <1>2, <1>4, DeleteMaps DEF Mapped

\* The way back tells what was decided before.
LEMMA WayBackStutters ==
  ASSUME PipeInv, NEW r \in Requests, RowRequest(r),
         Respond(r) \/ RequestFailed(r) \/ HandleUnexpected(r)
  PROVE  Mapped(r)
<1> USE DEF PipeInv, Types, Sound
<1>1. Step(r) /\ kind' = kind /\ status' = status
  BY KindKept DEF Respond, RequestFailed, HandleUnexpected, Step, data
<1>2. CASE Respond(r)
  <2>1. pc[r] = "responding" /\ pc'[r] = "answered" /\ code' = code
    BY <1>2 DEF Respond, Goto
  <2>2. Outcome(r)' = Outcome(r)
    BY <1>1, <2>1 DEF Outcome
  <2>3. QED
    BY <1>1, <2>2, NothingTold DEF Mapped
<1>3. CASE RequestFailed(r)
  <2>1. pc[r] = "raised" /\ pc'[r] = "unhandled" /\ code' = code /\ code[r] = 0
    BY <1>3 DEF RequestFailed, Goto
  <2>2. Outcome(r)' = Outcome(r)
    BY <1>1, <2>1 DEF Outcome
  <2>3. QED
    BY <1>1, <2>2, NothingTold DEF Mapped
<1>4. CASE HandleUnexpected(r)
  <2>1. pc[r] = "unhandled" /\ pc'[r] = "answered" /\ code[r] = 0 /\ code'[r] = 500
    BY <1>4 DEF HandleUnexpected, Goto
  <2>2. Outcome(r)' = Outcome(r)
    BY <1>1, <2>1 DEF Outcome
  <2>3. QED
    BY <1>1, <2>2, NothingTold DEF Mapped
<1>5. QED
  BY <1>2, <1>3, <1>4

\* A broken connection tells the client 500; a commit may have had its effect.
LEMMA DatabaseErrorMaps ==
  ASSUME PipeInv, NEW r \in Requests, DatabaseError(r), RowRequest(r)
  PROVE  Mapped(r)
<1> USE DEF PipeInv, Types, Sound, InHandler, Connected
<1>1. kind' = kind
  BY KindKept
<1>2. pc'[r] = "raised" /\ code'[r] = 0
  BY DEF DatabaseError, Breaks, Answer, Raises, Goto, RowRequest
<1>3. Outcome(r)' = "failed"
  BY <1>1, <1>2 DEF Outcome, RowRequest
<1>4. Outcome(r) \in {"open", "done"}
  BY DEF DatabaseError, Outcome
<1>5. CASE status' = status
  BY <1>3, <1>4, <1>5, FailMaps DEF Mapped
<1>6. CASE pc[r] = "locked" /\ Commits(r, kind[r].to)
  <2>1. Outcome(r) = "open" /\ kind[r].op = "patch" /\ status' = kind[r].to
    BY <1>6 DEF Outcome, Commits
  <2>2. status # "deleted" /\ can_transition(status, kind[r].to)
    BY <1>6 DEF Allowed
  <2>3. QED
    BY <1>3, <2>1, <2>2, PatchMaps DEF Mapped
<1>7. CASE pc[r] = "delete" /\ Commits(r, "deleted")
  <2>1. Outcome(r) = "open" /\ kind[r].op = "delete" /\ status' = "deleted"
    BY <1>7 DEF Outcome, Commits
  <2>2. QED
    BY <1>3, <2>1, DeleteMaps DEF Mapped
<1>8. QED
  BY <1>5, <1>6, <1>7 DEF DatabaseError, Commits

LEMMA WorkMaps == ASSUME WorkerWrites PROVE Promise!Work
<1>1. Told' = Told
  BY DEF WorkerWrites, Told, Outcome
<1>2. QED
  BY <1>1 DEF WorkerWrites, Promise!Work, Told

LEMMA InitMaps == Init => Promise!Init
<1> SUFFICES ASSUME Init PROVE Promise!Init
  OBVIOUS
<1>1. Told = [r \in Requests |-> "open"]
  BY DEF Init, Told, Outcome
<1>2. QED
  BY <1>1 DEF Init, Promise!Init, Told, TaskStatus, Promise!TaskStatus

LEMMA StepMaps == PipeInv /\ [Next]_vars => [Promise!Next]_(Promise!vars)
<1> SUFFICES ASSUME PipeInv, [Next]_vars PROVE [Promise!Next]_(Promise!vars)
  OBVIOUS
<1>1. ASSUME NEW r \in Requests, Mapped(r) PROVE [Promise!Next]_(Promise!vars)
  BY <1>1, StutterMaps DEF Mapped, Promise!Next
<1>2. ASSUME NEW r \in Requests, Step(r) \/ DatabaseError(r)
      PROVE  [Promise!Next]_(Promise!vars)
  <2>1. CASE ~RowRequest(r)
    BY <1>2, <2>1, OthersMap, StutterMaps
  <2>2. CASE RowRequest(r)
    <3>1. Mapped(r)
      BY <1>2, <2>2, SmallStepsMap, PatchSelectMaps, PatchCommitMaps, PatchRefreshMaps,
         DeleteSelectMaps, DeleteCommitMaps, WayBackStutters, DatabaseErrorMaps
         DEF Step, Mapped
    <3>2. QED
      BY <1>1, <3>1
  <2>3. QED
    BY <2>1, <2>2
<1>3. ASSUME NEW r \in Requests, Receive(r) PROVE Promise!Next
  BY <1>3, AskMaps DEF Promise!Next
<1>4. CASE WorkerWrites
  BY <1>4, WorkMaps DEF Promise!Next
<1>5. CASE UNCHANGED vars
  BY <1>5, StutterMaps DEF vars, data, Stutters, Told, Outcome
<1>6. QED
  BY <1>2, <1>3, <1>4, <1>5 DEF Next

(***************************************************************************)
(* However many PATCH and DELETE requests race each other, the worker,     *)
(* broken connections and the end of the pool, each takes effect in one    *)
(* instant or not at all, and is told what was true then.                  *)
(***************************************************************************)
THEOREM RequestsAreAtomic == Spec => ImplementsRowRequests
BY InitMaps, PipeInvariant, StepMaps, PTL DEF Spec, ImplementsRowRequests, Promise!Spec

------------------------------------------------------------------------------
(***************************************************************************)
(* The pool, the log and the metrics.  A connection is in use where a      *)
(* request is in a Connected place, and a request is in the log once it    *)
(* has left dispatch(), by the answer or by the exception.                 *)
(***************************************************************************)
InUse == {r \in Requests : pc[r] \in Connected}

LoggedAs(c) == {r \in Requests : logged[r] = c}

AccountTypes ==
  /\ free \in Nat
  /\ code \in [Requests -> Codes \cup {0}]
  /\ logged \in [Requests -> Codes \cup {0}]
  /\ context \in [Requests -> BOOLEAN]
  /\ unlabelled \subseteq Requests
  /\ http_requests_total \in [Codes -> Nat]
  /\ faults \in 0 .. MaxFaults

LogOK(r) ==
  /\ pc[r] \notin {"unhandled", "answered"} => logged[r] = 0
  /\ pc[r] = "responding" => code[r] \in Codes /\ "oversized" \notin kind[r].flaws
  /\ pc[r] = "unhandled" => logged[r] = 500
  /\ pc[r] = "answered" =>
       logged[r] = IF "oversized" \in kind[r].flaws THEN 0 ELSE code[r]

AccountInv == /\ PipeInv
              /\ AccountTypes
              /\ free = PoolLimit - Cardinality(InUse)
              /\ \A r \in Requests : LogOK(r)
              /\ \A c \in Codes : http_requests_total[c] = Cardinality(LoggedAs(c))

LEMMA FiniteRequests ==
  /\ IsFiniteSet(InUse) /\ Cardinality(InUse) \in Nat
  /\ \A c : IsFiniteSet(LoggedAs(c)) /\ Cardinality(LoggedAs(c)) \in Nat
  /\ \A c : Cardinality(LoggedAs(c)) <= Cardinality(Requests)
  /\ Cardinality(Requests) \in Nat
<1>1. IsFiniteSet(Requests)
  BY PipelineAssumption DEF PipelineAssumption
<1>2. InUse \subseteq Requests /\ \A c : LoggedAs(c) \subseteq Requests
  BY DEF InUse, LoggedAs
<1>3. QED
  BY <1>1, <1>2, FS_Subset, FS_CardinalityType

\* Zero is no status code, and these are some.
LEMMA CodesType == 0 \notin Codes /\ {200, 204, 404, 409, 500, 503} \subseteq Codes
BY DEF Codes

\* A request with a flaw is refused, with the code of the first check it fails.
LEMMA RefusalType ==
  ASSUME NEW k \in Kinds, k.flaws # {} PROVE Refusal(k) \in Codes
<1>1. /\ Len(Checks) = 5
      /\ Checks[1].flaw = "oversized" /\ Checks[2].flaw = "unrouted"
      /\ Checks[3].flaw = "malformed" /\ Checks[4].flaw = "no_key"
      /\ Checks[5].flaw = "invalid"
  BY DEF Checks
<1>2. /\ Checks[1].code = 413 /\ Checks[2].code = 404 /\ Checks[3].code = 422
      /\ Checks[4].code = 401 /\ Checks[5].code = 422
  BY DEF Checks
<1> DEFINE fails(i) == Checks[i].flaw \in k.flaws
           isFirst(i) == fails(i) /\ \A j \in 1 .. i - 1 : ~fails(j)
<1>3. \E i \in 1 .. 5 : fails(i)
  <2>1. Flaws = {Checks[i].flaw : i \in 1 .. 5} /\ k.flaws \subseteq Flaws
    BY <1>1, PipelineAssumption DEF Flaws, PipelineAssumption
  <2>2. QED
    BY <2>1
<1> HIDE DEF fails
<1>4. \E i \in 1 .. 5 : isFirst(i)
  <2>1. CASE fails(1)
    BY <2>1
  <2>2. CASE ~fails(1) /\ fails(2)
    BY <2>2
  <2>3. CASE ~fails(1) /\ ~fails(2) /\ fails(3)
    BY <2>3
  <2>4. CASE ~fails(1) /\ ~fails(2) /\ ~fails(3) /\ fails(4)
    BY <2>4
  <2>5. CASE ~fails(1) /\ ~fails(2) /\ ~fails(3) /\ ~fails(4) /\ fails(5)
    BY <2>5
  <2>6. QED
    BY <1>3, <2>1, <2>2, <2>3, <2>4, <2>5
<1> DEFINE first == CHOOSE i \in 1 .. 5 : isFirst(i)
<1>5. first \in 1 .. 5
  BY <1>4
<1>6. Refusal(k) = Checks[first].code
  BY <1>1 DEF Refusal, fails
<1> HIDE DEF first
<1>7. QED
  BY <1>2, <1>5, <1>6 DEF Codes

\* A step takes a connection for its request, gives its one back, or does
\* neither.
LEMMA PoolMoves ==
  ASSUME PipeInv, NEW r \in Requests, Act(r)
  PROVE  \/ /\ pc[r] \in Connected <=> pc'[r] \in Connected
            /\ free' = free
         \/ /\ pc[r] \notin Connected /\ pc'[r] \in Connected
            /\ free > 0 /\ free' = free - 1
         \/ /\ pc[r] \in Connected /\ pc'[r] \notin Connected
            /\ free' = free + 1
<1> USE DEF PipeInv, Types, Connected
<1>1. CASE Receive(r)
  <2>1. pc[r] = "new" /\ free' = free
    BY <1>1 DEF Receive
  <2>2. pc'[r] \in {"answered", "responding", "checkout"}
    BY <1>1 DEF Receive, Answer, Goto
  <2>3. QED
    BY <2>1, <2>2
<1>2. CASE Checkout(r) \/ Probe(r) \/ Get(r)
  BY <1>2 DEF Checkout, TakeConnection, GiveBack, Probe, Get, Is, Answer, Goto
<1>3. CASE PoolTimeout(r)
  BY <1>3 DEF PoolTimeout, Breaks, Answer, Raises, Goto
<1>4. CASE PatchSelect(r)
  <2>1. pc[r] = "query"
    BY <1>4 DEF PatchSelect, Is
  <2>2. CASE Allowed(r)
    BY <1>4, <2>1, <2>2 DEF PatchSelect, Goto
  <2>3. CASE ~Allowed(r)
    BY <1>4, <2>1, <2>3 DEF PatchSelect, LeavesAtOnce, GiveBack, Answer, Goto
  <2>4. QED
    BY <2>2, <2>3
<1>5. CASE PatchCommit(r) \/ PatchRefresh(r) \/ DeleteCommit(r)
  BY <1>5 DEF PatchCommit, PatchRefresh, DeleteCommit, GiveBack, Answer, Raises, Goto
<1>6. CASE DeleteSelect(r)
  BY <1>6 DEF DeleteSelect, Is, GiveBack, Answer, Goto
<1>7. CASE Respond(r) \/ RequestFailed(r) \/ HandleUnexpected(r)
  BY <1>7 DEF Respond, RequestFailed, HandleUnexpected, Goto
<1>8. CASE DatabaseError(r)
  <2>1. pc'[r] \in {"responding", "raised"}
    BY <1>8 DEF DatabaseError, Breaks, Answer, Raises, Goto
  <2>2. QED
    BY <1>8, <2>1 DEF DatabaseError
<1>9. QED
  BY <1>1, <1>2, <1>3, <1>4, <1>5, <1>6, <1>7, <1>8 DEF Act, Step

LEMMA PoolStep ==
  ASSUME AccountInv, NEW r \in Requests, Act(r)
  PROVE  free' \in Nat /\ free' = PoolLimit - Cardinality(InUse')
<1> USE PipelineAssumption, FiniteRequests DEF PipelineAssumption
<1>1. /\ free \in Nat /\ free = PoolLimit - Cardinality(InUse)
      /\ PoolLimit \in Nat
  BY DEF AccountInv, AccountTypes
<1>2. \A q \in Requests \ {r} : q \in InUse' <=> q \in InUse
  BY OthersKept DEF AccountInv, InUse
<1>3. InUse \subseteq Requests /\ InUse' \subseteq Requests
  BY DEF InUse
<1>4. CASE (pc[r] \in Connected <=> pc'[r] \in Connected) /\ free' = free
  <2>1. InUse' = InUse
    BY <1>2, <1>3, <1>4 DEF InUse
  <2>2. QED
    BY <1>1, <1>4, <2>1
<1>5. CASE pc[r] \notin Connected /\ pc'[r] \in Connected /\ free > 0 /\ free' = free - 1
  <2>1. InUse' = InUse \cup {r} /\ r \notin InUse
    BY <1>2, <1>3, <1>5 DEF InUse
  <2>2. Cardinality(InUse') = Cardinality(InUse) + 1
    BY <2>1, FS_AddElement
  <2>3. QED
    BY <1>1, <1>5, <2>2
<1>6. CASE pc[r] \in Connected /\ pc'[r] \notin Connected /\ free' = free + 1
  <2>1. InUse' = InUse \ {r} /\ r \in InUse
    BY <1>2, <1>3, <1>6 DEF InUse
  <2>2. Cardinality(InUse') = Cardinality(InUse) - 1
    BY <2>1, FS_RemoveElement
  <2>3. QED
    BY <1>1, <1>6, <2>2
<1>7. QED
  BY <1>4, <1>5, <1>6, PoolMoves DEF AccountInv

\* A step logs its own request only, with a code that it has, and once.
LEMMA LogMoves ==
  ASSUME AccountInv, NEW r \in Requests, Act(r)
  PROVE  \/ logged' = logged /\ http_requests_total' = http_requests_total
         \/ \E c \in Codes :
               /\ logged[r] = 0 /\ logged' = [logged EXCEPT ![r] = c]
               /\ http_requests_total' = [http_requests_total EXCEPT ![c] = @ + 1]
<1>1. CASE Respond(r)
  <2>1. /\ pc[r] = "responding" /\ logged' = [logged EXCEPT ![r] = code[r]]
        /\ http_requests_total' = [http_requests_total EXCEPT ![code[r]] = @ + 1]
    BY <1>1 DEF Respond, Observe
  <2>2. logged[r] = 0 /\ code[r] \in Codes
    BY <2>1 DEF AccountInv, LogOK
  <2>3. QED
    BY <2>1, <2>2
<1>2. CASE RequestFailed(r)
  <2>1. /\ pc[r] = "raised" /\ logged' = [logged EXCEPT ![r] = 500]
        /\ http_requests_total' = [http_requests_total EXCEPT ![500] = @ + 1]
    BY <1>2 DEF RequestFailed, Observe
  <2>2. logged[r] = 0 /\ 500 \in Codes
    BY <2>1, CodesType DEF AccountInv, LogOK
  <2>3. \E c \in Codes :
           /\ logged[r] = 0 /\ logged' = [logged EXCEPT ![r] = c]
           /\ http_requests_total' = [http_requests_total EXCEPT ![c] = @ + 1]
    <3> 500 \in Codes
      BY <2>2
    <3> WITNESS 500 \in Codes
    <3> QED
      BY <2>1, <2>2
  <2>4. QED
    BY <2>3
<1>3. CASE ~Respond(r) /\ ~RequestFailed(r)
  BY <1>3 DEF Act, Receive, Step, Checkout, PoolTimeout, Probe, Get, PatchSelect,
     PatchCommit, PatchRefresh, DeleteSelect, DeleteCommit, HandleUnexpected,
     DatabaseError, trace
<1>4. QED
  BY <1>1, <1>2, <1>3

LEMMA CountStep ==
  ASSUME AccountInv, NEW r \in Requests, Act(r)
  PROVE  /\ http_requests_total' \in [Codes -> Nat]
         /\ logged' \in [Requests -> Codes \cup {0}]
         /\ \A c \in Codes : http_requests_total'[c] = Cardinality(LoggedAs(c)')
<1>1. /\ http_requests_total \in [Codes -> Nat]
      /\ logged \in [Requests -> Codes \cup {0}]
      /\ \A c \in Codes : http_requests_total[c] = Cardinality(LoggedAs(c))
  BY DEF AccountInv, AccountTypes
<1>2. CASE logged' = logged /\ http_requests_total' = http_requests_total
  BY <1>1, <1>2 DEF LoggedAs
<1>3. ASSUME NEW d \in Codes, logged[r] = 0, logged' = [logged EXCEPT ![r] = d],
             http_requests_total' = [http_requests_total EXCEPT ![d] = @ + 1]
      PROVE  /\ http_requests_total' \in [Codes -> Nat]
             /\ logged' \in [Requests -> Codes \cup {0}]
             /\ \A c \in Codes : http_requests_total'[c] = Cardinality(LoggedAs(c)')
  <2>1. LoggedAs(d)' = LoggedAs(d) \cup {r} /\ r \notin LoggedAs(d)
    BY <1>1, <1>3, CodesType DEF LoggedAs
  <2>2. Cardinality(LoggedAs(d)') = Cardinality(LoggedAs(d)) + 1
    BY <2>1, FiniteRequests, FS_AddElement
  <2>3. \A c \in Codes : c # d => LoggedAs(c)' = LoggedAs(c)
    BY <1>1, <1>3, CodesType DEF LoggedAs
  <2>4. QED
    BY <1>1, <1>3, <2>2, <2>3
<1>4. QED
  BY <1>2, <1>3, LogMoves

\* What a request is answered, and what the log says of it.
LEMMA LogStep ==
  ASSUME AccountInv, NEW r \in Requests, Act(r)
  PROVE  LogOK(r)' /\ code' \in [Requests -> Codes \cup {0}]
<1> USE CodesType DEF AccountInv, AccountTypes, PipeInv, Types, LogOK
<1>1. CASE Receive(r)
  <2>1. PICK k \in KindsOf[r] :
           /\ kind' = [kind EXCEPT ![r] = k]
           /\ IF k.flaws # {}
                THEN /\ code' = [code EXCEPT ![r] = Refusal(k)]
                     /\ Goto(r, IF "oversized" \in k.flaws THEN "answered"
                                                           ELSE "responding")
                ELSE IF k.op = "live" THEN Answer(r, 200)
                                      ELSE Goto(r, "checkout") /\ UNCHANGED code
    BY <1>1 DEF Receive
  <2>2. logged' = logged /\ logged[r] = 0 /\ kind'[r] = k
    BY <1>1, <2>1 DEF Receive
  <2>3. CASE k.flaws # {}
    <3>1. Refusal(k) \in Codes
      BY <2>3, KindsFit, RefusalType
    <3>2. /\ code' = [code EXCEPT ![r] = Refusal(k)]
          /\ pc'[r] = IF "oversized" \in k.flaws THEN "answered" ELSE "responding"
      BY <2>1, <2>3 DEF Goto
    <3>3. CASE "oversized" \in k.flaws
      BY <2>2, <3>1, <3>2, <3>3
    <3>4. CASE "oversized" \notin k.flaws
      BY <2>2, <3>1, <3>2, <3>4
    <3>5. QED
      BY <3>3, <3>4
  <2>4. CASE k.flaws = {} /\ k.op = "live"
    <3>1. /\ pc \in [Requests -> Places] /\ code \in [Requests -> Codes \cup {0}]
          /\ 200 \in Codes
      OBVIOUS
    <3> HIDE DEF AccountInv, AccountTypes, PipeInv, Types, LogOK
    <3>2. Answer(r, 200)
      BY <2>1, <2>4
    <3>3. code' = [code EXCEPT ![r] = 200] /\ pc' = [pc EXCEPT ![r] = "responding"]
      BY <3>2 DEF Answer, Goto
    <3>4. /\ code' \in [Requests -> Codes \cup {0}] /\ code'[r] \in Codes
          /\ pc'[r] = "responding" /\ logged'[r] = 0 /\ kind'[r].flaws = {}
      BY <2>2, <2>4, <3>1, <3>3
    <3>5. QED
      BY <3>4 DEF LogOK
  <2>5. CASE k.flaws = {} /\ k.op # "live"
    BY <2>1, <2>2, <2>5 DEF Goto
  <2>6. QED
    BY <2>3, <2>4, <2>5
<1>2. CASE Respond(r)
  <2>1. /\ pc[r] = "responding" /\ pc'[r] = "answered"
        /\ code' = code /\ kind' = kind /\ logged' = [logged EXCEPT ![r] = code[r]]
    BY <1>2 DEF Respond, Observe, Goto
  <2>2. QED
    BY <2>1
<1>3. CASE RequestFailed(r)
  <2>1. /\ pc'[r] = "unhandled"
        /\ code' = code /\ kind' = kind /\ logged' = [logged EXCEPT ![r] = 500]
    BY <1>3 DEF RequestFailed, Observe, Goto
  <2>2. QED
    BY <2>1
<1>4. CASE HandleUnexpected(r)
  <2>1. /\ pc[r] = "unhandled" /\ pc'[r] = "answered"
        /\ code' = [code EXCEPT ![r] = 500] /\ kind' = kind /\ logged' = logged
    BY <1>4 DEF HandleUnexpected, Goto
  <2>2. kind[r].flaws = {}
    BY <2>1 DEF Sound, InHandler
  <2>3. QED
    BY <2>1, <2>2
\* In the handler nothing is logged, and any answer is a code.
<1>5. ASSUME (Step(r) \/ DatabaseError(r)), ~Respond(r), ~RequestFailed(r),
             ~HandleUnexpected(r)
      PROVE  LogOK(r)' /\ code' \in [Requests -> Codes \cup {0}]
  <2>1. /\ pc[r] \in Connected \cup {"checkout", "refresh_checkout"}
        /\ logged' = logged /\ kind' = kind
    BY <1>5 DEF Step, Checkout, PoolTimeout, Probe, Get, PatchSelect, PatchCommit,
       PatchRefresh, DeleteSelect, DeleteCommit, DatabaseError, Is, Connected, trace
  <2>2. logged[r] = 0 /\ kind[r].flaws = {}
    BY <2>1 DEF Sound, InHandler, Connected
  <2>3. \/ /\ code' = code
           /\ pc'[r] \in Connected \cup {"refresh_checkout", "raised"}
        \/ \E c \in {200, 204, 404, 409, 503} :
              code' = [code EXCEPT ![r] = c] /\ pc'[r] = "responding"
    BY <1>5 DEF Step, Checkout, PoolTimeout, Probe, Get, PatchSelect, PatchCommit,
       PatchRefresh, DeleteSelect, DeleteCommit, DatabaseError, Breaks, LeavesAtOnce,
       Answer, Raises, Goto, Connected
  <2>4. QED
    BY <2>1, <2>2, <2>3 DEF Connected
<1>6. QED
  BY <1>1, <1>2, <1>3, <1>4, <1>5 DEF Act

LEMMA AccountTypesStep ==
  ASSUME AccountInv, NEW r \in Requests, Act(r)
  PROVE  /\ context' \in [Requests -> BOOLEAN]
         /\ unlabelled' \subseteq Requests
         /\ faults' \in 0 .. MaxFaults
<1>1. /\ context \in [Requests -> BOOLEAN] /\ unlabelled \subseteq Requests
      /\ faults \in 0 .. MaxFaults /\ MaxFaults \in Nat
  BY PipelineAssumption DEF AccountInv, AccountTypes, PipelineAssumption
<1>2. faults' = faults \/ (faults < MaxFaults /\ faults' = faults + 1)
  BY DEF Act, Receive, Step, Checkout, PoolTimeout, Probe, Get, PatchSelect,
     PatchCommit, PatchRefresh, DeleteSelect, DeleteCommit, Respond, RequestFailed,
     HandleUnexpected, DatabaseError
<1>3. \/ context' = context
      \/ \E b \in BOOLEAN : context' = [context EXCEPT ![r] = b]
  BY DEF Act, Receive, Step, Checkout, PoolTimeout, Probe, Get, PatchSelect,
     PatchCommit, PatchRefresh, DeleteSelect, DeleteCommit, Respond, RequestFailed,
     HandleUnexpected, DatabaseError, Observe, trace
<1>4. unlabelled' \in {unlabelled, unlabelled \cup {r}}
  BY DEF Act, Receive, Step, Checkout, PoolTimeout, Probe, Get, PatchSelect,
     PatchCommit, PatchRefresh, DeleteSelect, DeleteCommit, Respond, RequestFailed,
     HandleUnexpected, DatabaseError, Observe, Record, trace
<1>5. QED
  BY <1>1, <1>2, <1>3, <1>4

LEMMA AccountInvariant == Spec => []AccountInv
<1>1. Init /\ PipeInv => AccountInv
  <2> SUFFICES ASSUME Init, PipeInv PROVE AccountInv
    OBVIOUS
  <2>1. InUse = {} /\ \A c \in Codes : LoggedAs(c) = {}
    BY CodesType DEF Init, InUse, LoggedAs, Connected
  <2>2. AccountTypes
    BY PipelineAssumption DEF Init, AccountTypes, PipelineAssumption
  <2>3. \A r \in Requests : LogOK(r)
    BY DEF Init, LogOK
  <2>4. free = PoolLimit - Cardinality(InUse)
    BY <2>1, FS_EmptySet, PipelineAssumption DEF Init, PipelineAssumption
  <2>5. \A c \in Codes : http_requests_total[c] = Cardinality(LoggedAs(c))
    BY <2>1, FS_EmptySet DEF Init
  <2>6. QED
    BY <2>2, <2>3, <2>4, <2>5 DEF AccountInv
<1>2. AccountInv /\ PipeInv' /\ [Next]_vars => AccountInv'
  <2> SUFFICES ASSUME AccountInv, PipeInv', [Next]_vars PROVE AccountInv'
    OBVIOUS
  <2>1. ASSUME NEW r \in Requests, Act(r) PROVE AccountInv'
    <3>1. ASSUME NEW q \in Requests, q # r PROVE LogOK(q)'
      <4>1. logged'[q] = logged[q]
        BY <2>1, <3>1, LogMoves DEF AccountInv, AccountTypes
      <4>2. pc'[q] = pc[q] /\ kind'[q] = kind[q] /\ code'[q] = code[q]
        BY <2>1, <3>1, OthersKept DEF AccountInv
      <4>3. QED
        BY <4>1, <4>2 DEF AccountInv, LogOK
    <3>2. \A q \in Requests : LogOK(q)'
      BY <2>1, <3>1, LogStep
    <3>3. AccountTypes'
      BY <2>1, PoolStep, CountStep, LogStep, AccountTypesStep DEF AccountTypes
    <3>4. QED
      BY <2>1, <3>2, <3>3, PoolStep, CountStep DEF AccountInv
  <2>2. CASE WorkerWrites
    BY <2>2 DEF WorkerWrites, trace, AccountInv, AccountTypes, InUse, LogOK, LoggedAs
  <2>3. CASE UNCHANGED vars
    BY <2>3 DEF vars, data, trace, AccountInv, AccountTypes, InUse, LogOK, LoggedAs
  <2>4. QED
    BY <2>1, <2>2, <2>3 DEF Next, Act
<1>3. QED
  BY <1>1, <1>2, PipeInvariant, PTL DEF Spec

\* No path through a handler keeps a connection or a lock, whatever the size
\* of the pool and however many requests fail.
THEOREM ConnectionsComeBack == Spec => []NothingLeaks
<1>1. AccountInv => NothingLeaks
  BY DEF AccountInv, PipeInv, Types, Sound, NothingLeaks, InUse
<1>2. QED
  BY <1>1, AccountInvariant, PTL

\* The access log and the request counter agree with what clients were told.
THEOREM LogsAreTrue == Spec => []LogsAgreeWithAnswers
<1>1. AccountInv => LogsAgreeWithAnswers
  BY DEF AccountInv, LogOK, LogsAgreeWithAnswers, LoggedAs
<1>2. QED
  BY <1>1, AccountInvariant, PTL

\* The pool never hands out more than it has, and no request is counted twice.
THEOREM PipelineTypes == Spec => []TypeOK
<1>1. AccountInv => TypeOK
  <2> SUFFICES ASSUME AccountInv PROVE TypeOK
    OBVIOUS
  <2>1. free \in 0 .. PoolLimit
    BY FiniteRequests, PipelineAssumption DEF AccountInv, AccountTypes, PipelineAssumption
  <2>2. http_requests_total \in [Codes -> 0 .. Cardinality(Requests)]
    BY FiniteRequests DEF AccountInv, AccountTypes
  <2>3. QED
    BY <2>1, <2>2 DEF AccountInv, AccountTypes, PipeInv, Types, TypeOK
<1>2. QED
  BY <1>1, AccountInvariant, PTL
==============================================================================
