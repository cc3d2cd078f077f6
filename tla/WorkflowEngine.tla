--------------------------- MODULE WorkflowEngine ---------------------------
(***************************************************************************)
(* The process-workflow engine of the backend: WorkflowExecutor            *)
(* (common/workflow_executor.py), its repository                           *)
(* (repositories/process_workflows_repository.py) and the routes that      *)
(* drive it (routes/workflows_routes.py).                                  *)
(*                                                                         *)
(* A handler of the code is a sequence of database commits.  Every action  *)
(* below is one commit of one handler, so other workers, and a crash of    *)
(* the process, may come between any two of them.  `async def' handlers    *)
(* run on the event loop, one at a time and without an await between their *)
(* commits: they are the worker Loop.  `def' routes run on the thread pool *)
(* and may fire triggers too: each is a worker of Threads.                 *)
(***************************************************************************)
EXTENDS Naturals, Sequences, FiniteSets, Lifecycle

CONSTANTS
    Executions,     \* ids of workflow_executions rows; uuid4, never reused
    Workflows,      \* ids of process_workflows rows
    Entities,       \* data products the workflows are fired for
    WorkflowOf,     \* execution -> the workflow it runs
    EntityOf,       \* execution -> the data product of its trigger context
    NoEntity,       \* ... or an entity the completion does not know (a job, ...)
    ReviewWorkflows,  \* workflows whose trigger is on_request_review
    DefaultWorkflows, \* workflows with is_default, which cannot be deleted
    Definitions,    \* step graphs that pass validate_workflow
    InitialDef,     \* workflow -> its graph at the start
    InitialStatus,  \* status of the entities when the workflows are fired
    StepIds,        \* slugs of steps
    NoExecution,    \* no execution: what an idle worker works on
    NoStep,         \* on_pass / on_fail / current_step_id NULL
    Approvers,      \* recipients of approval notifications
    Loop,           \* the event loop
    Threads,        \* workers of the thread pool
    MaxCrashes, MaxEdits, MaxMoves, MaxRetries   \* bounds on the environment

Workers == {Loop} \cup Threads

StepKinds == {"auto", "pass", "fail", "approval"}

\* A workflow's steps: the slug graph and what each step is.
Definition == [steps     : SUBSET StepIds,
               first     : StepIds,
               kind      : [StepIds -> StepKinds],
               onPass    : [StepIds -> StepIds \cup {NoStep}],
               onFail    : [StepIds -> StepIds \cup {NoStep}],
               approvers : [StepIds -> SUBSET Approvers]]

\* validate_workflow: at least one step, and every branch names a step or is
\* NULL.  Cycles and unreachable steps are accepted.
ValidDefinition(d) ==
    /\ d \in Definition
    /\ d.first \in d.steps
    /\ \A s \in d.steps : {d.onPass[s], d.onFail[s]} \subseteq d.steps \cup {NoStep}

ASSUME IdAssumption ==
    /\ NoStep \notin StepIds
    /\ NoExecution \notin Executions
    /\ Loop \notin Threads
    /\ WorkflowOf \in [Executions -> Workflows]
    /\ NoEntity \notin Entities
    /\ EntityOf \in [Executions -> Entities \cup {NoEntity}]
    /\ ReviewWorkflows \cup DefaultWorkflows \subseteq Workflows

ASSUME DefinitionAssumption ==
    /\ \A d \in Definitions : ValidDefinition(d)
    /\ InitialDef \in [Workflows -> Definitions]
    /\ InitialStatus \in EntityStatus

ASSUME BoundAssumption ==
    {MaxCrashes, MaxEdits, MaxMoves, MaxRetries} \subseteq Nat

VARIABLES
    exec,     \* workflow_executions rows with their step executions
    wf,       \* process_workflows rows with their steps
    note,     \* workflow_approval notifications
    entity,   \* status column of the entities
    handler,  \* per worker: the handler in progress (locals and place in it)
    used      \* how much of each environment bound is spent, and (history only)
              \* which executions were retried after they were cancelled

vars == <<exec, wf, note, entity, handler, used>>

-----------------------------------------------------------------------------
(* Rows *)

Terminal == {"succeeded", "failed", "cancelled"}

\* "none": not created yet; "deleted": the row is gone.
ExecStatus == {"none", "running", "paused", "deleted"} \cup Terminal

\* A workflow_step_executions row; `decision' marks the one resume_workflow
\* adds for the approver's answer.
StepRow == [step : StepIds, passed : BOOLEAN, decision : BOOLEAN]

ExecRow == [status   : ExecStatus,
            step     : StepIds \cup {NoStep},
            finished : BOOLEAN,
            succ     : Nat,
            fail     : Nat,
            rows     : Seq(StepRow)]

NoExec == [status |-> "none", step |-> NoStep, finished |-> FALSE,
           succ |-> 0, fail |-> 0, rows |-> <<>>]
DeletedExec == [NoExec EXCEPT !.status = "deleted"]

WorkflowRow == [exists : BOOLEAN, active : BOOLEAN, def : Definitions, ver : Nat]

NoteState == {"none", "unread", "read", "handled"}
Notes == Executions \X StepIds \X Approvers

Places == {"idle", "retry", "step", "pause", "finish", "complete", "notify", "cancel"}

\* Locals of execute_workflow / resume_workflow: the place reached, the step to
\* run, the counters and final_status.  `ver' is the version of the step rows
\* the handler read when it started; the graph itself need not be kept, since
\* a handler whose step rows were replaced cannot record another step.
Handler == [at       : Places,
            e        : Executions \cup {NoExecution},
            cur      : StepIds \cup {NoStep},
            succ     : Nat,
            fail     : Nat,
            ver      : Nat,
            out      : {"running", "succeeded", "failed"},
            resuming : BOOLEAN,
            viaNote  : BOOLEAN]
NoHandler == [at |-> "idle", e |-> NoExecution, cur |-> NoStep, succ |-> 0,
              fail |-> 0, ver |-> 0, out |-> "running",
              resuming |-> FALSE, viaNote |-> FALSE]

Exists(e) == exec[e].status \notin {"none", "deleted"}
WfOf(e) == wf[WorkflowOf[e]]
Idle(w) == handler[w].at = "idle"
BusyWith(e) == \E w \in Workers : ~Idle(w) /\ handler[w].e = e

Used == [crashes : Nat, edits : Nat, moves : Nat, retries : Nat,
         revived : SUBSET Executions]

TypeOK ==
    /\ exec \in [Executions -> ExecRow]
    /\ wf \in [Workflows -> WorkflowRow]
    /\ note \in [Notes -> NoteState]
    /\ entity \in [Entities -> EntityStatus]
    /\ handler \in [Workers -> Handler]
    /\ \A w \in Workers : handler[w].at # "idle" => handler[w].e \in Executions
    /\ used \in Used

Init ==
    /\ exec = [e \in Executions |-> NoExec]
    /\ wf = [f \in Workflows |-> [exists |-> TRUE, active |-> TRUE,
                                  def |-> InitialDef[f], ver |-> 0]]
    /\ note = [n \in Notes |-> "none"]
    /\ entity = [x \in Entities |-> InitialStatus]
    /\ handler = [w \in Workers |-> NoHandler]
    /\ used = [crashes |-> 0, edits |-> 0, moves |-> 0, retries |-> 0,
               revived |-> {}]

-----------------------------------------------------------------------------
(* Leaving a handler *)

Goto(w, place) == handler' = [handler EXCEPT ![w].at = place]
Leave(w) == handler' = [handler EXCEPT ![w] = NoHandler]

\* After the last commit of resume_workflow: handle-approval still marks the
\* notifications, the resume route and execute_workflow just return.
AfterRunWaits(w) == IF handler[w].viaNote THEN Goto(w, handler[w].at) ELSE Leave(w)
AfterRun(w) == IF handler[w].viaNote THEN Goto(w, "notify") ELSE Leave(w)

Began(e, w, counts, next, resuming, viaNote) ==
    handler' = [handler EXCEPT ![w] =
        [at       |-> IF next = NoStep THEN "finish" ELSE "step",
         e        |-> e,
         cur      |-> next,
         succ     |-> counts[1],
         fail     |-> counts[2],
         ver      |-> WfOf(e).ver,
         out      |-> "running",
         resuming |-> resuming,
         viaNote  |-> viaNote]]

-----------------------------------------------------------------------------
(* execute_workflow *)

\* A new row, status 'running', committed before the first step.
Start(w, e) ==
    /\ Idle(w)
    /\ exec[e].status = "none"
    /\ WfOf(e).exists
    /\ exec' = [exec EXCEPT ![e].status = "running"]
    /\ Began(e, w, <<0, 0>>, WfOf(e).def.first, FALSE, FALSE)
    /\ UNCHANGED <<wf, note, entity, used>>

\* fire_trigger runs the matching active workflows, one after the other, in
\* whatever worker handles the request that fired it.  The triggers of data
\* products are all fired by `async def' routes; those fired on threads are for
\* asset reviews and for the jobs the poller watches.
FireTrigger(w, e) ==
    /\ WfOf(e).active
    /\ w \in Threads => EntityOf[e] = NoEntity
    /\ Start(w, e)

\* POST /{workflow_id}/execute does not ask whether the workflow is active.
ExecuteManually(e) == Start(Loop, e)

\* Where a step that passed or failed leads.
NextStep(d, s, passed) == IF passed THEN d.onPass[s] ELSE d.onFail[s]

OutcomeAlwaysGood(passed) == "succeeded"
OutcomeOrRunning(passed) == IF passed THEN "succeeded" ELSE "running"

\* final_status when there is no next step.
Outcome(passed) == IF passed THEN "succeeded" ELSE "failed"

\* The results a step that does not block can return.
Results(kind) == CASE kind = "pass" -> {TRUE}
                   [] kind = "fail" -> {FALSE}
                   [] OTHER         -> BOOLEAN

\* Recording a step needs the rows it refers to: workflow_step_executions has
\* foreign keys to the execution and to the workflow's step.
Recordable(w) == LET h == handler[w] IN Exists(h.e) /\ WfOf(h.e).ver = h.ver

\* One turn of the loop for a step that does not block: run it, commit its row,
\* count it and follow its branch.
Advance(w, passed) ==
    LET h    == handler[w]
        next == NextStep(WfOf(h.e).def, h.cur, passed)
    IN  /\ exec' = [exec EXCEPT ![h.e].rows =
                       Append(@, [step |-> h.cur, passed |-> passed, decision |-> FALSE])]
        /\ handler' = [handler EXCEPT ![w] =
               [h EXCEPT !.at   = IF next = NoStep THEN "finish" ELSE "step",
                         !.cur  = next,
                         !.succ = IF passed THEN @ + 1 ELSE @,
                         !.fail = IF passed THEN @ ELSE @ + 1,
                         !.out  = IF next = NoStep THEN Outcome(passed) ELSE @]]

RunStep(w) ==
    LET h == handler[w]
        k == WfOf(h.e).def.kind[h.cur]
    IN  /\ h.at = "step"
        /\ Recordable(w)
        /\ k # "approval"
        /\ \E passed \in Results(k) : Advance(w, passed)
        /\ UNCHANGED <<wf, note, entity, used>>

\* The approvers a notification was created for: at least one.
ReachableOrNobody(d, s) == SUBSET d.approvers[s]
Reachable(d, s) == (SUBSET d.approvers[s]) \ {{}}

\* ApprovalStepHandler: no approver resolved, or no notification created.
ApprovalFails(w) ==
    LET h == handler[w]
    IN  /\ h.at = "step"
        /\ Recordable(w)
        /\ WfOf(h.e).def.kind[h.cur] = "approval"
        /\ Advance(w, FALSE)
        /\ UNCHANGED <<wf, note, entity, used>>

\* ApprovalStepHandler: a notification for each approver it could reach, in the
\* commit of the step's row; the step counts as passed and blocks.
RequestApproval(w) ==
    LET h == handler[w]
        d == WfOf(h.e).def
    IN  /\ h.at = "step"
        /\ Recordable(w)
        /\ d.kind[h.cur] = "approval"
        /\ \E asked \in Reachable(d, h.cur) :
             /\ note' = [n \in Notes |->
                   IF n[1] = h.e /\ n[2] = h.cur /\ n[3] \in asked
                   THEN "unread" ELSE note[n]]
        /\ exec' = [exec EXCEPT ![h.e].rows =
              Append(@, [step |-> h.cur, passed |-> TRUE, decision |-> FALSE])]
        /\ handler' = [handler EXCEPT ![w] = [h EXCEPT !.at = "pause", !.succ = @ + 1]]
        /\ UNCHANGED <<wf, entity, used>>

\* The step's row violates a foreign key: the exception leaves the executor,
\* the transaction is rolled back and the execution stays as it is.
RecordFails(w) ==
    /\ handler[w].at = "step"
    /\ ~Recordable(w)
    /\ Leave(w)
    /\ UNCHANGED <<exec, wf, note, entity, used>>

\* update_status writes the fields it is given, if the row still exists.
SaveBlindly(e, row) == exec' = [exec EXCEPT ![e] = row]
Save(e, row) == exec' = IF Exists(e) THEN [exec EXCEPT ![e] = row] ELSE exec

\* update_status(PAUSED)
Pause(w) ==
    LET h == handler[w]
    IN  /\ h.at = "pause"
        /\ Save(h.e, [exec[h.e] EXCEPT !.status = "paused", !.step = h.cur,
                                       !.succ = h.succ, !.fail = h.fail])
        /\ AfterRun(w)
        /\ UNCHANGED <<wf, note, entity, used>>

\* update_status(final_status) with finished_at; current_step_id=None is ignored.
Finish(w) ==
    LET h == handler[w]
    IN  /\ h.at = "finish"
        /\ Save(h.e, [exec[h.e] EXCEPT !.status = h.out, !.finished = TRUE,
                                       !.succ = h.succ, !.fail = h.fail])
        /\ IF h.resuming THEN Goto(w, "complete") ELSE AfterRun(w)
        /\ UNCHANGED <<wf, note, entity, used>>

-----------------------------------------------------------------------------
(* resume_workflow, and the two routes that call it *)

ResumableAfterAnswer(e) == exec[e].status \in {"paused", "succeeded"}
Resumable(e) == exec[e].status = "paused"

\* The counters resume_workflow starts from: those of the row and the answer.
IgnoreAnswer(e, approved) == <<exec[e].succ, exec[e].fail>>
CountAnswer(e, approved) == IF approved THEN <<exec[e].succ + 1, exec[e].fail>>
                                        ELSE <<exec[e].succ, exec[e].fail + 1>>

\* The approver's answer: only for a paused execution whose current step is
\* still in the workflow.  The row of the answer is committed at once, the
\* status stays 'paused' until the run stops again.
Resume(e, approved, viaNote) ==
    LET d == WfOf(e).def
        s == exec[e].step
    IN  /\ Idle(Loop)
        /\ Resumable(e)
        /\ WfOf(e).exists
        /\ s \in d.steps
        /\ exec' = [exec EXCEPT ![e].rows =
              Append(@, [step |-> s, passed |-> approved, decision |-> TRUE])]
        /\ Began(e, Loop,
                 CountAnswer(e, approved), NextStep(d, s, approved), TRUE, viaNote)
        /\ UNCHANGED <<wf, note, entity, used>>

\* POST /executions/{id}/resume
ResumeRoute(e) == \E approved \in BOOLEAN : Resume(e, approved, FALSE)

\* Somebody was notified of this execution: read or handled notifications count.
Answerable(e) == \E n \in Notes : n[1] = e /\ note[n] # "none"

\* POST /handle-approval
HandleApproval(e) ==
    /\ Answerable(e)
    /\ \E approved \in BOOLEAN : Resume(e, approved, TRUE)

\* What the completion makes of a data product.
CompletionDeploys(out) == IF out = "succeeded" THEN "deployed" ELSE "draft"
CompletionInverted(out) == IF out = "succeeded" THEN "draft" ELSE "active"
CompletionStatus(out) == IF out = "succeeded" THEN "active" ELSE "draft"

\* _handle_workflow_completion writes the status of the entity whatever it is
\* by then; for a trigger or an entity it does not know it writes nothing.
Complete(w) ==
    LET h == handler[w]
    IN  /\ h.at = "complete"
        /\ entity' = IF WorkflowOf[h.e] \in ReviewWorkflows /\ EntityOf[h.e] # NoEntity
                     THEN [entity EXCEPT ![EntityOf[h.e]] =
                             CompletionStatus(h.out)]
                     ELSE entity
        /\ AfterRun(w)
        /\ UNCHANGED <<exec, wf, note, used>>

\* handle-approval, after resume_workflow returned: every unread approval
\* notification of the execution is marked read and handled.
MarkHandled(w) ==
    LET h == handler[w]
    IN  /\ h.at = "notify"
        /\ note' = [n \in Notes |-> IF n[1] = h.e /\ note[n] = "unread"
                                    THEN "handled" ELSE note[n]]
        /\ Leave(w)
        /\ UNCHANGED <<exec, wf, entity, used>>

-----------------------------------------------------------------------------
(* Administration of executions *)

\* cancel reads the status ...
Cancel(e) ==
    /\ Idle(Loop)
    /\ exec[e].status \in {"running", "paused"}
    /\ handler' = [handler EXCEPT ![Loop] = [NoHandler EXCEPT !.at = "cancel", !.e = e]]
    /\ UNCHANGED <<exec, wf, note, entity, used>>

CancelledUnfinished(r) == [r EXCEPT !.status = "cancelled"]
CancelledRow(r) == [r EXCEPT !.status = "cancelled", !.finished = TRUE]

\* ... and writes it in a later statement; a handler of a thread that runs the
\* execution is not told.
CommitCancel(w) ==
    LET e == handler[w].e
    IN  /\ handler[w].at = "cancel"
        /\ exec' = [exec EXCEPT ![e] = CancelledRow(@)]
        /\ Leave(w)
        /\ UNCHANGED <<wf, note, entity, used>>

RetryableWhileRunning(e) == exec[e].status \in {"failed", "cancelled", "running"}
Retryable(e) == exec[e].status \in {"failed", "cancelled"}

\* reset_for_retry
Retry(e) ==
    /\ Idle(Loop)
    /\ used.retries < MaxRetries
    /\ Retryable(e)
    /\ exec' = [exec EXCEPT ![e] = [NoExec EXCEPT !.status = "running"]]
    /\ handler' = [handler EXCEPT ![Loop] = [NoHandler EXCEPT !.at = "retry", !.e = e]]
    /\ used' = [used EXCEPT !.retries = @ + 1,
                            !.revived = IF exec[e].status = "cancelled" THEN @ \cup {e} ELSE @]
    /\ UNCHANGED <<wf, note, entity>>

\* retry_execution, after the reset was committed: execute_workflow with the
\* same row.
Reexecute(w) ==
    LET e == handler[w].e
    IN  /\ handler[w].at = "retry"
        /\ exec' = [exec EXCEPT ![e] = [@ EXCEPT !.status = "running", !.step = NoStep,
                                               !.finished = FALSE]]
        /\ Began(e, w, <<0, 0>>, WfOf(e).def.first, FALSE, FALSE)
        /\ UNCHANGED <<wf, note, entity, used>>

DeleteAll(es) == exec' = [e \in Executions |-> IF e \in es THEN DeletedExec ELSE exec[e]]

\* DELETE /executions/{id}: neither running nor paused.
DeleteExecution(e) ==
    /\ Idle(Loop)
    /\ exec[e].status \in Terminal
    /\ DeleteAll({e})
    /\ UNCHANGED <<wf, note, entity, handler, used>>

\* DELETE /executions: the filters (status, workflow, age) choose among the
\* executions that are neither running nor paused.
DeleteBulk ==
    /\ Idle(Loop)
    /\ \E es \in SUBSET {e \in Executions : exec[e].status \in Terminal} :
          es # {} /\ DeleteAll(es)
    /\ UNCHANGED <<wf, note, entity, handler, used>>

-----------------------------------------------------------------------------
(* Administration of workflows *)

\* update with steps: every step row is deleted and inserted again, and with
\* the old ones the step executions that refer to them (ON DELETE CASCADE).
EditWorkflow(f, d) ==
    /\ Idle(Loop)
    /\ used.edits < MaxEdits
    /\ wf[f].exists
    /\ wf' = [wf EXCEPT ![f].def = d, ![f].ver = @ + 1]
    /\ exec' = [e \in Executions |->
          IF WorkflowOf[e] = f THEN [exec[e] EXCEPT !.rows = <<>>] ELSE exec[e]]
    /\ used' = [used EXCEPT !.edits = @ + 1]
    /\ UNCHANGED <<note, entity, handler>>

ToggleActive(f) ==
    /\ Idle(Loop)
    /\ used.edits < MaxEdits
    /\ wf[f].exists
    /\ wf' = [wf EXCEPT ![f].active = ~@]
    /\ used' = [used EXCEPT !.edits = @ + 1]
    /\ UNCHANGED <<exec, note, entity, handler>>

\* Deletes the workflow with its steps and its executions, whatever their status.
DeleteWorkflow(f) ==
    /\ Idle(Loop)
    /\ used.edits < MaxEdits
    /\ wf[f].exists
    /\ f \notin DefaultWorkflows
    /\ wf' = [wf EXCEPT ![f].exists = FALSE, ![f].ver = @ + 1]
    /\ DeleteAll({e \in Executions : WorkflowOf[e] = f /\ Exists(e)})
    /\ used' = [used EXCEPT !.edits = @ + 1]
    /\ UNCHANGED <<note, entity, handler>>

-----------------------------------------------------------------------------
(* The rest of the application *)

\* PUT /notifications/{id}/read
MarkRead(n) ==
    /\ Idle(Loop)
    /\ note[n] = "unread"
    /\ note' = [note EXCEPT ![n] = "read"]
    /\ UNCHANGED <<exec, wf, entity, handler, used>>

\* DataProductsManager.transition_status: the write of an allowed status.  The
\* workflows it fires before and after are executions like any other.
TransitionStatus(x, s) ==
    /\ Idle(Loop)
    /\ used.moves < MaxMoves
    /\ s \in ProductTransitions[entity[x]]
    /\ entity' = [entity EXCEPT ![x] = s]
    /\ used' = [used EXCEPT !.moves = @ + 1]
    /\ UNCHANGED <<exec, wf, note, handler>>

\* The process stops: handlers in progress are lost, commits are kept, and no
\* startup task looks for executions that were in progress.
Crash ==
    /\ used.crashes < MaxCrashes
    /\ \E w \in Workers : ~Idle(w)
    /\ handler' = [w \in Workers |-> NoHandler]
    /\ used' = [used EXCEPT !.crashes = @ + 1]
    /\ UNCHANGED <<exec, wf, note, entity>>

-----------------------------------------------------------------------------
(* Specification *)

\* The next commit of the handler in progress.
WorkerStep(w) ==
    \/ Reexecute(w)
    \/ RunStep(w)
    \/ ApprovalFails(w)
    \/ RequestApproval(w)
    \/ RecordFails(w)
    \/ Pause(w)
    \/ Finish(w)
    \/ Complete(w)
    \/ MarkHandled(w)
    \/ CommitCancel(w)

Administer ==
    \/ \E e \in Executions : Cancel(e) \/ Retry(e) \/ DeleteExecution(e)
    \/ DeleteBulk
    \/ \E f \in Workflows : ToggleActive(f) \/ DeleteWorkflow(f)
    \/ \E f \in Workflows, d \in Definitions : EditWorkflow(f, d)

Environment ==
    \/ \E n \in Notes : MarkRead(n)
    \/ \E x \in Entities, s \in EntityStatus : TransitionStatus(x, s)
    \/ Crash

Next ==
    \/ \E w \in Workers : WorkerStep(w)
    \/ \E w \in Workers, e \in Executions : FireTrigger(w, e)
    \/ \E e \in Executions : ExecuteManually(e) \/ ResumeRoute(e) \/ HandleApproval(e)
    \/ Administer
    \/ Environment

\* Handlers are straight-line code on a worker of their own: one that has
\* started takes its next step.  Nothing obliges people to answer, or admins to act.
Fairness == \A w \in Workers : WF_vars(WorkerStep(w))

Spec == Init /\ [][Next]_vars /\ Fairness

-----------------------------------------------------------------------------
(* Properties *)

LastRow(e) == exec[e].rows[Len(exec[e].rows)]
IsRequest(d, r) == d.kind[r.step] = "approval" /\ r.passed /\ ~r.decision

\* Whoever must answer can: a paused execution waits at a step whose approval
\* notification exists, because ApprovalStepHandler blocks only after creating
\* one and its commit comes before the status is set to paused.
PausedIsAnswerable ==
    \A e \in Executions : exec[e].status = "paused" =>
        \E u \in Approvers : exec[e].step \in StepIds /\ note[<<e, exec[e].step, u>>] # "none"

\* The step executions kept for an execution are a path through its workflow:
\* it starts at the first step, each recorded result is followed by the step
\* its branch names, and each approval request by exactly one answer.  A second
\* answer to the same request, or an answer to a finished execution, breaks it.
HistoryFollowsGraph ==
    \A e \in Executions :
        LET r == exec[e].rows
            d == WfOf(e).def
        IN  /\ r # <<>> => r[1].step = d.first /\ ~r[1].decision
            /\ \A i \in 1 .. Len(r) - 1 :
                  IF IsRequest(d, r[i])
                  THEN r[i + 1].decision /\ r[i + 1].step = r[i].step
                  ELSE /\ ~r[i + 1].decision
                       /\ r[i + 1].step = NextStep(d, r[i].step, r[i].passed)

\* A finished execution says what its history says: where the last recorded
\* step had nowhere to go, the status is succeeded if it passed and failed if
\* it did not, unless the execution was cancelled (the two ends of
\* execute_workflow and of resume_workflow agree).
TerminalStepSettles ==
    \A e \in Executions :
        exec[e].finished /\ exec[e].rows # <<>> /\ exec[e].status # "cancelled"
            => /\ NextStep(WfOf(e).def, LastRow(e).step, LastRow(e).passed) = NoStep
               /\ exec[e].status = IF LastRow(e).passed THEN "succeeded" ELSE "failed"

\* The counters shown for an execution that stands still are those of its step
\* rows, over any number of pauses: resume_workflow starts from the stored
\* counters and must count the answer itself.
CountsMatchRows ==
    \A e \in Executions :
        exec[e].status \in {"paused", "succeeded", "failed"} /\ ~BusyWith(e) =>
            LET r == exec[e].rows
            IN  /\ exec[e].succ = Cardinality({i \in DOMAIN r : r[i].passed})
                /\ exec[e].fail = Cardinality({i \in DOMAIN r : ~r[i].passed})

\* finished_at is set exactly on executions that are over, through pauses,
\* cancellations and retries.
FinishedIffTerminal ==
    \A e \in Executions : exec[e].finished <=> exec[e].status \in Terminal

\* While nobody else changes its status, an entity under review is activated
\* only by a review that succeeded (its row may have been deleted since).
ActiveOnlyIfApproved ==
    \A x \in Entities :
        used.moves = 0 /\ entity[x] = "active" /\ InitialStatus # "active" =>
            \E e \in Executions : /\ EntityOf[e] = x
                                  /\ WorkflowOf[e] \in ReviewWorkflows
                                  /\ exec[e].status \in {"succeeded", "deleted"}

\* Two workers run the same execution only after a cancelled one was retried
\* (its thread may not have stopped): a trigger creates its own row,
\* resume_workflow takes only paused rows and reset_for_retry, otherwise, only
\* failed ones, and those are rows that nobody runs any more.
Runs(w, e) == handler[w].at \in {"retry", "step", "pause", "finish"} /\ handler[w].e = e
OneRunnerPerExecution ==
    \A e \in Executions \ used.revived :
        \A v, w \in Workers : Runs(v, e) /\ Runs(w, e) => v = w

\* A row that was deleted under a running handler is not written back by it.
DeletedStaysDeleted ==
    [][\A e \in Executions : exec[e].status = "deleted" => exec'[e].status = "deleted"]_vars

\* The event loop comes back: whatever a handler on it runs, it returns, so
\* every other request is served again.
LoopReturns == ~Idle(Loop) ~> Idle(Loop)

\* An execution does not stay running: its handler pauses it or finishes it.
RunningSettles ==
    \A e \in Executions : exec[e].status = "running" ~> exec[e].status # "running"

-----------------------------------------------------------------------------
(* What comments and documents say of the program, and the code does not do *)

\* "Cancel a running or paused workflow execution": a cancelled execution is
\* over until somebody retries it.
CancelSticks ==
    [][\A e \in Executions : exec[e].status = "cancelled" =>
         exec'[e].status \in {"cancelled", "running", "deleted"}]_vars

\* The lifecycle tables give "retired" no successor.
RetiredIsFinal ==
    [][\A x \in Entities : entity[x] = "retired" => entity'[x] = "retired"]_vars

\* A notification is marked as handled when it was answered, so the request an
\* execution is paused at has no handled notification.
PendingRequestIsUnhandled ==
    \A e \in Executions : exec[e].status = "paused" /\ ~BusyWith(e) =>
        \A u \in Approvers : note[<<e, exec[e].step, u>>] # "handled"
=============================================================================
