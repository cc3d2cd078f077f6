------------------------ MODULE WorkflowEngineProofs ------------------------
(***************************************************************************)
(* Proofs about WorkflowEngine, for any executions, workflows, step graphs, *)
(* approvers and threads, and any number of crashes, edits and retries.    *)
(*                                                                         *)
(* One inductive invariant per section, each resting on those before it:   *)
(* TInv   types, and what a handler's place says of what it holds;         *)
(* RInv   which rows an execution's worker may be running;                 *)
(* DInv   a handler between two commits of a cancel or a retry has a row;  *)
(* LInv   what nothing on the event loop comes between;                    *)
(* SInv   how executions end, while no workflow was edited;                *)
(* HInv   the rows of an execution are a path through its graph.           *)
(***************************************************************************)
EXTENDS WorkflowEngine, SequenceTheorems, FiniteSetTheorems, TLAPS

\* What TypeOK leaves open: where a handler stands decides what it holds.
PlacesOK ==
    \A w \in Workers : handler[w].at \in {"step", "pause"} => handler[w].cur \in StepIds

TInv == TypeOK /\ PlacesOK

\* A graph in use gives every slug a kind, two branches and approvers.
LEMMA GraphTypes ==
    ASSUME NEW d \in Definitions, NEW s \in StepIds
    PROVE  /\ d.first \in StepIds
           /\ d.steps \subseteq StepIds
           /\ d.kind[s] \in StepKinds
           /\ d.onPass[s] \in StepIds \cup {NoStep}
           /\ d.onFail[s] \in StepIds \cup {NoStep}
           /\ d.approvers[s] \subseteq Approvers
BY DefinitionAssumption DEF ValidDefinition, Definition

LEMMA NoHandlerType == NoHandler \in Handler
BY DEF NoHandler, Handler, Places

LEMMA ExecConstants ==
    NoExec \in ExecRow /\ DeletedExec \in ExecRow /\ [NoExec EXCEPT !.status = "running"] \in ExecRow
<1>1. <<>> \in Seq(StepRow)
  OBVIOUS
<1> QED BY <1>1 DEF NoExec, DeletedExec, ExecRow, ExecStatus, Terminal

\* One more step row keeps an execution row well formed.
LEMMA AppendRow ==
    ASSUME NEW r \in ExecRow, NEW s \in StepIds, NEW p \in BOOLEAN, NEW c \in BOOLEAN
    PROVE  /\ [r EXCEPT !.rows = Append(@, [step |-> s, passed |-> p, decision |-> c])] \in ExecRow
           /\ [r EXCEPT !.rows = Append(@, [step |-> s, passed |-> p, decision |-> c])].status = r.status
           /\ [r EXCEPT !.rows = Append(@, [step |-> s, passed |-> p, decision |-> c])].step = r.step
<1> DEFINE x == [step |-> s, passed |-> p, decision |-> c]
<1>1. x \in StepRow
  BY DEF StepRow
<1>2. r.rows \in Seq(StepRow)
  BY DEF ExecRow
<1>3. Append(r.rows, x) \in Seq(StepRow)
  BY <1>1, <1>2, AppendProperties
<1> QED BY <1>3 DEF ExecRow

THEOREM InitTyped == Init => TInv
<1> SUFFICES ASSUME Init PROVE TInv
  OBVIOUS
<1> USE DEF Init
<1>1. exec \in [Executions -> ExecRow]
  BY ExecConstants
<1>2. wf \in [Workflows -> WorkflowRow]
  BY DefinitionAssumption DEF WorkflowRow
<1>3. note \in [Notes -> NoteState] /\ entity \in [Entities -> EntityStatus]
  BY DefinitionAssumption DEF NoteState
<1>4. handler \in [Workers -> Handler] /\ \A w \in Workers : handler[w].at = "idle"
  BY NoHandlerType DEF NoHandler
<1>5. used \in Used
  BY DEF Used
<1> QED BY <1>1, <1>2, <1>3, <1>4, <1>5 DEF TInv, TypeOK, PlacesOK

-----------------------------------------------------------------------------
(* Typing, action by action *)

\* Handlers that begin, move on or leave stay typed.
LEMMA BeganTyped ==
    ASSUME TInv, NEW e \in Executions, NEW w \in Workers,
           NEW s \in Nat, NEW f \in Nat, NEW next \in StepIds \cup {NoStep},
           NEW r \in BOOLEAN, NEW v \in BOOLEAN,
           Began(e, w, <<s, f>>, next, r, v)
    PROVE  /\ handler' \in [Workers -> Handler]
           /\ \A x \in Workers : handler'[x].at # "idle" => handler'[x].e \in Executions
           /\ PlacesOK'
<1> DEFINE h == [at |-> IF next = NoStep THEN "finish" ELSE "step", e |-> e, cur |-> next,
                 succ |-> s, fail |-> f, ver |-> WfOf(e).ver, out |-> "running",
                 resuming |-> r, viaNote |-> v]
<1>1. handler' = [handler EXCEPT ![w] = h]
  BY DEF Began
<1>2. WfOf(e).ver \in Nat
  BY IdAssumption DEF TInv, TypeOK, WfOf, WorkflowRow
<1>3. h \in Handler
  BY <1>2 DEF Handler, Places
<1>4. h.at \in {"step", "finish"} /\ h.e \in Executions /\ (h.at = "step" => h.cur \in StepIds)
  OBVIOUS
<1> HIDE DEF h
<1> QED BY <1>1, <1>3, <1>4 DEF TInv, TypeOK, PlacesOK

LEMMA LeaveTyped ==
    ASSUME TInv, NEW w \in Workers, Leave(w)
    PROVE  /\ handler' \in [Workers -> Handler]
           /\ \A x \in Workers : handler'[x].at # "idle" => handler'[x].e \in Executions
           /\ PlacesOK'
<1>1. NoHandler \in Handler /\ NoHandler.at = "idle"
  BY NoHandlerType DEF NoHandler
<1> HIDE DEF NoHandler
<1> QED BY <1>1 DEF TInv, TypeOK, PlacesOK, Leave

LEMMA GotoTyped ==
    ASSUME TInv, NEW w \in Workers, NEW place \in {"complete", "notify"},
           handler[w].at # "idle", Goto(w, place)
    PROVE  /\ handler' \in [Workers -> Handler]
           /\ \A x \in Workers : handler'[x].at # "idle" => handler'[x].e \in Executions
           /\ PlacesOK'
<1>1. handler[w] \in Handler /\ place \in Places
  BY DEF TInv, TypeOK, Places
<1>2. [handler[w] EXCEPT !.at = place] \in Handler
  BY <1>1 DEF Handler
<1>3. handler' = [handler EXCEPT ![w] = [handler[w] EXCEPT !.at = place]]
  BY DEF Goto
<1>4. [handler[w] EXCEPT !.at = place].at = place /\ [handler[w] EXCEPT !.at = place].e = handler[w].e
  BY <1>1 DEF Handler
<1> QED BY <1>2, <1>3, <1>4 DEF TInv, TypeOK, PlacesOK

LEMMA AfterRunTyped ==
    ASSUME TInv, NEW w \in Workers, handler[w].at # "idle", AfterRun(w)
    PROVE  /\ handler' \in [Workers -> Handler]
           /\ \A x \in Workers : handler'[x].at # "idle" => handler'[x].e \in Executions
           /\ PlacesOK'
<1>1. CASE handler[w].viaNote
  BY <1>1, GotoTyped DEF AfterRun
<1>2. CASE ~handler[w].viaNote
  BY <1>2, LeaveTyped DEF AfterRun
<1> QED BY <1>1, <1>2

LEMMA StartTyped ==
    ASSUME TInv, NEW w \in Workers, NEW e \in Executions, Start(w, e)
    PROVE  TInv'
<1>1. WfOf(e).def \in Definitions
  BY IdAssumption DEF TInv, TypeOK, WfOf, WorkflowRow
<1>2. WfOf(e).def.first \in StepIds
  BY <1>1, DefinitionAssumption DEF ValidDefinition, Definition
<1>3. [exec[e] EXCEPT !.status = "running"] \in ExecRow
  BY DEF TInv, TypeOK, ExecRow, ExecStatus
<1>4. exec' \in [Executions -> ExecRow]
  BY <1>3 DEF Start, TInv, TypeOK
<1>5. Began(e, w, <<0, 0>>, WfOf(e).def.first, FALSE, FALSE)
  BY DEF Start
<1> QED BY <1>2, <1>4, <1>5, BeganTyped DEF TInv, TypeOK, Start

\* The facts a handler that is about to run a step stands on.
LEMMA AtStep ==
    ASSUME TInv, NEW w \in Workers, handler[w].at \in {"step", "pause"}
    PROVE  /\ handler[w] \in Handler
           /\ handler[w].e \in Executions
           /\ handler[w].cur \in StepIds
           /\ exec[handler[w].e] \in ExecRow
           /\ WfOf(handler[w].e).def \in Definitions
<1>1. handler[w].e \in Executions
  BY DEF TInv, TypeOK
<1>2. WfOf(handler[w].e).def \in Definitions
  BY <1>1, IdAssumption DEF TInv, TypeOK, WfOf, WorkflowRow
<1> QED BY <1>1, <1>2 DEF TInv, TypeOK, PlacesOK

LEMMA AppendRowTyped ==
    ASSUME TInv, NEW e \in Executions, NEW s \in StepIds, NEW p \in BOOLEAN, NEW c \in BOOLEAN,
           exec' = [exec EXCEPT ![e].rows =
                      Append(@, [step |-> s, passed |-> p, decision |-> c])]
    PROVE  exec' \in [Executions -> ExecRow]
<1> DEFINE r == [exec[e] EXCEPT !.rows = Append(@, [step |-> s, passed |-> p, decision |-> c])]
<1>1. r \in ExecRow
  BY AppendRow DEF TInv, TypeOK
<1>2. exec' = [exec EXCEPT ![e] = r]
  OBVIOUS
<1> HIDE DEF r
<1> QED BY <1>1, <1>2 DEF TInv, TypeOK

\* What a turn of the loop leaves the worker with.
LEMMA AdvanceMoves ==
    ASSUME TInv, NEW w \in Workers, handler[w].at = "step", NEW passed \in BOOLEAN,
           Advance(w, passed)
    PROVE  \E g \in Handler : /\ handler' = [handler EXCEPT ![w] = g]
                              /\ g.at \in {"finish", "step"}
                              /\ g.e = handler[w].e
                              /\ g.at = "step" => g.cur \in StepIds
<1> DEFINE h    == handler[w]
           next == NextStep(WfOf(h.e).def, h.cur, passed)
           g    == [h EXCEPT !.at   = IF next = NoStep THEN "finish" ELSE "step",
                             !.cur  = next,
                             !.succ = IF passed THEN @ + 1 ELSE @,
                             !.fail = IF passed THEN @ ELSE @ + 1,
                             !.out  = IF next = NoStep THEN Outcome(passed) ELSE @]
<1>1. next \in StepIds \cup {NoStep}
  BY AtStep, GraphTypes DEF NextStep
<1>2. h \in Handler /\ h.e \in Executions
  BY AtStep
<1> HIDE DEF next
<1> DEFINE at   == IF next = NoStep THEN "finish" ELSE "step"
           succ == IF passed THEN h.succ + 1 ELSE h.succ
           fail == IF passed THEN h.fail ELSE h.fail + 1
           out  == IF next = NoStep THEN Outcome(passed) ELSE h.out
<1>3. at \in Places /\ succ \in Nat /\ fail \in Nat /\ out \in {"running", "succeeded", "failed"}
  BY <1>2 DEF Handler, Places, Outcome
<1> DEFINE k == [h EXCEPT !.at = at, !.cur = next, !.succ = succ, !.fail = fail, !.out = out]
<1>4. g = k
  BY DEF k, at, succ, fail, out
<1>5. g \in Handler
  <2> HIDE DEF at, succ, fail, out
  <2>1. k \in Handler
    BY <1>1, <1>2, <1>3 DEF Handler
  <2> HIDE DEF k, g
  <2> QED BY <2>1, <1>4
<1>6. g.at \in {"finish", "step"} /\ g.e = h.e /\ (g.at = "step" => g.cur \in StepIds)
  BY <1>1, <1>2 DEF Handler
<1>7. handler' = [handler EXCEPT ![w] = g]
  BY DEF Advance, next
<1> HIDE DEF g
<1> QED BY <1>5, <1>6, <1>7

LEMMA AdvanceTyped ==
    ASSUME TInv, NEW w \in Workers, handler[w].at = "step", NEW passed \in BOOLEAN,
           Advance(w, passed), UNCHANGED <<wf, note, entity, used>>
    PROVE  TInv'
<1>1. PICK g \in Handler : /\ handler' = [handler EXCEPT ![w] = g]
                           /\ g.at \in {"finish", "step"}
                           /\ g.e = handler[w].e
                           /\ g.at = "step" => g.cur \in StepIds
  BY AdvanceMoves
<1>2. exec' \in [Executions -> ExecRow]
  BY AtStep, AppendRowTyped DEF Advance
<1>3. handler[w].e \in Executions
  BY AtStep
<1> QED BY <1>1, <1>2, <1>3 DEF TInv, TypeOK, PlacesOK

LEMMA RunStepTyped ==
    ASSUME TInv, NEW w \in Workers, RunStep(w)
    PROVE  TInv'
<1>1. PICK passed \in Results(WfOf(handler[w].e).def.kind[handler[w].cur]) : Advance(w, passed)
  BY DEF RunStep
<1>2. passed \in BOOLEAN
  BY DEF Results
<1> QED BY <1>1, <1>2, AdvanceTyped DEF RunStep

LEMMA ApprovalFailsTyped ==
    ASSUME TInv, NEW w \in Workers, ApprovalFails(w)
    PROVE  TInv'
BY AdvanceTyped DEF ApprovalFails

\* What requesting approval leaves the worker with.
LEMMA RequestMoves ==
    ASSUME TInv, NEW w \in Workers, RequestApproval(w)
    PROVE  \E g \in Handler : /\ handler' = [handler EXCEPT ![w] = g]
                              /\ g.at = "pause"
                              /\ g.e = handler[w].e
                              /\ g.cur = handler[w].cur
<1> DEFINE h == handler[w]
           g == [h EXCEPT !.at = "pause", !.succ = @ + 1]
           n == h.succ + 1
           k == [h EXCEPT !.at = "pause", !.succ = n]
<1>1. h \in Handler
  BY DEF TInv, TypeOK
<1>2. n \in Nat
  BY <1>1 DEF Handler
<1>3. g = k
  BY DEF k, n
<1>4. k \in Handler /\ k.at = "pause" /\ k.e = h.e /\ k.cur = h.cur
  <2> HIDE DEF n
  <2> QED BY <1>1, <1>2 DEF Handler, Places
<1>5. handler' = [handler EXCEPT ![w] = g]
  BY DEF RequestApproval
<1> HIDE DEF g, k
<1> QED BY <1>3, <1>4, <1>5

LEMMA RequestApprovalTyped ==
    ASSUME TInv, NEW w \in Workers, RequestApproval(w)
    PROVE  TInv'
<1>1. PICK g \in Handler : /\ handler' = [handler EXCEPT ![w] = g]
                           /\ g.at = "pause"
                           /\ g.e = handler[w].e
                           /\ g.cur = handler[w].cur
  BY RequestMoves
<1>2. handler[w].e \in Executions /\ handler[w].cur \in StepIds
  BY AtStep DEF RequestApproval
<1>3. exec' \in [Executions -> ExecRow]
  BY <1>2, AppendRowTyped DEF RequestApproval
<1>4. note' \in [Notes -> NoteState]
  BY DEF RequestApproval, TInv, TypeOK, NoteState
<1> QED BY <1>1, <1>2, <1>3, <1>4 DEF RequestApproval, TInv, TypeOK, PlacesOK

LEMMA RecordFailsTyped ==
    ASSUME TInv, NEW w \in Workers, RecordFails(w)
    PROVE  TInv'
BY LeaveTyped DEF RecordFails, TInv, TypeOK

LEMMA PauseTyped ==
    ASSUME TInv, NEW w \in Workers, Pause(w)
    PROVE  TInv'
<1> DEFINE h == handler[w]
           r == [exec[h.e] EXCEPT !.status = "paused", !.step = h.cur,
                                  !.succ = h.succ, !.fail = h.fail]
<1>1. h.at = "pause" /\ h \in Handler /\ h.e \in Executions /\ h.cur \in StepIds
      /\ exec[h.e] \in ExecRow
  BY AtStep DEF Pause
<1>2. r \in ExecRow
  BY <1>1 DEF ExecRow, ExecStatus, Handler
<1>3. exec' \in [Executions -> ExecRow]
  BY <1>1, <1>2 DEF Pause, Save, TInv, TypeOK
<1> QED BY <1>1, <1>3, AfterRunTyped DEF Pause, TInv, TypeOK

LEMMA FinishTyped ==
    ASSUME TInv, NEW w \in Workers, Finish(w)
    PROVE  TInv'
<1> DEFINE h == handler[w]
           r == [exec[h.e] EXCEPT !.status = h.out, !.finished = TRUE,
                                  !.succ = h.succ, !.fail = h.fail]
<1>1. h.at = "finish" /\ h \in Handler /\ h.e \in Executions /\ exec[h.e] \in ExecRow
  BY DEF Finish, TInv, TypeOK
<1>2. r \in ExecRow
  BY <1>1 DEF ExecRow, ExecStatus, Terminal, Handler
<1>3. exec' \in [Executions -> ExecRow]
  BY <1>1, <1>2 DEF Finish, Save, TInv, TypeOK
<1>4. CASE h.resuming
  BY <1>1, <1>3, <1>4, GotoTyped DEF Finish, TInv, TypeOK
<1>5. CASE ~h.resuming
  BY <1>1, <1>3, <1>5, AfterRunTyped DEF Finish, TInv, TypeOK
<1> QED BY <1>4, <1>5

LEMMA ResumeTyped ==
    ASSUME TInv, NEW e \in Executions, NEW approved \in BOOLEAN, NEW viaNote \in BOOLEAN,
           Resume(e, approved, viaNote)
    PROVE  TInv'
<1> DEFINE d == WfOf(e).def
           s == exec[e].step
<1>1. d \in Definitions /\ exec[e] \in ExecRow
  BY IdAssumption DEF TInv, TypeOK, WfOf, WorkflowRow
<1>2. s \in StepIds
  BY <1>1, GraphTypes, DefinitionAssumption DEF Resume, ValidDefinition, Definition
<1>3. NextStep(d, s, approved) \in StepIds \cup {NoStep}
  BY <1>1, <1>2, GraphTypes DEF NextStep
<1>4. exec' \in [Executions -> ExecRow]
  BY <1>2, AppendRowTyped DEF Resume
<1>5. PICK a \in Nat, b \in Nat : CountAnswer(e, approved) = <<a, b>>
  BY <1>1 DEF CountAnswer, ExecRow
<1>6. Began(e, Loop, <<a, b>>, NextStep(d, s, approved), TRUE, viaNote)
  BY <1>5 DEF Resume
<1>7. Loop \in Workers
  BY DEF Workers
<1>8. /\ handler' \in [Workers -> Handler]
      /\ \A x \in Workers : handler'[x].at # "idle" => handler'[x].e \in Executions
      /\ PlacesOK'
  BY <1>3, <1>6, <1>7, BeganTyped
<1> QED BY <1>4, <1>8 DEF Resume, TInv, TypeOK

LEMMA CompleteTyped ==
    ASSUME TInv, NEW w \in Workers, Complete(w)
    PROVE  TInv'
<1>1. handler[w].at # "idle" /\ handler[w].e \in Executions
  BY DEF Complete, TInv, TypeOK
<1>2. CompletionStatus(handler[w].out) \in EntityStatus
  BY DEF CompletionStatus, EntityStatus
<1>3. entity' \in [Entities -> EntityStatus]
  BY <1>1, <1>2 DEF Complete, TInv, TypeOK
<1> QED BY <1>1, <1>3, AfterRunTyped DEF Complete, TInv, TypeOK

LEMMA MarkHandledTyped ==
    ASSUME TInv, NEW w \in Workers, MarkHandled(w)
    PROVE  TInv'
<1>1. note' \in [Notes -> NoteState]
  BY DEF MarkHandled, TInv, TypeOK, NoteState
<1> QED BY <1>1, LeaveTyped DEF MarkHandled, TInv, TypeOK

\* A handler of Loop that holds nothing but its execution.
LEMMA ShortHandler ==
    ASSUME NEW e \in Executions, NEW place \in {"cancel", "retry"},
           handler' = [handler EXCEPT ![Loop] = [NoHandler EXCEPT !.at = place, !.e = e]]
    PROVE  \E g \in Handler : handler' = [handler EXCEPT ![Loop] = g] /\ g.at = place /\ g.e = e
<1> DEFINE h == [NoHandler EXCEPT !.at = place, !.e = e]
<1>1. h \in Handler /\ h.at = place /\ h.e = e
  BY DEF NoHandler, Handler, Places
<1>2. handler' = [handler EXCEPT ![Loop] = h]
  OBVIOUS
<1> HIDE DEF h
<1> QED BY <1>1, <1>2

LEMMA ShortHandlerTyped ==
    ASSUME TInv, NEW e \in Executions, NEW place \in {"cancel", "retry"},
           handler' = [handler EXCEPT ![Loop] = [NoHandler EXCEPT !.at = place, !.e = e]]
    PROVE  /\ handler' \in [Workers -> Handler]
           /\ \A x \in Workers : handler'[x].at # "idle" => handler'[x].e \in Executions
           /\ PlacesOK'
<1>1. PICK g \in Handler : handler' = [handler EXCEPT ![Loop] = g] /\ g.at = place /\ g.e = e
  BY ShortHandler
<1>2. Loop \in Workers
  BY DEF Workers
<1> QED BY <1>1, <1>2 DEF TInv, TypeOK, PlacesOK

LEMMA CancelTyped ==
    ASSUME TInv, NEW e \in Executions, Cancel(e)
    PROVE  TInv'
<1>1. handler' = [handler EXCEPT ![Loop] = [NoHandler EXCEPT !.at = "cancel", !.e = e]]
  BY DEF Cancel
<1> QED BY <1>1, ShortHandlerTyped DEF Cancel, TInv, TypeOK

LEMMA CommitCancelTyped ==
    ASSUME TInv, NEW w \in Workers, CommitCancel(w)
    PROVE  TInv'
<1> DEFINE e == handler[w].e
           r == CancelledRow(exec[e])
<1>1. e \in Executions /\ exec[e] \in ExecRow
  BY DEF CommitCancel, TInv, TypeOK
<1>2. r \in ExecRow
  BY <1>1 DEF CancelledRow, ExecRow, ExecStatus, Terminal
<1>3. exec' = [exec EXCEPT ![e] = r]
  BY DEF CommitCancel
<1>4. exec' \in [Executions -> ExecRow]
  <2> HIDE DEF r
  <2> QED BY <1>2, <1>3 DEF TInv, TypeOK
<1> QED BY <1>4, LeaveTyped DEF CommitCancel, TInv, TypeOK

LEMMA RetryTyped ==
    ASSUME TInv, NEW e \in Executions, Retry(e)
    PROVE  TInv'
<1>1. handler' = [handler EXCEPT ![Loop] = [NoHandler EXCEPT !.at = "retry", !.e = e]]
  BY DEF Retry
<1>2. exec' \in [Executions -> ExecRow]
  <2>1. exec' = [exec EXCEPT ![e] = [NoExec EXCEPT !.status = "running"]]
    BY DEF Retry
  <2> QED BY <2>1, ExecConstants DEF TInv, TypeOK
<1>3. used' \in Used
  <2> DEFINE n == used.retries + 1
             r == IF exec[e].status = "cancelled" THEN used.revived \cup {e} ELSE used.revived
  <2>1. used \in Used
    BY DEF TInv, TypeOK
  <2>2. n \in Nat /\ r \in SUBSET Executions
    BY <2>1 DEF Used
  <2>3. used' = [used EXCEPT !.retries = n, !.revived = r]
    BY DEF Retry
  <2> HIDE DEF n, r
  <2> QED BY <2>1, <2>2, <2>3 DEF Used
<1> QED BY <1>1, <1>2, <1>3, ShortHandlerTyped DEF Retry, TInv, TypeOK

LEMMA ReexecuteTyped ==
    ASSUME TInv, NEW w \in Workers, Reexecute(w)
    PROVE  TInv'
<1> DEFINE e == handler[w].e
           r == [exec[e] EXCEPT !.status = "running", !.step = NoStep, !.finished = FALSE]
<1>1. e \in Executions
  BY DEF Reexecute, TInv, TypeOK
<1>2. WfOf(e).def.first \in StepIds
  BY <1>1, IdAssumption, DefinitionAssumption
     DEF TInv, TypeOK, WfOf, WorkflowRow, ValidDefinition, Definition
<1>3. r \in ExecRow
  BY <1>1 DEF ExecRow, ExecStatus, TInv, TypeOK
<1>4. exec' = [exec EXCEPT ![e] = r]
  BY DEF Reexecute
<1>5. exec' \in [Executions -> ExecRow]
  <2> HIDE DEF r
  <2> QED BY <1>3, <1>4 DEF TInv, TypeOK
<1>6. Began(e, w, <<0, 0>>, WfOf(e).def.first, FALSE, FALSE)
  BY DEF Reexecute
<1> QED BY <1>1, <1>2, <1>5, <1>6, BeganTyped DEF Reexecute, TInv, TypeOK

LEMMA DeleteAllTyped ==
    ASSUME TInv, NEW es, DeleteAll(es)
    PROVE  exec' \in [Executions -> ExecRow]
BY ExecConstants DEF DeleteAll, TInv, TypeOK

LEMMA DeleteExecutionTyped ==
    ASSUME TInv, NEW e \in Executions, DeleteExecution(e)
    PROVE  TInv'
BY DeleteAllTyped DEF DeleteExecution, TInv, TypeOK, PlacesOK

LEMMA DeleteBulkTyped ==
    ASSUME TInv, DeleteBulk
    PROVE  TInv'
BY DeleteAllTyped DEF DeleteBulk, TInv, TypeOK, PlacesOK

LEMMA EditWorkflowTyped ==
    ASSUME TInv, NEW f \in Workflows, NEW d \in Definitions, EditWorkflow(f, d)
    PROVE  TInv'
<1> DEFINE n == wf[f].ver + 1
           r == [wf[f] EXCEPT !.def = d, !.ver = n]
           q == [wf[f] EXCEPT !.def = d, !.ver = @ + 1]
<1>1. wf[f] \in WorkflowRow
  BY DEF TInv, TypeOK
<1>2. n \in Nat
  BY <1>1 DEF WorkflowRow
<1>3. wf' = [wf EXCEPT ![f] = r]
  <2>1. wf' = [wf EXCEPT ![f] = q]
    BY DEF EditWorkflow
  <2>2. q = r
    BY DEF q, r, n
  <2> HIDE DEF q, r
  <2> QED BY <2>1, <2>2
<1>4. r \in WorkflowRow
  <2> HIDE DEF n
  <2> QED BY <1>1, <1>2 DEF WorkflowRow
<1>5. wf' \in [Workflows -> WorkflowRow]
  <2> HIDE DEF r
  <2> QED BY <1>3, <1>4 DEF TInv, TypeOK
<1>6. \A e \in Executions : [exec[e] EXCEPT !.rows = <<>>] \in ExecRow
  <2>1. <<>> \in Seq(StepRow)
    OBVIOUS
  <2> QED BY <2>1 DEF ExecRow, TInv, TypeOK
<1>7. exec' \in [Executions -> ExecRow]
  BY <1>6 DEF EditWorkflow, TInv, TypeOK
<1>8. used' \in Used
  BY DEF EditWorkflow, TInv, TypeOK, Used
<1> QED BY <1>5, <1>7, <1>8 DEF EditWorkflow, TInv, TypeOK, PlacesOK

LEMMA ToggleActiveTyped ==
    ASSUME TInv, NEW f \in Workflows, ToggleActive(f)
    PROVE  TInv'
<1>1. [wf[f] EXCEPT !.active = ~@] \in WorkflowRow
  BY DEF WorkflowRow, TInv, TypeOK
<1>2. wf' = [wf EXCEPT ![f] = [wf[f] EXCEPT !.active = ~@]]
  BY DEF ToggleActive
<1>3. wf' \in [Workflows -> WorkflowRow]
  BY <1>1, <1>2 DEF TInv, TypeOK
<1>4. used' \in Used
  BY DEF ToggleActive, TInv, TypeOK, Used
<1> QED BY <1>3, <1>4 DEF ToggleActive, TInv, TypeOK, PlacesOK

LEMMA DeleteWorkflowTyped ==
    ASSUME TInv, NEW f \in Workflows, DeleteWorkflow(f)
    PROVE  TInv'
<1> DEFINE n == wf[f].ver + 1
           r == [wf[f] EXCEPT !.exists = FALSE, !.ver = n]
           q == [wf[f] EXCEPT !.exists = FALSE, !.ver = @ + 1]
<1>1. wf[f] \in WorkflowRow
  BY DEF TInv, TypeOK
<1>2. n \in Nat
  BY <1>1 DEF WorkflowRow
<1>3. wf' = [wf EXCEPT ![f] = r]
  <2>1. wf' = [wf EXCEPT ![f] = q]
    BY DEF DeleteWorkflow
  <2>2. q = r
    BY DEF q, r, n
  <2> HIDE DEF q, r
  <2> QED BY <2>1, <2>2
<1>4. r \in WorkflowRow
  <2> HIDE DEF n
  <2> QED BY <1>1, <1>2 DEF WorkflowRow
<1>5. wf' \in [Workflows -> WorkflowRow]
  <2> HIDE DEF r
  <2> QED BY <1>3, <1>4 DEF TInv, TypeOK
<1>6. exec' \in [Executions -> ExecRow]
  BY DeleteAllTyped DEF DeleteWorkflow
<1>7. used' \in Used
  BY DEF DeleteWorkflow, TInv, TypeOK, Used
<1> QED BY <1>5, <1>6, <1>7 DEF DeleteWorkflow, TInv, TypeOK, PlacesOK

LEMMA EnvironmentTyped ==
    ASSUME TInv, Environment
    PROVE  TInv'
<1>1. CASE \E n \in Notes : MarkRead(n)
  BY <1>1 DEF MarkRead, TInv, TypeOK, PlacesOK, NoteState
<1>2. CASE \E x \in Entities, s \in EntityStatus : TransitionStatus(x, s)
  BY <1>2 DEF TransitionStatus, TInv, TypeOK, PlacesOK, Used
<1>3. CASE Crash
  <2>1. NoHandler.at = "idle" /\ NoHandler \in Handler
    BY NoHandlerType DEF NoHandler
  <2>2. used' \in Used
    BY <1>3 DEF Crash, TInv, TypeOK, Used
  <2> HIDE DEF NoHandler
  <2> QED BY <1>3, <2>1, <2>2 DEF Crash, TInv, TypeOK, PlacesOK
<1> QED BY <1>1, <1>2, <1>3 DEF Environment

LEMMA AdministerTyped ==
    ASSUME TInv, Administer
    PROVE  TInv'
BY CancelTyped, RetryTyped, DeleteExecutionTyped, DeleteBulkTyped, ToggleActiveTyped,
   DeleteWorkflowTyped, EditWorkflowTyped
   DEF Administer

LEMMA WorkerStepTyped ==
    ASSUME TInv, NEW w \in Workers, WorkerStep(w)
    PROVE  TInv'
BY ReexecuteTyped, RunStepTyped, ApprovalFailsTyped, RequestApprovalTyped, RecordFailsTyped,
   PauseTyped, FinishTyped, CompleteTyped, MarkHandledTyped, CommitCancelTyped
   DEF WorkerStep

LEMMA NextTyped ==
    ASSUME TInv, [Next]_vars
    PROVE  TInv'
<1>1. CASE \E w \in Workers : WorkerStep(w)
  BY <1>1, WorkerStepTyped
<1>2. CASE \E w \in Workers, e \in Executions : FireTrigger(w, e)
  BY <1>2, StartTyped DEF FireTrigger
<1>3. CASE \E e \in Executions : ExecuteManually(e) \/ ResumeRoute(e) \/ HandleApproval(e)
  <2>1. Loop \in Workers
    BY DEF Workers
  <2> QED BY <1>3, <2>1, StartTyped, ResumeTyped DEF ExecuteManually, ResumeRoute, HandleApproval
<1>4. CASE Administer
  BY <1>4, AdministerTyped
<1>5. CASE Environment
  BY <1>5, EnvironmentTyped
<1>6. CASE UNCHANGED vars
  BY <1>6 DEF vars, TInv, TypeOK, PlacesOK
<1> QED BY <1>1, <1>2, <1>3, <1>4, <1>5, <1>6 DEF Next

\* Rows, notifications and handlers keep their shape, and a handler that runs
\* or awaits a step has one, through every interleaving of handlers, edits,
\* deletions and crashes.
THEOREM TypeCorrect == Spec => []TypeOK
<1>1. Init => TInv
  BY InitTyped
<1>2. TInv /\ [Next]_vars => TInv'
  BY NextTyped
<1>3. TInv => TypeOK
  BY DEF TInv
<1> QED BY <1>1, <1>2, <1>3, PTL DEF Spec

-----------------------------------------------------------------------------
(* A paused execution can be answered *)

\* Between the commit of the request and the commit of the pause the execution
\* is not yet paused: its handler holds the step the approvers were asked at.
PauseWasRequested ==
    \A w \in Workers : handler[w].at = "pause" =>
        \E u \in Approvers : note[<<handler[w].e, handler[w].cur, u>>] # "none"

AInv == TInv /\ PauseWasRequested /\ PausedIsAnswerable

\* No action takes a notification back.
LEMMA NotesKept ==
    ASSUME [Next]_vars, TInv, NEW n \in Notes, note[n] # "none"
    PROVE  note'[n] # "none"
<1>1. CASE \E w \in Workers : WorkerStep(w)
  <2> PICK w \in Workers : WorkerStep(w)
    BY <1>1
  <2>1. CASE RequestApproval(w)
    BY <2>1 DEF RequestApproval
  <2>2. CASE MarkHandled(w)
    BY <2>2 DEF MarkHandled
  <2>3. CASE UNCHANGED note
    BY <2>3
  <2> QED BY <2>1, <2>2, <2>3 DEF WorkerStep, Reexecute, RunStep, ApprovalFails, RecordFails,
             Pause, Finish, Complete, CommitCancel
<1>2. CASE \E m \in Notes : MarkRead(m)
  BY <1>2 DEF MarkRead, TInv, TypeOK
<1>3. CASE UNCHANGED note
  BY <1>3
<1> QED
  BY <1>1, <1>2, <1>3
     DEF Next, FireTrigger, ExecuteManually, Start, ResumeRoute, HandleApproval, Resume,
         Administer, Cancel, Retry, DeleteExecution, DeleteBulk, ToggleActive, DeleteWorkflow,
         EditWorkflow, Environment, TransitionStatus, Crash, vars

\* A request leaves at least one notification.
LEMMA RequestNotifies ==
    ASSUME TInv, NEW w \in Workers, RequestApproval(w)
    PROVE  \E u \in Approvers : note'[<<handler[w].e, handler[w].cur, u>>] # "none"
<1> DEFINE h == handler[w]
           d == WfOf(h.e).def
<1>1. h.e \in Executions /\ h.cur \in StepIds /\ d \in Definitions
  BY AtStep DEF RequestApproval
<1>2. PICK asked \in Reachable(d, h.cur) : \A n \in Notes :
         n[1] = h.e /\ n[2] = h.cur /\ n[3] \in asked => note'[n] = "unread"
  BY DEF RequestApproval
<1>3. asked \subseteq Approvers /\ asked # {}
  BY <1>1, <1>2, GraphTypes DEF Reachable
<1>4. PICK u \in asked : u \in Approvers
  BY <1>3
<1>5. <<h.e, h.cur, u>> \in Notes
  BY <1>1, <1>4 DEF Notes
<1>6. note'[<<h.e, h.cur, u>>] = "unread"
  BY <1>2, <1>4, <1>5
<1> QED BY <1>4, <1>6

\* A handler comes to the place before the pause only by requesting approval.
LEMMA PausePlaceKept ==
    ASSUME TInv, [Next]_vars, NEW w \in Workers, handler'[w].at = "pause", ~RequestApproval(w)
    PROVE  handler'[w] = handler[w]
<1> SUFFICES ASSUME handler'[w] # handler[w] PROVE FALSE
  OBVIOUS
<1>0. NoHandler.at = "idle" /\ handler \in [Workers -> Handler] /\ Loop \in Workers
  BY DEF NoHandler, TInv, TypeOK, Workers
<1>a. \A x \in Workers : \A e, c, n, r, v : Began(e, x, c, n, r, v) => FALSE
  BY <1>0 DEF Began
<1>b. \A x \in Workers : ~ Leave(x)
  BY <1>0 DEF Leave
<1>c. \A x \in Workers : \A place \in {"complete", "notify"} : ~ Goto(x, place)
  BY <1>0 DEF Goto, Handler
<1>d. \A x \in Workers : ~ AfterRun(x)
  BY <1>b, <1>c DEF AfterRun
<1>e. \A x \in Workers, passed \in BOOLEAN : handler[x].at = "step" => ~ Advance(x, passed)
  BY <1>0, AdvanceMoves
<1>1. CASE \E x \in Workers : WorkerStep(x)
  <2> PICK x \in Workers : WorkerStep(x)
    BY <1>1
  <2>1. CASE RunStep(x)
    BY <2>1, <1>e DEF RunStep, Results
  <2>2. CASE ApprovalFails(x)
    BY <2>2, <1>e DEF ApprovalFails
  <2>3. CASE RequestApproval(x)
    BY <2>3, <1>0, RequestMoves
  <2> QED BY <2>1, <2>2, <2>3, <1>a, <1>b, <1>c, <1>d
          DEF WorkerStep, Reexecute, RecordFails, Pause, Finish, Complete, MarkHandled, CommitCancel
<1>2. CASE \E x \in Workers, e \in Executions : FireTrigger(x, e)
  BY <1>2, <1>a DEF FireTrigger, Start
<1>3. CASE \E e \in Executions : ExecuteManually(e) \/ ResumeRoute(e) \/ HandleApproval(e)
  BY <1>3, <1>0, <1>a DEF ExecuteManually, Start, ResumeRoute, HandleApproval, Resume
<1>4. CASE \E e \in Executions : Cancel(e) \/ Retry(e)
  <2> PICK e \in Executions : Cancel(e) \/ Retry(e)
    BY <1>4
  <2>1. PICK g \in Handler : handler' = [handler EXCEPT ![Loop] = g] /\ g.at \in {"cancel", "retry"}
    BY ShortHandler DEF Cancel, Retry
  <2> QED BY <2>1, <1>0
<1>5. CASE Crash
  BY <1>5, <1>0 DEF Crash
<1>6. CASE UNCHANGED handler
  BY <1>6
<1> QED
  BY <1>1, <1>2, <1>3, <1>4, <1>5, <1>6
     DEF Next, Administer, DeleteExecution, DeleteBulk, ToggleActive, DeleteWorkflow,
         EditWorkflow, Environment, MarkRead, TransitionStatus, vars

\* The answer is recorded before any status is written.
LEMMA ResumeKeepsStatus ==
    ASSUME TInv, NEW e \in Executions, NEW x \in Executions, NEW a \in BOOLEAN, NEW v \in BOOLEAN,
           Resume(x, a, v)
    PROVE  exec'[e].status = exec[e].status /\ exec'[e].step = exec[e].step
<1>1. exec[x] \in ExecRow /\ WfOf(x).def \in Definitions
  BY IdAssumption DEF TInv, TypeOK, WfOf, WorkflowRow
<1>2. exec[x].step \in StepIds
  BY <1>1, DefinitionAssumption DEF Resume, ValidDefinition, Definition
<1> DEFINE r == [exec[x] EXCEPT !.rows =
                   Append(@, [step |-> exec[x].step, passed |-> a, decision |-> TRUE])]
<1>3. exec' = [exec EXCEPT ![x] = r]
  BY DEF Resume
<1>4. r.status = exec[x].status /\ r.step = exec[x].step
  BY <1>1, <1>2, AppendRow
<1> HIDE DEF r
<1> QED BY <1>3, <1>4 DEF TInv, TypeOK

\* Every way in which the status of an execution may change.
LEMMA StatusMoves ==
    ASSUME TInv, [Next]_vars, NEW e \in Executions
    PROVE  \/ exec'[e].status = exec[e].status /\ exec'[e].step = exec[e].step
           \/ exec[e].status = "none" /\ exec'[e].status = "running"
           \/ \E w \in Workers : /\ Pause(w) /\ handler[w].e = e
                                 /\ Exists(e) /\ exec'[e].status = "paused"
           \/ \E w \in Workers : /\ Finish(w) /\ handler[w].e = e /\ Exists(e)
                                 /\ exec'[e].status \in {"running", "succeeded", "failed"}
           \/ \E w \in Workers : /\ Reexecute(w) /\ handler[w].e = e
                                 /\ exec'[e].status = "running"
           \/ \E w \in Workers : /\ CommitCancel(w) /\ handler[w].e = e
                                 /\ exec'[e].status = "cancelled"
           \/ Retry(e) /\ exec'[e].status = "running"
           \/ Idle(Loop) /\ Exists(e) /\ exec'[e].status = "deleted"
<1> DEFINE Same == exec'[e].status = exec[e].status /\ exec'[e].step = exec[e].step
<1>0. exec \in [Executions -> ExecRow] /\ exec[e] \in ExecRow
  BY DEF TInv, TypeOK
<1>1. CASE \E w \in Workers : WorkerStep(w)
  <2> PICK w \in Workers : WorkerStep(w)
    BY <1>1
  <2>1. ASSUME handler[w].at = "step", NEW passed \in BOOLEAN, Advance(w, passed)
        PROVE  Same
    BY <2>1, <1>0, AtStep, AppendRow DEF Advance
  <2>2. CASE RunStep(w)
    <3>1. PICK passed \in BOOLEAN : Advance(w, passed)
      BY <2>2 DEF RunStep, Results
    <3> QED BY <2>1, <2>2, <3>1 DEF RunStep
  <2>3. CASE ApprovalFails(w)
    BY <2>1, <2>3 DEF ApprovalFails
  <2>4. CASE RequestApproval(w)
    BY <2>4, <1>0, AtStep, AppendRow DEF RequestApproval
  <2>5. CASE Pause(w)
    <3>1. exec[handler[w].e] \in ExecRow
      BY <2>5, AtStep DEF Pause
    <3> QED BY <2>5, <3>1, <1>0 DEF Pause, Save, ExecRow
  <2>6. CASE Finish(w)
    <3>1. handler[w].out \in {"running", "succeeded", "failed"} /\ handler[w].e \in Executions
      BY <2>6 DEF Finish, Handler, TInv, TypeOK
    <3>2. exec[handler[w].e] \in ExecRow
      BY <3>1, <1>0
    <3> QED BY <2>6, <3>1, <3>2, <1>0 DEF Finish, Save, ExecRow
  <2>7. CASE Reexecute(w)
    BY <2>7, <1>0 DEF Reexecute, ExecRow
  <2>8. CASE CommitCancel(w)
    BY <2>8, <1>0 DEF CommitCancel, CancelledRow, ExecRow
  <2>9. CASE UNCHANGED exec
    BY <2>9
  <2> QED BY <2>2, <2>3, <2>4, <2>5, <2>6, <2>7, <2>8, <2>9
          DEF WorkerStep, RecordFails, Complete, MarkHandled
<1>2. ASSUME NEW w \in Workers, NEW x \in Executions, Start(w, x)
      PROVE  Same \/ (exec[e].status = "none" /\ exec'[e].status = "running")
  BY <1>2, <1>0 DEF Start, ExecRow
<1>3. ASSUME NEW x \in Executions, NEW a \in BOOLEAN, NEW v \in BOOLEAN, Resume(x, a, v)
      PROVE  Same
  BY <1>3, ResumeKeepsStatus
<1>4. ASSUME NEW x \in Executions, Retry(x)
      PROVE  Same \/ (Retry(e) /\ exec'[e].status = "running")
  BY <1>4, <1>0 DEF Retry, NoExec
<1>5. ASSUME Idle(Loop), NEW es, \A x \in es : Exists(x), DeleteAll(es)
      PROVE  Same \/ (Idle(Loop) /\ Exists(e) /\ exec'[e].status = "deleted")
  BY <1>5 DEF DeleteAll, DeletedExec, NoExec
<1>6. CASE \E x \in Executions : DeleteExecution(x)
  BY <1>5, <1>6 DEF DeleteExecution, Exists, Terminal
<1>7. CASE DeleteBulk
  BY <1>5, <1>7 DEF DeleteBulk, Exists, Terminal
<1>8. CASE \E f \in Workflows : DeleteWorkflow(f)
  BY <1>5, <1>8 DEF DeleteWorkflow
<1>9. CASE \E f \in Workflows, d \in Definitions : EditWorkflow(f, d)
  BY <1>9, <1>0 DEF EditWorkflow, ExecRow
<1>10. CASE UNCHANGED exec
  BY <1>10
<1>11. CASE Administer
  BY <1>11, <1>4, <1>6, <1>7, <1>8, <1>9, <1>10 DEF Administer, Cancel, ToggleActive
<1>12. Loop \in Workers
  BY DEF Workers
<1> QED
  BY <1>1, <1>2, <1>3, <1>10, <1>11, <1>12
     DEF Next, FireTrigger, ExecuteManually, ResumeRoute, HandleApproval,
         Environment, MarkRead, TransitionStatus, Crash, vars

\* Only Pause makes an execution wait, and nothing moves one that waits.
LEMMA PausedByPause ==
    ASSUME TInv, [Next]_vars, NEW e \in Executions, exec'[e].status = "paused",
           ~ \E w \in Workers : Pause(w) /\ handler[w].e = e
    PROVE  exec[e].status = "paused" /\ exec'[e].step = exec[e].step
BY StatusMoves

\* A paused execution waits at a step its approvers were told of: the request is
\* committed with its notifications before the pause, no notification is taken
\* back, and nothing but Pause writes 'paused'.
THEOREM PausedAnswerable == Spec => []PausedIsAnswerable
<1>1. Init => AInv
  <2> SUFFICES ASSUME Init PROVE AInv
    OBVIOUS
  <2>1. PauseWasRequested
    BY DEF Init, PauseWasRequested, NoHandler
  <2>2. PausedIsAnswerable
    BY DEF Init, PausedIsAnswerable, NoExec
  <2> QED BY <2>1, <2>2, InitTyped DEF AInv
<1>2. AInv /\ [Next]_vars => AInv'
  <2> SUFFICES ASSUME AInv, [Next]_vars PROVE AInv'
    OBVIOUS
  <2>0. TInv /\ TInv'
    BY NextTyped DEF AInv
  <2>1. PauseWasRequested'
    <3> SUFFICES ASSUME NEW w \in Workers, handler'[w].at = "pause"
                 PROVE  \E u \in Approvers : note'[<<handler'[w].e, handler'[w].cur, u>>] # "none"
      BY DEF PauseWasRequested
    <3>1. CASE RequestApproval(w)
      <4>1. handler'[w].e = handler[w].e /\ handler'[w].cur = handler[w].cur
        BY <2>0, <3>1, RequestMoves DEF TInv, TypeOK
      <4> QED BY <2>0, <3>1, <4>1, RequestNotifies
    <3>2. CASE ~RequestApproval(w)
      <4>1. handler'[w] = handler[w]
        BY <2>0, <3>2, PausePlaceKept
      <4>2. PICK u \in Approvers : note[<<handler[w].e, handler[w].cur, u>>] # "none"
        BY <4>1 DEF AInv, PauseWasRequested
      <4>3. <<handler[w].e, handler[w].cur, u>> \in Notes
        BY <2>0, <4>1, AtStep DEF Notes
      <4> QED BY <2>0, <4>1, <4>2, <4>3, NotesKept
    <3> QED BY <3>1, <3>2
  <2>2. PausedIsAnswerable'
    <3> SUFFICES ASSUME NEW e \in Executions, exec'[e].status = "paused"
                 PROVE  \E u \in Approvers : /\ exec'[e].step \in StepIds
                                            /\ note'[<<e, exec'[e].step, u>>] # "none"
      BY DEF PausedIsAnswerable
    <3>1. CASE \E w \in Workers : Pause(w) /\ handler[w].e = e
      <4> PICK w \in Workers : Pause(w) /\ handler[w].e = e
        BY <3>1
      <4>1. handler[w].cur \in StepIds /\ exec[e] \in ExecRow
        BY <2>0, AtStep DEF Pause
      <4>2. exec'[e].step = handler[w].cur
        BY <2>0, <4>1 DEF Pause, Save, Exists, TInv, TypeOK, ExecRow
      <4>3. PICK u \in Approvers : note[<<e, handler[w].cur, u>>] # "none"
        BY DEF Pause, AInv, PauseWasRequested
      <4>4. note' = note
        BY DEF Pause
      <4> QED BY <4>1, <4>2, <4>3, <4>4
    <3>2. CASE ~ \E w \in Workers : Pause(w) /\ handler[w].e = e
      <4>1. exec[e].status = "paused" /\ exec'[e].step = exec[e].step
        BY <2>0, <3>2, PausedByPause
      <4>2. PICK u \in Approvers : exec[e].step \in StepIds /\ note[<<e, exec[e].step, u>>] # "none"
        BY <4>1 DEF AInv, PausedIsAnswerable
      <4>3. <<e, exec[e].step, u>> \in Notes
        BY <4>2 DEF Notes
      <4> QED BY <2>0, <4>1, <4>2, <4>3, NotesKept
    <3> QED BY <3>1, <3>2
  <2> QED BY <2>0, <2>1, <2>2 DEF AInv
<1>3. AInv => PausedIsAnswerable
  BY DEF AInv
<1> QED BY <1>1, <1>2, <1>3, PTL DEF Spec

-----------------------------------------------------------------------------
(* One runner per execution *)

\* The statuses of a row that a worker runs, unless it was retried after a
\* cancellation: a thread's row is not waiting for an answer, and nobody's is
\* over, but for a cancellation the runner was not told of.
RunnableBy(w) == {"running", "cancelled", "deleted"} \cup (IF w = Loop THEN {"paused"} ELSE {})

RunnersAlive ==
    \A w \in Workers : \A e \in Executions \ used.revived :
        Runs(w, e) => exec[e].status \in RunnableBy(w)

RInv == TInv /\ RunnersAlive /\ OneRunnerPerExecution

\* A handler goes on with the execution it ran.
GoesOn(w, e) == Runs(w, e) /\ ~Pause(w) /\ ~Finish(w)

\* A handler that runs an execution ran it before, or has just started, resumed
\* or retried it.
LEMMA RunnerFrom ==
    ASSUME TInv, [Next]_vars, NEW w \in Workers, NEW e \in Executions, Runs(w, e)'
    PROVE  \/ GoesOn(w, e)
           \/ Start(w, e)
           \/ w = Loop /\ \E a, v \in BOOLEAN : Resume(e, a, v)
           \/ w = Loop /\ Retry(e)
<1>0. NoHandler.at = "idle" /\ handler \in [Workers -> Handler] /\ Loop \in Workers
  BY DEF NoHandler, TInv, TypeOK, Workers
<1>a. \A x \in Workers : \A f, c, n, r, v : Began(f, x, c, n, r, v) =>
         IF x = w THEN e = f ELSE handler'[w] = handler[w]
  BY <1>0 DEF Began, Runs
<1>b. \A x \in Workers : Leave(x) => x # w /\ handler'[w] = handler[w]
  BY <1>0 DEF Leave, Runs
<1>c. \A x \in Workers : \A place \in {"complete", "notify"} :
         Goto(x, place) => x # w /\ handler'[w] = handler[w]
  BY <1>0 DEF Goto, Handler, Runs
<1>d. \A x \in Workers : AfterRun(x) => x # w /\ handler'[w] = handler[w]
  BY <1>b, <1>c DEF AfterRun
<1>e. ~Pause(w) /\ ~Finish(w)
  BY <1>c, <1>d DEF Pause, Finish
<1>f. handler'[w] = handler[w] => GoesOn(w, e)
  BY <1>e DEF GoesOn, Runs
<1>1. CASE \E x \in Workers : WorkerStep(x)
  <2> PICK x \in Workers : WorkerStep(x)
    BY <1>1
  <2>1. ASSUME handler[x].at = "step", NEW passed \in BOOLEAN, Advance(x, passed)
        PROVE  GoesOn(w, e)
    <3>1. PICK g \in Handler : /\ handler' = [handler EXCEPT ![x] = g]
                               /\ g.at \in {"finish", "step"}
                               /\ g.e = handler[x].e
      BY <2>1, AdvanceMoves
    <3> QED BY <2>1, <3>1, <1>0, <1>e, <1>f DEF Runs, GoesOn
  <2>2. CASE RunStep(x)
    <3>1. PICK passed \in BOOLEAN : Advance(x, passed)
      BY <2>2 DEF RunStep, Results
    <3> QED BY <2>1, <2>2, <3>1 DEF RunStep
  <2>3. CASE ApprovalFails(x)
    BY <2>1, <2>3 DEF ApprovalFails
  <2>4. CASE RequestApproval(x)
    <3>1. PICK g \in Handler : /\ handler' = [handler EXCEPT ![x] = g]
                               /\ g.at = "pause"
                               /\ g.e = handler[x].e
      BY <2>4, RequestMoves
    <3> QED BY <2>4, <3>1, <1>0, <1>e, <1>f DEF Runs, GoesOn, RequestApproval
  <2>5. CASE Reexecute(x)
    <3>1. Began(handler[x].e, x, <<0, 0>>, WfOf(handler[x].e).def.first, FALSE, FALSE)
      BY <2>5 DEF Reexecute
    <3>2. IF x = w THEN e = handler[x].e ELSE handler'[w] = handler[w]
      BY <3>1, <1>a
    <3> QED BY <2>5, <3>2, <1>e, <1>f DEF Reexecute, Runs, GoesOn
  <2>6. CASE AfterRun(x) \/ Leave(x) \/ Goto(x, "complete")
    BY <2>6, <1>b, <1>c, <1>d, <1>f
  <2> QED BY <2>2, <2>3, <2>4, <2>5, <2>6
          DEF WorkerStep, RecordFails, Pause, Finish, Complete, MarkHandled, CommitCancel
<1>2. ASSUME NEW x \in Workers, NEW f \in Executions, Start(x, f)
      PROVE  GoesOn(w, e) \/ Start(w, e)
  <2>1. Began(f, x, <<0, 0>>, WfOf(f).def.first, FALSE, FALSE)
    BY <1>2 DEF Start
  <2>2. IF x = w THEN e = f ELSE handler'[w] = handler[w]
    BY <2>1, <1>a
  <2> QED BY <1>2, <2>2, <1>f
<1>3. ASSUME NEW f \in Executions, NEW a \in BOOLEAN, NEW v \in BOOLEAN, Resume(f, a, v)
      PROVE  GoesOn(w, e) \/ (w = Loop /\ Resume(e, a, v))
  <2>1. IF Loop = w THEN e = f ELSE handler'[w] = handler[w]
    BY <1>3, <1>0, <1>a DEF Resume
  <2> QED BY <1>3, <2>1, <1>f
<1>4. ASSUME NEW f \in Executions, Cancel(f) \/ Retry(f)
      PROVE  GoesOn(w, e) \/ (w = Loop /\ Retry(e))
  <2>1. PICK g \in Handler : /\ handler' = [handler EXCEPT ![Loop] = g]
                             /\ (g.at = "cancel" \/ (g.at = "retry" /\ Retry(f)))
                             /\ g.e = f
    <3>1. CASE Cancel(f)
      BY <3>1, ShortHandler DEF Cancel
    <3>2. CASE Retry(f)
      BY <3>2, ShortHandler DEF Retry
    <3> QED BY <1>4, <3>1, <3>2
  <2>2. IF Loop = w THEN Retry(f) /\ e = f ELSE handler'[w] = handler[w]
    BY <2>1, <1>0 DEF Runs
  <2> QED BY <2>2, <1>f
<1>5. CASE Crash
  BY <1>5, <1>0 DEF Crash, Runs
<1>6. CASE UNCHANGED handler
  BY <1>6, <1>f
<1> QED
  BY <1>0, <1>1, <1>2, <1>3, <1>4, <1>5, <1>6
     DEF Next, FireTrigger, ExecuteManually, ResumeRoute, HandleApproval, Administer,
         DeleteExecution, DeleteBulk, ToggleActive, DeleteWorkflow, EditWorkflow,
         Environment, MarkRead, TransitionStatus, vars

\* A handler between the two commits of a cancel or of a retry was there before,
\* or has just read what it will write.
LEMMA ShortPlaceFrom ==
    ASSUME TInv, [Next]_vars, NEW w \in Workers, handler'[w].at \in {"cancel", "retry"}
    PROVE  \/ handler'[w] = handler[w]
           \/ w = Loop /\ \E e \in Executions :
                 /\ handler'[w].e = e
                 /\ ((Cancel(e) /\ handler'[w].at = "cancel") \/ Retry(e))
<1>0. NoHandler.at = "idle" /\ handler \in [Workers -> Handler] /\ Loop \in Workers
  BY DEF NoHandler, TInv, TypeOK, Workers
<1> DEFINE Same == handler'[w] = handler[w]
           HasRead(f) == /\ handler'[w].e = f
                        /\ ((Cancel(f) /\ handler'[w].at = "cancel") \/ Retry(f))
<1>a. \A x \in Workers : \A f, c, n, r, v : Began(f, x, c, n, r, v) => Same
  BY <1>0 DEF Began
<1>b. \A x \in Workers : Leave(x) => Same
  BY <1>0 DEF Leave
<1>c. \A x \in Workers : \A place \in {"complete", "notify"} : Goto(x, place) => Same
  BY <1>0 DEF Goto, Handler
<1>d. \A x \in Workers : AfterRun(x) => Same
  BY <1>b, <1>c DEF AfterRun
<1>e. \A x \in Workers, passed \in BOOLEAN :
         handler[x].at = "step" /\ Advance(x, passed) => Same
  BY <1>0, AdvanceMoves
<1>1. CASE \E x \in Workers : WorkerStep(x)
  <2> PICK x \in Workers : WorkerStep(x)
    BY <1>1
  <2>1. CASE RunStep(x)
    BY <2>1, <1>e DEF RunStep, Results
  <2>2. CASE ApprovalFails(x)
    BY <2>2, <1>e DEF ApprovalFails
  <2>3. CASE RequestApproval(x)
    BY <2>3, <1>0, RequestMoves
  <2>4. CASE Reexecute(x)
    <3>1. Began(handler[x].e, x, <<0, 0>>, WfOf(handler[x].e).def.first, FALSE, FALSE)
      BY <2>4 DEF Reexecute
    <3> QED BY <3>1, <1>a
  <2> QED BY <2>1, <2>2, <2>3, <2>4, <1>b, <1>c, <1>d
          DEF WorkerStep, RecordFails, Pause, Finish, Complete, MarkHandled, CommitCancel
<1>2. ASSUME NEW x \in Workers, NEW f \in Executions, Start(x, f)
      PROVE  Same
  <2>1. Began(f, x, <<0, 0>>, WfOf(f).def.first, FALSE, FALSE)
    BY <1>2 DEF Start
  <2> QED BY <2>1, <1>a
<1>3. ASSUME NEW f \in Executions, NEW a \in BOOLEAN, NEW v \in BOOLEAN, Resume(f, a, v)
      PROVE  Same
  BY <1>3, <1>0, <1>a DEF Resume
<1>4. ASSUME NEW f \in Executions, Cancel(f) \/ Retry(f)
      PROVE  Same \/ (w = Loop /\ HasRead(f))
  <2>1. CASE Cancel(f)
    <3>1. PICK g \in Handler : handler' = [handler EXCEPT ![Loop] = g] /\ g.at = "cancel" /\ g.e = f
      BY <2>1, ShortHandler DEF Cancel
    <3> QED BY <2>1, <3>1, <1>0
  <2>2. CASE Retry(f)
    <3>1. PICK g \in Handler : handler' = [handler EXCEPT ![Loop] = g] /\ g.at = "retry" /\ g.e = f
      BY <2>2, ShortHandler DEF Retry
    <3> QED BY <2>2, <3>1, <1>0
  <2> QED BY <1>4, <2>1, <2>2
<1>5. CASE Crash
  BY <1>5, <1>0 DEF Crash
<1>6. CASE UNCHANGED handler
  BY <1>6
<1>7. CASE Administer
  <2>1. (\E f \in Executions : Cancel(f) \/ Retry(f)) \/ UNCHANGED handler
    BY <1>7 DEF Administer, DeleteExecution, DeleteBulk, ToggleActive, DeleteWorkflow, EditWorkflow
  <2>2. CASE \E f \in Executions : Cancel(f) \/ Retry(f)
    <3> PICK f \in Executions : Cancel(f) \/ Retry(f)
      BY <2>2
    <3>1. Same \/ (w = Loop /\ HasRead(f))
      BY <1>4
    <3> QED BY <3>1
  <2> QED BY <2>1, <2>2, <1>6
<1> QED
  BY <1>0, <1>1, <1>2, <1>3, <1>5, <1>6, <1>7
     DEF Next, FireTrigger, ExecuteManually, ResumeRoute, HandleApproval,
         Environment, MarkRead, TransitionStatus, vars

\* Starting moves only the worker it starts on, and that worker was idle.
LEMMA StartMovesOne ==
    ASSUME NEW w \in Workers, NEW x \in Workers, NEW e \in Executions, Start(x, e), x # w,
           NEW f \in Executions, Runs(w, f)'
    PROVE  Runs(w, f)
BY DEF Start, Began, Runs

\* Retrying a cancelled execution is remembered.
LEMMA RevivedGrows ==
    ASSUME TInv, [Next]_vars, NEW e \in Executions, e \notin used'.revived
    PROVE  e \notin used.revived /\ (Retry(e) => exec[e].status = "failed")
<1>1. used \in Used
  BY DEF TInv, TypeOK
<1>2. ASSUME NEW f \in Executions, Retry(f)
      PROVE  e \notin used.revived /\ (f = e => exec[e].status = "failed")
  <2>1. used'.revived = IF exec[f].status = "cancelled" THEN used.revived \cup {f} ELSE used.revived
    BY <1>1, <1>2 DEF Retry, Used
  <2> QED BY <1>2, <2>1 DEF Retry, Retryable
<1>3. CASE UNCHANGED used
  BY <1>2, <1>3
<1>4. CASE \E f \in Workflows : ToggleActive(f) \/ DeleteWorkflow(f)
               \/ \E d \in Definitions : EditWorkflow(f, d)
  <2>1. used' = [used EXCEPT !.edits = used.edits + 1]
    BY <1>4 DEF ToggleActive, DeleteWorkflow, EditWorkflow
  <2> QED BY <1>1, <1>2, <2>1 DEF Used
<1>5. CASE \E x \in Entities, s \in EntityStatus : TransitionStatus(x, s)
  <2>1. used' = [used EXCEPT !.moves = used.moves + 1]
    BY <1>5 DEF TransitionStatus
  <2> QED BY <1>1, <1>2, <2>1 DEF Used
<1>6. CASE Crash
  <2>1. used' = [used EXCEPT !.crashes = used.crashes + 1]
    BY <1>6 DEF Crash
  <2> QED BY <1>1, <1>2, <2>1 DEF Used
<1> QED
  BY <1>2, <1>3, <1>4, <1>5, <1>6
     DEF Next, WorkerStep, Reexecute, RunStep, ApprovalFails, RequestApproval, RecordFails,
         Pause, Finish, Complete, MarkHandled, CommitCancel, FireTrigger, ExecuteManually, Start,
         ResumeRoute, HandleApproval, Resume, Administer, Cancel, DeleteExecution, DeleteBulk,
         Environment, MarkRead, vars

LEMMA RInvInit == Init => RInv
<1> SUFFICES ASSUME Init PROVE RInv
  OBVIOUS
<1>1. \A w \in Workers : handler[w].at = "idle"
  BY DEF Init, NoHandler
<1> QED BY <1>1, InitTyped DEF RInv, RunnersAlive, OneRunnerPerExecution, Runs

LEMMA RInvKept ==
    ASSUME RInv, [Next]_vars
    PROVE  RInv'
<1>0. TInv /\ TInv'
  BY NextTyped DEF RInv
<1>1. Loop \in Workers /\ \A w \in Workers : w = Loop \/ w \in Threads
  BY DEF Workers
<1> SUFFICES ASSUME NEW e \in Executions, e \notin used'.revived
             PROVE  /\ \A w \in Workers : Runs(w, e)' => exec'[e].status \in RunnableBy(w)
                    /\ \A v, w \in Workers : Runs(v, e)' /\ Runs(w, e)' => v = w
  BY <1>0 DEF RInv, RunnersAlive, OneRunnerPerExecution
<1>2. e \notin used.revived /\ (Retry(e) => exec[e].status = "failed")
  BY <1>0, RevivedGrows
<1>3. /\ \A w \in Workers : Runs(w, e) => exec[e].status \in RunnableBy(w)
      /\ \A v, w \in Workers : Runs(v, e) /\ Runs(w, e) => v = w
  BY <1>2 DEF RInv, RunnersAlive, OneRunnerPerExecution
<1>4. \A w \in Workers : Runs(w, e)' =>
         \/ GoesOn(w, e)
         \/ Start(w, e)
         \/ w = Loop /\ \E a, v \in BOOLEAN : Resume(e, a, v)
         \/ w = Loop /\ Retry(e)
  BY <1>0, RunnerFrom
<1>5. ASSUME NEW w \in Workers, Start(w, e)
      PROVE  exec'[e].status = "running" /\ \A x \in Workers : ~Runs(x, e)
  BY <1>0, <1>3, <1>5 DEF Start, RunnableBy, TInv, TypeOK, ExecRow
<1>6. ASSUME NEW a \in BOOLEAN, NEW v \in BOOLEAN, Resume(e, a, v)
      PROVE  exec'[e].status = "paused" /\ \A x \in Workers : ~Runs(x, e)
  <2>1. exec[e].status = "paused" /\ Idle(Loop)
    BY <1>6 DEF Resume, Resumable
  <2>2. \A x \in Workers : ~Runs(x, e)
    BY <1>3, <2>1 DEF RunnableBy, Runs, Idle
  <2>3. exec'[e].status = "paused"
    BY <1>0, <1>6, <2>1, ResumeKeepsStatus
  <2> QED BY <2>2, <2>3
<1>7. ASSUME Retry(e)
      PROVE  exec'[e].status = "running" /\ \A x \in Workers : ~Runs(x, e)
  <2>1. \A x \in Workers : ~Runs(x, e)
    BY <1>2, <1>3, <1>7 DEF RunnableBy
  <2>2. exec'[e].status = "running"
    BY <1>0, <1>7 DEF Retry, NoExec, TInv, TypeOK
  <2> QED BY <2>1, <2>2
<1>8. ASSUME NEW w \in Workers, GoesOn(w, e)
      PROVE  exec'[e].status \in RunnableBy(w)
  <2>1. exec[e].status \in RunnableBy(w) /\ exec[e].status # "none"
    BY <1>3, <1>8 DEF GoesOn, RunnableBy
  <2>2. ~ \E x \in Workers : (Pause(x) \/ Finish(x)) /\ handler[x].e = e
    <3> SUFFICES ASSUME NEW x \in Workers, Pause(x) \/ Finish(x), handler[x].e = e
                 PROVE  FALSE
      OBVIOUS
    <3>1. Runs(x, e)
      BY DEF Pause, Finish, Runs
    <3> QED BY <1>3, <1>8, <3>1 DEF GoesOn
  <2> QED BY <1>0, <2>1, <2>2, StatusMoves DEF RunnableBy
<1>9. ASSUME NEW v \in Workers, NEW w \in Workers, Runs(v, e)', Runs(w, e)', v # w
      PROVE  FALSE
  <2>1. CASE Start(v, e)
    BY <1>5, <1>9, <2>1, StartMovesOne
  <2>2. CASE Start(w, e)
    BY <1>5, <1>9, <2>2, StartMovesOne
  <2> QED BY <1>3, <1>4, <1>6, <1>7, <1>9, <2>1, <2>2 DEF GoesOn
<1>10. ASSUME NEW w \in Workers, Runs(w, e)'
       PROVE  exec'[e].status \in RunnableBy(w)
  BY <1>4, <1>5, <1>6, <1>7, <1>8, <1>10 DEF RunnableBy
<1> QED BY <1>9, <1>10

\* No execution is run by two workers unless a cancelled one was retried: a
\* trigger creates a row of its own, resume_workflow takes only paused rows and
\* reset_for_retry, otherwise, only failed ones, which no handler runs any more.
THEOREM OneRunner == Spec => []OneRunnerPerExecution
<1>1. RInv => OneRunnerPerExecution
  BY DEF RInv
<1> QED BY <1>1, RInvInit, RInvKept, PTL DEF Spec

-----------------------------------------------------------------------------
(* Deleted rows *)

\* The row a cancel or a retry is about to write exists: both run on the event
\* loop, and so do all deletions.
ShortHandlersHold ==
    \A w \in Workers : handler[w].at \in {"cancel", "retry"} =>
        w = Loop /\ Exists(handler[w].e)

DInv == TInv /\ ShortHandlersHold

LEMMA DInvInit == Init => DInv
BY InitTyped DEF Init, DInv, ShortHandlersHold, NoHandler

LEMMA DInvKept ==
    ASSUME DInv, [Next]_vars
    PROVE  DInv'
<1>1. TInv /\ TInv'
  BY NextTyped DEF DInv
<1>2. ASSUME NEW w \in Workers, handler'[w].at \in {"cancel", "retry"}
      PROVE  w = Loop /\ exec'[handler'[w].e].status \notin {"none", "deleted"}
  <2>1. CASE handler'[w] = handler[w]
    <3>1. w = Loop /\ Exists(handler[w].e) /\ handler[w].e \in Executions /\ ~Idle(Loop)
      BY <1>1, <1>2, <2>1 DEF DInv, ShortHandlersHold, TInv, TypeOK, Idle
    <3> QED BY <1>1, <2>1, <3>1, StatusMoves DEF Exists
  <2>2. CASE w = Loop /\ \E e \in Executions : handler'[w].e = e /\ Cancel(e)
    BY <2>2 DEF Cancel
  <2>3. CASE w = Loop /\ \E e \in Executions : handler'[w].e = e /\ Retry(e)
    BY <1>1, <2>3 DEF Retry, NoExec, TInv, TypeOK
  <2> QED BY <1>1, <1>2, <2>1, <2>2, <2>3, ShortPlaceFrom
<1> QED BY <1>1, <1>2 DEF DInv, ShortHandlersHold, Exists

\* No handler writes back a row that was deleted under it: the engine's own
\* writes look for the row first, and cancel and retry, which do not, run on the
\* event loop, where every deletion waits for them.
THEOREM DeletedStays == Spec => DeletedStaysDeleted
<1>1. DInv /\ [Next]_vars =>
         [\A e \in Executions : exec[e].status = "deleted" => exec'[e].status = "deleted"]_vars
  <2> SUFFICES ASSUME DInv, [Next]_vars, NEW e \in Executions, exec[e].status = "deleted"
               PROVE  exec'[e].status = "deleted"
    OBVIOUS
  <2>1. TInv
    BY DEF DInv
  <2>2. ~ \E w \in Workers : (Reexecute(w) \/ CommitCancel(w)) /\ handler[w].e = e
    BY DEF DInv, ShortHandlersHold, Exists, Reexecute, CommitCancel
  <2>3. ~Retry(e) /\ ~Exists(e)
    BY DEF Retry, Retryable, Exists
  <2> QED BY <2>1, <2>2, <2>3, StatusMoves
<1> QED BY <1>1, DInvInit, DInvKept, PTL DEF Spec, DeletedStaysDeleted

-----------------------------------------------------------------------------
(* Histories: sequences of step rows, one row longer *)

LastOf(r) == r[Len(r)]

\* What HistoryFollowsGraph asks of two rows in a row, and of a whole history.
Follows(d, r, q) ==
    IF IsRequest(d, r)
    THEN q.decision /\ q.step = r.step
    ELSE ~q.decision /\ q.step = NextStep(d, r.step, r.passed)

IsPath(d, r) ==
    /\ r # <<>> => r[1].step = d.first /\ ~r[1].decision
    /\ \A i \in 1 .. Len(r) - 1 : Follows(d, r[i], r[i + 1])

\* The counters a history amounts to.
Tally(r, succ, fail) ==
    /\ succ = Cardinality({i \in DOMAIN r : r[i].passed})
    /\ fail = Cardinality({i \in DOMAIN r : ~r[i].passed})

\* The history waits for an answer at s, or leads to s without waiting.
AwaitsAt(d, r, s) == r # <<>> /\ IsRequest(d, LastOf(r)) /\ LastOf(r).step = s
LeadsTo(d, r, s) ==
    IF r = <<>> THEN s = d.first
    ELSE ~IsRequest(d, LastOf(r)) /\ NextStep(d, LastOf(r).step, LastOf(r).passed) = s

\* The empty history is a path, counts nothing, and leads to the first step.
LEMMA EmptyHistory ==
    ASSUME NEW d
    PROVE  IsPath(d, <<>>) /\ Tally(<<>>, 0, 0) /\ LeadsTo(d, <<>>, d.first)
<1>1. Len(<<>>) = 0 /\ DOMAIN <<>> = {} /\ Cardinality({}) = 0
  BY FS_EmptySet
<1>2. {i \in DOMAIN <<>> : <<>>[i].passed} = {} /\ {i \in DOMAIN <<>> : ~<<>>[i].passed} = {}
  BY <1>1
<1>3. Tally(<<>>, 0, 0)
  BY <1>1, <1>2 DEF Tally
<1>4. IsPath(d, <<>>)
  BY <1>1 DEF IsPath
<1> QED BY <1>3, <1>4 DEF LeadsTo

\* What a row more makes of a sequence of rows.
LEMMA AppendedRow ==
    ASSUME NEW r \in Seq(StepRow), NEW q \in StepRow
    PROVE  /\ Append(r, q) \in Seq(StepRow)
           /\ Append(r, q) # <<>>
           /\ LastOf(Append(r, q)) = q
           /\ Len(Append(r, q)) = Len(r) + 1
           /\ \A i \in 1 .. Len(r) : Append(r, q)[i] = r[i]
           /\ Append(r, q)[Len(r) + 1] = q
BY AppendProperties DEF LastOf

\* A row more is counted once, by whether it passed.
LEMMA TallyGrows ==
    ASSUME NEW r \in Seq(StepRow), NEW q \in StepRow, NEW a \in Nat, NEW b \in Nat, Tally(r, a, b)
    PROVE  Tally(Append(r, q), IF q.passed THEN a + 1 ELSE a, IF q.passed THEN b ELSE b + 1)
<1> DEFINE n == Len(r) + 1
           x == Append(r, q)
           P(s) == {i \in DOMAIN s : s[i].passed}
           F(s) == {i \in DOMAIN s : ~s[i].passed}
<1>1. /\ DOMAIN r = 1 .. Len(r) /\ Len(r) \in Nat /\ DOMAIN x = 1 .. n
      /\ x[n] = q /\ \A i \in 1 .. Len(r) : x[i] = r[i]
  BY AppendedRow, LenProperties
<1>2. n \notin DOMAIN r /\ DOMAIN x = DOMAIN r \cup {n} /\ \A i \in DOMAIN r : x[i] = r[i]
  BY <1>1
<1>3. IsFiniteSet(P(r)) /\ IsFiniteSet(F(r))
  <2>1. IsFiniteSet(1 .. Len(r))
    <3>1. 1 \in Int /\ Len(r) \in Int
      BY <1>1
    <3> QED BY <3>1, FS_Interval
  <2>2. P(r) \in SUBSET (1 .. Len(r)) /\ F(r) \in SUBSET (1 .. Len(r))
    BY <1>1
  <2> HIDE DEF P, F
  <2> QED BY <2>1, <2>2, FS_Subset
<1>4. n \notin P(r) /\ n \notin F(r)
  BY <1>2
<1>5. q.passed \in BOOLEAN
  BY DEF StepRow
<1>6. CASE q.passed
  <2>1. P(x) = P(r) \cup {n}
    BY <1>1, <1>2, <1>6
  <2>2. F(x) = F(r)
    BY <1>1, <1>2, <1>6
  <2>3. Cardinality(P(r) \cup {n}) = Cardinality(P(r)) + 1
    <3> HIDE DEF P, F, n
    <3> QED BY <1>3, <1>4, FS_AddElement
  <2> QED BY <1>6, <2>1, <2>2, <2>3 DEF Tally
<1>7. CASE ~q.passed
  <2>1. F(x) = F(r) \cup {n}
    BY <1>1, <1>2, <1>7
  <2>2. P(x) = P(r)
    BY <1>1, <1>2, <1>7
  <2>3. Cardinality(F(r) \cup {n}) = Cardinality(F(r)) + 1
    <3> HIDE DEF P, F, n
    <3> QED BY <1>3, <1>4, FS_AddElement
  <2> QED BY <1>7, <2>1, <2>2, <2>3 DEF Tally
<1> QED BY <1>6, <1>7

\* A path continues with a row that follows its last one.
LEMMA PathGrows ==
    ASSUME NEW d, NEW r \in Seq(StepRow), NEW q \in StepRow, IsPath(d, r),
           r = <<>> => q.step = d.first /\ ~q.decision,
           r # <<>> => Follows(d, LastOf(r), q)
    PROVE  IsPath(d, Append(r, q))
<1> DEFINE n == Len(r)
           x == Append(r, q)
<1>1. /\ n \in Nat /\ Len(x) = n + 1
      /\ x[n + 1] = q /\ \A i \in 1 .. n : x[i] = r[i]
  BY AppendedRow
<1>2. r # <<>> => n # 0
  BY <1>1, EmptySeq
<1>3. x[1].step = d.first /\ ~x[1].decision
  <2>1. CASE r = <<>>
    BY <2>1, <1>1
  <2>2. CASE r # <<>>
    <3>1. 1 \in 1 .. n
      BY <2>2, <1>1, <1>2
    <3> QED BY <2>2, <3>1, <1>1 DEF IsPath
  <2> QED BY <2>1, <2>2
<1>4. ASSUME NEW i \in 1 .. n
      PROVE  Follows(d, x[i], x[i + 1])
  <2>1. x[i] = r[i] /\ r # <<>>
    BY <1>1, <1>4
  <2>2. CASE i = n
    BY <2>1, <2>2, <1>1 DEF LastOf
  <2>3. CASE i # n
    <3>1. i \in 1 .. n - 1 /\ i + 1 \in 1 .. n
      BY <2>3, <1>1
    <3>2. x[i + 1] = r[i + 1]
      BY <3>1, <1>1
    <3>3. Follows(d, r[i], r[i + 1])
      BY <3>1 DEF IsPath
    <3> QED BY <2>1, <3>2, <3>3
  <2> QED BY <2>2, <2>3
<1> HIDE DEF x
<1>5. Len(x) - 1 = n
  BY <1>1
<1> QED BY <1>3, <1>4, <1>5 DEF IsPath, x

-----------------------------------------------------------------------------
(* What a step does to one execution *)

\* The step leaves execution e alone, and whoever runs it.
Aside(e) ==
    /\ exec'[e] = exec[e]
    /\ \A w \in Workers : /\ Runs(w, e)' <=> Runs(w, e)
                          /\ Runs(w, e) => handler'[w] = handler[w]

\* One turn of the loop: an approval that nobody can be asked for fails.
Ran(w, passed) ==
    LET h == handler[w]
    IN  /\ h.at = "step"
        /\ Recordable(w)
        /\ WfOf(h.e).def.kind[h.cur] = "approval" => ~passed
        /\ Advance(w, passed)
        /\ UNCHANGED <<wf, note, entity, used>>

\* The commits of a handler that change the row of its execution, or end its run.
RunMoves(w) ==
    \/ Reexecute(w)
    \/ \E passed \in BOOLEAN : Ran(w, passed)
    \/ RequestApproval(w)
    \/ RecordFails(w)
    \/ Pause(w)
    \/ Finish(w)
    \/ CommitCancel(w)

\* The worker does something else, and the row stays.
LEMMA AsideBy ==
    ASSUME TInv, NEW e \in Executions, NEW w \in Workers, NEW g, ~Runs(w, e),
           handler' = [handler EXCEPT ![w] = g],
           g.at \in {"retry", "step", "pause", "finish"} => g.e # e,
           exec'[e] = exec[e]
    PROVE  Aside(e)
BY DEF Aside, Runs, TInv, TypeOK

\* A worker that leaves without a commit.
LEMMA LeaveAside ==
    ASSUME TInv, NEW e \in Executions, NEW w \in Workers, ~Runs(w, e), Leave(w),
           exec'[e] = exec[e]
    PROVE  Aside(e)
BY AsideBy DEF Leave, NoHandler

\* A worker of another execution moves on.
LEMMA GotoAside ==
    ASSUME TInv, NEW e \in Executions, NEW w \in Workers, ~Runs(w, e),
           NEW place \in {"complete", "notify"}, Goto(w, place), exec'[e] = exec[e]
    PROVE  Aside(e)
<1> DEFINE g == [handler[w] EXCEPT !.at = place]
<1>1. handler' = [handler EXCEPT ![w] = g]
  BY DEF Goto
<1>2. g.at = place
  BY DEF TInv, TypeOK, Handler
<1> HIDE DEF g
<1> QED BY <1>1, <1>2, AsideBy

\* A worker of another execution ends its run.
LEMMA AfterRunAside ==
    ASSUME TInv, NEW e \in Executions, NEW w \in Workers, ~Runs(w, e), AfterRun(w),
           exec'[e] = exec[e]
    PROVE  Aside(e)
BY LeaveAside, GotoAside DEF AfterRun

\* A worker begins another execution.
LEMMA BeganAside ==
    ASSUME TInv, NEW e \in Executions, NEW x \in Executions, NEW w \in Workers, ~Runs(w, e), x # e,
           NEW c, NEW n, NEW r, NEW v, Began(x, w, c, n, r, v), exec'[e] = exec[e]
    PROVE  Aside(e)
<1> DEFINE g == [at |-> IF n = NoStep THEN "finish" ELSE "step", e |-> x, cur |-> n,
                 succ |-> c[1], fail |-> c[2], ver |-> WfOf(x).ver, out |-> "running",
                 resuming |-> r, viaNote |-> v]
<1>1. handler' = [handler EXCEPT ![w] = g] /\ g.e = x
  BY DEF Began
<1> HIDE DEF g
<1> QED BY <1>1, AsideBy

\* A commit of another execution's handler.
LEMMA OtherRunAside ==
    ASSUME TInv, NEW e \in Executions, NEW w \in Workers, WorkerStep(w), handler[w].e # e
    PROVE  Aside(e)
<1>0. ~Runs(w, e) /\ exec \in [Executions -> ExecRow]
  BY DEF Runs, TInv, TypeOK
<1>1. ASSUME handler[w].at = "step", NEW passed \in BOOLEAN, Advance(w, passed)
      PROVE  Aside(e)
  <2>1. PICK g \in Handler : handler' = [handler EXCEPT ![w] = g] /\ g.e = handler[w].e
    BY <1>1, AdvanceMoves
  <2>2. exec'[e] = exec[e]
    BY <1>0, <1>1 DEF Advance
  <2> QED BY <1>0, <2>1, <2>2, AsideBy
<1>2. CASE RunStep(w)
  <2>1. PICK passed \in BOOLEAN : Advance(w, passed)
    BY <1>2 DEF RunStep, Results
  <2> QED BY <1>1, <1>2, <2>1 DEF RunStep
<1>3. CASE ApprovalFails(w)
  BY <1>1, <1>3 DEF ApprovalFails
<1>4. CASE RequestApproval(w)
  <2>1. PICK g \in Handler : handler' = [handler EXCEPT ![w] = g] /\ g.e = handler[w].e
    BY <1>4, RequestMoves
  <2>2. exec'[e] = exec[e]
    BY <1>0, <1>4 DEF RequestApproval
  <2> QED BY <1>0, <2>1, <2>2, AsideBy
<1>5. CASE Reexecute(w)
  <2>1. handler[w].e \in Executions
    BY <1>5 DEF Reexecute, TInv, TypeOK
  <2>2. exec'[e] = exec[e]
    BY <1>0, <1>5 DEF Reexecute
  <2>3. Began(handler[w].e, w, <<0, 0>>, WfOf(handler[w].e).def.first, FALSE, FALSE)
    BY <1>5 DEF Reexecute
  <2> QED BY <1>0, <2>1, <2>2, <2>3, BeganAside
<1>6. CASE RecordFails(w)
  BY <1>0, <1>6, LeaveAside DEF RecordFails
<1>7. CASE Pause(w)
  BY <1>0, <1>7, AfterRunAside DEF Pause, Save
<1>8. CASE Finish(w)
  BY <1>0, <1>8, AfterRunAside, GotoAside DEF Finish, Save
<1>9. CASE Complete(w)
  BY <1>0, <1>9, AfterRunAside DEF Complete
<1>10. CASE MarkHandled(w)
  BY <1>0, <1>10, LeaveAside DEF MarkHandled
<1>11. CASE CommitCancel(w)
  BY <1>0, <1>11, LeaveAside DEF CommitCancel
<1> QED BY <1>2, <1>3, <1>4, <1>5, <1>6, <1>7, <1>8, <1>9, <1>10, <1>11 DEF WorkerStep

\* Every step, as execution e sees it.
LEMMA StepsOf ==
    ASSUME TInv, [Next]_vars, NEW e \in Executions
    PROVE  \/ Aside(e)
           \/ \E w \in Workers : Start(w, e)
           \/ \E w \in Workers : handler[w].e = e /\ RunMoves(w)
           \/ \E a, v \in BOOLEAN : Resume(e, a, v)
           \/ Retry(e)
           \/ Idle(Loop) /\ exec'[e] = DeletedExec /\ UNCHANGED handler
           \/ \E f \in Workflows, d \in Definitions : EditWorkflow(f, d)
           \/ Crash
<1>0. exec \in [Executions -> ExecRow] /\ Loop \in Workers
  BY DEF TInv, TypeOK, Workers
<1>a. \A w \in Workers : Idle(w) => ~Runs(w, e)
  BY DEF Idle, Runs
<1>b. exec'[e] = exec[e] /\ UNCHANGED handler => Aside(e)
  BY DEF Aside, Runs
<1>1. CASE \E w \in Workers : WorkerStep(w)
  <2> PICK w \in Workers : WorkerStep(w)
    BY <1>1
  <2>1. CASE handler[w].e # e
    BY <2>1, OtherRunAside
  <2>2. CASE handler[w].e = e
    <3>1. RunStep(w) => \E passed \in BOOLEAN : Ran(w, passed)
      BY DEF RunStep, Results, Ran
    <3>2. ApprovalFails(w) => Ran(w, FALSE)
      BY DEF ApprovalFails, Ran
    <3>3. CASE Complete(w)
      BY <3>3, AfterRunAside DEF Complete, Runs
    <3>4. CASE MarkHandled(w)
      BY <3>4, LeaveAside DEF MarkHandled, Runs
    <3> QED BY <2>2, <3>1, <3>2, <3>3, <3>4 DEF WorkerStep, RunMoves
  <2> QED BY <2>1, <2>2
<1>2. ASSUME NEW w \in Workers, NEW x \in Executions, Start(w, x)
      PROVE  Start(w, e) \/ Aside(e)
  <2>1. CASE x # e
    <3>1. exec'[e] = exec[e]
      BY <1>0, <1>2, <2>1 DEF Start
    <3>2. Began(x, w, <<0, 0>>, WfOf(x).def.first, FALSE, FALSE) /\ ~Runs(w, e)
      BY <1>a, <1>2 DEF Start
    <3> QED BY <2>1, <3>1, <3>2, BeganAside
  <2> QED BY <1>2, <2>1
<1>3. ASSUME NEW x \in Executions, NEW a \in BOOLEAN, NEW v \in BOOLEAN, Resume(x, a, v)
      PROVE  Resume(e, a, v) \/ Aside(e)
  <2>1. CASE x # e
    <3>1. exec'[e] = exec[e]
      BY <1>0, <1>3, <2>1 DEF Resume
    <3>2. \E c, n : Began(x, Loop, c, n, TRUE, v)
      BY <1>3 DEF Resume
    <3>3. ~Runs(Loop, e)
      BY <1>0, <1>a, <1>3 DEF Resume
    <3> QED BY <1>0, <2>1, <3>1, <3>2, <3>3, BeganAside
  <2> QED BY <1>3, <2>1
<1>4. ASSUME NEW x \in Executions, Cancel(x)
      PROVE  Aside(e)
  <2>1. PICK g \in Handler : handler' = [handler EXCEPT ![Loop] = g] /\ g.at = "cancel"
    BY <1>4, ShortHandler DEF Cancel
  <2> QED BY <1>0, <1>a, <1>4, <2>1, AsideBy DEF Cancel
<1>5. ASSUME NEW x \in Executions, Retry(x)
      PROVE  Retry(e) \/ Aside(e)
  <2>1. PICK g \in Handler : handler' = [handler EXCEPT ![Loop] = g] /\ g.e = x
    BY <1>5, ShortHandler DEF Retry
  <2>2. CASE x # e
    <3>1. exec'[e] = exec[e]
      BY <1>0, <1>5, <2>2 DEF Retry
    <3> QED BY <1>0, <1>a, <1>5, <2>1, <2>2, <3>1, AsideBy DEF Retry
  <2> QED BY <1>5, <2>2
<1>6. ASSUME Idle(Loop), NEW es, DeleteAll(es), UNCHANGED handler
      PROVE  Aside(e) \/ (Idle(Loop) /\ exec'[e] = DeletedExec /\ UNCHANGED handler)
  BY <1>6, <1>b DEF DeleteAll
<1>7. CASE Administer
  <2>1. CASE \E x \in Executions : DeleteExecution(x)
    BY <2>1, <1>6 DEF DeleteExecution
  <2>2. CASE DeleteBulk
    BY <2>2, <1>6 DEF DeleteBulk
  <2>3. CASE \E f \in Workflows : DeleteWorkflow(f)
    BY <2>3, <1>6 DEF DeleteWorkflow
  <2>4. CASE \E f \in Workflows : ToggleActive(f)
    BY <2>4, <1>b DEF ToggleActive
  <2> QED BY <1>7, <1>4, <1>5, <2>1, <2>2, <2>3, <2>4 DEF Administer
<1>8. CASE UNCHANGED <<exec, handler>>
  BY <1>8, <1>b
<1> QED
  BY <1>0, <1>1, <1>2, <1>3, <1>7, <1>8
     DEF Next, FireTrigger, ExecuteManually, ResumeRoute, HandleApproval,
         Environment, MarkRead, TransitionStatus, vars

-----------------------------------------------------------------------------
(* Data products are served on the event loop *)

\* Executions that only the event loop ever works on: those of a data product,
\* whose triggers are all fired by `async def' routes, and all of them where no
\* thread fires triggers.
OnLoop(e) == EntityOf[e] # NoEntity \/ Threads = {}

ThreadsElsewhere ==
    \A w \in Threads : ~Idle(w) => EntityOf[handler[w].e] = NoEntity

\* The event loop is not interrupted between its commits by anything that
\* changes the status of the execution it works on.
LoopHolds ==
    \A e \in Executions : OnLoop(e) =>
        \A w \in Workers : Runs(w, e) \/ (handler[w].at = "cancel" /\ handler[w].e = e)
            => exec[e].status \in {"running", "paused"}

\* A completion that is about to activate a product belongs to an execution
\* that has succeeded.
CompletionHolds ==
    \A w \in Workers :
        handler[w].at = "complete" /\ OnLoop(handler[w].e) /\ handler[w].out = "succeeded"
            => exec[handler[w].e].status = "succeeded"

LInv == DInv /\ ThreadsElsewhere /\ LoopHolds /\ CompletionHolds

\* A worker that is busy was busy with the same execution, or has just begun.
LEMMA BusyFrom ==
    ASSUME TInv, [Next]_vars, NEW w \in Threads, handler'[w].at # "idle"
    PROVE  \/ ~Idle(w) /\ handler'[w].e = handler[w].e
           \/ \E e \in Executions : FireTrigger(w, e) /\ handler'[w].e = e
<1>0. /\ NoHandler.at = "idle" /\ handler \in [Workers -> Handler]
      /\ w \in Workers /\ Loop \in Workers /\ w # Loop
  BY IdAssumption DEF NoHandler, TInv, TypeOK, Workers
<1> DEFINE Same == ~Idle(w) /\ handler'[w].e = handler[w].e
<1>a. handler'[w] = handler[w] => Same
  BY DEF Idle
<1>b. \A x \in Workers : Leave(x) => Same
  BY <1>0, <1>a DEF Leave
<1>c. \A x \in Workers : \A place \in {"complete", "notify"} :
         handler[x].at # "idle" /\ Goto(x, place) => Same
  BY <1>0, <1>a DEF Goto, Handler, Idle
<1>d. \A x \in Workers : handler[x].at # "idle" /\ AfterRun(x) => Same
  BY <1>b, <1>c DEF AfterRun
<1>e. \A x \in Workers : \A f, c, n, r, v :
         Began(f, x, c, n, r, v) => IF x = w THEN handler'[w].e = f ELSE Same
  BY <1>0, <1>a DEF Began
<1>1. CASE \E x \in Workers : WorkerStep(x)
  <2> PICK x \in Workers : WorkerStep(x)
    BY <1>1
  <2>1. ASSUME handler[x].at = "step", NEW passed \in BOOLEAN, Advance(x, passed)
        PROVE  Same
    <3>1. PICK g \in Handler : handler' = [handler EXCEPT ![x] = g] /\ g.e = handler[x].e
      BY <2>1, AdvanceMoves
    <3> QED BY <2>1, <3>1, <1>0, <1>a DEF Idle
  <2>2. CASE RunStep(x)
    <3>1. PICK passed \in BOOLEAN : Advance(x, passed)
      BY <2>2 DEF RunStep, Results
    <3> QED BY <2>1, <2>2, <3>1 DEF RunStep
  <2>3. CASE ApprovalFails(x)
    BY <2>1, <2>3 DEF ApprovalFails
  <2>4. CASE RequestApproval(x)
    <3>1. PICK g \in Handler : handler' = [handler EXCEPT ![x] = g] /\ g.e = handler[x].e
      BY <2>4, RequestMoves
    <3> QED BY <2>4, <3>1, <1>0, <1>a DEF Idle, RequestApproval
  <2>5. CASE Reexecute(x)
    <3>1. Began(handler[x].e, x, <<0, 0>>, WfOf(handler[x].e).def.first, FALSE, FALSE)
      BY <2>5 DEF Reexecute
    <3> QED BY <2>5, <3>1, <1>e DEF Reexecute, Idle
  <2> QED BY <2>2, <2>3, <2>4, <2>5, <1>b, <1>c, <1>d
          DEF WorkerStep, RecordFails, Pause, Finish, Complete, MarkHandled, CommitCancel
<1>2. ASSUME NEW x \in Workers, NEW f \in Executions, Start(x, f)
      PROVE  Same \/ (x = w /\ handler'[w].e = f)
  <2>1. Began(f, x, <<0, 0>>, WfOf(f).def.first, FALSE, FALSE)
    BY <1>2 DEF Start
  <2> QED BY <2>1, <1>e
<1>3. ASSUME NEW x \in Workers, NEW f \in Executions, FireTrigger(x, f)
      PROVE  Same \/ (FireTrigger(w, f) /\ handler'[w].e = f)
  BY <1>2, <1>3 DEF FireTrigger
<1>4. ASSUME NEW f \in Executions, ExecuteManually(f)
      PROVE  Same
  BY <1>0, <1>2, <1>4 DEF ExecuteManually
<1>5. ASSUME NEW f \in Executions, NEW a \in BOOLEAN, NEW v \in BOOLEAN, Resume(f, a, v)
      PROVE  Same
  BY <1>5, <1>0, <1>e DEF Resume
<1>6. ASSUME NEW f \in Executions, Cancel(f) \/ Retry(f)
      PROVE  Same
  BY <1>0, <1>6, <1>a DEF Cancel, Retry
<1>7. CASE Crash
  BY <1>7, <1>0 DEF Crash
<1>8. CASE UNCHANGED handler
  BY <1>8, <1>a
<1>9. CASE Administer
  BY <1>6, <1>8, <1>9
     DEF Administer, DeleteExecution, DeleteBulk, ToggleActive, DeleteWorkflow, EditWorkflow
<1> QED
  BY <1>1, <1>3, <1>4, <1>5, <1>7, <1>8, <1>9
     DEF Next, ResumeRoute, HandleApproval, Environment, MarkRead, TransitionStatus, vars

\* Only a resumed run that has just ended comes to the completion.
LEMMA CompleteFrom ==
    ASSUME TInv, [Next]_vars, NEW w \in Workers, handler'[w].at = "complete"
    PROVE  \/ handler'[w] = handler[w]
           \/ /\ Finish(w)
              /\ handler'[w].e = handler[w].e
              /\ handler'[w].out = handler[w].out
<1>0. NoHandler.at = "idle" /\ handler \in [Workers -> Handler] /\ Loop \in Workers
  BY DEF NoHandler, TInv, TypeOK, Workers
<1> DEFINE Same == handler'[w] = handler[w]
<1>a. \A x \in Workers : \A f, c, n, r, v : Began(f, x, c, n, r, v) => Same
  BY <1>0 DEF Began
<1>b. \A x \in Workers : Leave(x) => Same
  BY <1>0 DEF Leave
<1>c. \A x \in Workers : Goto(x, "notify") => Same
  BY <1>0 DEF Goto, Handler
<1>d. \A x \in Workers : AfterRun(x) => Same
  BY <1>b, <1>c DEF AfterRun
<1>1. CASE \E x \in Workers : WorkerStep(x)
  <2> PICK x \in Workers : WorkerStep(x)
    BY <1>1
  <2>1. ASSUME handler[x].at = "step", NEW passed \in BOOLEAN, Advance(x, passed)
        PROVE  Same
    <3>1. PICK g \in Handler : handler' = [handler EXCEPT ![x] = g] /\ g.at \in {"finish", "step"}
      BY <2>1, AdvanceMoves
    <3> QED BY <3>1, <1>0
  <2>2. CASE RunStep(x)
    <3>1. PICK passed \in BOOLEAN : Advance(x, passed)
      BY <2>2 DEF RunStep, Results
    <3> QED BY <2>1, <2>2, <3>1 DEF RunStep
  <2>3. CASE ApprovalFails(x)
    BY <2>1, <2>3 DEF ApprovalFails
  <2>4. CASE RequestApproval(x)
    <3>1. PICK g \in Handler : handler' = [handler EXCEPT ![x] = g] /\ g.at = "pause"
      BY <2>4, RequestMoves
    <3> QED BY <3>1, <1>0
  <2>5. CASE Reexecute(x)
    <3>1. Began(handler[x].e, x, <<0, 0>>, WfOf(handler[x].e).def.first, FALSE, FALSE)
      BY <2>5 DEF Reexecute
    <3> QED BY <3>1, <1>a
  <2>6. CASE Finish(x)
    <3>1. CASE handler[x].resuming
      <4>1. handler' = [handler EXCEPT ![x].at = "complete"]
        BY <2>6, <3>1 DEF Finish, Goto
      <4> QED BY <2>6, <4>1, <1>0 DEF Handler
    <3>2. CASE ~handler[x].resuming
      BY <2>6, <3>2, <1>d DEF Finish
    <3> QED BY <3>1, <3>2
  <2> QED BY <2>2, <2>3, <2>4, <2>5, <2>6, <1>b, <1>d
          DEF WorkerStep, RecordFails, Pause, Complete, MarkHandled, CommitCancel
<1>2. ASSUME NEW x \in Workers, NEW f \in Executions, Start(x, f)
      PROVE  Same
  <2>1. Began(f, x, <<0, 0>>, WfOf(f).def.first, FALSE, FALSE)
    BY <1>2 DEF Start
  <2> QED BY <2>1, <1>a
<1>3. ASSUME NEW f \in Executions, NEW a \in BOOLEAN, NEW v \in BOOLEAN, Resume(f, a, v)
      PROVE  Same
  BY <1>3, <1>0, <1>a DEF Resume
<1>4. ASSUME NEW f \in Executions, Cancel(f) \/ Retry(f)
      PROVE  Same
  <2>1. PICK g \in Handler : handler' = [handler EXCEPT ![Loop] = g] /\ g.at \in {"cancel", "retry"}
    BY <1>4, ShortHandler DEF Cancel, Retry
  <2> QED BY <2>1, <1>0
<1>5. CASE Crash
  BY <1>5, <1>0 DEF Crash
<1>6. CASE UNCHANGED handler
  BY <1>6
<1>7. CASE Administer
  BY <1>4, <1>6, <1>7
     DEF Administer, DeleteExecution, DeleteBulk, ToggleActive, DeleteWorkflow, EditWorkflow
<1> QED
  BY <1>0, <1>1, <1>2, <1>3, <1>5, <1>6, <1>7
     DEF Next, FireTrigger, ExecuteManually, ResumeRoute, HandleApproval,
         Environment, MarkRead, TransitionStatus, vars

\* Whoever runs an execution of the loop is the loop.
LEMMA OnLoopWorker ==
    ASSUME ThreadsElsewhere, NEW w \in Workers, NEW e \in Executions, OnLoop(e),
           ~Idle(w), handler[w].e = e
    PROVE  w = Loop
BY DEF ThreadsElsewhere, OnLoop, Workers

\* No handler is busy initially.
LEMMA LInvInit == Init => LInv
<1> SUFFICES ASSUME Init PROVE LInv
  OBVIOUS
<1>1. \A w \in Workers : handler[w].at = "idle"
  BY DEF Init, NoHandler
<1> QED BY <1>1, DInvInit DEF LInv, ThreadsElsewhere, LoopHolds, CompletionHolds, Runs, Idle, Workers

\* A thread takes up only what is not on the loop.
LEMMA ThreadsElsewhereKept ==
    ASSUME LInv, [Next]_vars
    PROVE  ThreadsElsewhere'
<1>1. TInv
  BY DEF LInv, DInv
<1>2. ASSUME NEW w \in Threads, handler'[w].at # "idle"
      PROVE  EntityOf[handler'[w].e] = NoEntity
  <2>1. CASE ~Idle(w) /\ handler'[w].e = handler[w].e
    BY <2>1 DEF LInv, ThreadsElsewhere
  <2>2. CASE \E e \in Executions : FireTrigger(w, e) /\ handler'[w].e = e
    BY <2>2 DEF FireTrigger
  <2> QED BY <1>1, <1>2, <2>1, <2>2, BusyFrom
<1> QED BY <1>2 DEF ThreadsElsewhere, Idle

\* A status on the loop changes only by its handler, or where no handler runs it.
LEMMA LoopHoldsKept ==
    ASSUME LInv, [Next]_vars
    PROVE  LoopHolds'
<1>1. TInv /\ DInv /\ ThreadsElsewhere /\ ThreadsElsewhere' /\ Loop \in Workers
  BY ThreadsElsewhereKept DEF LInv, DInv, Workers
<1> SUFFICES ASSUME NEW e \in Executions, OnLoop(e), NEW w \in Workers,
                    Runs(w, e)' \/ (handler'[w].at = "cancel" /\ handler'[w].e = e)
             PROVE  exec'[e].status \in {"running", "paused"}
  BY DEF LoopHolds
<1>2. ASSUME NEW x \in Workers, ~Idle(x), handler[x].e = e
      PROVE  x = Loop
  BY <1>1, <1>2, OnLoopWorker
<1>3. ASSUME NEW x \in Workers, Pause(x) \/ Finish(x) \/ Reexecute(x), handler[x].e = e
      PROVE  x = Loop /\ Runs(x, e)
  BY <1>2, <1>3 DEF Pause, Finish, Reexecute, Idle, Runs
<1>4. ASSUME NEW x \in Workers, CommitCancel(x), handler[x].e = e
      PROVE  x = Loop /\ handler'[x].at = "idle"
  BY <1>1, <1>2, <1>4 DEF CommitCancel, Idle, Leave, NoHandler, TInv, TypeOK
<1>5. ASSUME \/ GoesOn(w, e)
             \/ handler'[w] = handler[w] /\ handler[w].at = "cancel" /\ handler[w].e = e
      PROVE  exec'[e].status \in {"running", "paused"}
  <2>1. exec[e].status \in {"running", "paused"} /\ ~Idle(w) /\ handler[w].e = e
    BY <1>5 DEF LInv, LoopHolds, GoesOn, Runs, Idle
  <2>2. w = Loop /\ ~Idle(Loop)
    BY <2>1, <1>2
  <2>3. ~ \E x \in Workers : (Pause(x) \/ Finish(x)) /\ handler[x].e = e
    BY <1>3, <1>5, <2>2 DEF GoesOn, Runs
  <2>4. ~ \E x \in Workers : CommitCancel(x) /\ handler[x].e = e
    BY <1>4, <1>5, <2>2 DEF GoesOn, Runs, CommitCancel
  <2>5. ~Retry(e)
    BY <2>2 DEF Retry
  <2> QED BY <1>1, <2>1, <2>2, <2>3, <2>4, <2>5, StatusMoves
<1>6. CASE Runs(w, e)'
  <2>1. CASE Start(w, e)
    BY <2>1, <1>1 DEF Start, TInv, TypeOK, ExecRow
  <2>2. ASSUME NEW a \in BOOLEAN, NEW v \in BOOLEAN, Resume(e, a, v)
        PROVE  exec'[e].status = "paused"
    <3>1. exec[e].status = "paused"
      BY <2>2 DEF Resume, Resumable
    <3> QED BY <1>1, <2>2, <3>1, ResumeKeepsStatus
  <2>3. CASE Retry(e)
    BY <2>3, <1>1 DEF Retry, NoExec, TInv, TypeOK
  <2> QED BY <1>1, <1>5, <1>6, <2>1, <2>2, <2>3, RunnerFrom
<1>7. CASE handler'[w].at = "cancel" /\ handler'[w].e = e
  <2>1. CASE handler'[w] = handler[w]
    BY <1>5, <1>7, <2>1
  <2>2. CASE Cancel(e)
    BY <2>2 DEF Cancel
  <2>3. CASE Retry(e)
    BY <2>3, <1>1 DEF Retry, NoExec, TInv, TypeOK
  <2> QED BY <1>1, <1>7, <2>1, <2>2, <2>3, ShortPlaceFrom
<1> QED BY <1>6, <1>7

\* The row of an execution that succeeded changes only when it is deleted.
LEMMA SucceededStays ==
    ASSUME LInv, [Next]_vars, NEW e \in Executions, OnLoop(e),
           exec[e].status \in {"succeeded", "deleted"}
    PROVE  \/ exec'[e].status = exec[e].status
           \/ Idle(Loop) /\ exec'[e].status = "deleted"
<1>1. TInv
  BY DEF LInv, DInv
<1>2. ~ \E w \in Workers : (Pause(w) \/ Finish(w) \/ Reexecute(w) \/ CommitCancel(w)) /\ handler[w].e = e
  BY DEF LInv, LoopHolds, Pause, Finish, Reexecute, CommitCancel, Runs
<1>3. ~Retry(e)
  BY DEF Retry, Retryable
<1> QED BY <1>1, <1>2, <1>3, StatusMoves

\* The completion follows the commit of the final status.
LEMMA CompletionHoldsKept ==
    ASSUME LInv, [Next]_vars
    PROVE  CompletionHolds'
<1>1. TInv /\ TInv'
  BY NextTyped DEF LInv, DInv
<1> SUFFICES ASSUME NEW w \in Workers, handler'[w].at = "complete", OnLoop(handler'[w].e),
                    handler'[w].out = "succeeded"
             PROVE  exec'[handler'[w].e].status = "succeeded"
  BY DEF CompletionHolds, OnLoop
<1>2. PICK e \in Executions : handler'[w].e = e
  BY <1>1 DEF TInv, TypeOK
<1>3. CASE handler'[w] = handler[w]
  <2>1. exec[e].status = "succeeded" /\ ~Idle(w)
    BY <1>2, <1>3 DEF LInv, CompletionHolds, Idle
  <2>2. w = Loop
    BY <1>2, <1>3, <2>1, OnLoopWorker DEF LInv
  <2> QED BY <1>2, <2>1, <2>2, SucceededStays
<1>4. CASE Finish(w) /\ handler'[w].e = handler[w].e /\ handler'[w].out = handler[w].out
  <2>1. Runs(w, e)
    BY <1>2, <1>4 DEF Finish, Runs
  <2>2. Exists(e)
    BY <1>2, <2>1 DEF LInv, LoopHolds, Exists
  <2>3. exec[e] \in ExecRow
    BY <1>1 DEF TInv, TypeOK
  <2> QED BY <1>1, <1>2, <1>4, <2>2, <2>3 DEF Finish, Save, TInv, TypeOK, ExecRow
<1> QED BY <1>1, <1>3, <1>4, CompleteFrom

\* The three together are kept by every step.
LEMMA LInvKept ==
    ASSUME LInv, [Next]_vars
    PROVE  LInv'
BY DInvKept, ThreadsElsewhereKept, LoopHoldsKept, CompletionHoldsKept DEF LInv

\* An execution that is over stays as it ended until it is deleted or, unless it
\* succeeded, retried: all its commits are made on the event loop, by the one
\* handler that runs it or by a cancel that has just read it as not over.
LoopOverStaysOver ==
    [][\A e \in Executions : OnLoop(e) /\ exec[e].status \in Terminal =>
         \/ exec'[e].status \in {exec[e].status, "deleted"}
         \/ exec[e].status # "succeeded" /\ Retry(e) /\ exec'[e].status = "running"]_vars

THEOREM LoopOverStays == Spec => LoopOverStaysOver
<1> DEFINE Over == \A e \in Executions : OnLoop(e) /\ exec[e].status \in Terminal =>
             \/ exec'[e].status \in {exec[e].status, "deleted"}
             \/ exec[e].status # "succeeded" /\ Retry(e) /\ exec'[e].status = "running"
<1>1. LInv /\ [Next]_vars => Over
  <2> SUFFICES ASSUME LInv, [Next]_vars, NEW e \in Executions, OnLoop(e),
                      exec[e].status \in Terminal
               PROVE  \/ exec'[e].status \in {exec[e].status, "deleted"}
                      \/ exec[e].status # "succeeded" /\ Retry(e) /\ exec'[e].status = "running"
    OBVIOUS
  <2>1. TInv
    BY DEF LInv, DInv
  <2>2. ~ \E w \in Workers : (Pause(w) \/ Finish(w) \/ Reexecute(w) \/ CommitCancel(w)) /\ handler[w].e = e
    BY DEF LInv, LoopHolds, Pause, Finish, Reexecute, CommitCancel, Runs, Terminal
  <2>3. Retry(e) => exec[e].status # "succeeded"
    BY DEF Retry, Retryable
  <2>4. exec[e].status # "none"
    BY DEF Terminal
  <2> QED BY <2>1, <2>2, <2>3, <2>4, StatusMoves
<1> QED BY <1>1, LInvInit, LInvKept, PTL DEF Spec, LoopOverStaysOver

\* Where every execution is served on the event loop, a cancelled execution is
\* over until somebody retries it; the run in which it is not has a thread.
THEOREM CancelSticksOnLoop ==
    ASSUME \A e \in Executions : OnLoop(e)
    PROVE  Spec => CancelSticks
<1> DEFINE Sticks == \A e \in Executions : exec[e].status = "cancelled" =>
                       exec'[e].status \in {"cancelled", "running", "deleted"}
<1>1. (\A e \in Executions : OnLoop(e) /\ exec[e].status \in Terminal =>
         \/ exec'[e].status \in {exec[e].status, "deleted"}
         \/ exec[e].status # "succeeded" /\ Retry(e) /\ exec'[e].status = "running") => Sticks
  BY DEF Terminal
<1> QED BY <1>1, LoopOverStays, PTL DEF LoopOverStaysOver, CancelSticks

\* While nobody else moves it, a product is activated only by a review that
\* succeeded: the completion follows the write of the final status in the same
\* handler, which nothing on the event loop interrupts, and an execution of a
\* data product is never on a thread.
THEOREM ActiveNeedsApproval == Spec => []ActiveOnlyIfApproved
<1>1. Init => LInv /\ ActiveOnlyIfApproved
  BY LInvInit DEF Init, ActiveOnlyIfApproved
<1>2. LInv /\ ActiveOnlyIfApproved /\ [Next]_vars => LInv' /\ ActiveOnlyIfApproved'
  <2> SUFFICES ASSUME LInv, ActiveOnlyIfApproved, [Next]_vars PROVE ActiveOnlyIfApproved'
    BY LInvKept
  <2>1. TInv
    BY DEF LInv, DInv
  <2> SUFFICES ASSUME NEW x \in Entities, used'.moves = 0, entity'[x] = "active",
                      InitialStatus # "active"
               PROVE  \E e \in Executions : /\ EntityOf[e] = x
                                            /\ WorkflowOf[e] \in ReviewWorkflows
                                            /\ exec'[e].status \in {"succeeded", "deleted"}
    BY DEF ActiveOnlyIfApproved
  <2>a. \A e \in Executions : EntityOf[e] = x => OnLoop(e)
    BY IdAssumption DEF OnLoop
  <2>2. used.moves = 0 /\ ~ \E y \in Entities, s \in EntityStatus : TransitionStatus(y, s)
    <3>1. used \in Used
      BY <2>1 DEF TInv, TypeOK
    <3>2. ASSUME NEW y \in Entities, NEW s \in EntityStatus, TransitionStatus(y, s)
          PROVE  FALSE
      <4>1. used'.moves = used.moves + 1
        BY <3>1, <3>2 DEF TransitionStatus, Used
      <4>2. used.moves \in Nat
        BY <3>1 DEF Used
      <4> QED BY <4>1, <4>2
    <3>3. used'.moves = used.moves
      BY <3>1, <3>2
         DEF Used, Next, WorkerStep, Reexecute, RunStep, ApprovalFails, RequestApproval,
             RecordFails, Pause, Finish, Complete, MarkHandled, CommitCancel, FireTrigger,
             ExecuteManually, Start, ResumeRoute, HandleApproval, Resume, Administer, Cancel,
             Retry, DeleteExecution, DeleteBulk, ToggleActive, DeleteWorkflow, EditWorkflow,
             Environment, MarkRead, Crash, vars
    <3> QED BY <3>2, <3>3
  <2>3. CASE entity[x] = "active"
    <3>1. PICK e \in Executions : /\ EntityOf[e] = x
                                  /\ WorkflowOf[e] \in ReviewWorkflows
                                  /\ exec[e].status \in {"succeeded", "deleted"}
      BY <2>2, <2>3 DEF ActiveOnlyIfApproved
    <3> QED BY <3>1, <2>a, SucceededStays
  <2>4. CASE entity[x] # "active"
    <3>1. PICK w \in Workers : Complete(w)
      BY <2>2, <2>4
         DEF Next, WorkerStep, Reexecute, RunStep, ApprovalFails, RequestApproval,
             RecordFails, Pause, Finish, MarkHandled, CommitCancel, FireTrigger,
             ExecuteManually, Start, ResumeRoute, HandleApproval, Resume, Administer, Cancel,
             Retry, DeleteExecution, DeleteBulk, ToggleActive, DeleteWorkflow, EditWorkflow,
             Environment, MarkRead, Crash, vars
    <3>2. PICK e \in Executions : handler[w].e = e
      BY <2>1, <3>1 DEF Complete, TInv, TypeOK
    <3>3. /\ WorkflowOf[e] \in ReviewWorkflows /\ EntityOf[e] = x
          /\ CompletionStatus(handler[w].out) = "active"
      BY <2>1, <2>4, <3>1, <3>2 DEF Complete, TInv, TypeOK
    <3>4. exec[e].status = "succeeded"
      BY <2>a, <3>1, <3>2, <3>3 DEF CompletionStatus, Complete, LInv, CompletionHolds
    <3> QED BY <2>a, <3>3, <3>4, SucceededStays
  <2> QED BY <2>3, <2>4
<1> QED BY <1>1, <1>2, PTL DEF Spec

-----------------------------------------------------------------------------
(* What the commits of a run leave in its row and in its handler *)

OthersKept(w) == \A v \in Workers : v # w => handler'[v] = handler[v]

\* Only the step rows of the execution change.
RowKept(e) == /\ exec'[e].status = exec[e].status
              /\ exec'[e].step = exec[e].step
              /\ exec'[e].finished = exec[e].finished
              /\ exec'[e].succ = exec[e].succ
              /\ exec'[e].fail = exec[e].fail

\* What the fields of a handler that begins are, and that no other moves.
LEMMA BeganLeaves ==
    ASSUME TInv, NEW e \in Executions, NEW w \in Workers, NEW s, NEW f, NEW n, NEW r, NEW v,
           Began(e, w, <<s, f>>, n, r, v)
    PROVE  /\ OthersKept(w)
           /\ handler'[w].at = (IF n = NoStep THEN "finish" ELSE "step")
           /\ handler'[w].e = e
           /\ handler'[w].cur = n
           /\ handler'[w].succ = s
           /\ handler'[w].fail = f
           /\ handler'[w].ver = WfOf(e).ver
           /\ handler'[w].out = "running"
BY DEF Began, OthersKept, TInv, TypeOK

\* The same, where there is a first step.
LEMMA BeganSteps ==
    ASSUME TInv, NEW e \in Executions, NEW w \in Workers, NEW s, NEW f, NEW n, NEW r, NEW v,
           Began(e, w, <<s, f>>, n, r, v), n # NoStep
    PROVE  OthersKept(w) /\ handler'[w].at = "step"
BY BeganLeaves

\* The same, for a handler that starts from nothing.
LEMMA BeganFresh ==
    ASSUME TInv, NEW e \in Executions, NEW w \in Workers, NEW n,
           Began(e, w, <<0, 0>>, n, FALSE, FALSE)
    PROVE  /\ handler'[w].e = e /\ handler'[w].cur = n
           /\ handler'[w].succ = 0 /\ handler'[w].fail = 0
BY DEF Began, TInv, TypeOK

\* What one more row leaves of an execution.
LEMMA AppendLeaves ==
    ASSUME TInv, NEW e \in Executions, NEW q,
           exec' = [exec EXCEPT ![e].rows = Append(@, q)]
    PROVE  RowKept(e) /\ exec'[e].rows = Append(exec[e].rows, q)
<1>1. exec[e] \in ExecRow
  BY DEF TInv, TypeOK
<1> DEFINE r == Append(exec[e].rows, q)
<1>2. exec' = [exec EXCEPT ![e] = [exec[e] EXCEPT !.rows = r]]
  OBVIOUS
<1>3. exec'[e] = [exec[e] EXCEPT !.rows = r]
  <2> HIDE DEF r
  <2> QED BY <1>2 DEF TInv, TypeOK
<1> HIDE DEF r
<1>4. exec'[e].rows = r /\ RowKept(e)
  BY <1>1, <1>3 DEF RowKept, ExecRow
<1> QED BY <1>4 DEF r

\* What a turn of the loop leaves of its execution and its handler.
LEMMA AdvanceLeaves ==
    ASSUME TInv, NEW w \in Workers, handler[w].at = "step", NEW passed \in BOOLEAN,
           Advance(w, passed), NEW next, next = NextStep(WfOf(handler[w].e).def, handler[w].cur, passed)
    PROVE  /\ OthersKept(w)
           /\ handler'[w].at = (IF next = NoStep THEN "finish" ELSE "step")
           /\ handler'[w].e = handler[w].e
           /\ handler'[w].cur = next
           /\ handler'[w].succ = (IF passed THEN handler[w].succ + 1 ELSE handler[w].succ)
           /\ handler'[w].fail = (IF passed THEN handler[w].fail ELSE handler[w].fail + 1)
           /\ handler'[w].ver = handler[w].ver
           /\ handler'[w].out = (IF next = NoStep THEN Outcome(passed) ELSE handler[w].out)
<1> DEFINE h == handler[w]
           a == IF next = NoStep THEN "finish" ELSE "step"
           s == IF passed THEN h.succ + 1 ELSE h.succ
           f == IF passed THEN h.fail ELSE h.fail + 1
           o == IF next = NoStep THEN Outcome(passed) ELSE h.out
           g == [h EXCEPT !.at = a, !.cur = next, !.succ = s, !.fail = f, !.out = o]
<1>1. h \in Handler
  BY DEF TInv, TypeOK
<1>2. handler' = [handler EXCEPT ![w] = g]
  BY DEF Advance
<1>3. OthersKept(w) /\ handler'[w] = g
  <2> HIDE DEF g
  <2> QED BY <1>2 DEF OthersKept, TInv, TypeOK
<1>4. /\ g.at = a /\ g.e = h.e /\ g.cur = next /\ g.succ = s /\ g.fail = f
      /\ g.ver = h.ver /\ g.out = o
  <2> HIDE DEF a, s, f, o
  <2> QED BY <1>1 DEF Handler
<1> HIDE DEF g
<1> QED BY <1>3, <1>4

\* What a request for approval leaves of them.
LEMMA RequestLeaves ==
    ASSUME TInv, NEW w \in Workers, RequestApproval(w)
    PROVE  /\ OthersKept(w)
           /\ handler'[w].at = "pause"
           /\ handler'[w].e = handler[w].e
           /\ handler'[w].cur = handler[w].cur
           /\ handler'[w].succ = handler[w].succ + 1
           /\ handler'[w].fail = handler[w].fail
           /\ handler'[w].ver = handler[w].ver
<1> DEFINE h == handler[w]
           s == h.succ + 1
           g == [h EXCEPT !.at = "pause", !.succ = s]
<1>1. h \in Handler
  BY DEF TInv, TypeOK
<1>2. handler' = [handler EXCEPT ![w] = g]
  BY DEF RequestApproval
<1>3. OthersKept(w) /\ handler'[w] = g
  <2> HIDE DEF g
  <2> QED BY <1>2 DEF OthersKept, TInv, TypeOK
<1>4. /\ g.at = "pause" /\ g.e = h.e /\ g.cur = h.cur /\ g.succ = s /\ g.fail = h.fail
      /\ g.ver = h.ver
  <2> HIDE DEF s
  <2> QED BY <1>1 DEF Handler
<1> HIDE DEF g
<1> QED BY <1>3, <1>4

\* The worker does not run anything afterwards, and its graph's version is one
\* it had or the first.
LEMMA LeaveLeaves ==
    ASSUME TInv, NEW w \in Workers, Leave(w)
    PROVE  OthersKept(w) /\ handler'[w].at = "idle" /\ handler'[w].ver = 0
BY DEF Leave, NoHandler, OthersKept, TInv, TypeOK

\* A worker that moves on keeps what it holds.
LEMMA GotoLeaves ==
    ASSUME TInv, NEW w \in Workers, NEW place, Goto(w, place)
    PROVE  OthersKept(w) /\ handler'[w].at = place /\ handler'[w].ver = handler[w].ver
BY DEF Goto, OthersKept, TInv, TypeOK, Handler

\* A run that ends leaves its worker idle, or at the notifications it has to mark.
LEMMA AfterRunLeaves ==
    ASSUME TInv, NEW w \in Workers, AfterRun(w)
    PROVE  /\ OthersKept(w)
           /\ handler'[w].at \in {"idle", "notify"}
           /\ handler'[w].ver \in {0, handler[w].ver}
BY LeaveLeaves, GotoLeaves DEF AfterRun

-----------------------------------------------------------------------------
(* Unedited workflows *)

GraphOf(e) == InitialDef[WorkflowOf[e]]

\* Until an administrator changes a workflow its graph is the one it was
\* created with, and every handler has read its first version.
Unedited ==
    used.edits = 0 =>
        /\ \A f \in Workflows : wf[f].def = InitialDef[f] /\ wf[f].ver = 0
        /\ \A w \in Workers : handler[w].ver = 0

\* The counts of what the environment did only grow.
LEMMA EditsGrow ==
    ASSUME TInv, [Next]_vars, used'.edits = 0
    PROVE  used.edits = 0 /\ UNCHANGED wf
<1>1. used \in Used
  BY DEF TInv, TypeOK
<1>2. ASSUME NEW f \in Workflows,
             ToggleActive(f) \/ DeleteWorkflow(f) \/ \E d \in Definitions : EditWorkflow(f, d)
      PROVE  FALSE
  <2>1. used' = [used EXCEPT !.edits = used.edits + 1]
    BY <1>2 DEF ToggleActive, DeleteWorkflow, EditWorkflow
  <2>2. used'.edits = used.edits + 1 /\ used.edits \in Nat
    BY <1>1, <2>1 DEF Used
  <2> QED BY <2>2
<1>3. UNCHANGED wf
  BY <1>2
     DEF Next, WorkerStep, Reexecute, RunStep, ApprovalFails, RequestApproval, RecordFails,
         Pause, Finish, Complete, MarkHandled, CommitCancel, FireTrigger, ExecuteManually, Start,
         ResumeRoute, HandleApproval, Resume, Administer, Cancel, Retry, DeleteExecution,
         DeleteBulk, Environment, MarkRead, TransitionStatus, Crash, vars
<1>4. used'.edits = used.edits
  BY <1>1, <1>2
     DEF Used, Next, WorkerStep, Reexecute, RunStep, ApprovalFails, RequestApproval, RecordFails,
         Pause, Finish, Complete, MarkHandled, CommitCancel, FireTrigger, ExecuteManually, Start,
         ResumeRoute, HandleApproval, Resume, Administer, Cancel, Retry, DeleteExecution,
         DeleteBulk, Environment, MarkRead, TransitionStatus, Crash, vars
<1> QED BY <1>3, <1>4

\* Workflows are created with their first version.
LEMMA UneditedInit == Init => Unedited
BY IdAssumption DEF Init, Unedited, NoHandler

\* No step but an edit changes a graph or a version.
LEMMA UneditedKept ==
    ASSUME TInv, Unedited, [Next]_vars
    PROVE  Unedited'
<1> SUFFICES ASSUME used'.edits = 0
             PROVE  /\ \A f \in Workflows : wf'[f].def = InitialDef[f] /\ wf'[f].ver = 0
                    /\ \A w \in Workers : handler'[w].ver = 0
  BY DEF Unedited
<1>1. used.edits = 0 /\ UNCHANGED wf
  BY EditsGrow
<1>2. /\ \A f \in Workflows : wf[f].def = InitialDef[f] /\ wf[f].ver = 0
      /\ \A w \in Workers : handler[w].ver = 0
  BY <1>1 DEF Unedited
<1> SUFFICES \A x \in Workers : handler'[x].ver = 0
  BY <1>1, <1>2
<1>3. ASSUME NEW w \in Workers, OthersKept(w), handler'[w].ver = 0
      PROVE  \A v \in Workers : handler'[v].ver = 0
  BY <1>2, <1>3 DEF OthersKept
<1>4. ASSUME NEW w \in Workers, NEW e \in Executions, NEW s, NEW f, NEW n, NEW r, NEW v,
             Began(e, w, <<s, f>>, n, r, v)
      PROVE  \A x \in Workers : handler'[x].ver = 0
  <2>1. WfOf(e).ver = 0
    BY <1>2, IdAssumption DEF WfOf
  <2>2. OthersKept(w) /\ handler'[w].ver = WfOf(e).ver
    BY <1>4, BeganLeaves
  <2> QED BY <1>3, <2>1, <2>2
<1>5. Loop \in Workers
  BY DEF Workers
<1>6. ASSUME NEW w \in Workers, Leave(w) \/ AfterRun(w) \/ Goto(w, "complete")
      PROVE  \A x \in Workers : handler'[x].ver = 0
  BY <1>2, <1>3, <1>6, LeaveLeaves, AfterRunLeaves, GotoLeaves
<1>7. ASSUME NEW w \in Workers, handler[w].at = "step", NEW passed \in BOOLEAN, Advance(w, passed)
      PROVE  \A x \in Workers : handler'[x].ver = 0
  BY <1>2, <1>3, <1>7, AdvanceLeaves
<1>8. CASE \E w \in Workers : WorkerStep(w)
  <2> PICK w \in Workers : WorkerStep(w)
    BY <1>8
  <2>1. CASE RunStep(w)
    <3>1. PICK passed \in BOOLEAN : Advance(w, passed)
      BY <2>1 DEF RunStep, Results
    <3> QED BY <1>7, <2>1, <3>1 DEF RunStep
  <2>2. CASE ApprovalFails(w)
    BY <1>7, <2>2 DEF ApprovalFails
  <2>3. CASE RequestApproval(w)
    BY <1>2, <1>3, <2>3, RequestLeaves
  <2>4. CASE Reexecute(w)
    <3>1. handler[w].e \in Executions
      BY <2>4 DEF Reexecute, TInv, TypeOK
    <3>2. Began(handler[w].e, w, <<0, 0>>, WfOf(handler[w].e).def.first, FALSE, FALSE)
      BY <2>4 DEF Reexecute
    <3> QED BY <1>4, <3>1, <3>2
  <2> QED BY <1>6, <2>1, <2>2, <2>3, <2>4
          DEF WorkerStep, RecordFails, Pause, Finish, Complete, MarkHandled, CommitCancel
<1>9. ASSUME NEW w \in Workers, NEW e \in Executions, Start(w, e)
      PROVE  \A x \in Workers : handler'[x].ver = 0
  <2>1. Began(e, w, <<0, 0>>, WfOf(e).def.first, FALSE, FALSE)
    BY <1>9 DEF Start
  <2> QED BY <1>4, <2>1
<1>10. ASSUME NEW e \in Executions, NEW a \in BOOLEAN, NEW v \in BOOLEAN, Resume(e, a, v)
       PROVE  \A x \in Workers : handler'[x].ver = 0
  <2>1. PICK s, f : CountAnswer(e, a) = <<s, f>>
    BY DEF CountAnswer
  <2>2. \E n : Began(e, Loop, <<s, f>>, n, TRUE, v)
    BY <1>10, <2>1 DEF Resume
  <2> QED BY <1>4, <1>5, <2>2
<1>11. ASSUME NEW e \in Executions, Cancel(e) \/ Retry(e)
       PROVE  \A x \in Workers : handler'[x].ver = 0
  <2>1. \E place \in {"cancel", "retry"} :
           handler' = [handler EXCEPT ![Loop] = [NoHandler EXCEPT !.at = place, !.e = e]]
    BY <1>11 DEF Cancel, Retry
  <2>2. OthersKept(Loop) /\ handler'[Loop].ver = 0
    BY <1>5, <2>1 DEF NoHandler, OthersKept, TInv, TypeOK
  <2> QED BY <1>3, <1>5, <2>2
<1>12. CASE Crash
  BY <1>12 DEF Crash, NoHandler
<1>13. CASE UNCHANGED handler
  BY <1>2, <1>13
<1>14. CASE Administer
  BY <1>11, <1>13, <1>14
     DEF Administer, DeleteExecution, DeleteBulk, ToggleActive, DeleteWorkflow, EditWorkflow
<1> QED
  BY <1>5, <1>8, <1>9, <1>10, <1>12, <1>13, <1>14
     DEF Next, FireTrigger, ExecuteManually, ResumeRoute, HandleApproval,
         Environment, MarkRead, TransitionStatus, vars

-----------------------------------------------------------------------------
(* Executions that are over *)

\* An approval has somewhere to go, whatever the answer.
Branched(d) ==
    \A s \in d.steps : d.kind[s] = "approval" => d.onPass[s] # NoStep /\ d.onFail[s] # NoStep

\* The last recorded step has nowhere to go.
Ends(d, r) == r # <<>> /\ NextStep(d, LastOf(r).step, LastOf(r).passed) = NoStep

\* The end of an execution, and what its handler holds on the way there: it
\* pauses only at approvals, so an answer never ends the run, and it ends with
\* the outcome of the step it has just recorded.
SettledAt(e) ==
    /\ exec[e].finished <=> exec[e].status \in Terminal
    /\ exec[e].status = "paused" => GraphOf(e).kind[exec[e].step] = "approval"
    /\ exec[e].status \in {"succeeded", "failed"} =>
         Ends(GraphOf(e), exec[e].rows) /\ exec[e].status = Outcome(LastOf(exec[e].rows).passed)
    /\ \A w \in Workers : Runs(w, e) /\ handler[w].at = "pause" =>
         GraphOf(e).kind[handler[w].cur] = "approval"
    /\ \A w \in Workers : Runs(w, e) /\ handler[w].at = "finish" =>
         Ends(GraphOf(e), exec[e].rows) /\ handler[w].out = Outcome(LastOf(exec[e].rows).passed)

Settled ==
    used.edits = 0 =>
        \A e \in Executions : OnLoop(e) /\ Branched(GraphOf(e)) => SettledAt(e)

SInv == LInv /\ Unedited /\ Settled

\* What a handler may rely on while no workflow was edited.
LEMMA GraphKept ==
    ASSUME TInv, Unedited, used.edits = 0, NEW e \in Executions
    PROVE  /\ WfOf(e).def = GraphOf(e)
           /\ GraphOf(e) \in Definitions
           /\ WfOf(e).ver = 0
           /\ exec[e] \in ExecRow
BY IdAssumption, DefinitionAssumption DEF Unedited, WfOf, GraphOf, TInv, TypeOK

\* Nothing has run initially.
LEMMA SInvInit == Init => SInv
<1> SUFFICES ASSUME Init PROVE Settled
  BY LInvInit, UneditedInit DEF SInv
<1>1. \A w \in Workers : handler[w].at = "idle"
  BY DEF Init, NoHandler
<1>2. \A e \in Executions : exec[e].finished = FALSE /\ exec[e].status = "none"
  BY DEF Init, NoExec
<1> QED BY <1>1, <1>2 DEF Settled, SettledAt, Runs, Terminal

\* The clauses about handlers hold again when nobody runs the execution, or
\* one worker does and they hold of it.
LEMMA SettledByRow ==
    ASSUME NEW e \in Executions,
           exec'[e].finished <=> exec'[e].status \in Terminal,
           exec'[e].status = "paused" => GraphOf(e).kind[exec'[e].step] = "approval",
           exec'[e].status \in {"succeeded", "failed"} =>
             /\ Ends(GraphOf(e), exec'[e].rows)
             /\ exec'[e].status = Outcome(LastOf(exec'[e].rows).passed),
           \A w \in Workers : Runs(w, e)' => handler'[w].at \notin {"pause", "finish"}
    PROVE  SettledAt(e)'
BY DEF SettledAt

\* One step, as one execution's end sees it.
LEMMA SettledAtKept ==
    ASSUME SInv, [Next]_vars, used'.edits = 0, NEW e \in Executions, OnLoop(e),
           Branched(GraphOf(e))
    PROVE  SettledAt(e)'
<1>0. TInv /\ DInv /\ LInv /\ LoopHolds /\ ThreadsElsewhere /\ used.edits = 0 /\ Unedited
  BY EditsGrow DEF SInv, LInv, DInv
<1>1. SettledAt(e)
  BY <1>0 DEF SInv, Settled
<1> DEFINE d == GraphOf(e)
<1>2. /\ WfOf(e).def = d /\ d \in Definitions /\ exec[e] \in ExecRow /\ Loop \in Workers
      /\ d.first \in StepIds /\ d.first # NoStep
  BY <1>0, GraphKept, DefinitionAssumption, IdAssumption DEF ValidDefinition, Definition, Workers
<1>3. \A w \in Workers : Runs(w, e) => w = Loop /\ exec[e].status \in {"running", "paused"}
  BY <1>0, OnLoopWorker DEF LoopHolds, Runs, Idle
<1>4. ASSUME NEW w \in Workers, Runs(w, e), OthersKept(w)
      PROVE  \A v \in Workers : v # w => ~Runs(v, e)'
  BY <1>3, <1>4 DEF OthersKept, Runs
<1>5. ASSUME NEW w \in Workers, Runs(w, e), OthersKept(w),
             handler'[w].at \in {"idle", "notify", "complete"}
      PROVE  \A v \in Workers : ~Runs(v, e)'
  BY <1>4, <1>5 DEF Runs
<1> HIDE DEF d
<1>6. CASE Aside(e)
  BY <1>1, <1>6 DEF Aside, SettledAt
<1>7. ASSUME NEW w \in Workers, Start(w, e)
      PROVE  SettledAt(e)'
  <2>1. Began(e, w, <<0, 0>>, d.first, FALSE, FALSE) /\ exec[e].status = "none"
    BY <1>2, <1>7 DEF Start
  <2>2. OthersKept(w) /\ handler'[w].at = "step"
    BY <1>0, <1>2, <2>1, BeganSteps
  <2>3. exec'[e].status = "running" /\ exec'[e].finished = exec[e].finished
    BY <1>0, <1>2, <1>7 DEF Start, TInv, TypeOK, ExecRow
  <2>4. \A v \in Workers : v # w => ~Runs(v, e)'
    BY <1>3, <2>1, <2>2 DEF OthersKept, Runs
  <2>5. \A v \in Workers : Runs(v, e)' => handler'[v].at \notin {"pause", "finish"}
    BY <2>2, <2>4
  <2> QED BY <1>1, <2>1, <2>3, <2>5, SettledByRow DEF SettledAt, Terminal
<1>8. ASSUME NEW w \in Workers, handler[w].e = e, RunMoves(w)
      PROVE  SettledAt(e)'
  <2>1. CASE Reexecute(w)
    <3>1. Began(e, w, <<0, 0>>, d.first, FALSE, FALSE) /\ Runs(w, e)
      BY <1>2, <1>8, <2>1 DEF Reexecute, Runs
    <3>2. OthersKept(w) /\ handler'[w].at = "step"
      BY <1>0, <1>2, <3>1, BeganSteps
    <3>3. exec'[e].status = "running" /\ exec'[e].finished = FALSE
      BY <1>0, <1>2, <1>8, <2>1 DEF Reexecute, TInv, TypeOK, ExecRow
    <3>4. \A v \in Workers : Runs(v, e)' => handler'[v].at \notin {"pause", "finish"}
      BY <1>4, <3>1, <3>2
    <3> QED BY <3>3, <3>4, SettledByRow DEF Terminal
  <2>2. ASSUME NEW passed \in BOOLEAN, Ran(w, passed)
        PROVE  SettledAt(e)'
    <3> DEFINE h == handler[w]
               next == NextStep(WfOf(h.e).def, h.cur, passed)
               q == [step |-> h.cur, passed |-> passed, decision |-> FALSE]
    <3>1. h.at = "step" /\ Advance(w, passed) /\ Runs(w, e) /\ h.cur \in StepIds
      BY <1>0, <1>8, <2>2, AtStep DEF Ran, Runs
    <3>2. /\ OthersKept(w)
          /\ handler'[w].at = (IF next = NoStep THEN "finish" ELSE "step")
          /\ handler'[w].out = (IF next = NoStep THEN Outcome(passed) ELSE h.out)
      BY <1>0, <3>1, AdvanceLeaves
    <3>3. RowKept(e) /\ exec'[e].rows = Append(exec[e].rows, q)
      BY <1>0, <1>8, <3>1, AppendLeaves DEF Advance
    <3>4. q \in StepRow /\ exec[e].rows \in Seq(StepRow)
      BY <1>2, <3>1 DEF StepRow, ExecRow
    <3>5. exec'[e].rows # <<>> /\ LastOf(exec'[e].rows) = q
      BY <3>3, <3>4, AppendedRow
    <3>6. next = NoStep => Ends(d, exec'[e].rows) /\ LastOf(exec'[e].rows).passed = passed
      BY <1>2, <1>8, <3>5 DEF Ends
    <3>7. exec[e].status \in {"running", "paused"}
      BY <1>3, <3>1
    <3> HIDE DEF next, q
    <3>8. exec'[e].status \in {"running", "paused"} /\ exec'[e].step = exec[e].step
          /\ exec'[e].finished = exec[e].finished /\ exec'[e].status = exec[e].status
      BY <3>3, <3>7 DEF RowKept
    <3>9. ~exec[e].finished /\ (exec[e].status = "paused" => d.kind[exec[e].step] = "approval")
      BY <1>1, <3>7 DEF SettledAt, Terminal, d
    <3>10. \A v \in Workers : Runs(v, e)' => v = w
      BY <1>4, <3>1, <3>2
    <3>11. /\ handler'[w].at # "pause"
           /\ handler'[w].at = "finish" =>
                Ends(d, exec'[e].rows) /\ handler'[w].out = Outcome(LastOf(exec'[e].rows).passed)
      BY <3>2, <3>6
    <3> QED BY <3>8, <3>9, <3>10, <3>11 DEF SettledAt, Terminal, d
  <2>3. CASE RequestApproval(w)
    <3>1. Runs(w, e) /\ d.kind[handler[w].cur] = "approval"
      BY <1>2, <1>8, <2>3 DEF RequestApproval, Runs
    <3>2. OthersKept(w) /\ handler'[w].at = "pause" /\ handler'[w].cur = handler[w].cur
      BY <1>0, <2>3, RequestLeaves
    <3>3. RowKept(e)
      BY <1>0, <1>8, <2>3, AppendLeaves DEF RequestApproval
    <3>4. exec[e].status \in {"running", "paused"}
      BY <1>3, <3>1
    <3>5. exec'[e].status \in {"running", "paused"} /\ exec'[e].step = exec[e].step
          /\ exec'[e].finished = exec[e].finished /\ exec'[e].status = exec[e].status
      BY <3>3, <3>4 DEF RowKept
    <3>6. ~exec[e].finished /\ (exec[e].status = "paused" => d.kind[exec[e].step] = "approval")
      BY <1>1, <3>4 DEF SettledAt, Terminal, d
    <3>7. \A v \in Workers : Runs(v, e)' => v = w
      BY <1>4, <3>1, <3>2
    <3> QED BY <3>1, <3>2, <3>5, <3>6, <3>7 DEF SettledAt, Terminal, d
  <2>4. CASE RecordFails(w)
    <3>1. Runs(w, e) /\ OthersKept(w) /\ handler'[w].at = "idle" /\ exec' = exec
      BY <1>0, <1>8, <2>4, LeaveLeaves DEF RecordFails, Runs
    <3>2. \A v \in Workers : ~Runs(v, e)'
      BY <1>5, <3>1
    <3> QED BY <1>1, <3>1, <3>2, SettledByRow DEF SettledAt
  <2>5. CASE Pause(w)
    <3>1. Runs(w, e) /\ handler[w].at = "pause" /\ AfterRun(w)
      BY <1>8, <2>5 DEF Pause, Runs
    <3>2. \A v \in Workers : ~Runs(v, e)'
      BY <1>0, <1>5, <3>1, AfterRunLeaves
    <3>3. Exists(e) /\ exec[e].status \in {"running", "paused"}
      BY <1>3, <3>1 DEF Exists
    <3>4. /\ exec'[e].status = "paused" /\ exec'[e].step = handler[w].cur
          /\ exec'[e].finished = exec[e].finished
      BY <1>0, <1>2, <1>8, <2>5, <3>3 DEF Pause, Save, TInv, TypeOK, ExecRow
    <3>5. d.kind[handler[w].cur] = "approval" /\ ~exec[e].finished
      BY <1>1, <3>1, <3>3 DEF SettledAt, Terminal, d
    <3> QED BY <3>2, <3>4, <3>5, SettledByRow DEF Terminal, d
  <2>6. CASE Finish(w)
    <3>1. Runs(w, e) /\ handler[w].at = "finish"
      BY <1>8, <2>6 DEF Finish, Runs
    <3>2. \A v \in Workers : ~Runs(v, e)'
      BY <1>0, <1>5, <2>6, <3>1, AfterRunLeaves, GotoLeaves DEF Finish
    <3>3. Exists(e)
      BY <1>3, <3>1 DEF Exists
    <3>4. exec'[e].status = handler[w].out /\ exec'[e].finished = TRUE /\ exec'[e].rows = exec[e].rows
      BY <1>0, <1>2, <1>8, <2>6, <3>3 DEF Finish, Save, TInv, TypeOK, ExecRow
    <3>5. Ends(d, exec[e].rows) /\ handler[w].out = Outcome(LastOf(exec[e].rows).passed)
      BY <1>1, <3>1 DEF SettledAt, d
    <3>6. exec'[e].status \in {"succeeded", "failed"}
      BY <3>4, <3>5 DEF Outcome
    <3> QED BY <3>2, <3>4, <3>5, <3>6, SettledByRow DEF Terminal, d
  <2>7. CASE CommitCancel(w)
    <3>1. OthersKept(w) /\ handler'[w].at = "idle" /\ w = Loop
      BY <1>0, <1>8, <2>7, LeaveLeaves, OnLoopWorker DEF CommitCancel, Idle
    <3>2. \A v \in Workers : ~Runs(v, e)'
      BY <1>3, <2>7, <3>1 DEF OthersKept, Runs, CommitCancel
    <3>3. exec'[e].status = "cancelled" /\ exec'[e].finished = TRUE
      BY <1>0, <1>2, <1>8, <2>7 DEF CommitCancel, CancelledRow, TInv, TypeOK, ExecRow
    <3> QED BY <3>2, <3>3, SettledByRow DEF Terminal
  <2> QED BY <1>8, <2>1, <2>2, <2>3, <2>4, <2>5, <2>6, <2>7 DEF RunMoves
<1>9. ASSUME NEW a \in BOOLEAN, NEW v \in BOOLEAN, Resume(e, a, v)
      PROVE  SettledAt(e)'
  <2> DEFINE s == exec[e].step
             next == NextStep(d, s, a)
  <2>1. exec[e].status = "paused" /\ Idle(Loop) /\ s \in d.steps
    BY <1>2, <1>9 DEF Resume, Resumable
  <2>2. next # NoStep
    BY <1>1, <2>1 DEF SettledAt, Branched, NextStep, d
  <2>3. RowKept(e)
    BY <1>0, <1>9, AppendLeaves DEF Resume
  <2>4. PICK m, n : CountAnswer(e, a) = <<m, n>>
    BY DEF CountAnswer
  <2>5. Began(e, Loop, <<m, n>>, next, TRUE, v)
    BY <1>2, <1>9, <2>4 DEF Resume
  <2>6. OthersKept(Loop) /\ handler'[Loop].at = "step"
    BY <1>0, <1>2, <2>2, <2>5, BeganSteps
  <2>7. \A x \in Workers : Runs(x, e)' => handler'[x].at \notin {"pause", "finish"}
    BY <1>3, <2>6 DEF OthersKept, Runs
  <2> QED BY <1>1, <2>1, <2>3, <2>7, SettledByRow DEF SettledAt, RowKept, Terminal
<1>10. CASE Retry(e)
  <2>1. exec'[e].status = "running" /\ exec'[e].finished = FALSE
    BY <1>0, <1>10 DEF Retry, NoExec, TInv, TypeOK
  <2>2. PICK g \in Handler : handler' = [handler EXCEPT ![Loop] = g] /\ g.at = "retry"
    BY <1>10, ShortHandler DEF Retry
  <2>3. \A x \in Workers : Runs(x, e)' => handler'[x].at \notin {"pause", "finish"}
    BY <1>0, <1>3, <2>2 DEF Runs, TInv, TypeOK
  <2> QED BY <2>1, <2>3, SettledByRow DEF Terminal
<1>11. CASE Idle(Loop) /\ exec'[e] = DeletedExec /\ UNCHANGED handler
  <2>1. exec'[e].status = "deleted" /\ exec'[e].finished = FALSE
    BY <1>11 DEF DeletedExec, NoExec
  <2>2. \A x \in Workers : ~Runs(x, e)'
    BY <1>3, <1>11 DEF Runs, Idle
  <2> QED BY <2>1, <2>2, SettledByRow DEF Terminal
<1>12. CASE \E f \in Workflows, g \in Definitions : EditWorkflow(f, g)
  <2>1. used \in Used
    BY <1>0 DEF TInv, TypeOK
  <2>2. used'.edits = used.edits + 1 /\ used.edits \in Nat
    BY <1>12, <2>1 DEF EditWorkflow, Used
  <2> QED BY <1>0, <2>2
<1>13. CASE Crash
  <2>1. exec' = exec /\ \A x \in Workers : ~Runs(x, e)'
    BY <1>13 DEF Crash, NoHandler, Runs
  <2> QED BY <1>1, <2>1, SettledByRow DEF SettledAt
<1> QED BY <1>0, <1>6, <1>7, <1>8, <1>9, <1>10, <1>11, <1>12, <1>13, StepsOf

\* The invariant of all of them.
LEMMA SInvKept ==
    ASSUME SInv, [Next]_vars
    PROVE  SInv'
<1>1. TInv /\ Unedited
  BY DEF SInv, LInv, DInv
<1>2. LInv' /\ Unedited'
  BY <1>1, LInvKept, UneditedKept DEF SInv
<1>3. Settled'
  BY SettledAtKept DEF Settled, OnLoop, Branched, GraphOf
<1> QED BY <1>2, <1>3 DEF SInv

\* While no workflow was edited, every execution that is served on the event
\* loop and whose approvals have both branches is settled as SettledAt says,
\* through pauses, crashes, cancellations, deletions and retries.
THEOREM RunsSettle == Spec => []SInv
<1>1. Init => SInv
  BY SInvInit
<1>2. SInv /\ [Next]_vars => SInv'
  BY SInvKept
<1> QED BY <1>1, <1>2, PTL DEF Spec

\* finished_at is set exactly on the executions that are over, through pauses,
\* crashes, cancellations and retries, as long as no workflow was edited: for
\* executions served on the event loop, whose approvals have both branches.
\* (A thread whose execution is cancelled writes 'paused' over it, and an
\* answer that leads nowhere leaves 'running' with finished_at set.)
THEOREM FinishedIsTerminal ==
    ASSUME \A e \in Executions : OnLoop(e), \A f \in Workflows : Branched(InitialDef[f])
    PROVE  Spec => [](used.edits = 0 => FinishedIffTerminal)
<1>1. SInv => (used.edits = 0 => FinishedIffTerminal)
  BY IdAssumption DEF SInv, Settled, SettledAt, GraphOf, FinishedIffTerminal
<1> QED BY <1>1, RunsSettle, PTL

\* A finished execution says what its last recorded step says, under the same
\* conditions: both ends of a run record the step, and only then its outcome,
\* in one handler that nothing else on the event loop comes between.
THEOREM HistorySettles ==
    ASSUME \A e \in Executions : OnLoop(e), \A f \in Workflows : Branched(InitialDef[f])
    PROVE  Spec => [](used.edits = 0 => TerminalStepSettles)
<1>1. SInv => (used.edits = 0 => TerminalStepSettles)
  <2> SUFFICES ASSUME SInv, used.edits = 0, NEW e \in Executions,
                      exec[e].finished, exec[e].rows # <<>>, exec[e].status # "cancelled"
               PROVE  /\ NextStep(WfOf(e).def, LastRow(e).step, LastRow(e).passed) = NoStep
                      /\ exec[e].status = IF LastRow(e).passed THEN "succeeded" ELSE "failed"
    BY DEF TerminalStepSettles
  <2>1. SettledAt(e) /\ WfOf(e).def = GraphOf(e)
    BY IdAssumption, GraphKept DEF SInv, Settled, GraphOf, LInv, DInv
  <2>2. exec[e].status \in {"succeeded", "failed"}
    BY <2>1 DEF SettledAt, Terminal
  <2> QED BY <2>1, <2>2 DEF SettledAt, Ends, LastRow, LastOf, Outcome
<1> QED BY <1>1, RunsSettle, PTL

-----------------------------------------------------------------------------
(* Histories and counters *)

\* Executions whose rows are the work of one handler after the other: nothing
\* was edited, nothing crashed, and no worker was left behind by a retry of a
\* cancelled execution.
Tracked(e) ==
    /\ used.edits = 0
    /\ used.crashes = 0
    /\ OnLoop(e) \/ e \notin used.revived

\* What the handler that runs e stands on: it has counted the recorded steps,
\* and the next one is where they lead, or the answer they wait for.
RunnerFits(w, e) ==
    LET h == handler[w]
        r == exec[e].rows
    IN  /\ h.at = "retry" => r = <<>>
        /\ h.at # "retry" => Tally(r, h.succ, h.fail)
        /\ h.at = "step" => LeadsTo(GraphOf(e), r, h.cur)
        /\ h.at = "pause" => AwaitsAt(GraphOf(e), r, h.cur)

\* What its last handler left in the row.
RowFits(e) ==
    LET x == exec[e]
    IN  /\ x.status \in {"paused", "succeeded", "failed"} => Tally(x.rows, x.succ, x.fail)
        /\ x.status = "paused" => AwaitsAt(GraphOf(e), x.rows, x.step)

HistoryAt(e) ==
    /\ IsPath(GraphOf(e), exec[e].rows)
    /\ exec[e].status = "none" => exec[e].rows = <<>>
    /\ \A w \in Workers : Runs(w, e) /\ Exists(e) => RunnerFits(w, e)
    /\ (\A w \in Workers : ~Runs(w, e)) => RowFits(e)

Histories == \A e \in Executions : Tracked(e) => HistoryAt(e)

HInv == RInv /\ LInv /\ Unedited /\ Histories

\* A tracked execution has one runner, and a row that a worker runs is not one
\* that can be answered, started or retried.
LEMMA TrackedRunner ==
    ASSUME HInv, NEW e \in Executions, Tracked(e)
    PROVE  /\ \A v, w \in Workers : Runs(v, e) /\ Runs(w, e) => v = w
           /\ \A w \in Workers : Runs(w, e) =>
                /\ exec[e].status \in {"running", "paused", "cancelled", "deleted"}
                /\ exec[e].status = "paused" => w = Loop
<1>1. CASE OnLoop(e)
  <2>1. \A w \in Workers : Runs(w, e) => w = Loop
    BY <1>1, OnLoopWorker DEF HInv, LInv, Runs, Idle
  <2>2. \A w \in Workers : Runs(w, e) => exec[e].status \in {"running", "paused"}
    BY <1>1 DEF HInv, LInv, LoopHolds
  <2> QED BY <2>1, <2>2
<1>2. CASE e \notin used.revived
  BY <1>2 DEF HInv, RInv, RunnersAlive, OneRunnerPerExecution, RunnableBy
<1> QED BY <1>1, <1>2 DEF Tracked

\* No crash is forgotten.
LEMMA CrashesGrow ==
    ASSUME TInv, [Next]_vars, used'.crashes = 0
    PROVE  used.crashes = 0 /\ ~Crash
<1>1. used \in Used
  BY DEF TInv, TypeOK
<1>2. ASSUME Crash PROVE FALSE
  <2>1. used' = [used EXCEPT !.crashes = used.crashes + 1]
    BY <1>2 DEF Crash
  <2>2. used'.crashes = used.crashes + 1 /\ used.crashes \in Nat
    BY <1>1, <2>1 DEF Used
  <2> QED BY <2>2
<1>3. used'.crashes = used.crashes
  BY <1>1, <1>2
     DEF Used, Next, WorkerStep, Reexecute, RunStep, ApprovalFails, RequestApproval, RecordFails,
         Pause, Finish, Complete, MarkHandled, CommitCancel, FireTrigger, ExecuteManually, Start,
         ResumeRoute, HandleApproval, Resume, Administer, Cancel, Retry, DeleteExecution,
         DeleteBulk, ToggleActive, DeleteWorkflow, EditWorkflow,
         Environment, MarkRead, TransitionStatus, vars
<1> QED BY <1>2, <1>3

\* What is tracked after a step was tracked before it.
LEMMA TrackedBefore ==
    ASSUME HInv, [Next]_vars, NEW e \in Executions, Tracked(e)'
    PROVE  /\ Tracked(e) /\ HistoryAt(e) /\ ~Crash
           /\ ~ \E f \in Workflows, d \in Definitions : EditWorkflow(f, d)
           /\ Retry(e) => \A w \in Workers : ~Runs(w, e)
<1>1. TInv /\ used \in Used
  BY DEF HInv, RInv, TInv, TypeOK
<1>2. used.edits = 0 /\ used.crashes = 0 /\ ~Crash
  BY <1>1, EditsGrow, CrashesGrow DEF Tracked
<1>3. ~ \E f \in Workflows, d \in Definitions : EditWorkflow(f, d)
  <2> SUFFICES ASSUME NEW f \in Workflows, NEW d \in Definitions, EditWorkflow(f, d) PROVE FALSE
    OBVIOUS
  <2>1. used'.edits = used.edits + 1 /\ used.edits \in Nat
    BY <1>1 DEF EditWorkflow, Used
  <2> QED BY <1>2, <2>1 DEF Tracked
<1>4. CASE OnLoop(e)
  <2>1. Retry(e) => \A w \in Workers : ~Runs(w, e)
    BY <1>4 DEF Retry, Retryable, HInv, LInv, LoopHolds
  <2> QED BY <1>2, <1>3, <1>4, <2>1 DEF Tracked, HInv, Histories
<1>5. CASE e \notin used'.revived
  <2>1. e \notin used.revived /\ (Retry(e) => exec[e].status = "failed")
    BY <1>1, <1>5, RevivedGrows
  <2>2. Retry(e) => \A w \in Workers : ~Runs(w, e)
    BY <2>1 DEF HInv, RInv, RunnersAlive, RunnableBy
  <2> QED BY <1>2, <1>3, <2>1, <2>2 DEF Tracked, HInv, Histories
<1> QED BY <1>4, <1>5 DEF Tracked, OnLoop

\* A row with a runner: the clauses to show are those of the runner.
LEMMA HistoryWithRunner ==
    ASSUME NEW e \in Executions, NEW w \in Workers, Runs(w, e)',
           \A v \in Workers : v # w => ~Runs(v, e)',
           IsPath(GraphOf(e), exec'[e].rows), exec'[e].status # "none", RunnerFits(w, e)'
    PROVE  HistoryAt(e)'
BY DEF HistoryAt

\* A row without one.
LEMMA HistoryAtRest ==
    ASSUME NEW e \in Executions, \A v \in Workers : ~Runs(v, e)',
           IsPath(GraphOf(e), exec'[e].rows), exec'[e].status # "none", RowFits(e)'
    PROVE  HistoryAt(e)'
BY DEF HistoryAt

\* No execution has a history initially.
LEMMA HistoryInit == Init => HInv
<1> SUFFICES ASSUME Init PROVE HInv
  OBVIOUS
<1>1. \A w \in Workers : handler[w].at = "idle"
  BY DEF Init, NoHandler
<1>2. RInv
  BY <1>1, InitTyped DEF RInv, RunnersAlive, OneRunnerPerExecution, Runs
<1>3. \A e \in Executions : exec[e].rows = <<>> /\ exec[e].status = "none"
  BY DEF Init, NoExec
<1>4. Histories
  BY <1>1, <1>3, EmptyHistory DEF Histories, HistoryAt, RowFits, Runs
<1> QED BY <1>2, <1>4, LInvInit, UneditedInit DEF HInv

-----------------------------------------------------------------------------
\* A trigger starts an empty history at the first step.
LEMMA HistoryStarts ==
    ASSUME HInv, NEW e \in Executions, Tracked(e), HistoryAt(e), NEW w \in Workers, Start(w, e)
    PROVE  HistoryAt(e)'
<1>0. TInv /\ WfOf(e).def = GraphOf(e) /\ GraphOf(e).first # NoStep /\ exec[e] \in ExecRow
  BY GraphKept, GraphTypes, DefinitionAssumption, IdAssumption
     DEF HInv, RInv, Tracked, ValidDefinition, Definition
<1>1. exec[e].status = "none" /\ exec[e].rows = <<>>
  BY DEF Start, HistoryAt
<1>2. Began(e, w, <<0, 0>>, GraphOf(e).first, FALSE, FALSE)
  BY <1>0 DEF Start
<1>3. exec'[e].status = "running" /\ exec'[e].rows = <<>>
  BY <1>0, <1>1 DEF Start, TInv, TypeOK, ExecRow
<1>4. OthersKept(w) /\ handler'[w].at = "step"
  BY <1>0, <1>2, BeganSteps
<1>5. /\ handler'[w].e = e /\ handler'[w].cur = GraphOf(e).first
      /\ handler'[w].succ = 0 /\ handler'[w].fail = 0
  BY <1>0, <1>2, BeganFresh
<1>6. \A v \in Workers : v # w => ~Runs(v, e)'
  BY <1>1, <1>4, TrackedRunner DEF OthersKept, Runs
<1>7. RunnerFits(w, e)'
  BY <1>3, <1>4, <1>5, EmptyHistory DEF RunnerFits, GraphOf
<1>8. Runs(w, e)'
  BY <1>4, <1>5 DEF Runs
<1> QED BY <1>3, <1>6, <1>7, <1>8, EmptyHistory, HistoryWithRunner

\* The second half of a retry starts over, on rows the first half deleted.
LEMMA HistoryReexecutes ==
    ASSUME HInv, NEW e \in Executions, Tracked(e), HistoryAt(e), NEW w \in Workers,
           handler[w].e = e, Reexecute(w)
    PROVE  HistoryAt(e)'
<1>0. TInv /\ WfOf(e).def = GraphOf(e) /\ GraphOf(e).first # NoStep /\ exec[e] \in ExecRow
  BY GraphKept, GraphTypes, DefinitionAssumption, IdAssumption
     DEF HInv, RInv, Tracked, ValidDefinition, Definition
<1>1. Runs(w, e) /\ Exists(e) /\ handler[w].at = "retry"
  BY DEF Reexecute, Runs, HInv, LInv, DInv, ShortHandlersHold
<1>2. exec[e].rows = <<>>
  BY <1>1 DEF HistoryAt, RunnerFits
<1>3. Began(e, w, <<0, 0>>, GraphOf(e).first, FALSE, FALSE)
  BY <1>0 DEF Reexecute
<1>4. exec'[e].status = "running" /\ exec'[e].rows = <<>>
  BY <1>0, <1>2 DEF Reexecute, TInv, TypeOK, ExecRow
<1>5. OthersKept(w) /\ handler'[w].at = "step"
  BY <1>0, <1>3, BeganSteps
<1>6. /\ handler'[w].e = e /\ handler'[w].cur = GraphOf(e).first
      /\ handler'[w].succ = 0 /\ handler'[w].fail = 0
  BY <1>0, <1>3, BeganFresh
<1>7. \A v \in Workers : v # w => ~Runs(v, e)'
  BY <1>1, <1>5, TrackedRunner DEF OthersKept, Runs
<1>8. RunnerFits(w, e)'
  BY <1>4, <1>5, <1>6, EmptyHistory DEF RunnerFits, GraphOf
<1>9. Runs(w, e)'
  BY <1>5, <1>6 DEF Runs
<1> QED BY <1>4, <1>7, <1>8, <1>9, EmptyHistory, HistoryWithRunner

\* One step more: its row continues the path, and leads where the handler goes.
LEMMA HistoryAdvances ==
    ASSUME HInv, NEW e \in Executions, Tracked(e), HistoryAt(e), NEW w \in Workers,
           handler[w].e = e, NEW passed \in BOOLEAN, Ran(w, passed)
    PROVE  HistoryAt(e)'
<1> DEFINE d == GraphOf(e)
           h == handler[w]
           r == exec[e].rows
           next == NextStep(d, h.cur, passed)
           q == [step |-> h.cur, passed |-> passed, decision |-> FALSE]
<1>0. TInv /\ WfOf(e).def = d /\ d \in Definitions /\ exec[e] \in ExecRow
  BY GraphKept DEF HInv, RInv, Tracked
<1>1. Runs(w, e) /\ Exists(e) /\ h.at = "step" /\ Advance(w, passed)
      /\ (d.kind[h.cur] = "approval" => ~passed)
  BY <1>0 DEF Ran, Runs, Recordable
<1>2. Tally(r, h.succ, h.fail) /\ LeadsTo(d, r, h.cur) /\ IsPath(d, r)
  BY <1>1 DEF HistoryAt, RunnerFits
<1>3. q \in StepRow /\ r \in Seq(StepRow) /\ h.succ \in Nat /\ h.fail \in Nat
  BY <1>0, <1>1, AtStep DEF StepRow, ExecRow, Handler
<1>4. RowKept(e) /\ exec'[e].rows = Append(r, q)
  BY <1>0, <1>1, AppendLeaves DEF Advance
<1>5. IsPath(d, Append(r, q))
  <2>1. q.step = h.cur /\ ~q.decision
    OBVIOUS
  <2>2. r = <<>> => h.cur = d.first
    BY <1>2 DEF LeadsTo
  <2>3. r # <<>> => Follows(d, LastOf(r), q)
    BY <1>2, <2>1 DEF LeadsTo, Follows
  <2> HIDE DEF d, q, r
  <2> QED BY <1>2, <1>3, <2>1, <2>2, <2>3, PathGrows
<1>6. LeadsTo(d, Append(r, q), next)
  <2>1. Append(r, q) # <<>> /\ LastOf(Append(r, q)) = q
    BY <1>3, AppendedRow
  <2>2. ~IsRequest(d, q) /\ NextStep(d, q.step, q.passed) = next
    BY <1>1 DEF IsRequest
  <2> QED BY <2>1, <2>2 DEF LeadsTo
<1> DEFINE s == IF passed THEN h.succ + 1 ELSE h.succ
           f == IF passed THEN h.fail ELSE h.fail + 1
<1>7. Tally(Append(r, q), s, f)
  <2>1. Tally(Append(r, q), IF q.passed THEN h.succ + 1 ELSE h.succ,
                            IF q.passed THEN h.fail ELSE h.fail + 1)
    <3> HIDE DEF q, r
    <3> QED BY <1>2, <1>3, TallyGrows
  <2> QED BY <2>1
<1>8. /\ OthersKept(w)
      /\ handler'[w].at = (IF next = NoStep THEN "finish" ELSE "step")
      /\ handler'[w].e = e
      /\ handler'[w].cur = next
      /\ handler'[w].succ = s
      /\ handler'[w].fail = f
  BY <1>0, <1>1, AdvanceLeaves
<1> HIDE DEF d, next, q, s, f
<1>9. \A v \in Workers : v # w => ~Runs(v, e)'
  BY <1>1, <1>8, TrackedRunner DEF OthersKept, Runs
<1>10. RunnerFits(w, e)'
  BY <1>4, <1>6, <1>7, <1>8 DEF RunnerFits, d, GraphOf
<1>11. Runs(w, e)' /\ exec'[e].status # "none"
  BY <1>1, <1>4, <1>8 DEF Runs, RowKept, Exists
<1>12. IsPath(GraphOf(e), exec'[e].rows)
  BY <1>4, <1>5 DEF d
<1> QED BY <1>9, <1>10, <1>11, <1>12, HistoryWithRunner

\* The request is recorded, and the handler goes to the pause.
LEMMA HistoryRequests ==
    ASSUME HInv, NEW e \in Executions, Tracked(e), HistoryAt(e), NEW w \in Workers,
           handler[w].e = e, RequestApproval(w)
    PROVE  HistoryAt(e)'
<1> DEFINE d == GraphOf(e)
           h == handler[w]
           r == exec[e].rows
           q == [step |-> h.cur, passed |-> TRUE, decision |-> FALSE]
<1>0. TInv /\ WfOf(e).def = d /\ d \in Definitions /\ exec[e] \in ExecRow
  BY GraphKept DEF HInv, RInv, Tracked
<1>1. Runs(w, e) /\ Exists(e) /\ h.at = "step" /\ d.kind[h.cur] = "approval"
  BY <1>0 DEF RequestApproval, Runs, Recordable
<1>2. Tally(r, h.succ, h.fail) /\ LeadsTo(d, r, h.cur) /\ IsPath(d, r)
  BY <1>1 DEF HistoryAt, RunnerFits
<1>3. q \in StepRow /\ r \in Seq(StepRow) /\ h.succ \in Nat /\ h.fail \in Nat
  BY <1>0, <1>1, AtStep DEF StepRow, ExecRow, Handler
<1>4. RowKept(e) /\ exec'[e].rows = Append(r, q)
  BY <1>0, <1>1, AppendLeaves DEF RequestApproval
<1>5. IsPath(d, Append(r, q))
  <2>1. q.step = h.cur /\ ~q.decision
    OBVIOUS
  <2>2. r = <<>> => h.cur = d.first
    BY <1>2 DEF LeadsTo
  <2>3. r # <<>> => Follows(d, LastOf(r), q)
    BY <1>2, <2>1 DEF LeadsTo, Follows
  <2> HIDE DEF d, q, r
  <2> QED BY <1>2, <1>3, <2>1, <2>2, <2>3, PathGrows
<1>6. AwaitsAt(d, Append(r, q), h.cur)
  <2>1. Append(r, q) # <<>> /\ LastOf(Append(r, q)) = q
    BY <1>3, AppendedRow
  <2>2. IsRequest(d, q) /\ q.step = h.cur
    BY <1>1 DEF IsRequest
  <2> QED BY <2>1, <2>2 DEF AwaitsAt
<1>7. Tally(Append(r, q), h.succ + 1, h.fail)
  <2>1. Tally(Append(r, q), IF q.passed THEN h.succ + 1 ELSE h.succ,
                            IF q.passed THEN h.fail ELSE h.fail + 1)
    <3> HIDE DEF q, r
    <3> QED BY <1>2, <1>3, TallyGrows
  <2> QED BY <2>1
<1>8. /\ OthersKept(w)
      /\ handler'[w].at = "pause"
      /\ handler'[w].e = e
      /\ handler'[w].cur = h.cur
      /\ handler'[w].succ = h.succ + 1
      /\ handler'[w].fail = h.fail
  BY <1>0, RequestLeaves
<1> HIDE DEF d, q
<1>9. \A v \in Workers : v # w => ~Runs(v, e)'
  BY <1>1, <1>8, TrackedRunner DEF OthersKept, Runs
<1>10. RunnerFits(w, e)'
  BY <1>4, <1>6, <1>7, <1>8 DEF RunnerFits, d, GraphOf
<1>11. Runs(w, e)' /\ exec'[e].status # "none"
  BY <1>1, <1>4, <1>8 DEF Runs, RowKept, Exists
<1>12. IsPath(GraphOf(e), exec'[e].rows)
  BY <1>4, <1>5 DEF d
<1> QED BY <1>9, <1>10, <1>11, <1>12, HistoryWithRunner

\* The run ends with its row, or without one that was deleted under it.
LEMMA HistoryStops ==
    ASSUME HInv, NEW e \in Executions, Tracked(e), HistoryAt(e), NEW w \in Workers,
           handler[w].e = e, Pause(w) \/ Finish(w) \/ RecordFails(w)
    PROVE  HistoryAt(e)'
<1> DEFINE h == handler[w]
<1>0. TInv /\ WfOf(e).ver = 0 /\ exec[e] \in ExecRow /\ h \in Handler /\ h.ver = 0
  BY GraphKept DEF HInv, RInv, Tracked, TInv, TypeOK, Unedited
<1>1. Runs(w, e)
  BY DEF Pause, Finish, RecordFails, Runs
<1>2. OthersKept(w) /\ handler'[w].at \in {"idle", "notify", "complete"}
  BY <1>0, LeaveLeaves, GotoLeaves, AfterRunLeaves DEF Pause, Finish, RecordFails
<1>3. \A v \in Workers : ~Runs(v, e)'
  BY <1>1, <1>2, TrackedRunner DEF OthersKept, Runs
<1>4. exec[e].status # "none" /\ IsPath(GraphOf(e), exec[e].rows)
  BY <1>1, TrackedRunner DEF HistoryAt
<1>5. CASE ~Exists(e)
  <2>1. exec' = exec /\ exec[e].status = "deleted"
    BY <1>4, <1>5 DEF Pause, Finish, RecordFails, Save, Exists
  <2>2. RowFits(e)'
    BY <2>1 DEF RowFits
  <2> QED BY <1>3, <1>4, <2>1, <2>2, HistoryAtRest
<1>6. CASE Exists(e)
  <2>1. RunnerFits(w, e) /\ ~RecordFails(w)
    BY <1>0, <1>1, <1>6 DEF HistoryAt, RecordFails, Recordable
  <2>2. CASE Pause(w)
    <3>1. /\ exec'[e].rows = exec[e].rows /\ exec'[e].status = "paused"
          /\ exec'[e].step = h.cur /\ exec'[e].succ = h.succ /\ exec'[e].fail = h.fail
      BY <1>0, <1>6, <2>2 DEF Pause, Save, TInv, TypeOK, ExecRow
    <3>2. Tally(exec[e].rows, h.succ, h.fail) /\ AwaitsAt(GraphOf(e), exec[e].rows, h.cur)
      BY <2>1, <2>2 DEF RunnerFits, Pause
    <3>3. RowFits(e)'
      BY <3>1, <3>2 DEF RowFits, GraphOf
    <3> QED BY <1>3, <1>4, <3>1, <3>3, HistoryAtRest
  <2>3. CASE Finish(w)
    <3>1. /\ exec'[e].rows = exec[e].rows /\ exec'[e].status = h.out
          /\ exec'[e].succ = h.succ /\ exec'[e].fail = h.fail
      BY <1>0, <1>6, <2>3 DEF Finish, Save, TInv, TypeOK, ExecRow
    <3>2. Tally(exec[e].rows, h.succ, h.fail) /\ h.out \in {"running", "succeeded", "failed"}
      BY <1>0, <2>1, <2>3 DEF RunnerFits, Finish, Handler
    <3>3. RowFits(e)' /\ exec'[e].status # "none"
      BY <3>1, <3>2 DEF RowFits
    <3> QED BY <1>3, <1>4, <3>1, <3>3, HistoryAtRest
  <2> QED BY <2>1, <2>2, <2>3
<1> QED BY <1>5, <1>6

\* A cancellation keeps the rows.
LEMMA HistoryCancelled ==
    ASSUME HInv, NEW e \in Executions, Tracked(e), HistoryAt(e), NEW w \in Workers,
           handler[w].e = e, CommitCancel(w)
    PROVE  HistoryAt(e)'
<1>0. TInv /\ exec[e] \in ExecRow
  BY DEF HInv, RInv, TInv, TypeOK
<1>1. Exists(e) /\ ~Runs(w, e)
  BY DEF CommitCancel, Runs, HInv, LInv, DInv, ShortHandlersHold
<1>2. OthersKept(w) /\ handler'[w].at = "idle"
  BY <1>0, LeaveLeaves DEF CommitCancel
<1>3. exec'[e].rows = exec[e].rows /\ exec'[e].status = "cancelled"
  BY <1>0 DEF CommitCancel, CancelledRow, TInv, TypeOK, ExecRow
<1>4. \A v \in Workers : Runs(v, e)' => Runs(v, e) /\ handler'[v] = handler[v]
  BY <1>2 DEF OthersKept, Runs
<1>5. \A v \in Workers : Runs(v, e)' => RunnerFits(v, e)'
  BY <1>1, <1>3, <1>4 DEF HistoryAt, RunnerFits, GraphOf
<1>6. RowFits(e)' /\ IsPath(GraphOf(e), exec'[e].rows)
  BY <1>3 DEF RowFits, HistoryAt
<1> QED BY <1>3, <1>5, <1>6 DEF HistoryAt, GraphOf

\* The answer follows the request the execution is paused at, and is counted.
LEMMA HistoryAnswered ==
    ASSUME HInv, NEW e \in Executions, Tracked(e), HistoryAt(e),
           NEW a \in BOOLEAN, NEW v \in BOOLEAN, Resume(e, a, v)
    PROVE  HistoryAt(e)'
<1> DEFINE d == GraphOf(e)
           r == exec[e].rows
           s == exec[e].step
           next == NextStep(d, s, a)
           q == [step |-> s, passed |-> a, decision |-> TRUE]
           m == IF a THEN exec[e].succ + 1 ELSE exec[e].succ
           n == IF a THEN exec[e].fail ELSE exec[e].fail + 1
<1>0. TInv /\ WfOf(e).def = d /\ d \in Definitions /\ exec[e] \in ExecRow /\ Loop \in Workers
  BY GraphKept DEF HInv, RInv, Tracked, Workers
<1>1. exec[e].status = "paused" /\ Idle(Loop) /\ s \in d.steps
  BY <1>0 DEF Resume, Resumable
<1>2. \A w \in Workers : ~Runs(w, e)
  BY <1>1, TrackedRunner DEF Runs, Idle
<1>3. Tally(r, exec[e].succ, exec[e].fail) /\ AwaitsAt(d, r, s) /\ IsPath(d, r)
  BY <1>1, <1>2 DEF HistoryAt, RowFits
<1>4. q \in StepRow /\ r \in Seq(StepRow) /\ exec[e].succ \in Nat /\ exec[e].fail \in Nat
  BY <1>0, <1>1, GraphTypes, DefinitionAssumption DEF StepRow, ExecRow, ValidDefinition, Definition
<1>5. RowKept(e) /\ exec'[e].rows = Append(r, q)
  BY <1>0, AppendLeaves DEF Resume
<1>6. IsPath(d, Append(r, q))
  <2>1. r # <<>> /\ Follows(d, LastOf(r), q)
    BY <1>3 DEF AwaitsAt, Follows
  <2> HIDE DEF d, q, r
  <2> QED BY <1>3, <1>4, <2>1, PathGrows
<1>7. LeadsTo(d, Append(r, q), next)
  <2>1. Append(r, q) # <<>> /\ LastOf(Append(r, q)) = q
    BY <1>4, AppendedRow
  <2>2. ~IsRequest(d, q) /\ NextStep(d, q.step, q.passed) = next
    BY DEF IsRequest
  <2> QED BY <2>1, <2>2 DEF LeadsTo
<1>8. Tally(Append(r, q), m, n)
  <2>1. Tally(Append(r, q), IF q.passed THEN exec[e].succ + 1 ELSE exec[e].succ,
                            IF q.passed THEN exec[e].fail ELSE exec[e].fail + 1)
    <3> HIDE DEF q, r
    <3> QED BY <1>3, <1>4, TallyGrows
  <2> QED BY <2>1
<1>9. CountAnswer(e, a) = <<m, n>>
  BY DEF CountAnswer
<1>10. Began(e, Loop, <<m, n>>, next, TRUE, v)
  BY <1>0, <1>9 DEF Resume
<1> HIDE DEF d, next, q, m, n
<1>11. /\ OthersKept(Loop)
       /\ handler'[Loop].at = (IF next = NoStep THEN "finish" ELSE "step")
       /\ handler'[Loop].e = e
       /\ handler'[Loop].cur = next
       /\ handler'[Loop].succ = m
       /\ handler'[Loop].fail = n
  BY <1>0, <1>10 DEF Began, OthersKept, TInv, TypeOK
<1>12. \A w \in Workers : w # Loop => ~Runs(w, e)'
  BY <1>2, <1>11 DEF OthersKept, Runs
<1>13. RunnerFits(Loop, e)'
  BY <1>5, <1>7, <1>8, <1>11 DEF RunnerFits, d, GraphOf
<1>14. Runs(Loop, e)' /\ exec'[e].status # "none"
  BY <1>1, <1>5, <1>11 DEF Runs, RowKept
<1>15. IsPath(GraphOf(e), exec'[e].rows)
  BY <1>5, <1>6 DEF d
<1> QED BY <1>0, <1>12, <1>13, <1>14, <1>15, HistoryWithRunner

\* The first half of a retry deletes the rows.
LEMMA HistoryRetried ==
    ASSUME HInv, NEW e \in Executions, Retry(e), \A w \in Workers : ~Runs(w, e)
    PROVE  HistoryAt(e)'
<1>0. TInv /\ Loop \in Workers
  BY DEF HInv, RInv, Workers
<1>1. exec'[e].status = "running" /\ exec'[e].rows = <<>>
  BY <1>0 DEF Retry, NoExec, TInv, TypeOK
<1>2. PICK g \in Handler : handler' = [handler EXCEPT ![Loop] = g] /\ g.at = "retry" /\ g.e = e
  BY ShortHandler DEF Retry
<1>3. handler'[Loop].at = "retry" /\ handler'[Loop].e = e /\ OthersKept(Loop)
  BY <1>0, <1>2 DEF OthersKept, TInv, TypeOK
<1>4. Runs(Loop, e)' /\ \A w \in Workers : w # Loop => ~Runs(w, e)'
  BY <1>3 DEF OthersKept, Runs
<1>5. RunnerFits(Loop, e)'
  BY <1>1, <1>3 DEF RunnerFits
<1> QED BY <1>0, <1>1, <1>4, <1>5, EmptyHistory, HistoryWithRunner

\* One step, as one execution's history sees it.
LEMMA HistoryKept ==
    ASSUME HInv, [Next]_vars, NEW e \in Executions, Tracked(e)'
    PROVE  HistoryAt(e)'
<1>1. /\ Tracked(e) /\ HistoryAt(e) /\ ~Crash
      /\ ~ \E f \in Workflows, d \in Definitions : EditWorkflow(f, d)
      /\ Retry(e) => \A w \in Workers : ~Runs(w, e)
  BY TrackedBefore
<1>2. TInv
  BY DEF HInv, RInv
<1>3. CASE Aside(e)
  BY <1>1, <1>3 DEF Aside, HistoryAt, RunnerFits, RowFits, Exists, GraphOf
<1>4. CASE \E w \in Workers : handler[w].e = e /\ RunMoves(w)
  BY <1>1, <1>4, HistoryReexecutes, HistoryAdvances, HistoryRequests, HistoryStops, HistoryCancelled
     DEF RunMoves
<1>5. CASE Idle(Loop) /\ exec'[e] = DeletedExec /\ UNCHANGED handler
  BY <1>5, EmptyHistory DEF DeletedExec, NoExec, HistoryAt, RowFits, Exists
<1> QED BY <1>1, <1>2, <1>3, <1>4, <1>5, StepsOf, HistoryStarts, HistoryAnswered, HistoryRetried

\* The invariant of all of them.
LEMMA HInvKept ==
    ASSUME HInv, [Next]_vars
    PROVE  HInv'
<1>1. TInv /\ Unedited
  BY DEF HInv, RInv
<1>2. RInv' /\ LInv' /\ Unedited'
  BY <1>1, RInvKept, LInvKept, UneditedKept DEF HInv
<1>3. Histories'
  BY HistoryKept DEF Histories
<1> QED BY <1>2, <1>3 DEF HInv

\* Nothing was edited and nothing crashed, and where threads run executions too
\* no cancelled one was retried.
Undisturbed ==
    /\ used.edits = 0
    /\ used.crashes = 0
    /\ used.revived = {} \/ \A e \in Executions : OnLoop(e)

\* The step rows of every execution are a path through its graph, and each
\* request in it is followed by one answer, however many pauses, answers,
\* cancellations and retries there were.  A crash between the commit of the
\* answer and the pause or the end it leads to breaks it (the request is
\* answered again), and so does an edit, which deletes the rows.
THEOREM HistoryIsPath == Spec => [](Undisturbed => HistoryFollowsGraph)
<1>1. HInv /\ Undisturbed => HistoryFollowsGraph
  <2> SUFFICES ASSUME HInv, Undisturbed, NEW e \in Executions
               PROVE  LET r == exec[e].rows
                          d == WfOf(e).def
                      IN  /\ r # <<>> => r[1].step = d.first /\ ~r[1].decision
                          /\ \A i \in 1 .. Len(r) - 1 :
                                IF IsRequest(d, r[i])
                                THEN r[i + 1].decision /\ r[i + 1].step = r[i].step
                                ELSE /\ ~r[i + 1].decision
                                     /\ r[i + 1].step = NextStep(d, r[i].step, r[i].passed)
    BY DEF HistoryFollowsGraph
  <2>1. HistoryAt(e)
    BY DEF HInv, Histories, Tracked, Undisturbed
  <2>2. WfOf(e).def = GraphOf(e)
    BY GraphKept DEF HInv, RInv, Undisturbed
  <2> QED BY <2>1, <2>2 DEF HistoryAt, IsPath, Follows
<1> QED BY <1>1, HistoryInit, HInvKept, PTL DEF Spec

\* The counters of an execution that stands still are those of its rows, under
\* the same conditions: each handler starts from the stored counters, counts
\* the answer it brings, and stores what it counted with the status.
THEOREM CountsAreRows == Spec => [](Undisturbed => CountsMatchRows)
<1>1. HInv /\ Undisturbed => CountsMatchRows
  <2> SUFFICES ASSUME HInv, Undisturbed, NEW e \in Executions,
                      exec[e].status \in {"paused", "succeeded", "failed"}, ~BusyWith(e)
               PROVE  Tally(exec[e].rows, exec[e].succ, exec[e].fail)
    BY DEF CountsMatchRows, Tally
  <2>1. HistoryAt(e)
    BY DEF HInv, Histories, Tracked, Undisturbed
  <2>2. \A w \in Workers : ~Runs(w, e)
    BY DEF BusyWith, Idle, Runs
  <2> QED BY <2>1, <2>2 DEF HistoryAt, RowFits
<1> QED BY <1>1, HistoryInit, HInvKept, PTL DEF Spec

=============================================================================
