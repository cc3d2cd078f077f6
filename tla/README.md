# Ontos, modelled in TLA+

A verification development for the backend of Ontos (`src/src/backend/src`), a
FastAPI application over PostgreSQL that governs data products, data contracts
and the access to them.  The models are translated from the Python code; where a
comment, a guide or a test says something else, the code wins and the
disagreement is listed under *Findings*.

All paths below are relative to `src/src/backend/src` unless they start with
`src/`.

## 1. Inventory

### How the program runs

One process (`app.py`: one uvicorn without workers).  `async def` routes run on
the event loop and contain no `await` between their database statements, so two
of them never interleave: they are one worker.  `def` routes run on a thread
pool, the jobs manager polls in a daemon thread, scripts and ontology generation
have threads of their own.  Every request has its own SQLAlchemy session
(`common/dependencies.py`); repositories commit after each write, so one handler
is often several transactions, and a crash keeps the ones that were committed.
Nothing is resumed at startup (`utils/startup_tasks.py`).

### Components

| component | state | operations | interacts with | what is hard | what makes it correct |
|---|---|---|---|---|---|
| workflow engine (`common/workflow_executor.py`, `repositories/process_workflows_repository.py`, `routes/workflows_routes.py`) | executions with their step rows, the locals of handlers | execute, resume, handle-approval, cancel, retry, delete, bulk delete | definitions, notifications, entity statuses | several commits per handler, threads against the event loop, a person's answer days later, crashes | what is paused can be answered; history, counters and status agree; nothing is run twice or comes back |
| workflow definitions (`controller/workflows_manager.py`) | workflows, steps | create, update, toggle, duplicate, delete, match a trigger | engine | edits under running executions | a step row refers to a step that exists |
| approval notifications (`controller/notifications_manager.py`) | notifications | create, read, handle, delete | engine, wizard | marked after the fact | one live request per pending approval |
| product and contract lifecycle (`models/lifecycle.py`, `controller/data_products_manager.py`, `controller/data_contracts_manager.py`) | status, certification, publication, versions | transition, request review, publish, deploy, certify, clone | engine (gate before, trigger after, completion) | the engine writes the status too | only allowed changes; no approval, no activation |
| access grants (`controller/access_grants_manager.py`) | requests, grants, allowed durations | request, approve, deny, withdraw, revoke, expire | notifications, engine | checks and writes days apart, time | one claim per user and asset; access ends |
| agreement wizard (`controller/agreement_wizard_manager.py`) | sessions, agreements | start, submit a step, complete, abort | definitions, delivery | steps submitted twice or out of order | one agreement per completed session |
| jobs manager (`controller/jobs_manager.py`, `controller/settings_manager.py`) | installations, job runs | install, remove, reconcile, run, cancel, poll, monitor | Databricks, engine | the poller thread against the settings route, both several commits; calls that raise | no job is lost sight of; every finished run is announced, once |
| delivery (`controller/delivery_service.py`, `controller/grant_manager.py`, `common/git.py`) | delivery modes, pending Git changes | deliver in each mode | workspace, Git | one mode of several fails | each mode is tried, failures are reported |
| asset reviews (`controller/data_asset_reviews_manager.py`) | review requests, reviewed assets | create, delete (the two routes that decide raise a `TypeError` at every call: they pass `status_update=` and `asset_update=`, the methods take `update_data`) | MDM, engine (on threads) | others refer to assets without a foreign key | what is referred to exists |
| master data management (`controller/mdm_manager.py`, the script `mdm_match_detect`) | match runs, candidates, merged records, links to reviewed assets | start a run, find, review, decide, merge, dry run | Databricks, asset reviews | a handler commits once per candidate, the job writes beside it | links lead to assets that exist; what a reviewer entered is kept |
| ontology generator (`controller/ontology_generator_manager.py`) | runs and their threads, cancel events in memory | start, cancel, delete, the agent's thread | LLM | the cap is counted before it is used; a cancellation races the start and the end of the thread | a cancelled run leaves no result; every run ends |
| compliance (`common/compliance_dsl.py`) | policies, runs | evaluate | engine (validation, policy check) | precedence, missing attributes | the value of a rule |
| authorization (`common/authorization.py`) | roles, overrides | merge permissions | every route | overrides, team roles | the effective level |
| certification (`controller/certification_propagator.py`, the certify routes) | levels, inherited levels | certify, decertify, propagate | relationships, engine | a walk through relationships that change, committed after the level | what is certified arrives below, and nothing else |
| versions (`common/version_visibility.py`, `utils/*_change_analyzer.py`) | version families | show, classify | lifecycle | drafts | drafts are private |

The rest is CRUD over single rows, a proxy of Databricks or a graph rebuilt from
the database, and has no protocol to check: projects and teams, RDF graphs,
assets, domains, tags, comments, search, roles and templates, LLM and Genie,
connectors, the other Databricks scripts and the frontend.  `PROJECT.json` lists
every one with the reason, and every hazard at its line.

## 2. What is modelled

| module | what it is |
|---|---|
| `Lifecycle` | entity statuses and the table of allowed changes |
| `WorkflowEngine` | the engine with its administration, approvals, completion, definitions and crashes |
| `MCWorkflowEngine` | step graphs and instances for TLC |
| `WorkflowEngineProofs` | theorems about `WorkflowEngine` |
| `AccessRights` | what the access-grants component promises, as a specification |
| `AccessGrants` | the component: requests, grants, durations, time |
| `MCAccessGrants` | instance for TLC |
| `AccessGrantsProofs` | theorems about `AccessGrants`, and that it implements `AccessRights` |
| `Jobs` | the jobs manager, its poller and monitors, the settings route that installs workflows, Databricks |
| `MCJobs` | instance for TLC |
| `JobsProofs` | theorems about `Jobs` |
| `AgreementWizard` | wizard sessions and agreements |
| `Mdm` | master data management with its Databricks job and the reviews it makes |
| `Certification` | certification levels, their propagation, relationships |
| `MCServices` | instances of these three for TLC |
| `AgreementWizardProofs`, `MdmProofs`, `CertificationProofs` | theorems about each |
| `ServicesProofs` | their composition implements each of them |
| `OntologyRuns` | background runs of the ontology generator |
| `MCOntologyRuns` | instance for TLC |
| `OntologyRunsProofs` | theorems about `OntologyRuns` |

### WorkflowEngine

*An action is one commit.*  A handler of the code is a record in `handler[w]`:
the place it reached (`at`), the execution, the step to run, the local counters
and `final_status`.  `Loop` is the event loop, `Threads` are the thread-pool
workers and pollers.  Data-product triggers are all fired by `async def` routes,
so a thread starts executions only for entities the completion ignores
(`NoEntity`): asset reviews and jobs.

| state | code |
|---|---|
| `exec[e]` | `workflow_executions` row and its `workflow_step_executions` (`rows`; `decision` marks the row `resume_workflow` adds); deleted rows stay `"deleted"` since ids are uuid4 |
| `wf[f]` | `process_workflows` row and its steps; `ver` changes when the step rows are replaced |
| `note[<<e, s, u>>]` | `workflow_approval` notification of step `s` for approver `u`; a repeated request of the same step replaces the earlier one |
| `entity[x]` | status of a data product |
| `used` | what the environment has spent of its bounds; `revived` is history: the executions retried after a cancellation |

| actions | code |
|---|---|
| `FireTrigger`, `ExecuteManually` | `execute_workflow` creates a row (commit) and enters its loop |
| `RunStep`, `ApprovalFails`, `RequestApproval`, `RecordFails` | one turn of the loop up to `add_step_execution`'s commit; notifications are only flushed before it, hence the same commit |
| `Pause`, `Finish` | `update_status`, which writes only if the row exists |
| `ResumeRoute`, `HandleApproval`, then the loop, `Complete`, `MarkHandled` | `resume_workflow`: the answer's row is a commit of its own while the status stays `paused` |
| `Cancel`, `CommitCancel` | the status is read, then written |
| `Retry`, `Reexecute` | `reset_for_retry`, then `execute_workflow` with the old row |
| `DeleteExecution`, `DeleteBulk`, `EditWorkflow`, `ToggleActive`, `DeleteWorkflow` | the repositories, with `ON DELETE CASCADE` |
| `MarkRead`, `TransitionStatus` | the rest of the application, as far as it writes the same rows |
| `Crash` | all handlers are lost, all commits are kept |

Abstractions.  What a step does outside the execution (tags, webhooks, scripts,
policies) is its pass or fail.  The *Step not found* branch is unreachable for a
graph that passed `validate_workflow` and is left out; the YAML loader does not
validate, so the model is about workflows made through the API.  A trigger's
workflows are matched once and run one after the other; here each is an
execution that may start when its workflow is active.  Deletion of notifications
by an administrator, role membership and the wizard data merged into an answer
are left out, and so is creating workflows, which nothing refers to yet.
`TransitionStatus` is the write of an allowed status; the workflows fired before
and after it are executions like any other, and the gate belongs to the planned
`EntityLifecycle`.  `Retry` is one action, although its check and its write are
two statements.

### AccessGrants

Every route of the component is an `async def` with one commit after its checks,
so a handler is one action.  `request` and `grant` are the tables, `config` the
allowed durations of the assets' type (all of them without a row), `now` the day.
`Approve` takes any duration, as `handle_request` does.  `ProcessExpirations` is
`check_and_process_expirations`, whose comment expects a background job that the
repository does not have; no property needs it.  Renewal settings are stored and
never read, so they have no action.  Notifications and the workflows a handler
fires after its commit are not part of the model.

`AccessRights` says what a user may rely on: for each user and asset a right
that is nobody's, asked for or held; it is asked for before it is held, decided
once, and ends.  `AccessGrants!Rights` computes it from the tables:
a pending request is *asked*, a live grant is *held*.  The mapping is an
implementation only because of `OneClaim`: with two live grants a revocation
would end nothing, with a pending request beside a grant the right would be both.

### Jobs

`remote` and `run` are Databricks' own tables, `inst` is
`workflow_installations`, `row` is `workflow_job_runs` with `notified_at`,
`announced` counts the notifications of an outcome.  `poller` and `request` are
the locals of `_poll_job_states` and `update_settings`, one record each since
there is one daemon thread and one event loop; `monitor` is the set of threads
of `_monitor_job_progress`.

| actions | code |
|---|---|
| `BeginSettings`, `Reconcile`, `CreateJob`, `PersistInstallation`, `RemoveWorkflow`, `DropInstallation`, `EndSettings` | `update_settings`: the reconciliation, then one workflow after the other; the job is created or deleted first and the row committed after it |
| `StartWorkflow`, `CancelRun`, `MonitorEnd` | `run_job` with its monitor thread, `cancel_run`; a monitor stops at `TERMINATED`, `SKIPPED` and `INTERNAL_ERROR` |
| `PollBegin`, `PollCleanUp`, `PollList`, `PollUpsert`, `PollAnnounce`, `PollMark`, `PollNext`, `PollLost`, `PollEnd` | one cycle of the poller: installations read at its start, jobs that are gone cleaned up, runs listed and stored, outcomes announced, then marked, each a commit of its own |
| `ScheduledRun`, `RunProgress`, `JobDeletedElsewhere` | Databricks, external |
| `Crash` | threads and locals are lost |

What the code does and the model keeps, because the properties depend on it: any
exception of `jobs.get` counts as a deleted job; `list_runs` returns an iterator
that is spent when `last_polled_at` should be computed from it, so nothing is
stored; a failing `list_runs` reads as *not running*; `find_job_by_name` never
matches what was created.  Left out: pausing, `update_workflow`, parameters,
the progress notification, sessions.

### AgreementWizard, Mdm, Certification

These routes are coroutines without an await, so each module has *one* handler
record (`submit`, `handler`, `walk`) that stands between two commits, and an
interruption (`Interrupt`, `MdmInterrupt`, `CertInterrupt`: the handler raises or
the process dies) that loses it.  What runs on threads or outside
(reviews, relationships, workflow steps, the Databricks job) steps in between.

*AgreementWizard.*  `session` is `agreement_wizard_sessions` with its snapshot
(`shown`, `version`), `agreement` is `agreements`, `form` the live workflow.
`SubmitStep`, `AppendResult`, `AdvanceSession` and `SettleAgreement`,
`Subscribe`, `Deliver`, `CloseSession` are the commits of `submit_step` and
`_complete_session`; `EditForm` and `DeleteForm` change the workflow under a
session (deletion cascades to sessions, agreements stay).  Payloads, the PDF and
`on_behalf_of` are left out.  A step is an input, `persist_agreement` or a pass;
`next` is its `on_pass`, and `branches` are the steps with an `on_fail`, which the
wizard never follows, but which keeps a pass step from being taken for the end
(`Ends`).

*Mdm.*  `candidate` has the status, who made the merged record (a set of
survivorship rules or the reviewer) and the linked asset; `job` is the Databricks
run, external: it commits its candidates in batches, two for each source
(`JobSaves`), so people work on a part of them.  `create_review_for_matches` pairs assets and candidates by
position in two lists of independent order, so the pairing is any injection;
it links them one commit at a time (`LinkCandidate`, `LinkFails`).
`MergeApproved` of a dry run persists what it computed, as the code does.
Source links, matching rules and statistics are left out.

*Certification.*  `walk` is `propagate_certification`: the breadth-first queue,
the visited set and the levels written and not committed.  Datasets have no
table in `ENTITY_TABLE_MAP`: they forward a level and store none.  A
contract certified through `handle-certify`, and every decertification, is not
propagated.  `earned`, `linked` and `owed` are history: the levels given, the
relationships there ever were, and what the walk has to bring about (the level it
began with, and the relationships that have been there since).  `propagate_all` has no caller,
and the status an entity must have to be certified is left out: any product or
contract may have it.

### OntologyRuns

One user.  `starter` holds the start requests, which are synchronous routes on
threads: counting, creating and registering are three steps.  `agent[r]` is the
thread of a run from `Begin` to `Leave`; `registered` and `signal` are
`_cancel_events`; `canceller` is the cancel route between its signal and its
commit.  `Raise`, `Rescue` and `LoseCommit` are the error paths of the thread,
`ThreadFails` that of the starter, `Crash` loses all threads and events.
`cancelled` and `heard` are history.  What the agent generates is its outcome.

## 3. Checks

Runs take from seconds to three minutes with two TLC workers.

| run | instance | what it shows |
|---|---|---|
| `engine` | one event loop; a review (validation, two approvals) and a publication (validation) for one product; one retry, one status change by hand | `PausedIsAnswerable`, `HistoryFollowsGraph`, `TerminalStepSettles`, `CountsMatchRows`, `FinishedIffTerminal`, `ActiveOnlyIfApproved`; every handler returns (`LoopReturns`) and no execution stays running (`RunningSettles`) |
| `engine_faults` | the event loop and a thread, one execution with an approval; one crash, one edit, toggle or deletion of the workflow, one retry | `PausedIsAnswerable`, `OneRunnerPerExecution`, `DeletedStaysDeleted` |
| `access_grants` | two users, one asset, three requests, two grants of one or two days within two days | `OneClaim`, `GrantPerApproval`, `DecidedIsFinal`, `AccessEnds`, and the implementation of `AccessRights` |
| `jobs` | two workflows, one scheduled; two jobs, one run, one fault or crash | at most one job is lost for each failure (`EveryJobIsKnown`), `AnnouncedOnce`; a run that ended is settled (`EndedRunIsSettled`), monitors end (`MonitorsEnd`) |
| `services` | three parts that share nothing, so each behaviour runs one of them (`focus`): two signers, two sessions, three agreements, two definitions; one match run, two candidates, two reviews; a diamond of four entities, two levels; one interruption, one edit, one change of relationships | `WalksWhatWasShown`, `OneAgreementPerSession`, `CompletedIsSigned`; `LinksAreSound`, `ReviewerDataKept`; `LevelsArrive` |
| `ontology` | three runs, two concurrent starts, cap 1, one cancellation, one fault | `CapHolds`, `CancelledInTime`; every run ends (`RunsEnd`) |
| `bare_approval`, `second_approver`, `cancel_race`, `retired`, `revoke_expired`, `consent` | an instance that shows the finding | one property each, violated |

*Bounds.*  `MaxCrashes`, `MaxEdits`, `MaxMoves`, `MaxRetries`, `Horizon`,
`MaxTroubles`, `MaxInterrupts`, `MaxMdmInterrupts`, `MaxCertInterrupts`,
`MaxFormVersion`, `MaxLinkChanges`, `MaxCancelled` and `MaxFaults` bound the
environment, `MaxJobs` and `MaxRuns` the ids of Databricks; none bounds a handler.  One crash, edit or retry is enough for the
properties here: each relates one execution to one interruption, and after the
interruption the state is again one that the interruption could have met.  Two
approvals in a row are needed since counters and notifications are carried from
one pause to the next; three requests and two grants so that a user can ask
again after losing a request and after losing a grant.  Two workflows and two
jobs let one be installed or removed while the poller works on the other, and
let a workflow be installed again; the poller handles runs one by one, so one
run meets every interleaving, and `JobsProofs` covers any number.  The cap of the
generator is 1 where the code has 3: with two requests it is exceeded as far as
it can be, and the theorem is about any cap.  The definitions of the wizard have
a `persist_agreement` step before the end, and none but a pass step with an
`on_fail` at the end; a cycle, or two steps that persist,
would make several agreements on purpose.  In the diamond a level reaches the
contract by two ways, one through an entity without a table.  `services` uses
symmetry in interchangeable ids, which is sound as it checks no liveness.

*Faults are split from the first run on purpose*: after an edit or a crash the
history, the counters and liveness are not claimed, because the code does not
keep them (an edit deletes step rows by cascade, a crash leaves `running` and
lets an answer be given twice); section 4 says which of them survive a crash.
`FinishedIffTerminal` and `TerminalStepSettles` are claimed for graphs whose
approvals have branches, since the code breaks them otherwise (first finding).

*Fairness.*  Weak fairness of the next commit of each worker: handlers are
straight-line code that a scheduler runs to the end.  Nothing is assumed of
people and administrators.  In `AccessGrants`, time passes.  In `Jobs` the poller
and the monitors are loops in daemon threads: each takes its next step; requests
and Databricks owe nothing.  In `OntologyRuns` a request that has a row starts its
thread, a thread goes on, and a cancel route commits; nobody has to start or
cancel anything.  `services` states no fairness.

*Deadlock* is not checked: when executions, requests, ids and bounds are used
up, the system rests.

### Findings

1. `bare_approval`: an approval with NULL branches, which the validator accepts,
   ends with status `running` and `finished_at` set; the completion is told that
   it did not succeed, and an approved product returns to draft.
2. `second_approver`: after an answer, *all* unread approval notifications of
   the execution are marked handled, also those of the next approval.
3. `cancel_race`: a thread writes its result over `cancelled`.
4. `retired`: the completion of a review writes the status whatever it is by
   then, so a retired product becomes active or draft.
5. `revoke_expired`: a grant that has expired can still be revoked, which
   rewrites how it ended.
6. `consent`: an agreement records the *live* version of the workflow beside the
   snapshot its session showed, so who began before an edit and signed after it
   counts as having signed the new version.

## 4. Proofs

Checked by TLAPS for every value of the constants that satisfies the named
assumptions (`IdAssumption`, `DefinitionAssumption`, `BoundAssumption`,
`GrantAssumption`, `JobsAssumption`, `WizardAssumption`, `MdmAssumption`,
`CertificationAssumption`, `OntologyAssumption`), in particular for any number of threads, crashes, edits,
retries, users and days.

| theorem | statement | argument |
|---|---|---|
| `WorkflowEngineProofs!TypeCorrect` | `Spec => []TypeOK` | `TInv`: types, and a handler that stands at a step or a pause has one |
| `PausedAnswerable` | `Spec => []PausedIsAnswerable` | `AInv` adds `PauseWasRequested`: a handler between the commit of its request and the commit of `paused` has already notified somebody, and notifications are never withdrawn |
| `OneRunner` | `Spec => []OneRunnerPerExecution` | `RInv`: what a handler runs is alive (`RunnersAlive`), and an execution is taken over only when nobody runs it: a trigger takes a fresh row, a resume a paused one, a retry one that has ended (`RunnableBy`) |
| `DeletedStays` | `Spec => DeletedStaysDeleted` | `DInv`: the handlers that write without looking, `CommitCancel` and `Reexecute`, are on the event loop, and so is whoever deletes (`ShortHandlersHold`) |
| `ActiveNeedsApproval` | `Spec => []ActiveOnlyIfApproved` | `LInv` adds what the event loop guarantees: executions of a data product are never on a thread (`ThreadsElsewhere`), an execution served on the loop is running or paused while a handler runs or cancels it (`LoopHolds`), and a completion about to activate belongs to an execution that has succeeded (`CompletionHolds`) |
| `LoopOverStays`, `CancelSticksOnLoop` | `Spec => LoopOverStaysOver`; `Spec => CancelSticks` where every execution is on the loop | `LoopHolds`: no handler of an execution that is over is left to write |
| `RunsSettle`, `FinishedIsTerminal`, `HistorySettles` | `Spec => []SInv`; `[](used.edits = 0 => FinishedIffTerminal)` and the same for `TerminalStepSettles` | `SInv`: `Unedited` and, for each execution, `SettledAt`: it pauses only at approvals, so with both branches an answer never ends the run, and it reaches the end with the outcome of the row it has just recorded |
| `HistoryIsPath`, `CountsAreRows` | `[](Undisturbed => HistoryFollowsGraph)`, `[](Undisturbed => CountsMatchRows)` | `HInv`: for each execution its rows are a path; whoever runs it has counted them (`Tally`) and stands where they lead (`RunnerFits`), and with no runner the row itself holds the counters and the step that awaits its answer (`RowFits`) |
| `AccessGrantsProofs!GrantsTypeCorrect`, `OneClaimAlways`, `GrantPerApprovalAlways` | the invariants of `access_grants` | `GInv`, their conjunction: `OneLive` alone is not inductive, since `handle_request` does not look for a live grant; `PendingExcludesLive` makes it so |
| `DecisionsKept` | `Spec => DecidedIsFinal` | by cases on the handlers, from the types |
| `RightsImplemented` | `Spec => ImplementsRights` | each handler is a step of `AccessRights` for one pair, a day ends the rights that expire on it, the rest stutters |
| `JobsProofs!JobsTypes`, `NoJobIsLost`, `OutcomesAnnouncedOnce` | types, `EveryJobIsKnown`, `AnnouncedOnce` | each step that fails loses sight of one job at the most, every other of none (`LosesAtMostOne`).  `JInv`, from which that follows: job ids are given out in order and belong to one installation each (`Allocated`), what the settings request has still to do fits the rows and Databricks (`PlanFits`), the run in the poller's hand runs under the installation in its hand (`HandFits`), and an announcement is marked, about to be marked, beyond the poller's reach, or excused by a fault or a crash (`Excused`) |
| `AgreementWizardProofs!WizardTypes`, `WalksWhatWasShownAlways`, `CompletedIsSignedAlways` | types, `WalksWhatWasShown`, `CompletedIsSigned` | `WInv`: a session in progress stands behind its last result, or on it after an interruption (`InProgressStandsBehind`); the handler's session is in progress and ends where the workflow ends (`HandlerStands`); agreements named by results belong to the session (`OwnAgreements`) |
| `OneAgreementAlways` | `[]OneAgreementPerSession`, for `Straight` definitions | `OInv` adds: a session in progress with more agreements than interruptions is beyond its `persist_agreement` step, by a rank of the steps, and one of its results names an agreement, or the handler stands in between (`SpentIsKept`), so neither that step nor its end creates another; a session that can still begin has none (`NotBegun`); and an agreement is announced in the last steps of its session (`AnnouncedLast`) |
| `ServicesProofs!ServicesImplementParts`, `ServicesTypes`, `ServicesKeep`, `ServicesOneAgreement` | `ServicesSpec => WizardSpec /\ MdmSpec /\ CertSpec`, and so what is proved of each | a step of the composition is a step of one part and leaves the variables of the others alone |
| `MdmProofs!MdmTypes`, `LinksAreSoundAlways`, `ReviewerDataAlwaysKept` | types, `LinksAreSound`, `ReviewerDataKept` | `MInv` adds `EmptyRows` (a row that is not there has no merged data) and `LinkPlan` (the links a handler has still to write lead to different assets of one review, linked to nobody, and stored together or not at all); the action property by cases |
| `CertificationProofs!CertTypes`, `InheritedIsEarnedAlways`, `LevelsArriveAlways` | types, `InheritedIsEarned`, `LevelsArrive` | `CInv`: a level an entity has was given to it (`Awarded`), and what the queue brings or the walk has written was earned above (`WalkEarned`); what is downstream only grows with the history of relationships.  `AInv` adds what the walk owes (`WalkOwes`): whatever a kept relationship leads to from the source or from a visited entity is visited or in the queue with at least the level, and visited entities with a table have it written, so an empty queue means that everything below was visited |
| `OntologyRunsProofs!OntologyTypes`, `CapHoldsAlways`, `CancelledInTimeAlways` | types, `CapHolds`, `CancelledInTime` | `OInv`: active runs and requests that have counted and not created yet stay under the bound together (`CapInv`, by cardinalities), a run whose thread has not begun is in the hands of one request (`StartsInOrder`), only requests cancel (`CancelledByRequest`), and a signal given in time stays until the thread has judged (`SignalKept`) |

*What the engine's theorems assume, and why.*  None of the hypotheses is on the
number of threads, approvers, cancellations or retries; each marks where the code
stops keeping the property.

- `OnLoop(e)`: the execution is of a data product, or no thread fires triggers.
  A thread and a cancel on the loop race for the row (finding 3), so
  `FinishedIsTerminal` and `HistorySettles` are about executions on the loop;
  `RunsSettle` says it execution by execution, whatever threads do to others.
- `Branched`: an approval has both branches (finding 1).
- `used.edits = 0`: an edit deletes the step rows of the executions by cascade,
  and a handler goes on with the graph it has read.
- `Undisturbed` for the history and the counters: besides, nothing crashed, since
  after a crash between the commit of an answer and the commit of what it leads
  to the row is still paused and the request is answered again; and no execution
  was retried after a cancellation that its thread was not told of
  (`used.revived`), since then two workers write its rows.
  `ActiveNeedsApproval` needs none of this, nor do `FinishedIsTerminal` and
  `HistorySettles` exclude crashes: what a crash leaves is neither over nor
  finished.

`Straight` says that the steps of a definition are ordered and that one of them
at most persists the agreement.  `RunFormsAreStraight` proves it of the two
definitions of the run.

Each inductive invariant was model-checked on the instances of `engine`,
`engine_faults` and `services` before it was proved.

Only model-checked: liveness (`LoopReturns`, `RunningSettles`, `AccessEnds`,
`EndedRunIsSettled`, `MonitorsEnd`, `RunsEnd`), out of the prover's reach.  Every
safety property of the passing runs is a theorem.

## 5. Plan

Done: the engine, access grants, jobs, the wizard, MDM, certification and the
ontology runs.  Next, in this order:

1. `EntityLifecycle`, composed of the lifecycle tables, `transition_status` with
   its gate, the requests for review, publication and deployment, and the
   completions, for products and contracts: allowed changes only; a failing gate
   blocks (it does not: `step_results` is missing on the execution);
   `publish_product` activates without a new approval.
2. `ExecutionLifecycle`: the abstract life of an execution (created, suspended,
   answered, settled, cancelled, retried, deleted), implemented by
   `WorkflowEngine`, with the step simulation proved.
3. Proofs: `RunsSettle` for executions on threads that nobody cancels; what a
   crash costs the history (one answer more for each).
4. `Delivery`: modes and partial failure.
5. Pure algorithms against a reference definition: the compliance DSL, merged
   permissions, the visibility of versions and the classification of changes.

## 6. Not modelled

- *Rows without a protocol* (projects and teams, roles, templates, domains, tags,
  comments, assets): one handler, one commit, no reader that relies on two of them.
- *Views and proxies* (search, catalogs, metadata, Genie, LLM and MCP endpoints,
  connectors): they keep nothing the application relies on.
- *Graphs and generated content* (RDF graphs of the semantic models, what the
  ontology agent writes, contract and product documents in ODCS and ODPS form):
  data, rebuilt or stored as it is; most of the lines of the repository are of
  this kind, or map such data between the database and the API.
- *Decisions on reviewed assets*: both routes raise at every call, see section 1.
- *Time limits that nothing enforces* (`timeout_days`, renewals, the expiry of
  certificates): stored and shown, read by no code that acts on them.
- *Sessions and token refresh*: a commit is atomic here.
- *The frontend*: it holds no state the backend relies on.
