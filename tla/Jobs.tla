-------------------------------- MODULE Jobs --------------------------------
(***************************************************************************)
(* Background jobs: JobsManager (controller/jobs_manager.py), the part of  *)
(* SettingsManager.update_settings that installs and removes workflows     *)
(* (controller/settings_manager.py), their routes (routes/jobs_routes.py)  *)
(* and the rows of workflow_installations and workflow_job_runs.           *)
(*                                                                         *)
(* Who interleaves.  The routes are `async def' without an await, so the   *)
(* event loop runs them one at a time; update_settings is nevertheless     *)
(* several steps here, because the poller thread sees each of its commits  *)
(* and Databricks each of its calls.  The poller is one thread, every run  *)
(* somebody started has a monitor thread.  Databricks starts and ends runs *)
(* on its own, and jobs are deleted there by hand.  A call to Databricks   *)
(* or a database write may raise (faults), the process may die (crashes).  *)
(***************************************************************************)
EXTENDS Naturals, FiniteSets

CONSTANTS
    Workflows,     \* directories under workflows/
    Scheduled,     \* those whose job has a schedule or is continuous
    NoWorkflow,
    MaxJobs,       \* bound: jobs ever created
    MaxRuns,       \* bound: runs ever started
    MaxTroubles    \* bound: calls and writes that raise, and crashes

ASSUME JobsAssumption ==
    /\ Scheduled \subseteq Workflows
    /\ NoWorkflow \notin Workflows
    /\ MaxJobs \in Nat /\ MaxRuns \in Nat /\ MaxTroubles \in Nat

JobIds == 1 .. MaxJobs
NoJob == 0
RunIds == 1 .. MaxRuns
NoRun == 0

\* active: RUNNING or PENDING; closing: TERMINATING; success, failure:
\* TERMINATED with SUCCESS or any other result; error: SKIPPED, INTERNAL_ERROR
RunStatus == {"active", "closing", "success", "failure", "error"}
Terminated == {"success", "failure"}
Over == Terminated \cup {"error"}

VARIABLES
    remote,     \* Databricks: the workflow a job was created for
    nextJob,    \* Databricks: the next job id
    run,        \* Databricks: the runs
    inst,       \* workflow_installations: the job id of each installed workflow
    row,        \* workflow_job_runs
    announced,  \* how often the outcome of a run was announced
    monitor,    \* runs with a live _monitor_job_progress thread
    poller,     \* locals of _poll_job_states
    request,    \* locals of update_settings
    faults, crashes

remoteVars == <<remote, nextJob, run>>
vars == <<remoteVars, inst, row, announced, monitor, poller, request, faults, crashes>>

Run == [job : JobIds \cup {NoJob}, status : RunStatus \cup {"none"}]
JobRunRow == [status : RunStatus \cup {"none"}, notified : BOOLEAN]
Installation == Workflows \X JobIds
NoInstallation == <<NoWorkflow, NoJob>>

Poller ==
    [pc : {"idle", "next", "runs", "announce", "mark"},
     todo : SUBSET Installation,                    \* installations still to poll
     at : Installation \cup {NoInstallation},       \* the one being polled
     fresh : BOOLEAN,   \* no commit yet, so the loaded installations are not expired
     listed : [RunIds -> RunStatus \cup {"none"}],  \* what list_runs answered
     cur : RunIds \cup {NoRun},
     how : {"none", "trigger", "direct", "nothing"}]

Request ==
    [pc : {"idle", "apply", "persist", "unpersist"},
     check : SUBSET Workflows, install : SUBSET Workflows, remove : SUBSET Workflows,
     at : Workflows \cup {NoWorkflow}, job : JobIds \cup {NoJob}]

TypeOK ==
    /\ remote \in [JobIds -> Workflows \cup {NoWorkflow}]
    /\ nextJob \in 1 .. MaxJobs + 1
    /\ run \in [RunIds -> Run]
    /\ inst \in [Workflows -> JobIds \cup {NoJob}]
    /\ row \in [RunIds -> JobRunRow]
    /\ announced \in [RunIds -> Nat]
    /\ monitor \in SUBSET RunIds
    /\ poller \in Poller
    /\ request \in Request
    /\ faults \in Nat /\ crashes \in Nat /\ faults + crashes <= MaxTroubles

NoRow == [status |-> "none", notified |-> FALSE]

NothingListed == [r \in RunIds |-> "none"]
NotPolling == [pc |-> "idle", todo |-> {}, at |-> NoInstallation, fresh |-> TRUE,
               listed |-> NothingListed, cur |-> NoRun, how |-> "none"]
NoRequest == [pc |-> "idle", check |-> {}, install |-> {}, remove |-> {},
              at |-> NoWorkflow, job |-> NoJob]

Init ==
    /\ remote = [j \in JobIds |-> NoWorkflow] /\ nextJob = 1
    /\ run = [r \in RunIds |-> [job |-> NoJob, status |-> "none"]]
    /\ inst = [w \in Workflows |-> NoJob]
    /\ row = [r \in RunIds |-> NoRow]
    /\ announced = [r \in RunIds |-> 0]
    /\ monitor = {}
    /\ poller = NotPolling
    /\ request = NoRequest
    /\ faults = 0 /\ crashes = 0

-----------------------------------------------------------------------------
(* Databricks and the rows *)

Exists(j) == j \in JobIds /\ remote[j] # NoWorkflow
RunsOf(j) == {r \in RunIds : run[r].status # "none" /\ run[r].job = j}

\* Something raises.
Fault == faults + crashes < MaxTroubles /\ faults' = faults + 1
NoFault == UNCHANGED faults

\* A read of a job raises: it is gone, or the call fails.
GetRaises(j) == IF Exists(j) THEN Fault ELSE NoFault

\* get_active_run_id
HasActiveRun(j) == \E r \in RunsOf(j) : run[r].status = "active"

RemoveRowOf(w, j) ==
    IF inst[w] # NoJob
    THEN /\ inst' = [inst EXCEPT ![w] = NoJob]
         /\ row' = [r \in RunIds |-> IF r \in RunsOf(inst[w]) THEN NoRow ELSE row[r]]
    ELSE UNCHANGED <<inst, row>>
\* CRUDBase.remove of an installation row, by its primary key; its job runs
\* go with it (cascade="all, delete-orphan").
RemoveRow(w, j) ==
    IF inst[w] = j
    THEN /\ inst' = [inst EXCEPT ![w] = NoJob]
         /\ row' = [r \in RunIds |-> IF r \in RunsOf(j)
                                     THEN NoRow ELSE row[r]]
    ELSE UNCHANGED <<inst, row>>

NewRun(r, j) ==
    /\ run[r].status = "none"
    /\ \A s \in RunIds : s < r => run[s].status # "none"
    /\ run' = [run EXCEPT ![r] = [job |-> j, status |-> "active"]]

\* A run started by the schedule.
ScheduledRun(r, j) ==
    /\ Exists(j) /\ remote[j] \in Scheduled
    /\ NewRun(r, j)
    /\ UNCHANGED <<remote, nextJob, inst, row, announced, monitor, poller,
                   request, faults, crashes>>

RunProgress(r) ==
    /\ \/ /\ run[r].status = "active"
          /\ \E s \in {"closing", "error"} : run' = [run EXCEPT ![r].status = s]
       \/ /\ run[r].status = "closing"
          /\ \E s \in Terminated : run' = [run EXCEPT ![r].status = s]
    /\ UNCHANGED <<remote, nextJob, inst, row, announced, monitor, poller,
                   request, faults, crashes>>

JobDeletedElsewhere(j) ==
    /\ Exists(j)
    /\ remote' = [remote EXCEPT ![j] = NoWorkflow]
    /\ UNCHANGED <<nextJob, run, inst, row, announced, monitor, poller, request,
                   faults, crashes>>

-----------------------------------------------------------------------------
(* update_settings: what the administrator wants enabled against the rows *)

\* The plan, and the refusal to disable a workflow that runs.  A failing
\* list_runs counts as "not running".
BeginSettings(desired) ==
    LET current == {w \in Workflows : inst[w] # NoJob} IN
    /\ request.pc = "idle"
    /\ IF \E w \in current \ desired : HasActiveRun(inst[w]) THEN Fault ELSE NoFault
    /\ request' = [NoRequest EXCEPT !.pc = "apply", !.check = desired \cap current,
                                    !.install = desired \ current,
                                    !.remove = current \ desired]
    /\ UNCHANGED <<remoteVars, inst, row, announced, monitor, poller, crashes>>

\* Drift: a desired workflow whose job is gone is to be installed again.
Reconcile(w) ==
    /\ request.pc = "apply" /\ w \in request.check
    /\ \/ /\ inst[w] = NoJob \/ Exists(inst[w])
          /\ request' = [request EXCEPT !.check = @ \ {w}]
          /\ UNCHANGED <<inst, row, faults>>
       \/ /\ inst[w] # NoJob
          /\ GetRaises(inst[w])
          /\ RemoveRow(w, inst[w])
          /\ request' = [request EXCEPT !.check = @ \ {w}, !.install = @ \cup {w}]
    /\ UNCHANGED <<remoteVars, announced, monitor, poller, crashes>>

\* install_workflow creates the job ...
CreateJob(w) ==
    /\ request.pc = "apply" /\ request.check = {} /\ w \in request.install
    /\ \/ /\ nextJob \in JobIds
          /\ remote' = [remote EXCEPT ![nextJob] = w]
          /\ nextJob' = nextJob + 1
          /\ request' = [request EXCEPT !.pc = "persist", !.at = w, !.job = nextJob]
          /\ NoFault
       \/ /\ Fault
          /\ request' = [request EXCEPT !.install = @ \ {w}]
          /\ UNCHANGED <<remote, nextJob>>
    /\ UNCHANGED <<run, inst, row, announced, monitor, poller, crashes>>

\* ... and then the row; a failing write is only logged.
PersistInstallation ==
    /\ request.pc = "persist"
    /\ \/ /\ inst' = [inst EXCEPT ![request.at] = request.job]
          /\ NoFault
       \/ Fault /\ UNCHANGED inst
    /\ request' = [request EXCEPT !.pc = "apply", !.install = @ \ {request.at},
                                  !.at = NoWorkflow, !.job = NoJob]
    /\ UNCHANGED <<remoteVars, row, announced, monitor, poller, crashes>>

\* A workflow to remove: its job if Databricks still knows it, else only the
\* row.  When the row is gone too, find_job_by_name looks for a job named by
\* the directory, which no job is.
RemoveWorkflow(w) ==
    LET j == inst[w]
        done == [request EXCEPT !.remove = @ \ {w}] IN
    /\ request.pc = "apply" /\ request.check = {} /\ request.install = {}
    /\ w \in request.remove
    /\ \/ /\ j = NoJob
          /\ request' = done
          /\ UNCHANGED <<remote, inst, row, faults>>
       \/ /\ j # NoJob /\ GetRaises(j)
          /\ RemoveRow(w, j)
          /\ request' = done /\ UNCHANGED remote
       \/ /\ j # NoJob /\ Exists(j)
          /\ remote' = [remote EXCEPT ![j] = NoWorkflow]
          /\ request' = [request EXCEPT !.pc = "unpersist", !.at = w, !.job = j]
          /\ NoFault /\ UNCHANGED <<inst, row>>
       \/ /\ j # NoJob /\ Exists(j) /\ Fault      \* jobs.delete raises
          /\ request' = done
          /\ UNCHANGED <<remote, inst, row>>
    /\ UNCHANGED <<nextJob, run, announced, monitor, poller, crashes>>

\* remove_workflow, after the job is deleted.
DropInstallation ==
    /\ request.pc = "unpersist"
    /\ \/ RemoveRow(request.at, request.job) /\ NoFault
       \/ Fault /\ UNCHANGED <<inst, row>>
    /\ request' = [request EXCEPT !.pc = "apply", !.remove = @ \ {request.at},
                                  !.at = NoWorkflow, !.job = NoJob]
    /\ UNCHANGED <<remoteVars, announced, monitor, poller, crashes>>

EndSettings ==
    /\ request.pc = "apply"
    /\ request.check = {} /\ request.install = {} /\ request.remove = {}
    /\ request' = NoRequest
    /\ UNCHANGED <<remoteVars, inst, row, announced, monitor, poller, faults, crashes>>

-----------------------------------------------------------------------------
(* The routes of jobs_routes.py *)

\* run_job: start the run, then the progress notification and its monitor.
\* When the notification cannot be created the run goes on without either.
StartWorkflow(w, r) ==
    /\ request.pc = "idle"
    /\ Exists(inst[w])
    /\ NewRun(r, inst[w])
    /\ \/ monitor' = monitor \cup {r} /\ NoFault
       \/ Fault /\ UNCHANGED monitor
    /\ UNCHANGED <<remote, nextJob, inst, row, announced, poller, request, crashes>>

\* stop_workflow and cancel_job: cancel_run on Databricks.
CancelRun(r) ==
    /\ request.pc = "idle"
    /\ run[r].status = "active"
    /\ run' = [run EXCEPT ![r].status = "closing"]
    /\ UNCHANGED <<remote, nextJob, inst, row, announced, monitor, poller,
                   request, faults, crashes>>

-----------------------------------------------------------------------------
(* _monitor_job_progress, one thread per started run *)

StopsAtAResult(s) == s \in Terminated
Stops(s) == s \in Over

\* While the run is active the notification keeps saying so, and a closing
\* run has no branch at all: only the end of a run ends the thread.  (The
\* notification itself is left out.)
MonitorEnd(r) ==
    /\ r \in monitor
    /\ Stops(run[r].status)
    /\ monitor' = monitor \ {r}
    /\ UNCHANGED <<remoteVars, inst, row, announced, poller, request, faults, crashes>>

-----------------------------------------------------------------------------
(* _poll_job_states *)

PollBegin ==
    /\ poller.pc = "idle"
    /\ poller' = [NotPolling EXCEPT
                    !.pc = "next",
                    !.todo = {<<w, inst[w]>> : w \in {v \in Workflows : inst[v] # NoJob}}]
    /\ UNCHANGED <<remoteVars, inst, row, announced, monitor, request, faults, crashes>>

\* The row of an installation is still there, or the object was loaded after
\* the last commit and its fields can be read without it.
Readable(i) == inst[i[1]] = i[2] \/ poller.fresh

\* jobs.get raised, whatever the reason: the installation row is removed.
PollCleanUp(i) ==
    /\ poller.pc = "next" /\ i \in poller.todo /\ Readable(i)
    /\ GetRaises(i[2])
    /\ RemoveRow(i[1], i[2])
    /\ poller' = [poller EXCEPT !.todo = @ \ {i}, !.fresh = FALSE]
    /\ UNCHANGED <<remoteVars, announced, monitor, request, crashes>>

\* jobs.get succeeded: list its runs.  When that raises, the next cycle tries again.
PollList(i) ==
    /\ poller.pc = "next" /\ i \in poller.todo /\ Readable(i)
    /\ Exists(i[2])
    /\ \/ /\ poller' = [poller EXCEPT
                    !.pc = "runs", !.todo = @ \ {i}, !.at = i,
                    !.listed = [r \in RunIds |-> IF r \in RunsOf(i[2])
                                                 THEN run[r].status ELSE "none"]]
          /\ NoFault
       \/ Fault /\ poller' = [poller EXCEPT !.todo = @ \ {i}]
    /\ UNCHANGED <<remoteVars, inst, row, announced, monitor, request, crashes>>

Listed == {r \in RunIds : poller.listed[r] # "none"}
Installed(i) == inst[i[1]] = i[2]

AnnounceOnChange(r, s) == s \in Terminated /\ row[r].status # s
AnnounceUnmarked(r, s) == s \in Terminated /\ ~row[r].notified

\* upsert_run, and whether this outcome still has to be announced
PollUpsert(r) ==
    LET s == poller.listed[r] IN
    /\ poller.pc = "runs" /\ r \in Listed /\ Installed(poller.at)
    /\ row' = [row EXCEPT ![r].status = s]
    /\ poller' = [poller EXCEPT
                    !.listed[r] = "none", !.fresh = FALSE, !.cur = r,
                    !.pc = IF AnnounceUnmarked(r, s)
                           THEN "announce" ELSE "runs"]
    /\ UNCHANGED <<remoteVars, inst, announced, monitor, request, faults, crashes>>

\* _create_job_failure_notification and _create_job_success_notification: a
\* workflow triggered (its execution is committed), for a failure else a direct
\* notification (flushed), or nothing: no workflow for a success, or errors
\* that both functions swallow.
PollAnnounce ==
    LET failed == row[poller.cur].status = "failure" IN
    /\ poller.pc = "announce" /\ Installed(poller.at)
    /\ \E how \in {"trigger", "direct", "nothing"} :
         /\ how = "direct" => failed
         /\ IF how = "nothing" /\ failed THEN Fault ELSE NoFault
         /\ announced' = [announced EXCEPT ![poller.cur] =
                            IF how = "trigger" THEN @ + 1 ELSE @]
         /\ poller' = [poller EXCEPT !.pc = "mark", !.how = how]
    /\ UNCHANGED <<remoteVars, inst, row, monitor, request, crashes>>

Unmarked(r) == [row EXCEPT ![r].notified = FALSE]
MarkedInStatus(r) == [row EXCEPT ![r].status = "notified"]
Marked(r) == [row EXCEPT ![r].notified = row[r].status # "none"]

\* mark_as_notified commits the mark and a direct notification together; when
\* it raises, both are left to the next cycle.
PollMark ==
    LET r == poller.cur IN
    /\ poller.pc = "mark"
    /\ \/ /\ announced' = [announced EXCEPT ![r] =
                               IF poller.how = "direct" THEN @ + 1 ELSE @]
          /\ row' = Marked(r) /\ NoFault
       \/ Fault /\ UNCHANGED <<announced, row>>
    /\ poller' = [poller EXCEPT !.pc = "runs", !.how = "none", !.cur = NoRun]
    /\ UNCHANGED <<remoteVars, inst, monitor, request, crashes>>

\* No run is left to process.  (list_runs is an iterator and spent by now, so
\* update_last_polled has no latest run to store.)
PollNext ==
    /\ poller.pc = "runs" /\ Listed = {}
    /\ poller' = [poller EXCEPT !.pc = "next", !.at = NoInstallation, !.cur = NoRun]
    /\ UNCHANGED <<remoteVars, inst, row, announced, monitor, request, faults, crashes>>

\* The row of the installation in hand is gone: reading its fields (or adding
\* a run to it) raises, the handler that logs this raises again, and the
\* iteration ends with installations left.
PollLost ==
    /\ \/ poller.pc = "next" /\ \E i \in poller.todo : ~Readable(i)
       \/ poller.pc = "runs" /\ Listed # {} /\ ~Installed(poller.at)
       \/ poller.pc = "announce" /\ ~Installed(poller.at)
    /\ poller' = NotPolling
    /\ UNCHANGED <<remoteVars, inst, row, announced, monitor, request, faults, crashes>>

PollEnd ==
    /\ poller.pc = "next" /\ poller.todo = {}
    /\ poller' = NotPolling
    /\ UNCHANGED <<remoteVars, inst, row, announced, monitor, request, faults, crashes>>

PollStep ==
    \/ PollBegin \/ PollAnnounce \/ PollMark \/ PollNext \/ PollLost \/ PollEnd
    \/ \E i \in poller.todo : PollCleanUp(i) \/ PollList(i)
    \/ \E r \in RunIds : PollUpsert(r)

-----------------------------------------------------------------------------
\* The process dies and starts again: threads and requests are gone.
\* Monitors are not restarted.
Crash ==
    /\ faults + crashes < MaxTroubles
    /\ crashes' = crashes + 1
    /\ poller' = NotPolling
    /\ request' = NoRequest
    /\ monitor' = {}
    /\ UNCHANGED <<remoteVars, inst, row, announced, faults>>

Next ==
    \/ \E r \in RunIds, j \in JobIds : ScheduledRun(r, j)
    \/ \E r \in RunIds : RunProgress(r) \/ CancelRun(r) \/ MonitorEnd(r)
    \/ \E j \in JobIds : JobDeletedElsewhere(j)
    \/ \E desired \in SUBSET Workflows : BeginSettings(desired)
    \/ \E w \in Workflows : Reconcile(w) \/ CreateJob(w) \/ RemoveWorkflow(w)
    \/ PersistInstallation \/ DropInstallation \/ EndSettings
    \/ \E w \in Workflows, r \in RunIds : StartWorkflow(w, r)
    \/ PollStep
    \/ Crash

\* The poller and the monitors are threads of the process: the operating
\* system runs them, whatever the users and Databricks do.
Fairness ==
    /\ WF_vars(PollStep)
    /\ \A r \in RunIds : WF_vars(MonitorEnd(r))

Spec == Init /\ [][Next]_vars /\ Fairness

-----------------------------------------------------------------------------
(* Properties *)

\* The jobs of Databricks that the application created and lost sight of: not
\* the job of an installation, nor about to be.
Unknown == {j \in JobIds : /\ Exists(j) /\ inst[remote[j]] # j
                           /\ ~(request.pc = "persist" /\ request.job = j)}

\* A call that raises, a failing write and a crash lose sight of one job at the
\* most, and without them none is lost, then or later.  (A poller that works on
\* installations as they were when its cycle began must not take away the row
\* of a job installed since, and the removals that follow a failure must not
\* lose more than it did.)
EveryJobIsKnown == Cardinality(Unknown) <= faults + crashes

\* The outcome of a run is announced once, however often it is polled, unless
\* the process died or a commit failed between the announcement and its mark.
AnnouncedOnce == \A r \in RunIds : announced[r] <= 1 + crashes + faults

\* A run that ended under an installed job.
Ended(r) == run[r].status \in Terminated /\ \E w \in Workflows : inst[w] = run[r].job

\* The poller gets to every run that ended, whatever is installed, removed,
\* deleted or lost while it works on others: the outcome is marked as announced,
\* or the installation is gone and its runs with it.
EndedRunIsSettled == \A r \in RunIds : Ended(r) ~> (row[r].notified \/ ~Ended(r))

\* No thread stays behind to watch a run that is over.
MonitorsEnd == \A r \in RunIds : (run[r].status \in Over) ~> (r \notin monitor)
=============================================================================
