----------------------------- MODULE JobsProofs -----------------------------
(***************************************************************************)
(* Proofs about Jobs, for any workflows and any number of jobs, runs and   *)
(* troubles: its types, every job is known, and outcomes are announced     *)
(* once.                                                                   *)
(***************************************************************************)
EXTENDS Jobs, FiniteSetTheorems, TLAPS

\* Job ids are given out in order, and each is the job of one installation.
Allocated ==
    /\ \A j \in JobIds : j >= nextJob => remote[j] = NoWorkflow
    /\ \A w \in Workflows : inst[w] < nextJob
    /\ \A w, v \in Workflows : inst[w] = inst[v] /\ inst[w] # NoJob => w = v
    /\ \A r \in RunIds : run[r].job < nextJob
    /\ \A r \in RunIds : run[r].status # "none" => run[r].job \in JobIds
    /\ request.pc = "persist" => /\ request.job \in JobIds /\ request.job < nextJob
                                 /\ \A w \in Workflows : inst[w] # request.job

\* What update_settings has still to do fits the rows and Databricks.
PlanFits ==
    /\ \A w \in request.install : inst[w] = NoJob
    /\ request.pc = "persist" =>
          request.at \in request.install /\ remote[request.job] \in {request.at, NoWorkflow}
    /\ request.pc = "unpersist" => request.at \in Workflows /\ ~Exists(request.job)

Troubles == faults + crashes

\* No installation will ever hold the job of this run again.
Gone(r) ==
    /\ \A w \in Workflows : inst[w] # run[r].job
    /\ request.pc = "persist" => request.job # run[r].job

\* The run in the poller's hand runs under the installation in its hand.
HandFits ==
    /\ \A r \in RunIds : poller.listed[r] # "none" =>
          run[r].status # "none" /\ run[r].job = poller.at[2]
    /\ poller.pc \in {"announce", "mark"} =>
          /\ poller.cur \in RunIds /\ run[poller.cur].status # "none"
          /\ run[poller.cur].job = poller.at[2]
          /\ row[poller.cur].status # "none" \/ Gone(poller.cur)

\* An announcement beyond what troubles excuse is marked, can be marked by
\* the poller's next step, or belongs to a run nobody polls any more.
Excused ==
    /\ \A r \in RunIds : run[r].status = "none" => announced[r] = 0
    /\ \A r \in RunIds :
          /\ announced[r] <= Troubles + 1
          /\ \/ announced[r] <= Troubles
             \/ row[r].notified
             \/ Gone(r)
             \/ poller.pc = "mark" /\ poller.cur = r /\ poller.how = "trigger"
    /\ \/ poller.pc = "announce"
       \/ poller.pc = "mark" /\ poller.how # "trigger"
       => announced[poller.cur] <= Troubles

JInv == TypeOK /\ Allocated /\ PlanFits /\ EveryJobIsKnown /\ HandFits /\ Excused

-----------------------------------------------------------------------------
(* Types *)

LEMMA JobsInitTyped == Init => TypeOK
BY JobsAssumption DEF Init, TypeOK, Run, JobRunRow, Poller, Request, RunStatus, NoRow, NotPolling,
   NothingListed, NoInstallation, NoRequest, NoJob, NoRun, Installation, JobIds, RunIds

LEMMA RemoveRowTyped ==
    ASSUME TypeOK, NEW w \in Workflows, NEW j \in JobIds \cup {NoJob}, RemoveRow(w, j)
    PROVE  /\ inst' \in [Workflows -> JobIds \cup {NoJob}]
           /\ row' \in [RunIds -> JobRunRow]
<1>1. NoRow \in JobRunRow
  BY DEF NoRow, JobRunRow
<1>2. CASE inst[w] = j
  BY <1>1, <1>2 DEF TypeOK, RemoveRow, NoJob
<1>3. CASE inst[w] # j
  BY <1>3 DEF TypeOK, RemoveRow
<1> QED BY <1>2, <1>3

LEMMA FaultTyped ==
    ASSUME TypeOK, UNCHANGED crashes, Fault \/ NoFault
    PROVE  faults' \in Nat /\ crashes' \in Nat /\ faults' + crashes' <= MaxTroubles
BY JobsAssumption DEF TypeOK, Fault, NoFault

\* The steps of update_settings.
LEMMA SettingsTyped ==
    ASSUME TypeOK,
           \/ \E d \in SUBSET Workflows : BeginSettings(d)
           \/ \E w \in Workflows : Reconcile(w) \/ CreateJob(w) \/ RemoveWorkflow(w)
           \/ PersistInstallation \/ DropInstallation \/ EndSettings
    PROVE  TypeOK'
<1> USE DEF remoteVars
<1>a. request \in Request /\ inst \in [Workflows -> JobIds \cup {NoJob}]
  BY DEF TypeOK
<1>b. /\ row \in [RunIds -> JobRunRow] /\ remote \in [JobIds -> Workflows \cup {NoWorkflow}]
      /\ nextJob \in 1 .. MaxJobs + 1
  BY DEF TypeOK
<1>1. ASSUME NEW d \in SUBSET Workflows, BeginSettings(d) PROVE TypeOK'
  <2>1. request' \in Request
    BY <1>1 DEF BeginSettings, Request, NoRequest, NoJob
  <2>2. UNCHANGED crashes /\ (Fault \/ NoFault)
    BY <1>1 DEF BeginSettings
  <2> QED BY <1>1, <2>1, <2>2, FaultTyped DEF BeginSettings, TypeOK
<1>2. ASSUME NEW w \in Workflows, Reconcile(w) PROVE TypeOK'
  <2>1. request' \in Request
    <3>1. \/ request' = [request EXCEPT !.check = @ \ {w}]
          \/ request' = [request EXCEPT !.check = @ \ {w}, !.install = @ \cup {w}]
      BY <1>2 DEF Reconcile
    <3>2. /\ request.check \ {w} \in SUBSET Workflows
          /\ request.install \cup {w} \in SUBSET Workflows
      BY <1>a DEF Request
    <3>3. CASE request' = [request EXCEPT !.check = @ \ {w}]
      BY <1>a, <3>2, <3>3 DEF Request
    <3>4. CASE request' = [request EXCEPT !.check = @ \ {w}, !.install = @ \cup {w}]
      BY <1>a, <3>2, <3>4 DEF Request
    <3> QED BY <3>1, <3>3, <3>4
  <2>2. /\ inst' \in [Workflows -> JobIds \cup {NoJob}]
        /\ row' \in [RunIds -> JobRunRow]
    BY <1>2, <1>a, <1>b, RemoveRowTyped DEF Reconcile
  <2>3. UNCHANGED crashes /\ (Fault \/ NoFault)
    BY <1>2 DEF Reconcile, GetRaises, NoFault
  <2> QED BY <1>2, <2>1, <2>2, <2>3, FaultTyped DEF Reconcile, TypeOK
<1>3. ASSUME NEW w \in Workflows, CreateJob(w) PROVE TypeOK'
  <2>1. request' \in Request
    <3>1. \/ /\ nextJob \in JobIds
             /\ request' = [request EXCEPT !.pc = "persist", !.at = w, !.job = nextJob]
          \/ request' = [request EXCEPT !.install = @ \ {w}]
      BY <1>3 DEF CreateJob
    <3> QED BY <1>a, <3>1 DEF Request
  <2>2. /\ remote' \in [JobIds -> Workflows \cup {NoWorkflow}]
        /\ nextJob' \in 1 .. MaxJobs + 1
    <3>1. \/ nextJob \in JobIds /\ remote' = [remote EXCEPT ![nextJob] = w]
                               /\ nextJob' = nextJob + 1
          \/ remote' = remote /\ nextJob' = nextJob
      BY <1>3 DEF CreateJob
    <3> QED BY <1>b, <3>1, JobsAssumption DEF JobIds
  <2>3. UNCHANGED crashes /\ (Fault \/ NoFault)
    BY <1>3 DEF CreateJob
  <2> QED BY <1>3, <2>1, <2>2, <2>3, FaultTyped DEF CreateJob, TypeOK
<1>4. ASSUME PersistInstallation PROVE TypeOK'
  <2>1. request' \in Request
    <3>1. request' = [request EXCEPT !.pc = "apply", !.install = @ \ {request.at},
                                     !.at = NoWorkflow, !.job = NoJob]
      BY <1>4 DEF PersistInstallation
    <3> QED BY <1>a, <3>1 DEF Request
  <2>2. inst' \in [Workflows -> JobIds \cup {NoJob}]
    BY <1>4, <1>a DEF PersistInstallation, Request
  <2>3. UNCHANGED crashes /\ (Fault \/ NoFault)
    BY <1>4 DEF PersistInstallation
  <2> QED BY <1>4, <2>1, <2>2, <2>3, FaultTyped DEF PersistInstallation, TypeOK
<1>5. ASSUME NEW w \in Workflows, RemoveWorkflow(w) PROVE TypeOK'
  <2>1. request' \in Request
    <3>1. \/ request' = [request EXCEPT !.remove = @ \ {w}]
          \/ request' = [request EXCEPT !.pc = "unpersist", !.at = w, !.job = inst[w]]
      BY <1>5 DEF RemoveWorkflow
    <3> QED BY <1>a, <3>1 DEF Request
  <2>2. remote' \in [JobIds -> Workflows \cup {NoWorkflow}]
    BY <1>5, <1>b DEF RemoveWorkflow
  <2>3. /\ inst' \in [Workflows -> JobIds \cup {NoJob}]
        /\ row' \in [RunIds -> JobRunRow]
    BY <1>5, <1>a, <1>b, RemoveRowTyped DEF RemoveWorkflow
  <2>4. UNCHANGED crashes /\ (Fault \/ NoFault)
    BY <1>5 DEF RemoveWorkflow, GetRaises, NoFault
  <2> QED BY <1>5, <2>1, <2>2, <2>3, <2>4, FaultTyped DEF RemoveWorkflow, TypeOK
<1>6. ASSUME DropInstallation PROVE TypeOK'
  <2>1. request' \in Request
    <3>1. request' = [request EXCEPT !.pc = "apply", !.remove = @ \ {request.at},
                                     !.at = NoWorkflow, !.job = NoJob]
      BY <1>6 DEF DropInstallation
    <3> QED BY <1>a, <3>1 DEF Request
  <2>2. /\ inst' \in [Workflows -> JobIds \cup {NoJob}]
        /\ row' \in [RunIds -> JobRunRow]
    <3>1. CASE UNCHANGED <<inst, row>>
      BY <3>1, <1>a, <1>b
    <3>2. CASE RemoveRow(request.at, request.job)
      <4>1. NoRow \in JobRunRow
        BY DEF NoRow, JobRunRow
      <4>2. CASE inst[request.at] = request.job
        <5>1. /\ inst' = [inst EXCEPT ![request.at] = NoJob]
              /\ row' = [r \in RunIds |-> IF r \in RunsOf(request.job) THEN NoRow ELSE row[r]]
          BY <3>2, <4>2 DEF RemoveRow
        <5> QED BY <5>1, <4>1, <1>a, <1>b
      <4>3. CASE inst[request.at] # request.job
        BY <3>2, <4>3, <1>a, <1>b DEF RemoveRow
      <4> QED BY <4>2, <4>3
    <3> QED BY <1>6, <3>1, <3>2 DEF DropInstallation
  <2>3. UNCHANGED crashes /\ (Fault \/ NoFault)
    BY <1>6 DEF DropInstallation
  <2> QED BY <1>6, <2>1, <2>2, <2>3, FaultTyped DEF DropInstallation, TypeOK
<1>7. ASSUME EndSettings PROVE TypeOK'
  <2>1. request' \in Request
    BY <1>7 DEF EndSettings, NoRequest, Request, NoJob
  <2> QED BY <1>7, <2>1 DEF EndSettings, TypeOK
<1> QED BY <1>1, <1>2, <1>3, <1>4, <1>5, <1>6, <1>7

\* What the poller holds when it is idle.
LEMMA NotPollingTyped == NotPolling \in Poller
BY DEF Poller, NotPolling, NothingListed, NoRun, NoInstallation

LEMMA PollerTyped == ASSUME TypeOK, PollStep PROVE TypeOK'
<1> USE DEF remoteVars
<1>a. poller \in Poller /\ inst \in [Workflows -> JobIds \cup {NoJob}]
  BY DEF TypeOK
<1>b. /\ row \in [RunIds -> JobRunRow] /\ run \in [RunIds -> Run]
      /\ announced \in [RunIds -> Nat]
  BY DEF TypeOK
<1>1. ASSUME PollBegin PROVE TypeOK'
  <2>1. {<<w, inst[w]>> : w \in {v \in Workflows : inst[v] # NoJob}} \in SUBSET Installation
    BY <1>a DEF Installation
  <2>2. poller' \in Poller
    BY <1>1, <2>1, NotPollingTyped DEF PollBegin, Poller
  <2> QED BY <1>1, <2>2 DEF PollBegin, TypeOK
<1>2. ASSUME NEW i \in poller.todo, PollCleanUp(i) PROVE TypeOK'
  <2>1. i[1] \in Workflows /\ i[2] \in JobIds
    BY <1>a DEF Poller, Installation
  <2>2. poller' \in Poller
    BY <1>2, <1>a DEF PollCleanUp, Poller
  <2>3. /\ inst' \in [Workflows -> JobIds \cup {NoJob}]
        /\ row' \in [RunIds -> JobRunRow]
    BY <1>2, <2>1, RemoveRowTyped DEF PollCleanUp
  <2>4. UNCHANGED crashes /\ (Fault \/ NoFault)
    BY <1>2 DEF PollCleanUp, GetRaises
  <2> QED BY <1>2, <2>2, <2>3, <2>4, FaultTyped DEF PollCleanUp, TypeOK
<1>3. ASSUME NEW i \in poller.todo, PollList(i) PROVE TypeOK'
  <2> DEFINE answer == [r \in RunIds |-> IF r \in RunsOf(i[2]) THEN run[r].status ELSE "none"]
  <2>1. i \in Installation
    BY <1>a DEF Poller
  <2>2. answer \in [RunIds -> RunStatus \cup {"none"}]
    BY <1>b DEF Run
  <2>3. poller' \in Poller
    <3> HIDE DEF answer
    <3>1. \/ poller' = [poller EXCEPT !.pc = "runs", !.todo = @ \ {i}, !.at = i, !.listed = answer]
          \/ poller' = [poller EXCEPT !.todo = @ \ {i}]
      BY <1>3 DEF PollList, answer
    <3>2. poller.todo \ {i} \in SUBSET Installation
      BY <1>a DEF Poller
    <3>3. CASE poller' = [poller EXCEPT !.todo = @ \ {i}]
      BY <3>2, <3>3, <1>a DEF Poller
    <3>4. CASE poller' = [poller EXCEPT !.pc = "runs", !.todo = @ \ {i}, !.at = i, !.listed = answer]
      BY <3>2, <3>4, <2>1, <2>2, <1>a DEF Poller
    <3> QED BY <3>1, <3>3, <3>4
  <2>4. UNCHANGED crashes /\ (Fault \/ NoFault)
    BY <1>3 DEF PollList
  <2> QED BY <1>3, <2>3, <2>4, FaultTyped DEF PollList, TypeOK
<1>4. ASSUME NEW r \in RunIds, PollUpsert(r) PROVE TypeOK'
  <2>1. poller.listed[r] \in RunStatus \cup {"none"}
    BY <1>a DEF Poller
  <2>2. poller' \in Poller
    BY <1>4, <1>a DEF PollUpsert, Poller
  <2>3. row' \in [RunIds -> JobRunRow]
    BY <1>4, <2>1, <1>b DEF PollUpsert, JobRunRow
  <2> QED BY <1>4, <2>2, <2>3 DEF PollUpsert, TypeOK
<1>5. ASSUME PollAnnounce PROVE TypeOK'
  <2>1. PICK how \in {"trigger", "direct", "nothing"} :
          /\ announced' = [announced EXCEPT ![poller.cur] = IF how = "trigger" THEN @ + 1 ELSE @]
          /\ poller' = [poller EXCEPT !.pc = "mark", !.how = how]
          /\ Fault \/ NoFault
    BY <1>5 DEF PollAnnounce
  <2>2. poller' \in Poller
    BY <2>1, <1>a DEF Poller
  <2>3. announced' \in [RunIds -> Nat]
    <3>1. CASE how = "trigger"
      <4>1. announced' = [announced EXCEPT ![poller.cur] = announced[poller.cur] + 1]
        BY <2>1, <3>1
      <4>2. CASE poller.cur \in RunIds
        <5>1. announced[poller.cur] + 1 \in Nat
          BY <4>2, <1>b
        <5> QED BY <4>1, <5>1, <1>b
      <4>3. CASE poller.cur \notin RunIds
        BY <4>1, <4>3, <1>b
      <4> QED BY <4>2, <4>3
    <3>2. CASE how # "trigger"
      BY <2>1, <3>2, <1>b
    <3> QED BY <3>1, <3>2
  <2> QED BY <1>5, <2>1, <2>2, <2>3, FaultTyped DEF PollAnnounce, TypeOK
<1>6. ASSUME PollMark PROVE TypeOK'
  <2>1. poller' \in Poller
    BY <1>6, <1>a DEF PollMark, Poller, NoRun
  <2>2. announced' \in [RunIds -> Nat]
    BY <1>6, <1>b DEF PollMark
  <2>3. row' \in [RunIds -> JobRunRow]
    <3>1. row' = Marked(poller.cur) \/ row' = row
      BY <1>6 DEF PollMark
    <3>2. ASSUME NEW b \in BOOLEAN
          PROVE  [row EXCEPT ![poller.cur].notified = b] \in [RunIds -> JobRunRow]
      BY <1>b DEF JobRunRow
    <3>3. Marked(poller.cur) \in [RunIds -> JobRunRow]
      BY <3>2 DEF Marked
    <3> QED BY <3>1, <3>3, <1>b
  <2>4. UNCHANGED crashes /\ (Fault \/ NoFault)
    BY <1>6 DEF PollMark
  <2> QED BY <1>6, <2>1, <2>2, <2>3, <2>4, FaultTyped DEF PollMark, TypeOK
<1>7. ASSUME PollNext PROVE TypeOK'
  <2>1. poller' \in Poller
    BY <1>7, <1>a DEF PollNext, Poller, NoRun
  <2> QED BY <1>7, <2>1 DEF PollNext, TypeOK
<1>8. ASSUME PollLost \/ PollEnd PROVE TypeOK'
  <2>1. /\ poller' = NotPolling
        /\ UNCHANGED <<remoteVars, inst, row, announced, monitor, request, faults, crashes>>
    BY <1>8 DEF PollLost, PollEnd
  <2> QED BY <2>1, NotPollingTyped DEF TypeOK
<1> QED BY <1>1, <1>2, <1>3, <1>4, <1>5, <1>6, <1>7, <1>8 DEF PollStep

LEMMA JobsStepTyped == ASSUME TypeOK, [Next]_vars PROVE TypeOK'
<1> USE JobsAssumption DEF remoteVars
<1>1. ASSUME NEW r \in RunIds, NEW j \in JobIds, ScheduledRun(r, j) PROVE TypeOK'
  BY <1>1 DEF ScheduledRun, NewRun, Run, RunStatus, TypeOK
<1>2. ASSUME NEW r \in RunIds, RunProgress(r) \/ CancelRun(r) PROVE TypeOK'
  BY <1>2 DEF RunProgress, CancelRun, Run, RunStatus, Terminated, TypeOK
<1>3. ASSUME NEW r \in RunIds, MonitorEnd(r) PROVE TypeOK'
  BY <1>3 DEF MonitorEnd, TypeOK
<1>4. ASSUME NEW j \in JobIds, JobDeletedElsewhere(j) PROVE TypeOK'
  BY <1>4 DEF JobDeletedElsewhere, TypeOK
<1>5. ASSUME NEW w \in Workflows, NEW r \in RunIds, StartWorkflow(w, r) PROVE TypeOK'
  <2>1. run' \in [RunIds -> Run] /\ monitor' \in SUBSET RunIds
    BY <1>5 DEF StartWorkflow, NewRun, Run, RunStatus, TypeOK
  <2>2. UNCHANGED crashes /\ (Fault \/ NoFault)
    BY <1>5 DEF StartWorkflow
  <2> QED BY <1>5, <2>1, <2>2, FaultTyped DEF StartWorkflow, TypeOK
<1>6. ASSUME Crash PROVE TypeOK'
  <2>1. request' \in Request
    BY <1>6 DEF Crash, NoRequest, Request, NoJob
  <2> QED BY <1>6, <2>1, NotPollingTyped DEF Crash, TypeOK
<1>7. ASSUME UNCHANGED vars PROVE TypeOK'
  BY <1>7 DEF vars, TypeOK
<1> QED BY <1>1, <1>2, <1>3, <1>4, <1>5, <1>6, <1>7, SettingsTyped, PollerTyped DEF Next

-----------------------------------------------------------------------------
(* Every job is known *)

LEMMA JobsInitInv == Init => JInv
<1> SUFFICES ASSUME Init PROVE JInv
  OBVIOUS
<1>1. TypeOK
  BY JobsInitTyped
<1>2. Allocated /\ PlanFits
  BY JobsAssumption DEF Init, Allocated, PlanFits, Exists, NoRequest, NoJob, JobIds
<1>4. EveryJobIsKnown
  <2>1. Unknown = {}
    BY DEF Init, Unknown, Exists
  <2>2. Cardinality(Unknown) = 0 /\ faults + crashes = 0
    BY <2>1, FS_EmptySet DEF Init
  <2> QED BY <2>2 DEF EveryJobIsKnown
<1>3. HandFits /\ Excused
  BY JobsAssumption DEF Init, HandFits, Excused, Troubles, NotPolling, NothingListed
<1> QED BY <1>1, <1>2, <1>3, <1>4 DEF JInv

\* What every step does: it loses sight of no job, or of one by a trouble.
LosesAtMostOne ==
    \/ Troubles' >= Troubles /\ Unknown' \subseteq Unknown
    \/ Troubles' = Troubles + 1 /\ \E k \in JobIds : Unknown' \subseteq Unknown \cup {k}

LEMMA NaturalsAdd == \A a, b \in Nat : a + b \in Nat
OBVIOUS

LEMMA StaysKnown ==
    ASSUME TypeOK, TypeOK', EveryJobIsKnown, LosesAtMostOne
    PROVE  EveryJobIsKnown'
<1>1. IsFiniteSet(JobIds)
  BY JobsAssumption, FS_Interval DEF JobIds
<1>2. IsFiniteSet(Unknown) /\ Cardinality(Unknown) \in Nat
  <2>1. Unknown \subseteq JobIds
    BY DEF Unknown
  <2> QED BY <1>1, <2>1, FS_Subset, FS_CardinalityType
<1>3. Troubles \in Nat /\ Troubles' \in Nat /\ Cardinality(Unknown) <= Troubles
  <2>1. Troubles \in Nat
    BY DEF TypeOK, Troubles
  <2>2. Troubles' \in Nat
    <3>1. faults' \in Nat /\ crashes' \in Nat
      BY DEF TypeOK
    <3>2. faults' + crashes' \in Nat
      BY <3>1, NaturalsAdd
    <3> QED BY <3>2 DEF Troubles
  <2>3. Cardinality(Unknown) <= Troubles
    BY DEF Troubles, EveryJobIsKnown
  <2> QED BY <2>1, <2>2, <2>3
<1>4. CASE Troubles' >= Troubles /\ Unknown' \subseteq Unknown
  <2>1. Cardinality(Unknown') \in Nat /\ Cardinality(Unknown') <= Cardinality(Unknown)
    BY <1>2, <1>4, FS_Subset, FS_CardinalityType
  <2> QED BY <1>2, <1>3, <1>4, <2>1 DEF EveryJobIsKnown, Troubles
<1>5. ASSUME NEW k \in JobIds, Troubles' = Troubles + 1, Unknown' \subseteq Unknown \cup {k}
      PROVE  EveryJobIsKnown'
  <2>1. /\ IsFiniteSet(Unknown \cup {k}) /\ Cardinality(Unknown \cup {k}) \in Nat
        /\ Cardinality(Unknown \cup {k}) <= Cardinality(Unknown) + 1
    <3>1. /\ IsFiniteSet(Unknown \cup {k})
          /\ Cardinality(Unknown \cup {k}) \in {Cardinality(Unknown), Cardinality(Unknown) + 1}
      BY <1>2, FS_AddElement
    <3> QED BY <1>2, <3>1
  <2>2. Cardinality(Unknown') \in Nat /\ Cardinality(Unknown') <= Cardinality(Unknown \cup {k})
    BY <1>5, <2>1, FS_Subset, FS_CardinalityType
  <2> QED BY <1>2, <1>3, <1>5, <2>1, <2>2 DEF EveryJobIsKnown, Troubles
<1> QED BY <1>4, <1>5 DEF LosesAtMostOne

\* Steps that touch neither jobs nor rows, and end no installation half-way.
LEMMA NothingLost ==
    ASSUME TypeOK, UNCHANGED <<remote, inst, crashes>>, Fault \/ NoFault,
           request.pc = "persist" => UNCHANGED request
    PROVE  LosesAtMostOne
BY DEF TypeOK, LosesAtMostOne, Unknown, Exists, Troubles, Fault, NoFault

\* Removing the row of a job that is gone, or said to be.
LEMMA RemoveRowLosesOne ==
    ASSUME TypeOK, NEW w \in Workflows, NEW j \in JobIds \cup {NoJob}, RemoveRow(w, j),
           GetRaises(j) \/ (~Exists(j) /\ NoFault),
           request.pc = "persist" => UNCHANGED request,
           UNCHANGED <<remote, crashes>>
    PROVE  /\ \A v \in Workflows : inst'[v] = inst[v] \/ inst'[v] = NoJob
           /\ \A v \in Workflows : v # w => inst'[v] = inst[v]
           /\ LosesAtMostOne
<1>a. inst \in [Workflows -> JobIds \cup {NoJob}] /\ Troubles \in Nat
  BY DEF TypeOK, Troubles
<1>1. /\ \A v \in Workflows : inst'[v] = inst[v] \/ (v = w /\ inst[w] = j /\ inst'[v] = NoJob)
      /\ \A v \in Workflows : v # w => inst'[v] = inst[v]
  BY <1>a DEF RemoveRow
<1>2. Unknown' \subseteq Unknown \cup {k \in JobIds : k = j /\ Exists(k)}
  <2> SUFFICES ASSUME NEW k \in JobIds, k \in Unknown', k \notin Unknown
               PROVE  k = j /\ Exists(k)
    BY DEF Unknown
  <2>1. /\ Exists(k) /\ inst'[remote[k]] # k
        /\ ~(request.pc = "persist" /\ request.job = k)
    BY DEF Unknown, Exists
  <2>2. inst[remote[k]] = k
    BY <2>1 DEF Unknown
  <2>3. remote[k] = w /\ inst[w] = j
    <3>1. remote[k] \in Workflows
      BY <2>1 DEF TypeOK, Exists
    <3> QED BY <1>1, <2>1, <2>2, <3>1
  <2> QED BY <2>1, <2>2, <2>3
<1>3. CASE Exists(j)
  <2>1. Troubles' = Troubles + 1 /\ j \in JobIds
    BY <1>3 DEF GetRaises, Fault, Troubles, Exists, TypeOK
  <2> QED BY <1>1, <1>2, <2>1 DEF LosesAtMostOne
<1>4. CASE ~Exists(j)
  <2>1. Troubles' = Troubles
    BY <1>4 DEF GetRaises, NoFault, Troubles
  <2>2. Unknown' \subseteq Unknown
    BY <1>2, <1>4
  <2> QED BY <1>1, <1>a, <2>1, <2>2 DEF LosesAtMostOne
<1> QED BY <1>3, <1>4

Known == Allocated /\ PlanFits
StepKnown == Allocated' /\ PlanFits' /\ LosesAtMostOne

LEMMA SettingsKnown ==
    ASSUME TypeOK, Known,
           \/ \E d \in SUBSET Workflows : BeginSettings(d)
           \/ \E w \in Workflows : Reconcile(w) \/ CreateJob(w) \/ RemoveWorkflow(w)
           \/ PersistInstallation \/ DropInstallation \/ EndSettings
    PROVE  StepKnown
<1> USE DEF remoteVars, Known, StepKnown
<1>a. /\ request \in Request /\ inst \in [Workflows -> JobIds \cup {NoJob}]
      /\ remote \in [JobIds -> Workflows \cup {NoWorkflow}] /\ nextJob \in 1 .. MaxJobs + 1
      /\ faults \in Nat /\ crashes \in Nat
  BY DEF TypeOK
<1>b. run \in [RunIds -> Run]
  BY DEF TypeOK
<1>1. ASSUME NEW d \in SUBSET Workflows, BeginSettings(d) PROVE StepKnown
  <2>1. request' = [NoRequest EXCEPT !.pc = "apply",
                      !.check = d \cap {w \in Workflows : inst[w] # NoJob},
                      !.install = d \ {w \in Workflows : inst[w] # NoJob},
                      !.remove = {w \in Workflows : inst[w] # NoJob} \ d]
    BY <1>1 DEF BeginSettings
  <2>2. request'.pc = "apply" /\ request'.install = d \ {w \in Workflows : inst[w] # NoJob}
    BY <2>1 DEF NoRequest
  <2>3. UNCHANGED <<remote, nextJob, run, inst, crashes>> /\ (Fault \/ NoFault)
        /\ request.pc = "idle"
    BY <1>1 DEF BeginSettings
  <2> QED BY <1>a, <2>2, <2>3, NothingLost DEF Allocated, PlanFits, Exists
<1>2. ASSUME NEW w \in Workflows, Reconcile(w) PROVE StepKnown
  <2>1. UNCHANGED <<remote, nextJob, run, crashes>> /\ request.pc = "apply"
    BY <1>2 DEF Reconcile
  <2>2. CASE /\ request' = [request EXCEPT !.check = @ \ {w}]
             /\ UNCHANGED <<inst, row, faults>>
    <3>1. request'.pc = "apply" /\ request'.install = request.install
      BY <2>1, <2>2, <1>a DEF Request
    <3> QED BY <2>1, <2>2, <3>1, NothingLost DEF Allocated, PlanFits, Exists, NoFault
  <2>3. CASE /\ inst[w] # NoJob /\ GetRaises(inst[w])
             /\ RemoveRow(w, inst[w])
             /\ request' = [request EXCEPT !.check = @ \ {w}, !.install = @ \cup {w}]
    <3>1. request'.pc = "apply" /\ request'.install = request.install \cup {w}
      BY <2>1, <2>3, <1>a DEF Request
    <3>3. inst[w] \in JobIds \cup {NoJob}
      BY <1>a
    <3>4. /\ \A v \in Workflows : inst'[v] = inst[v] \/ inst'[v] = NoJob
          /\ \A v \in Workflows : v # w => inst'[v] = inst[v]
          /\ LosesAtMostOne
      BY <2>1, <2>3, <3>3, RemoveRowLosesOne
    <3>5. inst'[w] = NoJob
      BY <2>3, <1>a DEF RemoveRow
    <3>6. Allocated'
      BY <2>1, <3>1, <3>4, <1>a DEF Allocated, NoJob
    <3> QED BY <2>1, <3>1, <3>4, <3>5, <3>6, <1>a DEF PlanFits, Request
  <2> QED BY <1>2, <2>2, <2>3 DEF Reconcile
<1>3. ASSUME NEW w \in Workflows, CreateJob(w) PROVE StepKnown
  <2>1. UNCHANGED <<run, inst, crashes>> /\ request.pc = "apply" /\ w \in request.install
    BY <1>3 DEF CreateJob
  <2>2. CASE /\ nextJob \in JobIds
             /\ remote' = [remote EXCEPT ![nextJob] = w]
             /\ nextJob' = nextJob + 1
             /\ request' = [request EXCEPT !.pc = "persist", !.at = w, !.job = nextJob]
             /\ NoFault
    <3>1. /\ request'.pc = "persist" /\ request'.at = w /\ request'.job = nextJob
          /\ request'.install = request.install
      BY <2>2, <1>a DEF Request
    <3>2. \A j \in JobIds : j # nextJob => remote'[j] = remote[j]
      BY <2>2, <1>a
    <3>3. remote'[nextJob] = w
      BY <2>2, <1>a
    <3>4. \A r \in RunIds : run[r].job \in Nat
      BY <1>b DEF Run, NoJob, JobIds
    <3>5. Allocated'
      BY <2>1, <2>2, <3>1, <3>2, <3>4, <1>a DEF Allocated, JobIds, NoJob
    <3>6. PlanFits'
      BY <2>1, <3>1, <3>3, <1>a DEF PlanFits
    <3>7. LosesAtMostOne
      BY <2>1, <2>2, <3>1, <3>2, <3>3, <1>a DEF LosesAtMostOne, Unknown, Troubles, Exists, NoFault
    <3> QED BY <3>5, <3>6, <3>7
  <2>3. CASE /\ Fault
             /\ request' = [request EXCEPT !.install = @ \ {w}]
             /\ UNCHANGED <<remote, nextJob>>
    <3>1. request'.pc = "apply" /\ request'.install = request.install \ {w}
      BY <2>1, <2>3, <1>a DEF Request
    <3> QED BY <2>1, <2>3, <3>1, NothingLost DEF Allocated, PlanFits
  <2> QED BY <1>3, <2>2, <2>3 DEF CreateJob
<1>4. ASSUME PersistInstallation PROVE StepKnown
  <2>1. UNCHANGED <<remote, nextJob, run, crashes>> /\ request.pc = "persist"
    BY <1>4 DEF PersistInstallation
  <2>2. request'.pc = "apply" /\ request'.install = request.install \ {request.at}
    BY <1>4, <1>a DEF PersistInstallation, Request
  <2>3. /\ request.at \in request.install /\ request.at \in Workflows
        /\ inst[request.at] = NoJob /\ request.job \in JobIds
        /\ remote[request.job] \in {request.at, NoWorkflow}
    BY <2>1, <1>a DEF Request, PlanFits, Allocated
  <2>4. CASE inst' = [inst EXCEPT ![request.at] = request.job] /\ NoFault
    <3>1. Allocated'
      BY <2>1, <2>2, <2>3, <2>4, <1>a DEF Allocated
    <3>2. PlanFits'
      BY <2>1, <2>2, <2>3, <2>4, <1>a DEF PlanFits, Request
    <3>3. LosesAtMostOne
      <4>1. Unknown' \subseteq Unknown
        BY <2>1, <2>2, <2>3, <2>4, <1>a DEF Unknown, Exists, NoJob, JobIds
      <4> QED BY <2>1, <2>4, <4>1, <1>a DEF LosesAtMostOne, Troubles, NoFault
    <3> QED BY <3>1, <3>2, <3>3
  <2>5. CASE Fault /\ UNCHANGED inst
    <3>1. Allocated' /\ PlanFits'
      BY <2>1, <2>2, <2>5, <1>a DEF Allocated, PlanFits
    <3>2. Unknown' \subseteq Unknown \cup {request.job}
      BY <2>1, <2>2, <2>5 DEF Unknown, Exists
    <3>3. Troubles' = Troubles + 1
      BY <2>1, <2>5, <1>a DEF Troubles, Fault
    <3> QED BY <2>3, <3>1, <3>2, <3>3 DEF LosesAtMostOne
  <2> QED BY <1>4, <2>4, <2>5 DEF PersistInstallation
<1>5. ASSUME NEW w \in Workflows, RemoveWorkflow(w) PROVE StepKnown
  <2>1. UNCHANGED <<nextJob, run, crashes>> /\ request.pc = "apply"
    BY <1>5 DEF RemoveWorkflow
  <2>2. CASE request' = [request EXCEPT !.remove = @ \ {w}]
    <3>1. request'.pc = "apply" /\ request'.install = request.install
      BY <2>1, <2>2, <1>a DEF Request
    <3>2. CASE UNCHANGED <<remote, inst>> /\ (Fault \/ NoFault)
      BY <2>1, <3>1, <3>2, NothingLost DEF Allocated, PlanFits, Exists
    <3>3. CASE GetRaises(inst[w]) /\ RemoveRow(w, inst[w]) /\ UNCHANGED remote
      <4>2. inst[w] \in JobIds \cup {NoJob}
        BY <1>a
      <4>3. (\A v \in Workflows : inst'[v] = inst[v] \/ inst'[v] = NoJob) /\ LosesAtMostOne
        BY <2>1, <3>3, <4>2, RemoveRowLosesOne
      <4>4. Allocated'
        BY <2>1, <3>1, <3>3, <4>3, <1>a DEF Allocated, NoJob
      <4>5. PlanFits'
        BY <2>1, <3>1, <3>3, <4>3, <1>a DEF PlanFits, Request
      <4> QED BY <4>3, <4>4, <4>5
    <3> QED BY <1>5, <3>2, <3>3, <2>1, <2>2, <1>a DEF RemoveWorkflow, Request, NoFault
  <2>3. CASE /\ inst[w] # NoJob
             /\ remote' = [remote EXCEPT ![inst[w]] = NoWorkflow]
             /\ request' = [request EXCEPT !.pc = "unpersist", !.at = w, !.job = inst[w]]
             /\ NoFault /\ UNCHANGED <<inst, row>>
    <3>1. /\ request'.pc = "unpersist" /\ request'.install = request.install
          /\ request'.at = w /\ request'.job = inst[w]
      BY <2>3, <1>a DEF Request
    <3>2. inst[w] \in JobIds
      BY <2>3, <1>a
    <3>3. \A j \in JobIds : remote'[j] = IF j = inst[w] THEN NoWorkflow ELSE remote[j]
      BY <2>3, <1>a
    <3>4. Allocated' /\ PlanFits'
      BY <2>1, <2>3, <3>1, <3>2, <3>3, <1>a DEF Allocated, PlanFits, Exists
    <3>5. LosesAtMostOne
      BY <2>1, <2>3, <3>3, <1>a DEF LosesAtMostOne, Unknown, Troubles, Exists, NoFault
    <3> QED BY <3>4, <3>5
  <2> QED BY <1>5, <2>2, <2>3 DEF RemoveWorkflow
<1>6. ASSUME DropInstallation PROVE StepKnown
  <2>1. UNCHANGED <<remote, nextJob, run, crashes>> /\ request.pc = "unpersist"
    BY <1>6 DEF DropInstallation
  <2>2. request'.pc = "apply" /\ request'.install = request.install
    BY <1>6, <1>a DEF DropInstallation, Request
  <2>3. request.at \in Workflows /\ ~Exists(request.job) /\ request.job \in JobIds \cup {NoJob}
    BY <2>1, <1>a DEF PlanFits, Request
  <2>4. CASE RemoveRow(request.at, request.job) /\ NoFault
    <3>2. (\A v \in Workflows : inst'[v] = inst[v] \/ inst'[v] = NoJob) /\ LosesAtMostOne
      BY <2>1, <2>3, <2>4, RemoveRowLosesOne
    <3> QED BY <2>1, <2>2, <3>2, <1>a DEF Allocated, PlanFits, Request, NoJob
  <2>5. CASE Fault /\ UNCHANGED inst
    BY <2>1, <2>2, <2>5, NothingLost DEF Allocated, PlanFits
  <2> QED BY <1>6, <2>4, <2>5 DEF DropInstallation
<1>7. ASSUME EndSettings PROVE StepKnown
  <2>1. request.pc = "apply" /\ request'.pc = "idle" /\ request'.install = {}
        /\ UNCHANGED <<remote, nextJob, run, inst, crashes>> /\ NoFault
    BY <1>7 DEF EndSettings, NoRequest, NoFault
  <2> QED BY <2>1, NothingLost DEF Allocated, PlanFits, Exists
<1> QED BY <1>1, <1>2, <1>3, <1>4, <1>5, <1>6, <1>7

LEMMA JobsStepKnown == ASSUME TypeOK, Known, [Next]_vars PROVE StepKnown
<1> USE DEF remoteVars, Known, StepKnown
<1>a. /\ request \in Request /\ inst \in [Workflows -> JobIds \cup {NoJob}]
      /\ remote \in [JobIds -> Workflows \cup {NoWorkflow}] /\ nextJob \in 1 .. MaxJobs + 1
      /\ faults \in Nat /\ crashes \in Nat
  BY DEF TypeOK
<1>b. run \in [RunIds -> Run]
  BY DEF TypeOK
<1> DEFINE Same == UNCHANGED <<remote, nextJob, inst, request>>
<1>c. ASSUME Same, UNCHANGED run, UNCHANGED crashes, Fault \/ NoFault PROVE StepKnown
  BY <1>c, NothingLost DEF Allocated, PlanFits, Exists
<1>1. ASSUME NEW r \in RunIds, NEW j \in JobIds, NewRun(r, j), Exists(j), Same,
             UNCHANGED crashes, Fault \/ NoFault
      PROVE  StepKnown
  <2>1. j < nextJob
    BY <1>1, <1>a DEF Allocated, Exists, JobIds
  <2>2. \A s \in RunIds : s # r => run'[s] = run[s]
    BY <1>1, <1>b DEF NewRun
  <2>3. run'[r].job = j
    BY <1>1, <1>b DEF NewRun
  <2>4. Allocated'
    BY <1>1, <2>1, <2>2, <2>3, <1>a DEF Allocated
  <2> QED BY <1>1, <2>4, NothingLost DEF PlanFits, Exists
<1>2. ASSUME NEW r \in RunIds, NEW j \in JobIds, ScheduledRun(r, j) PROVE StepKnown
  BY <1>1, <1>2 DEF ScheduledRun, NoFault
<1>3. ASSUME NEW w \in Workflows, NEW r \in RunIds, StartWorkflow(w, r) PROVE StepKnown
  <2>1. inst[w] \in JobIds
    BY <1>3 DEF StartWorkflow, Exists
  <2> QED BY <1>1, <1>3, <2>1 DEF StartWorkflow
<1>4. ASSUME NEW r \in RunIds, RunProgress(r) \/ CancelRun(r) PROVE StepKnown
  <2>1. \A s \in RunIds : run'[s].job = run[s].job /\ (run'[s].status = "none" <=> run[s].status = "none")
    BY <1>4, <1>b DEF RunProgress, CancelRun, Run, Terminated
  <2>2. Same /\ UNCHANGED <<faults, crashes>>
    BY <1>4 DEF RunProgress, CancelRun
  <2> QED BY <2>1, <2>2, NothingLost DEF Allocated, PlanFits, Exists, NoFault
<1>5. ASSUME NEW r \in RunIds, MonitorEnd(r) PROVE StepKnown
  BY <1>5, <1>c DEF MonitorEnd, NoFault
<1>6. ASSUME NEW j \in JobIds, JobDeletedElsewhere(j) PROVE StepKnown
  <2>1. /\ UNCHANGED <<nextJob, run, inst, request, faults, crashes>>
        /\ remote' = [remote EXCEPT ![j] = NoWorkflow]
    BY <1>6 DEF JobDeletedElsewhere
  <2>2. \A k \in JobIds : remote'[k] \in {remote[k], NoWorkflow}
    BY <2>1, <1>a
  <2>3. Allocated'
    BY <2>1, <2>2 DEF Allocated
  <2>4. PlanFits'
    BY <2>1, <2>2, <2>3 DEF PlanFits, Exists, Allocated
  <2>5. LosesAtMostOne
    BY <2>1, <2>2, <1>a DEF LosesAtMostOne, Unknown, Troubles, Exists
  <2> QED BY <2>3, <2>4, <2>5
<1>7. ASSUME NEW i \in poller.todo, PollCleanUp(i) PROVE StepKnown
  <2>1. i[1] \in Workflows /\ i[2] \in JobIds \cup {NoJob}
    BY DEF TypeOK, Poller, Installation
  <2>2. /\ UNCHANGED <<remote, nextJob, run, request, crashes>>
        /\ GetRaises(i[2]) /\ RemoveRow(i[1], i[2])
    BY <1>7 DEF PollCleanUp
  <2>4. (\A v \in Workflows : inst'[v] = inst[v] \/ inst'[v] = NoJob) /\ LosesAtMostOne
    BY <2>1, <2>2, RemoveRowLosesOne
  <2>5. Allocated'
    <3>1. request.pc = "persist" => request.job # NoJob
      BY DEF Allocated, JobIds, NoJob
    <3> QED BY <2>2, <2>4, <3>1, <1>a DEF Allocated, NoJob
  <2>6. PlanFits'
    BY <2>2, <2>4, <1>a DEF PlanFits, Request, Exists
  <2> QED BY <2>4, <2>5, <2>6
<1>8. ASSUME \/ PollBegin \/ PollAnnounce \/ PollMark \/ PollNext \/ PollLost \/ PollEnd
             \/ \E i \in poller.todo : PollList(i)
             \/ \E r \in RunIds : PollUpsert(r)
      PROVE  StepKnown
  <2>1. Same /\ UNCHANGED <<run, crashes>> /\ (Fault \/ NoFault)
    BY <1>8 DEF PollBegin, PollAnnounce, PollMark, PollNext, PollLost, PollEnd, PollList,
       PollUpsert, NoFault
  <2> QED BY <2>1, <1>c
<1>9. ASSUME Crash PROVE StepKnown
  <2>1. UNCHANGED <<remote, nextJob, run, inst, faults>> /\ crashes' = crashes + 1 /\ request' = NoRequest
    BY <1>9 DEF Crash
  <2>2. request'.pc = "idle" /\ request'.install = {}
    BY <2>1 DEF NoRequest
  <2>3. Allocated' /\ PlanFits'
    BY <2>1, <2>2 DEF Allocated, PlanFits
  <2>4. Troubles' = Troubles + 1
    BY <2>1, <1>a DEF Troubles
  <2>5. CASE request.pc = "persist"
    <3>1. request.job \in JobIds /\ Unknown' \subseteq Unknown \cup {request.job}
      BY <2>1, <2>5 DEF Unknown, Exists, Allocated
    <3> QED BY <2>3, <2>4, <3>1 DEF LosesAtMostOne
  <2>6. CASE request.pc # "persist"
    <3>1. Unknown' \subseteq Unknown
      BY <2>1, <2>6 DEF Unknown, Exists
    <3> QED BY <2>3, <2>4, <3>1, <1>a DEF LosesAtMostOne, Troubles
  <2> QED BY <2>5, <2>6
<1>10. ASSUME UNCHANGED vars PROVE StepKnown
  BY <1>10, <1>c DEF vars, NoFault
<1> QED BY <1>2, <1>3, <1>4, <1>5, <1>6, <1>7, <1>8, <1>9, <1>10, SettingsKnown DEF Next, PollStep

-----------------------------------------------------------------------------
(* Outcomes are announced once *)

\* What no step does: a run is never forgotten or moved to another job, no
\* installation gets the job of a run that is gone, troubles are not undone.
Steady ==
    /\ \A r \in RunIds : run[r].status # "none" =>
          /\ run'[r].status # "none" /\ run'[r].job = run[r].job
          /\ Gone(r) => Gone(r)'
    /\ Troubles' \in Nat /\ Troubles' >= Troubles

\* A row changes only when its run is gone.
RowsKept == \A r \in RunIds :
    run[r].status # "none" => row'[r] = row[r] \/ Gone(r)'

\* Removing the row of an installation leaves its runs without one.
LEMMA RemoveRowLoses ==
    ASSUME TypeOK, Allocated, NEW w \in Workflows, NEW j \in JobIds \cup {NoJob}, RemoveRow(w, j),
           UNCHANGED run,
           request'.pc = "persist" => request.pc = "persist" /\ request'.job = request.job
    PROVE  /\ RowsKept
           /\ \A r \in RunIds : run[r].status # "none" /\ Gone(r) => Gone(r)'
<1>a. inst \in [Workflows -> JobIds \cup {NoJob}] /\ row \in [RunIds -> JobRunRow]
  BY DEF TypeOK
<1>1. CASE inst[w] = j
  <2>1. /\ inst' = [inst EXCEPT ![w] = NoJob]
        /\ row' = [r \in RunIds |-> IF r \in RunsOf(j) THEN NoRow ELSE row[r]]
    BY <1>1 DEF RemoveRow
  <2>2. ASSUME NEW r \in RunIds, run[r].status # "none", run[r].job = j
        PROVE  Gone(r)'
    <3>1. j # NoJob
      BY <2>2 DEF Allocated, NoJob, JobIds
    <3>2. \A v \in Workflows : inst'[v] # j
      BY <2>1, <1>1, <3>1, <1>a DEF Allocated
    <3>3. request.pc = "persist" => request.job # j
      BY <1>1 DEF Allocated
    <3> QED BY <2>2, <3>2, <3>3 DEF Gone
  <2>3. RowsKept
    BY <2>1, <2>2 DEF RowsKept, RunsOf
  <2>4. ASSUME NEW r \in RunIds, run[r].status # "none", Gone(r)
        PROVE  Gone(r)'
    <3>1. run[r].job # NoJob
      BY <2>4 DEF Allocated, NoJob, JobIds
    <3> QED BY <2>1, <2>4, <3>1, <1>a DEF Gone
  <2> QED BY <2>3, <2>4
<1>2. CASE inst[w] # j
  BY <1>2 DEF RemoveRow, RowsKept, Gone
<1> QED BY <1>1, <1>2

\* The steps that neither poll nor announce.
Elsewhere ==
    \/ \E r \in RunIds, j \in JobIds : ScheduledRun(r, j)
    \/ \E r \in RunIds : RunProgress(r) \/ CancelRun(r) \/ MonitorEnd(r)
    \/ \E j \in JobIds : JobDeletedElsewhere(j)
    \/ \E desired \in SUBSET Workflows : BeginSettings(desired)
    \/ \E w \in Workflows : Reconcile(w) \/ CreateJob(w) \/ RemoveWorkflow(w)
    \/ PersistInstallation \/ DropInstallation \/ EndSettings
    \/ \E w \in Workflows, r \in RunIds : StartWorkflow(w, r)
    \/ UNCHANGED vars

LEMMA FaultSteady ==
    ASSUME TypeOK, UNCHANGED crashes, Fault \/ NoFault
    PROVE  Troubles' \in Nat /\ Troubles' >= Troubles
BY DEF TypeOK, Fault, NoFault, Troubles

LEMMA ElsewhereSteady ==
    ASSUME TypeOK, Allocated, PlanFits, Elsewhere
    PROVE  Steady /\ RowsKept /\ UNCHANGED <<poller, announced>>
<1> USE DEF remoteVars
<1>a. /\ request \in Request /\ inst \in [Workflows -> JobIds \cup {NoJob}]
      /\ run \in [RunIds -> Run] /\ nextJob \in 1 .. MaxJobs + 1
  BY DEF TypeOK
<1> DEFINE Goal == Steady /\ RowsKept /\ UNCHANGED <<poller, announced>>
<1>b. ASSUME UNCHANGED <<run, inst, row, poller, announced, crashes>>, Fault \/ NoFault,
             request'.pc = "persist" => request.pc = "persist" /\ request'.job = request.job
      PROVE  Goal
  BY <1>b, FaultSteady DEF Steady, RowsKept, Gone
<1>c. ASSUME NEW w \in Workflows, NEW j \in JobIds \cup {NoJob}, RemoveRow(w, j),
             UNCHANGED <<run, poller, announced, crashes>>, Fault \/ NoFault,
             request'.pc = "persist" => request.pc = "persist" /\ request'.job = request.job
      PROVE  Goal
  BY <1>c, FaultSteady, RemoveRowLoses DEF Steady
<1>1. ASSUME NEW r \in RunIds, NEW j, NewRun(r, j), Fault \/ NoFault,
             UNCHANGED <<inst, row, poller, announced, request, crashes>>
      PROVE  Goal
  <2>1. \A s \in RunIds : run[s].status # "none" => run'[s] = run[s]
    BY <1>1, <1>a DEF NewRun
  <2> QED BY <1>1, <2>1, FaultSteady DEF Steady, RowsKept, Gone
<1>2. ASSUME NEW r \in RunIds, NEW j \in JobIds, ScheduledRun(r, j) PROVE Goal
  BY <1>1, <1>2 DEF ScheduledRun, NoFault
<1>3. ASSUME NEW w \in Workflows, NEW r \in RunIds, StartWorkflow(w, r) PROVE Goal
  BY <1>1, <1>3 DEF StartWorkflow
<1>4. ASSUME NEW r \in RunIds, RunProgress(r) \/ CancelRun(r) PROVE Goal
  <2>1. \A s \in RunIds : run'[s].job = run[s].job /\ (run[s].status # "none" => run'[s].status # "none")
    BY <1>4, <1>a DEF RunProgress, CancelRun, Run, Terminated
  <2>2. UNCHANGED <<inst, row, poller, announced, request, crashes>> /\ NoFault
    BY <1>4 DEF RunProgress, CancelRun, NoFault
  <2> QED BY <2>1, <2>2, FaultSteady DEF Steady, RowsKept, Gone
<1>5. ASSUME \/ \E r \in RunIds : MonitorEnd(r)
             \/ \E j \in JobIds : JobDeletedElsewhere(j)
             \/ UNCHANGED vars
      PROVE  Goal
  <2>1. UNCHANGED <<run, inst, row, poller, announced, request, crashes>> /\ NoFault
    BY <1>5 DEF MonitorEnd, JobDeletedElsewhere, vars, NoFault
  <2> QED BY <2>1, <1>b
<1>6. ASSUME NEW d \in SUBSET Workflows, BeginSettings(d) PROVE Goal
  <2>1. request'.pc = "apply"
    BY <1>6 DEF BeginSettings, NoRequest
  <2>2. UNCHANGED <<run, inst, row, poller, announced, crashes>> /\ (Fault \/ NoFault)
    BY <1>6 DEF BeginSettings
  <2> QED BY <2>1, <2>2, <1>b
<1>7. ASSUME NEW w \in Workflows, Reconcile(w) PROVE Goal
  <2>1. request'.pc = "apply"
    BY <1>7, <1>a DEF Reconcile, Request
  <2>2. UNCHANGED <<run, poller, announced, crashes>> /\ (Fault \/ NoFault)
    BY <1>7 DEF Reconcile, GetRaises, NoFault
  <2>3. inst[w] \in JobIds \cup {NoJob} /\ (RemoveRow(w, inst[w]) \/ UNCHANGED <<inst, row>>)
    BY <1>7, <1>a DEF Reconcile
  <2> QED BY <2>1, <2>2, <2>3, <1>b, <1>c
<1>8. ASSUME NEW w \in Workflows, CreateJob(w) PROVE Goal
  <2>1. UNCHANGED <<run, inst, row, poller, announced, crashes>> /\ (Fault \/ NoFault)
    BY <1>8 DEF CreateJob
  <2>2. request'.pc = "persist" => request'.job = nextJob
    BY <1>8, <1>a DEF CreateJob, Request
  <2>3. \A r \in RunIds : run[r].job # nextJob
    BY <1>a DEF Allocated, Run, NoJob, JobIds
  <2> QED BY <2>1, <2>2, <2>3, FaultSteady DEF Steady, RowsKept, Gone
<1>9. ASSUME PersistInstallation PROVE Goal
  <2>1. request'.pc = "apply"
    BY <1>9, <1>a DEF PersistInstallation, Request
  <2>2. /\ UNCHANGED <<run, row, poller, announced, crashes>> /\ (Fault \/ NoFault)
        /\ request.pc = "persist"
        /\ inst' = [inst EXCEPT ![request.at] = request.job] \/ inst' = inst
    BY <1>9 DEF PersistInstallation
  <2>3. \A r \in RunIds : Gone(r) => Gone(r)'
    BY <2>1, <2>2, <1>a DEF Gone
  <2> QED BY <2>2, <2>3, FaultSteady DEF Steady, RowsKept
<1>10. ASSUME NEW w \in Workflows, RemoveWorkflow(w) PROVE Goal
  <2>1. request'.pc \in {"apply", "unpersist"}
    BY <1>10, <1>a DEF RemoveWorkflow, Request
  <2>2. UNCHANGED <<run, poller, announced, crashes>> /\ (Fault \/ NoFault)
    BY <1>10 DEF RemoveWorkflow, GetRaises, NoFault
  <2>3. inst[w] \in JobIds \cup {NoJob} /\ (RemoveRow(w, inst[w]) \/ UNCHANGED <<inst, row>>)
    BY <1>10, <1>a DEF RemoveWorkflow
  <2> QED BY <2>1, <2>2, <2>3, <1>b, <1>c
<1>11. ASSUME DropInstallation PROVE Goal
  <2>1. request'.pc = "apply"
    BY <1>11, <1>a DEF DropInstallation, Request
  <2>2. /\ UNCHANGED <<run, poller, announced, crashes>> /\ (Fault \/ NoFault)
        /\ RemoveRow(request.at, request.job) \/ UNCHANGED <<inst, row>>
    BY <1>11 DEF DropInstallation
  <2>3. request.at \in Workflows /\ request.job \in JobIds \cup {NoJob}
    BY <1>11, <1>a DEF DropInstallation, PlanFits, Request
  <2> QED BY <2>1, <2>2, <2>3, <1>b, <1>c
<1>12. ASSUME EndSettings PROVE Goal
  <2>1. UNCHANGED <<run, inst, row, poller, announced, crashes>> /\ NoFault /\ request'.pc = "idle"
    BY <1>12 DEF EndSettings, NoFault, NoRequest
  <2> QED BY <2>1, <1>b
<1> QED BY <1>2, <1>3, <1>4, <1>5, <1>6, <1>7, <1>8, <1>9, <1>10, <1>11, <1>12 DEF Elsewhere

\* Steady steps that leave the poller and the announcements alone.
LEMMA QuietKeepsExcused ==
    ASSUME TypeOK, TypeOK', HandFits, Excused, Steady, RowsKept, UNCHANGED <<poller, announced>>
    PROVE  HandFits' /\ Excused'
<1>a. announced \in [RunIds -> Nat] /\ Troubles \in Nat
  BY DEF TypeOK, Troubles
<1>1. HandFits'
  <2>1. \A r \in RunIds : poller'.listed[r] # "none" =>
           run'[r].status # "none" /\ run'[r].job = poller'.at[2]
    BY DEF HandFits, Steady
  <2>2. ASSUME poller.pc \in {"announce", "mark"}
        PROVE  /\ poller'.cur \in RunIds /\ run'[poller'.cur].status # "none"
               /\ run'[poller'.cur].job = poller'.at[2]
               /\ row'[poller'.cur].status # "none" \/ Gone(poller.cur)'
    <3>1. /\ poller.cur \in RunIds /\ run[poller.cur].status # "none"
          /\ run[poller.cur].job = poller.at[2]
          /\ row[poller.cur].status # "none" \/ Gone(poller.cur)
      BY <2>2 DEF HandFits
    <3> QED BY <3>1 DEF Steady, RowsKept
  <2> QED BY <2>1, <2>2 DEF HandFits, Gone
<1>2. \A r \in RunIds : run'[r].status = "none" => announced'[r] = 0
  BY DEF Excused, Steady
<1>3. ASSUME NEW r \in RunIds
      PROVE  /\ announced'[r] <= Troubles' + 1
             /\ \/ announced'[r] <= Troubles'
                \/ row'[r].notified
                \/ Gone(r)'
                \/ poller'.pc = "mark" /\ poller'.cur = r /\ poller'.how = "trigger"
  <2>1. CASE run[r].status = "none"
    BY <2>1, <1>a DEF Excused, Steady
  <2>2. CASE run[r].status # "none"
    BY <2>2, <1>a DEF Excused, Steady, RowsKept
  <2> QED BY <2>1, <2>2
<1>4. \/ poller.pc = "announce"
      \/ poller.pc = "mark" /\ poller.how # "trigger"
      => announced[poller.cur] <= Troubles'
  <2>1. ASSUME poller.pc \in {"announce", "mark"}, announced[poller.cur] <= Troubles
        PROVE  announced[poller.cur] <= Troubles'
    <3>1. poller.cur \in RunIds
      BY <2>1 DEF HandFits
    <3> QED BY <2>1, <3>1, <1>a DEF Steady
  <2> QED BY <2>1 DEF Excused
<1> QED BY <1>1, <1>2, <1>3, <1>4 DEF Excused

\* The poller's steps.
LEMMA PollExcused ==
    ASSUME TypeOK, TypeOK', Allocated, HandFits, Excused, PollStep
    PROVE  HandFits' /\ Excused'
<1> USE DEF remoteVars
<1>a. /\ announced \in [RunIds -> Nat] /\ Troubles \in Nat
      /\ row \in [RunIds -> JobRunRow] /\ run \in [RunIds -> Run]
      /\ inst \in [Workflows -> JobIds \cup {NoJob}] /\ poller \in Poller
  BY DEF TypeOK, Troubles
\* Nothing is in the poller's hand afterwards, or before.
<1>b. ASSUME UNCHANGED <<run, announced, crashes>>, Fault \/ NoFault, RowsKept,
             \A r \in RunIds : run[r].status # "none" /\ Gone(r) => Gone(r)',
             poller.pc # "mark",
             poller'.pc \notin {"announce", "mark"},
             \A r \in RunIds : poller'.listed[r] # "none" =>
                run[r].status # "none" /\ run[r].job = poller'.at[2]
      PROVE  HandFits' /\ Excused'
  <2>1. HandFits'
    BY <1>b DEF HandFits
  <2>2. Troubles' \in Nat /\ Troubles' >= Troubles
    BY <1>b, FaultSteady
  <2>3. ASSUME NEW r \in RunIds
        PROVE  /\ announced[r] <= Troubles' + 1
               /\ announced[r] <= Troubles' \/ row'[r].notified \/ Gone(r)'
    <3>1. CASE run[r].status = "none"
      BY <3>1, <2>2, <1>a DEF Excused
    <3>2. CASE run[r].status # "none"
      BY <3>2, <1>b, <2>2, <1>a DEF Excused, RowsKept
    <3> QED BY <3>1, <3>2
  <2> QED BY <1>b, <2>1, <2>3 DEF Excused
<1>1. ASSUME PollBegin \/ PollEnd \/ PollLost PROVE HandFits' /\ Excused'
  <2>1. /\ UNCHANGED <<run, inst, row, announced, request, crashes>> /\ NoFault
        /\ poller.pc # "mark"
    BY <1>1 DEF PollBegin, PollEnd, PollLost, NoFault
  <2>3. poller'.pc \in {"idle", "next"} /\ poller'.listed = NothingListed
    <3>1. CASE poller' = NotPolling
      BY <3>1 DEF NotPolling
    <3>2. CASE \E is : poller' = [NotPolling EXCEPT !.pc = "next", !.todo = is]
      BY <3>2 DEF NotPolling
    <3> QED BY <1>1, <3>1, <3>2 DEF PollBegin, PollEnd, PollLost
  <2>2. RowsKept /\ \A r \in RunIds : Gone(r) => Gone(r)'
    BY <2>1 DEF RowsKept, Gone
  <2>4. \A r \in RunIds : poller'.listed[r] = "none"
    BY <2>3 DEF NothingListed
  <2> QED BY <2>1, <2>2, <2>3, <2>4, <1>b
<1>2. ASSUME NEW i \in poller.todo, PollCleanUp(i) PROVE HandFits' /\ Excused'
  <2>1. i[1] \in Workflows /\ i[2] \in JobIds \cup {NoJob}
    BY <1>a DEF Poller, Installation
  <2>2. /\ UNCHANGED <<run, announced, request, crashes>> /\ (Fault \/ NoFault)
        /\ RemoveRow(i[1], i[2]) /\ poller.pc = "next"
    BY <1>2 DEF PollCleanUp, GetRaises
  <2>3. poller'.pc = "next" /\ poller'.listed = poller.listed /\ poller'.at = poller.at
    BY <1>2, <1>a DEF PollCleanUp, Poller
  <2> QED BY <2>1, <2>2, <2>3, <1>b, RemoveRowLoses DEF HandFits
<1>3. ASSUME NEW i \in poller.todo, PollList(i) PROVE HandFits' /\ Excused'
  <2>1. /\ UNCHANGED <<run, inst, row, announced, request, crashes>> /\ (Fault \/ NoFault)
        /\ poller.pc = "next"
    BY <1>3 DEF PollList
  <2>2. RowsKept /\ \A r \in RunIds : Gone(r) => Gone(r)'
    BY <2>1 DEF RowsKept, Gone
  <2>3. /\ poller'.pc \in {"next", "runs"}
        /\ \A r \in RunIds : poller'.listed[r] # "none" =>
              run[r].status # "none" /\ run[r].job = poller'.at[2]
    <3>1. CASE poller' = [poller EXCEPT !.todo = @ \ {i}]
      BY <3>1, <2>1, <1>a DEF HandFits, Poller
    <3>2. CASE poller' = [poller EXCEPT !.pc = "runs", !.todo = @ \ {i}, !.at = i,
                            !.listed = [r \in RunIds |-> IF r \in RunsOf(i[2])
                                                         THEN run[r].status ELSE "none"]]
      BY <3>2, <1>a DEF RunsOf, Poller
    <3> QED BY <1>3, <3>1, <3>2 DEF PollList
  <2> QED BY <2>1, <2>2, <2>3, <1>b
<1>4. ASSUME NEW r \in RunIds, PollUpsert(r) PROVE HandFits' /\ Excused'
  <2>1. /\ UNCHANGED <<run, inst, announced, request, faults, crashes>>
        /\ poller.pc = "runs" /\ poller.listed[r] # "none" /\ Installed(poller.at)
        /\ row' = [row EXCEPT ![r].status = poller.listed[r]]
    BY <1>4 DEF PollUpsert, Listed
  <2>2. /\ poller'.at = poller.at /\ poller'.cur = r
        /\ \A s \in RunIds : poller'.listed[s] # "none" => poller'.listed[s] = poller.listed[s]
        /\ poller'.pc = IF AnnounceUnmarked(r, poller.listed[r]) THEN "announce" ELSE "runs"
    BY <1>4, <1>a DEF PollUpsert, Poller
  <2>3. row'[r].status = poller.listed[r] /\ \A s \in RunIds : row'[s].notified = row[s].notified
    BY <2>1, <1>a DEF JobRunRow
  <2>4. run[r].status # "none" /\ run[r].job = poller.at[2]
    BY <2>1 DEF HandFits
  <2>5. HandFits'
    BY <2>1, <2>2, <2>3, <2>4 DEF HandFits
  <2>6. poller'.pc = "announce" => announced[r] <= Troubles
    <3>1. ~Gone(r)
      <4>1. inst[poller.at[1]] = poller.at[2] /\ run[r].job \in JobIds
        BY <2>1, <2>4 DEF Installed, Allocated
      <4>2. poller.at[1] \in Workflows
        BY <4>1, <1>a, <2>4, JobsAssumption DEF Poller, Installation, NoInstallation, NoJob, JobIds
      <4> QED BY <4>1, <4>2, <2>4 DEF Gone
    <3> QED BY <2>1, <2>2, <3>1 DEF Excused, AnnounceUnmarked
  <2> QED BY <2>1, <2>2, <2>3, <2>5, <2>6 DEF Excused, Gone, Troubles
<1>5. ASSUME PollAnnounce PROVE HandFits' /\ Excused'
  <2>1. PICK how \in {"trigger", "direct", "nothing"} :
          /\ how = "direct" => row[poller.cur].status = "failure"
          /\ Fault \/ NoFault
          /\ announced' = [announced EXCEPT ![poller.cur] = IF how = "trigger" THEN @ + 1 ELSE @]
          /\ poller' = [poller EXCEPT !.pc = "mark", !.how = how]
    BY <1>5 DEF PollAnnounce
  <2>2. UNCHANGED <<run, inst, row, request, crashes>> /\ poller.pc = "announce"
    BY <1>5 DEF PollAnnounce
  <2>3. /\ poller'.pc = "mark" /\ poller'.how = how /\ poller'.cur = poller.cur
        /\ poller'.listed = poller.listed /\ poller'.at = poller.at
    BY <2>1, <1>a DEF Poller
  <2>4. /\ poller.cur \in RunIds /\ announced[poller.cur] <= Troubles
        /\ run[poller.cur].status # "none"
    BY <2>2 DEF HandFits, Excused
  <2>5. Troubles' \in Nat /\ Troubles' >= Troubles
    BY <2>1, <2>2, FaultSteady
  <2>6. HandFits'
    BY <2>2, <2>3 DEF HandFits, Gone
  <2>7. /\ \A r \in RunIds : r # poller.cur => announced'[r] = announced[r]
        /\ announced'[poller.cur] = IF how = "trigger" THEN announced[poller.cur] + 1
                                    ELSE announced[poller.cur]
    BY <2>1, <2>4, <1>a
  <2>8. \A r \in RunIds : run'[r].status = "none" => announced'[r] = 0
    BY <2>2, <2>4, <2>7 DEF Excused
  <2>9. ASSUME NEW r \in RunIds
        PROVE  /\ announced'[r] <= Troubles' + 1
               /\ \/ announced'[r] <= Troubles'
                  \/ row'[r].notified
                  \/ Gone(r)'
                  \/ poller'.pc = "mark" /\ poller'.cur = r /\ poller'.how = "trigger"
    <3>1. CASE r = poller.cur
      BY <3>1, <2>3, <2>4, <2>5, <2>7, <1>a
    <3>2. CASE r # poller.cur
      BY <3>2, <2>2, <2>5, <2>7, <1>a DEF Excused, Gone
    <3> QED BY <3>1, <3>2
  <2>10. how # "trigger" => announced'[poller.cur] <= Troubles'
    BY <2>4, <2>5, <2>7, <1>a
  <2> QED BY <2>3, <2>6, <2>8, <2>9, <2>10 DEF Excused
<1>6. ASSUME PollMark PROVE HandFits' /\ Excused'
  <2> DEFINE r == poller.cur
  <2>1. /\ UNCHANGED <<run, inst, request, crashes>> /\ poller.pc = "mark" /\ (Fault \/ NoFault)
        /\ poller' = [poller EXCEPT !.pc = "runs", !.how = "none", !.cur = NoRun]
    BY <1>6 DEF PollMark
  <2>2. /\ poller'.pc = "runs" /\ poller'.listed = poller.listed /\ poller'.at = poller.at
    BY <2>1, <1>a DEF Poller
  <2>3. /\ r \in RunIds /\ run[r].status # "none"
        /\ row[r].status # "none" \/ Gone(r)
        /\ poller.how # "trigger" => announced[r] <= Troubles
        /\ announced[r] <= Troubles + 1
    BY <2>1 DEF HandFits, Excused
  <2>4. HandFits'
    BY <2>1, <2>2 DEF HandFits
  <2>5. Troubles' \in Nat /\ Troubles' >= Troubles
    BY <2>1, FaultSteady
  <2>6. CASE /\ announced' = [announced EXCEPT ![r] = IF poller.how = "direct" THEN @ + 1 ELSE @]
             /\ row' = Marked(r) /\ NoFault
    <3>1. /\ \A s \in RunIds : s # r => announced'[s] = announced[s] /\ row'[s] = row[s]
          /\ announced'[r] <= Troubles + 1
      BY <2>3, <2>6, <1>a DEF Marked
    <3>2. row[r].status # "none" => row'[r].notified
      BY <2>3, <2>6, <1>a DEF Marked, JobRunRow
    <3>3. Troubles' = Troubles
      BY <2>1, <2>6 DEF NoFault, Troubles
    <3> QED BY <2>1, <2>2, <2>3, <2>4, <3>1, <3>2, <3>3 DEF Excused, Gone
  <2>7. CASE Fault /\ UNCHANGED <<announced, row>>
    <3>1. Troubles' = Troubles + 1
      BY <2>1, <2>7 DEF Fault, Troubles, TypeOK
    <3> QED BY <2>1, <2>2, <2>3, <2>4, <2>7, <3>1, <1>a DEF Excused, Gone
  <2> QED BY <1>6, <2>6, <2>7 DEF PollMark
<1>7. ASSUME PollNext PROVE HandFits' /\ Excused'
  <2>1. /\ UNCHANGED <<run, inst, row, announced, request, crashes>> /\ NoFault
        /\ poller.pc = "runs" /\ \A r \in RunIds : poller.listed[r] = "none"
    BY <1>7 DEF PollNext, NoFault, Listed
  <2>2. poller'.pc = "next" /\ poller'.listed = poller.listed
    BY <1>7, <1>a DEF PollNext, Poller
  <2>3. RowsKept /\ \A r \in RunIds : Gone(r) => Gone(r)'
    BY <2>1 DEF RowsKept, Gone
  <2> QED BY <2>1, <2>2, <2>3, <1>b
<1> QED BY <1>1, <1>2, <1>3, <1>4, <1>5, <1>6, <1>7 DEF PollStep

LEMMA CrashExcused ==
    ASSUME TypeOK, HandFits, Excused, Crash
    PROVE  HandFits' /\ Excused'
<1>1. /\ UNCHANGED <<run, inst, row, announced>> /\ poller'.pc = "idle"
      /\ poller'.listed = NothingListed /\ request'.pc = "idle"
  BY DEF Crash, remoteVars, NotPolling, NoRequest
<1>2. Troubles' = Troubles + 1 /\ Troubles \in Nat /\ announced \in [RunIds -> Nat]
  BY DEF Crash, Troubles, TypeOK
<1> QED BY <1>1, <1>2 DEF HandFits, Excused, NothingListed

LEMMA JobsStepInv == ASSUME JInv, [Next]_vars PROVE JInv'
<1>1. TypeOK /\ Known /\ EveryJobIsKnown /\ HandFits /\ Excused
  BY DEF JInv, Known
<1>2. TypeOK'
  BY <1>1, JobsStepTyped
<1>3. Known' /\ EveryJobIsKnown'
  BY <1>1, <1>2, JobsStepKnown, StaysKnown DEF StepKnown, Known
<1>4. HandFits' /\ Excused'
  <2>1. CASE Elsewhere
    BY <1>1, <1>2, <2>1, ElsewhereSteady, QuietKeepsExcused DEF Known
  <2>2. CASE PollStep
    BY <1>1, <1>2, <2>2, PollExcused DEF Known
  <2>3. CASE Crash
    BY <1>1, <2>3, CrashExcused
  <2> QED BY <2>1, <2>2, <2>3 DEF Next, Elsewhere
<1> QED BY <1>2, <1>3, <1>4 DEF JInv, Known

\* The variables keep their types: run and job ids, what the poller and the
\* settings request hold between their steps, and the bound on troubles.
THEOREM JobsTypes == Spec => []TypeOK
<1>1. TypeOK /\ [Next]_vars => TypeOK'
  BY JobsStepTyped
<1> QED BY JobsInitTyped, <1>1, PTL DEF Spec

THEOREM JobsInvariant == Spec => []JInv
<1>1. JInv /\ [Next]_vars => JInv'
  BY JobsStepInv
<1> QED BY JobsInitInv, <1>1, PTL DEF Spec

\* Of the jobs that update_settings created in Databricks no more are lost from
\* workflow_installations than there were failing calls, failing writes and
\* crashes, whatever the poller removes meanwhile.
THEOREM NoJobIsLost == Spec => []EveryJobIsKnown
<1>1. JInv => EveryJobIsKnown
  BY DEF JInv
<1> QED BY JobsInvariant, <1>1, PTL

\* The poller announces an outcome once, and once more at most for each crash
\* and each failed write.
THEOREM OutcomesAnnouncedOnce == Spec => []AnnouncedOnce
<1>1. JInv => AnnouncedOnce
  <2>1. ASSUME JInv, NEW r \in RunIds PROVE announced[r] <= 1 + crashes + faults
    BY <2>1 DEF JInv, Excused, Troubles, TypeOK
  <2> QED BY <2>1 DEF AnnouncedOnce
<1> QED BY JobsInvariant, <1>1, PTL
=============================================================================
