----------------------------- MODULE OntologyRuns -----------------------------
(***************************************************************************)
(* Background runs of the ontology generator, for one user:                *)
(* OntologyGeneratorManager (controller/ontology_generator_manager.py),    *)
(* its repository and the routes that start, cancel and delete runs        *)
(* (routes/ontology_generator_routes.py).                                  *)
(*                                                                         *)
(* Starting a run is a synchronous route: each request has a thread of its *)
(* own.  The agent of a run has a thread, too.  Cancelling and deleting    *)
(* are coroutines, so there is one at a time.                              *)
(***************************************************************************)
EXTENDS Naturals, FiniteSets

CONSTANTS
    Runs,             \* ids of runs
    Starters,         \* threads that serve start requests
    NoRun,
    Cap,              \* MAX_CONCURRENT_RUNS_PER_USER
    MaxCancelled,     \* bound: runs that are cancelled
    MaxFaults         \* bound: crashes, threads that do not start, lost commits

ASSUME OntologyAssumption ==
    /\ NoRun \notin Runs
    /\ IsFiniteSet(Runs) /\ IsFiniteSet(Starters) /\ Starters # {}
    /\ Cap \in Nat \ {0} /\ MaxCancelled \in Nat /\ MaxFaults \in Nat

VARIABLES
    row,          \* ontology_generation_runs: the status of each run
    starter,      \* the start requests
    registered,   \* _cancel_events: the runs that have an entry
    signal,       \* ... and whether the event is set
    agent,        \* the thread of each run
    canceller,    \* the run that a cancel request has signalled, or NoRun
    faults,
    cancelled,    \* history: runs that a request cancelled
    heard         \* history: ... before their thread last looked at the event

vars == <<row, starter, registered, signal, agent, canceller, faults, cancelled, heard>>
history == <<cancelled, heard>>

Active == {"pending", "running"}
Ended == {"completed", "failed", "cancelled"}
Outcome == {"completed", "failed", "cancelled"}

TypeOK ==
    /\ row \in [Runs -> {"none", "deleted"} \cup Active \cup Ended]
    /\ starter \in [Starters -> [pc : {"idle", "create", "register"}, run : Runs \cup {NoRun}]]
    /\ registered \in SUBSET Runs
    /\ signal \in [Runs -> BOOLEAN]
    /\ agent \in [Runs -> [pc : {"none", "begin", "think", "write", "rescue", "leave", "ended"},
                           outcome : Outcome]]
    /\ canceller \in Runs \cup {NoRun}
    /\ faults \in 0 .. MaxFaults
    /\ cancelled \in SUBSET Runs
    /\ heard \in SUBSET Runs

IdleStarter == [pc |-> "idle", run |-> NoRun]
NoAgent == [pc |-> "none", outcome |-> "failed"]

Init ==
    /\ row = [r \in Runs |-> "none"]
    /\ starter = [h \in Starters |-> IdleStarter]
    /\ registered = {}
    /\ signal = [r \in Runs |-> FALSE]
    /\ agent = [r \in Runs |-> NoAgent]
    /\ canceller = NoRun
    /\ faults = 0
    /\ cancelled = {} /\ heard = {}

-----------------------------------------------------------------------------
(* Starting a run *)

RunningOnly == {r \in Runs : row[r] = "running"}
\* count_running_for_user counts the rows that are pending or running.
Occupied == {r \in Runs : row[r] \in Active}

\* start_run counts, and refuses at the cap, ...
CountRuns(h) ==
    /\ starter[h].pc = "idle"
    /\ Cardinality(Occupied) < Cap
    /\ starter' = [starter EXCEPT ![h].pc = "create"]
    /\ UNCHANGED <<row, registered, signal, agent, canceller, faults, history>>

\* ... commits the row, ...
CreateRun(h) ==
    /\ starter[h].pc = "create"
    /\ \E r \in Runs : row[r] = "none"
    /\ LET r == CHOOSE r \in Runs : row[r] = "none" IN  \* a new uuid; any will do
         /\ row' = [row EXCEPT ![r] = "pending"]
         /\ starter' = [starter EXCEPT ![h] = [pc |-> "register", run |-> r]]
    /\ UNCHANGED <<registered, signal, agent, canceller, faults, history>>

\* ... and only then puts the event where a cancel request finds it, and
\* starts the thread.
StartThread(h) ==
    /\ starter[h].pc = "register"
    /\ registered' = registered \cup {starter[h].run}
    /\ agent' = [agent EXCEPT ![starter[h].run].pc = "begin"]
    /\ starter' = [starter EXCEPT ![h] = IdleStarter]
    /\ UNCHANGED <<row, signal, canceller, faults, history>>

\* The thread cannot be started: the row and the event stay.
ThreadFails(h) ==
    /\ starter[h].pc = "register"
    /\ faults < MaxFaults  \* bound
    /\ faults' = faults + 1
    /\ registered' = registered \cup {starter[h].run}
    /\ starter' = [starter EXCEPT ![h] = IdleStarter]
    /\ UNCHANGED <<row, signal, agent, canceller, history>>

-----------------------------------------------------------------------------
(* The thread of a run: _run_generation and generate_ontology *)

\* update_status does nothing when the row was deleted.
Store(r, status) ==
    row' = IF row[r] = "deleted" THEN row ELSE [row EXCEPT ![r] = status]

\* 'running' replaces even 'cancelled'.
Begin(r) ==
    /\ agent[r].pc = "begin"
    /\ Store(r, "running")
    /\ agent' = [agent EXCEPT ![r].pc = "think"]
    /\ UNCHANGED <<starter, registered, signal, canceller, faults, history>>

AgentOutcome(r, outcome) == outcome
KeepsTheRow(r, outcome) == IF signal[r] THEN row[r] ELSE outcome
\* The event outweighs what the agent brought.
Verdict(r, outcome) == IF signal[r] THEN "cancelled" ELSE outcome

\* The agent returns: its loop ends after MAX_ITERATIONS at the latest, or at
\* the first iteration that finds the event set.  Then comes the last look.
Judge(r) ==
    /\ agent[r].pc = "think"
    /\ \E outcome \in {"completed", "failed"} :
         agent' = [agent EXCEPT ![r] = [pc |-> "write", outcome |-> Verdict(r, outcome)]]
    /\ UNCHANGED <<row, starter, registered, signal, canceller, faults, history>>

StoreUnlessCancelled(r, status) ==
    row' = IF row[r] = "deleted" \/ status = "cancelled" THEN row
           ELSE [row EXCEPT ![r] = status]
StoreOutcome(r, status) == Store(r, status)

Write(r) ==
    /\ agent[r].pc = "write"
    /\ StoreOutcome(r, agent[r].outcome)
    /\ agent' = [agent EXCEPT ![r] = [NoAgent EXCEPT !.pc = "leave"]]
    /\ UNCHANGED <<starter, registered, signal, canceller, faults, history>>

\* The agent, or the conversion of its result, raises.
Raise(r) ==
    /\ \/ agent[r].pc = "think"
       \/ agent[r].pc = "write" /\ agent[r].outcome = "completed"
    /\ agent' = [agent EXCEPT ![r] = [NoAgent EXCEPT !.pc = "rescue"]]
    /\ UNCHANGED <<row, starter, registered, signal, canceller, faults, history>>

Rescue(r) ==
    /\ agent[r].pc = "rescue"
    /\ Store(r, "failed")
    /\ agent' = [agent EXCEPT ![r] = [NoAgent EXCEPT !.pc = "leave"]]
    /\ UNCHANGED <<starter, registered, signal, canceller, faults, history>>

\* The database fails: the rescue uses the broken session without a rollback,
\* fails as well, and the row stays as it is.
LoseCommit(r) ==
    /\ agent[r].pc \in {"begin", "write", "rescue"}
    /\ faults < MaxFaults  \* bound
    /\ faults' = faults + 1
    /\ agent' = [agent EXCEPT ![r] = [NoAgent EXCEPT !.pc = "leave"]]
    /\ UNCHANGED <<row, starter, registered, signal, canceller, history>>

\* finally
Leave(r) ==
    /\ agent[r].pc = "leave"
    /\ registered' = registered \ {r}
    /\ signal' = [signal EXCEPT ![r] = FALSE]
    /\ agent' = [agent EXCEPT ![r].pc = "ended"]
    /\ UNCHANGED <<row, starter, canceller, faults, history>>

-----------------------------------------------------------------------------
(* Cancelling and deleting: the route delete_run *)

\* cancel_run sets the event, if there is one, ...
Cancel(r) ==
    /\ canceller = NoRun
    /\ row[r] \in Active
    /\ Cardinality(cancelled \cup {r}) <= MaxCancelled  \* bound
    /\ signal' = [signal EXCEPT ![r] = @ \/ r \in registered]
    /\ canceller' = r
    /\ cancelled' = cancelled \cup {r}
    /\ heard' = IF r \in registered /\ agent[r].pc \in {"begin", "think"}
                THEN heard \cup {r} ELSE heard
    /\ UNCHANGED <<row, starter, registered, agent, faults>>

\* ... and the route commits 'cancelled', whatever the thread wrote since.
CancelCommits ==
    /\ canceller # NoRun
    /\ row' = [row EXCEPT ![canceller] = "cancelled"]
    /\ canceller' = NoRun
    /\ UNCHANGED <<starter, registered, signal, agent, faults, history>>

DeleteRun(r) ==
    /\ canceller = NoRun
    /\ row[r] \in Ended
    /\ row' = [row EXCEPT ![r] = "deleted"]
    /\ UNCHANGED <<starter, registered, signal, agent, canceller, faults, history>>

\* The process dies.  Nothing repairs the rows when it is back.
Crash ==
    /\ faults < MaxFaults  \* bound
    /\ faults' = faults + 1
    /\ starter' = [h \in Starters |-> IdleStarter]
    /\ registered' = {}
    /\ signal' = [r \in Runs |-> FALSE]
    /\ agent' = [r \in Runs |-> IF agent[r].pc = "none" THEN NoAgent
                                ELSE [NoAgent EXCEPT !.pc = "ended"]]
    /\ canceller' = NoRun
    /\ UNCHANGED <<row, history>>

-----------------------------------------------------------------------------

Request(h) == CountRuns(h) \/ CreateRun(h) \/ StartThread(h)
AgentStep(r) == Begin(r) \/ Judge(r) \/ Write(r) \/ Rescue(r) \/ Leave(r)

Next ==
    \/ \E h \in Starters : Request(h) \/ ThreadFails(h)
    \/ \E r \in Runs : AgentStep(r) \/ Raise(r) \/ LoseCommit(r) \/ Cancel(r) \/ DeleteRun(r)
    \/ CancelCommits
    \/ Crash

Spec == Init /\ [][Next]_vars

\* Threads go on: a request that has created its row gets to the thread, an
\* agent's steps are taken (each call of the model answers or times out), and
\* a coroutine without an await runs to its end.
Fairness ==
    /\ \A h \in Starters : WF_vars(StartThread(h))
    /\ \A r \in Runs : WF_vars(AgentStep(r))
    /\ WF_vars(CancelCommits)

FairSpec == Spec /\ Fairness

-----------------------------------------------------------------------------
(* Properties *)

\* Counting and creating are two steps of concurrent requests: the cap may be
\* exceeded, but only by the requests that are under way beside the last one.
\* Runs that were cancelled do not count: a thread that begins after the
\* cancellation writes 'running' once more.
CapHolds ==
    Cardinality({r \in Runs \ cancelled : row[r] \in Active}) < Cap + Cardinality(Starters)

\* A cancellation that reaches the event before the thread's last look leaves
\* no result behind, whatever the agent brought and whichever of the route
\* and the thread writes last.
CancelledInTime == \A r \in heard : row[r] # "completed"

\* A run that is pending or running gets out of these statuses, also when it
\* was cancelled before its thread began, or before its event was registered,
\* unless the process, a thread or a commit was lost.
RunsEnd == \A r \in Runs :
    row[r] \in Active ~> (row[r] \notin Active \/ faults > 0)
=============================================================================
