------------------------- MODULE OntologyRunsProofs -------------------------
(***************************************************************************)
(* Proofs about OntologyRuns, for any runs, any number of start requests   *)
(* and any cap: how far concurrent requests exceed the cap, and what a     *)
(* cancellation in time promises.                                          *)
(***************************************************************************)
EXTENDS OntologyRuns, FiniteSetTheorems, TLAPS

\* A run between the commit of its row and the start of its thread is in the
\* hands of one request, and like one whose thread has not begun it was at
\* most cancelled and deleted.
Untouched == {"pending", "cancelled", "deleted"}
StartsInOrder ==
    /\ \A h \in Starters : starter[h].pc = "register" =>
          /\ starter[h].run \in Runs /\ row[starter[h].run] \in Untouched
          /\ agent[starter[h].run].pc = "none"
    /\ \A g, h \in Starters :
          starter[g].pc = "register" /\ starter[h].pc = "register" /\ starter[g].run = starter[h].run
             => g = h
    /\ \A r \in Runs : row[r] = "none" => agent[r].pc = "none"
    /\ \A r \in Runs : agent[r].pc = "begin" => row[r] \in Untouched

\* Only cancelled runs are signalled, judged or stored as cancelled.
CancelledByRequest ==
    /\ \A r \in Runs : row[r] = "cancelled" => r \in cancelled
    /\ \A r \in Runs : signal[r] => r \in cancelled
    /\ \A r \in Runs : agent[r].outcome = "cancelled" => r \in cancelled
    /\ canceller # NoRun => canceller \in cancelled

\* A run cancelled in time keeps the signal until its thread has judged.
SignalKept == \A r \in heard :
    /\ row[r] # "completed"
    /\ agent[r].pc # "none"
    /\ agent[r].pc \in {"begin", "think"} => signal[r]
    /\ agent[r].pc = "write" => agent[r].outcome # "completed"

\* What counts against the cap: active runs that were not cancelled, and
\* requests that have counted and not created yet.
Counted == {r \in Runs \ cancelled : row[r] \in Active}
Counting == {h \in Starters : starter[h].pc = "create"}
CapInv == Cardinality(Counted) + Cardinality(Counting) < Cap + Cardinality(Starters)

OInv == TypeOK /\ StartsInOrder /\ CancelledByRequest /\ SignalKept /\ CapInv

-----------------------------------------------------------------------------
(* Types *)

\* A request that has created its row knows the run.
Held == \A h \in Starters : starter[h].pc = "register" => starter[h].run \in Runs

LEMMA OntologyInitTyped == Init => TypeOK /\ Held
BY OntologyAssumption DEF Init, TypeOK, Held, IdleStarter, NoAgent, Outcome

LEMMA StoreTyped ==
    ASSUME TypeOK, NEW r \in Runs, NEW status \in Active \cup Ended, Store(r, status)
    PROVE  row' \in [Runs -> {"none", "deleted"} \cup Active \cup Ended]
BY DEF TypeOK, Store

AgentPc == {"none", "begin", "think", "write", "rescue", "leave", "ended"}

LEMMA AgentTyped ==
    ASSUME TypeOK, NEW r \in Runs, NEW pc \in AgentPc, NEW outcome \in Outcome
    PROVE  /\ [agent EXCEPT ![r].pc = pc] \in [Runs -> [pc : AgentPc, outcome : Outcome]]
           /\ [agent EXCEPT ![r] = [pc |-> pc, outcome |-> outcome]]
                 \in [Runs -> [pc : AgentPc, outcome : Outcome]]
           /\ [agent EXCEPT ![r] = [NoAgent EXCEPT !.pc = pc]]
                 \in [Runs -> [pc : AgentPc, outcome : Outcome]]
BY DEF TypeOK, AgentPc, NoAgent, Outcome

LEMMA OntologyStepTyped == ASSUME TypeOK, Held, [Next]_vars PROVE TypeOK' /\ Held'
<1> USE OntologyAssumption DEF history
<1> DEFINE Goal == TypeOK' /\ Held'
<1>a. starter \in [Starters -> [pc : {"idle", "create", "register"}, run : Runs \cup {NoRun}]]
  BY DEF TypeOK
<1>1. ASSUME NEW h \in Starters, CountRuns(h) PROVE Goal
  BY <1>1 DEF CountRuns, TypeOK, Held
<1>2. ASSUME NEW h \in Starters, CreateRun(h) PROVE Goal
  <2>1. PICK r \in Runs : /\ row' = [row EXCEPT ![r] = "pending"]
                          /\ starter' = [starter EXCEPT ![h] = [pc |-> "register", run |-> r]]
    BY <1>2 DEF CreateRun
  <2> QED BY <1>2, <2>1 DEF CreateRun, Active, TypeOK, Held
<1>3. ASSUME NEW h \in Starters, StartThread(h) \/ ThreadFails(h) PROVE Goal
  <2>1. starter[h].run \in Runs /\ faults' \in 0 .. MaxFaults /\ registered' \in SUBSET Runs
    BY <1>3 DEF StartThread, ThreadFails, TypeOK, Held
  <2>2. agent' \in [Runs -> [pc : AgentPc, outcome : Outcome]]
    <3>1. agent' = agent \/ agent' = [agent EXCEPT ![starter[h].run].pc = "begin"]
      BY <1>3 DEF StartThread, ThreadFails
    <3>2. "begin" \in AgentPc /\ "failed" \in Outcome
      BY DEF AgentPc, Outcome
    <3>3. [agent EXCEPT ![starter[h].run].pc = "begin"] \in [Runs -> [pc : AgentPc, outcome : Outcome]]
      BY <2>1, <3>2, AgentTyped
    <3> QED BY <3>1, <3>3 DEF TypeOK, AgentPc
  <2>3. starter' = [starter EXCEPT ![h] = IdleStarter] /\ UNCHANGED <<row, signal, canceller, cancelled, heard>>
    BY <1>3 DEF StartThread, ThreadFails
  <2> QED BY <2>1, <2>2, <2>3 DEF TypeOK, Held, AgentPc, IdleStarter
<1>4. ASSUME NEW r \in Runs, AgentStep(r) \/ Raise(r) \/ LoseCommit(r) PROVE Goal
  <2>1. agent[r].outcome \in Outcome /\ Outcome = Ended
    BY DEF TypeOK, Outcome, Ended
  <2>2. row' \in [Runs -> {"none", "deleted"} \cup Active \cup Ended]
    <3>1. CASE row' = row
      BY <3>1 DEF TypeOK
    <3>2. ASSUME NEW status \in Active \cup Ended, Store(r, status)
          PROVE  row' \in [Runs -> {"none", "deleted"} \cup Active \cup Ended]
      BY <3>2, StoreTyped
    <3> QED BY <1>4, <2>1, <3>1, <3>2 DEF AgentStep, Begin, Judge, Write, StoreOutcome, Rescue, Leave,
         Raise, LoseCommit, Active, Ended
  <2>3. agent' \in [Runs -> [pc : AgentPc, outcome : Outcome]]
    <3>1. \E pc \in AgentPc, outcome \in Outcome :
             \/ agent' = [agent EXCEPT ![r].pc = pc]
             \/ agent' = [agent EXCEPT ![r] = [pc |-> pc, outcome |-> outcome]]
             \/ agent' = [agent EXCEPT ![r] = [NoAgent EXCEPT !.pc = pc]]
      <4>1. CASE Judge(r)
        BY <4>1 DEF Judge, Verdict, AgentPc, Outcome
      <4>2. CASE ~Judge(r)
        BY <1>4, <4>2 DEF AgentStep, Begin, Write, Rescue, Leave, Raise, LoseCommit, AgentPc, Outcome
      <4> QED BY <4>1, <4>2
    <3>2. PICK pc \in AgentPc, outcome \in Outcome :
             \/ agent' = [agent EXCEPT ![r].pc = pc]
             \/ agent' = [agent EXCEPT ![r] = [pc |-> pc, outcome |-> outcome]]
             \/ agent' = [agent EXCEPT ![r] = [NoAgent EXCEPT !.pc = pc]]
      BY <3>1
    <3>3. /\ [agent EXCEPT ![r].pc = pc] \in [Runs -> [pc : AgentPc, outcome : Outcome]]
          /\ [agent EXCEPT ![r] = [pc |-> pc, outcome |-> outcome]]
                \in [Runs -> [pc : AgentPc, outcome : Outcome]]
          /\ [agent EXCEPT ![r] = [NoAgent EXCEPT !.pc = pc]]
                \in [Runs -> [pc : AgentPc, outcome : Outcome]]
      BY AgentTyped
    <3>4. CASE agent' = [agent EXCEPT ![r].pc = pc]
      BY <3>3, <3>4
    <3>5. CASE agent' = [agent EXCEPT ![r] = [pc |-> pc, outcome |-> outcome]]
      BY <3>3, <3>5
    <3>6. CASE agent' = [agent EXCEPT ![r] = [NoAgent EXCEPT !.pc = pc]]
      BY <3>3, <3>6
    <3> QED BY <3>2, <3>4, <3>5, <3>6
  <2>4. UNCHANGED <<starter, canceller, cancelled, heard>>
    BY <1>4 DEF AgentStep, Begin, Judge, Write, Rescue, Leave, Raise, LoseCommit
  <2>5. faults' \in 0 .. MaxFaults
    <3>1. faults' = faults \/ (faults < MaxFaults /\ faults' = faults + 1)
      BY <1>4 DEF AgentStep, Begin, Judge, Write, Rescue, Leave, Raise, LoseCommit
    <3> QED BY <3>1 DEF TypeOK
  <2>6. registered' \in SUBSET Runs /\ signal' \in [Runs -> BOOLEAN]
    <3>1. \/ registered' = registered /\ signal' = signal
          \/ registered' = registered \ {r} /\ signal' = [signal EXCEPT ![r] = FALSE]
      BY <1>4 DEF AgentStep, Begin, Judge, Write, Rescue, Leave, Raise, LoseCommit
    <3> QED BY <3>1 DEF TypeOK
  <2> QED BY <2>2, <2>3, <2>4, <2>5, <2>6 DEF TypeOK, Held, AgentPc
<1>5. ASSUME NEW r \in Runs, Cancel(r) PROVE Goal
  <2>1. signal' \in [Runs -> BOOLEAN]
    BY <1>5 DEF Cancel, TypeOK
  <2>2. cancelled' \in SUBSET Runs /\ heard' \in SUBSET Runs /\ canceller' \in Runs \cup {NoRun}
    BY <1>5 DEF Cancel, TypeOK
  <2> QED BY <1>5, <2>1, <2>2 DEF Cancel, TypeOK, Held
<1>6. ASSUME CancelCommits \/ \E r \in Runs : DeleteRun(r) PROVE Goal
  BY <1>6 DEF CancelCommits, DeleteRun, TypeOK, Held, Ended
<1>7. ASSUME Crash PROVE Goal
  <2>1. agent' \in [Runs -> [pc : AgentPc, outcome : Outcome]]
    BY <1>7 DEF Crash, NoAgent, AgentPc, Outcome
  <2> QED BY <1>7, <2>1 DEF Crash, TypeOK, Held, IdleStarter, AgentPc
<1>8. ASSUME UNCHANGED vars PROVE Goal
  BY <1>8 DEF vars, TypeOK, Held
<1> QED BY <1>1, <1>2, <1>3, <1>4, <1>5, <1>6, <1>7, <1>8 DEF Next, Request

-----------------------------------------------------------------------------
(* The order of a start *)

LEMMA StartsStep ==
    ASSUME TypeOK, StartsInOrder, CancelledByRequest, [Next]_vars
    PROVE  StartsInOrder'
<1> USE OntologyAssumption DEF history
<1>a. /\ starter \in [Starters -> [pc : {"idle", "create", "register"}, run : Runs \cup {NoRun}]]
      /\ row \in [Runs -> {"none", "deleted"} \cup Active \cup Ended]
      /\ agent \in [Runs -> [pc : AgentPc, outcome : Outcome]]
      /\ canceller \in Runs \cup {NoRun}
  BY DEF TypeOK, AgentPc
<1>1. ASSUME NEW h \in Starters, CountRuns(h) PROVE StartsInOrder'
  BY <1>1, <1>a DEF CountRuns, StartsInOrder
<1>2. ASSUME NEW h \in Starters, CreateRun(h) PROVE StartsInOrder'
  <2>1. PICK r \in Runs : /\ row[r] = "none"
                          /\ row' = [row EXCEPT ![r] = "pending"]
                          /\ starter' = [starter EXCEPT ![h] = [pc |-> "register", run |-> r]]
    BY <1>2 DEF CreateRun
  <2>2. agent' = agent /\ agent[r].pc = "none"
    BY <1>2, <2>1 DEF CreateRun, StartsInOrder
  <2>3. \A g \in Starters : starter[g].pc = "register" => starter[g].run # r
    BY <2>1 DEF StartsInOrder, Untouched
  <2> QED BY <2>1, <2>2, <2>3, <1>a DEF StartsInOrder, Untouched
<1>3. ASSUME NEW h \in Starters, StartThread(h) \/ ThreadFails(h) PROVE StartsInOrder'
  <2>1. /\ starter[h].pc = "register" /\ starter' = [starter EXCEPT ![h] = IdleStarter]
        /\ row' = row
        /\ agent' = agent \/ agent' = [agent EXCEPT ![starter[h].run].pc = "begin"]
    BY <1>3 DEF StartThread, ThreadFails
  <2>2. \A g \in Starters : starter'[g].pc = "register" =>
           starter[g].pc = "register" /\ starter'[g] = starter[g] /\ starter[g].run # starter[h].run
    BY <2>1, <1>a DEF IdleStarter, StartsInOrder
  <2>3. \A r \in Runs : r # starter[h].run => agent'[r] = agent[r]
    BY <2>1, <1>a
  <2>4. starter[h].run \in Runs /\ row[starter[h].run] \in Untouched
    BY <2>1 DEF StartsInOrder
  <2>5. \A g \in Starters : starter'[g].pc = "register" =>
          /\ starter'[g].run \in Runs /\ row'[starter'[g].run] \in Untouched
          /\ agent'[starter'[g].run].pc = "none"
    BY <2>1, <2>2, <2>3 DEF StartsInOrder
  <2>6. \A f, g \in Starters :
          starter'[f].pc = "register" /\ starter'[g].pc = "register" /\ starter'[f].run = starter'[g].run
             => f = g
    BY <2>2 DEF StartsInOrder
  <2>7. \A r \in Runs : row'[r] = "none" => agent'[r].pc = "none"
    BY <2>1, <2>3, <2>4 DEF StartsInOrder, Untouched
  <2>8. \A r \in Runs : agent'[r].pc = "begin" => row'[r] \in Untouched
    BY <2>1, <2>3, <2>4 DEF StartsInOrder
  <2> QED BY <2>5, <2>6, <2>7, <2>8 DEF StartsInOrder
<1>4. ASSUME NEW r \in Runs, AgentStep(r) \/ Raise(r) \/ LoseCommit(r) PROVE StartsInOrder'
  <2>1. starter' = starter /\ agent[r].pc # "none"
    BY <1>4 DEF AgentStep, Begin, Judge, Write, Rescue, Leave, Raise, LoseCommit
  <2>2. agent'[r].pc \notin {"none", "begin"} /\ \A s \in Runs : s # r => agent'[s] = agent[s]
    BY <1>4, <1>a DEF AgentStep, Begin, Judge, Write, Rescue, Leave, Raise, LoseCommit, NoAgent
  <2>3. /\ \A s \in Runs : s # r => row'[s] = row[s]
        /\ row'[r] = "none" => row[r] = "none"
    BY <1>4, <1>a DEF AgentStep, Begin, Judge, Write, Rescue, Leave, Raise, LoseCommit,
       StoreOutcome, Store, Outcome
  <2> QED BY <2>1, <2>2, <2>3, <1>a DEF StartsInOrder
<1>5. ASSUME CancelCommits \/ \E r \in Runs : DeleteRun(r) PROVE StartsInOrder'
  <2>1. UNCHANGED <<starter, agent>>
    BY <1>5 DEF CancelCommits, DeleteRun
  <2>2. \A r \in Runs : row'[r] = row[r] \/ row'[r] \in {"cancelled", "deleted"}
    BY <1>5, <1>a DEF CancelCommits, DeleteRun
  <2> QED BY <2>1, <2>2 DEF StartsInOrder, Untouched
<1>6. ASSUME \E r \in Runs : Cancel(r) PROVE StartsInOrder'
  BY <1>6 DEF Cancel, StartsInOrder
<1>7. ASSUME Crash PROVE StartsInOrder'
  <2>1. row' = row /\ \A h \in Starters : starter'[h].pc = "idle"
    BY <1>7 DEF Crash, IdleStarter
  <2>2. \A r \in Runs : agent'[r].pc = IF agent[r].pc = "none" THEN "none" ELSE "ended"
    BY <1>7 DEF Crash, NoAgent
  <2> QED BY <2>1, <2>2 DEF StartsInOrder
<1>8. ASSUME UNCHANGED vars PROVE StartsInOrder'
  BY <1>8 DEF vars, StartsInOrder
<1> QED BY <1>1, <1>2, <1>3, <1>4, <1>5, <1>6, <1>7, <1>8 DEF Next, Request

-----------------------------------------------------------------------------
(* Cancelled in time *)

LEMMA SignalsStep ==
    ASSUME TypeOK, StartsInOrder, CancelledByRequest, SignalKept, [Next]_vars
    PROVE  CancelledByRequest' /\ SignalKept'
<1> USE OntologyAssumption DEF history
<1>a. /\ row \in [Runs -> {"none", "deleted"} \cup Active \cup Ended]
      /\ agent \in [Runs -> [pc : AgentPc, outcome : Outcome]]
      /\ signal \in [Runs -> BOOLEAN]
      /\ canceller \in Runs \cup {NoRun}
      /\ heard \in SUBSET Runs /\ cancelled \in SUBSET Runs
  BY DEF TypeOK, AgentPc
<1> DEFINE Goal == CancelledByRequest' /\ SignalKept'
<1>1. ASSUME NEW h \in Starters, CountRuns(h) PROVE Goal
  BY <1>1 DEF CountRuns, CancelledByRequest, SignalKept
<1>2. ASSUME NEW h \in Starters, CreateRun(h) PROVE Goal
  <2>1. /\ UNCHANGED <<signal, agent, canceller, cancelled, heard>>
        /\ \A r \in Runs : row'[r] = row[r] \/ row'[r] = "pending"
    BY <1>2, <1>a DEF CreateRun
  <2> QED BY <2>1, <1>a DEF CancelledByRequest, SignalKept
<1>3. ASSUME NEW h \in Starters, StartThread(h) \/ ThreadFails(h) PROVE Goal
  <2>1. /\ UNCHANGED <<row, signal, canceller, cancelled, heard>> /\ starter[h].pc = "register"
        /\ agent' = agent \/ agent' = [agent EXCEPT ![starter[h].run].pc = "begin"]
    BY <1>3 DEF StartThread, ThreadFails
  <2>2. starter[h].run \in Runs /\ starter[h].run \notin heard
    BY <2>1 DEF StartsInOrder, SignalKept
  <2>3. /\ \A r \in Runs : r # starter[h].run => agent'[r] = agent[r]
        /\ \A r \in Runs : agent'[r].outcome = agent[r].outcome
    BY <2>1, <1>a
  <2> QED BY <2>1, <2>2, <2>3, <1>a DEF CancelledByRequest, SignalKept
<1>4. ASSUME NEW r \in Runs, AgentStep(r) \/ Raise(r) \/ LoseCommit(r) PROVE Goal
  <2>1. UNCHANGED <<canceller, cancelled, heard>>
    BY <1>4 DEF AgentStep, Begin, Judge, Write, Rescue, Leave, Raise, LoseCommit
  <2>2. \A s \in Runs : s # r => agent'[s] = agent[s] /\ row'[s] = row[s] /\ signal'[s] = signal[s]
    BY <1>4, <1>a DEF AgentStep, Begin, Judge, Write, Rescue, Leave, Raise, LoseCommit, StoreOutcome, Store
  <2>3. CASE Begin(r)
    <3>1. /\ agent'[r].pc = "think" /\ agent'[r].outcome = agent[r].outcome /\ signal' = signal
          /\ row'[r] \in {"deleted", "running"} /\ agent[r].pc = "begin"
      BY <2>3, <1>a DEF Begin, Store
    <3> QED BY <2>1, <2>2, <3>1, <1>a DEF CancelledByRequest, SignalKept
  <2>4. CASE Judge(r)
    <3>1. PICK outcome \in {"completed", "failed"} :
             agent' = [agent EXCEPT ![r] = [pc |-> "write", outcome |-> Verdict(r, outcome)]]
      BY <2>4 DEF Judge
    <3>2. agent'[r].pc = "write" /\ agent'[r].outcome = Verdict(r, outcome)
          /\ UNCHANGED <<row, signal>> /\ agent[r].pc = "think"
      BY <2>4, <3>1, <1>a DEF Judge
    <3> QED BY <2>1, <2>2, <3>2, <1>a DEF CancelledByRequest, SignalKept, Verdict
  <2>5. CASE Write(r) \/ Rescue(r)
    <3>1. /\ agent'[r] = [NoAgent EXCEPT !.pc = "leave"] /\ signal' = signal
          /\ \/ row'[r] = row[r] \/ row'[r] = "failed"
             \/ agent[r].pc = "write" /\ row'[r] = agent[r].outcome
      BY <2>5, <1>a DEF Write, Rescue, StoreOutcome, Store
    <3> QED BY <2>1, <2>2, <3>1, <1>a DEF CancelledByRequest, SignalKept, NoAgent
  <2>6. CASE Raise(r) \/ LoseCommit(r)
    <3>1. /\ agent'[r].pc \in {"rescue", "leave"} /\ agent'[r].outcome = "failed"
          /\ UNCHANGED <<row, signal>>
      BY <2>6, <1>a DEF Raise, LoseCommit, NoAgent
    <3> QED BY <2>1, <2>2, <3>1, <1>a DEF CancelledByRequest, SignalKept
  <2>7. CASE Leave(r)
    <3>1. /\ agent'[r].pc = "ended" /\ agent'[r].outcome = agent[r].outcome /\ row' = row
          /\ signal'[r] = FALSE
      BY <2>7, <1>a DEF Leave
    <3> QED BY <2>1, <2>2, <3>1, <1>a DEF CancelledByRequest, SignalKept
  <2> QED BY <1>4, <2>3, <2>4, <2>5, <2>6, <2>7 DEF AgentStep
<1>5. ASSUME NEW r \in Runs, Cancel(r) PROVE Goal
  <2>1. /\ UNCHANGED <<row, agent>> /\ row[r] \in Active /\ canceller' = r
        /\ cancelled' = cancelled \cup {r}
        /\ heard' = IF r \in registered /\ agent[r].pc \in {"begin", "think"}
                    THEN heard \cup {r} ELSE heard
    BY <1>5 DEF Cancel
  <2>2. /\ \A s \in Runs : s # r => signal'[s] = signal[s]
        /\ signal[r] \/ r \in registered => signal'[r]
    BY <1>5, <1>a DEF Cancel
  <2>3. CancelledByRequest'
    BY <2>1, <2>2 DEF CancelledByRequest
  <2>4. SignalKept'
    BY <2>1, <2>2, <1>a DEF SignalKept, Active
  <2> QED BY <2>3, <2>4
<1>6. ASSUME CancelCommits \/ \E r \in Runs : DeleteRun(r) PROVE Goal
  <2>1. UNCHANGED <<agent, signal, cancelled, heard>> /\ canceller' = NoRun
    BY <1>6 DEF CancelCommits, DeleteRun
  <2>2. \A r \in Runs : \/ row'[r] = row[r] \/ row'[r] = "deleted"
                        \/ row'[r] = "cancelled" /\ r \in cancelled
    BY <1>6, <1>a DEF CancelCommits, DeleteRun, CancelledByRequest
  <2> QED BY <2>1, <2>2, <1>a DEF CancelledByRequest, SignalKept
<1>7. ASSUME Crash PROVE Goal
  <2>1. UNCHANGED <<row, cancelled, heard>> /\ canceller' = NoRun /\ \A r \in Runs : ~signal'[r]
    BY <1>7 DEF Crash
  <2>2. \A r \in Runs : /\ agent'[r].pc = IF agent[r].pc = "none" THEN "none" ELSE "ended"
                        /\ agent'[r].outcome = "failed"
    BY <1>7 DEF Crash, NoAgent
  <2> QED BY <2>1, <2>2, <1>a DEF CancelledByRequest, SignalKept
<1>8. ASSUME UNCHANGED vars PROVE Goal
  BY <1>8 DEF vars, CancelledByRequest, SignalKept
<1> QED BY <1>1, <1>2, <1>3, <1>4, <1>5, <1>6, <1>7, <1>8 DEF Next, Request

-----------------------------------------------------------------------------
(* The cap *)

LEMMA CountsFinite ==
    ASSUME NEW S \in SUBSET Runs, NEW T \in SUBSET Starters
    PROVE  /\ IsFiniteSet(S) /\ Cardinality(S) \in Nat
           /\ IsFiniteSet(T) /\ Cardinality(T) \in Nat
           /\ Cardinality(T) <= Cardinality(Starters) /\ Cardinality(Starters) \in Nat
BY OntologyAssumption, FS_Subset, FS_CardinalityType

LEMMA CapStep ==
    ASSUME TypeOK, StartsInOrder, CancelledByRequest, CapInv, [Next]_vars
    PROVE  CapInv'
<1> USE OntologyAssumption DEF history
<1>a. /\ row \in [Runs -> {"none", "deleted"} \cup Active \cup Ended]
      /\ starter \in [Starters -> [pc : {"idle", "create", "register"}, run : Runs \cup {NoRun}]]
      /\ agent \in [Runs -> [pc : AgentPc, outcome : Outcome]]
      /\ canceller \in Runs \cup {NoRun}
  BY DEF TypeOK, AgentPc
<1>b. /\ IsFiniteSet(Counted) /\ Cardinality(Counted) \in Nat
      /\ IsFiniteSet(Counting) /\ Cardinality(Counting) \in Nat
      /\ Cardinality(Starters) \in Nat /\ Cap \in Nat
  BY CountsFinite DEF Counted, Counting
\* A step that adds nothing to what counts.
<1>c. ASSUME Counted' \subseteq Counted, Counting' \subseteq Counting PROVE CapInv'
  <2>1. Cardinality(Counted') <= Cardinality(Counted)
        /\ Cardinality(Counting') <= Cardinality(Counting)
        /\ Cardinality(Counted') \in Nat /\ Cardinality(Counting') \in Nat
    BY <1>b, <1>c, FS_Subset, FS_CardinalityType
  <2> QED BY <1>b, <2>1 DEF CapInv
<1>1. ASSUME NEW h \in Starters, CountRuns(h) PROVE CapInv'
  <2>1. Cardinality(Occupied) < Cap /\ UNCHANGED <<row, cancelled>>
    BY <1>1 DEF CountRuns
  <2>2. Counted \subseteq Occupied /\ IsFiniteSet(Occupied) /\ Cardinality(Occupied) \in Nat
    BY CountsFinite DEF Counted, Occupied
  <2>3. Counted' = Counted /\ Cardinality(Counted) <= Cardinality(Occupied)
    BY <2>1, <2>2, FS_Subset DEF Counted
  <2>4. Cardinality(Counting') \in Nat /\ Cardinality(Counting') <= Cardinality(Starters)
    <3>1. Counting' \in SUBSET Starters
      BY DEF Counting
    <3> QED BY <3>1, CountsFinite
  <2> QED BY <1>b, <2>1, <2>2, <2>3, <2>4 DEF CapInv
<1>2. ASSUME NEW h \in Starters, CreateRun(h) PROVE CapInv'
  <2>1. PICK r \in Runs : /\ row' = [row EXCEPT ![r] = "pending"]
                          /\ starter' = [starter EXCEPT ![h] = [pc |-> "register", run |-> r]]
    BY <1>2 DEF CreateRun
  <2>2. h \in Counting /\ cancelled' = cancelled
    BY <1>2 DEF CreateRun, Counting
  <2>3. Counting' = Counting \ {h}
    BY <2>1, <1>a DEF Counting
  <2>4. Cardinality(Counting') = Cardinality(Counting) - 1
    BY <1>b, <2>2, <2>3, FS_RemoveElement
  <2>5. Counted' \subseteq Counted \cup {r}
    BY <2>1, <2>2, <1>a DEF Counted
  <2>6. /\ IsFiniteSet(Counted \cup {r})
        /\ Cardinality(Counted \cup {r}) <= Cardinality(Counted) + 1
        /\ Cardinality(Counted \cup {r}) \in Nat
    <3>1. IsFiniteSet(Counted \cup {r}) /\ Cardinality(Counted \cup {r}) =
             IF r \in Counted THEN Cardinality(Counted) ELSE Cardinality(Counted) + 1
      BY <1>b, FS_AddElement, Zenon
    <3> HIDE DEF Counted
    <3>2. CASE r \in Counted
      BY <1>b, <3>1, <3>2
    <3>3. CASE r \notin Counted
      BY <1>b, <3>1, <3>3
    <3> QED BY <3>2, <3>3, <3>1
  <2>7. Cardinality(Counted') <= Cardinality(Counted \cup {r}) /\ Cardinality(Counted') \in Nat
    BY <2>5, <2>6, FS_Subset, FS_CardinalityType
  <2> QED BY <1>b, <2>4, <2>6, <2>7 DEF CapInv
<1>3. ASSUME NEW h \in Starters, StartThread(h) \/ ThreadFails(h) PROVE CapInv'
  <2>1. UNCHANGED <<row, cancelled>> /\ starter' = [starter EXCEPT ![h] = IdleStarter]
    BY <1>3 DEF StartThread, ThreadFails
  <2> QED BY <2>1, <1>a, <1>c DEF Counted, Counting, IdleStarter
<1>4. ASSUME NEW r \in Runs, AgentStep(r) \/ Raise(r) \/ LoseCommit(r) PROVE CapInv'
  <2>1. UNCHANGED <<starter, cancelled>>
    BY <1>4 DEF AgentStep, Begin, Judge, Write, Rescue, Leave, Raise, LoseCommit
  <2>2. \A s \in Runs : s # r => row'[s] = row[s]
    BY <1>4, <1>a DEF AgentStep, Begin, Judge, Write, Rescue, Leave, Raise, LoseCommit, StoreOutcome, Store
  <2>3. row'[r] \in Active => row[r] \in Active \/ r \in cancelled
    <3>1. CASE Begin(r)
      BY <3>1, <1>a DEF Begin, Store, StartsInOrder, Untouched, Active, CancelledByRequest
    <3>2. CASE ~Begin(r)
      <4>1. agent[r].outcome \notin Active
        BY <1>a DEF Outcome, Active
      <4> QED BY <1>4, <3>2, <4>1, <1>a DEF AgentStep, Judge, Write, Rescue, Leave, Raise, LoseCommit,
           StoreOutcome, Store, Active
    <3> QED BY <3>1, <3>2
  <2> QED BY <2>1, <2>2, <2>3, <1>c DEF Counted, Counting
<1>5. ASSUME CancelCommits \/ \E r \in Runs : DeleteRun(r) \/ Cancel(r) PROVE CapInv'
  <2>1. starter' = starter /\ cancelled \subseteq cancelled'
    BY <1>5 DEF CancelCommits, DeleteRun, Cancel
  <2>2. \A r \in Runs : row'[r] \in Active => row[r] \in Active
    BY <1>5, <1>a DEF CancelCommits, DeleteRun, Cancel, Active
  <2> QED BY <2>1, <2>2, <1>c DEF Counted, Counting
<1>6. ASSUME Crash PROVE CapInv'
  BY <1>6, <1>c DEF Crash, Counted, Counting, IdleStarter
<1>7. ASSUME UNCHANGED vars PROVE CapInv'
  BY <1>7, <1>c DEF vars, Counted, Counting
<1> QED BY <1>1, <1>2, <1>3, <1>4, <1>5, <1>6, <1>7 DEF Next, Request

-----------------------------------------------------------------------------

LEMMA OntologyInitInv == Init => OInv
<1> SUFFICES ASSUME Init PROVE OInv
  OBVIOUS
<1>1. StartsInOrder /\ CancelledByRequest /\ SignalKept
  BY DEF Init, StartsInOrder, CancelledByRequest, SignalKept, IdleStarter, NoAgent
<1>2. Counted = {} /\ Counting = {}
  BY DEF Init, Counted, Counting, Active, IdleStarter
<1>3. Cardinality(Starters) \in Nat /\ Cap \in Nat \ {0}
  BY OntologyAssumption, FS_CardinalityType
<1>4. CapInv
  BY <1>2, <1>3, FS_EmptySet DEF CapInv
<1> QED BY <1>1, <1>4, OntologyInitTyped DEF OInv

LEMMA OntologyStepInv == ASSUME OInv, [Next]_vars PROVE OInv'
<1>1. TypeOK /\ StartsInOrder /\ CancelledByRequest /\ SignalKept /\ CapInv /\ Held
  BY DEF OInv, StartsInOrder, Held
<1> QED BY <1>1, OntologyStepTyped, StartsStep, SignalsStep, CapStep DEF OInv

\* Every reachable state of the specification satisfies the invariant.
THEOREM OntologyInvariant == Spec => []OInv
BY OntologyInitInv, OntologyStepInv, PTL DEF Spec

\* Rows, requests, events and threads keep their types.
THEOREM OntologyTypes == Spec => []TypeOK
<1>1. OInv => TypeOK
  BY DEF OInv
<1> QED BY OntologyInvariant, <1>1, PTL

\* With n concurrent requests the cap of count_running_for_user is exceeded by
\* less than n runs that nobody cancelled.
THEOREM CapHoldsAlways == Spec => []CapHolds
<1>1. OInv => CapHolds
  <2>1. CapInv => CapHolds
    <3>1. /\ Cardinality(Counted) \in Nat /\ Cardinality(Counting) \in Nat
          /\ Cardinality(Starters) \in Nat /\ Cap \in Nat
      BY CountsFinite, OntologyAssumption DEF Counted, Counting
    <3> QED BY <3>1 DEF CapInv, CapHolds, Counted
  <2> QED BY <2>1 DEF OInv
<1> QED BY OntologyInvariant, <1>1, PTL

\* A cancellation that the thread can still see leaves no completed run.
THEOREM CancelledInTimeAlways == Spec => []CancelledInTime
<1>1. OInv => CancelledInTime
  BY DEF OInv, SignalKept, CancelledInTime
<1> QED BY OntologyInvariant, <1>1, PTL
=============================================================================
