------------------------ MODULE AgreementWizardProofs ------------------------
(***************************************************************************)
(* Proofs about AgreementWizard, for any users, sessions, workflow         *)
(* definitions, edits and interruptions: a session walks what it was       *)
(* shown, a completed one is signed (the inductive invariant is WInv), and *)
(* it leads to one agreement, and to one more at most for each handler     *)
(* that is cut short (OInv).                                               *)
(***************************************************************************)
EXTENDS AgreementWizard, FiniteSetTheorems, SequenceTheorems, WellFoundedInduction, TLAPS

LastPage(s) == session[s].results[Len(session[s].results)].page

\* The handler works on a session in progress; it has recorded the step it
\* leaves, and it ends the session where the workflow ends.
HandlerStands ==
    /\ submit.pc # "idle" =>
          /\ submit.session \in Sessions /\ submit.signer \in Signers
          /\ session[submit.session].status = "in_progress"
    /\ submit.pc = "advance" =>
          /\ ~Ends(session[submit.session].shown, session[submit.session].at)
          /\ session[submit.session].results # <<>>
          /\ session[submit.session].at = LastPage(submit.session)
    /\ submit.pc \in {"settle", "subscribe", "deliver", "close"} =>
          /\ session[submit.session].results # <<>>
          /\ Ends(session[submit.session].shown, LastPage(submit.session))

\* A session in progress stands behind its last result, or still on it when the
\* handler has not moved it yet or was cut short.
Left(s) == submit.session = s /\ submit.pc \notin {"idle", "append"}
StandsBehind(s) ==
    /\ session[s].results = <<>> => session[s].at = session[s].shown.first
    /\ session[s].results # <<>> =>
          \/ session[s].at = session[s].shown.next[LastPage(s)]
          \/ session[s].at = LastPage(s) /\ (interrupts > 0 \/ Left(s))
InProgressStandsBehind ==
    \A s \in Sessions : session[s].status = "in_progress" => StandsBehind(s)

\* The agreements named by results, and by the handler, are their session's.
OwnAgreements ==
    /\ \A s \in Sessions : \A i \in 1 .. Len(session[s].results) :
          session[s].results[i].agreement # NoAgreement =>
              agreement[session[s].results[i].agreement].session = s
    /\ submit.pc # "idle" /\ submit.agreement # NoAgreement =>
          agreement[submit.agreement].session = submit.session
    /\ submit.pc \in {"subscribe", "deliver", "close"} =>
          /\ submit.agreement \in Agreements
          /\ agreement[submit.agreement].results = session[submit.session].results

WInv == /\ WizardTypeOK /\ HandlerStands /\ InProgressStandsBehind /\ OwnAgreements
        /\ WalksWhatWasShown /\ CompletedIsSigned

-----------------------------------------------------------------------------
(* Types *)

\* The first of some naturals: what _complete_session takes.
LEMMA LeastOfNaturals ==
    ASSUME NEW S \in SUBSET Nat, S # {}
    PROVE  \E k \in S : \A l \in S : k <= l
<1>1. IsWellFoundedOn(OpToRel(<, Nat), Nat)
  BY NatLessThanWellFounded, Zenon
<1>2. PICK k \in S : \A l \in S : <<l, k>> \notin OpToRel(<, Nat)
  BY <1>1, WFMin, Zenon
<1>3. \A l \in S : ~(l < k)
  BY <1>2 DEF OpToRel
<1> QED BY <1>3

\* The fields of a definition.
LEMMA FormTyped ==
    ASSUME NEW f \in Forms
    PROVE  /\ f.first \in Pages /\ f.kind \in [Pages -> PageKinds]
           /\ f.next \in [Pages -> Pages \cup {NoPage}]
BY WizardAssumption DEF Form

LEMMA SessionTyped ==
    ASSUME WizardTypeOK, NEW s \in Sessions
    PROVE  /\ session[s] \in SessionRow
           /\ session[s].status \in SessionStatus /\ session[s].shown \in Forms
           /\ session[s].version \in 0 .. MaxFormVersion
           /\ session[s].at \in Pages /\ session[s].results \in Seq(Result)
           /\ Len(session[s].results) \in Nat
           /\ session[s].shown.next \in [Pages -> Pages \cup {NoPage}]
           /\ session[s].shown.first \in Pages
<1>1. session[s] \in SessionRow
  BY DEF WizardTypeOK
<1>2. session[s].shown \in Forms /\ session[s].results \in Seq(Result)
  BY <1>1 DEF SessionRow
<1> QED BY <1>1, <1>2, FormTyped DEF SessionRow

LEMMA EmptySessionTyped == EmptySession \in SessionRow
<1>1. FirstForm \in Forms /\ FirstForm.first \in Pages /\ 0 \in 0 .. MaxFormVersion
  BY FormTyped, WizardAssumption
<1>2. <<>> \in Seq(Result)
  OBVIOUS
<1> QED BY <1>1, <1>2 DEF EmptySession, SessionRow, SessionStatus

LEMMA EmptyWalk ==
    EmptySession.results = <<>> /\ \A i \in 1 .. Len(EmptySession.results) - 1 : FALSE
<1>1. EmptySession.results = <<>> /\ Len(<<>>) = 0
  BY DEF EmptySession
<1> QED BY <1>1

LEMMA NoSubmitTyped == NoSubmit \in Submit
BY DEF NoSubmit, Submit

LEMMA SubmitTyped ==
    ASSUME WizardTypeOK, HandlerStands, submit.pc # "idle"
    PROVE  /\ submit \in Submit
           /\ submit.session \in Sessions /\ submit.signer \in Signers
           /\ submit.agreement \in Agreements \cup {NoAgreement}
           /\ session[submit.session].status = "in_progress"
BY DEF WizardTypeOK, HandlerStands, Submit

LEMMA WizardInitInv == WizardInit => WInv
<1> SUFFICES ASSUME WizardInit PROVE WInv
  OBVIOUS
<1>1. session = [s \in Sessions |-> EmptySession] /\ submit = NoSubmit
      /\ EmptySession.results = <<>> /\ EmptySession.status = "none"
  BY DEF WizardInit, EmptySession
<1>2. EmptyAgreement \in AgreementRow
  <2>1. 0 \in 0 .. MaxFormVersion /\ <<>> \in Seq(Result)
    BY WizardAssumption
  <2> QED BY <2>1 DEF EmptyAgreement, AgreementRow
<1>3. WizardTypeOK
  <2>1. form \in [version : 0 .. MaxFormVersion, definition : Forms]
    BY WizardAssumption DEF WizardInit
  <2> QED BY <1>1, <1>2, <2>1, EmptySessionTyped, NoSubmitTyped, WizardAssumption
          DEF WizardInit, WizardTypeOK
<1>4. HandlerStands /\ OwnAgreements
  BY <1>1 DEF HandlerStands, OwnAgreements, NoSubmit
<1>5. InProgressStandsBehind /\ CompletedIsSigned
  BY <1>1 DEF InProgressStandsBehind, CompletedIsSigned
<1>6. WalksWhatWasShown
  BY <1>1, EmptyWalk DEF WalksWhatWasShown
<1> QED BY <1>3, <1>4, <1>5, <1>6 DEF WInv

-----------------------------------------------------------------------------
(* New agreements *)

\* Agreements that belong to a session stay its own.
LEMMA AgreementKept ==
    ASSUME WInv, NEW a \in Agreements, NEW s, NEW u, NewAgreement(a, s, u)
    PROVE  /\ \A b \in Agreements : agreement[b].session # NoSession =>
                                       agreement'[b] = agreement[b]
           /\ agreement'[a] = [session |-> s, signer |-> u, version |-> form.version,
                               shown |-> session[s].version,
                               results |-> session[s].results]
           /\ agreement[a].session = NoSession
<1>1. agreement \in [Agreements -> AgreementRow]
  BY DEF WInv, WizardTypeOK
<1> QED BY <1>1 DEF NewAgreement

LEMMA NewAgreementTyped ==
    ASSUME WInv, NEW a \in Agreements, NEW s \in Sessions, NEW u \in Signers,
           NewAgreement(a, s, u)
    PROVE  agreement' \in [Agreements -> AgreementRow]
<1>1. agreement \in [Agreements -> AgreementRow] /\ form.version \in 0 .. MaxFormVersion
  BY DEF WInv, WizardTypeOK
<1>2. session[s].version \in 0 .. MaxFormVersion /\ session[s].results \in Seq(Result)
  BY SessionTyped DEF WInv
<1>3. [session |-> s, signer |-> u, version |-> form.version,
       shown |-> session[s].version, results |-> session[s].results] \in AgreementRow
  BY <1>1, <1>2 DEF AgreementRow
<1> QED BY <1>1, <1>3 DEF NewAgreement

-----------------------------------------------------------------------------
(* Steps outside a submission *)

LEMMA CreateSessionStep ==
    ASSUME WInv, NEW s \in Sessions, CreateSession(s)
    PROVE  WInv'
<1> DEFINE row == [status |-> "in_progress", shown |-> form.definition,
                   version |-> form.version, at |-> form.definition.first, results |-> <<>>]
<1>1. /\ submit.pc = "idle" /\ session[s].status = "none"
      /\ session' = [session EXCEPT ![s] = row]
      /\ UNCHANGED <<form, agreement, subscribed, delivered, submit, interrupts>>
  BY DEF CreateSession
<1>2. /\ session \in [Sessions -> SessionRow]
      /\ form.version \in 0 .. MaxFormVersion /\ form.definition \in Forms
      /\ form.definition.first \in Pages
  BY FormTyped DEF WInv, WizardTypeOK
<1>3. row \in SessionRow
  <2>1. <<>> \in Seq(Result)
    OBVIOUS
  <2> QED BY <1>2, <2>1 DEF SessionRow, SessionStatus
<1>4. /\ session'[s] = row /\ row.results = <<>> /\ row.status = "in_progress"
      /\ row.at = row.shown.first
      /\ \A t \in Sessions : t # s => session'[t] = session[t]
  BY <1>1, <1>2
<1> HIDE DEF row
<1>5. WizardTypeOK'
  BY <1>1, <1>2, <1>3 DEF WInv, WizardTypeOK
<1>6. HandlerStands'
  BY <1>1 DEF HandlerStands
<1>7. InProgressStandsBehind'
  BY <1>1, <1>4 DEF WInv, InProgressStandsBehind, StandsBehind, LastPage, Left
<1>8. OwnAgreements'
  BY <1>1, <1>4 DEF WInv, OwnAgreements
<1>9. WalksWhatWasShown'
  BY <1>1, <1>4 DEF WInv, WalksWhatWasShown
<1>10. CompletedIsSigned'
  BY <1>1, <1>4 DEF WInv, CompletedIsSigned
<1> QED BY <1>5, <1>6, <1>7, <1>8, <1>9, <1>10 DEF WInv

LEMMA AbortSessionStep ==
    ASSUME WInv, NEW s \in Sessions, AbortSession(s)
    PROVE  WInv'
<1>1. /\ submit.pc = "idle" /\ session[s].status = "in_progress"
      /\ session' = [session EXCEPT ![s].status = "abandoned"]
      /\ UNCHANGED <<form, agreement, subscribed, delivered, submit, interrupts>>
  BY DEF AbortSession
<1>2. session \in [Sessions -> SessionRow]
  BY DEF WInv, WizardTypeOK
<1>3. /\ session' \in [Sessions -> SessionRow] /\ session'[s].status = "abandoned"
      /\ \A t \in Sessions : /\ session'[t].results = session[t].results
                             /\ session'[t].shown = session[t].shown
                             /\ session'[t].at = session[t].at
                             /\ t # s => session'[t].status = session[t].status
  BY <1>1, <1>2 DEF SessionRow, SessionStatus
<1>4. WizardTypeOK'
  BY <1>1, <1>3 DEF WInv, WizardTypeOK
<1>5. HandlerStands'
  BY <1>1 DEF HandlerStands
<1>6. InProgressStandsBehind'
  BY <1>1, <1>3 DEF WInv, InProgressStandsBehind, StandsBehind, LastPage, Left
<1>7. OwnAgreements'
  BY <1>1, <1>3 DEF WInv, OwnAgreements
<1>8. WalksWhatWasShown'
  BY <1>1, <1>3 DEF WInv, WalksWhatWasShown
<1>9. CompletedIsSigned'
  BY <1>1, <1>3 DEF WInv, CompletedIsSigned
<1> QED BY <1>4, <1>5, <1>6, <1>7, <1>8, <1>9 DEF WInv

LEMMA InterruptStep ==
    ASSUME WInv, Interrupt
    PROVE  WInv'
<1>1. /\ interrupts < MaxInterrupts /\ interrupts' = interrupts + 1
      /\ submit' = NoSubmit /\ submit'.pc = "idle" 
      /\ UNCHANGED <<form, session, agreement, subscribed, delivered>>
  BY DEF Interrupt, NoSubmit
<1>2. interrupts \in 0 .. MaxInterrupts /\ interrupts' \in 0 .. MaxInterrupts
      /\ interrupts' > 0
  BY <1>1, WizardAssumption DEF WInv, WizardTypeOK
<1>3. WizardTypeOK'
  BY <1>1, <1>2, NoSubmitTyped DEF WInv, WizardTypeOK
<1>4. HandlerStands' /\ OwnAgreements' /\ CompletedIsSigned'
  BY <1>1 DEF WInv, HandlerStands, OwnAgreements, CompletedIsSigned
<1>5. InProgressStandsBehind'
  BY <1>1, <1>2 DEF WInv, InProgressStandsBehind, StandsBehind, LastPage
<1>6. WalksWhatWasShown'
  BY <1>1, <1>2 DEF WInv, WalksWhatWasShown
<1> QED BY <1>3, <1>4, <1>5, <1>6 DEF WInv

LEMMA EditFormStep ==
    ASSUME WInv, NEW f \in Forms, EditForm(f)
    PROVE  WInv'
<1>1. /\ form.version \in 1 .. MaxFormVersion - 1
      /\ form' = [version |-> form.version + 1, definition |-> f]
      /\ UNCHANGED <<session, agreement, subscribed, delivered, submit, interrupts>>
  BY DEF EditForm
<1>2. form.version + 1 \in 0 .. MaxFormVersion
  BY <1>1, WizardAssumption
<1>3. WizardTypeOK'
  BY <1>1, <1>2 DEF WInv, WizardTypeOK
<1>4. HandlerStands' /\ OwnAgreements' /\ CompletedIsSigned'
  BY <1>1 DEF WInv, HandlerStands, OwnAgreements, CompletedIsSigned, LastPage
<1>5. InProgressStandsBehind' /\ WalksWhatWasShown'
  BY <1>1 DEF WInv, InProgressStandsBehind, StandsBehind, LastPage, Left, WalksWhatWasShown
<1> QED BY <1>3, <1>4, <1>5 DEF WInv

LEMMA DeleteFormStep ==
    ASSUME WInv, DeleteForm
    PROVE  WInv'
<1>1. /\ submit.pc = "idle"
      /\ form' = [form EXCEPT !.version = 0]
      /\ session' = [s \in Sessions |-> EmptySession]
      /\ EmptySession.results = <<>> /\ EmptySession.status = "none"
      /\ UNCHANGED <<agreement, subscribed, delivered, submit, interrupts>>
  BY DEF DeleteForm, EmptySession
<1>2. form' \in [version : 0 .. MaxFormVersion, definition : Forms]
  BY <1>1, WizardAssumption DEF WInv, WizardTypeOK
<1>3. WizardTypeOK'
  BY <1>1, <1>2, EmptySessionTyped DEF WInv, WizardTypeOK
<1>4. HandlerStands' /\ OwnAgreements'
  BY <1>1 DEF HandlerStands, OwnAgreements
<1>5. InProgressStandsBehind' /\ CompletedIsSigned'
  BY <1>1 DEF InProgressStandsBehind, CompletedIsSigned
<1>6. WalksWhatWasShown'
  BY <1>1, EmptyWalk DEF WalksWhatWasShown
<1> QED BY <1>3, <1>4, <1>5, <1>6 DEF WInv

-----------------------------------------------------------------------------
(* Steps of a submission *)

LEMMA SubmitStepStep ==
    ASSUME WInv, NEW s \in Sessions, NEW u \in Signers, SubmitStep(s, u)
    PROVE  WInv'
<1>1. /\ submit.pc = "idle" /\ session[s].status = "in_progress"
      /\ UNCHANGED <<form, session, subscribed, delivered, interrupts>>
  BY DEF SubmitStep, Open
<1>2. PICK a \in Agreements \cup {NoAgreement} :
        /\ submit' = [pc |-> "append", session |-> s, signer |-> u, agreement |-> a]
        /\ \/ a \in Agreements /\ NewAgreement(a, s, u)
           \/ a = NoAgreement /\ agreement' = agreement
  BY DEF SubmitStep
<1>3. /\ agreement' \in [Agreements -> AgreementRow]
      /\ \A b \in Agreements : agreement[b].session # NoSession => agreement'[b] = agreement[b]
      /\ a # NoAgreement => agreement'[a].session = s
  <2>1. CASE a \in Agreements /\ NewAgreement(a, s, u)
    <3>1. agreement' \in [Agreements -> AgreementRow]
      BY <2>1, NewAgreementTyped
    <3>2. /\ \A b \in Agreements : agreement[b].session # NoSession =>
                                     agreement'[b] = agreement[b]
          /\ agreement'[a] = [session |-> s, signer |-> u, version |-> form.version,
                              shown |-> session[s].version,
                              results |-> session[s].results]
      BY <2>1, AgreementKept
    <3> QED BY <3>1, <3>2
  <2>2. CASE a = NoAgreement /\ agreement' = agreement
    BY <2>2 DEF WInv, WizardTypeOK
  <2> QED BY <1>2, <2>1, <2>2
<1>4. submit' \in Submit
  BY <1>2 DEF Submit
<1>5. WizardTypeOK'
  BY <1>1, <1>3, <1>4 DEF WInv, WizardTypeOK
<1>6. HandlerStands'
  BY <1>1, <1>2 DEF HandlerStands
<1>7. InProgressStandsBehind'
  BY <1>1, <1>2 DEF WInv, InProgressStandsBehind, StandsBehind, LastPage, Left
<1>8. OwnAgreements'
  <2>1. ASSUME NEW t \in Sessions, NEW i \in 1 .. Len(session[t].results)
        PROVE  session[t].results[i].agreement \in Agreements \cup {NoAgreement}
    <3>1. session[t].results \in Seq(Result)
      BY SessionTyped DEF WInv
    <3>2. session[t].results[i] \in Result
      BY <3>1
    <3> QED BY <3>2 DEF Result
  <2>2. \A t \in Sessions : \A i \in 1 .. Len(session[t].results) :
          session[t].results[i].agreement # NoAgreement =>
              agreement'[session[t].results[i].agreement].session = t
    BY <1>3, <2>1, WizardAssumption DEF WInv, OwnAgreements
  <2> QED BY <1>1, <1>2, <1>3, <2>2 DEF OwnAgreements
<1>9. WalksWhatWasShown'
  BY <1>1 DEF WInv, WalksWhatWasShown
<1>10. CompletedIsSigned'
  BY <1>1, <1>3, WizardAssumption DEF WInv, CompletedIsSigned
<1> QED BY <1>5, <1>6, <1>7, <1>8, <1>9, <1>10 DEF WInv

LEMMA AppendResultStep ==
    ASSUME WInv, AppendResult
    PROVE  WInv'
<1> PICK s : s = submit.session
  OBVIOUS
<1> DEFINE r == session[s].results
           p == session[s].at
           f == session[s].shown
           new == [page |-> p, agreement |-> submit.agreement]
<1>1. /\ submit.pc = "append"
      /\ session' = [session EXCEPT ![s].results = Append(r, new)]
      /\ submit' = [submit EXCEPT !.pc = IF Ends(f, p) THEN "settle" ELSE "advance"]
      /\ UNCHANGED <<form, agreement, subscribed, delivered, interrupts>>
  BY DEF AppendResult, StepsOf
<1>2. /\ WizardTypeOK /\ submit \in Submit /\ s \in Sessions /\ submit.signer \in Signers
      /\ submit.agreement \in Agreements \cup {NoAgreement}
      /\ session[s].status = "in_progress"
  BY <1>1, SubmitTyped DEF WInv
<1>3. /\ session \in [Sessions -> SessionRow]
      /\ r \in Seq(Result) /\ p \in Pages /\ f \in Forms /\ Len(r) \in Nat
      /\ session[s] \in SessionRow
  BY <1>2, SessionTyped DEF WizardTypeOK
<1>4. new \in Result
  BY <1>2, <1>3 DEF Result
<1>5. /\ Append(r, new) \in Seq(Result) /\ Len(Append(r, new)) = Len(r) + 1
      /\ \A i \in 1 .. Len(r) : Append(r, new)[i] = r[i]
      /\ Append(r, new)[Len(r) + 1] = new
      /\ Append(r, new) # <<>>
  <2> HIDE DEF r, new
  <2> QED BY <1>3, <1>4, AppendProperties
<1>6. /\ session' \in [Sessions -> SessionRow]
      /\ session'[s].results = Append(r, new)
      /\ session'[s].shown = f /\ session'[s].at = p
      /\ session'[s].status = "in_progress"
      /\ \A t \in Sessions : t # s => session'[t] = session[t]
  BY <1>1, <1>2, <1>3, <1>5 DEF SessionRow
<1>7. /\ submit' \in Submit /\ submit'.session = s /\ submit'.signer = submit.signer
      /\ submit'.agreement = submit.agreement
      /\ submit'.pc = IF Ends(f, p) THEN "settle" ELSE "advance"
  BY <1>1, <1>2 DEF Submit
<1>8. WizardTypeOK'
  BY <1>1, <1>2, <1>6, <1>7 DEF WizardTypeOK
<1>9. LastPage(s)' = p
  BY <1>5, <1>6, <1>7 DEF LastPage
<1>10. HandlerStands'
  BY <1>2, <1>5, <1>6, <1>7, <1>9 DEF HandlerStands, LastPage
<1>11. InProgressStandsBehind'
  <2>1. StandsBehind(s)'
    BY <1>5, <1>6, <1>7, <1>9 DEF StandsBehind, Left
  <2>2. ASSUME NEW t \in Sessions, t # s, session'[t].status = "in_progress"
        PROVE  StandsBehind(t)'
    BY <1>1, <1>6, <2>2 DEF WInv, InProgressStandsBehind, StandsBehind, LastPage, Left
  <2> QED BY <2>1, <2>2 DEF InProgressStandsBehind
<1>12. OwnAgreements'
  <2>1. \A i \in 1 .. Len(r) : r[i].agreement # NoAgreement => agreement[r[i].agreement].session = s
    BY <1>2 DEF WInv, OwnAgreements
  <2>2. submit.agreement # NoAgreement => agreement[submit.agreement].session = s
    BY <1>1 DEF WInv, OwnAgreements
  <2>3. \A i \in 1 .. Len(r) + 1 : i \in 1 .. Len(r) \/ i = Len(r) + 1
    BY <1>3
  <2>4. ASSUME NEW i \in 1 .. Len(session'[s].results),
               session'[s].results[i].agreement # NoAgreement
        PROVE  agreement[session'[s].results[i].agreement].session = s
    <3>1. session'[s].results = Append(r, new) /\ i \in 1 .. Len(r) + 1
      BY <1>5, <1>6
    <3>2. CASE i = Len(r) + 1
      <4>1. session'[s].results[i].agreement = submit.agreement
        BY <1>5, <3>1, <3>2
      <4> QED BY <2>2, <2>4, <4>1
    <3>3. CASE i \in 1 .. Len(r)
      <4>1. session'[s].results[i] = r[i]
        BY <1>5, <3>1, <3>3
      <4> QED BY <2>1, <2>4, <3>3, <4>1
    <3> QED BY <2>3, <3>1, <3>2, <3>3
  <2>5. \A t \in Sessions : t # s => \A i \in 1 .. Len(session'[t].results) :
          session'[t].results[i].agreement # NoAgreement =>
              agreement[session'[t].results[i].agreement].session = t
    BY <1>6 DEF WInv, OwnAgreements
  <2>6. \A t \in Sessions : \A i \in 1 .. Len(session'[t].results) :
          session'[t].results[i].agreement # NoAgreement =>
              agreement[session'[t].results[i].agreement].session = t
    BY <2>4, <2>5
  <2>7. submit'.pc \notin {"subscribe", "deliver", "close"}
    BY <1>7
  <2> QED BY <1>1, <1>7, <2>2, <2>6, <2>7 DEF OwnAgreements
<1>13. WalksWhatWasShown'
  <2>1. StandsBehind(s) /\ ~Left(s)
    BY <1>1, <1>2 DEF WInv, InProgressStandsBehind, Left
  <2>2. /\ r = <<>> => p = f.first
        /\ r # <<>> => \/ p = f.next[r[Len(r)].page]
                       \/ p = r[Len(r)].page /\ interrupts > 0
    BY <2>1 DEF StandsBehind, LastPage
  <2>3. r # <<>> => Append(r, new)[1] = r[1]
    BY <1>3, <1>5
  <2>4. r = <<>> => Append(r, new)[1] = new
    BY <1>3, <1>5
  <2>5. Append(r, new)[1].page = f.first
    BY <1>2, <2>2, <2>3, <2>4 DEF WInv, WalksWhatWasShown
  <2>6. ASSUME NEW i \in 1 .. Len(r)
        PROVE  \/ Append(r, new)[i + 1].page = f.next[Append(r, new)[i].page]
               \/ interrupts > 0 /\ Append(r, new)[i + 1].page = Append(r, new)[i].page
    <3>1. CASE i = Len(r)
      <4>1. r # <<>> /\ Append(r, new)[i] = r[Len(r)] /\ Append(r, new)[i + 1].page = p
        BY <1>3, <1>5, <3>1
      <4> QED BY <2>2, <4>1
    <3>2. CASE i # Len(r)
      <4>1. i \in 1 .. Len(r) - 1 /\ Append(r, new)[i] = r[i]
            /\ Append(r, new)[i + 1] = r[i + 1]
        BY <1>3, <1>5, <3>2
      <4> QED BY <1>2, <4>1 DEF WInv, WalksWhatWasShown
    <3> QED BY <3>1, <3>2
  <2>7. /\ session'[s].results # <<>> => session'[s].results[1].page = f.first
        /\ \A i \in 1 .. Len(session'[s].results) - 1 :
              \/ session'[s].results[i + 1].page = f.next[session'[s].results[i].page]
              \/ interrupts > 0 /\ session'[s].results[i + 1].page = session'[s].results[i].page
    <3>1. Len(session'[s].results) - 1 = Len(r)
      BY <1>3, <1>5, <1>6
    <3> QED BY <1>6, <2>5, <2>6, <3>1
  <2>8. \A t \in Sessions : t # s => session'[t].results = session[t].results
                                     /\ session'[t].shown = session[t].shown
    BY <1>6
  <2>9. ASSUME NEW t \in Sessions
        PROVE  /\ session'[t].results # <<>> =>
                    session'[t].results[1].page = session'[t].shown.first
               /\ \A i \in 1 .. Len(session'[t].results) - 1 :
                    \/ session'[t].results[i + 1].page =
                          session'[t].shown.next[session'[t].results[i].page]
                    \/ /\ interrupts' > 0
                       /\ session'[t].results[i + 1].page = session'[t].results[i].page
    <3>1. CASE t = s
      <4>1. interrupts' = interrupts /\ session'[s].shown = f
        BY <1>1, <1>6
      <4>2. /\ session'[s].results # <<>> =>
                    session'[s].results[1].page = session'[s].shown.first
            /\ \A i \in 1 .. Len(session'[s].results) - 1 :
                    \/ session'[s].results[i + 1].page =
                          session'[s].shown.next[session'[s].results[i].page]
                    \/ /\ interrupts' > 0
                       /\ session'[s].results[i + 1].page = session'[s].results[i].page
        <5> HIDE DEF f, r, p, new
        <5> QED BY <2>7, <4>1
      <4> QED BY <3>1, <4>2
    <3>2. CASE t # s
      BY <1>1, <2>8, <3>2 DEF WInv, WalksWhatWasShown
    <3> QED BY <3>1, <3>2
  <2> QED BY <2>9 DEF WalksWhatWasShown
<1>14. CompletedIsSigned'
  BY <1>1, <1>6 DEF WInv, CompletedIsSigned
<1> QED BY <1>8, <1>10, <1>11, <1>12, <1>13, <1>14 DEF WInv

\* What the handler does after its result leaves results as they are.
LEMMA AdvanceSessionStep ==
    ASSUME WInv, AdvanceSession
    PROVE  WInv'
<1> PICK s : s = submit.session
  OBVIOUS
<1> DEFINE f == session[s].shown
           p == session[s].at
<1>1. /\ submit.pc = "advance" /\ submit' = NoSubmit /\ submit'.pc = "idle"
      /\ session' = [session EXCEPT ![s].at = f.next[p]]
      /\ UNCHANGED <<form, agreement, subscribed, delivered, interrupts>>
  BY DEF AdvanceSession, StepsOf, NoSubmit
<1>2. /\ WizardTypeOK /\ s \in Sessions /\ session[s].status = "in_progress"
      /\ session[s] \in SessionRow /\ session \in [Sessions -> SessionRow]
  BY <1>1, SubmitTyped, SessionTyped DEF WInv, WizardTypeOK
<1>3. ~Ends(f, p) /\ p \in Pages /\ f.next \in [Pages -> Pages \cup {NoPage}]
  BY <1>1, <1>2, SessionTyped DEF WInv, HandlerStands
<1>4. f.next[p] \in Pages
  BY <1>3 DEF Ends
<1>5. /\ session' \in [Sessions -> SessionRow] /\ session'[s].at = f.next[p]
      /\ \A t \in Sessions : /\ session'[t].results = session[t].results
                             /\ session'[t].shown = session[t].shown
                             /\ session'[t].status = session[t].status
                             /\ t # s => session'[t].at = session[t].at
  BY <1>1, <1>2, <1>4 DEF SessionRow
<1>6. WizardTypeOK'
  BY <1>1, <1>2, <1>5, NoSubmitTyped DEF WizardTypeOK
<1>7. HandlerStands'
  BY <1>1 DEF HandlerStands
<1>8. session[s].results # <<>> /\ p = LastPage(s)
  BY <1>1 DEF WInv, HandlerStands
<1>9. InProgressStandsBehind'
  <2>1. StandsBehind(s)'
    <3>1. /\ session'[s].at = session[s].shown.next[LastPage(s)]
          /\ session'[s].results = session[s].results
          /\ session'[s].shown = session[s].shown
      BY <1>2, <1>5, <1>8
    <3>2. LastPage(s)' = LastPage(s)
      BY <3>1 DEF LastPage
    <3> QED BY <1>8, <3>1, <3>2 DEF StandsBehind
  <2>2. ASSUME NEW t \in Sessions, t # s, session'[t].status = "in_progress"
        PROVE  StandsBehind(t)'
    BY <1>1, <1>5, <2>2 DEF WInv, InProgressStandsBehind, StandsBehind, LastPage, Left
  <2> QED BY <2>1, <2>2 DEF InProgressStandsBehind
<1>10. /\ agreement' = agreement /\ interrupts' = interrupts /\ submit'.pc = "idle"
       /\ \A t \in Sessions : /\ session'[t].results = session[t].results
                              /\ session'[t].shown = session[t].shown
                              /\ session'[t].status = session[t].status
  BY <1>1, <1>5
<1>11. OwnAgreements'
  BY <1>10 DEF WInv, OwnAgreements
<1>12. WalksWhatWasShown'
  BY <1>10 DEF WInv, WalksWhatWasShown
<1>13. CompletedIsSigned'
  BY <1>10 DEF WInv, CompletedIsSigned
<1> QED BY <1>6, <1>7, <1>9, <1>11, <1>12, <1>13 DEF WInv

LEMMA SettleAgreementStep ==
    ASSUME WInv, SettleAgreement
    PROVE  WInv'
<1> PICK s : s = submit.session
  OBVIOUS
<1> DEFINE r == session[s].results
<1>1. /\ submit.pc = "settle"
      /\ UNCHANGED <<form, session, subscribed, delivered, interrupts>>
  BY DEF SettleAgreement
<1>2. /\ WizardTypeOK /\ submit \in Submit /\ s \in Sessions /\ submit.signer \in Signers
      /\ session[s].status = "in_progress" /\ r \in Seq(Result)
      /\ agreement \in [Agreements -> AgreementRow]
  BY <1>1, SubmitTyped, SessionTyped DEF WInv, WizardTypeOK
<1>3. \A t \in Sessions : \A i \in 1 .. Len(session[t].results) :
          session[t].results[i].agreement \in Agreements \cup {NoAgreement}
  <2> SUFFICES ASSUME NEW t \in Sessions, NEW i \in 1 .. Len(session[t].results)
               PROVE  session[t].results[i].agreement \in Agreements \cup {NoAgreement}
    OBVIOUS
  <2>1. session[t].results \in Seq(Result)
    BY SessionTyped DEF WInv
  <2>2. session[t].results[i] \in Result
    BY <2>1
  <2> QED BY <2>2 DEF Result
<1>4. PICK a \in Agreements :
        /\ submit' = [submit EXCEPT !.pc = "subscribe", !.agreement = a]
        /\ agreement' \in [Agreements -> AgreementRow]
        /\ agreement'[a].session = s /\ agreement'[a].results = r
        /\ agreement[a].session \in {s, NoSession}
        /\ \A b \in Agreements : b # a => agreement'[b] = agreement[b]
  <2>1. CASE Persisted(s) = {}
    <3>1. PICK a \in Agreements :
            /\ NewAgreement(a, s, submit.signer)
            /\ submit' = [submit EXCEPT !.pc = "subscribe", !.agreement = a]
      BY <2>1 DEF SettleAgreement
    <3>2. agreement' \in [Agreements -> AgreementRow]
      BY <1>2, <3>1, NewAgreementTyped
    <3>3. /\ agreement'[a].session = s /\ agreement'[a].results = r
          /\ agreement[a].session = NoSession
          /\ \A b \in Agreements : b # a => agreement'[b] = agreement[b]
      BY <1>2, <3>1 DEF NewAgreement
    <3> QED BY <3>1, <3>2, <3>3
  <2>2. CASE Persisted(s) # {}
    <3> DEFINE i == CHOOSE k \in Persisted(s) : \A l \in Persisted(s) : k <= l
               a == r[i].agreement
    <3>1. /\ agreement' = [agreement EXCEPT ![a].results = r]
          /\ submit' = [submit EXCEPT !.pc = "subscribe", !.agreement = a]
      BY <2>2 DEF SettleAgreement, WithFinalResults
    <3>2. Persisted(s) \subseteq 1 .. Len(r)
      BY <1>2 DEF Persisted
    <3>3. \E k \in Persisted(s) : \A l \in Persisted(s) : k <= l
      <4>1. Persisted(s) \subseteq Nat
        BY <1>2, <3>2
      <4> QED BY <2>2, <4>1, LeastOfNaturals
    <3>4. i \in Persisted(s)
      BY <3>3
    <3>5. i \in 1 .. Len(r) /\ r[i].agreement # NoAgreement
      BY <3>2, <3>4 DEF Persisted
    <3>6. a \in Agreements /\ agreement[a].session = s
      <4> HIDE DEF i
      <4> QED BY <1>2, <1>3, <3>5 DEF WInv, OwnAgreements
    <3> HIDE DEF a
    <3>7. /\ agreement' \in [Agreements -> AgreementRow]
          /\ agreement'[a].session = s /\ agreement'[a].results = r
          /\ \A b \in Agreements : b # a => agreement'[b] = agreement[b]
      BY <1>2, <3>1, <3>6 DEF AgreementRow
    <3> QED BY <3>1, <3>6, <3>7
  <2> QED BY <2>1, <2>2
<1>5. /\ submit' \in Submit /\ submit'.session = s /\ submit'.signer = submit.signer
      /\ submit'.pc = "subscribe" /\ submit'.agreement = a
  BY <1>2, <1>4 DEF Submit
<1>6. WizardTypeOK'
  BY <1>1, <1>2, <1>4, <1>5 DEF WizardTypeOK
<1>7. HandlerStands'
  BY <1>1, <1>2, <1>5 DEF WInv, HandlerStands, LastPage
<1>8. InProgressStandsBehind'
  BY <1>1, <1>5 DEF WInv, InProgressStandsBehind, StandsBehind, LastPage, Left
<1>9. \A b \in Agreements : \A t \in Sessions :
        agreement[b].session = t => agreement'[b].session = t
  BY <1>2, <1>4, WizardAssumption
<1>10. OwnAgreements'
  <2>1. \A t \in Sessions : \A i \in 1 .. Len(session[t].results) :
          session[t].results[i].agreement # NoAgreement =>
              agreement'[session[t].results[i].agreement].session = t
    BY <1>3, <1>9 DEF WInv, OwnAgreements
  <2> QED BY <1>1, <1>2, <1>4, <1>5, <2>1 DEF OwnAgreements
<1>11. WalksWhatWasShown'
  BY <1>1 DEF WInv, WalksWhatWasShown
<1>12. CompletedIsSigned'
  <2>1. ASSUME NEW t \in Sessions, session[t].status = "completed",
               NEW b \in Agreements, agreement[b].session = t
        PROVE  agreement'[b] = agreement[b]
    <3>1. t # s /\ t # NoSession
      BY <1>2, <2>1, WizardAssumption
    <3> QED BY <1>4, <2>1, <3>1
  <2> QED BY <1>1, <2>1 DEF WInv, CompletedIsSigned
<1> QED BY <1>6, <1>7, <1>8, <1>10, <1>11, <1>12 DEF WInv

\* The subscription and the delivery touch neither sessions nor agreements.
LEMMA AnnounceStep ==
    ASSUME WInv, Subscribe \/ Deliver
    PROVE  WInv'
<1> PICK s : s = submit.session
  OBVIOUS
<1>1. /\ submit.pc \in {"subscribe", "deliver"}
      /\ submit' = [submit EXCEPT !.pc = "deliver"] \/ submit' = [submit EXCEPT !.pc = "close"]
      /\ UNCHANGED <<form, session, agreement, interrupts>>
  BY DEF Subscribe, Deliver
<1>2. /\ WizardTypeOK /\ submit \in Submit /\ s \in Sessions /\ submit.signer \in Signers
      /\ session[s].status = "in_progress" /\ submit.agreement \in Agreements
  BY <1>1, SubmitTyped DEF WInv, OwnAgreements
<1>3. /\ submit' \in Submit /\ submit'.session = s /\ submit'.signer = submit.signer
      /\ submit'.pc \in {"deliver", "close"} /\ submit'.agreement = submit.agreement
  BY <1>1, <1>2 DEF Submit
<1>4. subscribed' \in SUBSET Signers /\ delivered' \in [Agreements -> Nat]
  BY <1>2 DEF WizardTypeOK, Subscribe, Deliver
<1>5. WizardTypeOK'
  BY <1>1, <1>2, <1>3, <1>4 DEF WizardTypeOK
<1>6. HandlerStands'
  BY <1>1, <1>2, <1>3 DEF WInv, HandlerStands, LastPage
<1>7. InProgressStandsBehind'
  BY <1>1, <1>3 DEF WInv, InProgressStandsBehind, StandsBehind, LastPage, Left
<1>8. OwnAgreements'
  BY <1>1, <1>2, <1>3 DEF WInv, OwnAgreements
<1>9. WalksWhatWasShown' /\ CompletedIsSigned'
  BY <1>1 DEF WInv, WalksWhatWasShown, CompletedIsSigned
<1> QED BY <1>5, <1>6, <1>7, <1>8, <1>9 DEF WInv

LEMMA CloseSessionStep ==
    ASSUME WInv, CloseSession
    PROVE  WInv'
<1> PICK s : s = submit.session
  OBVIOUS
<1>1. /\ submit.pc = "close" /\ submit' = NoSubmit /\ submit'.pc = "idle"
      /\ session' = [session EXCEPT ![s].status = "completed"]
      /\ UNCHANGED <<form, agreement, subscribed, delivered, interrupts>>
  BY DEF CloseSession, NoSubmit
<1>2. /\ WizardTypeOK /\ s \in Sessions /\ session \in [Sessions -> SessionRow]
      /\ session[s] \in SessionRow
  BY <1>1, SubmitTyped, SessionTyped DEF WInv, WizardTypeOK
<1>3. /\ session' \in [Sessions -> SessionRow] /\ session'[s].status = "completed"
      /\ \A t \in Sessions : /\ session'[t].results = session[t].results
                             /\ session'[t].shown = session[t].shown
                             /\ session'[t].at = session[t].at
                             /\ t # s => session'[t].status = session[t].status
  BY <1>1, <1>2 DEF SessionRow, SessionStatus
<1>4. WizardTypeOK'
  BY <1>1, <1>2, <1>3, NoSubmitTyped DEF WizardTypeOK
<1>5. HandlerStands'
  BY <1>1 DEF HandlerStands
<1>6. InProgressStandsBehind'
  <2>1. ASSUME NEW t \in Sessions, session'[t].status = "in_progress"
        PROVE  StandsBehind(t)'
    <3>1. t # s /\ session[t].status = "in_progress"
      BY <1>3, <2>1
    <3>2. StandsBehind(t) /\ ~Left(t)
      BY <3>1 DEF WInv, InProgressStandsBehind, Left
    <3> QED BY <1>1, <1>3, <3>2 DEF StandsBehind, LastPage
  <2> QED BY <2>1 DEF InProgressStandsBehind
<1>7. OwnAgreements'
  BY <1>1, <1>3 DEF WInv, OwnAgreements
<1>8. WalksWhatWasShown'
  BY <1>1, <1>3 DEF WInv, WalksWhatWasShown
<1>9. CompletedIsSigned'
  <2>1. /\ session[s].results # <<>>
        /\ Ends(session[s].shown, session[s].results[Len(session[s].results)].page)
        /\ submit.agreement \in Agreements /\ agreement[submit.agreement].session = s
        /\ agreement[submit.agreement].results = session[s].results
    BY <1>1, WizardAssumption DEF WInv, HandlerStands, OwnAgreements, LastPage
  <2> QED BY <1>1, <1>3, <2>1 DEF WInv, CompletedIsSigned
<1> QED BY <1>4, <1>5, <1>6, <1>7, <1>8, <1>9 DEF WInv

-----------------------------------------------------------------------------
(* Theorems *)

\* The invariant is kept by every step.
LEMMA WizardStep ==
    ASSUME WInv, [WizardNext]_wizardVars
    PROVE  WInv'
<1>1. ASSUME NEW s \in Sessions, CreateSession(s) \/ AbortSession(s) PROVE WInv'
  BY <1>1, CreateSessionStep, AbortSessionStep
<1>2. ASSUME NEW s \in Sessions, NEW u \in Signers, SubmitStep(s, u) PROVE WInv'
  BY <1>2, SubmitStepStep
<1>3. CASE AppendResult
  BY <1>3, AppendResultStep
<1>4. CASE AdvanceSession
  BY <1>4, AdvanceSessionStep
<1>5. CASE SettleAgreement
  BY <1>5, SettleAgreementStep
<1>6. CASE Subscribe \/ Deliver
  BY <1>6, AnnounceStep
<1>7. CASE CloseSession
  BY <1>7, CloseSessionStep
<1>8. CASE Interrupt
  BY <1>8, InterruptStep
<1>9. ASSUME NEW f \in Forms, EditForm(f) PROVE WInv'
  BY <1>9, EditFormStep
<1>10. CASE DeleteForm
  BY <1>10, DeleteFormStep
<1>11. CASE UNCHANGED wizardVars
  BY <1>11 DEF wizardVars, WInv, WizardTypeOK, HandlerStands, InProgressStandsBehind,
               StandsBehind, LastPage, Left, OwnAgreements, WalksWhatWasShown, CompletedIsSigned
<1> QED BY <1>1, <1>2, <1>3, <1>4, <1>5, <1>6, <1>7, <1>8, <1>9, <1>10, <1>11
        DEF WizardNext

LEMMA WizardInductive == WizardSpec => []WInv
<1>1. WizardInit => WInv
  BY WizardInitInv
<1>2. WInv /\ [WizardNext]_wizardVars => WInv'
  BY WizardStep
<1> QED BY <1>1, <1>2, PTL DEF WizardSpec

\* Workflows, sessions, agreements and the handler keep their types: the handler
\* never moves a session past the end of its workflow.
THEOREM WizardTypes == WizardSpec => []WizardTypeOK
<1>1. WInv => WizardTypeOK
  BY DEF WInv
<1> QED BY <1>1, WizardInductive, PTL

\* For any definitions, cyclic ones included, any edits and interruptions: the
\* results of a session are a walk through the workflow it was shown.
THEOREM WalksWhatWasShownAlways == WizardSpec => []WalksWhatWasShown
<1>1. WInv => WalksWhatWasShown
  BY DEF WInv
<1> QED BY <1>1, WizardInductive, PTL

\* A completed session ended where its workflow ends, and an agreement of its
\* own holds all its answers, whatever happened to the workflow or the handler.
THEOREM CompletedIsSignedAlways == WizardSpec => []CompletedIsSigned
<1>1. WInv => CompletedIsSigned
  BY DEF WInv
<1> QED BY <1>1, WizardInductive, PTL

-----------------------------------------------------------------------------
(* One agreement for each session *)

\* Workflows whose steps are ordered, with one persist_agreement step at most.
Ordered(f, rank) ==
    \A p \in Pages : f.next[p] # NoPage => rank[f.next[p]] < rank[p]
Straight(f) ==
    /\ \E rank \in [Pages -> Nat] : Ordered(f, rank)
    /\ \A p, q \in Pages : f.kind[p] = "persist" /\ f.kind[q] = "persist" => p = q

Rank(f) == CHOOSE rank \in [Pages -> Nat] : Ordered(f, rank)

InProgress(s) == session[s].status = "in_progress"
Rows(s) == 1 .. Len(session[s].results)

\* The session has all the agreements that interruptions excuse, and must not
\* get another one.
Spent(s) == Cardinality(Own(s)) > interrupts

AtKeeping(s) == session[s].shown.kind[session[s].at] = "persist"
PastKeeping(s) ==
    LET f == session[s].shown IN
    \E q \in Pages : f.kind[q] = "persist" /\ Rank(f)[q] > Rank(f)[session[s].at]
Named(s) == \E i \in Rows(s) : session[s].results[i].agreement # NoAgreement

\* Such a session will not come to a persist_agreement step any more, and finds
\* an agreement in its results at its end; or the handler is between.
SpentIsKept ==
    \A s \in Sessions : InProgress(s) /\ Spent(s) =>
        \/ Named(s) /\ PastKeeping(s)
        \/ /\ submit.session = s
           /\ \/ submit.pc = "append" /\ submit.agreement # NoAgreement /\ AtKeeping(s)
              \/ submit.pc \in {"advance", "settle"} /\ Named(s) /\ AtKeeping(s)
              \/ submit.pc \in {"subscribe", "deliver", "close"}

\* A session that can still begin has no agreement.
NotBegun ==
    form.version # 0 => \A s \in Sessions : session[s].status = "none" =>
        \A a \in Agreements : agreement[a].session # s

\* An agreement is announced in the last steps of its session.
AnnouncedLast ==
    \A a \in Agreements :
        /\ agreement[a].session = NoSession => delivered[a] = 0
        /\ \A s \in Sessions : InProgress(s) /\ agreement[a].session = s =>
              delivered[a] <= interrupts \/ (submit.pc = "close" /\ submit.session = s)

Once == OneAgreementPerSession /\ SpentIsKept /\ NotBegun /\ AnnouncedLast

OInv == WInv /\ Once

\* An order of the steps of a workflow without cycle.
LEMMA RankOf ==
    ASSUME NEW f \in Forms, Straight(f)
    PROVE  Rank(f) \in [Pages -> Nat] /\ Ordered(f, Rank(f))
BY DEF Straight, Rank

LEMMA OwnTyped ==
    ASSUME NEW s
    PROVE  Own(s) \subseteq Agreements /\ IsFiniteSet(Own(s)) /\ Cardinality(Own(s)) \in Nat
<1>1. Own(s) \subseteq Agreements
  BY DEF Own
<1> QED BY <1>1, WizardAssumption, FS_Subset, FS_CardinalityType

\* No session has begun initially.
LEMMA OnceInit == WizardInit => Once
<1> SUFFICES ASSUME WizardInit PROVE Once
  OBVIOUS
<1>1. /\ session = [s \in Sessions |-> EmptySession] /\ EmptySession.status = "none"
      /\ agreement = [a \in Agreements |-> EmptyAgreement] /\ EmptyAgreement.session = NoSession
      /\ delivered = [a \in Agreements |-> 0] /\ interrupts = 0
  BY DEF WizardInit, EmptySession, EmptyAgreement
<1>2. \A s \in Sessions : ~InProgress(s) /\ Own(s) = {}
  BY <1>1, WizardAssumption DEF InProgress, Own
<1>3. OneAgreementPerSession
  <2>1. \A s \in Sessions : Cardinality(Own(s)) = 0
    BY <1>2, FS_EmptySet
  <2> QED BY <1>1, <2>1 DEF OneAgreementPerSession
<1>4. SpentIsKept /\ NotBegun /\ AnnouncedLast
  BY <1>1, <1>2, WizardAssumption DEF SpentIsKept, NotBegun, AnnouncedLast
<1> QED BY <1>3, <1>4 DEF Once

\* Steps that make no agreement and announce none.
LEMMA QuietOnce ==
    ASSUME WInv, Once, UNCHANGED <<agreement, delivered, interrupts>>, SpentIsKept',
           form'.version # 0 =>
              /\ form.version # 0
              /\ \A t \in Sessions : session'[t].status = "none" => session[t].status = "none",
           \A t \in Sessions : InProgress(t)' =>
              \/ InProgress(t) /\ (submit.pc = "close" => submit' = submit \/ submit.session # t)
              \/ \A a \in Agreements : agreement[a].session # t
    PROVE  Once'
<1>1. OneAgreementPerSession'
  BY DEF Once, OneAgreementPerSession, Own
<1>2. NotBegun'
  BY DEF Once, NotBegun
<1>3. AnnouncedLast'
  BY DEF Once, AnnouncedLast
<1> QED BY <1>1, <1>2, <1>3 DEF Once

\* A new session has answered nothing and has no agreement.
LEMMA CreateSessionOnce ==
    ASSUME WInv, Once, NEW s \in Sessions, CreateSession(s)
    PROVE  Once'
<1> DEFINE row == [status |-> "in_progress", shown |-> form.definition,
                   version |-> form.version, at |-> form.definition.first, results |-> <<>>]
<1>1. /\ submit.pc = "idle" /\ session[s].status = "none" /\ form.version # 0
      /\ session' = [session EXCEPT ![s] = row]
      /\ UNCHANGED <<form, agreement, subscribed, delivered, submit, interrupts>>
  BY DEF CreateSession
<1>2. session \in [Sessions -> SessionRow] /\ interrupts \in Nat
  BY WizardAssumption DEF WInv, WizardTypeOK
<1>3. /\ session'[s] = row /\ row.status = "in_progress"
      /\ \A t \in Sessions : t # s => session'[t] = session[t]
  BY <1>1, <1>2
<1> HIDE DEF row
<1>4. \A a \in Agreements : agreement[a].session # s
  BY <1>1 DEF Once, NotBegun
<1>5. ~Spent(s)
  <2>1. Own(s) = {}
    BY <1>4 DEF Own
  <2>2. Cardinality(Own(s)) = 0
    BY <2>1, FS_EmptySet
  <2> QED BY <1>2, <2>2 DEF Spent
<1>6. SpentIsKept'
  <2> SUFFICES ASSUME NEW t \in Sessions, InProgress(t)', Spent(t)'
               PROVE  Named(t)' /\ PastKeeping(t)'
    BY DEF SpentIsKept
  <2>1. Spent(t)
    BY <1>1 DEF Spent, Own
  <2>2. t # s /\ session'[t] = session[t]
    BY <1>3, <1>5, <2>1
  <2>3. Named(t) /\ PastKeeping(t)
    BY <1>1, <2>1, <2>2 DEF Once, SpentIsKept, InProgress
  <2> QED BY <2>2, <2>3 DEF Named, PastKeeping, Rows
<1> QED BY <1>1, <1>3, <1>4, <1>6, QuietOnce DEF InProgress

\* An abandoned or a completed session is left alone.
LEMMA SessionEndsOnce ==
    ASSUME WInv, Once, NEW s \in Sessions, AbortSession(s) \/ (CloseSession /\ s = submit.session)
    PROVE  Once'
<1>1. /\ session[s].status = "in_progress"
      /\ \E q \in {"abandoned", "completed"} : session' = [session EXCEPT ![s].status = q]
      /\ UNCHANGED <<form, agreement, subscribed, delivered, interrupts>>
  BY DEF AbortSession, CloseSession, WInv, HandlerStands
<1>2. session \in [Sessions -> SessionRow]
  BY DEF WInv, WizardTypeOK
<1>3. /\ session'[s].status \notin {"none", "in_progress"}
      /\ \A t \in Sessions : t # s => session'[t] = session[t]
  BY <1>1, <1>2 DEF SessionRow, SessionStatus
<1>4. (submit.pc = "idle" /\ submit' = submit) \/ submit.session = s
  BY DEF AbortSession, CloseSession
<1>5. SpentIsKept'
  <2> SUFFICES ASSUME NEW t \in Sessions, InProgress(t)', Spent(t)'
               PROVE  Named(t)' /\ PastKeeping(t)'
    BY DEF SpentIsKept
  <2>1. Spent(t) /\ t # s /\ session'[t] = session[t]
    BY <1>1, <1>3 DEF Spent, Own, InProgress
  <2>2. Named(t) /\ PastKeeping(t)
    BY <1>4, <2>1 DEF Once, SpentIsKept, InProgress
  <2> QED BY <2>1, <2>2 DEF Named, PastKeeping, Rows
<1>6. \A t \in Sessions : InProgress(t)' => InProgress(t) /\ t # s
  BY <1>3 DEF InProgress
<1> QED BY <1>1, <1>3, <1>4, <1>5, <1>6, QuietOnce

\* Editing the workflow changes no session; deleting it ends them all.
LEMMA FormOnce ==
    ASSUME WInv, Once, DeleteForm \/ \E f \in Forms : EditForm(f)
    PROVE  Once'
<1>1. UNCHANGED <<agreement, subscribed, delivered, submit, interrupts>>
  BY DEF DeleteForm, EditForm
<1>2. CASE DeleteForm
  <2>1. /\ form'.version = 0
        /\ session' = [s \in Sessions |-> EmptySession] /\ EmptySession.status = "none"
    BY <1>2 DEF DeleteForm, EmptySession, WInv, WizardTypeOK
  <2>2. \A s \in Sessions : ~InProgress(s)'
    BY <2>1 DEF InProgress
  <2> QED BY <1>1, <2>1, <2>2, QuietOnce DEF SpentIsKept
<1>3. CASE \E f \in Forms : EditForm(f)
  <2>1. session' = session /\ form.version # 0
    BY <1>3 DEF EditForm
  <2>2. SpentIsKept'
    BY <1>1, <2>1 DEF Once, SpentIsKept, InProgress, Spent, Own, Named, PastKeeping, AtKeeping, Rows
  <2> QED BY <1>1, <2>1, <2>2, QuietOnce DEF InProgress
<1> QED BY <1>2, <1>3

\* An agreement is made for a session that can have one more.
LEMMA NewAgreementOnce ==
    ASSUME WInv, Once, NEW s \in Sessions, InProgress(s), ~Spent(s),
           NEW a \in Agreements, agreement[a].session = NoSession, agreement'[a].session = s,
           \A b \in Agreements : b # a => agreement'[b] = agreement[b],
           submit.pc # "close", SpentIsKept', UNCHANGED <<form, session, delivered, interrupts>>
    PROVE  Once'
<1>1. interrupts \in Nat /\ Cardinality(Own(s)) <= interrupts
  <2>1. interrupts \in Nat
    BY WizardAssumption DEF WInv, WizardTypeOK
  <2> QED BY <2>1, OwnTyped DEF Spent
<1>2. Own(s)' = Own(s) \cup {a} /\ \A t \in Sessions : t # s => Own(t)' = Own(t)
  BY WizardAssumption DEF Own
<1>3. Cardinality(Own(s)') <= 1 + interrupts
  <2>1. Cardinality(Own(s) \cup {a}) \in {Cardinality(Own(s)), Cardinality(Own(s)) + 1}
    BY OwnTyped, FS_AddElement
  <2> QED BY <1>1, <1>2, <2>1, OwnTyped
<1>4. OneAgreementPerSession'
  BY <1>2, <1>3 DEF Once, OneAgreementPerSession
<1>5. NotBegun'
  BY DEF Once, NotBegun, InProgress
<1>6. AnnouncedLast'
  <2>1. delivered[a] = 0 /\ delivered' = delivered /\ interrupts' = interrupts
    BY DEF Once, AnnouncedLast
  <2>2. \A b \in Agreements : b # a => agreement'[b].session = agreement[b].session
    OBVIOUS
  <2>3. \A t \in Sessions : InProgress(t)' = InProgress(t)
    BY DEF InProgress
  <2>4. \A b \in Agreements, t \in Sessions :
          b # a /\ InProgress(t) /\ agreement[b].session = t => delivered[b] <= interrupts
    BY DEF Once, AnnouncedLast
  <2>5. \A b \in Agreements : b # a /\ agreement[b].session = NoSession => delivered[b] = 0
    BY DEF Once, AnnouncedLast
  <2> QED BY <1>1, <2>1, <2>2, <2>3, <2>4, <2>5, WizardAssumption DEF AnnouncedLast
<1> QED BY <1>4, <1>5, <1>6 DEF Once

\* A submission that comes to the persist_agreement step may make an agreement:
\* a session that is spent has left the step behind.
LEMMA SubmitStepOnce ==
    ASSUME WInv, Once, \A f \in Forms : Straight(f),
           NEW s \in Sessions, NEW u \in Signers, SubmitStep(s, u)
    PROVE  Once'
<1> DEFINE f == session[s].shown
           p == session[s].at
<1>1. /\ submit.pc = "idle" /\ InProgress(s) /\ f \in Forms /\ p \in Pages
      /\ UNCHANGED <<form, session, subscribed, delivered, interrupts>>
  BY SessionTyped DEF SubmitStep, Open, InProgress, WInv
<1>2. PICK a \in Agreements \cup {NoAgreement} :
        /\ submit' = [pc |-> "append", session |-> s, signer |-> u, agreement |-> a]
        /\ \/ a \in Agreements /\ NewAgreement(a, s, u) /\ f.kind[p] = "persist"
           \/ a = NoAgreement /\ agreement' = agreement
  BY DEF SubmitStep, StepsOf
<1>3. submit'.pc = "append" /\ submit'.session = s /\ submit'.agreement = a
  BY <1>2
<1>4. \A t \in Sessions : InProgress(t) /\ Spent(t) => Named(t)' /\ PastKeeping(t)'
  <2>1. \A t \in Sessions : InProgress(t) /\ Spent(t) => Named(t) /\ PastKeeping(t)
    BY <1>1 DEF Once, SpentIsKept
  <2> QED BY <1>1, <2>1 DEF Named, PastKeeping, Rows
<1>5. \A t \in Sessions : InProgress(t)' = InProgress(t)
  BY <1>1 DEF InProgress
<1>6. CASE a = NoAgreement /\ agreement' = agreement
  <2>1. SpentIsKept'
    BY <1>1, <1>4, <1>5, <1>6 DEF SpentIsKept, Spent, Own
  <2> QED BY <1>1, <1>5, <1>6, <2>1, QuietOnce
<1>7. CASE a \in Agreements /\ NewAgreement(a, s, u) /\ f.kind[p] = "persist"
  <2>1. ~Spent(s)
    <3> SUFFICES ASSUME Spent(s) PROVE FALSE
      OBVIOUS
    <3>1. PastKeeping(s)
      BY <1>1 DEF Once, SpentIsKept
    <3>2. PICK q \in Pages : f.kind[q] = "persist" /\ Rank(f)[q] > Rank(f)[p]
      BY <3>1 DEF PastKeeping
    <3>3. q = p
      BY <1>1, <1>7, <3>2 DEF Straight
    <3>4. Rank(f)[p] \in Nat
      BY <1>1, RankOf
    <3> HIDE DEF f, p
    <3> QED BY <3>2, <3>3, <3>4
  <2>2. /\ agreement'[a].session = s /\ agreement[a].session = NoSession
        /\ \A b \in Agreements : b # a => agreement'[b] = agreement[b]
    BY <1>7 DEF NewAgreement, WInv, WizardTypeOK
  <2>3. SpentIsKept'
    <3> SUFFICES ASSUME NEW t \in Sessions, InProgress(t)', Spent(t)'
                 PROVE  \/ Named(t)' /\ PastKeeping(t)'
                        \/ /\ submit'.session = t /\ submit'.pc = "append"
                           /\ submit'.agreement # NoAgreement /\ AtKeeping(t)'
      BY DEF SpentIsKept
    <3>1. CASE t = s
      BY <1>1, <1>3, <1>7, <3>1, WizardAssumption DEF AtKeeping
    <3>2. CASE t # s
      <4>1. Own(t)' = Own(t)
        BY <2>2, <3>2, WizardAssumption DEF Own
      <4> QED BY <1>1, <1>4, <1>5, <4>1 DEF Spent
    <3> QED BY <3>1, <3>2
  <2> QED BY <1>1, <1>7, <2>1, <2>2, <2>3, NewAgreementOnce
<1> QED BY <1>2, <1>6, <1>7

\* The answer is recorded with the agreement the handler holds.
LEMMA AppendResultOnce ==
    ASSUME WInv, Once, AppendResult
    PROVE  Once'
<1> PICK s : s = submit.session
  OBVIOUS
<1> DEFINE r == session[s].results
           p == session[s].at
           new == [page |-> p, agreement |-> submit.agreement]
<1>1. /\ submit.pc = "append"
      /\ session' = [session EXCEPT ![s].results = Append(r, new)]
      /\ UNCHANGED <<form, agreement, subscribed, delivered, interrupts>>
  BY DEF AppendResult
<1>2. /\ submit \in Submit /\ s \in Sessions
      /\ submit.agreement \in Agreements \cup {NoAgreement}
      /\ session \in [Sessions -> SessionRow] /\ r \in Seq(Result) /\ p \in Pages /\ Len(r) \in Nat
  BY <1>1, SubmitTyped, SessionTyped DEF WInv, WizardTypeOK
<1>3. submit'.session = s /\ submit'.pc \in {"advance", "settle"}
  BY <1>2 DEF AppendResult, Submit
<1>4. /\ \A t \in Sessions : t # s => session'[t] = session[t]
      /\ session'[s].results = Append(r, new)
      /\ session'[s].at = p /\ session'[s].shown = session[s].shown
      /\ session'[s].status = session[s].status
  BY <1>1, <1>2 DEF SessionRow
<1>5. new \in Result
  BY <1>2 DEF Result
<1> HIDE DEF r, p, new
<1>6. /\ Len(Append(r, new)) = Len(r) + 1 /\ Append(r, new)[Len(r) + 1] = new
      /\ \A i \in 1 .. Len(r) : Append(r, new)[i] = r[i]
  BY <1>2, <1>5
<1>7. SpentIsKept'
  <2> SUFFICES ASSUME NEW t \in Sessions, InProgress(t)', Spent(t)'
               PROVE  \/ Named(t)' /\ PastKeeping(t)'
                      \/ /\ submit'.session = t /\ submit'.pc \in {"advance", "settle"}
                         /\ Named(t)' /\ AtKeeping(t)'
    BY DEF SpentIsKept
  <2>1. InProgress(t) /\ Spent(t)
    BY <1>1, <1>4 DEF InProgress, Spent, Own
  <2>2. CASE t # s
    <3>1. Named(t) /\ PastKeeping(t)
      BY <1>1, <2>1, <2>2 DEF Once, SpentIsKept
    <3> QED BY <1>4, <2>2, <3>1 DEF Named, PastKeeping, Rows
  <2>3. CASE t = s /\ Named(s) /\ PastKeeping(s)
    <3>1. PastKeeping(s)'
      BY <1>4, <2>3 DEF PastKeeping, p
    <3>2. PICK i \in 1 .. Len(r) : r[i].agreement # NoAgreement
      BY <2>3 DEF Named, Rows, r
    <3>3. i \in 1 .. Len(Append(r, new)) /\ Append(r, new)[i].agreement # NoAgreement
      BY <1>2, <1>6, <3>2
    <3>4. Named(s)'
      BY <1>4, <3>3 DEF Named, Rows
    <3> QED BY <2>3, <3>1, <3>4
  <2>4. CASE t = s /\ submit.agreement # NoAgreement /\ AtKeeping(s)
    <3>1. Len(r) + 1 \in 1 .. Len(Append(r, new))
      BY <1>2, <1>6
    <3>2. Append(r, new)[Len(r) + 1].agreement # NoAgreement
      BY <1>6, <2>4 DEF new
    <3>3. Named(s)'
      BY <1>4, <3>1, <3>2 DEF Named, Rows
    <3>4. AtKeeping(s)'
      BY <1>4, <2>4 DEF AtKeeping, p
    <3> QED BY <1>3, <2>4, <3>3, <3>4
  <2> QED BY <1>1, <2>1, <2>2, <2>3, <2>4 DEF Once, SpentIsKept
<1>8. \A t \in Sessions : /\ InProgress(t)' = InProgress(t)
                          /\ session'[t].status = session[t].status
  BY <1>4 DEF InProgress
<1> QED BY <1>1, <1>7, <1>8, QuietOnce

\* The session moves to the next step, past the persist_agreement step if it was
\* at it.
LEMMA AdvanceSessionOnce ==
    ASSUME WInv, Once, \A f \in Forms : Straight(f), AdvanceSession
    PROVE  Once'
<1> PICK s : s = submit.session
  OBVIOUS
<1> DEFINE f == session[s].shown
           p == session[s].at
<1>1. /\ submit.pc = "advance" /\ submit' = NoSubmit
      /\ session' = [session EXCEPT ![s].at = f.next[p]]
      /\ UNCHANGED <<form, agreement, subscribed, delivered, interrupts>>
  BY DEF AdvanceSession, StepsOf
<1>2. /\ s \in Sessions /\ session \in [Sessions -> SessionRow] /\ f \in Forms /\ p \in Pages
  BY <1>1, SubmitTyped, SessionTyped DEF WInv, WizardTypeOK
<1>3. f.next[p] \in Pages
  <2>1. ~Ends(f, p)
    BY <1>1 DEF WInv, HandlerStands
  <2> QED BY <1>2, <2>1, FormTyped DEF Ends
<1>4. /\ \A t \in Sessions : t # s => session'[t] = session[t]
      /\ session'[s].results = session[s].results
      /\ session'[s].at = f.next[p] /\ session'[s].shown = f
      /\ session'[s].status = session[s].status
  BY <1>1, <1>2 DEF SessionRow
<1>5. Rank(f) \in [Pages -> Nat] /\ Rank(f)[p] > Rank(f)[f.next[p]]
  <2>1. Rank(f) \in [Pages -> Nat] /\ Ordered(f, Rank(f))
    BY <1>2, RankOf
  <2>2. f.next[p] # NoPage
    BY <1>3, WizardAssumption
  <2>3. Rank(f)[f.next[p]] < Rank(f)[p]
    BY <1>2, <2>1, <2>2 DEF Ordered
  <2>4. Rank(f)[f.next[p]] \in Nat /\ Rank(f)[p] \in Nat
    BY <1>2, <1>3, <2>1
  <2> HIDE DEF f, p
  <2> QED BY <2>1, <2>3, <2>4
<1>6. SpentIsKept'
  <2> SUFFICES ASSUME NEW t \in Sessions, InProgress(t)', Spent(t)'
               PROVE  Named(t)' /\ PastKeeping(t)'
    BY DEF SpentIsKept
  <2>1. InProgress(t) /\ Spent(t)
    BY <1>1, <1>4 DEF InProgress, Spent, Own
  <2>2. CASE t # s
    <3>1. Named(t) /\ PastKeeping(t)
      BY <1>1, <2>1, <2>2 DEF Once, SpentIsKept
    <3> QED BY <1>4, <2>2, <3>1 DEF Named, PastKeeping, Rows
  <2>3. CASE t = s
    <3>1. Named(s) /\ (PastKeeping(s) \/ AtKeeping(s))
      BY <1>1, <2>1, <2>3 DEF Once, SpentIsKept
    <3>2. PICK q \in Pages : f.kind[q] = "persist" /\ (Rank(f)[q] > Rank(f)[p] \/ q = p)
      BY <1>2, <3>1 DEF PastKeeping, AtKeeping
    <3>3. Rank(f)[q] > Rank(f)[f.next[p]]
      <4>1. Rank(f)[q] \in Nat /\ Rank(f)[p] \in Nat /\ Rank(f)[f.next[p]] \in Nat
        BY <1>2, <1>3, <1>5
      <4> HIDE DEF f, p
      <4> QED BY <1>5, <3>2, <4>1
    <3>4. PastKeeping(s)'
      BY <1>4, <3>2, <3>3 DEF PastKeeping
    <3>5. Named(s)'
      BY <1>4, <3>1 DEF Named, Rows
    <3> QED BY <2>3, <3>4, <3>5
  <2> QED BY <2>2, <2>3
<1>7. \A t \in Sessions : /\ InProgress(t)' = InProgress(t)
                          /\ session'[t].status = session[t].status
  BY <1>4 DEF InProgress
<1> QED BY <1>1, <1>6, <1>7, QuietOnce

\* At its end a session that is spent finds its agreement in the results.
LEMMA SettleAgreementOnce ==
    ASSUME WInv, Once, SettleAgreement
    PROVE  Once'
<1> PICK s : s = submit.session
  OBVIOUS
<1> DEFINE r == session[s].results
<1>1. /\ submit.pc = "settle"
      /\ UNCHANGED <<form, session, subscribed, delivered, interrupts>>
  BY DEF SettleAgreement
<1>2. /\ submit \in Submit /\ s \in Sessions /\ submit.signer \in Signers
      /\ InProgress(s) /\ r \in Seq(Result) /\ Len(r) \in Nat
      /\ agreement \in [Agreements -> AgreementRow]
  BY <1>1, SubmitTyped, SessionTyped DEF WInv, WizardTypeOK, InProgress
<1>3. Persisted(s) = {i \in Rows(s) : r[i].agreement # NoAgreement}
  <2>1. DOMAIN r = Rows(s)
    BY <1>2 DEF Rows
  <2> QED BY <2>1 DEF Persisted
<1>4. PICK a \in Agreements : submit' = [submit EXCEPT !.pc = "subscribe", !.agreement = a]
  <2>1. \E a : submit' = [submit EXCEPT !.pc = "subscribe", !.agreement = a] /\ a \in Agreements
    <3>1. CASE Persisted(s) = {}
      BY <3>1 DEF SettleAgreement
    <3>2. CASE Persisted(s) # {}
      <4> DEFINE i == CHOOSE k \in Persisted(s) : \A l \in Persisted(s) : k <= l
      <4>1. submit' = [submit EXCEPT !.pc = "subscribe", !.agreement = r[i].agreement]
        BY <3>2 DEF SettleAgreement
      <4>2. Persisted(s) \subseteq Nat
        BY <1>2, <1>3 DEF Rows
      <4>3. i \in Persisted(s)
        BY <3>2, <4>2, LeastOfNaturals
      <4> HIDE DEF i
      <4>4. r[i] \in Result /\ r[i].agreement # NoAgreement
        BY <1>2, <1>3, <4>3 DEF Rows
      <4> QED BY <4>1, <4>4 DEF Result
    <3> QED BY <3>1, <3>2
  <2> QED BY <2>1
<1>5. submit'.pc = "subscribe" /\ submit'.session = s
  BY <1>2, <1>4 DEF Submit
<1>6. \A t \in Sessions : t # s /\ InProgress(t) /\ Spent(t) => Named(t)' /\ PastKeeping(t)'
  <2>1. \A t \in Sessions : t # s /\ InProgress(t) /\ Spent(t) => Named(t) /\ PastKeeping(t)
    BY <1>1 DEF Once, SpentIsKept
  <2> QED BY <1>1, <2>1 DEF Named, PastKeeping, Rows
<1>7. \A t \in Sessions : InProgress(t)' = InProgress(t)
  BY <1>1 DEF InProgress
<1>8. ASSUME \A t \in Sessions : t # s => Own(t)' = Own(t)
      PROVE  SpentIsKept'
  <2> SUFFICES ASSUME NEW t \in Sessions, InProgress(t)', Spent(t)'
               PROVE  (Named(t)' /\ PastKeeping(t)') \/ (submit'.session = t /\ submit'.pc = "subscribe")
    BY DEF SpentIsKept
  <2>1. CASE t = s
    BY <1>5, <2>1
  <2>2. CASE t # s
    BY <1>1, <1>6, <1>7, <1>8, <2>2 DEF Spent
  <2> QED BY <2>1, <2>2
<1>9. CASE Persisted(s) = {}
  <2>1. PICK b \in Agreements : NewAgreement(b, s, submit.signer)
    BY <1>9 DEF SettleAgreement
  <2>2. /\ agreement'[b].session = s /\ agreement[b].session = NoSession
        /\ \A c \in Agreements : c # b => agreement'[c] = agreement[c]
    BY <1>2, <2>1 DEF NewAgreement
  <2>3. ~Named(s)
    BY <1>3, <1>9 DEF Named
  <2>4. ~Spent(s)
    BY <1>1, <1>2, <2>3 DEF Once, SpentIsKept
  <2>5. \A t \in Sessions : t # s => Own(t)' = Own(t)
    BY <2>2, WizardAssumption DEF Own
  <2> QED BY <1>1, <1>2, <1>8, <2>2, <2>4, <2>5, NewAgreementOnce
<1>10. CASE Persisted(s) # {}
  <2> DEFINE i == CHOOSE k \in Persisted(s) : \A l \in Persisted(s) : k <= l
             b == r[i].agreement
  <2>1. agreement' = [agreement EXCEPT ![b].results = r]
    BY <1>10 DEF SettleAgreement, WithFinalResults
  <2> HIDE DEF b
  <2>2. \A c \in Agreements : agreement'[c].session = agreement[c].session
    BY <1>2, <2>1 DEF AgreementRow
  <2>3. \A t : Own(t)' = Own(t)
    BY <2>2 DEF Own
  <2>4. SpentIsKept'
    BY <1>8, <2>3
  <2>5. OneAgreementPerSession' /\ NotBegun'
    BY <1>1, <2>2, <2>3 DEF Once, OneAgreementPerSession, NotBegun
  <2>6. AnnouncedLast'
    BY <1>1, <1>7, <2>2 DEF Once, AnnouncedLast
  <2> QED BY <2>4, <2>5, <2>6 DEF Once
<1> QED BY <1>9, <1>10

\* The agreement of a session is announced just before the session is closed.
LEMMA AnnounceOnce ==
    ASSUME WInv, Once, Subscribe \/ Deliver
    PROVE  Once'
<1> PICK s : s = submit.session
  OBVIOUS
<1>1. /\ submit.pc \in {"subscribe", "deliver"}
      /\ submit' = [submit EXCEPT !.pc = "deliver"] \/ submit' = [submit EXCEPT !.pc = "close"]
      /\ UNCHANGED <<form, session, agreement, interrupts>>
  BY DEF Subscribe, Deliver
<1>2. /\ submit \in Submit /\ s \in Sessions /\ InProgress(s)
      /\ submit.agreement \in Agreements /\ agreement[submit.agreement].session = s
      /\ delivered \in [Agreements -> Nat] /\ interrupts \in Nat
  BY <1>1, SubmitTyped, WizardAssumption DEF WInv, OwnAgreements, WizardTypeOK, InProgress
<1>3. submit'.session = s /\ submit'.pc \in {"deliver", "close"}
  BY <1>1, <1>2 DEF Submit
<1>4. \A t \in Sessions : InProgress(t)' = InProgress(t) /\ Spent(t)' = Spent(t)
  BY <1>1 DEF InProgress, Spent, Own
<1>5. SpentIsKept'
  <2>1. \A t \in Sessions : t # s /\ InProgress(t) /\ Spent(t) => Named(t) /\ PastKeeping(t)
    BY <1>1 DEF Once, SpentIsKept
  <2>2. \A t \in Sessions : t # s /\ InProgress(t) /\ Spent(t) => Named(t)' /\ PastKeeping(t)'
    BY <1>1, <2>1 DEF Named, PastKeeping, Rows
  <2> QED BY <1>3, <1>4, <2>2 DEF SpentIsKept
<1>6. NotBegun'
  BY <1>1 DEF Once, NotBegun
<1>7. CASE Subscribe
  <2>1. submit.pc = "subscribe" /\ delivered' = delivered
    BY <1>7 DEF Subscribe
  <2>2. OneAgreementPerSession'
    BY <1>1, <2>1 DEF Once, OneAgreementPerSession, Own
  <2>3. AnnouncedLast'
    BY <1>1, <1>4, <2>1 DEF Once, AnnouncedLast
  <2> QED BY <1>5, <1>6, <2>2, <2>3 DEF Once
<1>8. CASE Deliver
  <2>1. /\ submit.pc = "deliver" /\ submit'.pc = "close"
        /\ delivered' = [delivered EXCEPT ![submit.agreement] = @ + 1]
    BY <1>2, <1>8 DEF Deliver, Submit
  <2>2. delivered[submit.agreement] <= interrupts
    BY <1>2, <2>1 DEF Once, AnnouncedLast
  <2>3. /\ delivered'[submit.agreement] = delivered[submit.agreement] + 1
        /\ \A b \in Agreements : b # submit.agreement => delivered'[b] = delivered[b]
    BY <1>2, <2>1
  <2>4. delivered'[submit.agreement] <= 1 + interrupts
    BY <1>2, <2>2, <2>3
  <2>5. OneAgreementPerSession'
    BY <1>1, <2>3, <2>4 DEF Once, OneAgreementPerSession, Own
  <2>6. AnnouncedLast'
    BY <1>1, <1>2, <1>3, <1>4, <2>1, <2>3, WizardAssumption DEF Once, AnnouncedLast
  <2> QED BY <1>5, <1>6, <2>5, <2>6 DEF Once
<1> QED BY <1>7, <1>8

\* An interruption excuses one more of each.
LEMMA InterruptOnce ==
    ASSUME WInv, Once, Interrupt
    PROVE  Once'
<1>1. /\ interrupts' = interrupts + 1 /\ UNCHANGED <<form, session, agreement, delivered>>
      /\ interrupts \in Nat /\ delivered \in [Agreements -> Nat]
  BY WizardAssumption DEF Interrupt, WInv, WizardTypeOK
<1>2. \A s \in Sessions : /\ Own(s)' = Own(s) /\ Cardinality(Own(s)) \in Nat
                          /\ Cardinality(Own(s)) <= 1 + interrupts
  BY <1>1, OwnTyped DEF Once, OneAgreementPerSession, Own
<1>3. \A a \in Agreements : delivered[a] <= 1 + interrupts
  BY DEF Once, OneAgreementPerSession
<1>4. \A s \in Sessions : ~Spent(s)'
  <2>1. \A s \in Sessions : Cardinality(Own(s)') <= 1 + interrupts /\ Cardinality(Own(s)') \in Nat
    BY <1>2
  <2> QED BY <1>1, <2>1 DEF Spent
<1>5. OneAgreementPerSession'
  BY <1>1, <1>2, <1>3 DEF OneAgreementPerSession
<1>6. SpentIsKept'
  BY <1>4 DEF SpentIsKept
<1>7. NotBegun'
  BY <1>1 DEF Once, NotBegun
<1>8. AnnouncedLast'
  BY <1>1, <1>3 DEF Once, AnnouncedLast
<1> QED BY <1>5, <1>6, <1>7, <1>8 DEF Once

\* The invariant is kept by every step.
LEMMA OnceKept ==
    ASSUME OInv, \A f \in Forms : Straight(f), [WizardNext]_wizardVars
    PROVE  OInv'
<1>1. WInv /\ Once /\ WInv'
  BY WizardStep DEF OInv
<1> SUFFICES Once'
  BY <1>1 DEF OInv
<1>2. ASSUME NEW s \in Sessions, CreateSession(s) \/ AbortSession(s) PROVE Once'
  BY <1>1, <1>2, CreateSessionOnce, SessionEndsOnce
<1>3. ASSUME NEW s \in Sessions, NEW u \in Signers, SubmitStep(s, u) PROVE Once'
  BY <1>1, <1>3, SubmitStepOnce
<1>4. CASE AppendResult
  BY <1>1, <1>4, AppendResultOnce
<1>5. CASE AdvanceSession
  BY <1>1, <1>5, AdvanceSessionOnce
<1>6. CASE SettleAgreement
  BY <1>1, <1>6, SettleAgreementOnce
<1>7. CASE Subscribe \/ Deliver
  BY <1>1, <1>7, AnnounceOnce
<1>8. CASE CloseSession
  <2>1. submit.session \in Sessions
    BY <1>1, <1>8 DEF CloseSession, WInv, HandlerStands
  <2> QED BY <1>1, <1>8, <2>1, SessionEndsOnce
<1>9. CASE DeleteForm \/ \E f \in Forms : EditForm(f)
  BY <1>1, <1>9, FormOnce
<1>10. CASE Interrupt
  BY <1>1, <1>10, InterruptOnce
<1>11. CASE UNCHANGED wizardVars
  BY <1>1, <1>11 DEF wizardVars, Once, OneAgreementPerSession, SpentIsKept, NotBegun,
     AnnouncedLast, InProgress, Spent, Own, Named, PastKeeping, AtKeeping, Rows
<1> QED BY <1>2, <1>3, <1>4, <1>5, <1>6, <1>7, <1>8, <1>9, <1>10, <1>11 DEF WizardNext

\* A session of a workflow without cycle and with one persist_agreement step at
\* most leads to one agreement, announced once, and to one more of each at most
\* for every handler that was cut short, whatever was edited, deleted or aborted
\* meanwhile: the step's agreement is found again at the end, in the results.
THEOREM OneAgreementAlways ==
    ASSUME \A f \in Forms : Straight(f)
    PROVE  WizardSpec => []OneAgreementPerSession
<1>1. WizardInit => OInv
  BY WizardInitInv, OnceInit DEF OInv
<1>2. OInv /\ [WizardNext]_wizardVars => OInv'
  BY OnceKept
<1>3. OInv => OneAgreementPerSession
  BY DEF OInv, Once
<1> QED BY <1>1, <1>2, <1>3, PTL DEF WizardSpec

=============================================================================
