--------------------------- MODULE AgreementWizard ---------------------------
(***************************************************************************)
(* The agreement wizard: AgreementWizardManager                            *)
(* (controller/agreement_wizard_manager.py), its routes                    *)
(* (routes/approvals_routes.py) and the tables agreement_wizard_sessions   *)
(* and agreements, for one workflow of type `approval'.                    *)
(*                                                                         *)
(* The routes do not await between their first read and their last commit, *)
(* so the event loop runs one handler at a time; but a handler commits     *)
(* several times, and when it raises or the process dies between two       *)
(* commits, what was committed stays.  Names carry a prefix because the    *)
(* module is composed with others by EXTENDS.                              *)
(***************************************************************************)
EXTENDS Naturals, Sequences, FiniteSets

CONSTANTS
    Signers,           \* users
    Sessions,          \* ids of agreement_wizard_sessions rows; uuid4
    Agreements,        \* ids of agreements rows; uuid4
    Pages, NoPage,     \* step ids
    Forms,             \* definitions the workflow may have
    FirstForm,         \* the one it has at first
    NoSession, NoAgreement, NoSigner,
    MaxFormVersion,    \* bound: edits of the workflow
    MaxInterrupts      \* bound: handlers that raise or die half-way

\* input: a page that is filled in and leaves only its payload; persist:
\* persist_agreement; pass: a pass step
PageKinds == {"input", "persist", "pass"}

\* Ordered steps; the first is where a session starts.  next is on_pass; branches
\* are the steps that have an on_fail, which is never followed.
Form == [first : Pages, kind : [Pages -> PageKinds], next : [Pages -> Pages \cup {NoPage}],
         branches : SUBSET Pages]

ASSUME WizardAssumption ==
    /\ NoPage \notin Pages /\ NoSession \notin Sessions
    /\ NoAgreement \notin Agreements /\ NoSigner \notin Signers
    /\ IsFiniteSet(Agreements)
    /\ Forms \subseteq Form /\ FirstForm \in Forms
    /\ MaxFormVersion \in Nat \ {0} /\ MaxInterrupts \in Nat

VARIABLES
    form,        \* the live workflow; version 0: deleted
    session,     \* agreement_wizard_sessions rows
    agreement,   \* agreements rows
    subscribed,  \* users with a subscription of the entity
    delivered,   \* delivery notifications sent for each agreement
    submit,      \* locals of submit_step and _complete_session
    interrupts

wizardVars == <<form, session, agreement, subscribed, delivered, submit, interrupts>>

Result == [page : Pages, agreement : Agreements \cup {NoAgreement}]
SessionStatus == {"none", "in_progress", "completed", "abandoned"}
SessionRow == [status : SessionStatus, shown : Forms, version : 0 .. MaxFormVersion,
               at : Pages, results : Seq(Result)]
AgreementRow == [session : Sessions \cup {NoSession}, signer : Signers \cup {NoSigner},
                 version : 0 .. MaxFormVersion, shown : 0 .. MaxFormVersion,
                 results : Seq(Result)]
Submit == [pc : {"idle", "append", "advance", "settle", "subscribe", "deliver", "close"},
           session : Sessions \cup {NoSession}, signer : Signers \cup {NoSigner},
           agreement : Agreements \cup {NoAgreement}]

WizardTypeOK ==
    /\ form \in [version : 0 .. MaxFormVersion, definition : Forms]
    /\ session \in [Sessions -> SessionRow]
    /\ agreement \in [Agreements -> AgreementRow]
    /\ subscribed \in SUBSET Signers
    /\ delivered \in [Agreements -> Nat]
    /\ submit \in Submit
    /\ interrupts \in 0 .. MaxInterrupts

EmptySession == [status |-> "none", shown |-> FirstForm, version |-> 0,
                 at |-> FirstForm.first, results |-> <<>>]
EmptyAgreement == [session |-> NoSession, signer |-> NoSigner, version |-> 0, shown |-> 0,
                   results |-> <<>>]
NoSubmit == [pc |-> "idle", session |-> NoSession, signer |-> NoSigner,
             agreement |-> NoAgreement]

WizardInit ==
    /\ form = [version |-> 1, definition |-> FirstForm]
    /\ session = [s \in Sessions |-> EmptySession]
    /\ agreement = [a \in Agreements |-> EmptyAgreement]
    /\ subscribed = {}
    /\ delivered = [a \in Agreements |-> 0]
    /\ submit = NoSubmit
    /\ interrupts = 0

-----------------------------------------------------------------------------
(* Sessions and their steps *)

LiveSteps(s) == form.definition
\* _get_steps_from_snapshot: the workflow as it was when the session began
StepsOf(s) == session[s].shown

EndsAtPass(f, p) == /\ f.next[p] # NoPage /\ f.next[p] \notin f.branches
                    /\ f.kind[f.next[p]] = "pass" /\ f.next[f.next[p]] = NoPage
\* What submit_step takes for the end: no on_pass, or a pass step that has
\* neither on_pass nor on_fail.
Ends(f, p) == \/ f.next[p] = NoPage
              \/ /\ f.kind[f.next[p]] = "pass" /\ f.next[f.next[p]] = NoPage
                 /\ f.next[p] \notin f.branches

\* create_session
CreateSession(s) ==
    /\ submit.pc = "idle"
    /\ session[s].status = "none"
    /\ form.version # 0
    /\ session' = [session EXCEPT
                     ![s] = [status |-> "in_progress", shown |-> form.definition,
                             version |-> form.version, at |-> form.definition.first,
                             results |-> <<>>]]
    /\ UNCHANGED <<form, agreement, subscribed, delivered, submit, interrupts>>

Open(s) == session[s].status = "in_progress"

\* agreements_repo.create: the workflow's live version is recorded with the
\* snapshot the session has shown.
NewAgreement(a, s, u) ==
    /\ agreement[a].session = NoSession
    /\ agreement' = [agreement EXCEPT
                       ![a] = [session |-> s, signer |-> u, version |-> form.version,
                               shown |-> session[s].version,
                               results |-> session[s].results]]

\* submit_step, up to the first commit of a persist_agreement step; other
\* steps have nothing to commit yet.
SubmitStep(s, u) ==
    LET p == session[s].at IN
    /\ submit.pc = "idle"
    /\ Open(s)
    /\ IF StepsOf(s).kind[p] = "persist"
       THEN \E a \in Agreements :
              /\ NewAgreement(a, s, u)
              /\ submit' = [pc |-> "append", session |-> s, signer |-> u, agreement |-> a]
       ELSE /\ submit' = [pc |-> "append", session |-> s, signer |-> u,
                          agreement |-> NoAgreement]
            /\ UNCHANGED agreement
    /\ UNCHANGED <<form, session, subscribed, delivered, interrupts>>

\* append_step_result
AppendResult ==
    LET s == submit.session
        p == session[s].at IN
    /\ submit.pc = "append"
    /\ session' = [session EXCEPT
                     ![s].results = Append(@, [page |-> p, agreement |-> submit.agreement])]
    /\ submit' = [submit EXCEPT !.pc = IF Ends(StepsOf(s), p) THEN "settle" ELSE "advance"]
    /\ UNCHANGED <<form, agreement, subscribed, delivered, interrupts>>

\* set_current_step_index
AdvanceSession ==
    LET s == submit.session IN
    /\ submit.pc = "advance"
    /\ session' = [session EXCEPT ![s].at = StepsOf(s).next[@]]
    /\ submit' = NoSubmit
    /\ UNCHANGED <<form, agreement, subscribed, delivered, interrupts>>

ForgetPersisted(s) == {}
\* The results that say persisted_at_step; _complete_session takes the first.
Persisted(s) == {i \in DOMAIN session[s].results :
                    session[s].results[i].agreement # NoAgreement}

AsPersisted(a, s) == agreement
WithFinalResults(a, s) == [agreement EXCEPT ![a].results = session[s].results]

\* _complete_session: the agreement gets the final results, or is created now.
SettleAgreement ==
    LET s == submit.session IN
    /\ submit.pc = "settle"
    /\ IF Persisted(s) # {}
       THEN LET i == CHOOSE k \in Persisted(s) : \A l \in Persisted(s) : k <= l
                a == session[s].results[i].agreement IN
            /\ agreement' = WithFinalResults(a, s)
            /\ submit' = [submit EXCEPT !.pc = "subscribe", !.agreement = a]
       ELSE \E a \in Agreements :
            /\ NewAgreement(a, s, submit.signer)
            /\ submit' = [submit EXCEPT !.pc = "subscribe", !.agreement = a]
    /\ UNCHANGED <<form, session, subscribed, delivered, interrupts>>

\* completion_action: errors of the subscription are only logged.
Subscribe ==
    /\ submit.pc = "subscribe"
    /\ \/ subscribed' = subscribed \cup {submit.signer}
       \/ UNCHANGED subscribed
    /\ submit' = [submit EXCEPT !.pc = "deliver"]
    /\ UNCHANGED <<form, session, agreement, delivered, interrupts>>

\* _send_delivery_notifications, committed by what follows
Deliver ==
    /\ submit.pc = "deliver"
    /\ delivered' = [delivered EXCEPT ![submit.agreement] = @ + 1]
    /\ submit' = [submit EXCEPT !.pc = "close"]
    /\ UNCHANGED <<form, session, agreement, subscribed, interrupts>>

\* set_completed, the last commit
CloseSession ==
    /\ submit.pc = "close"
    /\ session' = [session EXCEPT ![submit.session].status = "completed"]
    /\ submit' = NoSubmit
    /\ UNCHANGED <<form, agreement, subscribed, delivered, interrupts>>

\* abort_session
AbortSession(s) ==
    /\ submit.pc = "idle"
    /\ session[s].status = "in_progress"
    /\ session' = [session EXCEPT ![s].status = "abandoned"]
    /\ UNCHANGED <<form, agreement, subscribed, delivered, submit, interrupts>>

\* The handler raises, or the process dies.
Interrupt ==
    /\ submit.pc # "idle"
    /\ interrupts < MaxInterrupts  \* bound
    /\ interrupts' = interrupts + 1
    /\ submit' = NoSubmit
    /\ UNCHANGED <<form, session, agreement, subscribed, delivered>>

\* ProcessWorkflowRepository.update
EditForm(f) ==
    /\ submit.pc = "idle"
    /\ form.version \in 1 .. MaxFormVersion - 1  \* bound
    /\ form' = [version |-> form.version + 1, definition |-> f]
    /\ UNCHANGED <<session, agreement, subscribed, delivered, submit, interrupts>>

\* ProcessWorkflowRepository.delete: the sessions go (ON DELETE CASCADE), the
\* agreements stay.
DeleteForm ==
    /\ submit.pc = "idle"
    /\ form.version # 0
    /\ form' = [form EXCEPT !.version = 0]
    /\ session' = [s \in Sessions |-> EmptySession]
    /\ UNCHANGED <<agreement, subscribed, delivered, submit, interrupts>>

WizardNext ==
    \/ \E s \in Sessions : CreateSession(s) \/ AbortSession(s)
    \/ \E s \in Sessions, u \in Signers : SubmitStep(s, u)
    \/ AppendResult \/ AdvanceSession \/ SettleAgreement \/ Subscribe \/ Deliver
    \/ CloseSession
    \/ Interrupt
    \/ \E f \in Forms : EditForm(f)
    \/ DeleteForm

WizardSpec == WizardInit /\ [][WizardNext]_wizardVars

-----------------------------------------------------------------------------
(* Properties *)

\* The results of a session are one walk through the workflow it was shown,
\* whatever became of the workflow meanwhile: each is the successor of the one
\* before.  Only a handler cut short between its two last commits makes a step
\* appear twice in a row.
WalksWhatWasShown ==
    \A s \in Sessions :
        LET r == session[s].results
            f == session[s].shown IN
        /\ r # <<>> => r[1].page = f.first
        /\ \A i \in 1 .. Len(r) - 1 :
              \/ r[i + 1].page = f.next[r[i].page]
              \/ interrupts > 0 /\ r[i + 1].page = r[i].page

\* The agreements a session led to
Own(s) == {a \in Agreements : agreement[a].session = s}

\* A session leads to one agreement, which is announced once, although a
\* persist_agreement step and the end of the session both create one.  A handler
\* that is cut short costs one more of each at the most, whatever steps are then
\* submitted again.  (For workflows without cycle and with one such step at most.)
OneAgreementPerSession ==
    /\ \A s \in Sessions : Cardinality(Own(s)) <= 1 + interrupts
    /\ \A a \in Agreements : delivered[a] <= 1 + interrupts

\* A completed session came to an end of its workflow, and an agreement holds
\* all that was answered on the way.
CompletedIsSigned ==
    \A s \in Sessions : session[s].status = "completed" =>
        LET r == session[s].results IN
        /\ r # <<>> /\ Ends(session[s].shown, r[Len(r)].page)
        /\ \E a \in Agreements : agreement[a].session = s /\ agreement[a].results = r

-----------------------------------------------------------------------------
(* What a docstring says of the program, and the code does not do *)

\* has_user_signed_workflow_at_version
HasSigned(u) == \E a \in Agreements :
    agreement[a].signer = u /\ agreement[a].version >= form.version

\* "a user whose accepted version is older than the workflow's current version
\* also returns False": who counts as having signed saw the current version.
SignedWhatIsCurrent ==
    \A u \in Signers : form.version # 0 /\ HasSigned(u) =>
        \E a \in Agreements : agreement[a].signer = u /\ agreement[a].shown >= form.version
=============================================================================
