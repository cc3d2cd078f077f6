-------------------------- MODULE MCWorkflowEngine --------------------------
(***************************************************************************)
(* Instances of WorkflowEngine for TLC: the step graphs, and which workflow *)
(* and which data product each execution is for.                           *)
(***************************************************************************)
EXTENDS WorkflowEngine, TLC

CONSTANTS e1, e2, review, publish, p1, alice, bob, t1

\* Step slugs.
Slugs == {"check", "owner", "steward", "done", "denied"}

Graph(first, kind, onPass, onFail, approvers) ==
    [steps |-> DOMAIN kind, first |-> first,
     kind |-> [s \in Slugs |-> IF s \in DOMAIN kind THEN kind[s] ELSE "pass"],
     onPass |-> [s \in Slugs |-> IF s \in DOMAIN onPass THEN onPass[s] ELSE NoStep],
     onFail |-> [s \in Slugs |-> IF s \in DOMAIN onFail THEN onFail[s] ELSE NoStep],
     approvers |-> [s \in Slugs |-> IF s \in DOMAIN approvers THEN approvers[s] ELSE {}]]

\* A validation, two approvals in a row, and the terminal steps the guide asks for.
TwoApprovals == Graph("check",
    [check |-> "auto", owner |-> "approval", steward |-> "approval",
     done |-> "pass", denied |-> "fail"],
    [check |-> "owner", owner |-> "steward", steward |-> "done"],
    [check |-> "denied", owner |-> "denied", steward |-> "denied"],
    [owner |-> {alice}, steward |-> {alice, bob}])

\* One approval, reached at once.
OneApproval == Graph("owner",
    [owner |-> "approval", done |-> "pass", denied |-> "fail"],
    [owner |-> "done"], [owner |-> "denied"], [owner |-> {alice, bob}])

\* An approval whose branches are NULL, which validate_workflow accepts.
BareApproval == Graph("owner", [owner |-> "approval"], <<>>, <<>>, [owner |-> {alice}])

\* No approval: a validation and its terminal steps.
Validation == Graph("check",
    [check |-> "auto", done |-> "pass", denied |-> "fail"],
    [check |-> "done"], [check |-> "denied"], <<>>)

BothReview == [e \in Executions |-> review]
ReviewThenPublish == (e1 :> review) @@ (e2 :> publish)
SameProduct == [e \in Executions |-> p1]
OtherEntity == [e \in Executions |-> NoEntity]

TwoStage == {TwoApprovals}
Edits == {OneApproval, Validation}
Bare == {BareApproval}
AllTwoStage == [f \in Workflows |-> TwoApprovals]
AllOneStage == [f \in Workflows |-> OneApproval]
AllBare == [f \in Workflows |-> BareApproval]
AllValidation == [f \in Workflows |-> Validation]
MixedDefs == [f \in Workflows |-> IF f = review THEN TwoApprovals ELSE Validation]
TwoStageAndValidation == {TwoApprovals, Validation}
=============================================================================
