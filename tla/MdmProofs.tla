------------------------------ MODULE MdmProofs ------------------------------
(***************************************************************************)
(* Proofs about Mdm, for any runs, candidates, reviews and rules: the      *)
(* links from candidates to assets are sound, and what a reviewer entered  *)
(* is kept.                                                                *)
(***************************************************************************)
EXTENDS Mdm, TLAPS

\* A row that is not there has no merged data and no link.
EmptyRows == \A c \in Candidates :
    candidate[c].status = "none" => candidate[c].merged = NoData

\* What create_review_for_matches has still to link: different assets of one
\* review that nobody is linked to; they are all in the session, or all in the
\* database, or the review is gone.
LinkPlan ==
    /\ \A l, m \in handler.links : l[2] = m[2] => l = m
    /\ \A l \in handler.links, c \in Candidates : candidate[c].asset # l[2]
    /\ handler.flushed # {} => \A l \in handler.links : l[2] \in handler.flushed
    /\ handler.flushed = {} =>
          \A l \in handler.links : Stored(l[2][1]) => asset[l[2]] # "none"

MInv == MdmTypeOK /\ EmptyRows /\ LinkPlan /\ LinksAreSound

-----------------------------------------------------------------------------
(* Types *)

LEMMA MdmInitInv == MdmInit => MInv
<1> SUFFICES ASSUME MdmInit PROVE MInv
  OBVIOUS
<1>1. NoCandidate \in CandidateRow /\ NoHandler \in Handler
  BY MdmAssumption DEF NoCandidate, CandidateRow, CandidateStatus, NoHandler, Handler
<1>2. MdmTypeOK
  BY <1>1, MdmAssumption DEF MdmInit, MdmTypeOK, MatchRunStatus
<1>3. EmptyRows /\ LinkPlan /\ LinksAreSound
  BY DEF MdmInit, EmptyRows, LinkPlan, LinksAreSound, NoCandidate, NoHandler
<1> QED BY <1>2, <1>3 DEF MInv

\* Steps of runs, configurations and jobs.
LEMMA RunStepTyped ==
    ASSUME MdmTypeOK,
           \/ \E status \in {"active", "paused"}, rules \in Rules : UpdateConfig(status, rules)
           \/ DeleteConfig
           \/ \E r \in Runs : StartMatchRun(r) \/ JobBegins(r) \/ JobEnds(r)
           \/ LaunchJob \/ RecordStarted
           \/ \E r \in Runs, cs \in SUBSET Candidates : JobSaves(r, cs)
    PROVE  MdmTypeOK'
<1> USE MdmAssumption
<1>a. /\ config \in [status : {"active", "paused", "deleted"}, rules : Rules]
      /\ matchRun \in [Runs -> MatchRunStatus]
      /\ job \in [Runs -> {"none", "queued", "matching", "ended"}]
      /\ candidate \in [Candidates -> CandidateRow]
      /\ handler \in Handler
  BY DEF MdmTypeOK
<1>b. NoCandidate \in CandidateRow /\ NoHandler \in Handler
  BY DEF NoCandidate, CandidateRow, CandidateStatus, NoHandler, Handler
<1>1. ASSUME \E status \in {"active", "paused"}, rules \in Rules : UpdateConfig(status, rules)
      PROVE  MdmTypeOK'
  BY <1>1 DEF UpdateConfig, MdmTypeOK
<1>2. ASSUME DeleteConfig PROVE MdmTypeOK'
  BY <1>2, <1>a, <1>b DEF DeleteConfig, MdmTypeOK, MatchRunStatus
<1>3. ASSUME NEW r \in Runs, StartMatchRun(r) PROVE MdmTypeOK'
  <2>1. handler' \in Handler
    BY <1>3 DEF StartMatchRun, NoHandler, Handler
  <2> QED BY <1>3, <2>1, <1>a DEF StartMatchRun, MdmTypeOK, MatchRunStatus
<1>4. ASSUME NEW r \in Runs, JobBegins(r) \/ JobEnds(r) PROVE MdmTypeOK'
  BY <1>4, <1>a DEF JobBegins, JobEnds, WriteRun, MdmTypeOK, MatchRunStatus
<1>5. ASSUME LaunchJob PROVE MdmTypeOK'
  <2>1. handler' \in Handler
    BY <1>5, <1>a, <1>b DEF LaunchJob, Handler
  <2> QED BY <1>5, <2>1, <1>a DEF LaunchJob, MdmTypeOK, MatchRunStatus
<1>6. ASSUME RecordStarted PROVE MdmTypeOK'
  BY <1>6, <1>a, <1>b DEF RecordStarted, MdmTypeOK, MatchRunStatus
<1>7. ASSUME NEW r \in Runs, NEW cs \in SUBSET Candidates, JobSaves(r, cs) PROVE MdmTypeOK'
  <2>1. [NoCandidate EXCEPT !.status = "pending", !.run = r] \in CandidateRow
    BY DEF NoCandidate, CandidateRow, CandidateStatus
  <2>2. candidate' \in [Candidates -> CandidateRow]
    BY <1>7, <2>1, <1>a DEF JobSaves
  <2> QED BY <1>7, <2>2 DEF JobSaves, MdmTypeOK
<1> QED BY <1>1, <1>2, <1>3, <1>4, <1>5, <1>6, <1>7

\* Steps of reviews, decisions and merges.
LEMMA ReviewStepTyped ==
    ASSUME MdmTypeOK,
           \/ \E v \in Reviews, r \in Runs : CreateReview(v, r)
           \/ \E l \in handler.links : LinkCandidate(l)
           \/ LinkFails \/ MdmInterrupt
           \/ \E v \in Reviews : DeleteReview(v)
           \/ \E r \in Runs : SyncReviews(r)
           \/ \E c \in Candidates, status \in CandidateStatus \ {"none"},
                 data \in {ByReviewer, NoData} : UpdateCandidate(c, status, data)
           \/ \E r \in Runs, dryRun \in BOOLEAN : MergeApproved(r, dryRun)
    PROVE  MdmTypeOK'
<1> USE MdmAssumption
<1>a. /\ candidate \in [Candidates -> CandidateRow]
      /\ asset \in [Assets -> {"none", "pending", "decided"}]
      /\ handler \in Handler
      /\ config.rules \in Rules
  BY DEF MdmTypeOK
<1>b. NoHandler \in Handler
  BY DEF NoHandler, Handler
<1>1. ASSUME NEW v \in Reviews, NEW r \in Runs, CreateReview(v, r) PROVE MdmTypeOK'
  <2> DEFINE cs == PendingOf(r)
             as == {<<v, c>> : c \in cs}
  <2>1. cs \in SUBSET Candidates /\ as \in SUBSET Assets
    BY DEF PendingOf, Assets
  <2>2. PICK pairing \in [cs -> as], triggers \in BOOLEAN :
          /\ handler' = [pc |-> "link", run |-> r,
                         flushed |-> IF triggers THEN {} ELSE as,
                         links |-> {<<c, pairing[c]>> : c \in cs}]
          /\ IF triggers THEN StoreAssets(as) ELSE UNCHANGED asset
    BY <1>1 DEF CreateReview
  <2>3. {<<c, pairing[c]>> : c \in cs} \in SUBSET (Candidates \X Assets)
    BY <2>1
  <2>4. handler' \in Handler
    BY <2>1, <2>2, <2>3 DEF Handler
  <2>5. asset' \in [Assets -> {"none", "pending", "decided"}]
    BY <2>2, <1>a DEF StoreAssets
  <2> QED BY <1>1, <2>4, <2>5 DEF CreateReview, MdmTypeOK
<1>2. ASSUME NEW l \in handler.links, LinkCandidate(l) PROVE MdmTypeOK'
  <2>1. l[1] \in Candidates /\ l[2] \in Assets
    BY <1>a DEF Handler
  <2>2. candidate' \in [Candidates -> CandidateRow]
    BY <1>2, <2>1, <1>a DEF LinkCandidate, CandidateRow
  <2>3. [handler EXCEPT !.flushed = {}, !.links = @ \ {l}] \in Handler
    BY <1>a DEF Handler
  <2>4. handler' \in Handler
    BY <1>2, <2>3, <1>b DEF LinkCandidate
  <2>5. asset' \in [Assets -> {"none", "pending", "decided"}]
    BY <1>2, <1>a DEF LinkCandidate, StoreAssets
  <2> QED BY <1>2, <2>2, <2>4, <2>5 DEF LinkCandidate, MdmTypeOK
<1>3. ASSUME LinkFails \/ MdmInterrupt PROVE MdmTypeOK'
  BY <1>3, <1>b DEF LinkFails, MdmInterrupt, MdmTypeOK
<1>4. ASSUME NEW v \in Reviews, DeleteReview(v) PROVE MdmTypeOK'
  BY <1>4, <1>a DEF DeleteReview, MdmTypeOK
<1>5. ASSUME NEW r \in Runs, SyncReviews(r) PROVE MdmTypeOK'
  BY <1>5, <1>a DEF SyncReviews, MdmTypeOK
<1>6. ASSUME NEW c \in Candidates, NEW status \in CandidateStatus \ {"none"},
             NEW data \in {ByReviewer, NoData}, UpdateCandidate(c, status, data)
      PROVE  MdmTypeOK'
  <2>1. candidate' \in [Candidates -> CandidateRow]
    BY <1>6, <1>a DEF UpdateCandidate, CandidateRow
  <2>2. asset' \in [Assets -> {"none", "pending", "decided"}]
    BY <1>6, <1>a DEF UpdateCandidate, SyncAsset
  <2> QED BY <1>6, <2>1, <2>2 DEF UpdateCandidate, MdmTypeOK
<1>7. ASSUME NEW r \in Runs, NEW dryRun \in BOOLEAN, MergeApproved(r, dryRun) PROVE MdmTypeOK'
  <2>1. ASSUME NEW c \in Candidates
        PROVE  [candidate[c] EXCEPT !.merged = IF NeedsRules(c) THEN config.rules ELSE @,
                                    !.status = IF dryRun THEN @ ELSE "merged"] \in CandidateRow
    <3>1. candidate[c] \in CandidateRow
      BY <1>a
    <3>2. "merged" \in CandidateStatus
      BY DEF CandidateStatus
    <3> QED BY <3>1, <3>2, <1>a DEF CandidateRow
  <2>2. candidate' \in [Candidates -> CandidateRow]
    BY <1>7, <2>1, <1>a DEF MergeApproved
  <2> QED BY <1>7, <2>2 DEF MergeApproved, MdmTypeOK
<1> QED BY <1>1, <1>2, <1>3, <1>4, <1>5, <1>6, <1>7

LEMMA MdmStepTyped == ASSUME MdmTypeOK, [MdmNext]_mdmVars PROVE MdmTypeOK'
<1>1. CASE UNCHANGED mdmVars
  BY <1>1 DEF mdmVars, MdmTypeOK
<1> QED BY <1>1, RunStepTyped, ReviewStepTyped DEF MdmNext

-----------------------------------------------------------------------------
(* Rows that are not there *)

LEMMA EmptyRowsKept ==
    ASSUME MdmTypeOK, EmptyRows, [MdmNext]_mdmVars
    PROVE  EmptyRows'
<1>a. candidate \in [Candidates -> CandidateRow]
  BY DEF MdmTypeOK
<1>1. CASE UNCHANGED candidate
  BY <1>1 DEF EmptyRows
<1>2. CASE DeleteConfig
  BY <1>2 DEF DeleteConfig, EmptyRows, NoCandidate
<1>3. ASSUME NEW r \in Runs, NEW cs \in SUBSET Candidates, JobSaves(r, cs) PROVE EmptyRows'
  BY <1>3 DEF JobSaves, EmptyRows, NoCandidate
<1>4. ASSUME NEW l \in handler.links, LinkCandidate(l) PROVE EmptyRows'
  BY <1>4, <1>a DEF LinkCandidate, EmptyRows, CandidateRow
<1>5. ASSUME NEW c \in Candidates, NEW status \in CandidateStatus \ {"none"},
             NEW data \in {ByReviewer, NoData}, UpdateCandidate(c, status, data)
      PROVE  EmptyRows'
  BY <1>5, <1>a DEF UpdateCandidate, EmptyRows, CandidateRow
<1>6. ASSUME NEW r \in Runs, NEW dryRun \in BOOLEAN, MergeApproved(r, dryRun) PROVE EmptyRows'
  <2>1. ASSUME NEW c \in Candidates, candidate'[c].status = "none"
        PROVE  candidate'[c] = candidate[c]
    BY <1>6, <2>1, <1>a DEF MergeApproved, CandidateRow
  <2> QED BY <2>1 DEF EmptyRows
<1> QED BY <1>1, <1>2, <1>3, <1>4, <1>5, <1>6 DEF MdmNext, mdmVars, UpdateConfig, StartMatchRun,
     JobBegins, JobEnds, SyncReviews, LaunchJob, RecordStarted, CreateReview, LinkFails,
     DeleteReview, MdmInterrupt

-----------------------------------------------------------------------------
(* Links *)

\* Steps that keep the links there are and the plan there is, or drop them,
\* and take no asset away.
LEMMA LinksLeftAlone ==
    ASSUME MdmTypeOK, LinkPlan, LinksAreSound,
           \A c \in Candidates : candidate'[c].asset \in {candidate[c].asset, NoAsset},
           \A a \in Assets : asset'[a] = "none" <=> asset[a] = "none",
           handler'.links = {} \/ (handler'.links = handler.links /\ handler'.flushed = handler.flushed)
    PROVE  LinkPlan' /\ LinksAreSound'
<1>a. handler \in Handler /\ candidate \in [Candidates -> CandidateRow]
  BY DEF MdmTypeOK
<1>b. \A l \in handler.links : l[2] \in Assets /\ l[2][1] \in Reviews
  BY <1>a DEF Handler, Assets
<1>c. NoAsset \notin Assets
  BY MdmAssumption
<1>1. \A v \in Reviews : Stored(v)' <=> Stored(v)
  BY DEF Stored, Assets
<1>2. LinkPlan'
  <2>1. CASE handler'.links = {}
    BY <2>1 DEF LinkPlan
  <2>2. CASE handler'.links = handler.links /\ handler'.flushed = handler.flushed
    <3>1. \A l \in handler'.links, c \in Candidates : candidate'[c].asset # l[2]
      BY <2>2, <1>b, <1>c DEF LinkPlan
    <3>2. handler'.flushed = {} =>
            \A l \in handler'.links : Stored(l[2][1])' => asset'[l[2]] # "none"
      BY <2>2, <1>1, <1>b DEF LinkPlan
    <3>3. \A l, m \in handler'.links : l[2] = m[2] => l = m
      BY <2>2 DEF LinkPlan
    <3>4. handler'.flushed # {} => \A l \in handler'.links : l[2] \in handler'.flushed
      BY <2>2 DEF LinkPlan
    <3> QED BY <3>1, <3>2, <3>3, <3>4 DEF LinkPlan
  <2> QED BY <2>1, <2>2
<1>3. ASSUME NEW c \in Candidates, candidate'[c].asset # NoAsset
      PROVE  /\ asset'[candidate'[c].asset] # "none"
             /\ \A d \in Candidates : candidate'[d].asset = candidate'[c].asset => c = d
  <2>1. candidate'[c].asset = candidate[c].asset /\ candidate[c].asset \in Assets
    BY <1>3, <1>a DEF CandidateRow
  <2>2. asset[candidate[c].asset] # "none"
    BY <1>3, <2>1 DEF LinksAreSound
  <2>3. \A d \in Candidates : candidate[d].asset = candidate[c].asset => c = d
    BY <1>3, <2>1 DEF LinksAreSound
  <2> QED BY <1>3, <2>1, <2>2, <2>3
<1> QED BY <1>2, <1>3 DEF LinksAreSound

LEMMA LinksKept ==
    ASSUME MdmTypeOK, LinkPlan, LinksAreSound, [MdmNext]_mdmVars
    PROVE  LinkPlan' /\ LinksAreSound'
<1> USE MdmAssumption
<1>a. /\ handler \in Handler /\ candidate \in [Candidates -> CandidateRow]
      /\ asset \in [Assets -> {"none", "pending", "decided"}]
  BY DEF MdmTypeOK
<1> DEFINE Goal == LinkPlan' /\ LinksAreSound'
<1>1. CASE UNCHANGED <<candidate, asset, handler>>
  BY <1>1, LinksLeftAlone
<1>2. ASSUME UNCHANGED <<candidate, asset>>,
             LaunchJob \/ RecordStarted \/ LinkFails \/ MdmInterrupt
      PROVE  Goal
  <2>1. handler'.links = {} \/ (handler'.links = handler.links /\ handler'.flushed = handler.flushed)
    BY <1>2, <1>a DEF LaunchJob, RecordStarted, LinkFails, MdmInterrupt, NoHandler, Handler
  <2> QED BY <1>2, <2>1, LinksLeftAlone
<1>3. CASE DeleteConfig
  BY <1>3, <1>a, LinksLeftAlone DEF DeleteConfig, NoCandidate
<1>4. ASSUME NEW r \in Runs, NEW cs \in SUBSET Candidates, JobSaves(r, cs) PROVE Goal
  BY <1>4, <1>a, LinksLeftAlone DEF JobSaves, NoCandidate
<1>5. ASSUME NEW c \in Candidates, NEW status \in CandidateStatus \ {"none"},
             NEW data \in {ByReviewer, NoData}, UpdateCandidate(c, status, data)
      PROVE  Goal
  <2>1. \A d \in Candidates : candidate'[d].asset = candidate[d].asset
    BY <1>5, <1>a DEF UpdateCandidate, CandidateRow
  <2>2. \A a \in Assets : asset'[a] = "none" <=> asset[a] = "none"
    BY <1>5, <1>a DEF UpdateCandidate, SyncAsset
  <2> QED BY <1>5, <2>1, <2>2, LinksLeftAlone DEF UpdateCandidate
<1>6. ASSUME NEW r \in Runs, NEW dryRun \in BOOLEAN, MergeApproved(r, dryRun) PROVE Goal
  <2>1. \A d \in Candidates : candidate'[d].asset = candidate[d].asset
    BY <1>6, <1>a DEF MergeApproved, CandidateRow
  <2> QED BY <1>6, <2>1, LinksLeftAlone DEF MergeApproved
<1>7. ASSUME NEW r \in Runs, SyncReviews(r) PROVE Goal
  <2>1. \A a \in Assets : asset'[a] = "none" <=> asset[a] = "none"
    BY <1>7, <1>a DEF SyncReviews
  <2> QED BY <1>7, <2>1, LinksLeftAlone DEF SyncReviews
<1>8. ASSUME NEW v \in Reviews, DeleteReview(v) PROVE Goal
  <2>1. /\ UNCHANGED <<candidate, handler>> /\ Stored(v) /\ Unlinked(v)
        /\ asset' = [a \in Assets |-> IF a[1] = v THEN "none" ELSE asset[a]]
    BY <1>8 DEF DeleteReview
  <2>2. ~Stored(v)' /\ \A u \in Reviews : u # v => (Stored(u)' <=> Stored(u))
    BY <2>1, <1>a DEF Stored, Assets
  <2>3. LinkPlan'
    <3>1. \A l \in handler.links : l[2] \in Assets /\ l[2][1] \in Reviews
      BY <1>a DEF Handler, Assets
    <3>2. handler.flushed = {} =>
            \A l \in handler.links : Stored(l[2][1])' => asset'[l[2]] # "none"
      BY <2>1, <2>2, <3>1 DEF LinkPlan
    <3> QED BY <2>1, <3>2 DEF LinkPlan
  <2>4. LinksAreSound'
    BY <2>1, <1>a DEF LinksAreSound, Unlinked, CandidateRow
  <2> QED BY <2>3, <2>4
<1>9. ASSUME NEW v \in Reviews, NEW r \in Runs, CreateReview(v, r) PROVE Goal
  <2> DEFINE cs == PendingOf(r)
             as == {<<v, c>> : c \in cs}
  <2>1. PICK pairing \in [cs -> as], triggers \in BOOLEAN :
          /\ \A c, d \in cs : pairing[c] = pairing[d] => c = d
          /\ handler' = [pc |-> "link", run |-> r,
                         flushed |-> IF triggers THEN {} ELSE as,
                         links |-> {<<c, pairing[c]>> : c \in cs}]
          /\ IF triggers THEN StoreAssets(as) ELSE UNCHANGED asset
    BY <1>9 DEF CreateReview
  <2>2. candidate' = candidate /\ ~Stored(v) /\ as \subseteq Assets
    BY <1>9 DEF CreateReview, PendingOf, Assets
  <2>3. \A l \in handler'.links : l[2] \in as /\ l[2][1] = v
    BY <2>1
  <2>4. \A l, m \in handler'.links : l[2] = m[2] => l = m
    BY <2>1
  <2>5. \A a \in as : asset[a] = "none"
    BY <2>2, <1>a DEF Stored, PendingOf
  <2>6. \A l \in handler'.links, c \in Candidates : candidate'[c].asset # l[2]
    BY <2>2, <2>3, <2>5 DEF LinksAreSound
  <2>7. \A a \in Assets : asset[a] # "none" => asset'[a] # "none"
    BY <2>1, <1>a DEF StoreAssets
  <2>8. handler'.flushed = {} => \A l \in handler'.links : asset'[l[2]] # "none"
    <3>1. CASE triggers
      BY <2>1, <2>2, <2>3, <3>1 DEF StoreAssets
    <3>2. CASE ~triggers
      BY <2>1, <2>3, <3>2
    <3> QED BY <3>1, <3>2
  <2>9. handler'.flushed # {} => \A l \in handler'.links : l[2] \in handler'.flushed
    BY <2>1, <2>3
  <2>10. LinksAreSound'
    BY <2>2, <2>7, <1>a DEF LinksAreSound, CandidateRow
  <2> QED BY <2>4, <2>6, <2>8, <2>9, <2>10 DEF LinkPlan
<1>10. ASSUME NEW l \in handler.links, LinkCandidate(l) PROVE Goal
  <2>1. l[1] \in Candidates /\ l[2] \in Assets /\ \A m \in handler.links : m[2] \in Assets
    BY <1>a DEF Handler
  <2>2. /\ l[2] \in handler.flushed \/ Stored(l[2][1])
        /\ candidate' = [candidate EXCEPT ![l[1]].asset = l[2]]
        /\ StoreAssets(handler.flushed)
    BY <1>10 DEF LinkCandidate
  <2>3. handler'.flushed = {} /\ handler'.links = handler.links \ {l}
    BY <1>10, <1>a DEF LinkCandidate, NoHandler, Handler
  <2>4. \A a \in Assets : asset'[a] = IF a \in handler.flushed THEN "pending" ELSE asset[a]
    BY <2>2 DEF StoreAssets
  <2>5. \A c \in Candidates : candidate'[c].asset = IF c = l[1] THEN l[2] ELSE candidate[c].asset
    BY <2>1, <2>2, <1>a DEF CandidateRow
  <2>6. asset'[l[2]] # "none"
    BY <2>1, <2>2, <2>4 DEF LinkPlan
  <2>7. LinksAreSound'
    <3>1. ASSUME NEW c \in Candidates, candidate'[c].asset # NoAsset
          PROVE  /\ asset'[candidate'[c].asset] # "none"
                 /\ \A d \in Candidates : candidate'[d].asset = candidate'[c].asset => c = d
      <4>1. \A d \in Candidates : candidate[d].asset # l[2]
        BY DEF LinkPlan
      <4>2. CASE c = l[1]
        BY <2>5, <2>6, <4>1, <4>2
      <4>3. CASE c # l[1]
        <5>1. candidate'[c].asset = candidate[c].asset /\ candidate[c].asset \in Assets
          BY <2>5, <3>1, <4>3, <1>a DEF CandidateRow
        <5>2. asset[candidate[c].asset] # "none"
          BY <3>1, <5>1 DEF LinksAreSound
        <5>3. \A d \in Candidates : candidate[d].asset = candidate[c].asset => c = d
          BY <3>1, <5>1 DEF LinksAreSound
        <5> QED BY <2>4, <2>5, <4>1, <5>1, <5>2, <5>3
      <4> QED BY <4>2, <4>3
    <3> QED BY <3>1 DEF LinksAreSound
  <2>8. \A m \in handler'.links, c \in Candidates : candidate'[c].asset # m[2]
    BY <2>3, <2>5 DEF LinkPlan
  <2>9. \A m \in handler'.links : Stored(m[2][1])' => asset'[m[2]] # "none"
    <3>1. CASE handler.flushed # {}
      BY <2>1, <2>3, <2>4, <3>1 DEF LinkPlan
    <3>2. CASE handler.flushed = {}
      <4>1. asset' = asset
        BY <2>2, <3>2, <1>a DEF StoreAssets
      <4> QED BY <2>3, <3>2, <4>1 DEF LinkPlan, Stored
    <3> QED BY <3>1, <3>2
  <2>10. LinkPlan'
    BY <2>3, <2>8, <2>9 DEF LinkPlan
  <2> QED BY <2>7, <2>10
<1>11. ASSUME NEW r \in Runs, StartMatchRun(r) PROVE Goal
  <2>1. UNCHANGED <<candidate, asset>> /\ handler'.links = {}
    BY <1>11 DEF StartMatchRun, NoHandler
  <2> QED BY <2>1, LinksLeftAlone
<1>12. ASSUME LaunchJob \/ RecordStarted \/ LinkFails \/ MdmInterrupt PROVE Goal
  BY <1>2, <1>12 DEF LaunchJob, RecordStarted, LinkFails, MdmInterrupt
<1>13. ASSUME \/ \E status \in {"active", "paused"}, rules \in Rules : UpdateConfig(status, rules)
              \/ \E r \in Runs : JobBegins(r) \/ JobEnds(r)
              \/ UNCHANGED mdmVars
       PROVE  Goal
  BY <1>1, <1>13 DEF UpdateConfig, JobBegins, JobEnds, mdmVars
<1> QED BY <1>3, <1>4, <1>5, <1>6, <1>7, <1>8, <1>9, <1>10, <1>11, <1>12, <1>13 DEF MdmNext

-----------------------------------------------------------------------------

LEMMA MdmStepInv == ASSUME MInv, [MdmNext]_mdmVars PROVE MInv'
BY MdmStepTyped, EmptyRowsKept, LinksKept DEF MInv

\* Every reachable state satisfies the invariant.
THEOREM MdmInvariant == MdmSpec => []MInv
BY MdmInitInv, MdmStepInv, PTL DEF MdmSpec

\* Configurations, match runs, candidates and reviewed assets keep their types.
THEOREM MdmTypes == MdmSpec => []MdmTypeOK
<1>1. MInv => MdmTypeOK
  BY DEF MInv
<1> QED BY MdmInvariant, <1>1, PTL

\* A linked candidate has a reviewed asset of its own, however reviews are
\* created, cut short and deleted.
THEOREM LinksAreSoundAlways == MdmSpec => []LinksAreSound
<1>1. MInv => LinksAreSound
  BY DEF MInv
<1> QED BY MdmInvariant, <1>1, PTL

\* Neither rules nor dry runs replace what a reviewer entered.
THEOREM ReviewerDataAlwaysKept == MdmSpec => ReviewerDataKept
<1> DEFINE Kept == \A c \in Candidates : candidate[c].merged = ByReviewer
                    => candidate'[c].merged = ByReviewer \/ config'.status = "deleted"
<1>1. ASSUME MInv, [MdmNext]_mdmVars PROVE [Kept]_mdmVars
  <2> USE MdmAssumption
  <2>a. candidate \in [Candidates -> CandidateRow] /\ EmptyRows
    BY <1>1 DEF MInv, MdmTypeOK
  <2>b. ByReviewer # NoData /\ ByReviewer \notin Rules
    OBVIOUS
  <2>1. CASE UNCHANGED candidate
    BY <2>1
  <2>2. CASE DeleteConfig
    <3>1. config' = [config EXCEPT !.status = "deleted"] /\ "status" \in DOMAIN config
      BY <1>1, <2>2 DEF DeleteConfig, MInv, MdmTypeOK
    <3>2. config'.status = "deleted"
      BY <3>1, <1>1 DEF MInv, MdmTypeOK
    <3> QED BY <3>2
  <2>3. ASSUME NEW r \in Runs, NEW cs \in SUBSET Candidates, JobSaves(r, cs) PROVE Kept
    BY <2>3, <2>a, <2>b DEF JobSaves, EmptyRows
  <2>4. ASSUME NEW l \in handler.links, LinkCandidate(l) PROVE Kept
    BY <2>4, <2>a DEF LinkCandidate, CandidateRow
  <2>5. ASSUME NEW c \in Candidates, NEW status \in CandidateStatus \ {"none"},
               NEW data \in {ByReviewer, NoData}, UpdateCandidate(c, status, data)
        PROVE  Kept
    BY <2>5, <2>a DEF UpdateCandidate, CandidateRow
  <2>6. ASSUME NEW r \in Runs, NEW dryRun \in BOOLEAN, MergeApproved(r, dryRun) PROVE Kept
    <3>1. ASSUME NEW c \in Candidates, candidate[c].merged = ByReviewer
          PROVE  candidate'[c].merged = ByReviewer
      BY <2>6, <3>1, <2>a, <2>b DEF MergeApproved, NeedsRules, CandidateRow
    <3> QED BY <3>1
  <2> QED BY <1>1, <2>1, <2>2, <2>3, <2>4, <2>5, <2>6 DEF MdmNext, mdmVars, UpdateConfig,
       StartMatchRun, JobBegins, JobEnds, SyncReviews, LaunchJob, RecordStarted, CreateReview,
       LinkFails, DeleteReview, MdmInterrupt
<1> QED BY MdmInvariant, <1>1, PTL DEF MdmSpec, ReviewerDataKept
=============================================================================
