--------------------------------- MODULE Mdm ---------------------------------
(***************************************************************************)
(* Master data management: MdmManager (controller/mdm_manager.py) and its  *)
(* repository, the job that finds the matches                              *)
(* (workflows/mdm_match_detect/mdm_match_detect.py), and of the asset      *)
(* reviews (controller/data_asset_reviews_manager.py) what MDM uses, for   *)
(* one configuration.                                                      *)
(*                                                                         *)
(* The routes of MDM run on the event loop, one at a time, but commit      *)
(* several times; the job writes to the database on its own, and reviews   *)
(* are deleted by a route that runs on a thread.                           *)
(***************************************************************************)
EXTENDS Naturals

CONSTANTS
    Runs,               \* ids of mdm_match_runs rows
    Candidates,         \* ids of mdm_match_candidates rows
    Reviews,            \* ids of data_asset_review_requests rows
    Rules,              \* survivorship rules
    FirstRules,
    ByReviewer,         \* merged data that a reviewer entered
    NoData, NoRun, NoAsset,
    MaxMdmInterrupts    \* bound: handlers that raise or die half-way

\* The asset of a review that stands for a candidate (mdm://config/run/candidate).
Assets == Reviews \X Candidates

ASSUME MdmAssumption ==
    /\ FirstRules \in Rules /\ ByReviewer \notin Rules
    /\ NoData \notin Rules \cup {ByReviewer}
    /\ NoRun \notin Runs /\ NoAsset \notin Assets
    /\ MaxMdmInterrupts \in Nat

VARIABLES
    config,       \* the configuration: its status and survivorship rules
    matchRun,     \* mdm_match_runs: the status of each row
    job,          \* the Databricks run of each match run
    candidate,    \* mdm_match_candidates rows
    asset,        \* reviewed assets: pending, or decided either way
    handler,      \* locals of start_match_run and create_review_for_matches
    mdmInterrupts

mdmVars == <<config, matchRun, job, candidate, asset, handler, mdmInterrupts>>

MatchRunStatus == {"none", "pending", "running", "completed", "failed"}
CandidateStatus == {"none", "pending", "approved", "rejected", "merged"}
CandidateRow == [status : CandidateStatus, run : Runs \cup {NoRun},
                 merged : Rules \cup {ByReviewer, NoData}, asset : Assets \cup {NoAsset}]
Handler == [pc : {"idle", "start", "started", "link"}, run : Runs \cup {NoRun},
            flushed : SUBSET Assets,             \* assets not committed yet
            links : SUBSET (Candidates \X Assets)]

MdmTypeOK ==
    /\ config \in [status : {"active", "paused", "deleted"}, rules : Rules]
    /\ matchRun \in [Runs -> MatchRunStatus]
    /\ job \in [Runs -> {"none", "queued", "matching", "ended"}]
    /\ candidate \in [Candidates -> CandidateRow]
    /\ asset \in [Assets -> {"none", "pending", "decided"}]
    /\ handler \in Handler
    /\ mdmInterrupts \in 0 .. MaxMdmInterrupts

NoCandidate == [status |-> "none", run |-> NoRun, merged |-> NoData, asset |-> NoAsset]
NoHandler == [pc |-> "idle", run |-> NoRun, flushed |-> {}, links |-> {}]

MdmInit ==
    /\ config = [status |-> "active", rules |-> FirstRules]
    /\ matchRun = [r \in Runs |-> "none"]
    /\ job = [r \in Runs |-> "none"]
    /\ candidate = [c \in Candidates |-> NoCandidate]
    /\ asset = [a \in Assets |-> "none"]
    /\ handler = NoHandler
    /\ mdmInterrupts = 0

-----------------------------------------------------------------------------
(* Configuration *)

\* update_config
UpdateConfig(status, rules) ==
    /\ handler.pc = "idle" /\ config.status # "deleted"
    /\ config' = [status |-> status, rules |-> rules]
    /\ UNCHANGED <<matchRun, job, candidate, asset, handler, mdmInterrupts>>

\* delete_config: runs and candidates go with it (cascade="all, delete-orphan").
DeleteConfig ==
    /\ handler.pc = "idle" /\ config.status # "deleted"
    /\ config' = [config EXCEPT !.status = "deleted"]
    /\ matchRun' = [r \in Runs |-> "none"]
    /\ candidate' = [c \in Candidates |-> NoCandidate]
    /\ UNCHANGED <<job, asset, handler, mdmInterrupts>>

-----------------------------------------------------------------------------
(* Match runs *)

\* start_match_run commits the row, ...
StartMatchRun(r) ==
    /\ handler.pc = "idle"
    /\ config.status = "active" /\ matchRun[r] = "none"
    /\ matchRun' = [matchRun EXCEPT ![r] = "pending"]
    /\ handler' = [NoHandler EXCEPT !.pc = "start", !.run = r]
    /\ UNCHANGED <<config, job, candidate, asset, mdmInterrupts>>

\* ... starts the job, or fails to, ...
LaunchJob ==
    LET r == handler.run IN
    /\ handler.pc = "start"
    /\ \/ /\ job' = [job EXCEPT ![r] = "queued"]
          /\ handler' = [handler EXCEPT !.pc = "started"]
          /\ UNCHANGED matchRun
       \/ /\ matchRun' = [matchRun EXCEPT ![r] = "failed"]
          /\ handler' = NoHandler
          /\ UNCHANGED job
    /\ UNCHANGED <<config, candidate, asset, mdmInterrupts>>

\* ... and writes 'running', whatever the job has written by then.
RecordStarted ==
    /\ handler.pc = "started"
    /\ matchRun' = [matchRun EXCEPT ![handler.run] = "running"]
    /\ handler' = NoHandler
    /\ UNCHANGED <<config, job, candidate, asset, mdmInterrupts>>

\* An UPDATE of a row that is gone changes nothing.
WriteRun(r, status) ==
    matchRun' = IF matchRun[r] = "none" THEN matchRun
                ELSE [matchRun EXCEPT ![r] = status]

\* update_run_status(..., "running")
JobBegins(r) ==
    /\ job[r] = "queued"
    /\ job' = [job EXCEPT ![r] = "matching"]
    /\ WriteRun(r, "running")
    /\ UNCHANGED <<config, candidate, asset, handler, mdmInterrupts>>

\* save_match_candidates and save_new_record_candidates: each commits, for one
\* source after the other, so reviews and merges see part of the candidates.
JobSaves(r, cs) ==
    /\ job[r] = "matching" /\ matchRun[r] # "none" /\ cs # {}
    /\ \A c \in cs : candidate[c].status = "none"
    /\ candidate' = [c \in Candidates |->
          IF c \in cs THEN [NoCandidate EXCEPT !.status = "pending", !.run = r]
          ELSE candidate[c]]
    /\ UNCHANGED <<config, matchRun, job, asset, handler, mdmInterrupts>>

JobEnds(r) ==
    /\ job[r] = "matching"
    /\ job' = [job EXCEPT ![r] = "ended"]
    /\ \E status \in {"completed", "failed"} : WriteRun(r, status)
    /\ UNCHANGED <<config, candidate, asset, handler, mdmInterrupts>>

-----------------------------------------------------------------------------
(* Reviews *)

PendingOf(r) == {c \in Candidates : candidate[c].run = r /\ candidate[c].status = "pending"}
Stored(v) == \E c \in Candidates : asset[<<v, c>>] # "none"
StoreAssets(as) == asset' = [a \in Assets |-> IF a \in as THEN "pending" ELSE asset[a]]

\* create_review_for_matches creates the review with one asset per pending
\* candidate, and pairs the two lists by position.  The assets were read back
\* without an order, so any pairing may come out.  What is flushed is committed
\* by a workflow that the review triggers, if any, else with the first link.
CreateReview(v, r) ==
    LET cs == PendingOf(r)
        as == {<<v, c>> : c \in cs} IN
    /\ handler.pc = "idle" /\ cs # {}
    /\ ~Stored(v)
    /\ \E pairing \in [cs -> as], triggers \in BOOLEAN :
         /\ \A c, d \in cs : pairing[c] = pairing[d] => c = d
         /\ handler' = [pc |-> "link", run |-> r,
                        flushed |-> IF triggers THEN {} ELSE as,
                        links |-> {<<c, pairing[c]>> : c \in cs}]
         /\ IF triggers THEN StoreAssets(as) ELSE UNCHANGED asset
    /\ UNCHANGED <<config, matchRun, job, candidate, mdmInterrupts>>

\* link_to_review, one commit per candidate
LinkCandidate(l) ==
    /\ handler.pc = "link" /\ l \in handler.links
    /\ l[2] \in handler.flushed \/ Stored(l[2][1])      \* foreign key
    /\ candidate' = [candidate EXCEPT ![l[1]].asset = l[2]]
    /\ StoreAssets(handler.flushed)
    /\ handler' = IF handler.links = {l} THEN NoHandler
                  ELSE [handler EXCEPT !.flushed = {}, !.links = @ \ {l}]
    /\ UNCHANGED <<config, matchRun, job, mdmInterrupts>>

\* The review was deleted since: the foreign key makes the link fail.
LinkFails ==
    /\ handler.pc = "link"
    /\ \E l \in handler.links : l[2] \notin handler.flushed /\ ~Stored(l[2][1])
    /\ handler' = NoHandler
    /\ UNCHANGED <<config, matchRun, job, candidate, asset, mdmInterrupts>>

AnyReview(v) == TRUE
\* review_request_id is a foreign key without cascade.
Unlinked(v) == \A c \in Candidates :
    candidate[c].asset # NoAsset => candidate[c].asset[1] # v

\* delete_review_request, when the session of the managers commits it: the
\* review goes with its assets.
DeleteReview(v) ==
    /\ Stored(v) /\ Unlinked(v)
    /\ asset' = [a \in Assets |-> IF a[1] = v THEN "none" ELSE asset[a]]
    /\ UNCHANGED <<config, matchRun, job, candidate, handler, mdmInterrupts>>

\* update_asset_status_by_id
Decided == {"approved", "rejected"}
SyncAsset(a, status) ==
    asset' = IF a # NoAsset /\ status \in Decided /\ asset[a] # "none"
             THEN [asset EXCEPT ![a] = "decided"] ELSE asset

\* sync_review_asset_statuses
SyncReviews(r) ==
    LET decided == {c \in Candidates : candidate[c].run = r /\ candidate[c].status \in Decided} IN
    /\ handler.pc = "idle"
    /\ asset' = [a \in Assets |->
          IF asset[a] # "none" /\ \E c \in decided : candidate[c].asset = a
          THEN "decided" ELSE asset[a]]
    /\ UNCHANGED <<config, matchRun, job, candidate, handler, mdmInterrupts>>

-----------------------------------------------------------------------------
(* Decisions and merges *)

\* update_match_candidate: any status after any other, with merged data or not
UpdateCandidate(c, status, data) ==
    /\ handler.pc = "idle"
    /\ candidate[c].status # "none"
    /\ candidate' = [candidate EXCEPT ![c].status = status,
                                      ![c].merged = IF data = NoData THEN @ ELSE data]
    /\ SyncAsset(candidate[c].asset, status)
    /\ UNCHANGED <<config, matchRun, job, handler, mdmInterrupts>>

RulesAlways(c) == TRUE
\* Merged data that is there already counts as provided by the user.
NeedsRules(c) == candidate[c].merged = NoData

\* process_approved_matches: a dry run, too, leaves the merged data on the
\* candidates, and the request's session commits them.
MergeApproved(r, dryRun) ==
    /\ handler.pc = "idle" /\ matchRun[r] # "none"
    /\ candidate' = [c \in Candidates |->
          IF candidate[c].run = r /\ candidate[c].status = "approved"
          THEN [candidate[c] EXCEPT !.merged = IF NeedsRules(c) THEN config.rules ELSE @,
                                    !.status = IF dryRun THEN @ ELSE "merged"]
          ELSE candidate[c]]
    /\ UNCHANGED <<config, matchRun, job, asset, handler, mdmInterrupts>>

\* The handler raises, or the process dies; Databricks goes on.
MdmInterrupt ==
    /\ handler.pc # "idle"
    /\ mdmInterrupts < MaxMdmInterrupts  \* bound
    /\ mdmInterrupts' = mdmInterrupts + 1
    /\ handler' = NoHandler
    /\ UNCHANGED <<config, matchRun, job, candidate, asset>>

MdmNext ==
    \/ \E status \in {"active", "paused"}, rules \in Rules : UpdateConfig(status, rules)
    \/ DeleteConfig
    \/ \E r \in Runs : StartMatchRun(r) \/ JobBegins(r) \/ JobEnds(r) \/ SyncReviews(r)
    \/ LaunchJob \/ RecordStarted
    \/ \E r \in Runs, cs \in SUBSET Candidates : JobSaves(r, cs)
    \/ \E v \in Reviews, r \in Runs : CreateReview(v, r)
    \/ \E l \in handler.links : LinkCandidate(l)
    \/ LinkFails
    \/ \E v \in Reviews : DeleteReview(v)
    \/ \E c \in Candidates, status \in CandidateStatus \ {"none"},
          data \in {ByReviewer, NoData} : UpdateCandidate(c, status, data)
    \/ \E r \in Runs, dryRun \in BOOLEAN : MergeApproved(r, dryRun)
    \/ MdmInterrupt

MdmSpec == MdmInit /\ [][MdmNext]_mdmVars

-----------------------------------------------------------------------------
(* Properties *)

\* The asset a candidate is linked to exists, and no other candidate is linked
\* to it, through repeated reviews, deleted reviews and handlers cut short
\* between two links.  reviewed_asset_id is no foreign key: that the asset is
\* there rests on the review being undeletable while it is linked.
LinksAreSound ==
    \A c \in Candidates : candidate[c].asset # NoAsset =>
        /\ asset[candidate[c].asset] # "none"
        /\ \A d \in Candidates : candidate[d].asset = candidate[c].asset => c = d

\* What a reviewer entered as the merged record is never replaced by what the
\* survivorship rules would make, whichever merges, dry runs, changes of the
\* rules and second thoughts follow.
ReviewerDataKept ==
    [][\A c \in Candidates : candidate[c].merged = ByReviewer
          => candidate'[c].merged = ByReviewer \/ config'.status = "deleted"]_mdmVars
=============================================================================
