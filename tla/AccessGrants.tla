---------------------------- MODULE AccessGrants ----------------------------
(***************************************************************************)
(* Time-limited access to assets: AccessGrantsManager                      *)
(* (controller/access_grants_manager.py) and its repositories              *)
(* (repositories/access_grants_repository.py).                             *)
(*                                                                         *)
(* Every route of the component is an `async def' without an await between *)
(* its reads and its commit, so a handler is one action.  Notifications    *)
(* and the workflows a handler fires belong to other components.           *)
(***************************************************************************)
EXTENDS Naturals

CONSTANTS
    Users, Assets,
    Requests,      \* ids of access_grant_requests rows; uuid4, never reused
    Grants,        \* ids of access_grants rows
    Days,          \* durations somebody may ask for or be granted
    Configs,       \* sets of durations an administrator may allow
    NoPair, NoRequest,
    Horizon        \* bound: the last day that is modelled

Pairs == Users \X Assets

ASSUME GrantAssumption ==
    /\ NoPair \notin Pairs
    /\ NoRequest \notin Requests
    /\ Days \subseteq Nat \ {0}
    /\ Configs \subseteq SUBSET Days
    /\ Horizon \in Nat

VARIABLES
    request,  \* access_grant_requests rows
    grant,    \* access_grants rows
    config,   \* the durations allowed for the assets' type; all without a row
    now       \* the date

vars == <<request, grant, config, now>>

RequestStatus == {"none", "pending", "approved", "denied", "cancelled"}
GrantStatus == {"none", "active", "expired", "revoked"}

RequestRow == [status : RequestStatus, pair : Pairs \cup {NoPair}, days : Days \cup {0}]
GrantRow == [status : GrantStatus, request : Requests \cup {NoRequest},
             pair : Pairs \cup {NoPair}, expires : 0 .. Horizon]

TypeOK ==
    /\ request \in [Requests -> RequestRow]
    /\ grant \in [Grants -> GrantRow]
    /\ config \in SUBSET Days
    /\ now \in 0 .. Horizon

Init ==
    /\ request = [r \in Requests |-> [status |-> "none", pair |-> NoPair, days |-> 0]]
    /\ grant = [g \in Grants |-> [status |-> "none", request |-> NoRequest,
                                  pair |-> NoPair, expires |-> 0]]
    /\ config = Days
    /\ now = 0

-----------------------------------------------------------------------------
(* Queries *)

NeverPending(p) == FALSE
\* check_existing_pending
HasPending(p) == \E r \in Requests : request[r].status = "pending" /\ request[r].pair = p

LiveWhateverTheDate(g) == grant[g].status = "active"
\* Active and not yet expired; nothing marks a grant expired in time for it.
Live(g) == grant[g].status = "active" /\ grant[g].expires > now

\* check_active_grant
HasGrant(p) == \E g \in Grants : Live(g) /\ grant[g].pair = p

\* is_duration_allowed
DurationAllowed(d) == d \in config

-----------------------------------------------------------------------------
(* Handlers *)

CreateAnyway(r, p, d) ==
    /\ request[r].status = "none"
    /\ ~HasPending(p)
    /\ DurationAllowed(d)
    /\ request' = [request EXCEPT ![r] = [status |-> "pending", pair |-> p, days |-> d]]
    /\ UNCHANGED <<grant, config, now>>

\* create_request
CreateRequest(r, p, d) ==
    /\ request[r].status = "none"
    /\ ~HasPending(p)
    /\ ~HasGrant(p)
    /\ DurationAllowed(d)
    /\ request' = [request EXCEPT ![r] = [status |-> "pending", pair |-> p, days |-> d]]
    /\ UNCHANGED <<grant, config, now>>

ExpiresAfterTheHorizon(d) == Horizon + d
ExpiresAt(d) == now + d

AnyStatus(r) == request[r].status # "none"
Decidable(r) == request[r].status = "pending"

\* handle_request, approved: the duration granted is the approver's, which no
\* configuration restricts.  The grant and the request are one commit.
Approve(r, g, d) ==
    /\ Decidable(r)
    /\ grant[g].status = "none"
    /\ now + d <= Horizon  \* bound
    /\ grant' = [grant EXCEPT ![g] = [status |-> "active", request |-> r,
                                      pair |-> request[r].pair, expires |-> ExpiresAt(d)]]
    /\ request' = [request EXCEPT ![r].status = "approved"]
    /\ UNCHANGED <<config, now>>

\* handle_request, not approved
Deny(r) ==
    /\ Decidable(r)
    /\ request' = [request EXCEPT ![r].status = "denied"]
    /\ UNCHANGED <<grant, config, now>>

\* cancel_request: by the requester only
CancelRequest(r, u) ==
    /\ request[r].status = "pending"
    /\ request[r].pair[1] = u
    /\ request' = [request EXCEPT ![r].status = "cancelled"]
    /\ UNCHANGED <<grant, config, now>>

\* revoke_grant does not look at the status of the grant.
RevokeGrant(g) ==
    /\ grant[g].status # "none"
    /\ grant' = [grant EXCEPT ![g].status = "revoked"]
    /\ UNCHANGED <<request, config, now>>

ExpiredWhateverTheStatus(g) == grant[g].status # "none" /\ grant[g].expires <= now
\* get_expired
Expired(g) == grant[g].status = "active" /\ grant[g].expires <= now

\* check_and_process_expirations, for the background job its comment asks for
\* (nothing in the repository calls it).
ProcessExpirations ==
    /\ grant' = [g \in Grants |->
          IF Expired(g) THEN [grant[g] EXCEPT !.status = "expired"] ELSE grant[g]]
    /\ UNCHANGED <<request, config, now>>

\* upsert_duration_config: a list of durations or a range of them
UpsertConfig(ds) ==
    /\ config' = ds
    /\ UNCHANGED <<request, grant, now>>

\* A day passes.
Tick ==
    /\ now < Horizon  \* bound
    /\ now' = now + 1
    /\ UNCHANGED <<request, grant, config>>

Next ==
    \/ \E r \in Requests, p \in Pairs, d \in Days : CreateRequest(r, p, d)
    \/ \E r \in Requests, g \in Grants, d \in Days : Approve(r, g, d)
    \/ \E r \in Requests : Deny(r)
    \/ \E r \in Requests, u \in Users : CancelRequest(r, u)
    \/ \E g \in Grants : RevokeGrant(g)
    \/ ProcessExpirations
    \/ \E ds \in Configs : UpsertConfig(ds)
    \/ Tick

\* Time passes; nobody is obliged to ask, to decide or to revoke.
Spec == Init /\ [][Next]_vars /\ WF_vars(Tick)

-----------------------------------------------------------------------------
(* Properties *)

OnePending ==
    \A r, s \in Requests : request[r].status = "pending" /\ request[s].status = "pending"
                           /\ request[r].pair = request[s].pair => r = s
OneLive ==
    \A g, h \in Grants : Live(g) /\ Live(h) /\ grant[g].pair = grant[h].pair => g = h
PendingExcludesLive ==
    \A r \in Requests, g \in Grants :
        ~(request[r].status = "pending" /\ Live(g) /\ request[r].pair = grant[g].pair)

\* A user has at most one claim on an asset: one pending request or one live
\* grant.  Only create_request checks for either; handle_request grants without
\* looking for a live grant, and relies on it.
OneClaim == OnePending /\ OneLive /\ PendingExcludesLive

\* Every grant was given for one approved request, to its requester and for its
\* asset, and every approved request led to one grant (one commit writes both).
GrantPerApproval ==
    /\ \A g \in Grants : grant[g].status # "none" =>
          /\ grant[g].request \in Requests
          /\ request[grant[g].request].status = "approved"
          /\ request[grant[g].request].pair = grant[g].pair
    /\ \A r \in Requests : request[r].status = "approved" =>
          \E g \in Grants : grant[g].status # "none" /\ grant[g].request = r
    /\ \A g, h \in Grants : grant[g].status # "none" /\ grant[h].status # "none"
                           /\ grant[g].request = grant[h].request => g = h

\* What was decided stays decided: a request that was approved, denied or
\* cancelled, the terms of a grant, and a revocation.
DecidedIsFinal ==
    [][/\ \A r \in Requests : request[r].status \notin {"none", "pending"}
                                => request'[r] = request[r]
       /\ \A g \in Grants : grant[g].status # "none"
                                => /\ grant'[g] = [grant[g] EXCEPT !.status = grant'[g].status]
                                   /\ grant[g].status = "revoked" => grant'[g].status = "revoked"
      ]_vars

\* Access is limited in time, even if no job ever marks a grant as expired.
AccessEnds == \A p \in Pairs : HasGrant(p) ~> ~HasGrant(p)

\* The component implements AccessRights: the right of a user to an asset is
\* what its requests and grants say.
Rights == INSTANCE AccessRights WITH
    right <- [p \in Pairs |-> IF HasPending(p) THEN "asked"
                              ELSE IF HasGrant(p) THEN "held" ELSE "none"]
\* A right is asked for before it is held, decided once, and not asked for while
\* it is held: what create_request, handle_request and revoke_grant do together.
ImplementsRights == Rights!Spec

-----------------------------------------------------------------------------
(* What a comment says of the program, and the code does not do *)

\* "Revoke an active grant": a grant that is revoked was in force.
RevokesLiveOnly ==
    [][\A g \in Grants : grant'[g].status = "revoked" /\ grant[g].status # "revoked"
                           => Live(g)]_vars
=============================================================================
