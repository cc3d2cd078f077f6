------------------------- MODULE AccessGrantsProofs -------------------------
(***************************************************************************)
(* Proofs about AccessGrants, for any users, assets, durations and number  *)
(* of requests and grants: one claim per user and asset, one grant per     *)
(* approval, and the implementation of AccessRights.                       *)
(***************************************************************************)
EXTENDS AccessGrants, TLAPS

\* A request that was made names a user and an asset.
Addressed == \A r \in Requests : request[r].status # "none" => request[r].pair \in Pairs

GInv == TypeOK /\ Addressed /\ OneClaim /\ GrantPerApproval

-----------------------------------------------------------------------------
(* Types *)

LEMMA GrantsInitTyped == Init => TypeOK /\ Addressed
BY GrantAssumption DEF Init, TypeOK, Addressed, RequestRow, GrantRow, RequestStatus, GrantStatus

LEMMA GrantsStepTyped ==
    ASSUME TypeOK, Addressed, [Next]_vars
    PROVE  TypeOK' /\ Addressed'
<1> USE GrantAssumption DEF TypeOK, Addressed
<1>1. ASSUME NEW r \in Requests, NEW p \in Pairs, NEW d \in Days, CreateRequest(r, p, d)
      PROVE  TypeOK' /\ Addressed'
  BY <1>1 DEF CreateRequest, RequestRow, RequestStatus
<1>2. ASSUME NEW r \in Requests, NEW g \in Grants, NEW d \in Days, Approve(r, g, d)
      PROVE  TypeOK' /\ Addressed'
  <2>1. request' \in [Requests -> RequestRow] /\ Addressed'
    BY <1>2 DEF Approve, Decidable, RequestRow, RequestStatus
  <2>2. now + d \in 0 .. Horizon
    BY <1>2 DEF Approve
  <2>3. grant' \in [Grants -> GrantRow]
    BY <1>2, <2>2 DEF Approve, ExpiresAt, RequestRow, GrantRow, GrantStatus
  <2> QED BY <1>2, <2>1, <2>3 DEF Approve
<1>3. ASSUME NEW r \in Requests, NEW u \in Users, CancelRequest(r, u)
      PROVE  TypeOK' /\ Addressed'
  BY <1>3 DEF CancelRequest, RequestRow, RequestStatus
<1>4. ASSUME NEW g \in Grants, RevokeGrant(g)
      PROVE  TypeOK' /\ Addressed'
  BY <1>4 DEF RevokeGrant, GrantRow, GrantStatus
<1>5. ASSUME ProcessExpirations
      PROVE  TypeOK' /\ Addressed'
  BY <1>5 DEF ProcessExpirations, GrantRow, GrantStatus
<1>6. ASSUME NEW ds \in Configs, UpsertConfig(ds)
      PROVE  TypeOK' /\ Addressed'
  BY <1>6 DEF UpsertConfig
<1>7. ASSUME Tick
      PROVE  TypeOK' /\ Addressed'
  BY <1>7 DEF Tick
<1>8. ASSUME UNCHANGED vars
      PROVE  TypeOK' /\ Addressed'
  BY <1>8 DEF vars
<1>9. ASSUME NEW r \in Requests, Deny(r)
      PROVE  TypeOK' /\ Addressed'
  BY <1>9 DEF Deny, Decidable, RequestRow, RequestStatus
<1> QED BY <1>1, <1>2, <1>3, <1>4, <1>5, <1>6, <1>7, <1>8, <1>9 DEF Next

-----------------------------------------------------------------------------
(* One claim per user and asset *)

\* The step of each handler, as far as claims are concerned.  A request becomes
\* pending only for a pair without a claim, and a grant becomes live only in
\* the place of the pending request it answers; nothing else adds a claim.
LEMMA OneClaimKept ==
    ASSUME TypeOK, OneClaim, [Next]_vars
    PROVE  OneClaim'
<1> USE GrantAssumption DEF TypeOK, OneClaim, OnePending, OneLive, PendingExcludesLive
<1>1. ASSUME NEW r \in Requests, NEW p \in Pairs, NEW d \in Days, CreateRequest(r, p, d)
      PROVE  OneClaim'
  BY <1>1 DEF CreateRequest, HasPending, HasGrant, Live
<1>2. ASSUME NEW r \in Requests, NEW g \in Grants, NEW d \in Days, Approve(r, g, d)
      PROVE  OneClaim'
  <2>1. \A s \in Requests : request'[s].status = "pending" =>
           s # r /\ request'[s] = request[s]
    BY <1>2 DEF Approve, RequestRow
  <2>2. \A h \in Grants : h # g => grant'[h] = grant[h]
    BY <1>2 DEF Approve
  <2>3. grant'[g].pair = request[r].pair /\ request[r].status = "pending"
    BY <1>2 DEF Approve, Decidable
  <2>4. \A h \in Grants : h # g /\ Live(h)' => Live(h)
    BY <1>2, <2>2 DEF Approve, Live
  <2>5. OnePending'
    BY <2>1
  <2>6. OneLive'
    BY <2>2, <2>3, <2>4
  <2>7. PendingExcludesLive'
    BY <2>1, <2>2, <2>3, <2>4
  <2> QED BY <2>5, <2>6, <2>7
<1>3. ASSUME NEW r \in Requests, Deny(r)
      PROVE  OneClaim'
  BY <1>3 DEF Deny, RequestRow, Live
<1>4. ASSUME NEW r \in Requests, NEW u \in Users, CancelRequest(r, u)
      PROVE  OneClaim'
  BY <1>4 DEF CancelRequest, RequestRow, Live
<1>5. ASSUME NEW g \in Grants, RevokeGrant(g)
      PROVE  OneClaim'
  BY <1>5 DEF RevokeGrant, GrantRow, Live
<1>6. ASSUME ProcessExpirations
      PROVE  OneClaim'
  BY <1>6 DEF ProcessExpirations, Expired, GrantRow, Live
<1>7. ASSUME Tick
      PROVE  OneClaim'
  <2>1. \A g \in Grants : Live(g)' => Live(g)
    BY <1>7 DEF Tick, Live, GrantRow
  <2> QED BY <1>7, <2>1 DEF Tick
<1>8. ASSUME NEW ds \in Configs, UpsertConfig(ds)
      PROVE  OneClaim'
  BY <1>8 DEF UpsertConfig, Live
<1>9. ASSUME UNCHANGED vars
      PROVE  OneClaim'
  BY <1>9 DEF vars, Live
<1> QED BY <1>1, <1>2, <1>3, <1>4, <1>5, <1>6, <1>7, <1>8, <1>9 DEF Next

-----------------------------------------------------------------------------
(* One grant per approval *)

LEMMA GrantPerApprovalKept ==
    ASSUME TypeOK, GrantPerApproval, [Next]_vars
    PROVE  GrantPerApproval'
<1> USE GrantAssumption DEF TypeOK, GrantPerApproval
<1>1. ASSUME NEW r \in Requests, NEW p \in Pairs, NEW d \in Days, CreateRequest(r, p, d)
      PROVE  GrantPerApproval'
  BY <1>1 DEF CreateRequest, RequestRow
<1>2. ASSUME NEW r \in Requests, NEW g \in Grants, NEW d \in Days, Approve(r, g, d)
      PROVE  GrantPerApproval'
  <2>1. /\ grant'[g].status = "active"
        /\ grant'[g].request = r
        /\ grant'[g].pair = request[r].pair
        /\ request'[r].status = "approved"
        /\ request'[r].pair = request[r].pair
    BY <1>2 DEF Approve, RequestRow
  <2>2. \A h \in Grants : h # g => grant'[h] = grant[h]
    BY <1>2 DEF Approve
  <2>3. \A s \in Requests : s # r => request'[s] = request[s]
    BY <1>2 DEF Approve
  <2>4. request[r].status = "pending" /\ grant[g].status = "none"
    BY <1>2 DEF Approve, Decidable
  <2>5. \A h \in Grants : grant[h].status # "none" => grant[h].request # r
    BY <2>4
  <2> QED BY <2>1, <2>2, <2>3, <2>4, <2>5
<1>3. ASSUME NEW r \in Requests, Deny(r)
      PROVE  GrantPerApproval'
  BY <1>3 DEF Deny, Decidable, RequestRow
<1>4. ASSUME NEW r \in Requests, NEW u \in Users, CancelRequest(r, u)
      PROVE  GrantPerApproval'
  BY <1>4 DEF CancelRequest, RequestRow
<1>5. ASSUME NEW g \in Grants, RevokeGrant(g)
      PROVE  GrantPerApproval'
  BY <1>5 DEF RevokeGrant, GrantRow
<1>6. ASSUME ProcessExpirations
      PROVE  GrantPerApproval'
  BY <1>6 DEF ProcessExpirations, Expired, GrantRow
<1>7. ASSUME UNCHANGED <<request, grant>>
      PROVE  GrantPerApproval'
  BY <1>7
<1> QED
  BY <1>1, <1>2, <1>3, <1>4, <1>5, <1>6, <1>7 DEF Next, Tick, UpsertConfig, vars

-----------------------------------------------------------------------------
(* The inductive invariant *)

LEMMA GInvInit == Init => GInv
BY GrantsInitTyped DEF Init, GInv, OneClaim, OnePending, OneLive, PendingExcludesLive, Live,
   GrantPerApproval

LEMMA GInvKept == GInv /\ [Next]_vars => GInv'
BY GrantsStepTyped, OneClaimKept, GrantPerApprovalKept DEF GInv

\* Every row of a request and a grant keeps its type, whatever is asked, decided,
\* revoked or configured, and an expiry lies between the start and the horizon.
THEOREM GrantsTypeCorrect == Spec => []TypeOK
<1>1. GInv => TypeOK
  BY DEF GInv
<1> QED BY <1>1, GInvInit, GInvKept, PTL DEF Spec

\* A user never has two claims on an asset: two pending requests, two live
\* grants or one of each, although handle_request does not look for a grant.
THEOREM OneClaimAlways == Spec => []OneClaim
<1>1. GInv => OneClaim
  BY DEF GInv
<1> QED BY <1>1, GInvInit, GInvKept, PTL DEF Spec

\* Grants and approved requests correspond one to one, for one user and asset.
THEOREM GrantPerApprovalAlways == Spec => []GrantPerApproval
<1>1. GInv => GrantPerApproval
  BY DEF GInv
<1> QED BY <1>1, GInvInit, GInvKept, PTL DEF Spec

-----------------------------------------------------------------------------
(* What was decided stays decided *)

\* Neither a decision on a request, nor the terms of a grant, nor a revocation
\* is ever taken back, whatever handlers run afterwards.
THEOREM DecisionsKept == Spec => DecidedIsFinal
<1> DEFINE RequestFinal(r) ==
             request[r].status \notin {"none", "pending"} => request'[r] = request[r]
           GrantFinal(g) ==
             grant[g].status # "none" =>
                /\ grant'[g] = [grant[g] EXCEPT !.status = grant'[g].status]
                /\ grant[g].status = "revoked" => grant'[g].status = "revoked"
<1>1. ASSUME TypeOK, Next
      PROVE  /\ \A r \in Requests : RequestFinal(r)
             /\ \A g \in Grants : GrantFinal(g)
  <2> USE DEF TypeOK
  <2>1. ASSUME NEW r \in Requests PROVE RequestFinal(r)
    BY <1>1 DEF Next, CreateRequest, Approve, Deny, CancelRequest, Decidable, RevokeGrant,
       ProcessExpirations, UpsertConfig, Tick
  <2>2. ASSUME NEW g \in Grants PROVE GrantFinal(g)
    <3>1. grant[g] \in GrantRow
      BY <1>1
    <3>2. \/ grant'[g] = grant[g]
          \/ grant[g].status = "none"
          \/ grant'[g] = [grant[g] EXCEPT !.status = "revoked"]
          \/ grant[g].status = "active" /\ grant'[g] = [grant[g] EXCEPT !.status = "expired"]
      BY <1>1 DEF Next, CreateRequest, Approve, Deny, CancelRequest, RevokeGrant,
         ProcessExpirations, Expired, UpsertConfig, Tick
    <3> QED BY <3>1, <3>2 DEF GrantRow
  <2> QED BY <2>1, <2>2
<1>2. GInv => TypeOK
  BY DEF GInv
<1>3. TypeOK /\ [Next]_vars =>
        [(\A r \in Requests : RequestFinal(r)) /\ (\A g \in Grants : GrantFinal(g))]_vars
  BY <1>1
<1> QED BY <1>2, <1>3, GInvInit, GInvKept, PTL DEF Spec, DecidedIsFinal

-----------------------------------------------------------------------------
(* The component implements AccessRights *)

Right == [p \in Pairs |-> IF HasPending(p) THEN "asked"
                          ELSE IF HasGrant(p) THEN "held" ELSE "none"]

LEMMA RightsInit == Init => Rights!Init
BY DEF Init, Rights!Init, Rights!Pairs, Pairs, HasPending, HasGrant, Live

\* Every handler is one step of the right of one user to one asset, or of none;
\* the passing of a day ends the rights that expire that day.
LEMMA RightsStep ==
    ASSUME GInv, Next
    PROVE  Rights!Next \/ Right' = Right
<1> USE GrantAssumption
<1> USE DEF GInv, TypeOK, OneClaim
<1>a. ASSUME NEW p \in Pairs, HasPending(p) PROVE ~HasGrant(p)
  BY <1>a DEF PendingExcludesLive, HasPending, HasGrant
<1>1. ASSUME NEW r \in Requests, NEW p \in Pairs, NEW d \in Days, CreateRequest(r, p, d)
      PROVE  Rights!Next
  <2>1. \A q \in Pairs : HasGrant(q)' <=> HasGrant(q)
    BY <1>1 DEF CreateRequest, HasGrant, Live
  <2>2. \A q \in Pairs : HasPending(q)' <=> HasPending(q) \/ q = p
    BY <1>1 DEF CreateRequest, HasPending, RequestRow
  <2>3. Right[p] = "none" /\ Right' = [Right EXCEPT ![p] = "asked"]
    BY <1>1, <2>1, <2>2 DEF CreateRequest, Right
  <2> QED BY <2>3 DEF Right, Rights!Next, Rights!Ask, Rights!Pairs, Pairs
<1>2. ASSUME NEW r \in Requests, NEW g \in Grants, NEW d \in Days, Approve(r, g, d)
      PROVE  Rights!Next
  <2> DEFINE p == request[r].pair
  <2>1. p \in Pairs /\ HasPending(p)
    BY <1>2 DEF Approve, Decidable, HasPending, Addressed
  <2>2. \A q \in Pairs : HasPending(q)' <=> HasPending(q) /\ q # p
    BY <1>2 DEF Approve, Decidable, HasPending, OnePending, RequestRow
  <2>3. Live(g)' /\ grant'[g].pair = p /\ ~Live(g)
    BY <1>2 DEF Approve, Live, ExpiresAt
  <2>4. \A h \in Grants : h # g => grant'[h] = grant[h] /\ (Live(h)' <=> Live(h))
    BY <1>2 DEF Approve, Live
  <2>5. \A q \in Pairs : HasGrant(q)' <=> HasGrant(q) \/ q = p
    BY <2>3, <2>4 DEF HasGrant
  <2>6. Right[p] = "asked" /\ Right' = [Right EXCEPT ![p] = "held"]
    BY <2>1, <2>2, <2>5 DEF Right
  <2> QED BY <2>1, <2>6 DEF Right, Rights!Next, Rights!Decide, Rights!Pairs, Pairs
<1>3. ASSUME NEW r \in Requests, request[r].status = "pending",
             NEW s \in {"denied", "cancelled"},
             request' = [request EXCEPT ![r].status = s], UNCHANGED <<grant, now>>
      PROVE  Rights!Next
  <2> DEFINE p == request[r].pair
  <2>1. p \in Pairs /\ HasPending(p) /\ ~HasGrant(p)
    BY <1>3, <1>a DEF HasPending, Addressed
  <2>2. \A q \in Pairs : HasPending(q)' <=> HasPending(q) /\ q # p
    BY <1>3 DEF HasPending, OnePending, RequestRow
  <2>3. \A q \in Pairs : HasGrant(q)' <=> HasGrant(q)
    BY <1>3 DEF HasGrant, Live
  <2>4. Right[p] = "asked" /\ Right' = [Right EXCEPT ![p] = "none"]
    BY <2>1, <2>2, <2>3 DEF Right
  <2> QED BY <2>1, <2>4 DEF Right, Rights!Next, Rights!Decide, Rights!Pairs, Pairs
<1>4. ASSUME UNCHANGED request,
             \A q \in Pairs : HasGrant(q)' => HasGrant(q)
      PROVE  Rights!Next
  <2> DEFINE ps == {q \in Pairs : HasGrant(q) /\ ~HasGrant(q)'}
  <2>1. \A q \in Pairs : HasPending(q)' <=> HasPending(q)
    BY <1>4 DEF HasPending
  <2>2. \A q \in ps : Right[q] = "held"
    BY <1>a DEF Right
  <2>3. Right' = [q \in Pairs |-> IF q \in ps THEN "none" ELSE Right[q]]
    BY <1>4, <2>1, <1>a DEF Right
  <2>4. ps \in SUBSET Pairs
    OBVIOUS
  <2> QED BY <2>2, <2>3, <2>4 DEF Right, Rights!Next, Rights!End, Rights!Pairs, Pairs
<1>5. ASSUME NEW g \in Grants, RevokeGrant(g)
      PROVE  \A q \in Pairs : HasGrant(q)' => HasGrant(q)
  BY <1>5 DEF RevokeGrant, HasGrant, Live, GrantRow
<1>6. ASSUME ProcessExpirations
      PROVE  \A q \in Pairs : HasGrant(q)' => HasGrant(q)
  BY <1>6 DEF ProcessExpirations, HasGrant, Live, Expired, GrantRow
<1>7. ASSUME Tick
      PROVE  \A q \in Pairs : HasGrant(q)' => HasGrant(q)
  <2>1. \A g \in Grants : Live(g)' => Live(g)
    BY <1>7 DEF Tick, Live, GrantRow
  <2> QED BY <1>7, <2>1 DEF Tick, HasGrant
<1>8. ASSUME NEW ds \in Configs, UpsertConfig(ds)
      PROVE  Right' = Right
  BY <1>8 DEF UpsertConfig, Right, HasPending, HasGrant, Live
<1> QED
  BY <1>1, <1>2, <1>3, <1>4, <1>5, <1>6, <1>7, <1>8
  DEF Next, Deny, CancelRequest, Decidable, RevokeGrant, ProcessExpirations, Tick

\* The requests and grants of the component behave as the rights that
\* AccessRights promises: asked for, decided once, ended.
THEOREM RightsImplemented == Spec => ImplementsRights
<1>1. GInv /\ [Next]_vars => [Rights!Next]_Right
  <2>1. UNCHANGED vars => Right' = Right
    BY DEF vars, Right, HasPending, HasGrant, Live
  <2> QED BY RightsStep, <2>1
<1> QED
  BY <1>1, GInvInit, GInvKept, RightsInit, PTL
  DEF Spec, ImplementsRights, Rights!Spec, Right
=============================================================================
