------------------------ MODULE AccessSystem_proofs ------------------------
(***************************************************************************)
(* Proofs about AccessSystem, for any requests, grants, agents, keys,      *)
(* durations, retry budget and clock bound.                                *)
(***************************************************************************)
EXTENDS AccessSystem, SequenceTheorems, TLAPS

-----------------------------------------------------------------------------
(***************************************************************************)
(* Type correctness.  TypeOK is not inductive: a renewal reads the round   *)
(* of the grant's holder, so a grant that exists must have one; and since  *)
(* a revocation writes the grant's status, a session or a revoke task must *)
(* belong to a grant that exists.                                          *)
(***************************************************************************)
Held(g) == Exists(g) /\ grant[g].request \in Requests

Linked ==
  \A g \in Grants :
    Exists(g) \/ session[g].status # "Absent" \/ ~NoRevokeTask(g) => Held(g)

TypeInv == TypeOK /\ Linked

\* The latest task of a nonempty list is one of its rows.
LEMMA LatestInRow ==
  ASSUME NEW S, NEW tasks \in Seq(S), tasks # <<>>
  PROVE  LatestOf(tasks) \in S
BY EmptySeq, ElementOfSeq DEF LatestOf

LEMMA TypeInvInit == Init => TypeInv
BY AccessStateAssumption DEF Init, TypeInv, TypeOK, Linked, Held, Exists, NoRevokeTask,
   AbsentRequest, AbsentApproval, AbsentGrant, AbsentSession, RequestRow, ApprovalRow,
   GrantRow, SessionRow, RequestStatus, ApprovalStatus, GrantStatus, SessionStatus,
   ConnectorStatus

LEMMA TypeInvTick == TypeInv /\ Tick => TypeInv'
BY AccessStateAssumption DEF Tick, TypeInv, TypeOK, Linked, Held, Exists, NoRevokeTask

\* A new request: CreateRequest, whatever the agent's status.
Appears(r) ==
  /\ request[r].status = "Absent"
  /\ request' = [request EXCEPT ![r].status = "Submitted"]
  /\ UNCHANGED <<approval, grant, session, provisionTasks, revokeTasks, reminders,
                 agentStatus, now>>

LEMMA TypeInvAppears ==
  ASSUME TypeInv, NEW r \in Requests, Appears(r)
  PROVE  TypeInv'
<1>1. request' \in [Requests -> RequestRow]
  <2>1. request \in [Requests -> RequestRow]
    BY DEF TypeInv, TypeOK
  <2>2. request[r] \in RequestRow
    BY <2>1
  <2>3. [request[r] EXCEPT !.status = "Submitted"] \in RequestRow
    BY <2>2 DEF RequestRow, RequestStatus
  <2>4. request' = [request EXCEPT ![r] = [request[r] EXCEPT !.status = "Submitted"]]
    BY <2>1 DEF Appears
  <2> QED
    BY <2>1, <2>3, <2>4
<1> QED
  BY <1>1 DEF Appears, TypeInv, TypeOK, Linked, Held, Exists, NoRevokeTask

LEMMA TypeInvEvaluate ==
  ASSUME TypeInv, NEW r \in Requests, NEW force \in BOOLEAN, NEW required \in BOOLEAN,
         NEW deliverable \in BOOLEAN, NEW duration \in Durations,
         EvaluateRequest(r, force, required, deliverable, duration)
  PROVE  TypeInv'
<1>1. request' \in [Requests -> RequestRow]
  <2>1. request \in [Requests -> RequestRow] /\ request[r] \in RequestRow
    BY DEF TypeInv, TypeOK
  <2>2. EvaluatedRequest(request[r], required, deliverable, duration) \in RequestRow
    BY <2>1, AccessStateAssumption
    DEF EvaluatedRequest, RequestRow, RequestStatus, ApprovalStatus
  <2> QED
    BY <2>1, <2>2 DEF EvaluateRequest
<1>2. approval' \in [Requests -> ApprovalRow]
  <2>1. approval \in [Requests -> ApprovalRow]
    BY DEF TypeInv, TypeOK
  <2>2. [status |-> "Pending", key |-> NoKey] \in ApprovalRow
    BY DEF ApprovalRow, ApprovalStatus
  <2> QED
    BY <2>1, <2>2 DEF EvaluateRequest, SubmitApproval
<1> QED
  BY <1>1, <1>2 DEF EvaluateRequest, TypeInv, TypeOK, Linked, Held, Exists, NoRevokeTask

LEMMA TypeInvFailEvaluation ==
  ASSUME TypeInv, NEW r \in Requests, NEW force \in BOOLEAN, FailEvaluation(r, force)
  PROVE  TypeInv'
<1>1. request' \in [Requests -> RequestRow]
  <2>1. request \in [Requests -> RequestRow] /\ request[r] \in RequestRow
    BY DEF TypeInv, TypeOK
  <2>2. [request[r] EXCEPT !.status = "Failed", !.approval = "NotRequired"] \in RequestRow
    BY <2>1 DEF RequestRow, RequestStatus, ApprovalStatus
  <2> QED
    BY <2>1, <2>2 DEF FailEvaluation
<1> QED
  BY <1>1 DEF FailEvaluation, TypeInv, TypeOK, Linked, Held, Exists, NoRevokeTask

\* What a provisioning attempt writes has the types of its rows.
LEMMA ProvisionRows ==
  ASSUME NEW outcome \in ProvisionOutcomes
  PROVE  /\ GrantStatusAfter(outcome) \in GrantStatus \ {"NotCreated"}
         /\ RequestStatusAfter(outcome) \in RequestStatus
         /\ ConnectorStatusAfter(outcome) \in ConnectorStatus
         /\ TaskStatusAfter(outcome) \in TaskStatus
BY DEF ProvisionOutcomes, GrantStatusAfter, RequestStatusAfter, ConnectorStatusAfter,
   TaskStatusAfter, GrantStatus, RequestStatus, ConnectorStatus, TaskStatus

LEMMA ProvisionRequestRow ==
  ASSUME NEW row \in RequestRow, NEW outcome \in ProvisionOutcomes
  PROVE  RequestAfterProvision(row, outcome) \in RequestRow
BY ProvisionRows DEF RequestAfterProvision, RequestRow

LEMMA ProvisionEffectRows ==
  ASSUME TypeOK, NEW r \in Requests, NEW g \in Grants, NEW expire \in Nat,
         NEW retry \in Nat, NEW outcome \in ProvisionOutcomes,
         ProvisionEffect(r, g, expire, retry, outcome)
  PROVE  /\ grant' \in [Grants -> GrantRow]
         /\ session' \in [Grants -> SessionRow]
         /\ provisionTasks' \in [Grants -> Seq(ProvisionTaskRow)]
         /\ grant'[g].status # "NotCreated" /\ grant'[g].request = r
         /\ \A h \in Grants \ {g} : grant'[h] = grant[h] /\ session'[h] = session[h]
<1> DEFINE row == [status |-> GrantStatusAfter(outcome),
                   connector |-> ConnectorStatusAfter(outcome),
                   request |-> r, expire |-> expire]
           task == [status |-> TaskStatusAfter(outcome), retry |-> retry]
<1>1. row \in GrantRow /\ row.status # "NotCreated" /\ row.request = r
  BY ProvisionRows DEF GrantRow
<1>2. task \in ProvisionTaskRow
  BY ProvisionRows DEF ProvisionTaskRow
<1>3. BoundSession(r) \in SessionRow
  BY DEF BoundSession, SessionRow, SessionStatus
<1>4. /\ grant \in [Grants -> GrantRow] /\ session \in [Grants -> SessionRow]
      /\ provisionTasks \in [Grants -> Seq(ProvisionTaskRow)]
  BY DEF TypeOK
<1>5. /\ grant' = [grant EXCEPT ![g] = row]
      /\ provisionTasks' = [provisionTasks EXCEPT ![g] = Append(@, task)]
      /\ session' = IF outcome = "Applied" THEN [session EXCEPT ![g] = BoundSession(r)] ELSE session
  BY DEF ProvisionEffect
<1> HIDE DEF row, task
<1>6. grant' \in [Grants -> GrantRow] /\ session' \in [Grants -> SessionRow]
  BY <1>1, <1>3, <1>4, <1>5
<1>7. provisionTasks' \in [Grants -> Seq(ProvisionTaskRow)]
  BY <1>2, <1>4, <1>5
<1> QED
  BY <1>1, <1>4, <1>5, <1>6, <1>7

LEMMA ProvisionEffectType ==
  ASSUME TypeInv, NEW r \in Requests, NEW g \in Grants, NEW expire \in Nat,
         NEW retry \in Nat, NEW outcome \in ProvisionOutcomes,
         ProvisionEffect(r, g, expire, retry, outcome), UNCHANGED revokeTasks
  PROVE  /\ grant' \in [Grants -> GrantRow]
         /\ session' \in [Grants -> SessionRow]
         /\ provisionTasks' \in [Grants -> Seq(ProvisionTaskRow)]
         /\ Linked'
<1>1. /\ grant' \in [Grants -> GrantRow] /\ session' \in [Grants -> SessionRow]
      /\ provisionTasks' \in [Grants -> Seq(ProvisionTaskRow)]
      /\ grant'[g].status # "NotCreated" /\ grant'[g].request = r
      /\ \A h \in Grants \ {g} : grant'[h] = grant[h] /\ session'[h] = session[h]
  BY ProvisionEffectRows DEF TypeInv
<1>2. ASSUME NEW h \in Grants, (Exists(h) \/ session[h].status # "Absent" \/ ~NoRevokeTask(h))'
      PROVE  Held(h)'
  <2>1. CASE h = g
    BY <2>1, <1>1 DEF Held, Exists
  <2>2. CASE h # g
    BY <2>2, <1>1, <1>2 DEF TypeInv, Linked, Held, Exists, NoRevokeTask
  <2> QED
    BY <2>1, <2>2
<1> QED
  BY <1>1, <1>2 DEF Linked

LEMMA TypeInvProvision ==
  ASSUME TypeInv, NEW r \in Requests, NEW g \in Grants, NEW outcome \in ProvisionOutcomes,
         ProvisionGrant(r, g, outcome)
  PROVE  TypeInv'
<1>1. now + request[r].duration \in Nat
  BY DEF TypeInv, TypeOK, RequestRow
<1>2. /\ grant' \in [Grants -> GrantRow] /\ session' \in [Grants -> SessionRow]
      /\ provisionTasks' \in [Grants -> Seq(ProvisionTaskRow)] /\ Linked'
  BY <1>1, ProvisionEffectType DEF ProvisionGrant
<1>3. request' \in [Requests -> RequestRow]
  BY ProvisionRequestRow DEF ProvisionGrant, TypeInv, TypeOK
<1> QED
  BY <1>2, <1>3 DEF ProvisionGrant, TypeInv, TypeOK

LEMMA RetryProvisionRows ==
  ASSUME TypeOK, NEW r \in Requests, NEW g \in Grants, NEW outcome \in ProvisionOutcomes,
         RetryProvision(r, g, outcome)
  PROVE  /\ grant[g].expire \in Nat /\ LatestOf(provisionTasks[g]).retry + 1 \in Nat
         /\ TypeOK'
<1>1. LatestOf(provisionTasks[g]) \in ProvisionTaskRow
  BY LatestInRow DEF RetryProvision, CanRetryProvision, TypeOK
<1>2. grant[g].expire \in Nat /\ LatestOf(provisionTasks[g]).retry + 1 \in Nat
  BY <1>1 DEF TypeOK, GrantRow, ProvisionTaskRow
<1>3. /\ grant' \in [Grants -> GrantRow] /\ session' \in [Grants -> SessionRow]
      /\ provisionTasks' \in [Grants -> Seq(ProvisionTaskRow)]
  BY <1>2, ProvisionEffectRows DEF RetryProvision
<1>4. request' \in [Requests -> RequestRow]
  BY ProvisionRequestRow DEF RetryProvision, TypeOK
<1> QED
  BY <1>2, <1>3, <1>4 DEF RetryProvision, TypeOK

LEMMA TypeInvRetryProvision ==
  ASSUME TypeInv, NEW r \in Requests, NEW g \in Grants, NEW outcome \in ProvisionOutcomes,
         RetryProvision(r, g, outcome)
  PROVE  TypeInv'
<1>1. /\ grant[g].expire \in Nat /\ LatestOf(provisionTasks[g]).retry + 1 \in Nat
      /\ TypeOK'
  BY RetryProvisionRows DEF TypeInv
<1>2. Linked'
  BY <1>1, ProvisionEffectType DEF RetryProvision
<1> QED
  BY <1>1, <1>2 DEF TypeInv

LEMMA TypeInvRenew ==
  ASSUME TypeInv, NEW r \in Requests, NEW g \in Grants, NEW duration \in Durations,
         RenewGrant(r, g, duration)
  PROVE  TypeInv'
<1>1. grant[g].request \in Requests
  BY DEF RenewGrant, Renewable, TypeInv, Linked, Held, Exists
<1>2. request[grant[g].request] \in RequestRow /\ grant[g].status \in GrantStatus
  BY <1>1 DEF TypeInv, TypeOK, GrantRow
<1>3. RenewalRequest(g, duration) \in RequestRow
  BY <1>1, <1>2, AccessStateAssumption
  DEF RenewalRequest, RequestRow, RequestStatus, ApprovalStatus
<1>4. [status |-> "Pending", key |-> NoKey] \in ApprovalRow
  BY DEF ApprovalRow, ApprovalStatus
<1>5. /\ request' \in [Requests -> RequestRow]
      /\ approval' \in [Requests -> ApprovalRow]
  BY <1>3, <1>4 DEF RenewGrant, TypeInv, TypeOK
<1> QED
  BY <1>5 DEF RenewGrant, TypeInv, TypeOK, Linked, Held, Exists, NoRevokeTask

LEMMA CallbackType ==
  ASSUME TypeInv, NEW r \in Requests, NEW k \in Keys, NEW status \in ApprovalStatus \cup {"Absent"},
         RecordCallback(r, k, status)
  PROVE  approval' \in [Requests -> ApprovalRow]
<1>1. [status |-> status, key |-> k] \in ApprovalRow
  BY DEF ApprovalRow
<1> QED
  BY <1>1 DEF RecordCallback, TypeInv, TypeOK

LEMMA ApprovedRowType ==
  ASSUME TypeInv, NEW r \in Requests
  PROVE  ApprovedRow(r) \in RequestRow
<1>1. request[r] \in RequestRow
  BY DEF TypeInv, TypeOK
<1>2. "Approved" \in RequestStatus /\ "Approved" \in ApprovalStatus
  BY DEF RequestStatus, ApprovalStatus
<1> QED
  BY <1>1, <1>2 DEF ApprovedRow, RequestRow

LEMMA TypeInvApprove ==
  ASSUME TypeInv, NEW r \in Requests, NEW k \in Keys, NEW outcome \in ProvisionOutcomes,
         ApproveRequest(r, k, outcome)
  PROVE  TypeInv'
<1> DEFINE row == ApprovedRow(r)
           g == DefaultGrant[r]
<1>1. row \in RequestRow /\ g \in Grants
  BY ApprovedRowType, AccessStateAssumption
<1>2. approval' \in [Requests -> ApprovalRow]
  BY CallbackType DEF ApproveRequest, ApprovalStatus
<1>3. CASE CanProvision(r, g, row)
  <2>1. now + row.duration \in Nat
    BY <1>1 DEF TypeInv, TypeOK, RequestRow
  <2>2. /\ grant' \in [Grants -> GrantRow] /\ session' \in [Grants -> SessionRow]
        /\ provisionTasks' \in [Grants -> Seq(ProvisionTaskRow)] /\ Linked'
    BY <1>1, <1>3, <2>1, ProvisionEffectType DEF ApproveRequest
  <2>3. request' \in [Requests -> RequestRow]
    BY <1>1, <1>3, ProvisionRequestRow DEF ApproveRequest, TypeInv, TypeOK
  <2> QED
    BY <1>2, <2>2, <2>3 DEF ApproveRequest, TypeInv, TypeOK
<1>4. CASE ~CanProvision(r, g, row)
  <2>1. request' \in [Requests -> RequestRow]
    BY <1>1, <1>4 DEF ApproveRequest, TypeInv, TypeOK
  <2> QED
    BY <1>2, <1>4, <2>1 DEF ApproveRequest, TypeInv, TypeOK, Linked, Held, Exists, NoRevokeTask
<1> QED
  BY <1>3, <1>4

LEMMA ExpiredRowType ==
  ASSUME NEW row \in RequestRow
  PROVE  [row EXCEPT !.status = "Expired", !.grant = "Expired"] \in RequestRow
BY DEF RequestRow, RequestStatus, GrantStatus

LEMMA TakenOverType ==
  ASSUME NEW row \in GrantRow, NEW r \in Requests, NEW d \in Nat
  PROVE  [row EXCEPT !.request = r, !.status = "Active", !.expire = row.expire + d] \in GrantRow
<1> DEFINE expire == row.expire + d
<1>1. expire \in Nat
  BY DEF GrantRow
<1> HIDE DEF expire
<1>2. [row EXCEPT !.request = r, !.status = "Active", !.expire = expire] \in GrantRow
  BY <1>1 DEF GrantRow, GrantStatus
<1> QED
  BY <1>2 DEF expire

LEMMA TypeInvApproveRenewal ==
  ASSUME TypeInv, NEW r \in Requests, NEW k \in Keys, ApproveRenewal(r, k)
  PROVE  TypeInv'
<1> DEFINE row == ApprovedRow(r)
<1>1. row \in RequestRow
  BY ApprovedRowType
<1>2. approval' \in [Requests -> ApprovalRow]
  BY CallbackType DEF ApproveRenewal, ApprovalStatus
<1>3. CASE CanCompleteRenewal(row)
  <2> DEFINE g == row.renews
             source == [request[row.source] EXCEPT !.status = "Expired", !.grant = "Expired"]
             renewed == [row EXCEPT !.status = "Active", !.grant = "Active"]
  <2>1. renewed \in RequestRow
    BY <1>1 DEF RequestRow, RequestStatus, GrantStatus
  <2>2. row.source \in Requests => source \in RequestRow
    <3> HIDE DEF row
    <3> QED BY ExpiredRowType DEF TypeInv, TypeOK
  <2>3. request' = [request EXCEPT ![row.source] = source, ![r] = renewed]
    BY <1>3 DEF ApproveRenewal, RenewalEffect
  <2>4. request' \in [Requests -> RequestRow]
    <3> HIDE DEF source, renewed, row
    <3> QED BY <2>1, <2>2, <2>3 DEF TypeInv, TypeOK
  <2>5. grant' \in [Grants -> GrantRow]
    <3> DEFINE taken == [grant[g] EXCEPT !.request = r, !.status = "Active",
                                         !.expire = grant[g].expire + row.duration]
    <3>1. grant' = [grant EXCEPT ![g] = taken]
      BY <1>3 DEF ApproveRenewal, RenewalEffect
    <3>2. row.duration \in Nat
      BY <1>1 DEF RequestRow
    <3> HIDE DEF row, g
    <3>3. ASSUME g \in Grants
          PROVE  taken \in GrantRow
      <4>1. grant[g] \in GrantRow
        BY <3>3 DEF TypeInv, TypeOK
      <4> QED
        BY <3>2, <4>1, TakenOverType
    <3> HIDE DEF taken
    <3> QED
      BY <3>1, <3>3 DEF TypeInv, TypeOK
  <2>6. session' \in [Grants -> SessionRow]
    <3>1. session' = IF session[g].status = "Absent" THEN session
                     ELSE [session EXCEPT ![g].request = r]
      BY <1>3 DEF ApproveRenewal, RenewalEffect
    <3> HIDE DEF g
    <3> QED
      BY <3>1 DEF TypeInv, TypeOK, SessionRow
  <2>7. Linked'
    <3>1. ASSUME NEW h \in Grants, (Exists(h) \/ session[h].status # "Absent" \/ ~NoRevokeTask(h))'
          PROVE  Held(h)'
      <4>1. /\ grant' = [grant EXCEPT ![g] = [@ EXCEPT !.request = r, !.status = "Active",
                                                       !.expire = grant[g].expire + row.duration]]
            /\ session' = IF session[g].status = "Absent" THEN session
                          ELSE [session EXCEPT ![g].request = r]
            /\ revokeTasks' = revokeTasks
        BY <1>3 DEF ApproveRenewal, RenewalEffect
      <4> HIDE DEF g, row
      <4>2. CASE h = g
        BY <4>1, <4>2 DEF TypeInv, TypeOK, Held, Exists, GrantRow
      <4>3. CASE h # g
        BY <4>1, <4>3, <3>1 DEF TypeInv, TypeOK, Linked, Held, Exists, NoRevokeTask
      <4> QED
        BY <4>2, <4>3
    <3> QED
      BY <3>1 DEF Linked
  <2> QED
    BY <1>2, <2>4, <2>5, <2>6, <2>7 DEF ApproveRenewal, TypeInv, TypeOK
<1>4. CASE ~CanCompleteRenewal(row)
  <2>1. request' \in [Requests -> RequestRow]
    BY <1>1, <1>4 DEF ApproveRenewal, TypeInv, TypeOK
  <2> QED
    BY <1>2, <1>4, <2>1 DEF ApproveRenewal, TypeInv, TypeOK, Linked, Held, Exists, NoRevokeTask
<1> QED
  BY <1>3, <1>4

\* The callbacks that write a request and its approval record only.
LEMMA TypeInvDeny ==
  ASSUME TypeInv, NEW r \in Requests, NEW k \in Keys, NEW status \in Denials,
         DenyRequest(r, k, status)
  PROVE  TypeInv'
<1>1. approval' \in [Requests -> ApprovalRow]
  BY CallbackType DEF DenyRequest, Denials, ApprovalStatus
<1>2. [request[r] EXCEPT !.approval = status, !.status = "Failed"] \in RequestRow
  <2>1. request[r] \in RequestRow
    BY DEF TypeInv, TypeOK
  <2>2. status \in ApprovalStatus /\ "Failed" \in RequestStatus
    BY DEF Denials, ApprovalStatus, RequestStatus
  <2> QED
    BY <2>1, <2>2 DEF RequestRow
<1>3. request' \in [Requests -> RequestRow]
  BY <1>2 DEF DenyRequest, TypeInv, TypeOK
<1> QED
  BY <1>1, <1>3 DEF DenyRequest, TypeInv, TypeOK, Linked, Held, Exists, NoRevokeTask

LEMMA TypeInvFailCallback ==
  ASSUME TypeInv, NEW r \in Requests, NEW k \in Keys, FailCallback(r, k)
  PROVE  TypeInv'
<1>1. approval' \in [Requests -> ApprovalRow]
  BY CallbackType DEF FailCallback, ApprovalStatus
<1>2. [request[r] EXCEPT !.approval = "CallbackFailed"] \in RequestRow
  <2>1. request[r] \in RequestRow
    BY DEF TypeInv, TypeOK
  <2>2. "CallbackFailed" \in ApprovalStatus
    BY DEF ApprovalStatus
  <2> QED
    BY <2>1, <2>2 DEF RequestRow
<1>3. request' = [request EXCEPT ![r] = [request[r] EXCEPT !.approval = "CallbackFailed"]]
  BY DEF FailCallback, TypeInv, TypeOK
<1>4. request' \in [Requests -> RequestRow]
  BY <1>2, <1>3 DEF TypeInv, TypeOK
<1> QED
  BY <1>1, <1>4 DEF FailCallback, TypeInv, TypeOK, Linked, Held, Exists, NoRevokeTask

LEMMA TypeInvRefuseCallback ==
  ASSUME TypeInv, NEW r \in Requests, NEW k \in Keys, RefuseCallback(r, k)
  PROVE  TypeInv'
<1>1. approval[r].status \in ApprovalStatus \cup {"Absent"}
  BY DEF TypeInv, TypeOK, ApprovalRow
<1>2. approval' \in [Requests -> ApprovalRow]
  BY <1>1, CallbackType DEF RefuseCallback
<1> QED
  BY <1>2 DEF RefuseCallback, TypeInv, TypeOK, Linked, Held, Exists, NoRevokeTask

-----------------------------------------------------------------------------
(***************************************************************************)
(* Requesting and processing revocations, row by row.                      *)
(***************************************************************************)
\* A grant whose session can be revoked is held by a request.
LEMMA RevocableHeld ==
  ASSUME TypeInv, NEW g \in Grants, Revocable(g)
  PROVE  Held(g)
BY DEF TypeInv, Linked, Revocable

LEMMA NextRetryType ==
  ASSUME TypeInv, NEW g \in Grants
  PROVE  NextRetry(g) \in Nat
<1>1. CASE NoRevokeTask(g)
  BY <1>1 DEF NextRetry
<1>2. CASE ~NoRevokeTask(g)
  <2>1. LatestOf(revokeTasks[g]) \in RevokeTaskRow
    BY <1>2, LatestInRow DEF NoRevokeTask, TypeInv, TypeOK
  <2> QED
    BY <1>2, <2>1 DEF NextRetry, RevokeTaskRow
<1> QED
  BY <1>1, <1>2

LEMMA RequestedRows ==
  ASSUME TypeInv, NEW g \in Grants, NEW trigger \in Triggers
  PROVE  /\ SessionAfterRequest(g) \in SessionRow
         /\ GrantAfterRequest(grant[g]) \in GrantRow
         /\ TasksAfterRequest(g, trigger) \in Seq(RevokeTaskRow)
<1>1. session[g] \in SessionRow /\ grant[g] \in GrantRow /\ revokeTasks[g] \in Seq(RevokeTaskRow)
  BY DEF TypeInv, TypeOK
<1>2. SessionAfterRequest(g) \in SessionRow
  BY <1>1 DEF SessionAfterRequest, SessionRow, SessionStatus
<1>3. GrantAfterRequest(grant[g]) \in GrantRow
  BY <1>1 DEF GrantAfterRequest, GrantRow, GrantStatus
<1>4. [status |-> IF Retrying(g) THEN "Retrying" ELSE "Pending",
       retry |-> NextRetry(g), trigger |-> trigger] \in RevokeTaskRow
  BY NextRetryType DEF RevokeTaskRow, TaskStatus
<1>5. TasksAfterRequest(g, trigger) \in Seq(RevokeTaskRow)
  BY <1>1, <1>4 DEF TasksAfterRequest
<1> QED
  BY <1>2, <1>3, <1>5

LEMMA RequestAfterRequestType ==
  ASSUME TypeInv, NEW S \in SUBSET Grants, NEW r \in Requests
  PROVE  RequestAfterRequest(S, r) \in RequestRow
<1>1. request[r] \in RequestRow
  BY DEF TypeInv, TypeOK
<1>2. CASE BoundIn(S, r) = {}
  BY <1>1, <1>2 DEF RequestAfterRequest
<1>3. CASE BoundIn(S, r) # {}
  <2> DEFINE g == CHOOSE g \in BoundIn(S, r) : TRUE
             status == GrantAfterRequest(grant[g]).status
  <2>1. g \in Grants
    BY <1>3 DEF BoundIn
  <2>2. GrantAfterRequest(grant[g]) \in GrantRow
    <3> HIDE DEF g
    <3> QED BY <2>1, RequestedRows DEF Triggers
  <2>3. status \in GrantStatus
    BY <2>2 DEF GrantRow
  <2>4. RequestAfterRequest(S, r) = [request[r] EXCEPT !.grant = status]
    BY <1>3 DEF RequestAfterRequest
  <2> HIDE DEF g, status
  <2> QED
    BY <1>1, <2>3, <2>4 DEF RequestRow
<1> QED
  BY <1>2, <1>3

LEMMA TypeInvRequestRevokes ==
  ASSUME TypeInv, NEW S \in SUBSET Grants, \A g \in S : Revocable(g), RequestRevokes(S)
  PROVE  /\ session' \in [Grants -> SessionRow] /\ grant' \in [Grants -> GrantRow]
         /\ request' \in [Requests -> RequestRow]
         /\ revokeTasks' \in [Grants -> Seq(RevokeTaskRow)]
         /\ Linked'
<1>1. session' \in [Grants -> SessionRow]
  BY RequestedRows DEF RequestRevokes, Triggers, TypeInv, TypeOK
<1>2. grant' \in [Grants -> GrantRow]
  BY RequestedRows DEF RequestRevokes, Triggers, TypeInv, TypeOK
<1>3. revokeTasks' \in [Grants -> Seq(RevokeTaskRow)]
  BY RequestedRows DEF RequestRevokes, Triggers, TypeInv, TypeOK
<1>4. request' \in [Requests -> RequestRow]
  BY RequestAfterRequestType DEF RequestRevokes
<1>5. ASSUME NEW g \in Grants, (Exists(g) \/ session[g].status # "Absent" \/ ~NoRevokeTask(g))'
      PROVE  Held(g)'
  <2>1. CASE g \in S
    <3>1. Held(g) /\ grant[g] \in GrantRow
      BY <2>1, RevocableHeld DEF TypeInv, TypeOK
    <3>2. grant'[g] = GrantAfterRequest(grant[g])
      BY <2>1 DEF RequestRevokes
    <3> QED
      BY <3>1, <3>2 DEF GrantAfterRequest, Held, Exists, GrantRow
  <2>2. CASE g \notin S
    BY <1>5, <2>2 DEF RequestRevokes, TypeInv, Linked, Held, Exists, NoRevokeTask
  <2> QED
    BY <2>1, <2>2
<1> QED
  BY <1>1, <1>2, <1>3, <1>4, <1>5 DEF Linked

LEMMA TypeInvRevokeSession ==
  ASSUME TypeInv, NEW g \in Grants, RevokeSession(g)
  PROVE  TypeInv'
<1>1. {g} \in SUBSET Grants /\ (\A h \in {g} : Revocable(h)) /\ RequestRevokes({g})
  BY DEF RevokeSession
<1>2. /\ session' \in [Grants -> SessionRow] /\ grant' \in [Grants -> GrantRow]
      /\ request' \in [Requests -> RequestRow]
      /\ revokeTasks' \in [Grants -> Seq(RevokeTaskRow)]
      /\ Linked'
  BY <1>1, TypeInvRequestRevokes
<1> QED
  BY <1>2 DEF RevokeSession, TypeInv, TypeOK

LEMMA TypeInvDisableAgent ==
  ASSUME TypeInv, NEW a \in Agents, DisableAgent(a)
  PROVE  TypeInv'
<1>1. /\ SessionsOf(a) \in SUBSET Grants /\ (\A h \in SessionsOf(a) : Revocable(h))
      /\ RequestRevokes(SessionsOf(a))
  BY DEF DisableAgent, SessionsOf
<1>2. /\ session' \in [Grants -> SessionRow] /\ grant' \in [Grants -> GrantRow]
      /\ request' \in [Requests -> RequestRow]
      /\ revokeTasks' \in [Grants -> Seq(RevokeTaskRow)]
      /\ Linked'
  BY <1>1, TypeInvRequestRevokes
<1> QED
  BY <1>2 DEF DisableAgent, TypeInv, TypeOK

\* What processing a revoke task makes of a row of each table.
LEMMA ProcessedRows ==
  ASSUME NEW outcome \in RevokeOutcomes, NEW trigger, NEW grantRow \in GrantRow
  PROVE  /\ \A row \in SessionRow : SessionAfterRevoke(row, outcome) \in SessionRow
         /\ GrantAfterRevoke(grantRow, trigger, outcome) \in GrantRow
         /\ GrantAfterRevoke(grantRow, trigger, outcome).request = grantRow.request
         /\ grantRow.status # "NotCreated" =>
              GrantAfterRevoke(grantRow, trigger, outcome).status # "NotCreated"
         /\ \A row \in RequestRow :
              RequestAfterRevoke(row, grantRow, trigger, outcome) \in RequestRow
         /\ \A task \in RevokeTaskRow : TaskAfterRevoke(task, outcome) \in RevokeTaskRow
<1>1. \A row : FinalStatus(row, trigger) \in {"Expired", "Revoked"}
  BY DEF FinalStatus
<1>2. \A row \in SessionRow : SessionAfterRevoke(row, outcome) \in SessionRow
  BY DEF SessionAfterRevoke, SessionRow, SessionStatus
<1>3. /\ GrantAfterRevoke(grantRow, trigger, outcome) \in GrantRow
      /\ GrantAfterRevoke(grantRow, trigger, outcome).request = grantRow.request
      /\ grantRow.status # "NotCreated" =>
           GrantAfterRevoke(grantRow, trigger, outcome).status # "NotCreated"
  BY <1>1 DEF GrantAfterRevoke, GrantRow, GrantStatus
<1>4. ASSUME NEW row \in RequestRow
      PROVE  RequestAfterRevoke(row, grantRow, trigger, outcome) \in RequestRow
  <2> DEFINE final == FinalStatus(grantRow, trigger)
             own == FinalStatus(row, trigger)
  <2>1. final \in {"Expired", "Revoked"} /\ own \in {"Expired", "Revoked"}
    BY <1>1
  <2>2. RequestAfterRevoke(row, grantRow, trigger, outcome) =
          IF outcome = "Succeeded" THEN [row EXCEPT !.status = own, !.grant = final]
          ELSE IF final # "Expired" THEN [row EXCEPT !.grant = "RevokeFailed"]
          ELSE row
    BY DEF RequestAfterRevoke
  <2>3. final \in GrantStatus /\ own \in RequestStatus /\ "RevokeFailed" \in GrantStatus
    BY <2>1 DEF GrantStatus, RequestStatus
  <2> HIDE DEF final, own
  <2> QED
    BY <2>2, <2>3 DEF RequestRow
<1>5. \A task \in RevokeTaskRow : TaskAfterRevoke(task, outcome) \in RevokeTaskRow
  BY DEF TaskAfterRevoke, RevokeTaskRow, TaskStatus, RevokeOutcomes
<1> QED
  BY <1>2, <1>3, <1>4, <1>5

LEMMA SameDomainEmpty ==
  ASSUME NEW S, NEW s \in Seq(S), NEW t \in Seq(S), DOMAIN t = DOMAIN s, s = <<>>
  PROVE  t = <<>>
<1>1. DOMAIN t = 1 .. Len(t) /\ DOMAIN s = 1 .. Len(s) /\ Len(t) \in Nat
  BY LenProperties
<1>2. Len(s) = 0
  BY EmptySeq
<1>3. Len(t) = 0
  <2>1. ASSUME Len(t) # 0 PROVE FALSE
    <3>1. 1 \in DOMAIN t
      BY <1>1, <2>1
    <3> QED
      BY <1>1, <1>2, <3>1
  <2> QED
    BY <2>1
<1> QED
  BY <1>3, EmptySeq

LEMMA AnswerType ==
  ASSUME NEW done, NEW g, NEW i
  PROVE  Answer(done, g, i) \in RevokeOutcomes
BY DEF Answer, RevokeOutcomes

\* The tasks of a grant after all its open ones were processed.
LEMMA ProcessedTasks ==
  ASSUME NEW g, NEW done, revokeTasks[g] \in Seq(RevokeTaskRow)
  PROVE  [i \in DOMAIN revokeTasks[g] |->
            IF i \in OpenOf(g) THEN TaskAfterRevoke(revokeTasks[g][i], Answer(done, g, i))
            ELSE revokeTasks[g][i]] \in Seq(RevokeTaskRow)
<1> DEFINE tasks == revokeTasks[g]
           after == [i \in DOMAIN tasks |->
                       IF i \in OpenOf(g) THEN TaskAfterRevoke(tasks[i], Answer(done, g, i))
                       ELSE tasks[i]]
<1>1. DOMAIN tasks = 1 .. Len(tasks) /\ Len(tasks) \in Nat
  BY LenProperties
<1>2. ASSUME NEW i \in DOMAIN tasks
      PROVE  after[i] \in RevokeTaskRow
  <2>1. tasks[i] \in RevokeTaskRow
    BY <1>1, ElementOfSeq
  <2>2. TaskAfterRevoke(tasks[i], Answer(done, g, i)) \in RevokeTaskRow
    BY <2>1, AnswerType DEF TaskAfterRevoke, RevokeTaskRow, TaskStatus, RevokeOutcomes
  <2> QED
    BY <2>1, <2>2
<1>3. after \in [1 .. Len(tasks) -> RevokeTaskRow]
  BY <1>1, <1>2
<1> HIDE DEF after
<1>4. after \in Seq(RevokeTaskRow)
  BY <1>1, <1>3, SeqDef
<1> QED
  BY <1>4 DEF after

\* The row of a request after all open tasks of grant g were processed.
LEMMA ProcessedRequest ==
  ASSUME NEW g, NEW done, grant[g] \in GrantRow, NEW row \in RequestRow
  PROVE  RequestAfterTasks(done, g, row) \in RequestRow
<1> DEFINE trigger == DecidingTrigger(done, g)
           before == IF SomeDone(done, g)
                     THEN RequestAfterRevoke(row, grant[g], trigger, "Succeeded") ELSE row
           answer == Answer(done, g, Deciding(done, g))
<1>1. answer \in RevokeOutcomes /\ "Succeeded" \in RevokeOutcomes
  BY AnswerType DEF RevokeOutcomes
<1>2. RequestAfterTasks(done, g, row) = RequestAfterRevoke(before, grant[g], trigger, answer)
  BY DEF RequestAfterTasks
<1> HIDE DEF trigger, answer
<1>3. before \in RequestRow
  BY <1>1, ProcessedRows
<1> HIDE DEF before
<1> QED
  BY <1>1, <1>2, <1>3, ProcessedRows

LEMMA TypeInvProcessPending ==
  ASSUME TypeInv, NEW done, ProcessPendingRevokes(done)
  PROVE  TypeInv'
<1> DEFINE Todo == {g \in Grants : HasOpenRevoke(g)}
<1>1. /\ session \in [Grants -> SessionRow] /\ grant \in [Grants -> GrantRow]
      /\ request \in [Requests -> RequestRow]
      /\ revokeTasks \in [Grants -> Seq(RevokeTaskRow)]
  BY DEF TypeInv, TypeOK
<1>2. session' \in [Grants -> SessionRow]
  BY <1>1, ProcessedRows, AnswerType DEF ProcessPendingRevokes
<1>3. grant' \in [Grants -> GrantRow]
  BY <1>1, ProcessedRows, AnswerType DEF ProcessPendingRevokes
<1>4. request' \in [Requests -> RequestRow]
  <2>1. ASSUME NEW r \in Requests
        PROVE  request'[r] \in RequestRow
    <3>1. CASE BoundIn(Todo, r) = {}
      BY <1>1, <3>1 DEF ProcessPendingRevokes
    <3>2. CASE BoundIn(Todo, r) # {}
      <4> DEFINE g == CHOOSE g \in BoundIn(Todo, r) : TRUE
      <4>1. g \in Grants
        BY <3>2 DEF BoundIn
      <4>2. request'[r] = RequestAfterTasks(done, g, request[r])
        BY <3>2 DEF ProcessPendingRevokes
      <4> HIDE DEF g
      <4>3. grant[g] \in GrantRow /\ request[r] \in RequestRow
        BY <1>1, <4>1
      <4> QED
        BY <4>2, <4>3, ProcessedRequest
    <3> QED
      BY <3>1, <3>2
  <2>2. DOMAIN request' = Requests /\ request' = [r \in Requests |-> request'[r]]
    BY DEF ProcessPendingRevokes
  <2> QED
    BY <2>1, <2>2
<1>5. revokeTasks' \in [Grants -> Seq(RevokeTaskRow)]
  BY <1>1, ProcessedTasks DEF ProcessPendingRevokes
<1>6. ASSUME NEW g \in Grants, (Exists(g) \/ session[g].status # "Absent" \/ ~NoRevokeTask(g))'
      PROVE  Held(g)'
  <2>1. CASE HasOpenRevoke(g)
    <3>1. revokeTasks[g] # <<>>
      BY <2>1 DEF HasOpenRevoke, OpenOf
    <3>2. Held(g) /\ grant[g] \in GrantRow
      BY <1>1, <3>1 DEF TypeInv, Linked, NoRevokeTask
    <3>3. grant'[g] = GrantAfterRevoke(grant[g], DecidingTrigger(done, g),
                                       Answer(done, g, Deciding(done, g)))
      BY <2>1 DEF ProcessPendingRevokes
    <3> QED
      BY <3>2, <3>3, AnswerType, ProcessedRows DEF Held, Exists
  <2>2. CASE ~HasOpenRevoke(g)
    <3>1. grant'[g] = grant[g] /\ session'[g] = session[g]
      BY <2>2 DEF ProcessPendingRevokes
    <3>2. DOMAIN revokeTasks'[g] = DOMAIN revokeTasks[g]
      BY DEF ProcessPendingRevokes
    <3>3. revokeTasks[g] = <<>> => revokeTasks'[g] = <<>>
      BY <1>1, <1>5, <3>2, SameDomainEmpty
    <3> QED
      BY <1>6, <3>1, <3>3 DEF TypeInv, Linked, Held, Exists, NoRevokeTask
  <2> QED
    BY <2>1, <2>2
<1> QED
  BY <1>2, <1>3, <1>4, <1>5, <1>6 DEF ProcessPendingRevokes, TypeInv, TypeOK, Linked

LEMMA TypeInvRetryRevoke ==
  ASSUME TypeInv, NEW g \in Grants, NEW outcome \in RevokeOutcomes, RetryRevoke(g, outcome)
  PROVE  TypeInv'
<1> DEFINE asked == GrantAfterRequest(grant[g])
           r == session[g].request
           task == [status |-> outcome, retry |-> NextRetry(g), trigger |-> "Requested"]
<1>1. /\ session \in [Grants -> SessionRow] /\ grant \in [Grants -> GrantRow]
      /\ request \in [Requests -> RequestRow]
      /\ revokeTasks \in [Grants -> Seq(RevokeTaskRow)]
  BY DEF TypeInv, TypeOK
<1>2. /\ SessionAfterRequest(g) \in SessionRow /\ asked \in GrantRow
      /\ asked.request = grant[g].request /\ (Exists(g) => asked.status # "NotCreated")
  <2>1. asked.request = grant[g].request /\ (Exists(g) => asked.status # "NotCreated")
    BY <1>1 DEF GrantAfterRequest, Exists, GrantRow
  <2> QED
    BY <2>1, RequestedRows DEF Triggers
<1>3. Held(g)
  BY DEF RetryRevoke, CanRetryRevoke, TypeInv, Linked
<1>4. session' \in [Grants -> SessionRow]
  BY <1>1, <1>2, ProcessedRows DEF RetryRevoke
<1>5. grant' \in [Grants -> GrantRow]
  BY <1>1, <1>2, ProcessedRows DEF RetryRevoke
<1>6. request' \in [Requests -> RequestRow]
  <2> DEFINE marked == [request[r] EXCEPT !.grant = asked.status]
  <2>1. r \in Requests
    BY <1>3 DEF RetryRevoke, CanRetryRevoke, Held
  <2>2. asked.status \in GrantStatus
    BY <1>2 DEF GrantRow
  <2>3. marked \in RequestRow
    <3> HIDE DEF asked, r
    <3> QED BY <1>1, <2>1, <2>2 DEF RequestRow
  <2>4. request' = [request EXCEPT ![r] = RequestAfterRevoke(marked, asked, "Requested", outcome)]
    BY DEF RetryRevoke
  <2> HIDE DEF asked, r, marked
  <2> QED
    BY <1>1, <1>2, <2>1, <2>3, <2>4, ProcessedRows
<1>7. revokeTasks' \in [Grants -> Seq(RevokeTaskRow)]
  <2>1. task \in RevokeTaskRow
    BY NextRetryType DEF RevokeTaskRow, TaskStatus, RevokeOutcomes, Triggers
  <2> HIDE DEF task
  <2>2. revokeTasks' = [revokeTasks EXCEPT ![g] = Append(@, task)]
    BY DEF RetryRevoke, task
  <2> QED
    BY <1>1, <2>1, <2>2
<1>8. ASSUME NEW h \in Grants, (Exists(h) \/ session[h].status # "Absent" \/ ~NoRevokeTask(h))'
      PROVE  Held(h)'
  <2>1. CASE h = g
    <3>1. grant'[g] = GrantAfterRevoke(asked, "Requested", outcome)
      BY <1>1 DEF RetryRevoke
    <3> HIDE DEF asked
    <3> QED
      BY <1>2, <1>3, <2>1, <3>1, ProcessedRows DEF Held, Exists
  <2>2. CASE h # g
    BY <1>1, <1>8, <2>2 DEF RetryRevoke, TypeInv, Linked, Held, Exists, NoRevokeTask
  <2> QED
    BY <2>1, <2>2
<1> QED
  BY <1>4, <1>5, <1>6, <1>7, <1>8 DEF RetryRevoke, TypeInv, TypeOK, Linked

LEMMA TypeInvReconcile ==
  ASSUME TypeInv, ReconcileGrantLifecycle
  PROVE  TypeInv'
<1>1. /\ session \in [Grants -> SessionRow] /\ grant \in [Grants -> GrantRow]
      /\ request \in [Requests -> RequestRow]
      /\ revokeTasks \in [Grants -> Seq(RevokeTaskRow)]
      /\ reminders \in [Grants -> Seq(ReminderRow)]
  BY DEF TypeInv, TypeOK
<1>2. session' \in [Grants -> SessionRow]
  BY <1>1, RequestedRows DEF ReconcileGrantLifecycle, Triggers
<1>3. grant' \in [Grants -> GrantRow]
  <2>1. ASSUME NEW g \in Grants
        PROVE  /\ [grant[g] EXCEPT !.status = "Expired"] \in GrantRow
               /\ ExpiringRow(grant[g]) \in GrantRow
    BY <1>1 DEF ExpiringRow, GrantRow, GrantStatus
  <2> QED
    BY <1>1, <2>1 DEF ReconcileGrantLifecycle
<1>4. request' \in [Requests -> RequestRow]
  <2>1. ASSUME NEW r \in Requests
        PROVE  RequestAfterReconcile(r) \in RequestRow
    <3>1. /\ [request[r] EXCEPT !.status = "Expired", !.grant = "Expired"] \in RequestRow
          /\ [request[r] EXCEPT !.grant = "Expired"] \in RequestRow
          /\ [request[r] EXCEPT !.status = "Expiring", !.grant = "Expiring"] \in RequestRow
      <4>1. request[r] \in RequestRow
        BY <1>1
      <4>2. {"Expired", "Expiring"} \subseteq RequestStatus \cap GrantStatus
        BY DEF RequestStatus, GrantStatus
      <4> QED
        BY <4>1, <4>2 DEF RequestRow
    <3> QED
      BY <1>1, <3>1 DEF RequestAfterReconcile
  <2> QED
    BY <2>1 DEF ReconcileGrantLifecycle
<1>5. revokeTasks' \in [Grants -> Seq(RevokeTaskRow)]
  BY <1>1, RequestedRows DEF ReconcileGrantLifecycle, Triggers
<1>6. reminders' \in [Grants -> Seq(ReminderRow)]
  <2>1. ASSUME NEW g \in Nearing
        PROVE  g \in Grants /\ Reminder(g) \in ReminderRow
    <3>1. g \in Grants /\ grant[g].request \in Requests
      BY DEF Nearing, Renewable, TypeInv, Linked, Held, Exists
    <3>2. grant[g].expire \in Nat /\ request[grant[g].request].round \in Nat
      BY <1>1, <3>1 DEF GrantRow, RequestRow
    <3> QED
      BY <3>1, <3>2 DEF Reminder, ReminderRow
  <2> QED
    BY <1>1, <2>1 DEF ReconcileGrantLifecycle
<1>7. ASSUME NEW g \in Grants, (Exists(g) \/ session[g].status # "Absent" \/ ~NoRevokeTask(g))'
      PROVE  Held(g)'
  <2>1. grant[g] \in GrantRow
    BY <1>1
  <2>2. CASE g \in Due \cup Nearing
    <3>1. Held(g)
      BY <2>2 DEF Due, Nearing, Renewable, TypeInv, Linked, Exists
    <3>2. \/ grant'[g] = [grant[g] EXCEPT !.status = "Expired"]
          \/ grant'[g] = ExpiringRow(grant[g])
      BY <2>2 DEF ReconcileGrantLifecycle
    <3> QED
      BY <2>1, <3>1, <3>2 DEF ExpiringRow, Held, Exists, GrantRow
  <2>3. CASE g \notin Due \cup Nearing
    <3>1. grant'[g] = grant[g]
      BY <2>3 DEF ReconcileGrantLifecycle
    <3>2. session'[g] = session[g] /\ revokeTasks'[g] = revokeTasks[g]
      BY <2>3 DEF ReconcileGrantLifecycle, Reclaimed
    <3> QED
      BY <1>7, <3>1, <3>2 DEF TypeInv, Linked, Held, Exists, NoRevokeTask
  <2> QED
    BY <2>2, <2>3
<1> QED
  BY <1>2, <1>3, <1>4, <1>5, <1>6, <1>7 DEF ReconcileGrantLifecycle, TypeInv, TypeOK, Linked

LEMMA TypeInvNext == TypeInv /\ [Next]_vars => TypeInv'
<1> SUFFICES ASSUME TypeInv, [Next]_vars PROVE TypeInv'
  OBVIOUS
<1>1. CASE \E r \in Requests : CreateRequest(r)
  BY <1>1, TypeInvAppears DEF CreateRequest, Appears
<1>2. CASE EvaluationStep
  BY <1>2, TypeInvEvaluate, TypeInvFailEvaluation DEF EvaluationStep
<1>3. CASE CallbackStep
  BY <1>3, TypeInvApprove, TypeInvApproveRenewal, TypeInvDeny, TypeInvFailCallback,
     TypeInvRefuseCallback DEF CallbackStep
<1>4. CASE ProvisionStep
  BY <1>4, TypeInvProvision, TypeInvRetryProvision DEF ProvisionStep
<1>5. CASE RenewStep
  BY <1>5, TypeInvRenew DEF RenewStep
<1>6. CASE RevokeStep
  BY <1>6, TypeInvRevokeSession, TypeInvDisableAgent, TypeInvRetryRevoke DEF RevokeStep
<1>7. CASE ProcessPendingStep
  BY <1>7, TypeInvProcessPending DEF ProcessPendingStep
<1>8. CASE ReconcileGrantLifecycle
  BY <1>8, TypeInvReconcile
<1>9. CASE Tick
  BY <1>9, TypeInvTick
<1>10. CASE UNCHANGED vars
  BY <1>10 DEF vars, TypeInv, TypeOK, Linked, Held, Exists, NoRevokeTask
<1> QED
  BY <1>1, <1>2, <1>3, <1>4, <1>5, <1>6, <1>7, <1>8, <1>9, <1>10 DEF Next

\* Every table holds only rows of its type, after any sequence of handlers,
\* callbacks and worker tasks.
THEOREM TypeCorrect == Spec => []TypeOK
<1>1. TypeInv => TypeOK
  BY DEF TypeInv
<1> QED
  BY <1>1, TypeInvInit, TypeInvNext, PTL DEF Spec

-----------------------------------------------------------------------------
(***************************************************************************)
(* What one step does to a grant's session and tasks, from nothing but the *)
(* types of the rows: a transaction that works on rows read at different   *)
(* times knows no more about them.                                         *)
(***************************************************************************)
\* A grant id nobody was given has no holder, and was not attempted either.
Unused(g) == ~Exists(g) => grant[g].request = NoRequest

Unattempted(g) == ~Exists(g) => provisionTasks[g] = <<>>

GrantOK(g) == /\ Exists(g) \/ ~NoRevokeTask(g) => Held(g)
              /\ Unused(g) /\ Unattempted(g)

RowInv == TypeInv /\ \A g \in Grants : GrantOK(g)

\* Nothing that says who may act: neither session nor task, and no new grant.
Spared(g) ==
  /\ session'[g].status = session[g].status
  /\ provisionTasks'[g] = provisionTasks[g] /\ revokeTasks'[g] = revokeTasks[g]
  /\ Exists(g)' <=> Exists(g)
  /\ ~Exists(g) => grant'[g].request = grant[g].request

\* One more provisioning, the first one or a counted retry; if the connector
\* applied it the session is bound.
Attempted(g) ==
  /\ ~Exists(g) \/ provisionTasks[g] # <<>>
  /\ Exists(g)' /\ revokeTasks'[g] = revokeTasks[g]
  /\ Len(provisionTasks'[g]) = Len(provisionTasks[g]) + 1
  /\ \E task \in ProvisionTaskRow :
       /\ provisionTasks'[g] = Append(provisionTasks[g], task)
       /\ task.retry = 0 <=> ~Exists(g)
       /\ session'[g].status = session[g].status \/ task.status = "Succeeded"
  /\ \/ session'[g].status = session[g].status
     \/ session'[g].status = "Active" /\ grant'[g].connector = "Applied"

WithinBudget(tasks) == \A i \in DOMAIN tasks : tasks[i].retry <= MaxRetry

\* The session is asked to be revoked, with a new task or the one it has; or it
\* is marked so and the error that it is out of retries is swallowed.
Asked(g) ==
  /\ Exists(g) /\ Exists(g)' /\ provisionTasks'[g] = provisionTasks[g]
  /\ session[g].status \in {"Active", "SyncFailed"}
  /\ session'[g].status \in {"Revoking", "Syncing"}
  /\ \/ /\ revokeTasks'[g] = revokeTasks[g] /\ ~NoRevokeTask(g)
        /\ \/ IsOpen(LatestOf(revokeTasks[g]))
           \/ LatestOf(revokeTasks[g]).retry + 1 > MaxRetry
     \/ \E task \in RevokeTaskRow :
          /\ IsOpen(task) /\ revokeTasks'[g] = Append(revokeTasks[g], task)
          /\ WithinBudget(revokeTasks[g]) => task.retry <= MaxRetry

\* The connector was called: no task is open that was not.
Settled(g) ==
  /\ ~NoRevokeTask(g)
  /\ Exists(g) /\ Exists(g)' /\ provisionTasks'[g] = provisionTasks[g]
  /\ session'[g].status \in {"Revoked", "SyncFailed"}
  /\ session[g].status = "Active" => HasOpenRevoke(g)
  /\ Len(revokeTasks'[g]) >= Len(revokeTasks[g])
  /\ \A i \in DOMAIN revokeTasks'[g] : IsOpen(revokeTasks'[g][i]) =>
       /\ i \in DOMAIN revokeTasks[g]
       /\ revokeTasks'[g][i].status = revokeTasks[g][i].status
  /\ \A i \in DOMAIN revokeTasks[g] : ~IsOpen(revokeTasks[g][i]) =>
       revokeTasks'[g][i] = revokeTasks[g][i]
  /\ WithinBudget(revokeTasks[g]) => WithinBudget(revokeTasks'[g])

Revokes(g) == Spared(g) \/ Asked(g) \/ Settled(g)

LEMMA GrantTypes ==
  ASSUME TypeInv, NEW g \in Grants
  PROVE  /\ session[g] \in SessionRow /\ grant[g] \in GrantRow
         /\ provisionTasks[g] \in Seq(ProvisionTaskRow)
         /\ revokeTasks[g] \in Seq(RevokeTaskRow)
BY DEF TypeInv, TypeOK

\* The handlers that write requests and approvals only.
LEMMA OthersSpare ==
  ASSUME UNCHANGED <<grant, session, provisionTasks, revokeTasks>>, NEW g \in Grants
  PROVE  Spared(g)
BY DEF Spared, Exists

LEMMA ProvisionAttempts ==
  ASSUME TypeOK, NEW r \in Requests, NEW g \in Grants, NEW expire, NEW retry,
         NEW outcome \in ProvisionOutcomes, ProvisionEffect(r, g, expire, retry, outcome),
         UNCHANGED revokeTasks, retry \in Nat, retry = 0 <=> ~Exists(g),
         ~Exists(g) \/ provisionTasks[g] # <<>>
  PROVE  Attempted(g) /\ \A h \in Grants \ {g} : Spared(h)
<1> DEFINE row == [status |-> GrantStatusAfter(outcome),
                   connector |-> ConnectorStatusAfter(outcome),
                   request |-> r, expire |-> expire]
           task == [status |-> TaskStatusAfter(outcome), retry |-> retry]
<1>1. /\ grant \in [Grants -> GrantRow] /\ session \in [Grants -> SessionRow]
      /\ provisionTasks \in [Grants -> Seq(ProvisionTaskRow)]
  BY DEF TypeOK
<1>2. /\ grant' = [grant EXCEPT ![g] = row]
      /\ provisionTasks' = [provisionTasks EXCEPT ![g] = Append(provisionTasks[g], task)]
      /\ session' = IF outcome = "Applied" THEN [session EXCEPT ![g] = BoundSession(r)] ELSE session
  BY DEF ProvisionEffect
<1>3. /\ row.status # "NotCreated" /\ (outcome = "Applied" => row.connector = "Applied")
      /\ task \in ProvisionTaskRow /\ task.retry = retry
      /\ outcome = "Applied" => task.status = "Succeeded"
  BY ProvisionRows DEF ConnectorStatusAfter, TaskStatusAfter, ProvisionTaskRow
<1> HIDE DEF row, task
<1>4. Len(provisionTasks'[g]) = Len(provisionTasks[g]) + 1
  <2>1. provisionTasks[g] \in Seq(ProvisionTaskRow \cup {task})
    <3>1. provisionTasks[g] \in Seq(ProvisionTaskRow)
      BY <1>1
    <3> QED
      BY <3>1, LenProperties, SeqDef
  <2>2. provisionTasks'[g] = Append(provisionTasks[g], task)
    BY <1>1, <1>2
  <2> QED
    BY <2>1, <2>2
<1>5. grant'[g] = row /\ revokeTasks'[g] = revokeTasks[g]
  BY <1>1, <1>2
<1>6. outcome = "Applied" => session'[g].status = "Active"
  BY <1>1, <1>2 DEF BoundSession
<1>7. outcome # "Applied" => session'[g] = session[g]
  BY <1>2
<1>8. Attempted(g)
  <2>1. provisionTasks'[g] = Append(provisionTasks[g], task)
    BY <1>1, <1>2
  <2>2. session'[g].status = session[g].status \/ task.status = "Succeeded"
    BY <1>3, <1>7
  <2>3. \E t \in ProvisionTaskRow :
          /\ provisionTasks'[g] = Append(provisionTasks[g], t)
          /\ t.retry = 0 <=> ~Exists(g)
          /\ session'[g].status = session[g].status \/ t.status = "Succeeded"
    BY <1>3, <2>1, <2>2
  <2> QED
    BY <1>3, <1>4, <1>5, <1>6, <1>7, <2>3 DEF Attempted, Exists
<1>9. ASSUME NEW h \in Grants \ {g} PROVE Spared(h)
  BY <1>1, <1>2 DEF Spared, Exists
<1> QED
  BY <1>8, <1>9

LEMMA RenewalSpares ==
  ASSUME TypeInv, NEW r \in Requests, NEW k \in Keys, ApproveRenewal(r, k), NEW g \in Grants
  PROVE  Spared(g)
<1> DEFINE row == ApprovedRow(r)
<1>1. CASE ~CanCompleteRenewal(row)
  BY <1>1, OthersSpare DEF ApproveRenewal
<1>2. CASE CanCompleteRenewal(row)
  <2>1. /\ RenewalEffect(r, row) /\ UNCHANGED <<provisionTasks, revokeTasks>>
        /\ grant[row.renews].status \in Renewable
    BY <1>2 DEF ApproveRenewal, CanCompleteRenewal
  <2>2. /\ grant \in [Grants -> GrantRow] /\ session \in [Grants -> SessionRow]
    BY DEF TypeInv, TypeOK
  <2> HIDE DEF row
  <2>3. session'[g].status = session[g].status
    BY <2>1, <2>2 DEF RenewalEffect, SessionRow
  <2>4. (Exists(g)' <=> Exists(g)) /\ (~Exists(g) => grant'[g].request = grant[g].request)
    BY <2>1, <2>2 DEF RenewalEffect, GrantRow, Exists, Renewable
  <2> QED
    BY <2>1, <2>3, <2>4 DEF Spared
<1> QED
  BY <1>1, <1>2

\* A task is made for a session only while the session has a retry left.
LEMMA NextRetryAllowed ==
  ASSUME TypeInv, NEW g \in Grants, ~RetriesExhausted(g), WithinBudget(revokeTasks[g]),
         NoRevokeTask(g) \/ ~IsOpen(LatestOf(revokeTasks[g]))
  PROVE  NextRetry(g) <= MaxRetry
<1>1. MaxRetry \in Nat
  BY AccessStateAssumption
<1>2. CASE NoRevokeTask(g)
  BY <1>1, <1>2 DEF NextRetry
<1>3. CASE ~NoRevokeTask(g)
  <2>1. revokeTasks[g] \in Seq(RevokeTaskRow) /\ revokeTasks[g] # <<>>
    BY <1>3, GrantTypes DEF NoRevokeTask
  <2>2. Len(revokeTasks[g]) \in DOMAIN revokeTasks[g]
    BY <2>1, LenProperties, EmptySeq
  <2>3. LatestOf(revokeTasks[g]).retry <= MaxRetry
    BY <2>2 DEF WithinBudget, LatestOf
  <2>4. Retrying(g) => ~(LatestOf(revokeTasks[g]).retry + 1 > MaxRetry)
    BY <1>3 DEF RetriesExhausted
  <2>5. LatestOf(revokeTasks[g]) \in RevokeTaskRow
    BY <2>1, LatestInRow
  <2>6. LatestOf(revokeTasks[g]).retry \in Nat
    BY <2>5 DEF RevokeTaskRow
  <2> QED
    BY <1>1, <1>3, <2>3, <2>4, <2>6 DEF NextRetry
<1> QED
  BY <1>2, <1>3

LEMMA RequestAsks ==
  ASSUME TypeInv, NEW g \in Grants, NEW trigger \in Triggers, Revocable(g), Exists(g)',
         UNCHANGED provisionTasks, session'[g] = SessionAfterRequest(g),
         revokeTasks'[g] =
           IF RetriesExhausted(g) THEN revokeTasks[g] ELSE TasksAfterRequest(g, trigger)
  PROVE  Asked(g)
<1> DEFINE task == [status |-> IF Retrying(g) THEN "Retrying" ELSE "Pending",
                    retry |-> NextRetry(g), trigger |-> trigger]
           waits == ~NoRevokeTask(g) /\ IsOpen(LatestOf(revokeTasks[g]))
<1>1. session[g] \in SessionRow /\ Exists(g)
  BY GrantTypes, RevocableHeld DEF Held
<1>2. task \in RevokeTaskRow /\ IsOpen(task) /\ task.retry = NextRetry(g)
  BY NextRetryType DEF RevokeTaskRow, TaskStatus, IsOpen
<1>3. TasksAfterRequest(g, trigger) =
        IF waits THEN revokeTasks[g] ELSE Append(revokeTasks[g], task)
  BY DEF TasksAfterRequest
<1> HIDE DEF task
<1>4. session'[g].status \in {"Revoking", "Syncing"}
  BY <1>1 DEF SessionAfterRequest, SessionRow
<1>5. CASE RetriesExhausted(g)
  <2>1. /\ revokeTasks'[g] = revokeTasks[g] /\ ~NoRevokeTask(g)
        /\ LatestOf(revokeTasks[g]).retry + 1 > MaxRetry
    BY <1>5 DEF RetriesExhausted
  <2> QED
    BY <1>1, <1>4, <2>1 DEF Asked, Revocable
<1>6. CASE ~RetriesExhausted(g) /\ waits
  BY <1>1, <1>3, <1>4, <1>6 DEF Asked, Revocable
<1>7. CASE ~RetriesExhausted(g) /\ ~waits
  <2>1. WithinBudget(revokeTasks[g]) => task.retry <= MaxRetry
    BY <1>2, <1>7, NextRetryAllowed
  <2>2. revokeTasks'[g] = Append(revokeTasks[g], task)
    BY <1>3, <1>7
  <2> QED
    BY <1>1, <1>2, <1>4, <2>1, <2>2 DEF Asked, Revocable
<1> QED
  BY <1>5, <1>6, <1>7

LEMMA RequestRevokesShape ==
  ASSUME TypeInv, NEW S \in SUBSET Grants,
         \A g \in S : Revocable(g) /\ ~RetriesExhausted(g), RequestRevokes(S),
         UNCHANGED provisionTasks, NEW g \in Grants
  PROVE  Revokes(g)
<1>1. CASE g \in S
  <2>1. /\ session'[g] = SessionAfterRequest(g)
        /\ revokeTasks'[g] = TasksAfterRequest(g, "Requested")
        /\ grant'[g] = GrantAfterRequest(grant[g])
    BY <1>1 DEF RequestRevokes
  <2>2. Exists(g) /\ Revocable(g) /\ ~RetriesExhausted(g)
    BY <1>1, RevocableHeld DEF Held
  <2>3. Exists(g)'
    BY <2>1, <2>2, GrantTypes DEF GrantAfterRequest, Exists, GrantRow
  <2> QED
    BY <2>1, <2>2, <2>3, RequestAsks DEF Revokes, Triggers
<1>2. CASE g \notin S
  BY <1>2 DEF RequestRevokes, Revokes, Spared, Exists
<1> QED
  BY <1>1, <1>2

LEMMA ProcessPendingShape ==
  ASSUME TypeInv, NEW done, ProcessPendingRevokes(done), NEW g \in Grants
  PROVE  Revokes(g)
<1>1. /\ session[g] \in SessionRow /\ grant[g] \in GrantRow
      /\ revokeTasks[g] \in Seq(RevokeTaskRow)
  BY GrantTypes
<1>2. /\ UNCHANGED provisionTasks
      /\ revokeTasks'[g] = [i \in DOMAIN revokeTasks[g] |->
           IF i \in OpenOf(g) THEN TaskAfterRevoke(revokeTasks[g][i], Answer(done, g, i))
           ELSE revokeTasks[g][i]]
  BY DEF ProcessPendingRevokes
<1>3. CASE HasOpenRevoke(g)
  <2>1. /\ session'[g] = SessionAfterRevoke(session[g], Answer(done, g, Newest(OpenOf(g))))
        /\ grant'[g] = GrantAfterRevoke(grant[g], DecidingTrigger(done, g),
                                        Answer(done, g, Deciding(done, g)))
    BY <1>3 DEF ProcessPendingRevokes
  <2>2. ~NoRevokeTask(g)
    BY <1>3, LenProperties, EmptySeq DEF HasOpenRevoke, OpenOf, NoRevokeTask
  <2>3. Exists(g)
    BY <2>2 DEF TypeInv, Linked, Held
  <2>4. Exists(g)'
    BY <1>1, <2>1, <2>3, AnswerType, ProcessedRows DEF Exists
  <2>5. session'[g].status \in {"Revoked", "SyncFailed"}
    BY <1>1, <2>1 DEF SessionAfterRevoke, SessionRow
  <2>6. revokeTasks'[g] \in Seq(RevokeTaskRow)
    <3>1. [i \in DOMAIN revokeTasks[g] |->
             IF i \in OpenOf(g) THEN TaskAfterRevoke(revokeTasks[g][i], Answer(done, g, i))
             ELSE revokeTasks[g][i]] \in Seq(RevokeTaskRow)
      BY <1>1, ProcessedTasks
    <3> QED
      BY <1>2, <3>1
  <2>7. DOMAIN revokeTasks'[g] = DOMAIN revokeTasks[g]
    BY <1>2
  <2>8. Len(revokeTasks'[g]) >= Len(revokeTasks[g])
    BY <1>1, <2>6, <2>7, LenProperties
  <2>9. ASSUME NEW i \in DOMAIN revokeTasks'[g], IsOpen(revokeTasks'[g][i])
        PROVE  /\ i \in DOMAIN revokeTasks[g]
               /\ revokeTasks'[g][i].status = revokeTasks[g][i].status
    <3>1. revokeTasks[g][i] \in RevokeTaskRow
      BY <1>1, <2>7, ElementOfSeq, LenProperties
    <3>2. IsOpen(revokeTasks[g][i]) => ~IsOpen(revokeTasks'[g][i])
      BY <1>2, <2>7, <3>1, AnswerType DEF OpenOf, IsOpen, TaskAfterRevoke, RevokeTaskRow, RevokeOutcomes
    <3> QED
      BY <1>2, <2>7, <2>9, <3>2 DEF OpenOf
  <2>10. ASSUME NEW i \in DOMAIN revokeTasks[g]
         PROVE  /\ ~IsOpen(revokeTasks[g][i]) => revokeTasks'[g][i] = revokeTasks[g][i]
                /\ revokeTasks'[g][i].retry = revokeTasks[g][i].retry
    <3>1. revokeTasks[g][i] \in RevokeTaskRow
      BY <1>1, ElementOfSeq, LenProperties
    <3> QED
      BY <1>2, <3>1 DEF OpenOf, TaskAfterRevoke, RevokeTaskRow
  <2>11. WithinBudget(revokeTasks[g]) => WithinBudget(revokeTasks'[g])
    BY <2>7, <2>10 DEF WithinBudget
  <2> QED
    BY <1>2, <1>3, <2>2, <2>3, <2>4, <2>5, <2>8, <2>9, <2>10, <2>11 DEF Revokes, Settled
<1>4. CASE ~HasOpenRevoke(g)
  <2>1. session'[g] = session[g] /\ grant'[g] = grant[g]
    BY <1>4 DEF ProcessPendingRevokes
  <2>2. revokeTasks'[g] = [i \in DOMAIN revokeTasks[g] |-> revokeTasks[g][i]]
    BY <1>2, <1>4 DEF HasOpenRevoke, OpenOf
  <2>3. revokeTasks'[g] = revokeTasks[g]
    BY <1>1, <2>2, LenProperties
  <2> QED
    BY <1>2, <2>1, <2>3 DEF Revokes, Spared, Exists
<1> QED
  BY <1>3, <1>4

LEMMA RetryRevokeShape ==
  ASSUME TypeInv, NEW g \in Grants, NEW outcome \in RevokeOutcomes,
         RetryRevoke(g, outcome), NEW h \in Grants
  PROVE  Revokes(h)
<1>1. /\ session \in [Grants -> SessionRow] /\ grant \in [Grants -> GrantRow]
      /\ revokeTasks \in [Grants -> Seq(RevokeTaskRow)]
  BY DEF TypeInv, TypeOK
<1>2. CASE h # g
  BY <1>1, <1>2 DEF RetryRevoke, Revokes, Spared, Exists
<1>3. CASE h = g
  <2> DEFINE task == [status |-> outcome, retry |-> NextRetry(g), trigger |-> "Requested"]
             asked == GrantAfterRequest(grant[g])
  <2>1. task \in RevokeTaskRow /\ ~IsOpen(task)
    BY NextRetryType DEF RevokeTaskRow, TaskStatus, RevokeOutcomes, Triggers, IsOpen
  <2>2. /\ session'[g] = SessionAfterRevoke(SessionAfterRequest(g), outcome)
        /\ grant'[g] = GrantAfterRevoke(asked, "Requested", outcome)
        /\ revokeTasks'[g] = Append(revokeTasks[g], task)
        /\ UNCHANGED provisionTasks /\ session[g].status = "SyncFailed"
        /\ ~NoRevokeTask(g)
    BY <1>1 DEF RetryRevoke, CanRetryRevoke
  <2>3. session'[g].status \in {"Revoked", "SyncFailed"}
    BY <1>1, <2>2 DEF SessionAfterRevoke, SessionAfterRequest, SessionRow
  <2>4. Exists(g)
    BY <2>2 DEF TypeInv, Linked, Held
  <2>5. asked \in GrantRow /\ asked.status # "NotCreated"
    BY <1>1, <2>4, RequestedRows DEF Triggers, GrantAfterRequest, GrantRow, Exists
  <2> HIDE DEF task, asked
  <2>6. Exists(g)'
    BY <2>2, <2>5, ProcessedRows DEF Exists
  <2>7. /\ Len(revokeTasks'[g]) = Len(revokeTasks[g]) + 1 /\ Len(revokeTasks[g]) \in Nat
        /\ DOMAIN revokeTasks'[g] = 1 .. Len(revokeTasks[g]) + 1
        /\ DOMAIN revokeTasks[g] = 1 .. Len(revokeTasks[g])
        /\ revokeTasks'[g][Len(revokeTasks[g]) + 1] = task
        /\ \A i \in 1 .. Len(revokeTasks[g]) : revokeTasks'[g][i] = revokeTasks[g][i]
    <3> DEFINE old == revokeTasks[g]
    <3>1. old \in Seq(RevokeTaskRow)
      BY <1>1
    <3> HIDE DEF old
    <3>2. /\ Len(Append(old, task)) = Len(old) + 1 /\ Len(old) \in Nat
          /\ DOMAIN Append(old, task) = 1 .. Len(old) + 1 /\ DOMAIN old = 1 .. Len(old)
          /\ Append(old, task)[Len(old) + 1] = task
          /\ \A i \in 1 .. Len(old) : Append(old, task)[i] = old[i]
      BY <2>1, <3>1
    <3> QED
      BY <2>2, <3>2 DEF old
  <2>8. ASSUME NEW i \in DOMAIN revokeTasks'[g], IsOpen(revokeTasks'[g][i])
        PROVE  /\ i \in DOMAIN revokeTasks[g]
               /\ revokeTasks'[g][i].status = revokeTasks[g][i].status
    BY <2>1, <2>7, <2>8
  <2>9. \A i \in DOMAIN revokeTasks[g] : revokeTasks'[g][i] = revokeTasks[g][i]
    BY <2>7
  <2>10. task.retry <= MaxRetry
    <3>1. LatestOf(revokeTasks[g]).retry \in Nat
      BY <1>1, <2>2, LatestInRow DEF NoRevokeTask, RevokeTaskRow
    <3>2. NextRetry(g) = LatestOf(revokeTasks[g]).retry + 1
      BY <2>2 DEF NextRetry, Retrying
    <3>3. LatestOf(revokeTasks[g]).retry < MaxRetry
      BY DEF RetryRevoke, CanRetryRevoke
    <3> QED
      BY <3>1, <3>2, <3>3, AccessStateAssumption DEF task
  <2>11. WithinBudget(revokeTasks[g]) => WithinBudget(revokeTasks'[g])
    BY <2>7, <2>9, <2>10 DEF WithinBudget
  <2>12. Settled(g)
    BY <2>2, <2>3, <2>4, <2>6, <2>7, <2>8, <2>9, <2>11 DEF Settled
  <2> QED
    BY <1>3, <2>12 DEF Revokes
<1> QED
  BY <1>2, <1>3

LEMMA ReconcileShape ==
  ASSUME TypeInv, ReconcileGrantLifecycle, NEW g \in Grants
  PROVE  Revokes(g)
<1>1. session[g] \in SessionRow /\ grant[g] \in GrantRow /\ UNCHANGED provisionTasks
  BY GrantTypes DEF ReconcileGrantLifecycle
<1>2. /\ Exists(g)' <=> Exists(g)
      /\ ~Exists(g) => grant'[g].request = grant[g].request
  <2>1. CASE g \in Due \cup Nearing
    <3>1. Exists(g)
      BY <2>1 DEF Due, Nearing, Renewable, Exists
    <3>2. \/ grant'[g] = [grant[g] EXCEPT !.status = "Expired"]
          \/ grant'[g] = ExpiringRow(grant[g])
      BY <2>1 DEF ReconcileGrantLifecycle
    <3> QED
      BY <1>1, <3>1, <3>2 DEF ExpiringRow, Exists, GrantRow
  <2>2. CASE g \notin Due \cup Nearing
    BY <2>2 DEF ReconcileGrantLifecycle, Exists
  <2> QED
    BY <2>1, <2>2
<1>3. CASE g \in Reclaimed
  <2>1. Revocable(g) /\ Exists(g)
    BY <1>3, RevocableHeld DEF Reclaimed, Held
  <2>2. /\ session'[g] = SessionAfterRequest(g)
        /\ revokeTasks'[g] =
             IF RetriesExhausted(g) THEN revokeTasks[g] ELSE TasksAfterRequest(g, "GrantExpired")
    BY <1>3 DEF ReconcileGrantLifecycle
  <2> QED
    BY <1>1, <1>2, <2>1, <2>2, RequestAsks DEF Revokes, Triggers
<1>4. CASE g \notin Reclaimed
  BY <1>1, <1>2, <1>4 DEF ReconcileGrantLifecycle, Revokes, Spared
<1> QED
  BY <1>3, <1>4

LEMMA RevokeStepShape ==
  ASSUME TypeInv, RevokeStep, NEW g \in Grants
  PROVE  Revokes(g)
<1>1. ASSUME NEW h \in Grants, RevokeSession(h) PROVE Revokes(g)
  <2>1. \A x \in {h} : Revocable(x) /\ ~RetriesExhausted(x)
    BY <1>1 DEF RevokeSession
  <2> QED
    BY <1>1, <2>1, RequestRevokesShape DEF RevokeSession
<1>2. ASSUME NEW a \in Agents, DisableAgent(a) PROVE Revokes(g)
  <2>1. /\ SessionsOf(a) \in SUBSET Grants
        /\ \A x \in SessionsOf(a) : Revocable(x) /\ ~RetriesExhausted(x)
    BY <1>2 DEF SessionsOf, DisableAgent
  <2> QED
    BY <1>2, <2>1, RequestRevokesShape DEF DisableAgent
<1>3. ASSUME NEW h \in Grants, NEW outcome \in RevokeOutcomes, RetryRevoke(h, outcome)
      PROVE  Revokes(g)
  BY <1>3, RetryRevokeShape
<1> QED
  BY <1>1, <1>2, <1>3 DEF RevokeStep

LEMMA ProvisionGrantShape ==
  ASSUME TypeOK, NEW r \in Requests, NEW g \in Grants, NEW outcome \in ProvisionOutcomes,
         ProvisionGrant(r, g, outcome)
  PROVE  Attempted(g) /\ \A h \in Grants \ {g} : Spared(h)
BY ProvisionAttempts DEF ProvisionGrant, CanProvision, Exists

LEMMA RetryProvisionShape ==
  ASSUME TypeOK, NEW r \in Requests, NEW g \in Grants, NEW outcome \in ProvisionOutcomes,
         RetryProvision(r, g, outcome)
  PROVE  Attempted(g) /\ \A h \in Grants \ {g} : Spared(h)
<1> DEFINE latest == LatestOf(provisionTasks[g])
<1>1. /\ ProvisionEffect(r, g, grant[g].expire, latest.retry + 1, outcome)
      /\ UNCHANGED revokeTasks /\ Exists(g)
      /\ provisionTasks[g] # <<>> /\ latest.status = "Failed"
  BY DEF RetryProvision, CanRetryProvision, Exists
<1>2. latest.retry \in Nat
  BY <1>1, LatestInRow DEF TypeOK, ProvisionTaskRow
<1> HIDE DEF latest
<1>3. latest.retry + 1 \in Nat /\ latest.retry + 1 # 0
  BY <1>2
<1> QED
  BY <1>1, <1>3, ProvisionAttempts DEF latest

LEMMA ApproveShape ==
  ASSUME TypeOK, NEW r \in Requests, NEW k \in Keys, NEW outcome \in ProvisionOutcomes,
         ApproveRequest(r, k, outcome), NEW g \in Grants
  PROVE  \/ Spared(g)
         \/ /\ Attempted(g) /\ g = DefaultGrant[r]
            /\ ~IsRenewal(r) /\ CanProvision(r, g, ApprovedRow(r))
<1> DEFINE d == DefaultGrant[r]
           row == ApprovedRow(r)
<1>1. d \in Grants /\ ~IsRenewal(r) /\ UNCHANGED revokeTasks
  BY AccessStateAssumption DEF ApproveRequest
<1>2. CASE CanProvision(r, d, row)
  <2>1. ProvisionEffect(r, d, now + row.duration, 0, outcome) /\ ~Exists(d)
    BY <1>2 DEF ApproveRequest, CanProvision, Exists
  <2> QED
    BY <1>1, <1>2, <2>1, ProvisionAttempts
<1>3. CASE ~CanProvision(r, d, row)
  BY <1>1, <1>3, OthersSpare DEF ApproveRequest
<1> QED
  BY <1>2, <1>3

\* Every step does one of four things to a grant.
LEMMA RowStep ==
  ASSUME TypeInv, [Next]_vars, NEW g \in Grants
  PROVE  Revokes(g) \/ Attempted(g)
<1> USE DEF Revokes
<1>1. CASE \E r \in Requests : CreateRequest(r)
  BY <1>1, OthersSpare DEF CreateRequest
<1>2. CASE EvaluationStep
  BY <1>2, OthersSpare DEF EvaluationStep, EvaluateRequest, FailEvaluation
<1>3. CASE CallbackStep
  <2> PICK r \in Requests, k \in Keys :
         \/ \E outcome \in ProvisionOutcomes : ApproveRequest(r, k, outcome)
         \/ ApproveRenewal(r, k)
         \/ \E status \in Denials : DenyRequest(r, k, status)
         \/ FailCallback(r, k)
         \/ RefuseCallback(r, k)
    BY <1>3 DEF CallbackStep
  <2>1. CASE \E outcome \in ProvisionOutcomes : ApproveRequest(r, k, outcome)
    BY <2>1, ApproveShape DEF TypeInv
  <2>2. CASE ApproveRenewal(r, k)
    BY <2>2, RenewalSpares
  <2>3. CASE \E status \in Denials : DenyRequest(r, k, status)
    BY <2>3, OthersSpare DEF DenyRequest
  <2>4. CASE FailCallback(r, k) \/ RefuseCallback(r, k)
    BY <2>4, OthersSpare DEF FailCallback, RefuseCallback
  <2> QED
    BY <2>1, <2>2, <2>3, <2>4
<1>4. CASE ProvisionStep
  BY <1>4, ProvisionGrantShape, RetryProvisionShape DEF ProvisionStep, TypeInv
<1>5. CASE RenewStep
  BY <1>5, OthersSpare DEF RenewStep, RenewGrant
<1>6. CASE RevokeStep
  BY <1>6, RevokeStepShape DEF Revokes
<1>7. CASE ProcessPendingStep
  BY <1>7, ProcessPendingShape DEF ProcessPendingStep
<1>8. CASE ReconcileGrantLifecycle
  BY <1>8, ReconcileShape
<1>9. CASE Tick \/ UNCHANGED vars
  BY <1>9, OthersSpare DEF Tick, vars
<1> QED
  BY <1>1, <1>2, <1>3, <1>4, <1>5, <1>6, <1>7, <1>8, <1>9 DEF Next

LEMMA RowInvNext == RowInv /\ [Next]_vars => RowInv'
<1> SUFFICES ASSUME RowInv, [Next]_vars PROVE RowInv'
  OBVIOUS
<1>1. TypeInv /\ TypeInv'
  BY TypeInvNext DEF RowInv
<1>2. ASSUME NEW g \in Grants PROVE GrantOK(g)'
  <2>1. GrantOK(g) /\ (Revokes(g) \/ Attempted(g))
    BY <1>1, RowStep DEF RowInv
  <2>2. (Exists(g) \/ ~NoRevokeTask(g) => Held(g))'
    BY <1>1 DEF TypeInv, Linked
  <2>3. Unused(g)' /\ Unattempted(g)'
    BY <2>1 DEF GrantOK, Unused, Unattempted, Revokes, Spared, Attempted, Asked, Settled
  <2> QED
    BY <2>2, <2>3 DEF GrantOK
<1> QED
  BY <1>1, <1>2 DEF RowInv

LEMMA RowInvInit == Init => RowInv
<1> SUFFICES ASSUME Init PROVE RowInv
  OBVIOUS
<1>1. TypeInv
  BY TypeInvInit
<1>2. \A g \in Grants : GrantOK(g)
  BY DEF Init, GrantOK, Exists, NoRevokeTask, Unused, Unattempted, AbsentGrant
<1> QED
  BY <1>1, <1>2 DEF RowInv

\* Only the reconciliation writes reminders, and it adds them.
LEMMA RemindersStay ==
  ASSUME TypeOK, [Next]_vars, NEW g \in Grants
  PROVE  Len(reminders[g]) <= Len(reminders'[g])
<1>1. reminders[g] \in Seq(ReminderRow) /\ Len(reminders[g]) \in Nat
  BY DEF TypeOK
<1>2. CASE UNCHANGED reminders
  BY <1>1, <1>2
<1>3. CASE ReconcileGrantLifecycle
  <2>1. \/ reminders'[g] = reminders[g]
        \/ reminders'[g] = Append(reminders[g], Reminder(g))
    BY <1>3 DEF ReconcileGrantLifecycle
  <2>2. ASSUME NEW S, NEW seq \in Seq(S), NEW e PROVE Len(Append(seq, e)) = Len(seq) + 1
    <3>1. seq \in Seq(S \cup {e})
      BY LenProperties, SeqDef
    <3> QED
      BY <3>1
  <2> QED
    BY <1>1, <2>1, <2>2
<1>4. [Next]_vars => ReconcileGrantLifecycle \/ UNCHANGED reminders
  BY DEF Next, vars, CreateRequest, EvaluationStep, EvaluateRequest, FailEvaluation,
     CallbackStep, ApproveRequest, ApproveRenewal, DenyRequest, FailCallback, RefuseCallback,
     ProvisionStep, ProvisionGrant, RetryProvision, RenewStep, RenewGrant, RevokeStep,
     RevokeSession, DisableAgent, RetryRevoke, ProcessPendingStep, ProcessPendingRevokes, Tick
<1> QED
  BY <1>2, <1>3, <1>4

\* A forced retry asks nothing of the sessions to leave the grants in order.
LEMMA RetryProvisionGrants ==
  ASSUME TypeOK, \A g \in Grants : GrantOK(g), NEW r \in Requests, NEW g \in Grants,
         NEW outcome \in ProvisionOutcomes, RetryProvision(r, g, outcome)
  PROVE  \A h \in Grants : GrantOK(h)'
<1>1. grant[g].expire \in Nat /\ LatestOf(provisionTasks[g]).retry + 1 \in Nat
  BY RetryProvisionRows
<1>2. /\ grant'[g].status # "NotCreated" /\ grant'[g].request = r
      /\ \A h \in Grants \ {g} : grant'[h] = grant[h]
  BY <1>1, ProvisionEffectRows DEF RetryProvision
<1>3. /\ UNCHANGED revokeTasks
      /\ \A h \in Grants \ {g} : provisionTasks'[h] = provisionTasks[h]
  BY RetryProvisionShape DEF Spared, RetryProvision
<1> QED
  BY <1>2, <1>3 DEF GrantOK, Held, Exists, NoRevokeTask, Unused, Unattempted

\* A session being revoked has its latest task open, and a session with an
\* open task is being revoked.
LEMMA TrackedTask ==
  ASSUME TypeInv, NEW g \in Grants, Tracked(g)
  PROVE  /\ session[g].status \in {"Revoking", "Syncing"} =>
              /\ Len(revokeTasks[g]) \in DOMAIN revokeTasks[g]
              /\ IsOpen(revokeTasks[g][Len(revokeTasks[g])])
         /\ HasOpenRevoke(g) => session[g].status \in {"Revoking", "Syncing"}
<1> DEFINE tasks == revokeTasks[g]
<1>1. tasks \in Seq(RevokeTaskRow)
  BY GrantTypes
<1>2. ASSUME session[g].status \in {"Revoking", "Syncing"}
      PROVE  Len(tasks) \in DOMAIN tasks /\ IsOpen(tasks[Len(tasks)])
  <2>1. tasks # <<>> /\ session[g].status = SessionBy(LatestOf(tasks).status)
    BY <1>2 DEF Tracked, NoRevokeTask
  <2>2. LatestOf(tasks).status \in {"Pending", "Retrying"}
    BY <1>2, <2>1 DEF SessionBy
  <2> QED
    BY <1>1, <2>1, <2>2, LenProperties, EmptySeq DEF IsOpen, LatestOf
<1>3. ASSUME NEW i \in DOMAIN tasks, IsOpen(tasks[i])
      PROVE  session[g].status \in {"Revoking", "Syncing"}
  <2>1. i = Len(tasks) /\ tasks # <<>>
    BY <1>3 DEF Tracked
  <2>2. session[g].status = SessionBy(tasks[i].status)
    BY <2>1 DEF Tracked, NoRevokeTask, LatestOf
  <2> QED
    BY <1>3, <2>2 DEF IsOpen, SessionBy
<1> QED
  BY <1>2, <1>3 DEF HasOpenRevoke, OpenOf

-----------------------------------------------------------------------------
(***************************************************************************)
(* Renewals and the grants they renew, again from nothing but the types of *)
(* the rows: what one step does to the columns that decide whether the     *)
(* answer to a renewal extends a grant.                                    *)
(***************************************************************************)
\* A grant nobody has had access by.
Unheld == {"NotCreated", "ProvisionFailed"}

Unanswered == {"Pending", "CallbackFailed"}

\* What the reconciliation or a revocation leaves of a request, for good.
Gone == {"Expiring", "Expired", "Revoked"}

Renewing(r) == request[r].status = "PendingApproval" /\ request[r].source # NoRequest

SameSource(r) == request'[r].source = request[r].source /\ request'[r].renews = request[r].renews

\* A request keeps its renewal context, or is evaluated and drops it, or is
\* the new renewal of a grant in force.
RequestLeft(r) ==
  /\ SameSource(r)
  /\ \/ request'[r].status = request[r].status
     \/ request'[r].status \notin {"Absent", "PendingApproval"}

RequestEvaluated(r) ==
  /\ request[r].status \in {"Submitted", "Failed"} /\ request'[r].status = "PendingApproval"
  /\ request'[r].source = NoRequest /\ request'[r].renews = NoGrant

RequestRenewed(r) ==
  /\ request[r].status = "Absent" /\ request'[r].status = "PendingApproval"
  /\ \E g \in Grants :
       /\ grant[g].status \in Renewable
       /\ request'[r].source = grant[g].request /\ request'[r].renews = g

RequestTurn(r) ==
  /\ RequestLeft(r) \/ RequestEvaluated(r) \/ RequestRenewed(r)
  /\ request[r].status \in Gone => request'[r].status \in Gone
  /\ request[r].status = "PendingApproval" =>
       \/ request'[r].status \in Gone \cup {"PendingApproval"}
       \/ approval'[r].status \notin Unanswered

\* A grant keeps its holder and its time, is created for a request, or is
\* extended by the renewal whose answer this is.
GrantLeft(g) ==
  /\ grant'[g].request = grant[g].request /\ grant'[g].expire = grant[g].expire
  /\ grant'[g].status \in Unheld => grant'[g].status = grant[g].status
  /\ grant'[g].status \in Renewable => grant[g].status \in Renewable \cup Unheld

GrantCreated(g) ==
  LET r == grant'[g].request IN
  /\ ~Exists(g) /\ Exists(g)' /\ r \in Requests
  /\ SameSource(r) /\ request'[r].status \notin {"Absent", "PendingApproval"}

GrantExtended(g) ==
  LET r == grant'[g].request IN
  /\ r \in Requests /\ Renewing(r) /\ SameSource(r)
  /\ request[r].renews = g /\ request[r].source = grant[g].request
  /\ grant[g].status \in Renewable /\ grant'[g].status = "Active"
  /\ request'[r].status = "Active"
  /\ approval[r].status \in Unanswered /\ approval'[r].status = "Approved"

GrantTurn(g) == GrantLeft(g) \/ GrantCreated(g) \/ GrantExtended(g)

\* The renewal could extend its grant: the holder it names still has it.
Extends(r) ==
  /\ grant[request[r].renews].request = request[r].source
  /\ grant[request[r].renews].status \in Renewable

\* An answer is given once, and an approval that arrives does not leave the
\* renewal able to extend its grant.
ApprovalTurn(r) ==
  \/ approval'[r].status = approval[r].status
  \/ /\ approval[r].status = "Absent" \/ request[r].status = "Absent"
     /\ approval'[r].status = "Pending"
  \/ approval[r].status \in Unanswered /\ approval'[r].status = "CallbackFailed"
  \/ /\ approval[r].status \in Unanswered
     /\ approval'[r].status \in Denials \cup {"Approved"}
     /\ \/ approval'[r].status # "Approved" \/ request[r].source \in {NoRequest, r}
        \/ request[r].renews \notin Grants
        \/ SameSource(r) /\ ~Extends(r)'

Turns ==
  /\ \A r \in Requests : RequestTurn(r) /\ ApprovalTurn(r)
  /\ \A g \in Grants : GrantTurn(g)

LEMMA RowFields ==
  ASSUME TypeOK
  PROVE  /\ request \in [Requests -> RequestRow] /\ approval \in [Requests -> ApprovalRow]
         /\ grant \in [Grants -> GrantRow]
BY DEF TypeOK

\* The steps that answer nothing and give nothing.
Passes ==
  /\ UNCHANGED approval
  /\ \A r \in Requests : SameSource(r) /\ request'[r].status \in Gone \cup {request[r].status}
  /\ \A g \in Grants : GrantLeft(g)

LEMMA PassesTurns == Passes => Turns
BY Zenon DEF Passes, Turns, RequestLeft, RequestTurn, ApprovalTurn, GrantTurn, Gone

\* The steps that write one request and its approval.
LEMMA RequestTurns ==
  ASSUME NEW r \in Requests, RequestTurn(r), ApprovalTurn(r), UNCHANGED grant,
         \A q \in Requests \ {r} : request'[q] = request[q] /\ approval'[q] = approval[q]
  PROVE  Turns
<1>1. \A g \in Grants : GrantTurn(g)
  BY Zenon DEF GrantTurn, GrantLeft, Renewable
<1>2. \A q \in Requests \ {r} : RequestTurn(q) /\ ApprovalTurn(q)
  BY Zenon DEF RequestLeft, RequestTurn, ApprovalTurn, SameSource, Gone
<1> QED
  BY <1>1, <1>2 DEF Turns

LEMMA RequestLeaves ==
  ASSUME NEW r \in Requests, RequestLeft(r),
         \A q \in Requests \ {r} : request'[q] = request[q]
  PROVE  \A q \in Requests : RequestLeft(q)
BY Zenon DEF RequestLeft, SameSource

LEMMA CreateTurns ==
  ASSUME TypeOK, NEW r \in Requests, CreateRequest(r)
  PROVE  Turns
<1>1. /\ request' = [request EXCEPT ![r] = [request[r] EXCEPT !.status = "Submitted"]]
      /\ UNCHANGED <<approval, grant>> /\ request[r].status = "Absent"
  BY RowFields DEF CreateRequest
<1>2. /\ request'[r].status = "Submitted" /\ SameSource(r)
      /\ \A q \in Requests \ {r} : request'[q] = request[q]
  BY <1>1, RowFields DEF RequestRow, SameSource
<1>3. RequestTurn(r) /\ ApprovalTurn(r)
  BY <1>1, <1>2 DEF RequestLeft, RequestEvaluated, RequestRenewed, RequestTurn, ApprovalTurn, Gone
<1> QED
  BY <1>1, <1>2, <1>3, RequestTurns

LEMMA EvaluateTurns ==
  ASSUME TypeOK, NEW r \in Requests, NEW force, NEW required \in BOOLEAN, NEW deliverable,
         NEW duration, EvaluateRequest(r, force, required, deliverable, duration)
  PROVE  Turns
<1>1. /\ request[r].status \in {"Submitted", "Failed"} /\ UNCHANGED grant
      /\ request' = [request EXCEPT
           ![r] = EvaluatedRequest(request[r], required, deliverable, duration)]
  BY RowFields DEF EvaluateRequest, CanStartEvaluation
<1>2. /\ request'[r].status = "PendingApproval"
      /\ request'[r].source = NoRequest /\ request'[r].renews = NoGrant
      /\ \A q \in Requests \ {r} : request'[q] = request[q]
  BY <1>1, RowFields DEF EvaluatedRequest, RequestRow
<1>3. /\ \A q \in Requests \ {r} : approval'[q] = approval[q]
      /\ \/ approval'[r] = approval[r]
         \/ approval[r].status = "Absent" /\ approval'[r].status = "Pending"
  BY RowFields DEF EvaluateRequest, SubmitApproval
<1>4. RequestTurn(r) /\ ApprovalTurn(r)
  BY <1>1, <1>2, <1>3
  DEF RequestLeft, RequestEvaluated, RequestRenewed, RequestTurn, ApprovalTurn, Gone
<1> QED
  BY <1>1, <1>2, <1>3, <1>4, RequestTurns

LEMMA FailEvaluationTurns ==
  ASSUME TypeOK, NEW r \in Requests, NEW force, FailEvaluation(r, force)
  PROVE  Turns
<1>1. /\ request[r].status \in {"Submitted", "Failed"} /\ UNCHANGED <<approval, grant>>
      /\ request' = [request EXCEPT
           ![r] = [request[r] EXCEPT !.status = "Failed", !.approval = "NotRequired"]]
  BY RowFields DEF FailEvaluation, CanStartEvaluation
<1>2. /\ request'[r].status = "Failed" /\ SameSource(r)
      /\ \A q \in Requests \ {r} : request'[q] = request[q]
  BY <1>1, RowFields DEF RequestRow, SameSource
<1>3. RequestTurn(r) /\ ApprovalTurn(r)
  BY <1>1, <1>2 DEF RequestLeft, RequestEvaluated, RequestRenewed, RequestTurn, ApprovalTurn, Gone
<1> QED
  BY <1>1, <1>2, <1>3, RequestTurns

LEMMA RenewTurns ==
  ASSUME TypeOK, NEW r \in Requests, NEW g \in Grants, NEW duration, RenewGrant(r, g, duration)
  PROVE  Turns
<1>1. /\ request[r].status = "Absent" /\ grant[g].status \in Renewable /\ UNCHANGED grant
      /\ request' = [request EXCEPT ![r] = RenewalRequest(g, duration)]
      /\ approval' = [approval EXCEPT ![r] = [status |-> "Pending", key |-> NoKey]]
  BY DEF RenewGrant
<1>2. /\ request'[r].source = grant[g].request /\ request'[r].renews = g
      /\ approval'[r].status = "Pending"
      /\ \A q \in Requests \ {r} : request'[q] = request[q] /\ approval'[q] = approval[q]
  BY <1>1, RowFields DEF RenewalRequest
<1>3. request'[r].status = "PendingApproval"
  BY <1>1, RowFields DEF RenewalRequest
<1>4. RequestRenewed(r)
  BY <1>1, <1>2, <1>3 DEF RequestRenewed
<1>5. RequestTurn(r) /\ ApprovalTurn(r)
  BY <1>1, <1>2, <1>4 DEF RequestTurn, ApprovalTurn, Gone
<1> QED
  BY <1>1, <1>2, <1>5, RequestTurns

-----------------------------------------------------------------------------
\* A provisioning: the first one creates the grant, a retry leaves it to its
\* holder until the same time.
LEMMA ProvisionTurns ==
  ASSUME TypeOK, NEW r \in Requests, NEW g \in Grants, NEW expire \in Nat, NEW retry,
         NEW outcome \in ProvisionOutcomes, ProvisionEffect(r, g, expire, retry, outcome),
         NEW row \in RequestRow,
         row.source = request[r].source, row.renews = request[r].renews,
         request' = [request EXCEPT ![r] = RequestAfterProvision(row, outcome)],
         \/ request[r].status \in {"Approved", "Failed"}
         \/ approval'[r].status \notin Unanswered,
         ApprovalTurn(r), \A q \in Requests \ {r} : approval'[q] = approval[q],
         request[r].status \notin Gone,
         \/ grant[g].status = "NotCreated"
         \/ /\ grant[g].status = "ProvisionFailed"
            /\ grant[g].request = r /\ grant[g].expire = expire
  PROVE  Turns /\ \A q \in Requests : RequestLeft(q)
<1>1. /\ request'[r].status \in {"Provisioning", "Active", "Failed"} /\ SameSource(r)
      /\ \A q \in Requests \ {r} : request'[q] = request[q]
  <2>1. RequestStatusAfter(outcome) \in {"Provisioning", "Active", "Failed"}
    BY DEF RequestStatusAfter
  <2> QED
    BY <2>1, RowFields DEF RequestAfterProvision, RequestRow, SameSource
<1>2. /\ grant'[g].status \in {"Provisioning", "Active", "ProvisionFailed"}
      /\ grant'[g].request = r /\ grant'[g].expire = expire
      /\ \A h \in Grants \ {g} : grant'[h] = grant[h]
  <2>1. GrantStatusAfter(outcome) \in {"Provisioning", "Active", "ProvisionFailed"}
    BY DEF GrantStatusAfter
  <2> QED
    BY <2>1, RowFields DEF ProvisionEffect
<1>3. RequestLeft(r)
  BY <1>1 DEF RequestLeft
<1>7. RequestTurn(r)
  BY <1>1, <1>3 DEF RequestTurn
<1>4. \A q \in Requests \ {r} : RequestLeft(q) /\ RequestTurn(q) /\ ApprovalTurn(q)
  BY <1>1, Zenon DEF RequestLeft, RequestTurn, ApprovalTurn, SameSource, Gone
<1>5. GrantTurn(g)
  <2>1. CASE grant[g].status = "NotCreated"
    BY <1>1, <1>2, <2>1 DEF GrantTurn, GrantCreated, Exists
  <2>2. CASE grant[g].status # "NotCreated"
    BY <1>2, <2>2 DEF GrantTurn, GrantLeft, Unheld, Renewable
  <2> QED
    BY <2>1, <2>2
<1>6. \A h \in Grants \ {g} : GrantTurn(h)
  BY <1>2, Zenon DEF GrantTurn, GrantLeft
<1> QED
  BY <1>3, <1>4, <1>5, <1>6, <1>7 DEF Turns

LEMMA ProvisionGrantTurns ==
  ASSUME TypeOK, NEW r \in Requests, NEW g \in Grants, NEW outcome \in ProvisionOutcomes,
         ProvisionGrant(r, g, outcome)
  PROVE  Turns
<1>1. /\ ProvisionEffect(r, g, now + request[r].duration, 0, outcome)
      /\ request' = [request EXCEPT ![r] = RequestAfterProvision(request[r], outcome)]
      /\ request[r].status = "Approved" /\ grant[g].status = "NotCreated"
      /\ UNCHANGED approval
  BY RowFields DEF ProvisionGrant, CanProvision
<1>2. now + request[r].duration \in Nat /\ request[r] \in RequestRow
  BY DEF TypeOK, RequestRow
<1>3. ApprovalTurn(r) /\ \A q \in Requests \ {r} : approval'[q] = approval[q]
  BY <1>1 DEF ApprovalTurn
<1> QED
  BY <1>1, <1>2, <1>3, ProvisionTurns DEF Gone

LEMMA RetryProvisionTurns ==
  ASSUME TypeOK, NEW r \in Requests, NEW g \in Grants, NEW outcome \in ProvisionOutcomes,
         RetryProvision(r, g, outcome)
  PROVE  Turns
<1>1. /\ ProvisionEffect(r, g, grant[g].expire, LatestOf(provisionTasks[g]).retry + 1, outcome)
      /\ request' = [request EXCEPT ![r] = RequestAfterProvision(request[r], outcome)]
      /\ request[r].status = "Failed"
      /\ grant[g].status = "ProvisionFailed" /\ grant[g].request = r
      /\ UNCHANGED approval
  BY RowFields DEF RetryProvision, CanRetryProvision
<1>2. grant[g].expire \in Nat /\ request[r] \in RequestRow
  BY DEF TypeOK, RequestRow, GrantRow
<1>3. ApprovalTurn(r) /\ \A q \in Requests \ {r} : approval'[q] = approval[q]
  BY <1>1 DEF ApprovalTurn
<1> QED
  BY <1>1, <1>2, <1>3, ProvisionTurns DEF Gone


\* The answers.
LEMMA DenyTurns ==
  ASSUME TypeOK, NEW r \in Requests, NEW k \in Keys, NEW status \in Denials,
         DenyRequest(r, k, status)
  PROVE  Turns /\ \A q \in Requests : RequestLeft(q)
<1>1. /\ request[r].status = "PendingApproval" /\ approval[r].status \in Unanswered
      /\ UNCHANGED grant
      /\ request' = [request EXCEPT
           ![r] = [request[r] EXCEPT !.approval = status, !.status = "Failed"]]
      /\ approval' = [approval EXCEPT ![r] = [status |-> status, key |-> k]]
  BY RowFields DEF DenyRequest, Awaited, Processable, RecordCallback, Unanswered
<1>2. /\ request'[r].status = "Failed" /\ SameSource(r) /\ approval'[r].status = status
      /\ \A q \in Requests \ {r} : request'[q] = request[q] /\ approval'[q] = approval[q]
  BY <1>1, RowFields DEF RequestRow, SameSource
<1>3. ApprovalTurn(r)
  BY <1>1, <1>2 DEF ApprovalTurn, Denials
<1>4. RequestLeft(r) /\ RequestTurn(r)
  BY <1>1, <1>2 DEF RequestLeft, RequestTurn, Gone, Denials, Unanswered
<1> QED
  BY <1>1, <1>2, <1>3, <1>4, RequestTurns, RequestLeaves

LEMMA FailCallbackTurns ==
  ASSUME TypeOK, NEW r \in Requests, NEW k \in Keys, FailCallback(r, k)
  PROVE  Turns /\ \A q \in Requests : RequestLeft(q)
<1>1. /\ approval[r].status \in Unanswered /\ UNCHANGED grant
      /\ request' = [request EXCEPT ![r] = [request[r] EXCEPT !.approval = "CallbackFailed"]]
      /\ approval' = [approval EXCEPT ![r] = [status |-> "CallbackFailed", key |-> k]]
  BY RowFields DEF FailCallback, Processable, RecordCallback, Unanswered
<1>2. /\ request'[r].status = request[r].status /\ SameSource(r)
      /\ approval'[r].status = "CallbackFailed"
      /\ \A q \in Requests \ {r} : request'[q] = request[q] /\ approval'[q] = approval[q]
  BY <1>1, RowFields DEF RequestRow, SameSource
<1>3. RequestLeft(r) /\ RequestTurn(r) /\ ApprovalTurn(r)
  BY <1>1, <1>2 DEF RequestLeft, RequestTurn, ApprovalTurn
<1> QED
  BY <1>1, <1>2, <1>3, RequestTurns, RequestLeaves

LEMMA RefuseCallbackTurns ==
  ASSUME TypeOK, NEW r \in Requests, NEW k \in Keys, RefuseCallback(r, k)
  PROVE  Turns /\ \A q \in Requests : RequestLeft(q)
<1>1. /\ UNCHANGED <<request, grant>>
      /\ approval' = [approval EXCEPT ![r] = [status |-> approval[r].status, key |-> k]]
  BY DEF RefuseCallback, RecordCallback
<1>2. /\ approval'[r].status = approval[r].status
      /\ \A q \in Requests \ {r} : request'[q] = request[q] /\ approval'[q] = approval[q]
  BY <1>1, RowFields
<1>3. RequestLeft(r) /\ RequestTurn(r) /\ ApprovalTurn(r)
  BY <1>1, <1>2 DEF RequestLeft, RequestTurn, ApprovalTurn, SameSource
<1> QED
  BY <1>1, <1>2, <1>3, RequestTurns, RequestLeaves

\* The row both approvals start from.
LEMMA ApprovedFields ==
  ASSUME TypeOK, NEW r \in Requests
  PROVE  /\ ApprovedRow(r) \in RequestRow /\ ApprovedRow(r).status = "Approved"
         /\ ApprovedRow(r).approval = "Approved"
         /\ ApprovedRow(r).source = request[r].source
         /\ ApprovedRow(r).renews = request[r].renews
<1> DEFINE row == request[r]
<1>1. row \in RequestRow
  BY RowFields
<1>2. ApprovedRow(r) = [row EXCEPT !.approval = "Approved", !.status = "Approved"]
  BY DEF ApprovedRow
<1>3. "Approved" \in RequestStatus /\ "Approved" \in ApprovalStatus
  BY DEF RequestStatus, ApprovalStatus
<1> HIDE DEF row
<1>4. [row EXCEPT !.approval = "Approved", !.status = "Approved"] \in RequestRow
  BY <1>1, <1>3 DEF RequestRow
<1>5. /\ ApprovedRow(r).status = "Approved" /\ ApprovedRow(r).approval = "Approved"
      /\ ApprovedRow(r).source = row.source /\ ApprovedRow(r).renews = row.renews
  BY <1>1, <1>2 DEF RequestRow
<1> QED
  BY <1>2, <1>4, <1>5 DEF row

LEMMA ApproveTurns ==
  ASSUME TypeOK, NEW r \in Requests, NEW k \in Keys, NEW outcome \in ProvisionOutcomes,
         ApproveRequest(r, k, outcome)
  PROVE  Turns /\ \A q \in Requests : RequestLeft(q)
<1> DEFINE g == DefaultGrant[r]
           row == ApprovedRow(r)
<1>1. /\ request[r].status = "PendingApproval" /\ approval[r].status \in Unanswered
      /\ request[r].source = NoRequest
      /\ approval' = [approval EXCEPT ![r] = [status |-> "Approved", key |-> k]]
  BY RowFields
  DEF ApproveRequest, Awaited, Processable, RecordCallback, Unanswered, IsRenewal
<1>2. /\ approval'[r].status = "Approved"
      /\ \A q \in Requests \ {r} : approval'[q] = approval[q]
  BY <1>1, RowFields
<1>3. ApprovalTurn(r)
  BY <1>1, <1>2 DEF ApprovalTurn
<1>4. /\ row \in RequestRow /\ row.status = "Approved"
      /\ row.source = request[r].source /\ row.renews = request[r].renews
  BY ApprovedFields
<1>5. g \in Grants
  BY AccessStateAssumption
<1>6. CASE CanProvision(r, g, row)
  <2>1. /\ request' = [request EXCEPT ![r] = RequestAfterProvision(row, outcome)]
        /\ ProvisionEffect(r, g, now + row.duration, 0, outcome)
        /\ grant[g].status = "NotCreated"
    BY <1>6 DEF ApproveRequest, CanProvision
  <2>2. now + row.duration \in Nat
    BY <1>4 DEF TypeOK, RequestRow
  <2> HIDE DEF g, row
  <2> QED
    BY <1>1, <1>2, <1>3, <1>4, <1>5, <2>1, <2>2, ProvisionTurns DEF Gone, Unanswered
<1>7. CASE ~CanProvision(r, g, row)
  <2>1. request' = [request EXCEPT ![r] = row] /\ UNCHANGED grant
    BY <1>7 DEF ApproveRequest
  <2>2. /\ request'[r] = row /\ \A q \in Requests \ {r} : request'[q] = request[q]
    BY <2>1, RowFields
  <2>3. RequestLeft(r) /\ RequestTurn(r)
    BY <1>1, <1>2, <1>4, <2>2 DEF RequestLeft, RequestTurn, SameSource, Gone, Unanswered
  <2> QED
    BY <1>2, <1>3, <2>1, <2>2, <2>3, RequestTurns, RequestLeaves
<1> QED
  BY <1>6, <1>7

LEMMA ApproveRenewalTurns ==
  ASSUME TypeOK, NEW r \in Requests, NEW k \in Keys, ApproveRenewal(r, k)
  PROVE  Turns /\ \A q \in Requests : RequestLeft(q)
<1> DEFINE row == ApprovedRow(r)
           g == request[r].renews
           s == request[r].source
<1>1. /\ request[r].status = "PendingApproval" /\ approval[r].status \in Unanswered
      /\ s # NoRequest
      /\ approval' = [approval EXCEPT ![r] = [status |-> "Approved", key |-> k]]
  BY RowFields
  DEF ApproveRenewal, Awaited, Processable, RecordCallback, Unanswered, IsRenewal
<1>2. /\ approval'[r].status = "Approved"
      /\ \A q \in Requests \ {r} : approval'[q] = approval[q]
  BY <1>1, RowFields
<1>3. /\ row \in RequestRow /\ row.status = "Approved"
      /\ row.source = s /\ row.renews = g
  BY ApprovedFields
<1>4. CASE ~CanCompleteRenewal(row)
  <2>1. request' = [request EXCEPT ![r] = row] /\ UNCHANGED grant
    BY <1>4 DEF ApproveRenewal
  <2>2. /\ request'[r] = row /\ \A q \in Requests \ {r} : request'[q] = request[q]
    BY <2>1, RowFields
  <2>3. SameSource(r)
    BY <1>3, <2>2 DEF SameSource
  <2>4. ~Extends(r)'
    <3>1. row.approval = "Approved"
      BY ApprovedFields
    <3>2. ~(grant[g].request = s /\ grant[g].status \in Renewable)
      BY <1>3, <1>4, <3>1 DEF CanCompleteRenewal
    <3> QED
      BY <2>1, <2>3, <3>2 DEF Extends, SameSource
  <2>5. ApprovalTurn(r)
    BY <1>1, <1>2, <2>3, <2>4 DEF ApprovalTurn
  <2>6. RequestLeft(r) /\ RequestTurn(r)
    BY <1>1, <1>2, <1>3, <2>2, <2>3 DEF RequestLeft, RequestTurn, Gone, Unanswered
  <2> QED
    BY <1>2, <2>1, <2>2, <2>5, <2>6, RequestTurns, RequestLeaves
<1>5. CASE CanCompleteRenewal(row)
  <2>1. /\ grant[g].request = s /\ grant[g].status \in Renewable
        /\ request' = [request EXCEPT
             ![s] = [request[s] EXCEPT !.status = "Expired", !.grant = "Expired"],
             ![r] = [row EXCEPT !.status = "Active", !.grant = "Active"]]
        /\ grant' = [grant EXCEPT ![g] =
             [grant[g] EXCEPT !.request = r, !.status = "Active",
                              !.expire = grant[g].expire + row.duration]]
    <3>1. RenewalEffect(r, row) /\ row.source = s /\ row.renews = g
      BY <1>3, <1>5 DEF ApproveRenewal
    <3>2. s \in Requests
      BY <1>1, RowFields DEF RequestRow
    <3> HIDE DEF row, g, s
    <3>3. /\ grant[g].request = s /\ grant[g].status \in Renewable
      BY <1>5, <3>1 DEF CanCompleteRenewal
    <3> QED
      BY <3>1, <3>2, <3>3, RowFields DEF RenewalEffect
  <2>2. /\ request'[r].status = "Active" /\ SameSource(r)
        /\ \A q \in Requests \ {r} :
             \/ request'[q] = request[q]
             \/ request'[q].status = "Expired" /\ SameSource(q)
    <3> HIDE DEF row
    <3>1. request'[r] = [row EXCEPT !.status = "Active", !.grant = "Active"]
      BY <2>1, RowFields
    <3>2. request'[r].status = "Active" /\ SameSource(r)
      BY <1>3, <3>1 DEF RequestRow, SameSource
    <3> HIDE DEF s, g
    <3>3. ASSUME NEW q \in Requests \ {r}, q # s PROVE request'[q] = request[q]
      BY <2>1, <3>3, RowFields
    <3>4. ASSUME s \in Requests \ {r}
          PROVE  request'[s].status = "Expired" /\ SameSource(s)
      <4>1. /\ request'[s] = [request[s] EXCEPT !.status = "Expired", !.grant = "Expired"]
            /\ request[s] \in RequestRow
        BY <2>1, <3>4, RowFields
      <4> QED
        BY <4>1 DEF RequestRow, SameSource
    <3> QED
      BY <3>2, <3>3, <3>4
  <2>3. \A h \in Grants \ {g} : grant'[h] = grant[h]
    BY <2>1, RowFields
  <2>4. RequestLeft(r) /\ RequestTurn(r)
    BY <1>1, <1>2, <2>2 DEF RequestLeft, RequestTurn, Gone, Unanswered
  <2>5. \A q \in Requests \ {r} : RequestLeft(q) /\ RequestTurn(q) /\ ApprovalTurn(q)
    BY <1>2, <2>2, Zenon DEF RequestLeft, RequestTurn, ApprovalTurn, SameSource, Gone
  <2>6. \A h \in Grants \ {g} : GrantTurn(h)
    BY <2>3, Zenon DEF GrantTurn, GrantLeft
  <2>7. CASE g \in Grants
    <3>1. grant'[g].request = r /\ grant'[g].status = "Active"
      BY <2>1, <2>7, RowFields DEF GrantRow
    <3>2. GrantTurn(g)
      BY <1>1, <1>2, <2>1, <2>2, <3>1 DEF GrantTurn, GrantExtended, Renewing
    <3>3. ApprovalTurn(r)
      BY <1>1, <1>2, <2>2, <3>1 DEF ApprovalTurn, Extends, SameSource
    <3> QED
      BY <2>4, <2>5, <2>6, <3>2, <3>3 DEF Turns
  <2>8. CASE g \notin Grants
    <3>1. ApprovalTurn(r)
      BY <1>1, <1>2, <2>8 DEF ApprovalTurn
    <3> QED
      BY <2>4, <2>5, <2>6, <2>8, <3>1 DEF Turns
  <2> QED
    BY <2>7, <2>8
<1> QED
  BY <1>4, <1>5

-----------------------------------------------------------------------------
\* Revocations, and the reconciliation.
LEMMA RequestRevokesPasses ==
  ASSUME TypeOK, NEW S, RequestRevokes(S), UNCHANGED approval
  PROVE  Passes
<1>1. ASSUME NEW r \in Requests
      PROVE  SameSource(r) /\ request'[r].status = request[r].status
  <2>1. request'[r] = RequestAfterRequest(S, r) /\ request[r] \in RequestRow
    BY <1>1, RowFields DEF RequestRevokes
  <2>2. CASE BoundIn(S, r) = {}
    BY <2>1, <2>2 DEF RequestAfterRequest, SameSource
  <2>3. CASE BoundIn(S, r) # {}
    <3> PICK status : request'[r] = [request[r] EXCEPT !.grant = status]
      BY <2>1, <2>3 DEF RequestAfterRequest
    <3> QED
      BY <2>1 DEF SameSource, RequestRow
  <2> QED
    BY <2>2, <2>3
<1>2. ASSUME NEW g \in Grants PROVE GrantLeft(g)
  <2>1. /\ grant[g] \in GrantRow
        /\ grant'[g] \in {grant[g], [grant[g] EXCEPT !.status = "Revoking"]}
    BY <1>2, RowFields DEF RequestRevokes, GrantAfterRequest
  <2> QED
    BY <2>1 DEF GrantLeft, GrantRow, Unheld, Renewable
<1> QED
  BY <1>1, <1>2 DEF Passes

LEMMA RevokedRequest ==
  ASSUME NEW row \in RequestRow, NEW grantRow, NEW trigger, NEW outcome
  PROVE  LET row2 == RequestAfterRevoke(row, grantRow, trigger, outcome) IN
         /\ row2.source = row.source /\ row2.renews = row.renews
         /\ row2.status \in {row.status, "Expired", "Revoked"}
<1>1. FinalStatus(row, trigger) \in {"Expired", "Revoked"}
  BY DEF FinalStatus
<1>2. \/ \E status : RequestAfterRevoke(row, grantRow, trigger, outcome) =
             [row EXCEPT !.status = FinalStatus(row, trigger), !.grant = status]
      \/ \E status : RequestAfterRevoke(row, grantRow, trigger, outcome) =
             [row EXCEPT !.grant = status]
      \/ RequestAfterRevoke(row, grantRow, trigger, outcome) = row
  BY Zenon DEF RequestAfterRevoke
<1> QED
  BY <1>1, <1>2 DEF RequestRow

\* The same of all open tasks of a grant.
LEMMA RevokedRequests ==
  ASSUME NEW g, NEW done, grant[g] \in GrantRow, NEW row \in RequestRow
  PROVE  LET row2 == RequestAfterTasks(done, g, row) IN
         /\ row2.source = row.source /\ row2.renews = row.renews
         /\ row2.status \in {row.status, "Expired", "Revoked"}
<1> DEFINE trigger == DecidingTrigger(done, g)
           before == IF SomeDone(done, g)
                     THEN RequestAfterRevoke(row, grant[g], trigger, "Succeeded") ELSE row
           answer == Answer(done, g, Deciding(done, g))
           row2 == RequestAfterRevoke(before, grant[g], trigger, answer)
<1>1. RequestAfterTasks(done, g, row) = row2
  BY DEF RequestAfterTasks
<1>2. "Succeeded" \in RevokeOutcomes
  BY DEF RevokeOutcomes
<1> HIDE DEF trigger, answer
<1>3. /\ before \in RequestRow
      /\ before.source = row.source /\ before.renews = row.renews
      /\ before.status \in {row.status, "Expired", "Revoked"}
  <2> DEFINE revoked == RequestAfterRevoke(row, grant[g], trigger, "Succeeded")
  <2>1. revoked \in RequestRow
    BY <1>2, ProcessedRows
  <2>2. /\ revoked.source = row.source /\ revoked.renews = row.renews
        /\ revoked.status \in {row.status, "Expired", "Revoked"}
    BY RevokedRequest
  <2>3. before = revoked \/ before = row
    OBVIOUS
  <2> HIDE DEF revoked, before
  <2> QED
    BY <2>1, <2>2, <2>3
<1> HIDE DEF before
<1>4. /\ row2.source = before.source /\ row2.renews = before.renews
      /\ row2.status \in {before.status, "Expired", "Revoked"}
  BY <1>3, RevokedRequest
<1> HIDE DEF row2
<1> QED
  BY <1>1, <1>3, <1>4

LEMMA RevokedGrant ==
  ASSUME NEW row \in GrantRow, NEW trigger, NEW outcome
  PROVE  LET row2 == GrantAfterRevoke(row, trigger, outcome) IN
         /\ row2.request = row.request /\ row2.expire = row.expire
         /\ row2.status \in {row.status, "Expired", "Revoked", "RevokeFailed"}
<1>1. FinalStatus(row, trigger) \in {"Expired", "Revoked"}
  BY DEF FinalStatus
<1>2. \/ GrantAfterRevoke(row, trigger, outcome) =
           [row EXCEPT !.status = FinalStatus(row, trigger)]
      \/ GrantAfterRevoke(row, trigger, outcome) = [row EXCEPT !.status = "RevokeFailed"]
      \/ GrantAfterRevoke(row, trigger, outcome) = row
  BY Zenon DEF GrantAfterRevoke
<1> QED
  BY <1>1, <1>2 DEF GrantRow

LEMMA ProcessPendingPasses ==
  ASSUME TypeOK, NEW done, ProcessPendingRevokes(done)
  PROVE  Passes
<1> DEFINE Todo == {g \in Grants : HasOpenRevoke(g)}
<1>1. ASSUME NEW r \in Requests
      PROVE  SameSource(r) /\ request'[r].status \in {request[r].status, "Expired", "Revoked"}
  <2>1. CASE BoundIn(Todo, r) = {}
    BY <2>1, RowFields DEF ProcessPendingRevokes, SameSource
  <2>2. CASE BoundIn(Todo, r) # {}
    <3>1. \E g \in Grants : request'[r] = RequestAfterTasks(done, g, request[r])
      <4> DEFINE g == CHOOSE g \in BoundIn(Todo, r) : TRUE
      <4>1. g \in Grants
        BY <2>2 DEF BoundIn
      <4>2. request'[r] = RequestAfterTasks(done, g, request[r])
        BY <2>2 DEF ProcessPendingRevokes
      <4> QED
        BY <4>1, <4>2
    <3>2. request[r] \in RequestRow
      BY RowFields
    <3> QED
      BY <3>1, <3>2, RowFields, RevokedRequests DEF SameSource
  <2> QED
    BY <2>1, <2>2
<1>2. ASSUME NEW g \in Grants PROVE GrantLeft(g)
  <2>1. \/ grant'[g] = grant[g]
        \/ \E trigger, outcome : grant'[g] = GrantAfterRevoke(grant[g], trigger, outcome)
    BY DEF ProcessPendingRevokes
  <2>2. grant[g] \in GrantRow
    BY RowFields
  <2>3. /\ grant'[g].request = grant[g].request /\ grant'[g].expire = grant[g].expire
        /\ grant'[g].status \in {grant[g].status, "Expired", "Revoked", "RevokeFailed"}
    BY <2>1, <2>2, RevokedGrant
  <2> QED
    BY <2>3 DEF GrantLeft, Unheld, Renewable
<1> QED
  BY <1>1, <1>2 DEF Passes, ProcessPendingRevokes, Gone

LEMMA RetryRevokePasses ==
  ASSUME TypeOK, NEW g \in Grants, NEW outcome, RetryRevoke(g, outcome)
  PROVE  Passes
<1> DEFINE asked == GrantAfterRequest(grant[g])
           q == session[g].request
           row == [request[q] EXCEPT !.grant = asked.status]
<1>1. /\ grant' = [grant EXCEPT ![g] = GrantAfterRevoke(asked, "Requested", outcome)]
      /\ request' = [request EXCEPT ![q] = RequestAfterRevoke(row, asked, "Requested", outcome)]
      /\ UNCHANGED approval
  BY RowFields DEF RetryRevoke
<1>2. /\ asked \in GrantRow /\ asked.status \in {grant[g].status, "Revoking"}
      /\ asked.request = grant[g].request /\ asked.expire = grant[g].expire
  BY RowFields DEF GrantAfterRequest, GrantRow, GrantStatus
<1> HIDE DEF asked
<1>3. ASSUME NEW r \in Requests
      PROVE  SameSource(r) /\ request'[r].status \in {request[r].status, "Expired", "Revoked"}
  <2>1. CASE r # q
    BY <1>1, <2>1, RowFields DEF SameSource
  <2>2. CASE r = q
    <3>1. /\ row \in RequestRow /\ row.status = request[r].status
          /\ row.source = request[r].source /\ row.renews = request[r].renews
      BY <1>2, <2>2, RowFields DEF RequestRow, GrantRow
    <3>2. request'[r] = RequestAfterRevoke(row, asked, "Requested", outcome)
      BY <1>1, <2>2, RowFields
    <3> HIDE DEF row
    <3> QED
      BY <3>1, <3>2, RevokedRequest DEF SameSource
  <2> QED
    BY <2>1, <2>2
<1>4. ASSUME NEW h \in Grants PROVE GrantLeft(h)
  <2>1. CASE h # g
    BY <1>1, <2>1, RowFields DEF GrantLeft
  <2>2. CASE h = g
    <3>1. grant'[h] = GrantAfterRevoke(asked, "Requested", outcome)
      BY <1>1, <2>2, RowFields
    <3>2. /\ grant'[h].request = grant[h].request /\ grant'[h].expire = grant[h].expire
          /\ grant'[h].status \in
               {grant[h].status, "Revoking", "Expired", "Revoked", "RevokeFailed"}
      BY <1>2, <2>2, <3>1, RevokedGrant
    <3> QED
      BY <3>2 DEF GrantLeft, Unheld, Renewable
  <2> QED
    BY <2>1, <2>2
<1> QED
  BY <1>1, <1>3, <1>4 DEF Passes, Gone

LEMMA ReconcilePasses ==
  ASSUME TypeOK, ReconcileGrantLifecycle
  PROVE  Passes
<1>1. ASSUME NEW r \in Requests
      PROVE  SameSource(r) /\ request'[r].status \in {request[r].status, "Expired", "Expiring"}
  <2>1. request'[r] \in {request[r],
                        [request[r] EXCEPT !.status = "Expired", !.grant = "Expired"],
                        [request[r] EXCEPT !.grant = "Expired"],
                        [request[r] EXCEPT !.status = "Expiring", !.grant = "Expiring"]}
    BY DEF ReconcileGrantLifecycle, RequestAfterReconcile
  <2>2. request[r] \in RequestRow
    BY RowFields
  <2> QED
    BY <2>1, <2>2 DEF SameSource, RequestRow
<1>2. ASSUME NEW g \in Grants PROVE GrantLeft(g)
  <2>1. \/ grant'[g] = grant[g]
        \/ grant'[g] = [grant[g] EXCEPT !.status = "Expired"]
        \/ /\ grant'[g] = [grant[g] EXCEPT !.status = "Expiring"]
           /\ grant[g].status \in Renewable
    <3>1. grant'[g] = CASE g \in Due     -> [grant[g] EXCEPT !.status = "Expired"]
                        [] g \in Nearing -> ExpiringRow(grant[g])
                        [] OTHER         -> grant[g]
      BY DEF ReconcileGrantLifecycle
    <3>2. g \in Nearing => grant[g].status \in Renewable
      BY DEF Nearing
    <3> QED
      BY <3>1, <3>2, Zenon DEF ExpiringRow
  <2>2. grant[g] \in GrantRow
    BY RowFields
  <2>3. /\ grant'[g].request = grant[g].request /\ grant'[g].expire = grant[g].expire
        /\ \/ grant'[g].status = grant[g].status
           \/ grant'[g].status = "Expired"
           \/ grant'[g].status = "Expiring" /\ grant[g].status \in Renewable
    BY <2>1, <2>2 DEF GrantRow
  <2> QED
    BY <2>3 DEF GrantLeft, Unheld, Renewable
<1> QED
  BY <1>1, <1>2 DEF Passes, ReconcileGrantLifecycle, Gone

\* An answer leaves every request its renewal context, and none newly waiting.
LEMMA CallbackLeaves == TypeOK /\ CallbackStep => \A q \in Requests : RequestLeft(q)
BY ApproveTurns, ApproveRenewalTurns, DenyTurns, FailCallbackTurns, RefuseCallbackTurns
DEF CallbackStep

LEMMA NextTurns == TypeOK /\ [Next]_vars => Turns
<1> SUFFICES ASSUME TypeOK, [Next]_vars PROVE Turns
  OBVIOUS
<1>1. CASE \E r \in Requests : CreateRequest(r)
  BY <1>1, CreateTurns
<1>2. CASE EvaluationStep
  BY <1>2, EvaluateTurns, FailEvaluationTurns DEF EvaluationStep
<1>3. CASE CallbackStep
  BY <1>3, ApproveTurns, ApproveRenewalTurns, DenyTurns, FailCallbackTurns, RefuseCallbackTurns
  DEF CallbackStep
<1>4. CASE ProvisionStep
  BY <1>4, ProvisionGrantTurns, RetryProvisionTurns DEF ProvisionStep
<1>5. CASE RenewStep
  BY <1>5, RenewTurns DEF RenewStep
<1>6. CASE RevokeStep
  BY <1>6, RequestRevokesPasses, RetryRevokePasses, PassesTurns
  DEF RevokeStep, RevokeSession, DisableAgent
<1>7. CASE ProcessPendingStep
  BY <1>7, ProcessPendingPasses, PassesTurns DEF ProcessPendingStep
<1>8. CASE ReconcileGrantLifecycle
  BY <1>8, ReconcilePasses, PassesTurns
<1>9. CASE Tick \/ UNCHANGED vars
  <2>1. UNCHANGED <<request, approval, grant>>
    BY <1>9 DEF Tick, vars
  <2>2. Passes
    BY <2>1, Zenon DEF Passes, SameSource, GrantLeft, Gone
  <2> QED
    BY <2>2, PassesTurns
<1> QED
  BY <1>1, <1>2, <1>3, <1>4, <1>5, <1>6, <1>7, <1>8, <1>9 DEF Next

-----------------------------------------------------------------------------
\* Where renewals come from: the grant a request renews has been given, and
\* the request it was given to is not itself a renewal that waits.
SourceOf(r) ==
  /\ request[r].source = NoRequest <=> request[r].renews = NoGrant
  /\ request[r].status = "Absent" => request[r].source = NoRequest
  /\ request[r].source # NoRequest => grant[request[r].renews].status \notin Unheld

Named(s) ==
  \/ \E g \in Grants : grant[g].request = s
  \/ \E q \in Requests : request[q].source = s

NamedIsOld(s) == Named(s) => request[s].status # "Absent" /\ ~Renewing(s)

SourceInv == \A r \in Requests : SourceOf(r) /\ NamedIsOld(r)

LEMMA SourceInvInit == Init => SourceInv
<1> SUFFICES ASSUME Init PROVE SourceInv
  OBVIOUS
<1>1. ASSUME NEW r \in Requests
      PROVE  request[r].source = NoRequest /\ request[r].renews = NoGrant
  BY DEF Init, AbsentRequest
<1>2. ASSUME NEW g \in Grants PROVE grant[g].request = NoRequest
  BY DEF Init, AbsentGrant
<1>3. NoRequest \notin Requests
  BY AccessStateAssumption
<1>4. ASSUME NEW r \in Requests PROVE SourceOf(r) /\ ~Named(r)
  BY <1>1, <1>2, <1>3 DEF SourceOf, Named
<1> QED
  BY <1>4 DEF SourceInv, NamedIsOld

\* A grant somebody has had access by has always been one.
LEMMA HeldStays ==
  ASSUME NEW g \in Grants, GrantTurn(g), grant[g].status \notin Unheld
  PROVE  grant'[g].status \notin Unheld
BY DEF GrantTurn, GrantLeft, GrantCreated, GrantExtended, Exists, Unheld

LEMMA SourceOfNext ==
  ASSUME TypeOK, Turns, Linked, NEW r \in Requests, SourceOf(r)
  PROVE  SourceOf(r)'
<1>1. RequestTurn(r) /\ \A g \in Grants : GrantTurn(g)
  BY DEF Turns
<1>2. request[r] \in RequestRow
  BY RowFields
<1>3. CASE RequestLeft(r)
  <2>1. request[r].source # NoRequest => request[r].renews \in Grants
    BY <1>2 DEF SourceOf, RequestRow
  <2>2. request[r].source # NoRequest => grant'[request[r].renews].status \notin Unheld
    BY <1>1, <2>1, HeldStays DEF SourceOf
  <2> QED
    BY <1>3, <2>2 DEF RequestLeft, SameSource, SourceOf
<1>4. CASE RequestEvaluated(r)
  BY <1>4 DEF RequestEvaluated, SourceOf
<1>5. CASE RequestRenewed(r)
  <2> PICK g \in Grants :
        /\ grant[g].status \in Renewable
        /\ request'[r].source = grant[g].request /\ request'[r].renews = g
    BY <1>5 DEF RequestRenewed
  <2>1. grant[g].status \notin Unheld /\ Exists(g)
    BY DEF Renewable, Unheld, Exists
  <2>2. grant'[g].status \notin Unheld
    BY <1>1, <2>1, HeldStays
  <2>3. grant[g].request \in Requests
    BY <2>1 DEF Linked, Held
  <2>4. request'[r].source # NoRequest /\ request'[r].renews # NoGrant
    BY <2>3, AccessStateAssumption
  <2>5. request'[r].status = "PendingApproval"
    BY <1>5 DEF RequestRenewed
  <2> QED
    BY <2>2, <2>4, <2>5 DEF SourceOf
<1> QED
  BY <1>1, <1>3, <1>4, <1>5 DEF RequestTurn

LEMMA NamedNext ==
  ASSUME Turns, NEW s \in Requests, NamedIsOld(s)
  PROVE  NamedIsOld(s)'
<1>1. /\ RequestTurn(s)
      /\ \A g \in Grants : GrantTurn(g)
      /\ \A q \in Requests : RequestTurn(q)
  BY DEF Turns
<1> DEFINE OffHold == request'[s].status \notin {"Absent", "PendingApproval"}
<1>2. ASSUME NEW g \in Grants, grant'[g].request = s
      PROVE  Named(s) \/ OffHold
  BY <1>1, <1>2 DEF GrantTurn, GrantLeft, GrantCreated, GrantExtended, Named
<1>3. ASSUME NEW q \in Requests, request'[q].source = s
      PROVE  Named(s)
  <2>1. CASE RequestLeft(q)
    BY <1>3, <2>1 DEF RequestLeft, SameSource, Named
  <2>2. CASE RequestEvaluated(q)
    BY <1>3, <2>2, AccessStateAssumption DEF RequestEvaluated
  <2>3. CASE RequestRenewed(q)
    BY <1>3, <2>3 DEF RequestRenewed, Named
  <2> QED
    BY <1>1, <2>1, <2>2, <2>3 DEF RequestTurn
<1>4. ASSUME Named(s) PROVE request'[s].status # "Absent" /\ ~Renewing(s)'
  <2>1. request[s].status # "Absent" /\ ~Renewing(s)
    BY <1>4 DEF NamedIsOld
  <2>2. CASE RequestLeft(s)
    BY <2>1, <2>2 DEF RequestLeft, SameSource, Renewing
  <2>3. CASE RequestEvaluated(s)
    BY <2>3 DEF RequestEvaluated, Renewing
  <2>4. ~RequestRenewed(s)
    BY <2>1 DEF RequestRenewed
  <2> QED
    BY <1>1, <2>2, <2>3, <2>4 DEF RequestTurn
<1>5. ASSUME OffHold PROVE request'[s].status # "Absent" /\ ~Renewing(s)'
  BY <1>5 DEF Renewing
<1>6. Named(s)' => Named(s) \/ OffHold
  BY <1>2, <1>3 DEF Named
<1> QED
  BY <1>4, <1>5, <1>6 DEF NamedIsOld

LEMMA SourceInvNext == TypeOK /\ Linked /\ SourceInv /\ Turns => SourceInv'
BY SourceOfNext, NamedNext DEF SourceInv

=============================================================================
