------------------------- MODULE Delegations_proofs -------------------------
(***************************************************************************)
(* Proofs about delegations: what an agent has was asked for under a       *)
(* delegation of its own user to it, and an Idempotency-Key is used again  *)
(* only by calls that overlapped.                                          *)
(***************************************************************************)
EXTENDS Holding_proofs, Delegations

(***************************************************************************)
(* Requests are only added, by a submission or by the renewal of a grant.  *)
(***************************************************************************)
LEMMA RequestsStay ==
  ASSUME HoldingInv, [Next]_vars, NEW r \in Requests, request[r].status # "Absent"
  PROVE  request'[r].status # "Absent"
<1>1. StepShape
  BY NextShape
<1>2. CASE \E q \in Requests : RequestWritten(q)
  BY <1>2 DEF RequestWritten
<1>3. CASE \E q \in Requests, g \in Grants, outcome \in ProvisionOutcomes, expire, retry \in Nat :
             Provisioned(q, g, expire, retry, outcome)
  BY <1>3, OutcomeStatuses DEF Provisioned
<1>4. CASE \E q \in Requests : RenewedRows(q)
  BY <1>4 DEF RenewedRows
<1>5. CASE \E M \in SUBSET Grants : Moves(M)
  <2>1. PICK M \in SUBSET Grants : Moves(M)
    BY <1>5
  <2>2. CASE \E g \in M : grant[g].request = r
    BY <2>1, <2>2, MovedStatuses DEF Moves, Lived
  <2>3. CASE ~\E g \in M : grant[g].request = r
    BY <2>1, <2>3 DEF Moves
  <2> QED
    BY <2>2, <2>3
<1> QED
  BY <1>1, <1>2, <1>3, <1>4, <1>5 DEF StepShape

LEMMA MovesAddNothing ==
  ASSUME HoldingInv, NEW M \in SUBSET Grants, Moves(M), NEW r \in Requests,
         request[r].status = "Absent"
  PROVE  request'[r] = request[r]
BY HoldsByStatus DEF Moves

LEMMA CallbackAddsNothing ==
  ASSUME HoldingInv, CallbackStep, NEW r \in Requests, request[r].status = "Absent"
  PROVE  request'[r] = request[r]
<1> PICK q \in Requests, k \in Keys :
      \/ \E outcome \in ProvisionOutcomes : ApproveRequest(q, k, outcome)
      \/ ApproveRenewal(q, k)
      \/ \E status \in Denials : DenyRequest(q, k, status)
      \/ FailCallback(q, k)
      \/ RefuseCallback(q, k)
  BY DEF CallbackStep
<1>1. Processable(q, k)
  BY DEF ApproveRequest, ApproveRenewal, DenyRequest, FailCallback, RefuseCallback, Awaited
<1>2. request[q].status = "PendingApproval"
  BY <1>1 DEF Processable, HoldingInv, OpenApprovalIsAwaited
<1>t. now + request[q].duration \in Nat
  BY DEF HoldingInv, RevocationInv, TypeInv, TypeOK, RequestRow
<1>3. \/ RequestWritten(q) \/ RenewedRows(q)
      \/ \E g \in Grants, outcome \in ProvisionOutcomes, expire, retry \in Nat :
           Provisioned(q, g, expire, retry, outcome)
  BY ApproveRequestShape, ApproveRenewalShape, DenyWrites, FailCallbackWrites,
     RefuseCallbackWrites, AccessStateAssumption, <1>t
<1>4. CASE RequestWritten(q)
  BY <1>2, <1>4 DEF RequestWritten
<1>5. CASE RenewedRows(q)
  BY <1>2, <1>5 DEF RenewedRows, Renewable
<1>6. CASE \E g \in Grants, outcome \in ProvisionOutcomes, expire, retry \in Nat :
             Provisioned(q, g, expire, retry, outcome)
  BY <1>2, <1>6 DEF Provisioned
<1> QED
  BY <1>3, <1>4, <1>5, <1>6

LEMMA NewRequests ==
  ASSUME HoldingInv, Next, NEW r \in Requests,
         request[r].status = "Absent", request'[r].status # "Absent"
  PROVE  \/ CreateRequest(r)
         \/ \E g \in Grants, duration \in Durations : RenewGrant(r, g, duration)
<1>1. CASE \E q \in Requests : CreateRequest(q)
  <2>1. PICK q \in Requests : CreateRequest(q)
    BY <1>1
  <2>2. RequestWritten(q)
    BY <2>1, AppearsWrites DEF CreateRequest, Appears
  <2> QED
    BY <2>1, <2>2 DEF RequestWritten
<1>2. CASE EvaluationStep
  <2>1. PICK q \in Requests, force \in BOOLEAN :
          \/ FailEvaluation(q, force)
          \/ \E required, deliverable \in BOOLEAN, duration \in Durations :
               EvaluateRequest(q, force, required, deliverable, duration)
    BY <1>2 DEF EvaluationStep
  <2>2. RequestWritten(q)
    BY <2>1, EvaluateWrites, FailEvaluationWrites
  <2>3. request[q].status # "Absent"
    BY <2>1 DEF EvaluateRequest, FailEvaluation, CanStartEvaluation
  <2> QED
    BY <2>2, <2>3 DEF RequestWritten
<1>3. CASE CallbackStep
  BY <1>3, CallbackAddsNothing
<1>4. CASE ProvisionStep
  <2>1. PICK q \in Requests : request[q].status # "Absent" /\ \E row : request' = [request EXCEPT ![q] = row]
    BY <1>4 DEF ProvisionStep, ProvisionGrant, RetryProvision, CanProvision, CanRetryProvision
  <2> QED
    BY <2>1, RowTypes
<1>5. CASE RenewStep
  <2>1. PICK q \in Requests, g \in Grants, duration \in Durations : RenewGrant(q, g, duration)
    BY <1>5 DEF RenewStep
  <2>2. RequestWritten(q)
    BY <2>1, RenewWrites
  <2> QED
    BY <2>1, <2>2 DEF RequestWritten
<1>6. CASE RevokeStep \/ ProcessPendingStep \/ ReconcileGrantLifecycle
  <2>1. \E M \in SUBSET Grants : Moves(M)
    <3>1. Due \cup Nearing \in SUBSET Grants
      BY DEF Due, Nearing
    <3> QED
      BY <1>6, <3>1, RevokeSessionMoves, DisableAgentMoves, RetryRevokeMoves, ProcessPendingMoves,
         ReconcileMoves DEF RevokeStep, ProcessPendingStep, SessionsOf
  <2> QED
    BY <2>1, MovesAddNothing
<1>7. CASE Tick
  BY <1>7 DEF Tick
<1> QED
  BY <1>1, <1>2, <1>3, <1>4, <1>5, <1>6, <1>7 DEF Next

-----------------------------------------------------------------------------
(***************************************************************************)
(* The rows of delegations and submissions, and what they say of each      *)
(* other.                                                                  *)
(***************************************************************************)
DelegationRow ==
  [status : {"Absent", "Uncommitted", "Active", "Expired"}, user : Users \cup {NoUser},
   agent : Agents \cup {NoUser}, scope : SUBSET Types, expire : Nat,
   key : CallKeys \cup {NoCallKey}, saw : Nat]

SubmissionRow ==
  [user : Users \cup {NoUser}, delegation : DelegationIds \cup {NoDelegation},
   type : Types \cup {NoType}, key : CallKeys \cup {NoCallKey}, saw : Nat]

AuditRow ==
  [event : {"delegation.created", "request.submitted"}, user : Users \cup {NoUser},
   key : CallKeys \cup {NoCallKey}, saw : Nat]

DelegationsTyped ==
  /\ delegation \in [DelegationIds -> DelegationRow]
  /\ submission \in [Requests -> SubmissionRow]
  /\ audited \in Seq(AuditRow)

\* A delegation was made within the capability of its agent, which stays.
Granted(d) ==
  delegation[d].status # "Absent" =>
    delegation[d].scope # {} /\ WithinCapability(delegation[d].scope, delegation[d].agent)

Committed(d) == delegation[d].status \in {"Active", "Expired"}

\* A request, from before it is committed, names a committed delegation.
UnderDelegation(r) ==
  LET d == submission[r].delegation IN
  d # NoDelegation =>
    /\ d \in DelegationIds /\ Committed(d)
    /\ delegation[d].user = submission[r].user /\ delegation[d].agent = AgentOf[r]

Submitted(r) == request[r].status # "Absent" => submission[r].delegation # NoDelegation

ChainInv ==
  /\ HoldingInv /\ DelegationsTyped
  /\ \A d \in DelegationIds : Granted(d)
  /\ \A r \in Requests : UnderDelegation(r) /\ Submitted(r)

LEMMA ChainImplies == ChainInv => DelegationChain
<1> SUFFICES ASSUME ChainInv, NEW r \in Requests, request[r].status # "Absent"
             PROVE  LET row == delegation[submission[r].delegation] IN
                    /\ submission[r].delegation \in DelegationIds
                    /\ row.status \in {"Active", "Expired"}
                    /\ row.user = submission[r].user /\ row.agent = AgentOf[r]
                    /\ row.scope # {} /\ WithinCapability(row.scope, row.agent)
  BY DEF DelegationChain
<1>1. UnderDelegation(r) /\ submission[r].delegation # NoDelegation
  BY DEF ChainInv, Submitted
<1>2. submission[r].delegation \in DelegationIds /\ Committed(submission[r].delegation)
  BY <1>1 DEF UnderDelegation
<1>3. Granted(submission[r].delegation)
  BY <1>2 DEF ChainInv
<1> QED
  BY <1>1, <1>2, <1>3 DEF UnderDelegation, Granted, Committed

LEMMA ChainInit == DelegationsInit => ChainInv
<1> SUFFICES ASSUME DelegationsInit PROVE ChainInv
  OBVIOUS
<1>1. HoldingInv
  BY HoldingInvInit DEF DelegationsInit
<1>2. DelegationsTyped
  BY EmptySeq DEF DelegationsInit, DelegationsTyped, AbsentDelegation, AbsentSubmission,
     DelegationRow, SubmissionRow
<1>3. \A d \in DelegationIds : Granted(d)
  BY DEF DelegationsInit, AbsentDelegation, Granted
<1>4. \A r \in Requests : UnderDelegation(r) /\ Submitted(r)
  BY DEF DelegationsInit, Init, AbsentRequest, AbsentSubmission, UnderDelegation, Submitted
<1> QED
  BY <1>1, <1>2, <1>3, <1>4 DEF ChainInv

-----------------------------------------------------------------------------
\* The access tables change as in AccessSystem; a request whose agent was
\* disabled between its two steps is added all the same.
LEMMA AppearsHolding ==
  ASSUME HoldingInv, NEW r \in Requests, Appears(r)
  PROVE  HoldingInv'
<1>1. TypeInv'
  BY TypeInvAppears DEF HoldingInv, RevocationInv
<1>2. RevocationTracked' /\ EndingSession'
  BY OthersKept DEF HoldingInv, RevocationInv, Appears, Kept, RevocationTracked, EndingSession,
     EndingOf
<1> QED
  BY <1>1, <1>2, AppearsWrites, RequestWrittenHolding DEF RevocationInv

LEMMA CommitAppears ==
  ASSUME NEW r \in Requests, CommitRequest(r)
  PROVE  Appears(r)
BY DEF CommitRequest, Appears, Uncommitted

LEMMA DelegationsHolding ==
  ASSUME HoldingInv, [DelegationsNext]_delegationVars
  PROVE  HoldingInv'
<1>1. CASE UNCHANGED vars
  BY <1>1, HoldingInvNext
<1>2. CASE \E r \in Requests : CommitRequest(r)
  BY <1>2, CommitAppears, AppearsHolding
<1>3. CASE Handle
  BY <1>3, HoldingInvNext DEF Handle
<1> QED
  BY <1>1, <1>2, <1>3
  DEF DelegationsNext, delegationVars, CreateDelegation, CommitDelegation, ReadDelegation,
      SubmitRequest, Abort

\* What each step does to the rows of delegations and submissions.
DelegationWritten(d) ==
  /\ UNCHANGED <<vars, submission>>
  /\ delegation' = [delegation EXCEPT ![d] = delegation'[d]]
  /\ delegation'[d] \in DelegationRow /\ Granted(d)'
  /\ \/ ~Committed(d)
     \/ /\ delegation[d].status = "Active" /\ delegation'[d].status = "Expired"
        /\ delegation'[d].user = delegation[d].user /\ delegation'[d].agent = delegation[d].agent

LEMMA DelegationSteps ==
  ASSUME ChainInv, NEW d \in DelegationIds,
         \/ \E u \in Users, a \in Agents, scope \in SUBSET Types, expire \in Expiries,
               k \in CallKeys \cup {NoCallKey} : CreateDelegation(d, u, a, scope, expire, k)
         \/ CommitDelegation(d)
         \/ ReadDelegation(d)
         \/ /\ delegation[d].status = "Uncommitted"
            /\ delegation' = [delegation EXCEPT ![d] = AbsentDelegation]
            /\ UNCHANGED <<vars, submission, audited>>
  PROVE  DelegationWritten(d)
<1>1. delegation \in [DelegationIds -> DelegationRow] /\ Granted(d) /\ audited \in Seq(AuditRow)
  BY DEF ChainInv, DelegationsTyped
<1>2. delegation[d] \in DelegationRow
  BY <1>1
<1>3. ASSUME NEW u \in Users, NEW a \in Agents, NEW scope \in SUBSET Types,
             NEW expire \in Expiries, NEW k \in CallKeys \cup {NoCallKey},
             CreateDelegation(d, u, a, scope, expire, k)
      PROVE  DelegationWritten(d)
  <2> DEFINE row == [status |-> "Uncommitted", user |-> u, agent |-> a, scope |-> scope,
                     expire |-> expire, key |-> k, saw |-> Len(audited)]
  <2>1. expire \in Nat /\ Len(audited) \in Nat
    BY <1>1, DelegationsAssumption, LenProperties
  <2>2. row \in DelegationRow
    BY <2>1 DEF DelegationRow
  <2>3. delegation' = [delegation EXCEPT ![d] = row] /\ UNCHANGED <<vars, submission>>
        /\ delegation[d].status = "Absent" /\ scope # {} /\ WithinCapability(scope, a)
    BY <1>3 DEF CreateDelegation
  <2>4. row.scope = scope /\ row.agent = a
    OBVIOUS
  <2> HIDE DEF row
  <2>5. delegation'[d] = row
    BY <1>1, <2>3
  <2>6. Granted(d)'
    BY <2>3, <2>4, <2>5 DEF Granted, WithinCapability
  <2> QED
    BY <1>1, <2>2, <2>3, <2>5, <2>6 DEF DelegationWritten, Committed
<1>4. CASE CommitDelegation(d)
  <2>1. delegation' = [delegation EXCEPT ![d] = [delegation[d] EXCEPT !.status = "Active"]]
        /\ UNCHANGED <<vars, submission>> /\ delegation[d].status = "Uncommitted"
    BY <1>1, <1>4 DEF CommitDelegation
  <2>2. [delegation[d] EXCEPT !.status = "Active"] \in DelegationRow
    BY <1>2 DEF DelegationRow
  <2>3. delegation'[d] = [delegation[d] EXCEPT !.status = "Active"]
    BY <1>1, <2>1
  <2>4. Granted(d)'
    BY <1>1, <1>2, <2>1, <2>3 DEF Granted, WithinCapability, DelegationRow
  <2> QED
    BY <1>1, <2>1, <2>2, <2>3, <2>4 DEF DelegationWritten, Committed
<1>5. CASE ReadDelegation(d)
  <2>1. delegation' = [delegation EXCEPT ![d] = [delegation[d] EXCEPT !.status = "Expired"]]
        /\ UNCHANGED <<vars, submission>> /\ delegation[d].status = "Active"
    BY <1>1, <1>5 DEF ReadDelegation
  <2>2. [delegation[d] EXCEPT !.status = "Expired"] \in DelegationRow
    BY <1>2 DEF DelegationRow
  <2>3. delegation'[d] = [delegation[d] EXCEPT !.status = "Expired"]
    BY <1>1, <2>1
  <2>4. Granted(d)'
    BY <1>1, <1>2, <2>1, <2>3 DEF Granted, WithinCapability, DelegationRow
  <2>5. delegation'[d].status = "Expired" /\ delegation'[d].user = delegation[d].user
        /\ delegation'[d].agent = delegation[d].agent
    BY <1>2, <2>3 DEF DelegationRow
  <2> QED
    BY <1>1, <2>1, <2>2, <2>3, <2>4, <2>5 DEF DelegationWritten
<1>6. CASE /\ delegation[d].status = "Uncommitted"
           /\ delegation' = [delegation EXCEPT ![d] = AbsentDelegation]
           /\ UNCHANGED <<vars, submission, audited>>
  <2>1. AbsentDelegation \in DelegationRow /\ AbsentDelegation.status = "Absent"
    BY DEF AbsentDelegation, DelegationRow
  <2>2. delegation'[d] = AbsentDelegation
    BY <1>1, <1>6
  <2> QED
    BY <1>1, <1>6, <2>1, <2>2 DEF DelegationWritten, Granted, Committed
<1> QED
  BY <1>3, <1>4, <1>5, <1>6

\* What each step does to the audit: a commit may append its row.
Audits(event, row) ==
  audited' = IF row.key = NoCallKey THEN audited
             ELSE Append(audited, [event |-> event, user |-> row.user, key |-> row.key,
                                   saw |-> row.saw])

AuditStep ==
  \/ UNCHANGED audited
  \/ \E d \in DelegationIds :
       delegation[d].status = "Uncommitted" /\ Audits("delegation.created", delegation[d])
  \/ \E r \in Requests : Uncommitted(r) /\ Audits("request.submitted", submission[r])

LEMMA DelegationsAudit == [DelegationsNext]_delegationVars => AuditStep
BY DEF DelegationsNext, delegationVars, AuditStep, Audits, CreateDelegation, CommitDelegation,
   ReadDelegation, SubmitRequest, CommitRequest, Abort, Handle, Audit

LEMMA AuditTyped == DelegationsTyped /\ AuditStep => audited' \in Seq(AuditRow)
<1> SUFFICES ASSUME DelegationsTyped, AuditStep PROVE audited' \in Seq(AuditRow)
  OBVIOUS
<1>1. audited \in Seq(AuditRow)
  BY DEF DelegationsTyped
<1>2. ASSUME NEW d \in DelegationIds, Audits("delegation.created", delegation[d])
      PROVE  audited' \in Seq(AuditRow)
  <2> DEFINE row == [event |-> "delegation.created", user |-> delegation[d].user,
                     key |-> delegation[d].key, saw |-> delegation[d].saw]
  <2>1. row \in AuditRow
    BY DEF DelegationsTyped, DelegationRow, AuditRow
  <2> HIDE DEF row
  <2>2. audited' = audited \/ audited' = Append(audited, row)
    BY <1>2 DEF Audits, row
  <2> QED
    BY <1>1, <2>1, <2>2, AppendProperties
<1>3. ASSUME NEW r \in Requests, Audits("request.submitted", submission[r])
      PROVE  audited' \in Seq(AuditRow)
  <2> DEFINE row == [event |-> "request.submitted", user |-> submission[r].user,
                     key |-> submission[r].key, saw |-> submission[r].saw]
  <2>1. row \in AuditRow
    BY DEF DelegationsTyped, SubmissionRow, AuditRow
  <2> HIDE DEF row
  <2>2. audited' = audited \/ audited' = Append(audited, row)
    BY <1>3 DEF Audits, row
  <2> QED
    BY <1>1, <2>1, <2>2, AppendProperties
<1> QED
  BY <1>1, <1>2, <1>3 DEF AuditStep

\* What each step does to the submissions: a request is submitted or aborted
\* by itself; a handler copies the source's delegation into a renewal.
RenewalAdded(r) ==
  \E g \in Grants :
    /\ grant[g].status \in Renewable /\ grant[g].request \in Requests
    /\ request[grant[g].request].status # "Absent"
    /\ AgentOf[r] = AgentOf[grant[g].request]
    /\ request'[r].renews = g
    /\ submission'[r].delegation = submission[grant[g].request].delegation
    /\ submission'[r].user = submission[grant[g].request].user

SubmissionHandled(r) ==
  /\ submission'[r] \in SubmissionRow
  /\ \/ /\ request[r].status = "Absent" /\ request'[r].status # "Absent" /\ ~Uncommitted(r)
        /\ RenewalAdded(r)
     \/ /\ request[r].status = "Absent" <=> request'[r].status = "Absent"
        /\ request'[r].status = "Absent" => submission'[r] = submission[r]
        /\ submission'[r].delegation = submission[r].delegation
        /\ submission'[r].user = submission[r].user

LEMMA HandleSteps ==
  ASSUME ChainInv, Handle, NEW r \in Requests
  PROVE  SubmissionHandled(r)
<1> USE DEF ChainInv
<1>1. /\ submission \in [Requests -> SubmissionRow] /\ submission[r] \in SubmissionRow
      /\ request \in [Requests -> RequestRow] /\ request' \in [Requests -> RequestRow]
  BY DelegationsHolding, RowTypes
  DEF DelegationsTyped, DelegationsNext, HoldingInv, RevocationInv, TypeInv, TypeOK
<1>2. PICK type \in Types :
        submission'[r] =
          IF Renewed(r)
          THEN [submission[request'[r].source] EXCEPT !.key = NoCallKey, !.saw = 0]
          ELSE IF Evaluated(r) THEN [submission[r] EXCEPT !.type = type] ELSE submission[r]
  BY DEF Handle
<1>3. CASE request[r].status = "Absent" /\ request'[r].status # "Absent"
  <2>1. request'[r].status # "Submitted" /\ ~Uncommitted(r)
    BY <1>3 DEF Handle
  <2>2. ~CreateRequest(r)
    BY <1>1, <2>1 DEF CreateRequest, RequestRow
  <2>3. PICK g \in Grants, duration \in Durations : RenewGrant(r, g, duration)
    BY <1>3, <2>2, NewRequests DEF Handle
  <2> DEFINE s == grant[g].request
  <2>4. /\ grant[g].status \in Renewable /\ AgentOf[r] = AgentOf[s]
        /\ request'[r].source = s /\ request'[r].renews = g
        /\ request'[r].status = "PendingApproval"
    BY <1>1, <2>3 DEF RenewGrant, RenewalRequest
  <2>5. s \in Requests /\ request[s].status # "Absent"
    BY <2>4, HolderFacts, HoldsByStatus DEF Exists, Renewable
  <2>6. submission[s] \in SubmissionRow
        /\ submission'[r] = [submission[s] EXCEPT !.key = NoCallKey, !.saw = 0]
    BY <1>1, <1>2, <1>3, <2>4, <2>5 DEF Renewed
  <2>7. \A row \in SubmissionRow :
          LET copy == [row EXCEPT !.key = NoCallKey, !.saw = 0] IN
          copy \in SubmissionRow /\ copy.user = row.user /\ copy.delegation = row.delegation
    BY DEF SubmissionRow
  <2>8. submission'[r] \in SubmissionRow /\ submission'[r].user = submission[s].user
        /\ submission'[r].delegation = submission[s].delegation
    BY <2>6, <2>7
  <2> QED
    BY <1>3, <2>1, <2>4, <2>5, <2>8 DEF SubmissionHandled, RenewalAdded
<1>4. CASE request[r].status = "Absent" <=> request'[r].status = "Absent"
  <2>1. ~Renewed(r)
    BY <1>4 DEF Renewed
  <2>2. request'[r].status = "Absent" => ~Evaluated(r)
    BY DEF Evaluated
  <2>3. \/ submission'[r] = submission[r]
        \/ ~(request'[r].status = "Absent") /\ submission'[r] = [submission[r] EXCEPT !.type = type]
    BY <1>2, <2>1, <2>2
  <2>4. [submission[r] EXCEPT !.type = type] \in SubmissionRow
        /\ [submission[r] EXCEPT !.type = type].delegation = submission[r].delegation
        /\ [submission[r] EXCEPT !.type = type].user = submission[r].user
    BY <1>1 DEF SubmissionRow
  <2> QED
    BY <1>1, <1>4, <2>3, <2>4 DEF SubmissionHandled
<1> QED
  BY <1>3, <1>4, RequestsStay DEF Handle

\* The kinds of step.
LEMMA DelegationsSteps ==
  ASSUME ChainInv, [DelegationsNext]_delegationVars
  PROVE  \/ UNCHANGED <<vars, delegation, submission>>
         \/ \E d \in DelegationIds : DelegationWritten(d)
         \/ \E r \in Requests, u \in Users, d \in DelegationIds, k \in CallKeys \cup {NoCallKey} :
              SubmitRequest(r, u, d, k)
         \/ \E r \in Requests :
              /\ Uncommitted(r) /\ UNCHANGED <<vars, delegation, audited>>
              /\ submission' = [submission EXCEPT ![r] = AbsentSubmission]
         \/ \E r \in Requests : CommitRequest(r)
         \/ Handle
<1>1. CASE UNCHANGED delegationVars
  BY <1>1 DEF delegationVars
<1>2. CASE Abort
  BY <1>2, DelegationSteps DEF Abort
<1>3. CASE \E d \in DelegationIds :
             \/ \E u \in Users, a \in Agents, scope \in SUBSET Types, expire \in Expiries,
                   k \in CallKeys \cup {NoCallKey} : CreateDelegation(d, u, a, scope, expire, k)
             \/ CommitDelegation(d)
             \/ ReadDelegation(d)
  BY <1>3, DelegationSteps
<1> QED
  BY <1>1, <1>2, <1>3 DEF DelegationsNext

\* A committed delegation stays, and says of user and agent what it said.
DelegationStays(d) ==
  Committed(d) =>
    Committed(d)' /\ delegation'[d].user = delegation[d].user
    /\ delegation'[d].agent = delegation[d].agent

LEMMA WrittenChain ==
  ASSUME ChainInv, NEW d \in DelegationIds, DelegationWritten(d)
  PROVE  /\ delegation' \in [DelegationIds -> DelegationRow]
         /\ \A e \in DelegationIds : Granted(e)' /\ DelegationStays(e)
<1>1. delegation \in [DelegationIds -> DelegationRow] /\ \A e \in DelegationIds : Granted(e)
  BY DEF ChainInv, DelegationsTyped
<1>2. ASSUME NEW e \in DelegationIds
      PROVE  delegation'[e] \in DelegationRow /\ Granted(e)' /\ DelegationStays(e)
  <2>1. CASE e = d
    BY <2>1 DEF DelegationWritten, DelegationStays, Committed
  <2>2. CASE e # d
    <3>1. delegation'[e] = delegation[e]
      BY <1>1, <2>2 DEF DelegationWritten
    <3> QED
      BY <1>1, <3>1 DEF Granted, DelegationStays, Committed, WithinCapability
  <2> QED
    BY <2>1, <2>2
<1> QED
  BY <1>1, <1>2 DEF DelegationWritten

\* A submission keeps its delegation, is gone, or names a committed one.
SubmissionStep(r) ==
  LET row == submission'[r]
      d   == row.delegation
  IN
  /\ row \in SubmissionRow
  /\ \/ d = submission[r].delegation /\ row.user = submission[r].user
     \/ d = NoDelegation
     \/ /\ d \in DelegationIds /\ Committed(d)
        /\ delegation[d].user = row.user /\ delegation[d].agent = AgentOf[r]
  /\ Submitted(r)'

LEMMA SubmitSteps ==
  ASSUME ChainInv, NEW q \in Requests, NEW u \in Users, NEW d \in DelegationIds,
         NEW k \in CallKeys \cup {NoCallKey}, SubmitRequest(q, u, d, k), NEW r \in Requests
  PROVE  SubmissionStep(r) /\ submission' \in [Requests -> SubmissionRow]
<1> DEFINE row == [user |-> u, delegation |-> d, type |-> NoType, key |-> k, saw |-> Len(audited)]
<1>1. /\ submission \in [Requests -> SubmissionRow]
      /\ submission' = [submission EXCEPT ![q] = row] /\ UNCHANGED request
      /\ Committed(d) /\ delegation[d].user = u /\ delegation[d].agent = AgentOf[q]
      /\ Len(audited) \in Nat /\ request[q].status = "Absent"
  BY LenProperties
  DEF ChainInv, DelegationsTyped, SubmitRequest, InForce, DelegatedBy, Committed, vars
<1>2. row \in SubmissionRow /\ row.user = u /\ row.delegation = d
  BY <1>1 DEF SubmissionRow
<1> HIDE DEF row
<1>3. submission' \in [Requests -> SubmissionRow]
  BY <1>1, <1>2
<1>4. CASE r = q
  BY <1>1, <1>2, <1>4 DEF SubmissionStep, Submitted
<1>5. CASE r # q
  <2>1. submission'[r] = submission[r] /\ submission[r] \in SubmissionRow /\ Submitted(r)
    BY <1>1, <1>5 DEF ChainInv
  <2> QED
    BY <1>1, <1>3, <2>1 DEF SubmissionStep, Submitted
<1> QED
  BY <1>3, <1>4, <1>5

LEMMA AbortSteps ==
  ASSUME ChainInv, NEW q \in Requests, Uncommitted(q), UNCHANGED vars,
         submission' = [submission EXCEPT ![q] = AbsentSubmission], NEW r \in Requests
  PROVE  SubmissionStep(r) /\ submission' \in [Requests -> SubmissionRow]
<1>1. /\ submission \in [Requests -> SubmissionRow] /\ UNCHANGED request
      /\ request[q].status = "Absent"
  BY DEF ChainInv, DelegationsTyped, Uncommitted, vars
<1>2. AbsentSubmission \in SubmissionRow /\ AbsentSubmission.delegation = NoDelegation
  BY DEF SubmissionRow, AbsentSubmission
<1>3. submission' \in [Requests -> SubmissionRow]
  BY <1>1, <1>2
<1>4. CASE r = q
  BY <1>1, <1>2, <1>4 DEF SubmissionStep, Submitted
<1>5. CASE r # q
  <2>1. submission'[r] = submission[r] /\ submission[r] \in SubmissionRow /\ Submitted(r)
    BY <1>1, <1>5 DEF ChainInv
  <2> QED
    BY <1>1, <1>3, <2>1 DEF SubmissionStep, Submitted
<1> QED
  BY <1>3, <1>4, <1>5

LEMMA KeptSubmissions ==
  ASSUME ChainInv, UNCHANGED submission, NEW r \in Requests,
         request'[r].status = request[r].status \/ Uncommitted(r)
  PROVE  SubmissionStep(r) /\ submission' \in [Requests -> SubmissionRow]
<1>1. submission \in [Requests -> SubmissionRow] /\ Submitted(r)
  BY DEF ChainInv, DelegationsTyped
<1>2. submission[r] \in SubmissionRow
  BY <1>1
<1> QED
  BY <1>1, <1>2 DEF SubmissionStep, Submitted, Uncommitted

LEMMA CommitSteps ==
  ASSUME ChainInv, NEW q \in Requests, CommitRequest(q), NEW r \in Requests
  PROVE  SubmissionStep(r) /\ submission' \in [Requests -> SubmissionRow]
<1>1. r # q => request'[r] = request[r]
  BY RowTypes DEF CommitRequest, ChainInv
<1> QED
  BY <1>1, KeptSubmissions DEF CommitRequest

LEMMA HandledSteps ==
  ASSUME ChainInv, Handle, NEW r \in Requests
  PROVE  SubmissionStep(r)
<1>1. SubmissionHandled(r) /\ Submitted(r)
  BY HandleSteps DEF ChainInv
<1>2. CASE RenewalAdded(r)
  <2>1. PICK g \in Grants :
          /\ grant[g].request \in Requests
          /\ request[grant[g].request].status # "Absent"
          /\ AgentOf[r] = AgentOf[grant[g].request]
          /\ submission'[r].delegation = submission[grant[g].request].delegation
          /\ submission'[r].user = submission[grant[g].request].user
    BY <1>2 DEF RenewalAdded
  <2>2. UnderDelegation(grant[g].request) /\ Submitted(grant[g].request)
    BY <2>1 DEF ChainInv
  <2>3. submission[grant[g].request].delegation # NoDelegation
    BY <2>1, <2>2 DEF Submitted
  <2> QED
    BY <1>1, <2>1, <2>2, <2>3 DEF SubmissionStep, SubmissionHandled, UnderDelegation, Submitted
<1>3. CASE ~RenewalAdded(r)
  BY <1>1, <1>3 DEF SubmissionHandled, SubmissionStep, Submitted
<1> QED
  BY <1>2, <1>3

LEMMA ChainNext == ChainInv /\ [DelegationsNext]_delegationVars => ChainInv'
<1> SUFFICES ASSUME ChainInv, [DelegationsNext]_delegationVars PROVE ChainInv'
  OBVIOUS
<1>1. HoldingInv' /\ audited' \in Seq(AuditRow)
  BY DelegationsHolding, DelegationsAudit, AuditTyped DEF ChainInv
<1>2. /\ delegation' \in [DelegationIds -> DelegationRow]
      /\ \A d \in DelegationIds : Granted(d)' /\ DelegationStays(d)
  <2>1. CASE UNCHANGED delegation
    BY <2>1 DEF ChainInv, DelegationsTyped, Granted, DelegationStays, Committed, WithinCapability
  <2> QED
    BY <2>1, DelegationsSteps, WrittenChain DEF SubmitRequest, CommitRequest, Handle
<1>3. /\ \A r \in Requests : SubmissionStep(r)
      /\ submission' \in [Requests -> SubmissionRow]
  <2>1. CASE UNCHANGED <<vars, submission>>
    <3>1. submission \in [Requests -> SubmissionRow]
      BY DEF ChainInv, DelegationsTyped
    <3> QED
      BY <2>1, <3>1, KeptSubmissions DEF vars
  <2>2. CASE \E r \in Requests, u \in Users, d \in DelegationIds, k \in CallKeys \cup {NoCallKey} :
               SubmitRequest(r, u, d, k)
    BY <2>2, SubmitSteps
  <2>3. CASE \E r \in Requests :
               /\ Uncommitted(r) /\ UNCHANGED <<vars, delegation, audited>>
               /\ submission' = [submission EXCEPT ![r] = AbsentSubmission]
    BY <2>3, AbortSteps
  <2>4. CASE \E r \in Requests : CommitRequest(r)
    BY <2>4, CommitSteps
  <2>5. CASE Handle
    <3>1. \A r \in Requests : SubmissionStep(r) /\ submission'[r] \in SubmissionRow
      BY <2>5, HandledSteps DEF SubmissionStep
    <3>2. submission' = [r \in Requests |-> submission'[r]]
      BY <2>5 DEF Handle
    <3> QED
      BY <3>1, <3>2
  <2> QED
    BY <2>1, <2>2, <2>3, <2>4, <2>5, DelegationsSteps DEF DelegationWritten
<1>4. ASSUME NEW r \in Requests PROVE UnderDelegation(r)'
  <2>1. SubmissionStep(r) /\ UnderDelegation(r)
    BY <1>3 DEF ChainInv
  <2> QED
    BY <1>2, <2>1 DEF SubmissionStep, UnderDelegation, DelegationStays, Committed
<1> QED
  BY <1>1, <1>2, <1>3, <1>4 DEF ChainInv, DelegationsTyped, SubmissionStep

LEMMA ChainAlways == DelegationsSpec => []ChainInv
BY ChainInit, ChainNext, PTL DEF DelegationsSpec

\* An agent's every request, and the renewals of it, were made under a
\* committed delegation of its own user to it within its capability: for any
\* number of delegations, whatever is aborted, expires or is made twice.
THEOREM RequestsAreDelegated == DelegationsSpec => []DelegationChain
BY ChainAlways, ChainImplies, PTL

-----------------------------------------------------------------------------
LEMMA NothingNewAfterExpiry ==
  ASSUME ChainInv, [DelegationsNext]_delegationVars, NEW r \in Requests,
         submission[r].delegation = NoDelegation, submission'[r].delegation # NoDelegation,
         delegation[submission'[r].delegation].expire <= now
  PROVE  \E g \in Grants :
           /\ request'[r].renews = g /\ grant[g].status \in Renewable
           /\ submission[grant[g].request].delegation = submission'[r].delegation
<1>1. submission \in [Requests -> SubmissionRow]
  BY DEF ChainInv, DelegationsTyped
<1>2. submission'[r] # submission[r]
  OBVIOUS
<1>3. ASSUME NEW q \in Requests, NEW u \in Users, NEW d \in DelegationIds,
             NEW k \in CallKeys \cup {NoCallKey}, SubmitRequest(q, u, d, k)
      PROVE  FALSE
  <2> DEFINE row == [user |-> u, delegation |-> d, type |-> NoType, key |-> k, saw |-> Len(audited)]
  <2>1. submission' = [submission EXCEPT ![q] = row] /\ delegation[d].expire > now
        /\ d \in DelegationIds
    BY <1>3 DEF SubmitRequest, InForce
  <2>2. submission'[r].delegation = d
    BY <1>1, <1>2, <2>1
  <2>3. delegation[d].expire \in Nat /\ now \in Nat
    BY RowTypes DEF ChainInv, DelegationsTyped, DelegationRow, HoldingInv, RevocationInv, TypeInv,
       TypeOK
  <2> QED
    BY <2>1, <2>2, <2>3
<1>4. ~\E q \in Requests :
         /\ Uncommitted(q) /\ UNCHANGED <<vars, delegation, audited>>
         /\ submission' = [submission EXCEPT ![q] = AbsentSubmission]
  BY <1>1, <1>2 DEF AbsentSubmission
<1>5. Handle
  BY <1>2, <1>3, <1>4, DelegationsSteps DEF DelegationWritten, CommitRequest
<1> QED
  BY <1>5, HandleSteps DEF SubmissionHandled, RenewalAdded

\* Whenever a request, new or renewed, comes under a delegation whose time is
\* up, it is a renewal of a grant obtained under that delegation and still in
\* force: no submission slips in before somebody reads the expiry.
THEOREM ExpiredDelegationsOnlyRenew == DelegationsSpec => OnlyRenewedAfterExpiry
<1>1. ChainInv /\ [DelegationsNext]_delegationVars =>
        [\A r \in Requests :
           LET d == submission'[r].delegation IN
           submission[r].delegation = NoDelegation /\ d # NoDelegation /\ delegation[d].expire <= now =>
             \E g \in Grants :
               /\ request'[r].renews = g /\ grant[g].status \in Renewable
               /\ submission[grant[g].request].delegation = d]_delegationVars
  BY NothingNewAfterExpiry
<1> QED
  BY <1>1, ChainAlways, PTL DEF DelegationsSpec, OnlyRenewedAfterExpiry

-----------------------------------------------------------------------------
(***************************************************************************)
(* Idempotency keys: what a call that has not committed has seen.          *)
(***************************************************************************)
SameCall(entry, event, row) ==
  entry.event = event /\ entry.user = row.user /\ entry.key = row.key

\* When the call looked at the audit, it was not there that its key was used.
Unseen(event, row, trail) ==
  /\ row.saw \in Nat /\ row.saw <= Len(trail)
  /\ \A i \in DOMAIN trail : SameCall(trail[i], event, row) => row.saw < i

Overlapping(trail) ==
  \A i, j \in DOMAIN trail :
    i < j /\ SameCall(trail[i], trail[j].event, trail[j]) => trail[j].saw < i

AuditInv ==
  /\ \A d \in DelegationIds :
       delegation[d].status = "Uncommitted" => Unseen("delegation.created", delegation[d], audited)
  /\ \A r \in Requests :
       Uncommitted(r) => Unseen("request.submitted", submission[r], audited)
  /\ Overlapping(audited)

LEMMA UnseenAppended ==
  ASSUME NEW trail \in Seq(AuditRow), NEW entry \in AuditRow, NEW event, NEW row,
         Unseen(event, row, trail)
  PROVE  Unseen(event, row, Append(trail, entry))
<1>1. /\ Len(Append(trail, entry)) = Len(trail) + 1
      /\ DOMAIN Append(trail, entry) = 1 .. Len(trail) + 1
      /\ \A i \in 1 .. Len(trail) : Append(trail, entry)[i] = trail[i]
      /\ Len(trail) \in Nat /\ DOMAIN trail = 1 .. Len(trail)
  BY AppendProperties, LenProperties
<1> QED
  BY <1>1 DEF Unseen

LEMMA OverlappingAppended ==
  ASSUME NEW trail \in Seq(AuditRow), NEW entry \in AuditRow,
         Overlapping(trail), Unseen(entry.event, entry, trail)
  PROVE  Overlapping(Append(trail, entry))
<1>1. /\ DOMAIN Append(trail, entry) = 1 .. Len(trail) + 1
      /\ Append(trail, entry)[Len(trail) + 1] = entry
      /\ \A i \in 1 .. Len(trail) : Append(trail, entry)[i] = trail[i]
      /\ Len(trail) \in Nat /\ DOMAIN trail = 1 .. Len(trail)
  BY AppendProperties, LenProperties
<1> QED
  BY <1>1 DEF Unseen, Overlapping

\* Whatever a step appends, a call that goes on had not seen it.
LEMMA AuditKeeps ==
  ASSUME ChainInv, AuditInv, AuditStep
  PROVE  /\ Overlapping(audited')
         /\ \A event, row : Unseen(event, row, audited) => Unseen(event, row, audited')
<1>1. audited \in Seq(AuditRow) /\ Overlapping(audited)
  BY DEF ChainInv, DelegationsTyped, AuditInv
<1>2. CASE UNCHANGED audited
  BY <1>1, <1>2
<1>3. ASSUME NEW entry \in AuditRow, audited' = Append(audited, entry),
             Unseen(entry.event, entry, audited)
      PROVE  /\ Overlapping(audited')
             /\ \A event, row : Unseen(event, row, audited) => Unseen(event, row, audited')
  BY <1>1, <1>3, UnseenAppended, OverlappingAppended
<1>4. ASSUME NEW event \in {"delegation.created", "request.submitted"}, NEW row,
             row \in DelegationRow \/ row \in SubmissionRow,
             Audits(event, row), Unseen(event, row, audited)
      PROVE  /\ Overlapping(audited')
             /\ \A e, w : Unseen(e, w, audited) => Unseen(e, w, audited')
  <2> DEFINE entry == [event |-> event, user |-> row.user, key |-> row.key, saw |-> row.saw]
  <2>1. entry \in AuditRow /\ entry.event = event
    BY <1>4 DEF DelegationRow, SubmissionRow, AuditRow
  <2>2. Unseen(entry.event, entry, audited)
    BY <1>4 DEF Unseen, SameCall
  <2>3. UNCHANGED audited \/ audited' = Append(audited, entry)
    BY <1>4 DEF Audits
  <2> HIDE DEF entry
  <2> QED
    BY <1>2, <1>3, <2>1, <2>2, <2>3
<1>5. CASE \E d \in DelegationIds :
             delegation[d].status = "Uncommitted" /\ Audits("delegation.created", delegation[d])
  <2>1. PICK d \in DelegationIds :
          delegation[d].status = "Uncommitted" /\ Audits("delegation.created", delegation[d])
    BY <1>5
  <2>2. delegation[d] \in DelegationRow /\ Unseen("delegation.created", delegation[d], audited)
    BY <2>1 DEF ChainInv, DelegationsTyped, AuditInv
  <2> QED
    BY <1>4, <2>1, <2>2
<1>6. CASE \E r \in Requests : Uncommitted(r) /\ Audits("request.submitted", submission[r])
  <2>1. PICK r \in Requests : Uncommitted(r) /\ Audits("request.submitted", submission[r])
    BY <1>6
  <2>2. submission[r] \in SubmissionRow /\ Unseen("request.submitted", submission[r], audited)
    BY <2>1 DEF ChainInv, DelegationsTyped, AuditInv
  <2> QED
    BY <1>4, <2>1, <2>2
<1> QED
  BY <1>2, <1>5, <1>6 DEF AuditStep

LEMMA LooksBefore ==
  ASSUME ChainInv, NEW event, NEW row, ~KeyUsed(event, row.user, row.key), row.saw = Len(audited)
  PROVE  Unseen(event, row, audited)
<1>1. Len(audited) \in Nat
  BY LenProperties DEF ChainInv, DelegationsTyped
<1> QED
  BY <1>1 DEF KeyUsed, Unseen, SameCall

\* A row that is not committed was so before, or is new and has seen it all.
LEMMA UncommittedDelegation ==
  ASSUME ChainInv, [DelegationsNext]_delegationVars, NEW d \in DelegationIds,
         delegation'[d].status = "Uncommitted"
  PROVE  \/ delegation'[d] = delegation[d]
         \/ Unseen("delegation.created", delegation'[d], audited)
<1>1. delegation \in [DelegationIds -> DelegationRow]
  BY DEF ChainInv, DelegationsTyped
<1>2. CASE UNCHANGED delegation
  BY <1>2
<1>3. CASE Abort
  BY <1>1, <1>3 DEF Abort, AbsentDelegation
<1>4. ASSUME NEW e \in DelegationIds, NEW u \in Users, NEW a \in Agents,
             NEW scope \in SUBSET Types, NEW expire \in Expiries,
             NEW k \in CallKeys \cup {NoCallKey}, CreateDelegation(e, u, a, scope, expire, k)
      PROVE  \/ delegation'[d] = delegation[d]
             \/ Unseen("delegation.created", delegation'[d], audited)
  <2> DEFINE row == [status |-> "Uncommitted", user |-> u, agent |-> a, scope |-> scope,
                     expire |-> expire, key |-> k, saw |-> Len(audited)]
  <2>1. delegation'[d] = delegation[d] \/ delegation'[d] = row
    BY <1>1, <1>4 DEF CreateDelegation
  <2>2. row.user = u /\ row.key = k /\ row.saw = Len(audited)
    OBVIOUS
  <2>3. ~KeyUsed("delegation.created", u, k)
    BY <1>4 DEF CreateDelegation
  <2> HIDE DEF row
  <2> QED
    BY <2>1, <2>2, <2>3, LooksBefore
<1>5. CASE \E e \in DelegationIds : CommitDelegation(e) \/ ReadDelegation(e)
  <2>1. PICK e \in DelegationIds : CommitDelegation(e) \/ ReadDelegation(e)
    BY <1>5
  <2>2. delegation[e] \in DelegationRow
    BY <1>1
  <2>3. \/ delegation' = [delegation EXCEPT ![e] = [delegation[e] EXCEPT !.status = "Active"]]
        \/ delegation' = [delegation EXCEPT ![e] = [delegation[e] EXCEPT !.status = "Expired"]]
    BY <1>1, <2>1 DEF CommitDelegation, ReadDelegation
  <2> QED
    BY <1>1, <2>2, <2>3 DEF DelegationRow
<1> QED
  BY <1>2, <1>3, <1>4, <1>5
  DEF DelegationsNext, delegationVars, SubmitRequest, CommitRequest, Handle

LEMMA UncommittedRequest ==
  ASSUME ChainInv, [DelegationsNext]_delegationVars, NEW r \in Requests, Uncommitted(r)'
  PROVE  \/ Uncommitted(r) /\ submission'[r] = submission[r]
         \/ Unseen("request.submitted", submission'[r], audited)
<1>1. submission \in [Requests -> SubmissionRow]
  BY DEF ChainInv, DelegationsTyped
<1>2. CASE UNCHANGED <<vars, submission>>
  BY <1>2 DEF Uncommitted, vars
<1>3. ASSUME NEW q \in Requests, NEW u \in Users, NEW d \in DelegationIds,
             NEW k \in CallKeys \cup {NoCallKey}, SubmitRequest(q, u, d, k)
      PROVE  \/ Uncommitted(r) /\ submission'[r] = submission[r]
             \/ Unseen("request.submitted", submission'[r], audited)
  <2> DEFINE row == [user |-> u, delegation |-> d, type |-> NoType, key |-> k, saw |-> Len(audited)]
  <2>1. submission'[r] = submission[r] \/ submission'[r] = row
    BY <1>1, <1>3 DEF SubmitRequest
  <2>2. row.user = u /\ row.key = k /\ row.saw = Len(audited)
    OBVIOUS
  <2>3. ~KeyUsed("request.submitted", u, k) /\ UNCHANGED request
    BY <1>3 DEF SubmitRequest, vars
  <2> HIDE DEF row
  <2> QED
    BY <2>1, <2>2, <2>3, LooksBefore DEF Uncommitted
<1>4. CASE \E q \in Requests :
             /\ Uncommitted(q) /\ UNCHANGED <<vars, delegation, audited>>
             /\ submission' = [submission EXCEPT ![q] = AbsentSubmission]
  BY <1>1, <1>4 DEF Uncommitted, AbsentSubmission, vars
<1>5. CASE \E q \in Requests : CommitRequest(q)
  <2>1. PICK q \in Requests : CommitRequest(q)
    BY <1>5
  <2>2. request'[r] = request[r] /\ UNCHANGED submission
    BY <2>1, RowTypes DEF CommitRequest, Uncommitted, ChainInv, RequestRow
  <2> QED
    BY <2>2 DEF Uncommitted
<1>6. CASE Handle
  <2>1. SubmissionHandled(r) /\ request'[r].status = "Absent"
    BY <1>6, HandleSteps DEF Uncommitted
  <2> QED
    BY <2>1 DEF SubmissionHandled, Uncommitted
<1> QED
  BY <1>2, <1>3, <1>4, <1>5, <1>6, DelegationsSteps DEF DelegationWritten

LEMMA AuditNext == ChainInv /\ AuditInv /\ [DelegationsNext]_delegationVars => AuditInv'
<1> SUFFICES ASSUME ChainInv, AuditInv, [DelegationsNext]_delegationVars PROVE AuditInv'
  OBVIOUS
<1>1. /\ Overlapping(audited')
      /\ \A event, row : Unseen(event, row, audited) => Unseen(event, row, audited')
  BY AuditKeeps, DelegationsAudit
<1>2. ASSUME NEW d \in DelegationIds, delegation'[d].status = "Uncommitted"
      PROVE  Unseen("delegation.created", delegation'[d], audited')
  BY <1>1, <1>2, UncommittedDelegation DEF AuditInv
<1>3. ASSUME NEW r \in Requests, Uncommitted(r)'
      PROVE  Unseen("request.submitted", submission'[r], audited')
  BY <1>1, <1>3, UncommittedRequest DEF AuditInv
<1> QED
  BY <1>1, <1>2, <1>3 DEF AuditInv

\* Two delegations or requests for one Idempotency-Key come of two calls that
\* overlapped, neither seeing the other's audit row; a call made after the
\* other committed, however long after, finds what it made.
THEOREM KeysAreReusedInOverlap == DelegationsSpec => []KeyReusedInOverlap
<1>1. DelegationsInit => AuditInv
  BY DEF DelegationsInit, Init, AuditInv, AbsentDelegation, AbsentSubmission, Uncommitted, Overlapping
<1>2. AuditInv => KeyReusedInOverlap
  BY DEF AuditInv, Overlapping, SameCall, KeyReusedInOverlap
<1> QED
  BY <1>1, <1>2, AuditNext, ChainAlways, PTL DEF DelegationsSpec

=============================================================================
