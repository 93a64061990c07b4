----------------------------- MODULE Delegations -----------------------------
(***************************************************************************)
(* DelegationService, and the requests an agent submits under a delegation *)
(* of its user: who may act for whom, and until when.  The expiry of a     *)
(* delegation is recorded only when somebody reads it.  Creating a         *)
(* delegation or a request is two steps here, since of two calls at once   *)
(* with one Idempotency-Key each may look before the other has committed.  *)
(*                                                                         *)
(* The one task scope there is, permission_self_service, is left out, as   *)
(* are allowed_actions, which are checked as resource_types are.  No code  *)
(* revokes a delegation or changes the status of a user.                   *)
(***************************************************************************)
EXTENDS AccessSystem

CONSTANTS
  Users,
  DelegationIds,
  CallKeys,      \* Idempotency-Key headers
  NoCallKey,     \* a call without the header
  NoUser,
  NoDelegation,
  Types,         \* resource types
  NoType,        \* a request not evaluated yet
  Capability,    \* resource_types of the agents' capability_scope
  Expiries       \* the expire_at that users ask for

ASSUME DelegationsAssumption ==
  /\ NoCallKey \notin CallKeys
  /\ NoUser \notin Users
  /\ NoDelegation \notin DelegationIds
  /\ NoType \notin Types
  /\ Capability \in [Agents -> SUBSET Types]
  /\ Expiries \subseteq Nat

VARIABLES
  delegation,  \* delegation_credentials, by id
  submission,  \* what a permission_requests row says beside AccessState's
  audited      \* delegation.created and request.submitted in audit_records

delegationVars == <<vars, delegation, submission, audited>>

\* A row that its transaction has not committed is there, as "Uncommitted",
\* for nobody else; "saw" is how much of the audit its transaction had seen.
AbsentDelegation ==
  [status |-> "Absent", user |-> NoUser, agent |-> NoUser, scope |-> {},
   expire |-> 0, key |-> NoCallKey, saw |-> 0]

AbsentSubmission ==
  [user |-> NoUser, delegation |-> NoDelegation, type |-> NoType,
   key |-> NoCallKey, saw |-> 0]

Uncommitted(r) ==
  request[r].status = "Absent" /\ submission[r].delegation # NoDelegation

-----------------------------------------------------------------------------
\* Faulty: a delegation that has expired is not given again for its key.
KeyInForce(event, u, k) ==
  \E i \in DOMAIN audited :
    /\ audited[i].event = event /\ audited[i].user = u /\ audited[i].key = k
    /\ \E d \in DelegationIds :
         delegation[d].key = k /\ delegation[d].user = u /\ delegation[d].expire > now

\* get_latest_by_event_and_idempotency_key: the call was made before, and is
\* answered with what it made then.
KeyUsed(event, u, k) ==
  \E i \in DOMAIN audited :
    audited[i].event = event /\ audited[i].user = u /\ audited[i].key = k

Audit(event, u, k, saw) ==
  audited' = IF k = NoCallKey THEN audited
             ELSE Append(audited, [event |-> event, user |-> u, key |-> k, saw |-> saw])

\* _validate_scope_subset: an agent without resource_types is not restricted.
WithinCapability(scope, a) == Capability[a] = {} \/ scope \subseteq Capability[a]

\* POST /delegations, up to its commit.
CreateDelegation(d, u, a, scope, expire, k) ==
  /\ delegation[d].status = "Absent"
  /\ ~KeyUsed("delegation.created", u, k)
  /\ agentStatus[a] = "Active"
  /\ scope # {} /\ WithinCapability(scope, a)
  /\ expire > now
  /\ delegation' = [delegation EXCEPT ![d] =
       [status |-> "Uncommitted", user |-> u, agent |-> a, scope |-> scope,
        expire |-> expire, key |-> k, saw |-> Len(audited)]]
  /\ UNCHANGED <<vars, submission, audited>>

CommitDelegation(d) ==
  LET row == delegation[d] IN
  /\ row.status = "Uncommitted"
  /\ delegation' = [delegation EXCEPT ![d].status = "Active"]
  /\ Audit("delegation.created", row.user, row.key, row.saw)
  /\ UNCHANGED <<vars, submission>>

\* GET /delegations/{id}: the owner and administrators have the expiry
\* recorded; anybody else's FORBIDDEN rolls it back.
ReadDelegation(d) ==
  /\ delegation[d].status = "Active" /\ delegation[d].expire <= now
  /\ delegation' = [delegation EXCEPT ![d].status = "Expired"]
  /\ UNCHANGED <<vars, submission, audited>>

-----------------------------------------------------------------------------
\* Faulty: the recorded status is taken for the current one.
RecordedInForce(d) == delegation[d].status = "Active"

\* _sync_expired_status, then the checks on status and expiry.
InForce(d) == delegation[d].status = "Active" /\ delegation[d].expire > now

\* Faulty: another user's delegation to the agent will do.
DelegatedByAnyone(d, u, a) == delegation[d].agent = a

DelegatedBy(d, u, a) == delegation[d].user = u /\ delegation[d].agent = a

\* POST /permission-requests, up to its commit (the flush makes the row known
\* to nobody).
SubmitRequest(r, u, d, k) ==
  /\ request[r].status = "Absent" /\ ~Uncommitted(r)
  /\ ~KeyUsed("request.submitted", u, k)
  /\ agentStatus[AgentOf[r]] = "Active"
  /\ DelegatedBy(d, u, AgentOf[r])
  /\ InForce(d)
  /\ submission' = [submission EXCEPT ![r] =
       [user |-> u, delegation |-> d, type |-> NoType, key |-> k, saw |-> Len(audited)]]
  /\ UNCHANGED <<vars, delegation, audited>>

CommitRequest(r) ==
  LET row == submission[r] IN
  /\ Uncommitted(r)
  /\ request' = [request EXCEPT ![r].status = "Submitted"]
  /\ Audit("request.submitted", row.user, row.key, row.saw)
  /\ UNCHANGED <<approval, grant, session, provisionTasks, revokeTasks, reminders,
                 agentStatus, now, delegation, submission>>

\* A crash before the commit.
Abort ==
  \/ /\ \E d \in DelegationIds :
          /\ delegation[d].status = "Uncommitted"
          /\ delegation' = [delegation EXCEPT ![d] = AbsentDelegation]
     /\ UNCHANGED <<vars, submission, audited>>
  \/ /\ \E r \in Requests :
          /\ Uncommitted(r)
          /\ submission' = [submission EXCEPT ![r] = AbsentSubmission]
     /\ UNCHANGED <<vars, delegation, audited>>

-----------------------------------------------------------------------------
Evaluated(r) ==
  request[r].status \in {"Submitted", "Failed"} /\ request'[r].status = "PendingApproval"

Renewed(r) == request[r].status = "Absent" /\ request'[r].status = "PendingApproval"

\* Every other handler.  An evaluation finds the resource type in the text; a
\* renewal is made for the user, agent and delegation of its source.
Handle ==
  /\ Next
  /\ \A r \in Requests :
       /\ ~(request[r].status = "Absent" /\ request'[r].status = "Submitted")
       /\ Uncommitted(r) => request'[r] = request[r]
  /\ \E type \in Types :
       submission' = [r \in Requests |->
         IF Renewed(r)
         THEN [submission[request'[r].source] EXCEPT !.key = NoCallKey, !.saw = 0]
         ELSE IF Evaluated(r) THEN [submission[r] EXCEPT !.type = type] ELSE submission[r]]
  /\ UNCHANGED <<delegation, audited>>

DelegationsInit ==
  /\ Init
  /\ delegation = [d \in DelegationIds |-> AbsentDelegation]
  /\ submission = [r \in Requests |-> AbsentSubmission]
  /\ audited = <<>>

DelegationsNext ==
  \/ \E d \in DelegationIds :
       \/ \E u \in Users, a \in Agents, scope \in SUBSET Types, expire \in Expiries,
             k \in CallKeys \cup {NoCallKey} : CreateDelegation(d, u, a, scope, expire, k)
       \/ CommitDelegation(d)
       \/ ReadDelegation(d)
       \/ \E r \in Requests, u \in Users, k \in CallKeys \cup {NoCallKey} :
             SubmitRequest(r, u, d, k)
  \/ \E r \in Requests : CommitRequest(r)
  \/ Abort
  \/ Handle

DelegationsSpec == DelegationsInit /\ [][DelegationsNext]_delegationVars

-----------------------------------------------------------------------------
\* Every request, and every renewal of it however late, was made under a
\* committed delegation of its own user to its own agent, within what the
\* agent is capable of.
DelegationChain ==
  \A r \in Requests : request[r].status # "Absent" =>
    LET row == delegation[submission[r].delegation] IN
    /\ submission[r].delegation \in DelegationIds
    /\ row.status \in {"Active", "Expired"}
    /\ row.user = submission[r].user /\ row.agent = AgentOf[r]
    /\ row.scope # {} /\ WithinCapability(row.scope, row.agent)

\* The stored status of a delegation lags behind its expiry until somebody
\* reads it.  Once its time is up an agent gets nothing new from it all the
\* same: all that is still made under it are renewals, which check no
\* delegation, of grants obtained under it and still in force.
OnlyRenewedAfterExpiry ==
  [][\A r \in Requests :
       LET d == submission'[r].delegation IN
       submission[r].delegation = NoDelegation /\ d # NoDelegation /\ delegation[d].expire <= now =>
         \E g \in Grants :
           /\ request'[r].renews = g /\ grant[g].status \in Renewable
           /\ submission[grant[g].request].delegation = d]_delegationVars

\* Calls with one Idempotency-Key make a second delegation or request only if
\* they overlapped: the later to commit had looked before the other's commit.
KeyReusedInOverlap ==
  \A i, j \in DOMAIN audited :
    /\ i < j
    /\ audited[i].event = audited[j].event
    /\ audited[i].user = audited[j].user /\ audited[i].key = audited[j].key
    => audited[j].saw < i

\* docs/agent-identity-permission-technical-design.md:550: provisioning must
\* check on the server that the delegation is valid; and
\* docs/agent-identity-permission-srs.md:380: an expired delegation, or one
\* whose scope does not match, stops what follows.  Provisioning compares the
\* delegation's id with itself, and no caller asks validate_delegation.
ProvisionedUnderDelegation ==
  [][\A g \in Grants : Len(provisionTasks'[g]) > Len(provisionTasks[g]) =>
       LET r == grant'[g].request
           row == delegation[submission[r].delegation]
       IN  row.expire > now /\ submission[r].type \in row.scope]_delegationVars

=============================================================================
