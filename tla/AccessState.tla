---------------------------- MODULE AccessState ----------------------------
(***************************************************************************)
(* The committed database of the permission-governance service: the rows   *)
(* of permission_requests, approval_records, access_grants,                *)
(* session_contexts, connector_tasks and notification_tasks, the agents'   *)
(* status and the clock.  Every component module (PermissionRequests,      *)
(* Approvals, Provisioning, SessionAuthority, GrantLifecycle, FailedTasks) *)
(* EXTENDS this one and reads and writes these variables, as the services  *)
(* read and write the tables.                                              *)
(*                                                                         *)
(* Event and audit rows, messages, reasons and timestamps that no decision *)
(* reads are left out.                                                     *)
(***************************************************************************)
EXTENDS Naturals, Sequences

CONSTANTS
  Requests,      \* request ids
  Grants,        \* grant ids: a caller of the provision endpoint names one
  Agents,        \* agent ids
  Keys,          \* idempotency keys of approval callbacks
  AgentOf,       \* the agent each request id is created for
  DefaultGrant,  \* default_grant_id_for_request
  Durations,     \* requested durations, in units of the clock
  ReminderLead,  \* reminder_lead_time, in units of the clock
  MaxRetry,      \* max_retry_count of provision and of revoke tasks
  MaxTime,       \* bound on the clock
  NoRequest,     \* absent reference to a request
  NoGrant,       \* absent reference to a grant
  NoKey          \* absent idempotency key

ASSUME AccessStateAssumption ==
  /\ NoRequest \notin Requests
  /\ NoGrant \notin Grants
  /\ NoKey \notin Keys
  /\ AgentOf \in [Requests -> Agents]
  /\ DefaultGrant \in [Requests -> Grants]
  /\ Durations \subseteq Nat
  /\ ReminderLead \in Nat
  /\ MaxRetry \in Nat
  /\ MaxTime \in Nat

VARIABLES
  request,         \* permission_requests, by request id
  approval,        \* approval_records, by request id (at most one each)
  grant,           \* access_grants, by grant id
  session,         \* session_contexts, by grant id (unique per grant)
  provisionTasks,  \* connector_tasks of type provision, by grant id, oldest first
  revokeTasks,     \* connector_tasks of type session_revoke, by grant id
  reminders,       \* expiration reminders in notification_tasks, by grant id
  agentStatus,     \* agent_identities.agent_status
  now              \* the clock read by now_provider

vars == <<request, approval, grant, session, provisionTasks, revokeTasks,
          reminders, agentStatus, now>>

-----------------------------------------------------------------------------
(***************************************************************************)
(* Row types.  "Absent" stands for a row that does not exist.  Of the      *)
(* enumerations only the values a transaction can leave committed appear:  *)
(* Draft and Evaluating requests, ProvisioningRequested grants and Running *)
(* tasks exist only inside a transaction.                                  *)
(***************************************************************************)
RequestStatus ==
  {"Absent", "Submitted", "PendingApproval", "Approved", "Provisioning",
   "Active", "Expiring", "Expired", "Revoked", "Failed"}

ApprovalStatus ==
  {"NotRequired", "Pending", "Approved", "Rejected", "Withdrawn", "Expired",
   "CallbackFailed"}

GrantStatus ==
  {"NotCreated", "Provisioning", "Active", "Expiring", "Expired", "Revoking",
   "Revoked", "ProvisionFailed", "RevokeFailed"}

SessionStatus ==
  {"Absent", "Active", "Revoking", "Revoked", "Syncing", "SyncFailed"}

TaskStatus == {"Pending", "Retrying", "Succeeded", "Failed"}

ConnectorStatus == {"Accepted", "Applied", "Failed", "Partial"}

\* trigger_source of a revoke task: the code compares it with GrantExpired only.
Triggers == {"GrantExpired", "Requested"}

(***************************************************************************)
(* A request row.  "source" and "renews" are the renewal_context of        *)
(* structured_request_json; "deliverable" says that resource and action    *)
(* are among those the connector provisions (doc or report, read).         *)
(***************************************************************************)
RequestRow ==
  [status : RequestStatus, approval : ApprovalStatus, grant : GrantStatus,
   source : Requests \cup {NoRequest}, renews : Grants \cup {NoGrant},
   round : Nat, duration : Nat, deliverable : BOOLEAN]

ApprovalRow == [status : ApprovalStatus \cup {"Absent"}, key : Keys \cup {NoKey}]

GrantRow ==
  [status : GrantStatus, connector : ConnectorStatus,
   request : Requests \cup {NoRequest}, expire : Nat]

SessionRow == [status : SessionStatus, request : Requests \cup {NoRequest}]

ProvisionTaskRow == [status : TaskStatus, retry : Nat]

RevokeTaskRow == [status : TaskStatus, retry : Nat, trigger : Triggers]

ReminderRow == [expire : Nat, round : Nat]

(***************************************************************************)
(* The type invariant: which values each table can hold after a commit.    *)
(* No transaction leaves a row in one of the transient states above.       *)
(***************************************************************************)
TypeOK ==
  /\ request \in [Requests -> RequestRow]
  /\ approval \in [Requests -> ApprovalRow]
  /\ grant \in [Grants -> GrantRow]
  /\ session \in [Grants -> SessionRow]
  /\ provisionTasks \in [Grants -> Seq(ProvisionTaskRow)]
  /\ revokeTasks \in [Grants -> Seq(RevokeTaskRow)]
  /\ reminders \in [Grants -> Seq(ReminderRow)]
  /\ agentStatus \in [Agents -> {"Active", "Disabled"}]
  /\ now \in Nat

-----------------------------------------------------------------------------
(***************************************************************************)
(* The empty database.                                                     *)
(***************************************************************************)
AbsentRequest ==
  [status |-> "Absent", approval |-> "NotRequired", grant |-> "NotCreated",
   source |-> NoRequest, renews |-> NoGrant,
   round |-> 0, duration |-> 0, deliverable |-> FALSE]

AbsentApproval == [status |-> "Absent", key |-> NoKey]

AbsentGrant ==
  [status |-> "NotCreated", connector |-> "Accepted", request |-> NoRequest,
   expire |-> 0]

AbsentSession == [status |-> "Absent", request |-> NoRequest]

Init ==
  /\ request = [r \in Requests |-> AbsentRequest]
  /\ approval = [r \in Requests |-> AbsentApproval]
  /\ grant = [g \in Grants |-> AbsentGrant]
  /\ session = [g \in Grants |-> AbsentSession]
  /\ provisionTasks = [g \in Grants |-> <<>>]
  /\ revokeTasks = [g \in Grants |-> <<>>]
  /\ reminders = [g \in Grants |-> <<>>]
  /\ agentStatus = [a \in Agents |-> "Active"]
  /\ now = 0

-----------------------------------------------------------------------------
\* The row a query ordered by created_at DESC returns first.
LatestOf(tasks) == tasks[Len(tasks)]

\* list_pending_session_revoke_tasks selects these; Running is never committed.
IsOpen(task) == task.status \in {"Pending", "Retrying"}

Renewable == {"Active", "Expiring"}

\* Time passes between transactions.
Tick ==
  /\ now < MaxTime
  /\ now' = now + 1
  /\ UNCHANGED <<request, approval, grant, session, provisionTasks,
                 revokeTasks, reminders, agentStatus>>

=============================================================================
