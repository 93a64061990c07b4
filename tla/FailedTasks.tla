---------------------------- MODULE FailedTasks ----------------------------
(***************************************************************************)
(* FailedTaskService.retry_connector_task: an administrator retries the    *)
(* latest failed task of a grant.  A provision task is retried through     *)
(* provision_grant with force_retry, which is Provisioning!RetryProvision; *)
(* a revoke task is requested again and processed in one transaction.      *)
(* The list of failed tasks marks those it takes to be retryable.          *)
(***************************************************************************)
EXTENDS Provisioning, SessionAuthority

\* Faulty: the retry budget is exceeded by one.
CanRetryRevokeOnce(g) ==
  /\ ~NoRevokeTask(g)
  /\ LatestOf(revokeTasks[g]).status = "Failed"
  /\ session[g].status = "SyncFailed"
  /\ LatestOf(revokeTasks[g]).retry <= MaxRetry
  /\ grant[g].request = session[g].request

\* _get_session_retry_denial_reason, and the check of request_session_revoke.
CanRetryRevoke(g) ==
  /\ ~NoRevokeTask(g)
  /\ LatestOf(revokeTasks[g]).status = "Failed"
  /\ session[g].status = "SyncFailed"
  /\ LatestOf(revokeTasks[g]).retry < MaxRetry
  /\ grant[g].request = session[g].request

\* POST /admin/connector-tasks/{task_id}/retry of a session_revoke task.
RetryRevoke(g, outcome) ==
  LET asked == GrantAfterRequest(grant[g])
      r == session[g].request
  IN
  /\ CanRetryRevoke(g)
  /\ session' = [session EXCEPT ![g] = SessionAfterRevoke(SessionAfterRequest(g), outcome)]
  /\ grant' = [grant EXCEPT ![g] = GrantAfterRevoke(asked, "Requested", outcome)]
  /\ request' = [request EXCEPT
       ![r] = RequestAfterRevoke([@ EXCEPT !.grant = asked.status], asked,
                                 "Requested", outcome)]
  /\ revokeTasks' = [revokeTasks EXCEPT ![g] =
       Append(@, [status |-> outcome, retry |-> NextRetry(g), trigger |-> "Requested"])]
  /\ UNCHANGED <<approval, provisionTasks, reminders, agentStatus, now>>

-----------------------------------------------------------------------------
(***************************************************************************)
(* GET /admin/failed-tasks: what the list takes to be retryable, without   *)
(* asking the services that will be called.  Failed approval callbacks are *)
(* listed too, never as retryable.                                         *)
(***************************************************************************)
\* The latest task of a grant, of either type, is a failed provisioning.
ListedProvision(g) ==
  /\ provisionTasks[g] # <<>> /\ NoRevokeTask(g)
  /\ LatestOf(provisionTasks[g]).status = "Failed"
  /\ LatestOf(provisionTasks[g]).retry < MaxRetry
  /\ request[grant[g].request].status = "Failed"
  /\ grant[g].status = "ProvisionFailed"

ListedRevoke(g) ==
  /\ ~NoRevokeTask(g)
  /\ LatestOf(revokeTasks[g]).status = "Failed"
  /\ LatestOf(revokeTasks[g]).retry < MaxRetry
  /\ session[g].status = "SyncFailed"

=============================================================================
