---------------------------- MODULE Provisioning ----------------------------
(***************************************************************************)
(* ProvisioningService: turning an approved request into a grant through   *)
(* the Feishu connector, and retrying a provisioning that failed.  The     *)
(* connector is called inside the transaction, so one step is one call.    *)
(***************************************************************************)
EXTENDS AccessState

\* What the connector's provision_access returns, or raises (Unavailable).
ProvisionOutcomes == {"Accepted", "Applied", "Failed", "Partial", "Unavailable"}

\* _recheck_policy: "row" is the request as the transaction sees it.
RecheckPolicy(row) == row.approval = "Approved" /\ row.deliverable

\* provision_grant refuses a request that already has a grant of another id.
NoOtherGrant(r, g) == \A h \in Grants \ {g} : grant[h].request # r

\* Faulty: a caller of the endpoint is trusted about the approval.
CanProvisionUnapproved(r, g, row) ==
  /\ row.deliverable
  /\ NoOtherGrant(r, g)
  /\ grant[g].status = "NotCreated"
  /\ row.grant = "NotCreated"

\* The grant does not exist: _require_approved_request_for_initial_provision.
CanProvision(r, g, row) ==
  /\ RecheckPolicy(row)
  /\ NoOtherGrant(r, g)
  /\ grant[g].status = "NotCreated"
  /\ row.status = "Approved"
  /\ row.grant = "NotCreated"

\* The grant failed before and force_retry is set: _require_retryable_state.
\* It tests the latest task of either type, which is a provisioning one: a
\* grant that failed to be provisioned has no revoke task.
CanRetryProvision(r, g) ==
  /\ RecheckPolicy(request[r])
  /\ NoOtherGrant(r, g)
  /\ grant[g].request = r
  /\ grant[g].status = "ProvisionFailed"
  /\ request[r].status = "Failed"
  /\ provisionTasks[g] # <<>>
  /\ revokeTasks[g] = <<>>
  /\ LatestOf(provisionTasks[g]).status = "Failed"
  /\ LatestOf(provisionTasks[g]).retry + 1 <= MaxRetry

-----------------------------------------------------------------------------
(***************************************************************************)
(* _apply_connector_response and _mark_provision_failure, by outcome.      *)
(***************************************************************************)
GrantStatusAfter(outcome) ==
  CASE outcome = "Accepted" -> "Provisioning"
    [] outcome = "Applied"  -> "Active"
    [] OTHER                -> "ProvisionFailed"

\* Faulty: an accepted provisioning is taken for an applied one.
RequestStatusAfterAccepted(outcome) ==
  IF outcome \in {"Accepted", "Applied"} THEN "Active" ELSE "Failed"

RequestStatusAfter(outcome) ==
  CASE outcome = "Accepted" -> "Provisioning"
    [] outcome = "Applied"  -> "Active"
    [] OTHER                -> "Failed"

\* Faulty: the exception is recorded as a connector status.
ConnectorStatusRaised(outcome) == outcome

ConnectorStatusAfter(outcome) ==
  IF outcome = "Unavailable" THEN "Failed" ELSE outcome

TaskStatusAfter(outcome) ==
  IF outcome \in {"Accepted", "Applied"} THEN "Succeeded" ELSE "Failed"

RequestAfterProvision(row, outcome) ==
  [row EXCEPT !.status = RequestStatusAfter(outcome),
              !.grant = GrantStatusAfter(outcome)]

\* bind_active_session creates the session of a grant, or resets it.
BoundSession(r) == [status |-> "Active", request |-> r]

\* The effect of one provisioning attempt on the grant's rows.
ProvisionEffect(r, g, expire, retry, outcome) ==
  /\ grant' = [grant EXCEPT ![g] =
       [status |-> GrantStatusAfter(outcome),
        connector |-> ConnectorStatusAfter(outcome),
        request |-> r, expire |-> expire]]
  /\ provisionTasks' = [provisionTasks EXCEPT ![g] =
       Append(@, [status |-> TaskStatusAfter(outcome), retry |-> retry])]
  /\ session' = IF outcome = "Applied"
                THEN [session EXCEPT ![g] = BoundSession(r)]
                ELSE session

-----------------------------------------------------------------------------
\* POST /grants/{grant_id}/provision and worker.grants.provision, first time.
ProvisionGrant(r, g, outcome) ==
  /\ CanProvision(r, g, request[r])
  /\ request' = [request EXCEPT ![r] = RequestAfterProvision(@, outcome)]
  /\ ProvisionEffect(r, g, now + request[r].duration, 0, outcome)
  /\ UNCHANGED <<approval, revokeTasks, reminders, agentStatus, now>>

\* The same with force_retry, and retry_connector_task of a provision task.
RetryProvision(r, g, outcome) ==
  /\ CanRetryProvision(r, g)
  /\ request' = [request EXCEPT ![r] = RequestAfterProvision(@, outcome)]
  /\ ProvisionEffect(r, g, grant[g].expire,
                     LatestOf(provisionTasks[g]).retry + 1, outcome)
  /\ UNCHANGED <<approval, revokeTasks, reminders, agentStatus, now>>

=============================================================================
