------------------------- MODULE PermissionRequests -------------------------
(***************************************************************************)
(* PermissionRequestService and PermissionRequestEvaluationService:        *)
(* creating a request, and evaluating it (parsing, risk, approval route),  *)
(* which also submits it for approval when one is required.                *)
(***************************************************************************)
EXTENDS AccessState

\* POST /permission-requests: user and delegation are taken to be valid.
CreateRequest(r) ==
  /\ request[r].status = "Absent"
  /\ agentStatus[AgentOf[r]] = "Active"
  /\ request' = [request EXCEPT ![r].status = "Submitted"]
  /\ UNCHANGED <<approval, grant, session, provisionTasks, revokeTasks,
                 reminders, agentStatus, now>>

\* Faulty: force_re_evaluate applies to ended requests too.
CanStartEnded(r, force) ==
  \/ request[r].status = "Submitted"
  \/ force /\ request[r].status \in {"Failed", "Expired", "Revoked"}

\* _can_start_evaluation: a failed request needs force_re_evaluate.
CanStartEvaluation(r, force) ==
  \/ request[r].status = "Submitted"
  \/ force /\ request[r].status = "Failed"

\* submit_approval_for_request: a request has at most one approval record;
\* if it has one already, that record is returned and nothing is submitted.
SubmitApproval(r) ==
  approval' = IF approval[r].status = "Absent"
              THEN [approval EXCEPT ![r] = [status |-> "Pending", key |-> NoKey]]
              ELSE approval

\* The evaluation's snapshot replaces structured_request_json and with it a
\* renewal_context.
EvaluatedRequest(row, required, deliverable, duration) ==
  [row EXCEPT !.status = "PendingApproval",
              !.approval = IF required THEN "Pending" ELSE "NotRequired",
              !.source = NoRequest, !.renews = NoGrant,
              !.duration = duration, !.deliverable = deliverable]

\* POST /permission-requests/{id}/evaluate, when the evaluation succeeds.
EvaluateRequest(r, force, required, deliverable, duration) ==
  /\ CanStartEvaluation(r, force)
  /\ request' = [request EXCEPT
       ![r] = EvaluatedRequest(@, required, deliverable, duration)]
  /\ IF required THEN SubmitApproval(r) ELSE UNCHANGED approval
  /\ UNCHANGED <<grant, session, provisionTasks, revokeTasks, reminders,
                 agentStatus, now>>

\* _mark_evaluation_failed: parser or policy raised.
FailEvaluation(r, force) ==
  /\ CanStartEvaluation(r, force)
  /\ request' = [request EXCEPT
       ![r] = [@ EXCEPT !.status = "Failed", !.approval = "NotRequired"]]
  /\ UNCHANGED <<approval, grant, session, provisionTasks, revokeTasks,
                 reminders, agentStatus, now>>

-----------------------------------------------------------------------------
\* Reading a request, or a page of the list it is on, builds a
\* PermissionRequest of each row, which raises for a row it finds illegal.
Readable(row) ==
  /\ row.status = "Active" => row.grant = "Active"
  /\ row.status = "Provisioning" => row.grant = "Provisioning"

=============================================================================
