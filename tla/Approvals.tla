----------------------------- MODULE Approvals -----------------------------
(***************************************************************************)
(* POST /approvals/callback: the answer of the approval system, which may  *)
(* be delivered twice, late or unreadable.  In the transaction of an       *)
(* approval the grant is provisioned, or the renewal completed; what fails *)
(* there is swallowed, and the approval stays.  Callbacks are signed by    *)
(* the provider and carry the request id they were submitted with.         *)
(***************************************************************************)
EXTENDS Provisioning, GrantLifecycle

\* Faulty: duplicates are recognised by their idempotency key only.
ProcessableByKey(r, k) ==
  /\ \A q \in Requests : approval[q].key # k
  /\ approval[r].status # "Absent"

\* An answered record, and an idempotency key already used on any record,
\* change nothing: handle_callback reports a duplicate or an error.
Processable(r, k) ==
  /\ \A q \in Requests : approval[q].key # k
  /\ approval[r].status \in {"Pending", "CallbackFailed"}

Awaited(r, k) == Processable(r, k) /\ request[r].status = "PendingApproval"

RecordCallback(r, k, status) ==
  approval' = [approval EXCEPT ![r] = [status |-> status, key |-> k]]

ApprovedRow(r) == [request[r] EXCEPT !.approval = "Approved", !.status = "Approved"]

IsRenewal(r) == request[r].source # NoRequest

\* Approved, for a first request: provisioned under its default grant id.
ApproveRequest(r, k, outcome) ==
  LET g == DefaultGrant[r]
      row == ApprovedRow(r)
  IN
  /\ Awaited(r, k)
  /\ ~IsRenewal(r)
  /\ RecordCallback(r, k, "Approved")
  /\ IF CanProvision(r, g, row)
     THEN /\ request' = [request EXCEPT ![r] = RequestAfterProvision(row, outcome)]
          /\ ProvisionEffect(r, g, now + row.duration, 0, outcome)
     ELSE /\ request' = [request EXCEPT ![r] = row]
          /\ UNCHANGED <<grant, session, provisionTasks>>
  /\ UNCHANGED <<revokeTasks, reminders, agentStatus, now>>

\* Approved, for a renewal: complete_approved_renewal.
ApproveRenewal(r, k) ==
  LET row == ApprovedRow(r) IN
  /\ Awaited(r, k)
  /\ IsRenewal(r)
  /\ RecordCallback(r, k, "Approved")
  /\ IF CanCompleteRenewal(row)
     THEN RenewalEffect(r, row)
     ELSE /\ request' = [request EXCEPT ![r] = row]
          /\ UNCHANGED <<grant, session>>
  /\ UNCHANGED <<provisionTasks, revokeTasks, reminders, agentStatus, now>>

\* Rejected, withdrawn or timed out.
DenyRequest(r, k, status) ==
  /\ Awaited(r, k)
  /\ RecordCallback(r, k, status)
  /\ request' = [request EXCEPT ![r] = [@ EXCEPT !.approval = status, !.status = "Failed"]]
  /\ UNCHANGED <<grant, session, provisionTasks, revokeTasks, reminders,
                 agentStatus, now>>

\* Faulty: an unreadable callback fails the request as a denial does.
FailCallbackAsDenial(r, k) ==
  /\ Processable(r, k)
  /\ RecordCallback(r, k, "CallbackFailed")
  /\ request' = [request EXCEPT
       ![r] = [@ EXCEPT !.approval = "CallbackFailed", !.status = "Failed"]]
  /\ UNCHANGED <<grant, session, provisionTasks, revokeTasks, reminders,
                 agentStatus, now>>

\* _apply_callback_failed: the provider reports a failure, or the callback's
\* status is unknown or its decision time unreadable.
FailCallback(r, k) ==
  /\ Processable(r, k)
  /\ RecordCallback(r, k, "CallbackFailed")
  /\ request' = [request EXCEPT ![r].approval = "CallbackFailed"]
  /\ UNCHANGED <<grant, session, provisionTasks, revokeTasks, reminders,
                 agentStatus, now>>

\* A status no callback may carry (Pending, NotRequired), or a request that
\* awaits no answer: refused, but the key is recorded and the router commits.
RefuseCallback(r, k) ==
  /\ Processable(r, k)
  /\ RecordCallback(r, k, approval[r].status)
  /\ UNCHANGED <<request, grant, session, provisionTasks, revokeTasks,
                 reminders, agentStatus, now>>

=============================================================================
