---------------------------- MODULE AccessSystem ----------------------------
(***************************************************************************)
(* The permission-governance service as a whole: its API handlers, the     *)
(* approval callbacks and its worker tasks as transactions on one          *)
(* database, in any order, and what must hold of the rows they share.      *)
(***************************************************************************)
EXTENDS PermissionRequests, Approvals, FailedTasks

\* What DenyRequest records: the terminal answers that are not an approval.
Denials == {"Rejected", "Withdrawn", "Expired"}

EvaluationStep ==
  \E r \in Requests, force \in BOOLEAN :
    \/ FailEvaluation(r, force)
    \/ \E required, deliverable \in BOOLEAN, duration \in Durations :
         EvaluateRequest(r, force, required, deliverable, duration)

CallbackStep ==
  \E r \in Requests, k \in Keys :
    \/ \E outcome \in ProvisionOutcomes : ApproveRequest(r, k, outcome)
    \/ ApproveRenewal(r, k)
    \/ \E status \in Denials : DenyRequest(r, k, status)
    \/ FailCallback(r, k)
    \/ RefuseCallback(r, k)

ProvisionStep ==
  \E r \in Requests, g \in Grants, outcome \in ProvisionOutcomes :
    ProvisionGrant(r, g, outcome) \/ RetryProvision(r, g, outcome)

RenewStep ==
  \E r \in Requests, g \in Grants, duration \in Durations : RenewGrant(r, g, duration)

RevokeStep ==
  \/ \E g \in Grants : RevokeSession(g)
  \/ \E a \in Agents : DisableAgent(a)
  \/ \E g \in Grants, outcome \in RevokeOutcomes : RetryRevoke(g, outcome)

ProcessPendingStep ==
  \E done \in SUBSET OpenTasks : ProcessPendingRevokes(done)

Next ==
  \/ \E r \in Requests : CreateRequest(r)
  \/ EvaluationStep
  \/ CallbackStep
  \/ ProvisionStep
  \/ RenewStep
  \/ RevokeStep
  \/ ProcessPendingStep
  \/ ReconcileGrantLifecycle
  \/ Tick

Spec == Init /\ [][Next]_vars

\* Celery beat schedules the reconciliation, and nothing else.
ScheduledSpec == Spec /\ WF_vars(ReconcileGrantLifecycle)

-----------------------------------------------------------------------------
(***************************************************************************)
(* Safety: relations between the tables that hold after every transaction. *)
(***************************************************************************)
Ending == {"Expired", "Revoking", "RevokeFailed", "Revoked"}

Exists(g) == grant[g].status # "NotCreated"

\* Every active session, the authority an agent acts with, rests on a grant
\* that is in force, confirmed by the connector, within scope, and held by
\* the session's own request, which was approved; and nobody asked for it to
\* be revoked.  (bind_active_session, renewal, revocation and expiry all
\* write parts of this chain.)
SessionBacked ==
  \A g \in Grants : session[g].status = "Active" =>
    LET r == grant[g].request IN
    /\ session[g].request = r
    /\ grant[g].status \in Renewable
    /\ grant[g].connector = "Applied"
    /\ request[r].status = grant[g].status
    /\ request[r].approval = "Approved" /\ approval[r].status = "Approved"
    /\ request[r].deliverable
    /\ NoRevokeTask(g)

\* The session status that goes with the status of its latest revoke task.
SessionBy(status) ==
  CASE status = "Pending"   -> "Revoking"
    [] status = "Retrying"  -> "Syncing"
    [] status = "Succeeded" -> "Revoked"
    [] OTHER                -> "SyncFailed"

Tracked(g) ==
  /\ \A i \in DOMAIN revokeTasks[g] : IsOpen(revokeTasks[g][i]) => i = Len(revokeTasks[g])
  /\ session[g].status \in {"Absent", "Active"} <=> NoRevokeTask(g)
  /\ ~NoRevokeTask(g) => session[g].status = SessionBy(LatestOf(revokeTasks[g]).status)

\* A revocation under way has exactly one open connector task, the latest,
\* which is a retry just when the session is syncing again; a settled one has
\* the outcome of its latest task.  A session without its task would never be
\* revoked, a task without its session would be processed for nothing.
RevocationTracked == \A g \in Grants : Tracked(g)

\* The attempts on a grant are numbered from 0 without a gap and never exceed
\* the retry budget, whichever of the four entry points retried.
RetryBudget ==
  \A g \in Grants :
    /\ \A i \in DOMAIN provisionTasks[g] :
         provisionTasks[g][i].retry = i - 1 /\ i - 1 <= MaxRetry
    /\ \A i \in DOMAIN revokeTasks[g] :
         revokeTasks[g][i].retry = i - 1 /\ i - 1 <= MaxRetry

\* The request status a grant's holder has when the grant has this status.
\* Revoking a session does not change it until the connector has answered.
HolderStatuses(status) ==
  CASE status = "ProvisionFailed"            -> {"Failed", "PendingApproval"}
    [] status \in {"Revoking", "RevokeFailed"} -> Renewable
    [] OTHER                                 -> {status}

\* The request holding a grant mirrors its status in grant_status, and its own
\* status and session agree with it: three tables written by seven handlers.
GrantMirrored ==
  \A g \in Grants : Exists(g) =>
    /\ grant[g].request \in Requests
    /\ request[grant[g].request].grant = grant[g].status
    /\ request[grant[g].request].status \in HolderStatuses(grant[g].status)
    /\ session[g].status # "Absent" => session[g].request = grant[g].request

\* No request holds two grants, and a request that says it is being given or
\* has access does hold one: a renewal takes the grant from its source.
OneHolder ==
  /\ \A g, h \in Grants :
       Exists(g) /\ Exists(h) /\ grant[g].request = grant[h].request => g = h
  /\ \A r \in Requests :
       request[r].status \in {"Provisioning", "Active", "Expiring"} =>
         \E g \in Grants : Exists(g) /\ grant[g].request = r

\* While an approval record is open its request awaits it with the same
\* status: otherwise the answer, when it comes, would be refused.
OpenApprovalIsAwaited ==
  \A r \in Requests : approval[r].status \in {"Pending", "CallbackFailed"} =>
    request[r].status = "PendingApproval" /\ request[r].approval = approval[r].status

\* However renewals are asked for, rejected, evaluated again and asked for
\* again, at most one unfailed request renews a grant from the same source.
OneOpenRenewal ==
  \A q, r \in Requests :
    /\ request[q].source # NoRequest /\ request[q].status # "Failed"
    /\ request[r].status # "Failed"
    /\ request[q].source = request[r].source
    => q = r

\* A request whose approval was denied holds no grant, whoever calls the
\* provision endpoint and however often it is evaluated again.
DeniedHoldsNothing ==
  \A r \in Requests : approval[r].status \in Denials =>
    /\ request[r].status \in {"Failed", "PendingApproval"}
    /\ \A g \in Grants : grant[g].request # r

\* A grant is announced as expiring once for each expiry date and renewal
\* round, and never left in Expiring without its announcement.
RemindedOnce ==
  \A g \in Grants :
    /\ \A i, j \in DOMAIN reminders[g] : reminders[g][i] = reminders[g][j] => i = j
    /\ grant[g].status = "Expiring" =>
         \E i \in DOMAIN reminders[g] :
           /\ reminders[g][i].expire = grant[g].expire
           /\ reminders[g][i].round = request[grant[g].request].round

\* A forced evaluation of the approved request failed.  The request says so,
\* its approval record still says Approved, and policy rechecks refuse it.
EvaluationFailed(r) ==
  /\ request[r].status = "Failed" /\ request[r].approval = "NotRequired"
  /\ approval[r].status = "Approved"

\* Every retry that the services would accept, the list of failed tasks offers,
\* though it asks other tables; and of what it offers they refuse one thing
\* only: to provision for a request whose evaluation failed since.  That offer
\* is the code's, and a click on it is answered with an error.
RetriesAreOffered ==
  \A g \in Grants :
    LET r == grant[g].request IN
    /\ Exists(g) =>
         /\ CanRetryProvision(r, g) => ListedProvision(g)
         /\ ListedProvision(g) => CanRetryProvision(r, g) \/ EvaluationFailed(r)
    /\ ListedRevoke(g) <=> CanRetryRevoke(g)

-----------------------------------------------------------------------------
(***************************************************************************)
(* Safety: what no transaction may do.                                     *)
(***************************************************************************)
\* Once revoked, or asked to be, a session never acts again, and a grant that
\* ended or is ending never comes back into force: not by a late renewal
\* approval, not by a retry, not by another provisioning.
RevocationFinal ==
  [][\A g \in Grants :
       /\ session[g].status \notin {"Absent", "Active"} =>
            session'[g].status \notin {"Absent", "Active"}
       /\ grant[g].status \in Ending => grant'[g].status \in Ending]_vars

\* A grant's expiry and holder move only when the approval of a renewal of it
\* arrives while it is in force, and by exactly the approved duration.
ExtendedByRenewal ==
  [][\A g \in Grants :
       Exists(g) /\ (grant'[g].expire # grant[g].expire \/ grant'[g].request # grant[g].request)
       => LET r == grant'[g].request IN
          /\ grant[g].status \in Renewable
          /\ request[r].renews = g /\ request[r].source = grant[g].request
          /\ approval[r].status # "Approved" /\ approval'[r].status = "Approved"
          /\ grant'[g].expire = grant[g].expire + request[r].duration]_vars

\* An approval is answered once: later callbacks, whatever their idempotency
\* key, leave the record as it is.
AnsweredOnce ==
  [][\A r \in Requests : approval[r].status \in Denials \cup {"Approved"} =>
       approval'[r] = approval[r]]_vars

\* A request becomes active only in the step in which the connector applied a
\* new provisioning of its grant, or in which its renewal was approved.
ActivatedByAttempt ==
  [][\A r \in Requests :
       request[r].status # "Active" /\ request'[r].status = "Active" =>
         \E g \in Grants :
           /\ grant'[g].request = r /\ grant'[g].status = "Active"
           /\ \/ /\ Len(provisionTasks'[g]) > Len(provisionTasks[g])
                 /\ LatestOf(provisionTasks'[g]).status = "Succeeded"
              \/ /\ request[r].renews = g
                 /\ approval[r].status # "Approved" /\ approval'[r].status = "Approved"]_vars

\* An expired or revoked request keeps that status for good.
EndedIsFinal ==
  [][\A r \in Requests : request[r].status \in {"Expired", "Revoked"} =>
       request'[r].status = request[r].status]_vars

-----------------------------------------------------------------------------
(***************************************************************************)
(* Liveness, under ScheduledSpec.                                          *)
(***************************************************************************)
Overdue(g) == grant[g].expire <= now

\* A grant whose time is up is taken out of force, or was extended.
DueReclaimed ==
  \A g \in Grants :
    grant[g].status \in Renewable /\ Overdue(g) ~>
      grant[g].status \notin Renewable \/ ~Overdue(g)

\* A session does not outlive its grant: it is asked to be revoked.
DueSessionEnds ==
  \A g \in Grants :
    session[g].status = "Active" /\ Overdue(g) ~>
      session[g].status # "Active" \/ ~Overdue(g)

\* Where the deployment keeps sending the task that processes the pending
\* revocations, which beat does not, a revocation under way is settled, in
\* success or in failure.
RevokeSettles ==
  WF_vars(ProcessPendingStep) =>
    \A g \in Grants :
      session[g].status \in {"Revoking", "Syncing"} ~>
        session[g].status \in {"Revoked", "SyncFailed"}

=============================================================================
