--------------------------- MODULE GrantLifecycle ---------------------------
(***************************************************************************)
(* GrantLifecycleService: renewing a grant through a second request, and   *)
(* the hourly reconciliation that warns before a grant expires, expires it *)
(* and has its session revoked.                                            *)
(***************************************************************************)
EXTENDS SessionAuthority

\* Faulty: a renewal still waiting for approval is overlooked.
RenewalActive(g) ==
  \E r \in Requests : /\ request[r].status = "Active"
                      /\ request[r].renews = g /\ request[r].source = grant[g].request

\* _find_existing_renewal_request: the current request's next round was
\* already asked for, and that request has not failed.
RenewalOpen(g) ==
  \E r \in Requests :
    /\ request[r].status \notin {"Absent", "Failed"}
    /\ request[r].round = request[grant[g].request].round + 1
    /\ request[r].renews = g
    /\ request[r].source = grant[g].request

RenewalRequest(g, duration) ==
  LET source == request[grant[g].request] IN
  [status |-> "PendingApproval", approval |-> "Pending", grant |-> grant[g].status,
   source |-> grant[g].request, renews |-> g,
   round |-> source.round + 1, duration |-> duration,
   deliverable |-> source.deliverable]

\* POST /grants/{grant_id}/renew: the new request and its approval record.
\* An open renewal is returned instead, and nothing is written.
RenewGrant(r, g, duration) ==
  /\ request[r].status = "Absent"
  /\ grant[g].status \in Renewable
  /\ AgentOf[r] = AgentOf[grant[g].request]
  /\ duration > 0
  /\ ~RenewalOpen(g)
  /\ request' = [request EXCEPT ![r] = RenewalRequest(g, duration)]
  /\ approval' = [approval EXCEPT ![r] = [status |-> "Pending", key |-> NoKey]]
  /\ UNCHANGED <<grant, session, provisionTasks, revokeTasks, reminders,
                 agentStatus, now>>

-----------------------------------------------------------------------------
(***************************************************************************)
(* complete_approved_renewal, run when the approval of renewal r arrives:  *)
(* "row" is the renewal as the transaction sees it.                        *)
(***************************************************************************)
\* Faulty: the grant may have ended while the renewal waited for approval.
CanCompleteLate(row) ==
  /\ row.approval = "Approved"
  /\ row.status = "Approved"
  /\ grant[row.renews].request = row.source

\* Faulty: the grant may be held by another request meanwhile.
CanCompleteAnySource(row) ==
  /\ row.approval = "Approved"
  /\ row.status = "Approved"
  /\ grant[row.renews].status \in Renewable

CanCompleteRenewal(row) ==
  /\ row.approval = "Approved"
  /\ row.status = "Approved"
  /\ grant[row.renews].request = row.source
  /\ grant[row.renews].status \in Renewable

\* Faulty: the source keeps saying that it has access.
RenewalKeepsSource(r, row) ==
  LET g == row.renews IN
  /\ request' = [request EXCEPT ![r] = [row EXCEPT !.status = "Active", !.grant = "Active"]]
  /\ grant' = [grant EXCEPT ![g] =
       [@ EXCEPT !.request = r, !.status = "Active", !.expire = grant[g].expire + row.duration]]
  /\ session' = IF session[g].status = "Absent" THEN session
                ELSE [session EXCEPT ![g].request = r]

\* Faulty: the session stays with the source.
RenewalKeepsSession(r, row) ==
  LET g == row.renews IN
  /\ request' = [request EXCEPT
       ![row.source] = [@ EXCEPT !.status = "Expired", !.grant = "Expired"],
       ![r] = [row EXCEPT !.status = "Active", !.grant = "Active"]]
  /\ grant' = [grant EXCEPT ![g] =
       [@ EXCEPT !.request = r, !.status = "Active", !.expire = grant[g].expire + row.duration]]
  /\ UNCHANGED session

\* Faulty: the renewal starts from the approval, not from the current expiry.
RenewalFromNow(r, row) ==
  LET g == row.renews IN
  /\ request' = [request EXCEPT
       ![row.source] = [@ EXCEPT !.status = "Expired", !.grant = "Expired"],
       ![r] = [row EXCEPT !.status = "Active", !.grant = "Active"]]
  /\ grant' = [grant EXCEPT ![g] =
       [@ EXCEPT !.request = r, !.status = "Active", !.expire = now + row.duration]]
  /\ session' = IF session[g].status = "Absent" THEN session
                ELSE [session EXCEPT ![g].request = r]

\* The renewal takes the grant over from its source, for duration more.
RenewalEffect(r, row) ==
  LET g == row.renews IN
  /\ request' = [request EXCEPT
       ![row.source] = [@ EXCEPT !.status = "Expired", !.grant = "Expired"],
       ![r] = [row EXCEPT !.status = "Active", !.grant = "Active"]]
  /\ grant' = [grant EXCEPT ![g] =
       [@ EXCEPT !.request = r, !.status = "Active", !.expire = grant[g].expire + row.duration]]
  /\ session' = IF session[g].status = "Absent" THEN session
                ELSE [session EXCEPT ![g].request = r]

-----------------------------------------------------------------------------
(***************************************************************************)
(* process_grant_lifecycle                                                 *)
(***************************************************************************)
Nearing ==
  {g \in Grants : /\ grant[g].status \in Renewable
                  /\ now < grant[g].expire
                  /\ grant[g].expire <= now + ReminderLead}

\* Faulty: a grant already announced as expiring is no longer looked at.
DueActive == {g \in Grants : grant[g].status = "Active" /\ grant[g].expire <= now}

\* Faulty: a grant whose revocation failed is expired as well.
DueFailed ==
  {g \in Grants : /\ grant[g].status \in Renewable \cup {"RevokeFailed"}
                  /\ grant[g].expire <= now}

Due == {g \in Grants : grant[g].status \in Renewable /\ grant[g].expire <= now}

Reminder(g) ==
  [expire |-> grant[g].expire, round |-> request[grant[g].request].round]

\* Faulty: one reminder per grant, whatever its renewals.
RemindedEver(g) == reminders[g] # <<>>

\* _create_expiration_reminder_task skips a reminder already recorded.
Reminded(g) == \E i \in DOMAIN reminders[g] : reminders[g][i] = Reminder(g)

ExpiringRow(row) == [row EXCEPT !.status = "Expiring"]

RequestOf(S, r) == {g \in S : grant[g].request = r} # {}

\* Faulty: an active session outlives its grant.
ReclaimedNone == {g \in Due : Retrying(g)}

\* Expiring a due grant also asks for its session to be revoked.
Reclaimed == {g \in Due : Revocable(g)}

RequestAfterReconcile(r) ==
  IF RequestOf(Due, r)
  THEN [request[r] EXCEPT !.status = "Expired", !.grant = "Expired"]
  ELSE IF BoundIn(Reclaimed, r) # {}
  THEN [request[r] EXCEPT !.grant = "Expired"]
  ELSE IF RequestOf({g \in Nearing : grant[g].status = "Active"}, r)
  THEN [request[r] EXCEPT !.status = "Expiring", !.grant = "Expiring"]
  ELSE request[r]

Found(r) == r \in Requests /\ request[r].status # "Absent"

\* _get_request_record raises where a request is missing, for the grant or for
\* its session, and the whole run is rolled back.
RecordsFound ==
  /\ \A g \in Nearing \cup Due : Found(grant[g].request)
  /\ \A g \in Reclaimed : Found(session[g].request)

\* worker.grants.lifecycle.reconcile, over every grant in one transaction.
\* Running out of retries is tolerated here, after the session was marked.
ReconcileGrantLifecycle ==
  /\ Nearing \cup Due # {}
  /\ RecordsFound
  /\ grant' = [g \in Grants |->
       CASE g \in Due     -> [grant[g] EXCEPT !.status = "Expired"]
         [] g \in Nearing -> ExpiringRow(grant[g])
         [] OTHER         -> grant[g]]
  /\ request' = [r \in Requests |-> RequestAfterReconcile(r)]
  /\ session' = [g \in Grants |->
       IF g \in Reclaimed THEN SessionAfterRequest(g) ELSE session[g]]
  /\ revokeTasks' = [g \in Grants |->
       IF g \in Reclaimed /\ ~RetriesExhausted(g)
       THEN TasksAfterRequest(g, "GrantExpired") ELSE revokeTasks[g]]
  /\ reminders' = [g \in Grants |->
       IF g \in Nearing /\ ~Reminded(g)
       THEN Append(reminders[g], Reminder(g)) ELSE reminders[g]]
  /\ UNCHANGED <<approval, provisionTasks, agentStatus, now>>

=============================================================================
