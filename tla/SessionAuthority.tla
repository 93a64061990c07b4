-------------------------- MODULE SessionAuthority --------------------------
(***************************************************************************)
(* SessionAuthority: revoking the session of a grant.  Revocation takes    *)
(* two transactions.  The first marks session and grant and queues a       *)
(* connector task; the second, run by a worker or by an administrator's    *)
(* retry, calls the connector and records the outcome.                     *)
(***************************************************************************)
EXTENDS AccessState

\* Sessions a revocation can start from (_ACTIVE_SESSION_STATES): the others
\* are already being revoked, or are revoked.
Revocable(g) == session[g].status \in {"Active", "SyncFailed"}

Retrying(g) == session[g].status = "SyncFailed"

NoRevokeTask(g) == revokeTasks[g] = <<>>

\* _create_session_revoke_task raises RETRY_NOT_ALLOWED.
RetriesExhausted(g) ==
  /\ Retrying(g)
  /\ ~NoRevokeTask(g)
  /\ ~IsOpen(LatestOf(revokeTasks[g]))
  /\ LatestOf(revokeTasks[g]).retry + 1 > MaxRetry

-----------------------------------------------------------------------------
(***************************************************************************)
(* _request_revoke_for_session, as what it makes of each row of grant g.   *)
(***************************************************************************)
SessionAfterRequest(g) ==
  [session[g] EXCEPT !.status = IF Retrying(g) THEN "Syncing" ELSE "Revoking"]

GrantAfterRequest(row) ==
  IF row.status = "Expired" THEN row ELSE [row EXCEPT !.status = "Revoking"]

NextRetry(g) ==
  IF NoRevokeTask(g) THEN 0
  ELSE LatestOf(revokeTasks[g]).retry + (IF Retrying(g) THEN 1 ELSE 0)

TasksAfterRequest(g, trigger) ==
  IF ~NoRevokeTask(g) /\ IsOpen(LatestOf(revokeTasks[g]))
  THEN revokeTasks[g]
  ELSE Append(revokeTasks[g],
              [status |-> IF Retrying(g) THEN "Retrying" ELSE "Pending",
               retry |-> NextRetry(g), trigger |-> trigger])

\* The grants in S whose sessions' requests include r.
BoundIn(S, r) == {g \in S : session[g].request = r}

\* Faulty: the request's copy of the grant status is not refreshed.
RequestUntouched(S, r) == request[r]

\* Only the request's copy of the grant status changes, never its own status.
RequestAfterRequest(S, r) ==
  IF BoundIn(S, r) = {} THEN request[r]
  ELSE [request[r] EXCEPT !.grant =
          GrantAfterRequest(grant[CHOOSE g \in BoundIn(S, r) : TRUE]).status]

\* The sessions of the grants in S are asked to be revoked.
RequestRevokes(S) ==
  /\ session' = [g \in Grants |->
       IF g \in S THEN SessionAfterRequest(g) ELSE session[g]]
  /\ grant' = [g \in Grants |->
       IF g \in S THEN GrantAfterRequest(grant[g]) ELSE grant[g]]
  /\ request' = [r \in Requests |-> RequestAfterRequest(S, r)]
  /\ revokeTasks' = [g \in Grants |->
       IF g \in S THEN TasksAfterRequest(g, "Requested") ELSE revokeTasks[g]]

-----------------------------------------------------------------------------
(***************************************************************************)
(* process_session_revoke_task, as what its outcome makes of each row.     *)
(***************************************************************************)
RevokeOutcomes == {"Succeeded", "Failed"}

\* _resolve_success_grant_status and _resolve_success_request_status
FinalStatus(row, trigger) ==
  IF trigger = "GrantExpired" \/ row.status = "Expired" THEN "Expired" ELSE "Revoked"

\* Faulty: a failed sync leaves the session as it was.
SessionAfterSuccess(row, outcome) ==
  IF outcome = "Succeeded" THEN [row EXCEPT !.status = "Revoked"] ELSE row

\* Faulty: the connector is not asked what came of it.
SessionSettled(row, outcome) == [row EXCEPT !.status = "Revoked"]

SessionAfterRevoke(row, outcome) ==
  [row EXCEPT !.status = IF outcome = "Succeeded" THEN "Revoked" ELSE "SyncFailed"]

\* A failed sync leaves a grant that is to end as Expired as it is.
GrantAfterRevoke(row, trigger, outcome) ==
  LET final == FinalStatus(row, trigger)
  IN  IF outcome = "Succeeded" THEN [row EXCEPT !.status = final]
      ELSE IF final # "Expired" THEN [row EXCEPT !.status = "RevokeFailed"]
      ELSE row

RequestAfterRevoke(row, grantRow, trigger, outcome) ==
  LET final == FinalStatus(grantRow, trigger)
  IN  IF outcome = "Succeeded"
      THEN [row EXCEPT !.status = FinalStatus(row, trigger), !.grant = final]
      ELSE IF final # "Expired" THEN [row EXCEPT !.grant = "RevokeFailed"]
      ELSE row

TaskAfterRevoke(task, outcome) == [task EXCEPT !.status = outcome]

-----------------------------------------------------------------------------
\* POST /sessions/revoke.  A session already being revoked is answered with
\* its state, one already revoked or out of retries with an error.
RevokeSession(g) ==
  /\ Revocable(g)
  /\ grant[g].request = session[g].request
  /\ ~RetriesExhausted(g)
  /\ RequestRevokes({g})
  /\ UNCHANGED <<approval, provisionTasks, reminders, agentStatus, now>>

SessionsOf(a) ==
  {g \in Grants : Revocable(g) /\ AgentOf[session[g].request] = a}

\* disable_agent_and_request_revoke: one session out of retries raises, and
\* the transaction, the agent's new status with it, is rolled back.
DisableAgent(a) ==
  /\ \A g \in SessionsOf(a) : ~RetriesExhausted(g)
  /\ agentStatus[a] = "Active" \/ SessionsOf(a) # {}
  /\ agentStatus' = [agentStatus EXCEPT ![a] = "Disabled"]
  /\ RequestRevokes(SessionsOf(a))
  /\ UNCHANGED <<approval, provisionTasks, reminders, now>>

(***************************************************************************)
(* worker.sessions.revoke.process_pending: every open task, oldest first,  *)
(* in one transaction, each with the connector's own answer.  "done" are   *)
(* the tasks the connector revokes; the other open ones fail.              *)
(***************************************************************************)
\* Faulty: the pending query forgets the retries.
PendingOf(g) == {i \in DOMAIN revokeTasks[g] : revokeTasks[g][i].status = "Pending"}

\* list_pending_session_revoke_tasks: one task at most, unless transactions
\* overlapped.
OpenOf(g) == {i \in DOMAIN revokeTasks[g] : IsOpen(revokeTasks[g][i])}

HasOpenRevoke(g) == OpenOf(g) # {}

OpenTasks == UNION {{g} \X OpenOf(g) : g \in Grants}

Newest(S) == CHOOSE i \in S : \A j \in S : j <= i

Answer(done, g, i) == IF <<g, i>> \in done THEN "Succeeded" ELSE "Failed"

\* The task that decides what becomes of grant g: once one has expired it the
\* others leave it so, and the failure of one that was to expire it leaves it
\* as the others made it.
Deciding(done, g) ==
  LET asked == {i \in OpenOf(g) : revokeTasks[g][i].trigger = "Requested"}
      expiring == {i \in OpenOf(g) \ asked : <<g, i>> \in done}
  IN  Newest(IF expiring # {} THEN expiring ELSE IF asked # {} THEN asked ELSE OpenOf(g))

DecidingTrigger(done, g) == revokeTasks[g][Deciding(done, g)].trigger

SomeDone(done, g) == \E i \in OpenOf(g) : <<g, i>> \in done

\* A failure leaves the request the status that a task revoked before gave it.
RequestAfterTasks(done, g, row) ==
  LET trigger == DecidingTrigger(done, g)
      before == IF SomeDone(done, g)
                THEN RequestAfterRevoke(row, grant[g], trigger, "Succeeded") ELSE row
  IN  RequestAfterRevoke(before, grant[g], trigger, Answer(done, g, Deciding(done, g)))

ProcessPendingRevokes(done) ==
  LET Todo == {g \in Grants : HasOpenRevoke(g)} IN
  /\ Todo # {}
  /\ session' = [g \in Grants |->
       IF g \in Todo THEN SessionAfterRevoke(session[g], Answer(done, g, Newest(OpenOf(g))))
       ELSE session[g]]
  /\ grant' = [g \in Grants |->
       IF g \in Todo
       THEN GrantAfterRevoke(grant[g], DecidingTrigger(done, g), Answer(done, g, Deciding(done, g)))
       ELSE grant[g]]
  /\ request' = [r \in Requests |->
       IF BoundIn(Todo, r) = {} THEN request[r]
       ELSE RequestAfterTasks(done, CHOOSE g \in BoundIn(Todo, r) : TRUE, request[r])]
  /\ revokeTasks' = [g \in Grants |->
       [i \in DOMAIN revokeTasks[g] |->
          IF i \in OpenOf(g) THEN TaskAfterRevoke(revokeTasks[g][i], Answer(done, g, i))
          ELSE revokeTasks[g][i]]]
  /\ UNCHANGED <<approval, provisionTasks, reminders, agentStatus, now>>

=============================================================================
