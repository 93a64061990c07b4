---------------------------- MODULE Steps_proofs ----------------------------
(***************************************************************************)
(* Proofs about what no transaction may do, from the shapes of the steps:  *)
(* answers and endings are final, a request is activated only by a         *)
(* provisioning or a renewal, and only a renewal prolongs a grant; and     *)
(* about what steps count: attempts, and reminders sent.                   *)
(***************************************************************************)
EXTENDS Holding_proofs

\* What a step may do to the answers, the ended requests, the grants' terms
\* and the requests that become active.
Answers(r) ==
  approval[r].status \in Denials \cup {"Approved"} => approval'[r] = approval[r]

Endings(r) ==
  request[r].status \in {"Expired", "Revoked"} => request'[r].status = request[r].status

Terms(g) ==
  Exists(g) /\ (grant'[g].expire # grant[g].expire \/ grant'[g].request # grant[g].request)
  => LET r == grant'[g].request IN
     /\ grant[g].status \in Renewable
     /\ request[r].renews = g /\ request[r].source = grant[g].request
     /\ approval[r].status # "Approved" /\ approval'[r].status = "Approved"
     /\ grant'[g].expire = grant[g].expire + request[r].duration

Activation(r) ==
  request[r].status # "Active" /\ request'[r].status = "Active" =>
    \E g \in Grants :
      /\ grant'[g].request = r /\ grant'[g].status = "Active"
      /\ \/ /\ Len(provisionTasks'[g]) > Len(provisionTasks[g])
            /\ LatestOf(provisionTasks'[g]).status = "Succeeded"
         \/ /\ request[r].renews = g
            /\ approval[r].status # "Approved" /\ approval'[r].status = "Approved"

StepAllowed == (\A r \in Requests : Answers(r) /\ Endings(r) /\ Activation(r)) /\ (\A g \in Grants : Terms(g))

-----------------------------------------------------------------------------
LEMMA RequestWrittenAllowed ==
  ASSUME HoldingInv, NEW r \in Requests, RequestWritten(r)
  PROVE  StepAllowed
<1>1. ASSUME NEW q \in Requests PROVE Answers(q) /\ Endings(q) /\ Activation(q)
  <2>1. CASE q = r
    BY <2>1 DEF RequestWritten, Early, Answers, Endings, Activation, Denials
  <2>2. CASE q # r
    <3>1. request'[q] = request[q] /\ approval'[q] = approval[q]
      BY <2>2 DEF RequestWritten
    <3> QED
      BY <3>1 DEF Answers, Endings, Activation
  <2> QED
    BY <2>1, <2>2
<1>2. \A g \in Grants : Terms(g)
  BY DEF RequestWritten, Terms
<1> QED
  BY <1>1, <1>2 DEF StepAllowed

LEMMA AppendedTask ==
  ASSUME NEW tasks \in Seq(ProvisionTaskRow), NEW task \in ProvisionTaskRow
  PROVE  /\ Len(Append(tasks, task)) > Len(tasks)
         /\ LatestOf(Append(tasks, task)) = task
BY LenProperties DEF LatestOf

LEMMA ProvisionedAllowed ==
  ASSUME HoldingInv, NEW r \in Requests, NEW g \in Grants, NEW expire \in Nat, NEW retry \in Nat,
         NEW outcome \in ProvisionOutcomes, Provisioned(r, g, expire, retry, outcome)
  PROVE  StepAllowed
<1>1. /\ grant' = [grant EXCEPT ![g] =
           [status |-> GrantStatusAfter(outcome), connector |-> ConnectorStatusAfter(outcome),
            request |-> r, expire |-> expire]]
      /\ provisionTasks'[g] = Append(provisionTasks[g],
           [status |-> TaskStatusAfter(outcome), retry |-> retry])
  BY RowTypes DEF Provisioned, ProvisionEffect
<1>2. grant'[g].request = r /\ grant'[g].status = GrantStatusAfter(outcome) /\ grant'[g].expire = expire
  BY <1>1, RowTypes
<1>3. request'[r].status = "Active" => outcome = "Applied"
  BY OutcomeStatuses DEF Provisioned
<1>4. Activation(r)
  <2> SUFFICES ASSUME outcome = "Applied"
               PROVE  /\ grant'[g].request = r /\ grant'[g].status = "Active"
                      /\ Len(provisionTasks'[g]) > Len(provisionTasks[g])
                      /\ LatestOf(provisionTasks'[g]).status = "Succeeded"
    BY <1>3 DEF Activation
  <2> DEFINE task == [status |-> TaskStatusAfter(outcome), retry |-> retry]
  <2>1. task \in ProvisionTaskRow /\ task.status = "Succeeded"
    BY DEF ProvisionTaskRow, TaskStatusAfter, TaskStatus
  <2> HIDE DEF task
  <2>2. provisionTasks[g] \in Seq(ProvisionTaskRow) /\ provisionTasks'[g] = Append(provisionTasks[g], task)
    BY <1>1, RowTypes DEF task
  <2> QED
    BY <1>2, <2>1, <2>2, AppendedTask, OutcomeStatuses
<1>5. ASSUME NEW q \in Requests PROVE Answers(q) /\ Endings(q) /\ Activation(q)
  <2>1. CASE q = r
    BY <1>4, <2>1 DEF Provisioned, Early, Answers, Endings, Denials
  <2>2. CASE q # r
    <3>1. request'[q] = request[q] /\ approval'[q] = approval[q]
      BY <2>2 DEF Provisioned
    <3> QED
      BY <3>1 DEF Answers, Endings, Activation
  <2> QED
    BY <2>1, <2>2
<1>6. ASSUME NEW h \in Grants PROVE Terms(h)
  <2>1. CASE h = g
    BY <1>2, <2>1 DEF Provisioned, Terms, Exists
  <2>2. CASE h # g
    <3>1. grant'[h] = grant[h]
      BY <1>1, <2>2, RowTypes
    <3> QED
      BY <3>1 DEF Terms
  <2> QED
    BY <2>1, <2>2
<1> QED
  BY <1>5, <1>6 DEF StepAllowed

LEMMA RenewedAllowed ==
  ASSUME HoldingInv, NEW r \in Requests, RenewedRows(r)
  PROVE  StepAllowed
<1> DEFINE s == request[r].source
           g == request[r].renews
<1>1. ASSUME NEW q \in Requests PROVE Answers(q) /\ Endings(q) /\ Activation(q)
  <2>1. CASE q = r
    BY <2>1 DEF RenewedRows, Answers, Endings, Activation, Denials
  <2>2. CASE q = s
    BY <2>2 DEF RenewedRows, Answers, Endings, Activation, Renewable
  <2>3. CASE q \in Requests \ {r, s}
    <3>1. request'[q] = request[q] /\ approval'[q] = approval[q]
      BY <2>3 DEF RenewedRows
    <3> QED
      BY <3>1 DEF Answers, Endings, Activation
  <2> QED
    BY <2>1, <2>2, <2>3
<1>2. ASSUME NEW h \in Grants PROVE Terms(h)
  <2>1. CASE h = g
    BY <2>1 DEF RenewedRows, Terms
  <2>2. CASE h # g
    <3>1. grant'[h] = grant[h]
      BY <2>2 DEF RenewedRows
    <3> QED
      BY <3>1 DEF Terms
  <2> QED
    BY <2>1, <2>2
<1> QED
  BY <1>1, <1>2 DEF StepAllowed

LEMMA MovesAllowed ==
  ASSUME HoldingInv, NEW M \in SUBSET Grants, Moves(M)
  PROVE  StepAllowed
<1>1. ASSUME NEW r \in Requests PROVE Answers(r) /\ Endings(r) /\ Activation(r)
  <2>1. Answers(r)
    BY DEF Moves, Answers
  <2>2. CASE request'[r] = request[r]
    BY <2>1, <2>2 DEF Endings, Activation
  <2>3. CASE request'[r] # request[r]
    <3>1. PICK g \in M : grant[g].request = r
      BY <2>3 DEF Moves
    <3>2. Moved(g) /\ g \in Grants
      BY DEF Moves
    <3>3. Activation(r)
      BY <3>1, <3>2 DEF Moved, Activation
    <3>4. Endings(r)
      <4>1. Exists(g) /\ request[r].status \in HolderStatuses(grant[g].status)
        BY <3>1, <3>2, MovedStatuses, HolderFacts
      \* A revoked grant has a revoked session, which no step moves.
      <4>2. grant[g].status # "Revoked"
        BY <3>2 DEF HoldingInv, GrantParts, Acting, Moved
      <4>3. request[r].status \in {"Expired", "Revoked"} =>
              grant[g].status = "Expired" /\ request[r].status = "Expired"
        BY <4>1, <4>2, HolderStatusesOf DEF Renewable
      <4>4. grant[g].status = "Expired" => request'[r].status = "Expired"
        BY <3>1, <3>2, HolderStatusesOf DEF Moved
      <4> QED
        BY <4>3, <4>4 DEF Endings
    <3> QED
      BY <2>1, <3>3, <3>4
  <2> QED
    BY <2>2, <2>3
<1>2. \A g \in Grants : Terms(g)
  BY DEF Moves, Moved, Terms
<1> QED
  BY <1>1, <1>2 DEF StepAllowed

LEMMA NextAllowed == HoldingInv /\ [Next]_vars => StepAllowed
<1> SUFFICES ASSUME HoldingInv, [Next]_vars PROVE StepAllowed
  OBVIOUS
<1>1. CASE UNCHANGED <<request, approval, grant, session>>
  BY <1>1 DEF StepAllowed, Answers, Endings, Terms, Activation
<1>2. StepShape
  BY NextShape
<1> QED
  BY <1>1, <1>2, RequestWrittenAllowed, ProvisionedAllowed, RenewedAllowed, MovesAllowed
  DEF StepShape

-----------------------------------------------------------------------------
\* A callback that is late, repeated or contradicts the first one leaves an
\* answered approval as it is, and so does every other handler.
THEOREM ApprovalsAreAnsweredOnce == Spec => AnsweredOnce
<1>1. HoldingInv /\ [Next]_vars =>
        [\A r \in Requests : approval[r].status \in Denials \cup {"Approved"} =>
           approval'[r] = approval[r]]_vars
  BY NextAllowed DEF StepAllowed, Answers
<1> QED
  BY <1>1, HoldingInvAlways, PTL DEF Spec, AnsweredOnce

\* No revocation, reconciliation or renewal that arrives late changes the
\* status of a request that expired or was revoked.
THEOREM EndedRequestsStayEnded == Spec => EndedIsFinal
<1>1. HoldingInv /\ [Next]_vars =>
        [\A r \in Requests : request[r].status \in {"Expired", "Revoked"} =>
           request'[r].status = request[r].status]_vars
  BY NextAllowed DEF StepAllowed, Endings
<1> QED
  BY <1>1, HoldingInvAlways, PTL DEF Spec, EndedIsFinal

\* Retries, reconciliations and revocations leave a grant's expiry and holder
\* alone: one approved renewal moves them, by the duration it asked for.
THEOREM OnlyRenewalsExtend == Spec => ExtendedByRenewal
<1>1. HoldingInv /\ [Next]_vars =>
        [\A g \in Grants :
           Exists(g) /\ (grant'[g].expire # grant[g].expire \/ grant'[g].request # grant[g].request)
           => LET r == grant'[g].request IN
              /\ grant[g].status \in Renewable
              /\ request[r].renews = g /\ request[r].source = grant[g].request
              /\ approval[r].status # "Approved" /\ approval'[r].status = "Approved"
              /\ grant'[g].expire = grant[g].expire + request[r].duration]_vars
  BY NextAllowed DEF StepAllowed, Terms
<1> QED
  BY <1>1, HoldingInvAlways, PTL DEF Spec, ExtendedByRenewal

\* A failed revocation never puts a request back to active: that takes a
\* provisioning the connector applied, or the approval of a renewal.
THEOREM OnlyAttemptsActivate == Spec => ActivatedByAttempt
<1>1. HoldingInv /\ [Next]_vars =>
        [\A r \in Requests :
           request[r].status # "Active" /\ request'[r].status = "Active" =>
             \E g \in Grants :
               /\ grant'[g].request = r /\ grant'[g].status = "Active"
               /\ \/ /\ Len(provisionTasks'[g]) > Len(provisionTasks[g])
                     /\ LatestOf(provisionTasks'[g]).status = "Succeeded"
                  \/ /\ request[r].renews = g
                     /\ approval[r].status # "Approved" /\ approval'[r].status = "Approved"]_vars
  BY NextAllowed DEF StepAllowed, Activation
<1> QED
  BY <1>1, HoldingInvAlways, PTL DEF Spec, ActivatedByAttempt

-----------------------------------------------------------------------------
(***************************************************************************)
(* The retry budget.  Tasks are numbered from 0 in the order they are made *)
(* in, whichever of the entry points makes them.                           *)
(***************************************************************************)
Numbered(tasks) == \A i \in DOMAIN tasks : tasks[i].retry = i - 1 /\ i - 1 <= MaxRetry

BudgetInv == RetryBudget /\ \A g \in Grants : Unattempted(g)

LEMMA BudgetByGrant ==
  BudgetInv <=> \A g \in Grants :
    Numbered(provisionTasks[g]) /\ Numbered(revokeTasks[g]) /\ Unattempted(g)
BY DEF BudgetInv, RetryBudget, Numbered

LEMMA AppendNumbered ==
  ASSUME NEW S, NEW tasks \in Seq(S), NEW task \in S, Numbered(tasks),
         task.retry = Len(tasks), Len(tasks) <= MaxRetry
  PROVE  Numbered(Append(tasks, task))
<1> DEFINE more == Append(tasks, task)
<1>1. /\ Len(tasks) \in Nat /\ DOMAIN tasks = 1 .. Len(tasks)
      /\ more \in Seq(S) /\ Len(more) = Len(tasks) + 1
      /\ DOMAIN more = 1 .. Len(more)
  BY LenProperties
<1>2. more[Len(more)] = task /\ \A i \in 1 .. Len(tasks) : more[i] = tasks[i]
  BY <1>1
<1> SUFFICES ASSUME NEW i \in DOMAIN more PROVE more[i].retry = i - 1 /\ i - 1 <= MaxRetry
  BY DEF Numbered
<1>3. CASE i = Len(more)
  BY <1>1, <1>2, <1>3
<1>4. CASE i # Len(more)
  <2>1. i \in DOMAIN tasks
    BY <1>1, <1>4
  <2> HIDE DEF more
  <2> QED
    BY <1>1, <1>2, <2>1 DEF Numbered
<1> QED
  BY <1>3, <1>4

LEMMA LatestNumbered ==
  ASSUME NEW S, NEW tasks \in Seq(S), tasks # <<>>, Numbered(tasks)
  PROVE  LatestOf(tasks).retry = Len(tasks) - 1 /\ Len(tasks) \in Nat
<1>1. Len(tasks) \in Nat /\ DOMAIN tasks = 1 .. Len(tasks) /\ Len(tasks) # 0
  BY LenProperties, EmptySeq
<1> QED
  BY <1>1 DEF Numbered, LatestOf

LEMMA EmptyNumbered ==
  /\ <<>> \in Seq(ProvisionTaskRow) /\ <<>> \in Seq(RevokeTaskRow)
  /\ Len(<<>>) = 0 /\ Numbered(<<>>)
BY DEF Numbered

LEMMA BudgetInit == Init => BudgetInv
BY BudgetByGrant, EmptyNumbered DEF Init, Unattempted

\* One attempt: the first on a new grant id, or a retry within the budget.
LEMMA AttemptNumbered ==
  ASSUME HoldingInv, BudgetInv, NEW r \in Requests, NEW g \in Grants, NEW expire, NEW retry,
         NEW outcome \in ProvisionOutcomes, ProvisionEffect(r, g, expire, retry, outcome),
         \/ grant[g].status = "NotCreated" /\ retry = 0
         \/ /\ provisionTasks[g] # <<>> /\ retry = LatestOf(provisionTasks[g]).retry + 1
            /\ retry <= MaxRetry,
         NEW h \in Grants
  PROVE  Numbered(provisionTasks'[h]) /\ Unattempted(h)'
<1> DEFINE task == [status |-> TaskStatusAfter(outcome), retry |-> retry]
<1>1. /\ provisionTasks' = [provisionTasks EXCEPT ![g] = Append(provisionTasks[g], task)]
      /\ \A i \in Grants \ {g} : grant'[i] = grant[i]
      /\ grant'[g].status = GrantStatusAfter(outcome)
  BY RowTypes DEF ProvisionEffect
<1>2. CASE h = g
  <2>1. provisionTasks[g] \in Seq(ProvisionTaskRow) /\ Numbered(provisionTasks[g])
        /\ Unattempted(g)
    BY RowTypes, BudgetByGrant
  <2>2. retry = Len(provisionTasks[g]) /\ retry \in Nat /\ retry <= MaxRetry
    <3>1. CASE grant[g].status = "NotCreated" /\ retry = 0
      BY <2>1, <3>1, EmptyNumbered, AccessStateAssumption DEF Unattempted, Exists
    <3>2. CASE /\ provisionTasks[g] # <<>> /\ retry = LatestOf(provisionTasks[g]).retry + 1
               /\ retry <= MaxRetry
      BY <2>1, <3>2, LatestNumbered
    <3> QED
      BY <3>1, <3>2
  <2>3. task \in ProvisionTaskRow /\ task.retry = retry
    BY <2>2 DEF ProvisionTaskRow, TaskStatusAfter, TaskStatus
  <2> HIDE DEF task
  <2>4. Numbered(Append(provisionTasks[g], task))
    BY <2>1, <2>2, <2>3, AppendNumbered
  <2>5. Exists(g)'
    BY <1>1, OutcomeStatuses DEF Exists
  <2> QED
    BY <1>1, <1>2, <2>4, <2>5, RowTypes DEF Unattempted
<1>3. CASE h # g
  <2>1. provisionTasks'[h] = provisionTasks[h] /\ grant'[h] = grant[h]
    BY <1>1, <1>3, RowTypes
  <2> QED
    BY <2>1, BudgetByGrant DEF Unattempted, Exists
<1> QED
  BY <1>2, <1>3

LEMMA RequestedNumbered ==
  ASSUME HoldingInv, BudgetInv, NEW g \in Grants, NEW trigger \in Triggers,
         Revocable(g), ~RetriesExhausted(g)
  PROVE  Numbered(TasksAfterRequest(g, trigger))
<1> DEFINE task == [status |-> IF Retrying(g) THEN "Retrying" ELSE "Pending",
                    retry |-> NextRetry(g), trigger |-> trigger]
<1>1. /\ revokeTasks[g] \in Seq(RevokeTaskRow) /\ Numbered(revokeTasks[g]) /\ Tracked(g)
      /\ MaxRetry \in Nat
  BY RowTypes, BudgetByGrant, AccessStateAssumption DEF HoldingInv, RevocationInv, RevocationTracked
<1>2. task \in RevokeTaskRow /\ task.retry = NextRetry(g)
  BY NextRetryType DEF HoldingInv, RevocationInv, RevokeTaskRow, TaskStatus
<1> HIDE DEF task
<1>3. CASE NoRevokeTask(g)
  <2>1. NextRetry(g) = 0 /\ TasksAfterRequest(g, trigger) = Append(revokeTasks[g], task)
    BY <1>3 DEF NextRetry, TasksAfterRequest, task
  <2>2. Len(revokeTasks[g]) = 0
    BY <1>3, EmptyNumbered DEF NoRevokeTask
  <2>3. task.retry = Len(revokeTasks[g]) /\ Len(revokeTasks[g]) <= MaxRetry
    BY <1>1, <1>2, <2>1, <2>2
  <2> QED
    BY <1>1, <1>2, <2>1, <2>3, AppendNumbered
<1>4. CASE ~NoRevokeTask(g)
  \* A session that has been asked to be revoked can only be retried.
  <2>1. Retrying(g) /\ ~IsOpen(LatestOf(revokeTasks[g]))
    BY <1>1, <1>4 DEF Tracked, Revocable, Retrying, SessionBy, IsOpen
  <2>2. /\ NextRetry(g) = LatestOf(revokeTasks[g]).retry + 1
        /\ TasksAfterRequest(g, trigger) = Append(revokeTasks[g], task)
    BY <1>4, <2>1 DEF NextRetry, TasksAfterRequest, task
  <2>3. LatestOf(revokeTasks[g]).retry = Len(revokeTasks[g]) - 1 /\ Len(revokeTasks[g]) \in Nat
    BY <1>1, <1>4, LatestNumbered DEF NoRevokeTask
  <2>4. Len(revokeTasks[g]) <= MaxRetry
    BY <1>1, <1>4, <2>1, <2>3 DEF RetriesExhausted
  <2>5. NextRetry(g) = Len(revokeTasks[g])
    BY <2>2, <2>3
  <2> QED
    BY <1>1, <1>2, <2>2, <2>4, <2>5, AppendNumbered
<1> QED
  BY <1>3, <1>4

LEMMA ExistsKept ==
  ASSUME HoldingInv, [Next]_vars, NEW g \in Grants, Exists(g)
  PROVE  Exists(g)'
<1>1. StepShape
  BY NextShape
<1>2. CASE UNCHANGED grant
  BY <1>2 DEF Exists
<1>3. CASE \E r \in Requests, h \in Grants, outcome \in ProvisionOutcomes, expire, retry \in Nat :
             Provisioned(r, h, expire, retry, outcome)
  <2>1. PICK r \in Requests, h \in Grants, outcome \in ProvisionOutcomes, expire \in Nat, retry \in Nat :
               ProvisionEffect(r, h, expire, retry, outcome)
    BY <1>3 DEF Provisioned
  <2>2. grant'[g].status = grant[g].status \/ grant'[g].status = GrantStatusAfter(outcome)
    BY <2>1, RowTypes DEF ProvisionEffect
  <2> QED
    BY <2>2, OutcomeStatuses DEF Exists
<1>4. CASE \E r \in Requests : RenewedRows(r)
  <2>1. PICK r \in Requests : RenewedRows(r)
    BY <1>4
  <2>2. grant'[g] = grant[g] \/ grant'[g].status = "Active"
    BY <2>1 DEF RenewedRows
  <2> QED
    BY <2>2 DEF Exists
<1>5. CASE \E M \in SUBSET Grants : Moves(M)
  <2>1. PICK M \in SUBSET Grants : Moves(M)
    BY <1>5
  <2>2. grant'[g] = grant[g] \/ Moved(g)
    BY <2>1 DEF Moves
  <2> QED
    BY <2>2, MovedStatuses DEF Exists
<1> QED
  BY <1>1, <1>2, <1>3, <1>4, <1>5 DEF StepShape, RequestWritten

\* A handler that makes no provision task.
LEMMA NoAttempt ==
  ASSUME HoldingInv, BudgetInv, [Next]_vars, NEW g \in Grants,
         provisionTasks'[g] = provisionTasks[g]
  PROVE  Numbered(provisionTasks'[g]) /\ Unattempted(g)'
BY ExistsKept, BudgetByGrant DEF Unattempted

LEMMA ProvisionTasksNumbered ==
  ASSUME HoldingInv, BudgetInv, [Next]_vars, NEW h \in Grants
  PROVE  Numbered(provisionTasks'[h]) /\ Unattempted(h)'
<1>1. CASE CallbackStep
  <2>1. PICK r \in Requests, k \in Keys :
          \/ \E outcome \in ProvisionOutcomes : ApproveRequest(r, k, outcome)
          \/ UNCHANGED provisionTasks
    BY <1>1 DEF CallbackStep, ApproveRenewal, DenyRequest, FailCallback, RefuseCallback
  <2>2. CASE UNCHANGED provisionTasks
    BY <2>2, NoAttempt
  <2>3. CASE \E outcome \in ProvisionOutcomes : ApproveRequest(r, k, outcome)
    <3>1. PICK outcome \in ProvisionOutcomes : ApproveRequest(r, k, outcome)
      BY <2>3
    <3> DEFINE row == ApprovedRow(r)
    <3>2. DefaultGrant[r] \in Grants
      BY AccessStateAssumption
    <3>3. CASE CanProvision(r, DefaultGrant[r], row)
      <4>1. /\ ProvisionEffect(r, DefaultGrant[r], now + row.duration, 0, outcome)
            /\ grant[DefaultGrant[r]].status = "NotCreated"
        BY <3>1, <3>3 DEF ApproveRequest, CanProvision
      <4> HIDE DEF row
      <4> QED
        BY <3>2, <4>1, AttemptNumbered
    <3>4. CASE ~CanProvision(r, DefaultGrant[r], row)
      BY <3>1, <3>4, NoAttempt DEF ApproveRequest
    <3> QED
      BY <3>3, <3>4
  <2> QED
    BY <2>1, <2>2, <2>3
<1>2. CASE ProvisionStep
  <2>1. PICK r \in Requests, g \in Grants, outcome \in ProvisionOutcomes :
          ProvisionGrant(r, g, outcome) \/ RetryProvision(r, g, outcome)
    BY <1>2 DEF ProvisionStep
  <2>2. CASE ProvisionGrant(r, g, outcome)
    <3>1. /\ ProvisionEffect(r, g, now + request[r].duration, 0, outcome)
          /\ grant[g].status = "NotCreated"
      BY <2>2 DEF ProvisionGrant, CanProvision
    <3> QED
      BY <3>1, AttemptNumbered
  <2>3. CASE RetryProvision(r, g, outcome)
    <3> DEFINE retry == LatestOf(provisionTasks[g]).retry + 1
    <3>1. /\ ProvisionEffect(r, g, grant[g].expire, retry, outcome)
          /\ provisionTasks[g] # <<>> /\ retry <= MaxRetry
      BY <2>3 DEF RetryProvision, CanRetryProvision
    <3>2. retry = LatestOf(provisionTasks[g]).retry + 1
      OBVIOUS
    <3> HIDE DEF retry
    <3> QED
      BY <3>1, <3>2, AttemptNumbered
  <2> QED
    BY <2>1, <2>2, <2>3
<1>3. CASE UNCHANGED provisionTasks
  BY <1>3, NoAttempt
<1> QED
  BY <1>1, <1>2, <1>3
  DEF Next, CreateRequest, EvaluationStep, EvaluateRequest, FailEvaluation, RenewStep, RenewGrant,
      RevokeStep, RevokeSession, DisableAgent, RetryRevoke, ProcessPendingStep,
      ProcessPendingRevokes, ReconcileGrantLifecycle, Tick, vars

LEMMA RevokeTasksNumbered ==
  ASSUME HoldingInv, BudgetInv, [Next]_vars, NEW g \in Grants
  PROVE  Numbered(revokeTasks'[g])
<1> Numbered(revokeTasks[g]) /\ revokeTasks[g] \in Seq(RevokeTaskRow)
  BY BudgetByGrant, RowTypes
<1>1. CASE UNCHANGED revokeTasks
  BY <1>1
<1>2. ASSUME NEW S \in SUBSET Grants, RequestRevokes(S),
             \A h \in S : Revocable(h) /\ ~RetriesExhausted(h)
      PROVE  Numbered(revokeTasks'[g])
  <2>1. CASE g \in S
    BY <1>2, <2>1, RequestedNumbered DEF RequestRevokes, Triggers
  <2>2. CASE g \notin S
    BY <1>2, <2>2 DEF RequestRevokes
  <2> QED
    BY <2>1, <2>2
<1>3. CASE RevokeStep
  <2>1. CASE \E h \in Grants : RevokeSession(h)
    <3>1. PICK h \in Grants : RevokeSession(h)
      BY <2>1
    <3> QED
      BY <1>2, <3>1 DEF RevokeSession
  <2>2. CASE \E a \in Agents : DisableAgent(a)
    <3>1. PICK a \in Agents : DisableAgent(a)
      BY <2>2
    <3>2. SessionsOf(a) \in SUBSET Grants /\ \A h \in SessionsOf(a) : Revocable(h)
      BY DEF SessionsOf
    <3> QED
      BY <1>2, <3>1, <3>2 DEF DisableAgent
  <2>3. CASE \E h \in Grants, outcome \in RevokeOutcomes : RetryRevoke(h, outcome)
    <3>1. PICK h \in Grants, outcome \in RevokeOutcomes : RetryRevoke(h, outcome)
      BY <2>3
    <3>2. CASE g # h
      <4>1. revokeTasks'[g] = revokeTasks[g]
        BY <3>1, <3>2, RowTypes DEF RetryRevoke
      <4> QED
        BY <4>1
    <3>3. CASE g = h
      <4> DEFINE task == [status |-> outcome, retry |-> NextRetry(g), trigger |-> "Requested"]
      <4>1. revokeTasks'[g] = Append(revokeTasks[g], task) /\ CanRetryRevoke(g)
        BY <3>1, <3>3, RowTypes DEF RetryRevoke
      <4>2. task \in RevokeTaskRow /\ task.retry = NextRetry(g)
        BY NextRetryType
        DEF HoldingInv, RevocationInv, RevokeTaskRow, TaskStatus, RevokeOutcomes, Triggers
      <4> HIDE DEF task
      <4>3. LatestOf(revokeTasks[g]).retry = Len(revokeTasks[g]) - 1 /\ Len(revokeTasks[g]) \in Nat
        BY <4>1, LatestNumbered DEF CanRetryRevoke, NoRevokeTask
      <4>4. NextRetry(g) = Len(revokeTasks[g]) /\ Len(revokeTasks[g]) <= MaxRetry
        BY <4>1, <4>3, AccessStateAssumption DEF CanRetryRevoke, NextRetry, Retrying
      <4> QED
        BY <4>1, <4>2, <4>4, AppendNumbered
    <3> QED
      BY <3>2, <3>3
  <2> QED
    BY <1>3, <2>1, <2>2, <2>3 DEF RevokeStep
<1>4. CASE ProcessPendingStep
  <2>1. PICK done : ProcessPendingRevokes(done)
    BY <1>4 DEF ProcessPendingStep
  <2>2. revokeTasks'[g] =
          [i \in DOMAIN revokeTasks[g] |->
             IF i \in OpenOf(g) THEN TaskAfterRevoke(revokeTasks[g][i], Answer(done, g, i))
             ELSE revokeTasks[g][i]]
    BY <2>1 DEF ProcessPendingRevokes
  <2>3. \A i \in DOMAIN revokeTasks[g] : revokeTasks[g][i] \in RevokeTaskRow
    BY LenProperties, ElementOfSeq
  <2>4. \A i \in DOMAIN revokeTasks[g] : revokeTasks'[g][i].retry = revokeTasks[g][i].retry
    BY <2>2, <2>3 DEF TaskAfterRevoke, RevokeTaskRow
  <2>5. DOMAIN revokeTasks'[g] = DOMAIN revokeTasks[g]
    BY <2>2
  <2> QED
    BY <2>4, <2>5 DEF Numbered
<1>5. CASE ReconcileGrantLifecycle
  <2>1. CASE g \in Reclaimed /\ ~RetriesExhausted(g)
    <3>1. revokeTasks'[g] = TasksAfterRequest(g, "GrantExpired") /\ Revocable(g)
      BY <1>5, <2>1 DEF ReconcileGrantLifecycle, Reclaimed
    <3> QED
      BY <2>1, <3>1, RequestedNumbered DEF Triggers
  <2>2. CASE ~(g \in Reclaimed /\ ~RetriesExhausted(g))
    <3>1. revokeTasks'[g] = revokeTasks[g]
      BY <1>5, <2>2 DEF ReconcileGrantLifecycle
    <3> QED
      BY <3>1
  <2> QED
    BY <2>1, <2>2
<1> QED
  BY <1>1, <1>3, <1>4, <1>5
  DEF Next, CreateRequest, EvaluationStep, EvaluateRequest, FailEvaluation, CallbackStep,
      ApproveRequest, ApproveRenewal, DenyRequest, FailCallback, RefuseCallback,
      ProvisionStep, ProvisionGrant, RetryProvision, RenewStep, RenewGrant, Tick, vars

LEMMA BudgetNext == HoldingInv /\ BudgetInv /\ [Next]_vars => BudgetInv'
<1> SUFFICES ASSUME HoldingInv, BudgetInv, [Next]_vars PROVE BudgetInv'
  OBVIOUS
<1>1. \A g \in Grants :
        (Numbered(provisionTasks[g]) /\ Numbered(revokeTasks[g]) /\ Unattempted(g))'
  <2> SUFFICES ASSUME NEW g \in Grants
               PROVE  (Numbered(provisionTasks[g]) /\ Numbered(revokeTasks[g]) /\ Unattempted(g))'
    OBVIOUS
  <2>1. Numbered(provisionTasks'[g]) /\ Numbered(revokeTasks'[g]) /\ Unattempted(g)'
    BY ProvisionTasksNumbered, RevokeTasksNumbered
  <2> QED
    BY <2>1 DEF Numbered
<1> QED
  BY <1>1 DEF BudgetInv, RetryBudget, Numbered

\* A provisioning can be retried by its endpoint and by an administrator, a
\* revocation by a user, an administrator, a disabled agent and the hourly
\* reconciliation: together they never exceed the retry budget or use a number
\* twice.
THEOREM RetriesStayInBudget == Spec => []RetryBudget
<1>1. BudgetInv => RetryBudget
  BY DEF BudgetInv
<1> QED
  BY <1>1, HoldingInvAlways, BudgetInit, BudgetNext, PTL DEF Spec

-----------------------------------------------------------------------------
(***************************************************************************)
(* Reminders.                                                              *)
(***************************************************************************)
\* The renewal round of a request is set once, when the request is created.
LEMMA RoundsKept ==
  ASSUME HoldingInv, [Next]_vars, NEW r \in Requests, request[r].status # "Absent"
  PROVE  request'[r].round = request[r].round
<1>1. StepShape
  BY NextShape
<1>2. CASE \E q \in Requests : RequestWritten(q)
  BY <1>2 DEF RequestWritten
<1>3. CASE \E q \in Requests, g \in Grants, outcome \in ProvisionOutcomes, expire, retry \in Nat :
             Provisioned(q, g, expire, retry, outcome)
  BY <1>3 DEF Provisioned
<1>4. CASE \E q \in Requests : RenewedRows(q)
  BY <1>4 DEF RenewedRows
<1>5. CASE \E M \in SUBSET Grants : Moves(M)
  <2>1. PICK M \in SUBSET Grants : Moves(M)
    BY <1>5
  <2>2. CASE \E g \in M : grant[g].request = r
    BY <2>1, <2>2, MovedRow DEF Moves
  <2>3. CASE ~\E g \in M : grant[g].request = r
    BY <2>1, <2>3 DEF Moves
  <2> QED
    BY <2>2, <2>3
<1> QED
  BY <1>1, <1>2, <1>3, <1>4, <1>5 DEF StepShape

\* Only the reconciliation makes a grant expiring.
OldExpiring(g) ==
  grant'[g].status = "Expiring" =>
    /\ grant[g].status = "Expiring"
    /\ grant'[g].expire = grant[g].expire /\ grant'[g].request = grant[g].request

LEMMA ProvisionedNotExpiring ==
  ASSUME HoldingInv, NEW r, NEW g \in Grants, NEW expire, NEW retry,
         NEW outcome \in ProvisionOutcomes, ProvisionEffect(r, g, expire, retry, outcome),
         NEW h \in Grants
  PROVE  OldExpiring(h)
<1>1. grant'[h] = grant[h] \/ grant'[h].status = GrantStatusAfter(outcome)
  BY RowTypes DEF ProvisionEffect
<1> QED
  BY <1>1, OutcomeStatuses DEF OldExpiring

LEMMA RevokedNotExpiring ==
  ASSUME HoldingInv, RevokeStep \/ ProcessPendingStep, NEW g \in Grants
  PROVE  OldExpiring(g)
<1>1. grant \in [Grants -> GrantRow]
  BY RowTypes
<1>2. \A row \in GrantRow :
        /\ GrantAfterRequest(row) \in GrantRow
        /\ GrantAfterRequest(row).status # "Expiring"
        /\ \A trigger \in Triggers, outcome \in RevokeOutcomes :
             \/ GrantAfterRevoke(row, trigger, outcome) = row
             \/ GrantAfterRevoke(row, trigger, outcome).status # "Expiring"
  BY DEF GrantAfterRequest, GrantAfterRevoke, FinalStatus, GrantRow, GrantStatus
<1>3. CASE RevokeStep
  <2>1. CASE (\E h \in Grants : RevokeSession(h)) \/ (\E a \in Agents : DisableAgent(a))
    <3>1. PICK S : RequestRevokes(S)
      BY <2>1 DEF RevokeSession, DisableAgent
    <3>2. grant'[g] = grant[g] \/ grant'[g] = GrantAfterRequest(grant[g])
      BY <3>1 DEF RequestRevokes
    <3> QED
      BY <1>1, <1>2, <3>2 DEF OldExpiring
  <2>2. CASE \E h \in Grants, outcome \in RevokeOutcomes : RetryRevoke(h, outcome)
    <3>1. PICK h \in Grants, outcome \in RevokeOutcomes : RetryRevoke(h, outcome)
      BY <2>2
    <3>2. \/ grant'[g] = grant[g]
          \/ grant'[g] = GrantAfterRevoke(GrantAfterRequest(grant[g]), "Requested", outcome)
      BY <1>1, <3>1 DEF RetryRevoke
    <3>3. \/ grant'[g] = grant[g]
          \/ grant'[g].status # "Expiring"
      BY <1>1, <1>2, <3>2 DEF Triggers
    <3> QED
      BY <3>3 DEF OldExpiring
  <2> QED
    BY <1>3, <2>1, <2>2 DEF RevokeStep
<1>4. CASE ProcessPendingStep
  <2>1. PICK done : ProcessPendingRevokes(done)
    BY <1>4 DEF ProcessPendingStep
  <2>2. CASE HasOpenRevoke(g)
    <3>1. grant'[g] = GrantAfterRevoke(grant[g], DecidingTrigger(done, g),
                                       Answer(done, g, Deciding(done, g)))
      BY <2>1, <2>2 DEF ProcessPendingRevokes
    <3>2. revokeTasks[g] \in Seq(RevokeTaskRow) /\ Tracked(g)
      BY RowTypes DEF HoldingInv, RevocationInv, RevocationTracked
    <3>3. LatestOf(revokeTasks[g]).trigger \in Triggers
      BY <2>2, <3>2, OneOpenTask DEF RevokeTaskRow
    <3>4. DecidingTrigger(done, g) \in Triggers
      BY <2>2, <3>2, <3>3, OneDecides
    <3>5. Answer(done, g, Deciding(done, g)) \in RevokeOutcomes
      BY AnswerType
    <3> QED
      BY <1>1, <1>2, <3>1, <3>4, <3>5 DEF OldExpiring
  <2>3. CASE ~HasOpenRevoke(g)
    BY <2>1, <2>3 DEF ProcessPendingRevokes, OldExpiring
  <2> QED
    BY <2>2, <2>3
<1> QED
  BY <1>3, <1>4

LEMMA OthersNotExpiring ==
  ASSUME HoldingInv, [Next]_vars, ~ReconcileGrantLifecycle, NEW g \in Grants
  PROVE  OldExpiring(g) /\ UNCHANGED reminders
<1>1. CASE UNCHANGED <<grant, reminders>>
  BY <1>1 DEF OldExpiring
<1>2. CASE CallbackStep
  <2>1. PICK r \in Requests, k \in Keys :
          \/ \E outcome \in ProvisionOutcomes : ApproveRequest(r, k, outcome)
          \/ ApproveRenewal(r, k)
          \/ UNCHANGED <<grant, reminders>>
    BY <1>2 DEF CallbackStep, DenyRequest, FailCallback, RefuseCallback
  <2>2. CASE \E outcome \in ProvisionOutcomes : ApproveRequest(r, k, outcome)
    <3>1. PICK outcome \in ProvisionOutcomes : ApproveRequest(r, k, outcome)
      BY <2>2
    <3>2. UNCHANGED reminders /\ DefaultGrant[r] \in Grants
      BY <3>1, AccessStateAssumption DEF ApproveRequest
    <3>3. UNCHANGED grant \/
            \E expire : ProvisionEffect(r, DefaultGrant[r], expire, 0, outcome)
      BY <3>1 DEF ApproveRequest
    <3> QED
      BY <1>1, <3>2, <3>3, ProvisionedNotExpiring
  <2>3. CASE ApproveRenewal(r, k)
    <3>1. UNCHANGED reminders
      BY <2>3 DEF ApproveRenewal
    <3>2. RenewedRows(r) \/ UNCHANGED grant
      BY <2>3, ApproveRenewalShape DEF RequestWritten
    <3>3. grant'[g] = grant[g] \/ grant'[g].status = "Active"
      BY <3>2 DEF RenewedRows
    <3> QED
      BY <3>1, <3>3 DEF OldExpiring
  <2> QED
    BY <1>1, <2>1, <2>2, <2>3
<1>3. CASE ProvisionStep
  <2>1. PICK r \in Requests, h \in Grants, outcome \in ProvisionOutcomes :
          ProvisionGrant(r, h, outcome) \/ RetryProvision(r, h, outcome)
    BY <1>3 DEF ProvisionStep
  <2>2. UNCHANGED reminders /\ \E expire, retry : ProvisionEffect(r, h, expire, retry, outcome)
    BY <2>1 DEF ProvisionGrant, RetryProvision
  <2> QED
    BY <2>2, ProvisionedNotExpiring
<1>4. CASE RevokeStep \/ ProcessPendingStep
  <2>1. UNCHANGED reminders
    BY <1>4
    DEF RevokeStep, RevokeSession, DisableAgent, RetryRevoke, ProcessPendingStep,
        ProcessPendingRevokes
  <2> QED
    BY <1>4, <2>1, RevokedNotExpiring
<1> QED
  BY <1>1, <1>2, <1>3, <1>4
  DEF Next, CreateRequest, EvaluationStep, EvaluateRequest, FailEvaluation, RenewStep, RenewGrant,
      Tick, vars

ReminderOf(g) ==
  grant[g].status = "Expiring" =>
    \E i \in DOMAIN reminders[g] :
      /\ reminders[g][i].expire = grant[g].expire
      /\ reminders[g][i].round = request[grant[g].request].round

Distinct(list) == \A i, j \in DOMAIN list : list[i] = list[j] => i = j

LEMMA RemindedByGrant ==
  RemindedOnce <=> \A g \in Grants : Distinct(reminders[g]) /\ ReminderOf(g)
BY DEF RemindedOnce, Distinct, ReminderOf

LEMMA RemindedReconcile ==
  ASSUME HoldingInv, RemindedOnce, ReconcileGrantLifecycle, NEW g \in Grants
  PROVE  Distinct(reminders'[g]) /\ ReminderOf(g)'
<1>1. [Next]_vars
  BY DEF Next
<1>2. /\ reminders[g] \in Seq(ReminderRow) /\ Distinct(reminders[g]) /\ ReminderOf(g)
      /\ Reminder(g).expire = grant[g].expire
      /\ Reminder(g).round = request[grant[g].request].round
  BY RemindedByGrant DEF HoldingInv, RevocationInv, TypeInv, TypeOK, Reminder
<1>3. CASE g \in Nearing
  <2>1. /\ Exists(g) /\ grant[g].request \in Requests
        /\ request[grant[g].request].status # "Absent"
    <3>1. Exists(g)
      BY <1>3 DEF Nearing, Renewable, Exists
    <3> QED
      BY <3>1, HolderFacts, HoldsByStatus
  <2>2. grant'[g].expire = grant[g].expire /\ grant'[g].request = grant[g].request
    <3>1. grant[g] \in GrantRow /\ g \notin Due
      BY <1>3, RowTypes DEF Nearing, Due, GrantRow
    <3>2. grant'[g] = ExpiringRow(grant[g])
      BY <1>3, <3>1 DEF ReconcileGrantLifecycle
    <3> QED
      BY <3>1, <3>2 DEF ExpiringRow, GrantRow
  <2>3. request'[grant[g].request].round = request[grant[g].request].round
    BY <1>1, <2>1, RoundsKept
  <2>4. Distinct(reminders'[g]) /\ \E i \in DOMAIN reminders'[g] : reminders'[g][i] = Reminder(g)
    <3>1. CASE Reminded(g)
      <4>1. reminders'[g] = reminders[g]
        BY <3>1 DEF ReconcileGrantLifecycle
      <4> QED
        BY <1>2, <3>1, <4>1 DEF Reminded
    <3>2. CASE ~Reminded(g)
      <4>1. reminders'[g] = Append(reminders[g], Reminder(g))
        BY <1>3, <3>2 DEF ReconcileGrantLifecycle
      <4>2. /\ Len(reminders[g]) \in Nat /\ DOMAIN reminders[g] = 1 .. Len(reminders[g])
            /\ DOMAIN reminders'[g] = 1 .. Len(reminders[g]) + 1
            /\ reminders'[g][Len(reminders[g]) + 1] = Reminder(g)
            /\ \A i \in 1 .. Len(reminders[g]) : reminders'[g][i] = reminders[g][i]
        BY <1>2, <4>1, LenProperties
      <4>3. \A i \in 1 .. Len(reminders[g]) : reminders[g][i] # Reminder(g)
        BY <3>2, <4>2 DEF Reminded
      <4>4. Distinct(reminders'[g])
        <5> SUFFICES ASSUME NEW i \in DOMAIN reminders'[g], NEW j \in DOMAIN reminders'[g],
                            reminders'[g][i] = reminders'[g][j]
                     PROVE  i = j
          BY DEF Distinct
        <5> DEFINE n == Len(reminders[g])
        <5>1. CASE i = n + 1 /\ j = n + 1
          BY <5>1
        <5>2. CASE i \in 1 .. n /\ j \in 1 .. n
          <6>1. reminders[g][i] = reminders[g][j] /\ Distinct(reminders[g])
            BY <1>2, <4>2, <5>2
          <6> QED
            BY <4>2, <5>2, <6>1 DEF Distinct
        <5>3. ~(i \in 1 .. n /\ j = n + 1) /\ ~(j \in 1 .. n /\ i = n + 1)
          BY <4>2, <4>3
        <5> QED
          BY <4>2, <5>1, <5>2, <5>3
      <4> QED
        BY <4>2, <4>4
    <3> QED
      BY <3>1, <3>2
  <2> QED
    BY <1>2, <2>2, <2>3, <2>4 DEF ReminderOf
<1>4. CASE g \notin Nearing
  <2>1. reminders'[g] = reminders[g]
    BY <1>4 DEF ReconcileGrantLifecycle
  <2>2. grant'[g] = grant[g] \/ grant'[g] = [grant[g] EXCEPT !.status = "Expired"]
    BY <1>4 DEF ReconcileGrantLifecycle
  <2>3. grant'[g].status = "Expiring" => grant'[g] = grant[g]
    BY <2>2, RowTypes DEF GrantRow
  <2>4. grant[g].status = "Expiring" => 
          /\ grant[g].request \in Requests
          /\ request[grant[g].request].status # "Absent"
    BY HolderFacts, HoldsByStatus DEF Exists
  <2>5. grant[g].status = "Expiring" =>
          request'[grant[g].request].round = request[grant[g].request].round
    BY <1>1, <2>4, RoundsKept
  <2> QED
    BY <1>2, <2>1, <2>3, <2>5 DEF ReminderOf
<1> QED
  BY <1>3, <1>4

LEMMA RemindedNext == HoldingInv /\ RemindedOnce /\ [Next]_vars => RemindedOnce'
<1> SUFFICES ASSUME HoldingInv, RemindedOnce, [Next]_vars PROVE RemindedOnce'
  OBVIOUS
<1>1. ASSUME NEW g \in Grants PROVE Distinct(reminders'[g]) /\ ReminderOf(g)'
  <2>1. CASE ReconcileGrantLifecycle
    BY <2>1, RemindedReconcile
  <2>2. CASE ~ReconcileGrantLifecycle
    <3>1. OldExpiring(g) /\ UNCHANGED reminders
      BY <2>2, OthersNotExpiring
    <3>2. Distinct(reminders[g]) /\ ReminderOf(g)
      BY RemindedByGrant
    <3>3. grant[g].status = "Expiring" =>
            /\ grant[g].request \in Requests
            /\ request[grant[g].request].status # "Absent"
      BY HolderFacts, HoldsByStatus DEF Exists
    <3>4. grant[g].status = "Expiring" =>
            request'[grant[g].request].round = request[grant[g].request].round
      BY <3>3, RoundsKept
    <3> QED
      BY <3>1, <3>2, <3>4 DEF OldExpiring, ReminderOf
  <2> QED
    BY <2>1, <2>2
<1> QED
  BY <1>1 DEF RemindedOnce, Distinct, ReminderOf

\* Reconciliation runs every hour over a grant that stays near its expiry, and
\* a renewal starts the reminders again under another round: a grant is
\* expiring only with its own reminder, and none is recorded twice.
THEOREM RemindersAreUnique == Spec => []RemindedOnce
<1>1. Init => RemindedOnce
  BY DEF Init, RemindedOnce, AbsentGrant
<1> QED
  BY <1>1, HoldingInvAlways, RemindedNext, PTL DEF Spec

=============================================================================
