------------------------- MODULE Revocation_proofs -------------------------
(***************************************************************************)
(* Proofs about revocation: sessions and revoke tasks stay in step, and    *)
(* what was revoked or ended stays so.                                     *)
(***************************************************************************)
EXTENDS AccessSystem_proofs

\* A session that was asked to be revoked belongs to a grant that is ending:
\* no renewal and no expiry can take that grant up again.
EndingSession ==
  \A g \in Grants :
    session[g].status \notin {"Absent", "Active"} => grant[g].status \in Ending

RevocationInv == TypeInv /\ RevocationTracked /\ EndingSession

LEMMA RevocationInvInit == Init => RevocationInv
<1> SUFFICES ASSUME Init PROVE RevocationInv
  OBVIOUS
<1>1. TypeInv
  BY TypeInvInit
<1>2. RevocationTracked /\ EndingSession
  BY DEF Init, RevocationTracked, Tracked, EndingSession, NoRevokeTask, AbsentSession
<1> QED
  BY <1>1, <1>2 DEF RevocationInv

-----------------------------------------------------------------------------
(***************************************************************************)
(* Lists of tasks.                                                         *)
(***************************************************************************)
\* Appending to a list without open tasks leaves only the new one open.
LEMMA AppendTracked ==
  ASSUME NEW tasks \in Seq(RevokeTaskRow), NEW task \in RevokeTaskRow,
         \A i \in DOMAIN tasks : ~IsOpen(tasks[i])
  PROVE  /\ Append(tasks, task) # <<>>
         /\ LatestOf(Append(tasks, task)) = task
         /\ \A i \in DOMAIN Append(tasks, task) :
              IsOpen(Append(tasks, task)[i]) => i = Len(Append(tasks, task))
<1> DEFINE more == Append(tasks, task)
<1>1. /\ Len(tasks) \in Nat /\ DOMAIN tasks = 1 .. Len(tasks)
      /\ more \in Seq(RevokeTaskRow) /\ Len(more) = Len(tasks) + 1
      /\ DOMAIN more = 1 .. Len(more)
  BY LenProperties
<1>2. more[Len(more)] = task /\ \A i \in 1 .. Len(tasks) : more[i] = tasks[i]
  BY <1>1
<1>3. more # <<>>
  BY <1>1, EmptySeq
<1>4. \A i \in DOMAIN more : IsOpen(more[i]) => i = Len(more)
  <2> SUFFICES ASSUME NEW i \in DOMAIN more, i # Len(more) PROVE ~IsOpen(more[i])
    OBVIOUS
  <2>1. i \in 1 .. Len(tasks)
    BY <1>1
  <2> QED
    BY <1>1, <1>2, <2>1
<1> QED
  BY <1>2, <1>3, <1>4 DEF LatestOf

\* A session whose latest task is settled has no open task at all.
LEMMA SettledTasks ==
  ASSUME TypeInv, NEW g \in Grants, Tracked(g), ~NoRevokeTask(g),
         ~IsOpen(LatestOf(revokeTasks[g]))
  PROVE  \A i \in DOMAIN revokeTasks[g] : ~IsOpen(revokeTasks[g][i])
BY DEF Tracked, LatestOf

-----------------------------------------------------------------------------
(***************************************************************************)
(* The steps of a revocation, on one grant.                                *)
(***************************************************************************)
LEMMA RequestedTracked ==
  ASSUME TypeInv, NEW g \in Grants, NEW trigger \in Triggers, Tracked(g), Revocable(g),
         session'[g] = SessionAfterRequest(g), revokeTasks'[g] = TasksAfterRequest(g, trigger)
  PROVE  Tracked(g)'
<1> DEFINE task == [status |-> IF Retrying(g) THEN "Retrying" ELSE "Pending",
                    retry |-> NextRetry(g), trigger |-> trigger]
<1>1. revokeTasks[g] \in Seq(RevokeTaskRow) /\ session[g] \in SessionRow
  BY DEF TypeInv, TypeOK
<1>2. task \in RevokeTaskRow
  BY NextRetryType DEF RevokeTaskRow, TaskStatus
<1>3. NoRevokeTask(g) \/ ~IsOpen(LatestOf(revokeTasks[g]))
  BY DEF Tracked, Revocable, SessionBy, IsOpen
<1>4. \A i \in DOMAIN revokeTasks[g] : ~IsOpen(revokeTasks[g][i])
  <2>1. CASE NoRevokeTask(g)
    <3>1. DOMAIN revokeTasks[g] = {}
      BY <1>1, <2>1, LenProperties, EmptySeq DEF NoRevokeTask
    <3> QED
      BY <3>1
  <2>2. CASE ~NoRevokeTask(g)
    BY <1>3, <2>2, SettledTasks
  <2> QED
    BY <2>1, <2>2
<1>5. revokeTasks'[g] = Append(revokeTasks[g], task)
  BY <1>3 DEF TasksAfterRequest
<1>6. session'[g].status = IF Retrying(g) THEN "Syncing" ELSE "Revoking"
  BY <1>1 DEF SessionAfterRequest, SessionRow
<1>7. task.status = IF Retrying(g) THEN "Retrying" ELSE "Pending"
  OBVIOUS
<1> HIDE DEF task
<1>8. /\ revokeTasks'[g] # <<>> /\ LatestOf(revokeTasks'[g]) = task
      /\ \A i \in DOMAIN revokeTasks'[g] :
           IsOpen(revokeTasks'[g][i]) => i = Len(revokeTasks'[g])
  BY <1>1, <1>2, <1>4, <1>5, AppendTracked
<1> QED
  BY <1>6, <1>7, <1>8 DEF Tracked, NoRevokeTask, SessionBy, IsOpen, LatestOf

\* Where revocations are tracked the only open task of a grant is the latest.
LEMMA OneOpenTask ==
  ASSUME NEW g \in Grants, revokeTasks[g] \in Seq(RevokeTaskRow), Tracked(g), HasOpenRevoke(g)
  PROVE  /\ OpenOf(g) = {Len(revokeTasks[g])} /\ Newest(OpenOf(g)) = Len(revokeTasks[g])
         /\ revokeTasks[g] # <<>> /\ IsOpen(LatestOf(revokeTasks[g]))
         /\ LatestOf(revokeTasks[g]) \in RevokeTaskRow
<1> DEFINE n == Len(revokeTasks[g])
<1>1. DOMAIN revokeTasks[g] = 1 .. n /\ n \in Nat
  BY LenProperties
<1>2. OpenOf(g) = {n}
  BY DEF HasOpenRevoke, OpenOf, Tracked
<1>3. n \in DOMAIN revokeTasks[g] /\ IsOpen(revokeTasks[g][n])
  BY <1>2 DEF OpenOf
<1>4. revokeTasks[g][n] \in RevokeTaskRow
  BY <1>1, <1>3, ElementOfSeq
<1>5. revokeTasks[g] # <<>>
  BY <1>1, <1>3, EmptySeq
<1> HIDE DEF n
<1>6. Newest({n}) = n
  <2>1. \A i \in {n} : \A j \in {n} : j <= i
    BY <1>1
  <2>2. Newest({n}) \in {n}
    BY <2>1 DEF Newest
  <2> QED
    BY <2>2
<1> QED
  BY <1>2, <1>3, <1>4, <1>5, <1>6 DEF LatestOf, n

LEMMA ProcessedTracked ==
  ASSUME TypeInv, NEW g \in Grants, NEW done, Tracked(g), HasOpenRevoke(g),
         session'[g] = SessionAfterRevoke(session[g], Answer(done, g, Newest(OpenOf(g)))),
         revokeTasks'[g] = [i \in DOMAIN revokeTasks[g] |->
                              IF i \in OpenOf(g)
                              THEN TaskAfterRevoke(revokeTasks[g][i], Answer(done, g, i))
                              ELSE revokeTasks[g][i]]
  PROVE  Tracked(g)'
<1> DEFINE tasks == revokeTasks[g]
           after == revokeTasks'[g]
           outcome == Answer(done, g, Len(tasks))
<1>1. tasks \in Seq(RevokeTaskRow) /\ session[g] \in SessionRow
  BY DEF TypeInv, TypeOK
<1>2. after \in Seq(RevokeTaskRow)
  <2>1. [i \in DOMAIN revokeTasks[g] |->
           IF i \in OpenOf(g) THEN TaskAfterRevoke(revokeTasks[g][i], Answer(done, g, i))
           ELSE revokeTasks[g][i]] \in Seq(RevokeTaskRow)
    BY <1>1, ProcessedTasks
  <2> QED
    BY <2>1
<1>3. /\ DOMAIN after = DOMAIN tasks /\ DOMAIN tasks = 1 .. Len(tasks)
      /\ DOMAIN after = 1 .. Len(after) /\ Len(tasks) \in Nat /\ Len(after) \in Nat
  BY <1>1, <1>2, LenProperties
<1>4. OpenOf(g) = {Len(tasks)} /\ Newest(OpenOf(g)) = Len(tasks)
  BY <1>1, OneOpenTask
<1>5. Len(tasks) \in DOMAIN tasks /\ Len(after) = Len(tasks)
  BY <1>3, <1>4 DEF OpenOf
<1>6. ASSUME NEW j \in DOMAIN after PROVE ~IsOpen(after[j])
  <2>1. tasks[j] \in RevokeTaskRow
    BY <1>1, <1>3, ElementOfSeq
  <2> QED
    BY <1>3, <2>1, AnswerType DEF OpenOf, IsOpen, TaskAfterRevoke, RevokeTaskRow, RevokeOutcomes
<1>7. LatestOf(after).status = outcome
  <2>1. tasks[Len(tasks)] \in RevokeTaskRow
    BY <1>1, <1>3, <1>5, ElementOfSeq
  <2>2. after[Len(tasks)] = TaskAfterRevoke(tasks[Len(tasks)], outcome)
    BY <1>4, <1>5
  <2> QED
    BY <1>5, <2>1, <2>2 DEF LatestOf, TaskAfterRevoke, RevokeTaskRow
<1>8. after # <<>>
  BY <1>3, <1>5, EmptySeq
<1>9. session'[g].status = IF outcome = "Succeeded" THEN "Revoked" ELSE "SyncFailed"
  BY <1>1, <1>4 DEF SessionAfterRevoke, SessionRow
<1>10. outcome = "Succeeded" \/ outcome = "Failed"
  BY DEF Answer
<1>11. session'[g].status = SessionBy(LatestOf(after).status)
  BY <1>7, <1>9, <1>10 DEF SessionBy
<1> QED
  BY <1>6, <1>8, <1>9, <1>11 DEF Tracked, NoRevokeTask, IsOpen, LatestOf, SessionBy

\* What a revocation makes of a grant: it is ending, and stays so.
LEMMA GrantEnding ==
  ASSUME NEW row \in GrantRow, NEW trigger, NEW outcome \in RevokeOutcomes
  PROVE  /\ GrantAfterRequest(row).status \in Ending
         /\ GrantAfterRequest(row) \in GrantRow
         /\ row.status \in Ending => GrantAfterRevoke(row, trigger, outcome).status \in Ending
<1>1. GrantAfterRequest(row).status \in Ending /\ GrantAfterRequest(row) \in GrantRow
  BY DEF GrantAfterRequest, GrantRow, GrantStatus, Ending
<1>2. row.status \in Ending => GrantAfterRevoke(row, trigger, outcome).status \in Ending
  BY DEF GrantAfterRevoke, FinalStatus, GrantRow, Ending
<1> QED
  BY <1>1, <1>2

-----------------------------------------------------------------------------
(***************************************************************************)
(* Each step keeps RevocationTracked and EndingSession, and lets nothing   *)
(* that is ending come back.  Ends(g) is that last fact, for one grant.    *)
(***************************************************************************)
Ends(g) ==
  /\ session[g].status \notin {"Absent", "Active"} =>
       session'[g].status \notin {"Absent", "Active"}
  /\ grant[g].status \in Ending => grant'[g].status \in Ending

EndingOf(g) == session[g].status \notin {"Absent", "Active"} => grant[g].status \in Ending

Kept(g) == Tracked(g)' /\ EndingOf(g)' /\ Ends(g)

\* A grant none of whose rows is written.
LEMMA UntouchedKept ==
  ASSUME RevocationInv, NEW g \in Grants, session'[g] = session[g],
         grant'[g].status = grant[g].status, revokeTasks'[g] = revokeTasks[g]
  PROVE  Kept(g)
BY DEF RevocationInv, RevocationTracked, EndingSession, Kept, EndingOf, Ends, Tracked,
   NoRevokeTask

LEMMA ProvisionKept ==
  ASSUME RevocationInv, NEW r \in Requests, NEW g \in Grants, NEW expire, NEW retry,
         NEW outcome \in ProvisionOutcomes, ProvisionEffect(r, g, expire, retry, outcome),
         UNCHANGED revokeTasks, revokeTasks[g] = <<>>,
         grant[g].status \in {"NotCreated", "ProvisionFailed"}, NEW h \in Grants
  PROVE  Kept(h)
<1>1. grant \in [Grants -> GrantRow] /\ session \in [Grants -> SessionRow]
  BY DEF RevocationInv, TypeInv, TypeOK
<1>2. CASE h # g
  <2>1. session'[h] = session[h] /\ grant'[h] = grant[h]
    BY <1>1, <1>2 DEF ProvisionEffect
  <2> QED
    BY <2>1, UntouchedKept
<1>3. CASE h = g
  <2>1. session[g].status \in {"Absent", "Active"} /\ NoRevokeTask(g)
    BY DEF RevocationInv, RevocationTracked, Tracked, NoRevokeTask
  <2>2. session'[g].status \in {"Absent", "Active"}
    BY <1>1, <2>1 DEF ProvisionEffect, BoundSession
  <2>3. grant[g].status \notin Ending
    BY DEF Ending
  <2>4. NoRevokeTask(g)' /\ revokeTasks'[g] = revokeTasks[g]
    BY DEF NoRevokeTask
  <2>5. Tracked(g)'
    BY <2>2, <2>4 DEF RevocationInv, RevocationTracked, Tracked
  <2> QED
    BY <1>3, <2>1, <2>2, <2>3, <2>5 DEF Kept, EndingOf, Ends
<1> QED
  BY <1>2, <1>3

LEMMA ProvisionGrantKept ==
  ASSUME RevocationInv, NEW r \in Requests, NEW g \in Grants,
         NEW outcome \in ProvisionOutcomes, NEW h \in Grants,
         ProvisionGrant(r, g, outcome) \/ RetryProvision(r, g, outcome)
  PROVE  Kept(h)
<1>1. CASE ProvisionGrant(r, g, outcome)
  <2>1. grant[g].status = "NotCreated" /\ revokeTasks[g] = <<>>
    BY <1>1 DEF ProvisionGrant, CanProvision, RevocationInv, TypeInv, Linked, Held, Exists,
       NoRevokeTask
  <2> QED
    BY <1>1, <2>1, ProvisionKept DEF ProvisionGrant
<1>2. CASE RetryProvision(r, g, outcome)
  <2>1. grant[g].status = "ProvisionFailed" /\ revokeTasks[g] = <<>>
    BY <1>2 DEF RetryProvision, CanRetryProvision
  <2> QED
    BY <1>2, <2>1, ProvisionKept DEF RetryProvision
<1> QED
  BY <1>1, <1>2

LEMMA ApproveKept ==
  ASSUME RevocationInv, NEW r \in Requests, NEW k \in Keys,
         NEW outcome \in ProvisionOutcomes, NEW h \in Grants, ApproveRequest(r, k, outcome)
  PROVE  Kept(h)
<1> DEFINE g == DefaultGrant[r]
           row == ApprovedRow(r)
<1>1. g \in Grants
  BY AccessStateAssumption
<1>2. CASE CanProvision(r, g, row)
  <2>1. grant[g].status = "NotCreated" /\ revokeTasks[g] = <<>>
    BY <1>1, <1>2 DEF CanProvision, RevocationInv, TypeInv, Linked, Held, Exists, NoRevokeTask
  <2>2. /\ ProvisionEffect(r, g, now + row.duration, 0, outcome)
        /\ UNCHANGED revokeTasks
    BY <1>2 DEF ApproveRequest
  <2> HIDE DEF g, row
  <2> QED
    BY <1>1, <2>1, <2>2, ProvisionKept
<1>3. CASE ~CanProvision(r, g, row)
  BY <1>3, UntouchedKept DEF ApproveRequest
<1> QED
  BY <1>2, <1>3

LEMMA ApproveRenewalKept ==
  ASSUME RevocationInv, NEW r \in Requests, NEW k \in Keys, NEW h \in Grants,
         ApproveRenewal(r, k)
  PROVE  Kept(h)
<1> DEFINE row == ApprovedRow(r)
           g == row.renews
<1>1. CASE CanCompleteRenewal(row) /\ h = g
  <2>1. grant[h].status \notin Ending
    BY <1>1 DEF CanCompleteRenewal, Renewable, Ending
  <2>2. session[h].status \in {"Absent", "Active"}
    BY <2>1 DEF RevocationInv, EndingSession
  <2>3. session' = IF session[g].status = "Absent" THEN session
                   ELSE [session EXCEPT ![g].request = r]
    BY <1>1 DEF ApproveRenewal, RenewalEffect
  <2> HIDE DEF g
  <2>4. session'[h].status = session[h].status
    BY <1>1, <2>3 DEF RevocationInv, TypeInv, TypeOK, SessionRow
  <2>5. revokeTasks' = revokeTasks
    BY DEF ApproveRenewal
  <2> QED
    BY <2>1, <2>2, <2>4, <2>5
    DEF RevocationInv, RevocationTracked, Kept, Tracked, NoRevokeTask, EndingOf, Ends
<1>2. CASE CanCompleteRenewal(row) /\ h # g
  <2>1. /\ grant' = [grant EXCEPT ![g] =
             [@ EXCEPT !.request = r, !.status = "Active", !.expire = grant[g].expire + row.duration]]
        /\ session' = IF session[g].status = "Absent" THEN session
                      ELSE [session EXCEPT ![g].request = r]
    BY <1>2 DEF ApproveRenewal, RenewalEffect
  <2> HIDE DEF g, row
  <2>2. session'[h] = session[h] /\ grant'[h] = grant[h]
    BY <1>2, <2>1 DEF RevocationInv, TypeInv, TypeOK
  <2> QED
    BY <2>2, UntouchedKept DEF ApproveRenewal
<1>3. CASE ~CanCompleteRenewal(row)
  BY <1>3, UntouchedKept DEF ApproveRenewal
<1> QED
  BY <1>1, <1>2, <1>3

LEMMA RequestedKept ==
  ASSUME RevocationInv, NEW S \in SUBSET Grants, \A g \in S : Revocable(g),
         RequestRevokes(S), NEW h \in Grants
  PROVE  Kept(h)
<1>1. CASE h \in S
  <2>1. /\ session'[h] = SessionAfterRequest(h)
        /\ grant'[h] = GrantAfterRequest(grant[h])
        /\ revokeTasks'[h] = TasksAfterRequest(h, "Requested")
    BY <1>1 DEF RequestRevokes
  <2>2. session[h] \in SessionRow /\ grant[h] \in GrantRow
    BY DEF RevocationInv, TypeInv, TypeOK
  <2>3. Tracked(h)'
    BY <1>1, <2>1, RequestedTracked DEF RevocationInv, RevocationTracked, Triggers
  <2>4. grant'[h].status \in Ending
    BY <2>1, <2>2, GrantEnding DEF RevokeOutcomes
  <2>5. session'[h].status \in {"Syncing", "Revoking"}
    BY <2>1, <2>2 DEF SessionAfterRequest, SessionRow
  <2> QED
    BY <2>3, <2>4, <2>5 DEF Kept, EndingOf, Ends
<1>2. CASE h \notin S
  BY <1>2, UntouchedKept DEF RequestRevokes
<1> QED
  BY <1>1, <1>2

LEMMA ProcessPendingKept ==
  ASSUME RevocationInv, NEW done, ProcessPendingRevokes(done), NEW h \in Grants
  PROVE  Kept(h)
<1>1. /\ session[h] \in SessionRow /\ grant[h] \in GrantRow
      /\ revokeTasks[h] \in Seq(RevokeTaskRow)
  BY DEF RevocationInv, TypeInv, TypeOK
<1>2. CASE HasOpenRevoke(h)
  <2>1. /\ session'[h] = SessionAfterRevoke(session[h], Answer(done, h, Newest(OpenOf(h))))
        /\ grant'[h] = GrantAfterRevoke(grant[h], DecidingTrigger(done, h),
                                        Answer(done, h, Deciding(done, h)))
        /\ revokeTasks'[h] = [i \in DOMAIN revokeTasks[h] |->
             IF i \in OpenOf(h) THEN TaskAfterRevoke(revokeTasks[h][i], Answer(done, h, i))
             ELSE revokeTasks[h][i]]
    BY <1>2 DEF ProcessPendingRevokes
  <2>2. Tracked(h)'
    BY <1>2, <2>1, ProcessedTracked DEF RevocationInv, RevocationTracked
  <2>3. grant[h].status \in Ending
    BY <1>1, <1>2, LenProperties, EmptySeq
    DEF HasOpenRevoke, OpenOf, RevocationInv, RevocationTracked, Tracked, NoRevokeTask, EndingSession
  <2>4. grant'[h].status \in Ending
    <3>1. Answer(done, h, Deciding(done, h)) \in RevokeOutcomes
      BY AnswerType
    <3> QED
      BY <1>1, <2>1, <2>3, <3>1, GrantEnding
  <2>5. session'[h].status \in {"Revoked", "SyncFailed"}
    BY <1>1, <2>1 DEF SessionAfterRevoke, SessionRow
  <2> QED
    BY <2>2, <2>4, <2>5 DEF Kept, EndingOf, Ends
<1>3. CASE ~HasOpenRevoke(h)
  <2>1. session'[h] = session[h] /\ grant'[h] = grant[h]
    BY <1>3 DEF ProcessPendingRevokes
  <2>2. revokeTasks'[h] = [i \in DOMAIN revokeTasks[h] |-> revokeTasks[h][i]]
    BY <1>3 DEF ProcessPendingRevokes, HasOpenRevoke, OpenOf
  <2>3. revokeTasks'[h] = revokeTasks[h]
    BY <1>1, <2>2, LenProperties
  <2> QED
    BY <2>1, <2>3, UntouchedKept
<1> QED
  BY <1>2, <1>3

LEMMA RetryRevokeKept ==
  ASSUME RevocationInv, NEW g \in Grants, NEW outcome \in RevokeOutcomes,
         RetryRevoke(g, outcome), NEW h \in Grants
  PROVE  Kept(h)
<1>1. /\ session \in [Grants -> SessionRow] /\ grant \in [Grants -> GrantRow]
      /\ revokeTasks \in [Grants -> Seq(RevokeTaskRow)]
  BY DEF RevocationInv, TypeInv, TypeOK
<1>2. CASE h # g
  <2>1. session'[h] = session[h] /\ grant'[h] = grant[h] /\ revokeTasks'[h] = revokeTasks[h]
    BY <1>1, <1>2 DEF RetryRevoke
  <2> QED
    BY <2>1, UntouchedKept
<1>3. CASE h = g
  <2> DEFINE task == [status |-> outcome, retry |-> NextRetry(g), trigger |-> "Requested"]
  <2>1. task \in RevokeTaskRow /\ task.status = outcome
    BY NextRetryType DEF RevocationInv, RevokeTaskRow, TaskStatus, RevokeOutcomes, Triggers
  <2>2. /\ session'[g] = SessionAfterRevoke(SessionAfterRequest(g), outcome)
        /\ grant'[g] = GrantAfterRevoke(GrantAfterRequest(grant[g]), "Requested", outcome)
        /\ revokeTasks'[g] = Append(revokeTasks[g], task)
    BY <1>1 DEF RetryRevoke
  <2> HIDE DEF task
  <2>3. \A i \in DOMAIN revokeTasks[g] : ~IsOpen(revokeTasks[g][i])
    BY SettledTasks
    DEF RetryRevoke, CanRetryRevoke, IsOpen, RevocationInv, RevocationTracked
  <2>4. /\ revokeTasks'[g] # <<>> /\ LatestOf(revokeTasks'[g]) = task
        /\ \A i \in DOMAIN revokeTasks'[g] :
             IsOpen(revokeTasks'[g][i]) => i = Len(revokeTasks'[g])
    BY <1>1, <2>1, <2>2, <2>3, AppendTracked
  <2>5. session'[g].status = IF outcome = "Succeeded" THEN "Revoked" ELSE "SyncFailed"
    BY <1>1, <2>2 DEF SessionAfterRevoke, SessionAfterRequest, SessionRow
  <2>6. outcome = "Succeeded" \/ outcome = "Failed"
    BY DEF RevokeOutcomes
  <2>7. Tracked(g)'
    BY <2>1, <2>4, <2>5, <2>6 DEF Tracked, NoRevokeTask, SessionBy, LatestOf
  <2>8. grant'[g].status \in Ending
    BY <1>1, <2>2, GrantEnding
  <2> QED
    BY <1>3, <2>5, <2>6, <2>7, <2>8 DEF Kept, EndingOf, Ends
<1> QED
  BY <1>2, <1>3

LEMMA ReconcileKept ==
  ASSUME RevocationInv, ReconcileGrantLifecycle, NEW h \in Grants
  PROVE  Kept(h)
<1>1. session[h] \in SessionRow /\ grant[h] \in GrantRow
  BY DEF RevocationInv, TypeInv, TypeOK
<1>2. h \in Due => grant'[h] = [grant[h] EXCEPT !.status = "Expired"]
  <2>1. grant[h].expire \in Nat /\ now \in Nat
    BY <1>1 DEF GrantRow, RevocationInv, TypeInv, TypeOK
  <2>2. h \in Due => h \notin Nearing
    BY <2>1 DEF Due, Nearing
  <2> QED
    BY <2>2 DEF ReconcileGrantLifecycle
<1>3. CASE h \in Reclaimed
  <2>1. h \in Due /\ Revocable(h) /\ grant[h].status \in Renewable
    BY <1>3 DEF Reclaimed, Due
  \* A grant in force has no session whose revocation failed.
  <2>2. session[h].status = "Active" /\ grant[h].status \notin Ending
    BY <2>1 DEF RevocationInv, EndingSession, Revocable, Renewable, Ending
  <2>3. ~RetriesExhausted(h)
    BY <2>2 DEF RetriesExhausted, Retrying
  <2>4. /\ session'[h] = SessionAfterRequest(h)
        /\ revokeTasks'[h] = TasksAfterRequest(h, "GrantExpired")
        /\ grant'[h] = [grant[h] EXCEPT !.status = "Expired"]
    BY <1>3, <1>2, <2>1, <2>3 DEF ReconcileGrantLifecycle
  <2>5. Tracked(h)'
    BY <2>1, <2>4, RequestedTracked DEF RevocationInv, RevocationTracked, Triggers
  <2>6. grant'[h].status \in Ending
    BY <1>1, <2>4 DEF GrantRow, Ending
  <2> QED
    BY <2>2, <2>5, <2>6 DEF Kept, EndingOf, Ends
<1>4. CASE h \in Due \ Reclaimed
  <2>1. session'[h] = session[h] /\ revokeTasks'[h] = revokeTasks[h]
    BY <1>4 DEF ReconcileGrantLifecycle
  <2>2. grant'[h].status \in Ending
    BY <1>1, <1>4, <1>2 DEF GrantRow, Ending
  <2> QED
    BY <2>1, <2>2
    DEF RevocationInv, RevocationTracked, Kept, Tracked, NoRevokeTask, EndingOf, Ends
<1>5. CASE h \in Nearing \ Due
  <2>1. session'[h] = session[h] /\ revokeTasks'[h] = revokeTasks[h]
    BY <1>5 DEF ReconcileGrantLifecycle, Reclaimed
  <2>2. grant[h].status \notin Ending
    BY <1>5 DEF Nearing, Renewable, Ending
  <2>3. session[h].status \in {"Absent", "Active"}
    BY <2>2 DEF RevocationInv, EndingSession
  <2> QED
    BY <2>1, <2>2, <2>3
    DEF RevocationInv, RevocationTracked, Kept, Tracked, NoRevokeTask, EndingOf, Ends
<1>6. CASE h \notin Due \cup Nearing
  BY <1>6, UntouchedKept DEF ReconcileGrantLifecycle, Reclaimed
<1> QED
  BY <1>3, <1>4, <1>5, <1>6 DEF Reclaimed

\* The handlers that write no grant, session or revoke task.
LEMMA OthersKept ==
  ASSUME RevocationInv, UNCHANGED <<grant, session, revokeTasks>>, NEW h \in Grants
  PROVE  Kept(h)
BY UntouchedKept

LEMMA NextKept ==
  ASSUME RevocationInv, [Next]_vars, NEW h \in Grants
  PROVE  Kept(h)
<1>1. CASE \E r \in Requests : CreateRequest(r)
  BY <1>1, OthersKept DEF CreateRequest
<1>2. CASE EvaluationStep
  BY <1>2, OthersKept DEF EvaluationStep, EvaluateRequest, FailEvaluation
<1>3. CASE CallbackStep
  <2>1. PICK r \in Requests, k \in Keys :
          \/ \E outcome \in ProvisionOutcomes : ApproveRequest(r, k, outcome)
          \/ ApproveRenewal(r, k)
          \/ \E status \in Denials : DenyRequest(r, k, status)
          \/ FailCallback(r, k)
          \/ RefuseCallback(r, k)
    BY <1>3 DEF CallbackStep
  <2>2. CASE \E outcome \in ProvisionOutcomes : ApproveRequest(r, k, outcome)
    BY <2>2, ApproveKept
  <2>3. CASE ApproveRenewal(r, k)
    BY <2>3, ApproveRenewalKept
  <2>4. CASE \/ \E status \in Denials : DenyRequest(r, k, status)
             \/ FailCallback(r, k)
             \/ RefuseCallback(r, k)
    BY <2>4, OthersKept DEF DenyRequest, FailCallback, RefuseCallback
  <2> QED
    BY <2>1, <2>2, <2>3, <2>4
<1>4. CASE ProvisionStep
  BY <1>4, ProvisionGrantKept DEF ProvisionStep
<1>5. CASE RenewStep
  BY <1>5, OthersKept DEF RenewStep, RenewGrant
<1>6. CASE RevokeStep
  <2>1. CASE \E g \in Grants : RevokeSession(g)
    <3>1. PICK g \in Grants : RevokeSession(g)
      BY <2>1
    <3>2. {g} \in SUBSET Grants /\ (\A f \in {g} : Revocable(f)) /\ RequestRevokes({g})
      BY <3>1 DEF RevokeSession
    <3> QED
      BY <3>2, RequestedKept
  <2>2. CASE \E a \in Agents : DisableAgent(a)
    <3>1. PICK a \in Agents : DisableAgent(a)
      BY <2>2
    <3>2. /\ SessionsOf(a) \in SUBSET Grants
          /\ \A f \in SessionsOf(a) : Revocable(f)
          /\ RequestRevokes(SessionsOf(a))
      BY <3>1 DEF DisableAgent, SessionsOf
    <3> QED
      BY <3>2, RequestedKept
  <2>3. CASE \E g \in Grants, outcome \in RevokeOutcomes : RetryRevoke(g, outcome)
    BY <2>3, RetryRevokeKept
  <2> QED
    BY <1>6, <2>1, <2>2, <2>3 DEF RevokeStep
<1>7. CASE ProcessPendingStep
  BY <1>7, ProcessPendingKept DEF ProcessPendingStep
<1>8. CASE ReconcileGrantLifecycle
  BY <1>8, ReconcileKept
<1>9. CASE Tick
  BY <1>9, OthersKept DEF Tick
<1>10. CASE UNCHANGED vars
  BY <1>10, OthersKept DEF vars
<1> QED
  BY <1>1, <1>2, <1>3, <1>4, <1>5, <1>6, <1>7, <1>8, <1>9, <1>10 DEF Next

LEMMA RevocationInvNext == RevocationInv /\ [Next]_vars => RevocationInv'
<1> SUFFICES ASSUME RevocationInv, [Next]_vars PROVE RevocationInv'
  OBVIOUS
<1>1. TypeInv'
  BY TypeInvNext DEF RevocationInv
<1>2. RevocationTracked' /\ EndingSession'
  BY NextKept DEF Kept, RevocationTracked, EndingSession, EndingOf
<1> QED
  BY <1>1, <1>2 DEF RevocationInv

-----------------------------------------------------------------------------
\* For any number of grants, requests, callbacks and retries: a session is
\* being revoked exactly while its latest connector task is open, and its
\* status is that task's outcome otherwise.  EndingSession is what makes the
\* reconciliation's tolerance of exhausted retries harmless: a session whose
\* revocation failed is never on a grant that can still expire.
THEOREM RevocationStaysTracked == Spec => []RevocationTracked
<1>1. RevocationInv => RevocationTracked
  BY DEF RevocationInv
<1> QED
  BY <1>1, RevocationInvInit, RevocationInvNext, PTL DEF Spec

\* No handler, callback, retry or worker task gives a session back that was
\* asked to be revoked, or puts a grant back in force that ended or is ending.
THEOREM RevocationIsFinal == Spec => RevocationFinal
<1>1. RevocationInv /\ [Next]_vars =>
        [\A g \in Grants :
           /\ session[g].status \notin {"Absent", "Active"} =>
                session'[g].status \notin {"Absent", "Active"}
           /\ grant[g].status \in Ending => grant'[g].status \in Ending]_vars
  BY NextKept DEF Kept, Ends
<1> QED
  BY <1>1, RevocationInvInit, RevocationInvNext, PTL DEF Spec, RevocationFinal

=============================================================================
