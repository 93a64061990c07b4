------------------------- MODULE AccessTransactions -------------------------
(***************************************************************************)
(* Transactions that overlap.  AccessSystem takes each handler for one     *)
(* step.  Here one transaction is open for a while: it reads rows, works   *)
(* on its own copy of them (SQLAlchemy's identity map), calls the          *)
(* connector, and writes what it changed at commit, or never if it         *)
(* crashes.  Meanwhile the others commit.  No row carries a version and no *)
(* read takes a lock: only a flush does.                                   *)
(*                                                                         *)
(* One open transaction among atomic ones covers every overlap of two: of  *)
(* two transactions the one that commits first sees nothing change.        *)
(***************************************************************************)
EXTENDS AccessSystem

CONSTANTS
  MaxOpened,   \* bound on the transactions that stay open for a while
  MaxOverlap   \* bound on the transactions that commit meanwhile

ASSUME AccessTransactionsAssumption == MaxOpened \in Nat /\ MaxOverlap \in Nat

VARIABLES
  phase,      \* of the open transaction
  read,       \* the rows as it loaded them
  flushed,    \* what it flushed before working: the rows it holds locks on
  ownRequest, ownApproval, ownGrant, ownSession, ownProvisionTasks,
  ownRevokeTasks, ownReminders, ownAgentStatus, ownNow,  \* its copy of the rows
  authorized, \* grants for which the connector holds an authorization
  opened, overlap  \* counters for the two bounds

own == <<ownRequest, ownApproval, ownGrant, ownSession, ownProvisionTasks,
         ownRevokeTasks, ownReminders, ownAgentStatus, ownNow>>

openVars == <<phase, read, flushed, own>>

txVars == <<vars, openVars, authorized, opened, overlap>>

\* The handlers, at work on the open transaction's copy.
Own == INSTANCE AccessSystem WITH
  request <- ownRequest, approval <- ownApproval, grant <- ownGrant,
  session <- ownSession, provisionTasks <- ownProvisionTasks,
  revokeTasks <- ownRevokeTasks, reminders <- ownReminders,
  agentStatus <- ownAgentStatus, now <- ownNow

Database ==
  [request |-> request, approval |-> approval, grant |-> grant,
   session |-> session, provisionTasks |-> provisionTasks,
   revokeTasks |-> revokeTasks, reminders |-> reminders,
   agentStatus |-> agentStatus, now |-> now]

\* The open transaction's copy becomes these rows, all freshly loaded.
Load(rows) ==
  /\ read' = rows
  /\ ownRequest' = rows.request /\ ownApproval' = rows.approval
  /\ ownGrant' = rows.grant /\ ownSession' = rows.session
  /\ ownProvisionTasks' = rows.provisionTasks /\ ownRevokeTasks' = rows.revokeTasks
  /\ ownReminders' = rows.reminders /\ ownAgentStatus' = rows.agentStatus
  /\ ownNow' = rows.now

Unloaded ==
  [request |-> <<>>, approval |-> <<>>, grant |-> <<>>, session |-> <<>>,
   provisionTasks |-> <<>>, revokeTasks |-> <<>>, reminders |-> <<>>,
   agentStatus |-> <<>>, now |-> 0]

NothingFlushed == [by |-> "nothing", request |-> NoRequest, grant |-> NoGrant, key |-> NoKey]

-----------------------------------------------------------------------------
(***************************************************************************)
(* What the connector is left with, seen from the tasks a step records.    *)
(***************************************************************************)
Authorizes(tasks, newTasks, row) ==
  /\ Len(newTasks) > Len(tasks)
  /\ row.connector = "Applied"

Withdraws(tasks, newTasks) ==
  \E i \in DOMAIN newTasks :
    /\ newTasks[i].status = "Succeeded"
    /\ i \in DOMAIN tasks => tasks[i].status # "Succeeded"

Authorized(g, tasks, newTasks, row, revokes, newRevokes) ==
  IF Authorizes(tasks, newTasks, row) THEN TRUE
  ELSE IF Withdraws(revokes, newRevokes) THEN FALSE ELSE authorized[g]

-----------------------------------------------------------------------------
\* Some transaction would read again, or flush before it calls the connector.
WillFlush ==
  \E r \in Requests :
    \/ \E k \in Keys : Processable(r, k)
    \/ \E g \in Grants : CanProvision(r, g, request[r]) \/ CanRetryProvision(r, g)
    \/ CanStartEvaluation(r, TRUE)

\* session_scope: a transaction begins and reads.  One that does not flush
\* reads nothing again, so when it works makes no difference: at once.
Begin ==
  /\ phase = "idle" /\ opened < MaxOpened
  /\ phase' \in {"reading", "working"}
  /\ phase' = "reading" => WillFlush
  /\ opened' = opened + 1 /\ overlap' = 0
  /\ Load(Database)
  /\ UNCHANGED <<vars, flushed, authorized>>

\* A callback has found its record unanswered.  It flushes the idempotency
\* key, which is unique, and so waits for another callback on the record;
\* what it reads from then on is what that one left.  If it is going to
\* provision it flushes the new grant as well.
FlushCallback(r, k) ==
  LET unread == [Database EXCEPT !.request[r] = read.request[r],
                                 !.approval = read.approval, !.now = read.now]
      created == IF /\ ~Own!IsRenewal(r)
                    /\ CanProvision(r, DefaultGrant[r], Own!ApprovedRow(r))
                 THEN DefaultGrant[r] ELSE NoGrant
  IN
  /\ Own!Processable(r, k)
  /\ \A q \in Requests \ {r} : approval[q].key # k
  /\ flushed' = [by |-> "callback", request |-> r, grant |-> created, key |-> k]
  /\ Load(unread)

\* provision_grant has found no grant: it flushes the new row before it calls
\* the connector.  The primary key makes a second one fail here.
FlushProvision(r, g) ==
  /\ Own!CanProvision(r, g, ownRequest[r])
  /\ grant[g].status = "NotCreated"
  /\ flushed' = [by |-> "provision", request |-> r, grant |-> g, key |-> NoKey]
  /\ UNCHANGED <<read, own>>

\* A forced retry flushes its task only; once the connector has answered it
\* reads the grant's session, for bind_active_session.
FlushRetry(r, g) ==
  /\ Own!CanRetryProvision(r, g)
  /\ flushed' = [by |-> "retry", request |-> r, grant |-> g, key |-> NoKey]
  /\ Load([read EXCEPT !.session = session])

\* An evaluation flushes nothing until it ends.  Once the LLM has answered it
\* reads the request's approval record, for submit_approval_for_request.
ReadApproval(r) ==
  /\ Own!CanStartEvaluation(r, TRUE)
  /\ flushed' = [by |-> "evaluation", request |-> r, grant |-> NoGrant, key |-> NoKey]
  /\ Load([read EXCEPT !.approval = approval])

Flush ==
  /\ phase = "reading" /\ phase' = "calling"
  /\ \E r \in Requests :
       \/ \E k \in Keys : FlushCallback(r, k)
       \/ \E g \in Grants : FlushProvision(r, g) \/ FlushRetry(r, g)
       \/ ReadApproval(r)
  /\ UNCHANGED <<vars, authorized, opened, overlap>>

\* The rest of a transaction that flushed.
WorkFlushed ==
  LET r == flushed.request
      g == flushed.grant
      k == flushed.key
  IN
  \/ /\ flushed.by = "callback"
     /\ \/ \E outcome \in ProvisionOutcomes : Own!ApproveRequest(r, k, outcome)
        \/ Own!ApproveRenewal(r, k)
        \/ \E status \in Denials : Own!DenyRequest(r, k, status)
        \/ Own!FailCallback(r, k) \/ Own!RefuseCallback(r, k)
  \/ /\ flushed.by = "provision"
     /\ \E outcome \in ProvisionOutcomes : Own!ProvisionGrant(r, g, outcome)
  \/ /\ flushed.by = "retry"
     /\ \E outcome \in ProvisionOutcomes : Own!RetryProvision(r, g, outcome)
  \/ /\ flushed.by = "evaluation"
     /\ \E force \in BOOLEAN :
          \/ Own!FailEvaluation(r, force)
          \/ \E required, deliverable \in BOOLEAN, duration \in Durations :
               Own!EvaluateRequest(r, force, required, deliverable, duration)

\* A transaction that does not flush before it calls the connector.
WorkUnflushed ==
  \/ \E g \in Grants : Own!RevokeSession(g)
  \/ \E a \in Agents : Own!DisableAgent(a)
  \/ \E g \in Grants, outcome \in RevokeOutcomes : Own!RetryRevoke(g, outcome)
  \/ \E done \in SUBSET Own!OpenTasks : Own!ProcessPendingRevokes(done)
  \/ Own!ReconcileGrantLifecycle
  \/ \E r \in Requests : Own!CreateRequest(r)
  \/ Own!RenewStep

\* It computes its changes and hears the connector's answer.
Work ==
  /\ \/ phase = "calling" /\ WorkFlushed
     \/ phase = "working" /\ WorkUnflushed
  /\ phase' = "writing"
  /\ authorized' = [g \in Grants |->
       Authorized(g, ownProvisionTasks[g], ownProvisionTasks'[g], ownGrant'[g],
                  ownRevokeTasks[g], ownRevokeTasks'[g])]
  /\ UNCHANGED <<vars, read, flushed, opened, overlap>>

-----------------------------------------------------------------------------
(***************************************************************************)
(* Commit: an UPDATE by primary key of the columns that differ from what   *)
(* was loaded, and an INSERT of each new row.                              *)
(***************************************************************************)
\* Faulty: every column of a changed row is written.
WriteRow(old, new, row) == IF new # old THEN new ELSE row

WriteColumns(old, new, row) ==
  [c \in DOMAIN row |-> IF new[c] # old[c] THEN new[c] ELSE row[c]]

Written(old, new, rows) == [i \in DOMAIN rows |-> WriteColumns(old[i], new[i], rows[i])]

\* Rows are created in the order of created_at, not of the commits.
WrittenTasks(old, new, tasks) ==
  LET updated == [i \in DOMAIN tasks |->
        IF i \in DOMAIN old THEN WriteColumns(old[i], new[i], tasks[i]) ELSE tasks[i]]
  IN  SubSeq(updated, 1, Len(old)) \o SubSeq(new, Len(old) + 1, Len(new))
        \o SubSeq(updated, Len(old) + 1, Len(tasks))

\* A grant has one session: a second INSERT fails.
SessionUnique(g) ==
  read.session[g].status = "Absent" /\ ownSession[g].status # "Absent" =>
    session[g].status = "Absent"

\* Request ids are generated, so nobody else has taken the open one's.
IdUnique(r) ==
  read.request[r].status = "Absent" /\ ownRequest[r].status # "Absent" =>
    request[r].status = "Absent"

\* Bound: a request has one approval record.  Two evaluations of it that
\* overlap each submit one, the code does not prevent it; from there on the
\* model does not follow them.
OneRecord(r) ==
  read.approval[r].status = "Absent" /\ ownApproval[r].status # "Absent" =>
    approval[r].status = "Absent"

Close ==
  /\ phase' = "idle" /\ flushed' = NothingFlushed /\ overlap' = 0
  /\ Load(Unloaded)
  /\ UNCHANGED <<authorized, opened>>

Commit ==
  /\ phase = "writing"
  /\ \A g \in Grants : SessionUnique(g)
  /\ \A r \in Requests : IdUnique(r) /\ OneRecord(r)
  /\ request' = Written(read.request, ownRequest, request)
  /\ approval' = Written(read.approval, ownApproval, approval)
  /\ grant' = Written(read.grant, ownGrant, grant)
  /\ session' = Written(read.session, ownSession, session)
  /\ provisionTasks' = [g \in Grants |->
       WrittenTasks(read.provisionTasks[g], ownProvisionTasks[g], provisionTasks[g])]
  /\ revokeTasks' = [g \in Grants |->
       WrittenTasks(read.revokeTasks[g], ownRevokeTasks[g], revokeTasks[g])]
  /\ reminders' = [g \in Grants |->
       WrittenTasks(read.reminders[g], ownReminders[g], reminders[g])]
  /\ agentStatus' = [a \in Agents |->
       IF ownAgentStatus[a] # read.agentStatus[a] THEN ownAgentStatus[a] ELSE agentStatus[a]]
  /\ UNCHANGED now
  /\ Close

\* A crash, a constraint that fails, or a deadlock the database resolves.
Rollback == phase # "idle" /\ Close /\ UNCHANGED vars

-----------------------------------------------------------------------------
\* Faulty: the new grant is not flushed before the connector is called.
UnblockedAtCommit == TRUE

\* The rows a flush wrote are locked until the open transaction ends.
Unblocked ==
  /\ flushed.by = "callback" =>
       /\ approval'[flushed.request] = approval[flushed.request]
       /\ flushed.grant # NoGrant =>
            request'[flushed.request] = request[flushed.request]
  /\ flushed.by \in {"callback", "provision"} /\ flushed.grant # NoGrant =>
       grant'[flushed.grant] = grant[flushed.grant]

\* Every other transaction, in one step.
Other ==
  /\ phase # "working" /\ overlap < MaxOverlap
  /\ Next
  /\ Unblocked
  /\ overlap' = IF phase = "idle" THEN 0 ELSE overlap + 1
  /\ authorized' = [g \in Grants |->
       Authorized(g, provisionTasks[g], provisionTasks'[g], grant'[g],
                  revokeTasks[g], revokeTasks'[g])]
  /\ UNCHANGED <<openVars, opened>>

TransactionsInit ==
  /\ Init
  /\ phase = "idle" /\ flushed = NothingFlushed /\ opened = 0 /\ overlap = 0
  /\ authorized = [g \in Grants |-> FALSE]
  /\ read = Unloaded
  /\ ownRequest = <<>> /\ ownApproval = <<>> /\ ownGrant = <<>> /\ ownSession = <<>>
  /\ ownProvisionTasks = <<>> /\ ownRevokeTasks = <<>> /\ ownReminders = <<>>
  /\ ownAgentStatus = <<>> /\ ownNow = 0

TransactionsNext == Begin \/ Flush \/ Work \/ Commit \/ Rollback \/ Other

TransactionsSpec == TransactionsInit /\ [][TransactionsNext]_txVars

-----------------------------------------------------------------------------
\* A forced retry of a provisioning binds whatever session it finds, so an
\* overlap with one can undo a revocation; no other overlap can.
Reprovisioned(g) == Len(provisionTasks[g]) > 1

\* However transactions overlap or crash, an active session, the authority an
\* agent acts with, has an authorization at the connector: it is bound after
\* the connector applied it, and no stale write brings a revoked one back.
SessionAuthorized ==
  \A g \in Grants :
    session[g].status = "Active" => authorized[g] \/ Reprovisioned(g)

\* Two first provisionings of a grant that overlap both find no row, but one of
\* them gets through: a grant has one first attempt, the oldest, every other
\* is a counted retry, and a session only after an attempt that succeeded.
OneFirstAttempt ==
  \A g \in Grants :
    /\ Exists(g) <=> provisionTasks[g] # <<>>
    /\ \A i \in DOMAIN provisionTasks[g] : provisionTasks[g][i].retry = 0 <=> i = 1
    /\ session[g].status # "Absent" =>
         \E i \in DOMAIN provisionTasks[g] : provisionTasks[g][i].status = "Succeeded"

\* The open transaction is about to record the session of grant g.
Binding(g) ==
  /\ phase = "writing"
  /\ read.session[g].status = "Absent" /\ ownSession[g].status = "Active"

\* The connector holds an authorization for grant g that no session stands for,
\* so that nothing will ever withdraw it.
Orphaned(g) ==
  /\ authorized[g] /\ ~Reprovisioned(g)
  /\ session[g].status \in {"Absent", "Revoked"} /\ ~Binding(g)

\* The connector is called before the commit: a transaction that crashes or is
\* rolled back in between loses the record of an authorization.  Nothing else
\* does, no overlap of two that both commit and no failed revocation.
LostByRollback ==
  [][\A g \in Grants : Orphaned(g)' =>
       Orphaned(g) \/ (phase = "writing" /\ phase' = "idle" /\ UNCHANGED vars)]_txVars

\* A session being revoked has an open task that will revoke it, whatever was
\* done to the two meanwhile, as long as it has a retry left: one overlap does
\* not lose a revocation.  A second one can, which finds the two as the first
\* left them: a failure written over a session that was asked to be revoked.
RevocationNotLost ==
  opened <= 1 =>
  \A g \in Grants :
    session[g].status \in {"Revoking", "Syncing"} =>
      \/ HasOpenRevoke(g)
      \/ LatestOf(revokeTasks[g]).retry = MaxRetry
      \/ Reprovisioned(g)

\* However many callbacks for one renewal are under way at once, its approval
\* extends the grant once.
ExtendedOncePerApproval ==
  [][\A g \in Grants : Exists(g) /\ grant'[g].expire > grant[g].expire =>
       \E r \in Requests :
         approval[r].status # "Approved" /\ approval'[r].status = "Approved"]_txVars

\* docs/agent-identity-permission-state-machine.md:127: a callback delivered
\* again must not advance the state machine again.
RedeliveryAdvancesNothing ==
  [][\A r \in Requests :
       request[r].status # "Approved" /\ request'[r].status = "Approved" =>
         approval[r].status # "Approved"]_txVars

\* docs/agent-identity-permission-technical-design.md:306: the changes of one
\* request's status are made one after the other, to prevent concurrent
\* updates.  So the status of a request in force is not overwritten by a
\* transaction that read it before it was: an evaluation, say, which waits
\* for the LLM between its read and its commit.
ChangesAreSerial ==
  [][\A r \in Requests :
       phase = "writing" /\ request[r].status \in Renewable =>
         request'[r].status = request[r].status \/ read.request[r].status \in Renewable]_txVars

=============================================================================
