------------------------ MODULE Transactions_proofs ------------------------
(***************************************************************************)
(* Proofs about AccessTransactions, for any requests, grants, agents,      *)
(* keys, durations, retry budget and clock bound, any number of open       *)
(* transactions and any number that commit while one of them is open.      *)
(***************************************************************************)
EXTENDS AccessTransactions, Steps_proofs

\* What AccessSystem_proofs says of the tables, said of the open
\* transaction's copy of them.
Copy == INSTANCE AccessSystem_proofs WITH
  request <- ownRequest, approval <- ownApproval, grant <- ownGrant,
  session <- ownSession, provisionTasks <- ownProvisionTasks,
  revokeTasks <- ownRevokeTasks, reminders <- ownReminders,
  agentStatus <- ownAgentStatus, now <- ownNow

CopyRows ==
  [request |-> ownRequest, approval |-> ownApproval, grant |-> ownGrant,
   session |-> ownSession, provisionTasks |-> ownProvisionTasks,
   revokeTasks |-> ownRevokeTasks, reminders |-> ownReminders,
   agentStatus |-> ownAgentStatus, now |-> ownNow]

\* Rows of every table, of their types.
Snapshots ==
  [request : [Requests -> RequestRow], approval : [Requests -> ApprovalRow],
   grant : [Grants -> GrantRow], session : [Grants -> SessionRow],
   provisionTasks : [Grants -> Seq(ProvisionTaskRow)],
   revokeTasks : [Grants -> Seq(RevokeTaskRow)],
   reminders : [Grants -> Seq(ReminderRow)],
   agentStatus : [Agents -> {"Active", "Disabled"}], now : Nat]

-----------------------------------------------------------------------------
(***************************************************************************)
(* The inductive invariant.  What two overlapping transactions can do to   *)
(* each other is bounded by what the open one knows of the past: the rows  *)
(* it read are older than the database, no task and no grant has gone      *)
(* since, and of each grant it is going to write one of a few things.      *)
(***************************************************************************)
\* An active session is authorized and nobody revokes it, or its grant was
\* provisioned again.
Backed(g) ==
  session[g].status = "Active" =>
    (authorized[g] /\ ~HasOpenRevoke(g)) \/ Reprovisioned(g)

ReadExists(g) == read.grant[g].status # "NotCreated"

Earlier(g) ==
  /\ Len(read.provisionTasks[g]) <= Len(provisionTasks[g])
  /\ Len(read.revokeTasks[g]) <= Len(revokeTasks[g])
  /\ Len(read.reminders[g]) <= Len(reminders[g])
  /\ ReadExists(g) => Exists(g)
  /\ ~ReadExists(g) => read.grant[g].request = NoRequest

\* A session it read has its grant, and if it was being revoked then, it is
\* active now only because the grant was provisioned again.
EarlierSession(g) ==
  /\ read.session[g].status # "Absent" => Exists(g)
  /\ read.session[g].status \notin {"Absent", "Active"} /\ session[g].status = "Active" =>
       Reprovisioned(g)

ReadInv == read \in Snapshots /\ \A g \in Grants : Earlier(g) /\ EarlierSession(g)

\* Until it works the copy is what was read.  A forced retry has reloaded the
\* session alone, which may belong to a grant that its copy does not have.
LoadedInv ==
  /\ CopyRows = read
  /\ \A g \in Grants : Copy!GrantOK(g)
  /\ flushed.by # "retry" => Copy!Linked
  /\ phase = "working" => read = Database

\* The callback is going to provision its request's default grant.
Creates(r) ==
  ~Copy!IsRenewal(r) /\ Copy!CanProvision(r, DefaultGrant[r], Copy!ApprovedRow(r))

FlushInv ==
  /\ flushed.by \in {"nothing", "callback", "provision", "retry", "evaluation"}
  /\ flushed.grant \in Grants \cup {NoGrant}
  /\ flushed.by \in {"nothing", "evaluation"} => flushed.grant = NoGrant
  /\ phase \in {"idle", "reading", "working"} => flushed = NothingFlushed
  /\ phase = "calling" =>
       /\ flushed.request \in Requests
       /\ flushed.by = "callback" => flushed.key \in Keys
       /\ flushed.by \in {"provision", "retry"} => flushed.grant \in Grants
  /\ phase = "calling" /\ flushed.by = "callback" /\ Creates(flushed.request) =>
       flushed.grant = DefaultGrant[flushed.request]

\* The grant it flushed as new, and provisioned.
FirstCall(g) ==
  /\ flushed.by \in {"callback", "provision"} /\ flushed.grant = g
  /\ authorized[g] /\ ownRevokeTasks[g] = <<>>

\* What it is going to write of the session of grant g: no status, and no
\* open task that was not there; an end; or a new beginning.
Untouched(g) ==
  /\ ownSession[g].status = read.session[g].status
  /\ \A i \in DOMAIN ownRevokeTasks[g] : IsOpen(ownRevokeTasks[g][i]) =>
       /\ i \in DOMAIN read.revokeTasks[g]
       /\ ownRevokeTasks[g][i].status = read.revokeTasks[g][i].status

Ended(g) == ownSession[g].status \notin {"Absent", "Active"}

Bound(g) ==
  /\ ownSession[g].status = "Active"
  /\ Len(ownProvisionTasks[g]) > 1 \/ FirstCall(g)

Changed(g) ==
  /\ Len(read.provisionTasks[g]) <= Len(ownProvisionTasks[g])
  /\ Len(read.revokeTasks[g]) <= Len(ownRevokeTasks[g])
  /\ Len(read.reminders[g]) <= Len(ownReminders[g])
  /\ ReadExists(g) => Copy!Exists(g)
  /\ Untouched(g) \/ (Copy!Exists(g) /\ (Ended(g) \/ Bound(g)))

WriteInv ==
  /\ CopyRows \in Snapshots
  /\ \A g \in Grants : Copy!GrantOK(g) /\ Changed(g)

\* While a transaction holds the lock on a new grant, no other has created it.
OneFirstCall ==
  phase \in {"calling", "writing"} /\ flushed.by # "retry" /\ flushed.grant # NoGrant =>
    grant[flushed.grant].status = "NotCreated"

TxInv ==
  /\ RowInv /\ authorized \in [Grants -> BOOLEAN] /\ \A g \in Grants : Backed(g)
  /\ phase \in {"idle", "reading", "working", "calling", "writing"}
  /\ FlushInv /\ OneFirstCall
  /\ phase # "idle" => ReadInv
  /\ phase \in {"reading", "working", "calling"} => LoadedInv
  /\ phase = "writing" => WriteInv

-----------------------------------------------------------------------------
(***************************************************************************)
(* The handlers at work on the copy are the handlers AccessSystem_proofs   *)
(* speaks of.                                                              *)
(***************************************************************************)
LEMMA SameCallbacks ==
  /\ \A r, k, outcome : 
       Own!ApproveRequest(r, k, outcome) =>
         Copy!ApproveRequest(r, k, outcome)
  /\ \A r, k : Own!ApproveRenewal(r, k) => Copy!ApproveRenewal(r, k)
  /\ \A r, k, status : Own!DenyRequest(r, k, status) => Copy!DenyRequest(r, k, status)
  /\ \A r, k : Own!FailCallback(r, k) => Copy!FailCallback(r, k)
  /\ \A r, k : Own!RefuseCallback(r, k) => Copy!RefuseCallback(r, k)
<1>1. ASSUME NEW r, NEW k, NEW outcome, Own!ApproveRequest(r, k, outcome)
      PROVE  Copy!ApproveRequest(r, k, outcome)
  BY <1>1, Zenon
  DEF Own!ApproveRequest, Own!ApprovedRow, Own!Awaited, Own!Processable, Own!IsRenewal,
      Own!RecordCallback, Own!CanProvision, Own!RecheckPolicy, Own!NoOtherGrant,
      Own!RequestAfterProvision, Own!RequestStatusAfter, Own!GrantStatusAfter,
      Own!ProvisionEffect, Own!ConnectorStatusAfter, Own!TaskStatusAfter,
      Own!BoundSession, Copy!ApproveRequest, Copy!ApprovedRow, Copy!Awaited,
      Copy!Processable, Copy!IsRenewal, Copy!RecordCallback, Copy!CanProvision,
      Copy!RecheckPolicy, Copy!NoOtherGrant, Copy!RequestAfterProvision,
      Copy!RequestStatusAfter, Copy!GrantStatusAfter, Copy!ProvisionEffect,
      Copy!ConnectorStatusAfter, Copy!TaskStatusAfter, Copy!BoundSession
<1>2. ASSUME NEW r, NEW k, Own!ApproveRenewal(r, k)
      PROVE  Copy!ApproveRenewal(r, k)
  BY <1>2, Zenon
  DEF Own!ApproveRenewal, Own!ApprovedRow, Own!Awaited, Own!Processable, Own!IsRenewal,
      Own!RecordCallback, Own!CanCompleteRenewal, Own!Renewable, Own!RenewalEffect,
      Copy!ApproveRenewal, Copy!ApprovedRow, Copy!Awaited, Copy!Processable,
      Copy!IsRenewal, Copy!RecordCallback, Copy!CanCompleteRenewal, Copy!Renewable,
      Copy!RenewalEffect
<1>3. ASSUME NEW r, NEW k, NEW status, Own!DenyRequest(r, k, status)
      PROVE  Copy!DenyRequest(r, k, status)
  BY <1>3, Zenon
  DEF Own!DenyRequest, Own!Awaited, Own!Processable, Own!RecordCallback, Copy!DenyRequest,
      Copy!Awaited, Copy!Processable, Copy!RecordCallback
<1>4. ASSUME NEW r, NEW k, Own!FailCallback(r, k)
      PROVE  Copy!FailCallback(r, k)
  BY <1>4, Zenon
  DEF Own!FailCallback, Own!Processable, Own!RecordCallback, Copy!FailCallback,
      Copy!Processable, Copy!RecordCallback
<1>5. ASSUME NEW r, NEW k, Own!RefuseCallback(r, k)
      PROVE  Copy!RefuseCallback(r, k)
  BY <1>5, Zenon
  DEF Own!RefuseCallback, Own!Processable, Own!RecordCallback, Copy!RefuseCallback,
      Copy!Processable, Copy!RecordCallback
<1> QED
  BY <1>1, <1>2, <1>3, <1>4, <1>5, Zenon

LEMMA SameRequests ==
  /\ \A r : Own!CreateRequest(r) => Copy!CreateRequest(r)
  /\ \A r, force, required, deliverable, duration : 
       Own!EvaluateRequest(r, force, required, deliverable, duration) =>
         Copy!EvaluateRequest(r, force, required, deliverable, duration)
  /\ \A r, force : Own!FailEvaluation(r, force) => Copy!FailEvaluation(r, force)
<1>1. ASSUME NEW r, Own!CreateRequest(r)
      PROVE  Copy!CreateRequest(r)
  BY <1>1, Zenon
  DEF Own!CreateRequest, Copy!CreateRequest
<1>2. ASSUME NEW r, NEW force, NEW required, NEW deliverable, NEW duration, Own!EvaluateRequest(r, force, required, deliverable, duration)
      PROVE  Copy!EvaluateRequest(r, force, required, deliverable, duration)
  BY <1>2, Zenon
  DEF Own!EvaluateRequest, Own!CanStartEvaluation, Own!EvaluatedRequest,
      Own!SubmitApproval, Copy!EvaluateRequest, Copy!CanStartEvaluation,
      Copy!EvaluatedRequest, Copy!SubmitApproval
<1>3. ASSUME NEW r, NEW force, Own!FailEvaluation(r, force)
      PROVE  Copy!FailEvaluation(r, force)
  BY <1>3, Zenon
  DEF Own!FailEvaluation, Own!CanStartEvaluation, Copy!FailEvaluation,
      Copy!CanStartEvaluation
<1> QED
  BY <1>1, <1>2, <1>3, Zenon

LEMMA SameProvisions ==
  /\ \A r, g, outcome : 
       Own!ProvisionGrant(r, g, outcome) =>
         Copy!ProvisionGrant(r, g, outcome)
  /\ \A r, g, outcome : 
       Own!RetryProvision(r, g, outcome) =>
         Copy!RetryProvision(r, g, outcome)
<1>1. ASSUME NEW r, NEW g, NEW outcome, Own!ProvisionGrant(r, g, outcome)
      PROVE  Copy!ProvisionGrant(r, g, outcome)
  BY <1>1, Zenon
  DEF Own!ProvisionGrant, Own!CanProvision, Own!RecheckPolicy, Own!NoOtherGrant,
      Own!RequestAfterProvision, Own!RequestStatusAfter, Own!GrantStatusAfter,
      Own!ProvisionEffect, Own!ConnectorStatusAfter, Own!TaskStatusAfter,
      Own!BoundSession, Copy!ProvisionGrant, Copy!CanProvision, Copy!RecheckPolicy,
      Copy!NoOtherGrant, Copy!RequestAfterProvision, Copy!RequestStatusAfter,
      Copy!GrantStatusAfter, Copy!ProvisionEffect, Copy!ConnectorStatusAfter,
      Copy!TaskStatusAfter, Copy!BoundSession
<1>2. ASSUME NEW r, NEW g, NEW outcome, Own!RetryProvision(r, g, outcome)
      PROVE  Copy!RetryProvision(r, g, outcome)
  BY <1>2, Zenon
  DEF Own!RetryProvision, Own!CanRetryProvision, Own!RecheckPolicy, Own!NoOtherGrant,
      Own!LatestOf, Own!RequestAfterProvision, Own!RequestStatusAfter,
      Own!GrantStatusAfter, Own!ProvisionEffect, Own!ConnectorStatusAfter,
      Own!TaskStatusAfter, Own!BoundSession, Copy!RetryProvision, Copy!CanRetryProvision,
      Copy!RecheckPolicy, Copy!NoOtherGrant, Copy!LatestOf, Copy!RequestAfterProvision,
      Copy!RequestStatusAfter, Copy!GrantStatusAfter, Copy!ProvisionEffect,
      Copy!ConnectorStatusAfter, Copy!TaskStatusAfter, Copy!BoundSession
<1> QED
  BY <1>1, <1>2, Zenon

LEMMA SameLifecycle ==
  /\ \A r, g, duration : 
       Own!RenewGrant(r, g, duration) =>
         Copy!RenewGrant(r, g, duration)
  /\ Own!ReconcileGrantLifecycle => Copy!ReconcileGrantLifecycle
<1>1. ASSUME NEW r, NEW g, NEW duration, Own!RenewGrant(r, g, duration)
      PROVE  Copy!RenewGrant(r, g, duration)
  BY <1>1, Zenon
  DEF Own!RenewGrant, Own!Renewable, Own!RenewalOpen, Own!RenewalRequest, Copy!RenewGrant,
      Copy!Renewable, Copy!RenewalOpen, Copy!RenewalRequest
<1>2. ASSUME Own!ReconcileGrantLifecycle
      PROVE  Copy!ReconcileGrantLifecycle
  BY <1>2, Zenon
  DEF Own!ReconcileGrantLifecycle, Own!Nearing, Own!Renewable, Own!Due, Own!ExpiringRow,
      Own!RequestAfterReconcile, Own!RequestOf, Own!BoundIn, Own!Reclaimed, Own!RecordsFound, Own!Found, Own!Revocable,
      Own!SessionAfterRequest, Own!Retrying, Own!RetriesExhausted, Own!NoRevokeTask,
      Own!IsOpen, Own!LatestOf, Own!TasksAfterRequest, Own!NextRetry, Own!Reminded,
      Own!Reminder, Copy!ReconcileGrantLifecycle, Copy!Nearing, Copy!Renewable, Copy!Due,
      Copy!ExpiringRow, Copy!RequestAfterReconcile, Copy!RequestOf, Copy!BoundIn,
      Copy!Reclaimed, Copy!RecordsFound, Copy!Found, Copy!Revocable, Copy!SessionAfterRequest, Copy!Retrying,
      Copy!RetriesExhausted, Copy!NoRevokeTask, Copy!IsOpen, Copy!LatestOf,
      Copy!TasksAfterRequest, Copy!NextRetry, Copy!Reminded, Copy!Reminder
<1> QED
  BY <1>1, <1>2, Zenon

LEMMA SameRevocations ==
  /\ \A g : Own!RevokeSession(g) => Copy!RevokeSession(g)
  /\ \A a : Own!DisableAgent(a) => Copy!DisableAgent(a)
  /\ \A g, outcome : Own!RetryRevoke(g, outcome) => Copy!RetryRevoke(g, outcome)
  /\ \A done : Own!ProcessPendingRevokes(done) => Copy!ProcessPendingRevokes(done)
<1>1. ASSUME NEW g, Own!RevokeSession(g)
      PROVE  Copy!RevokeSession(g)
  BY <1>1, Zenon
  DEF Own!RevokeSession, Own!Revocable, Own!RetriesExhausted, Own!Retrying,
      Own!NoRevokeTask, Own!IsOpen, Own!LatestOf, Own!RequestRevokes,
      Own!SessionAfterRequest, Own!GrantAfterRequest, Own!RequestAfterRequest,
      Own!BoundIn, Own!TasksAfterRequest, Own!NextRetry, Copy!RevokeSession,
      Copy!Revocable, Copy!RetriesExhausted, Copy!Retrying, Copy!NoRevokeTask,
      Copy!IsOpen, Copy!LatestOf, Copy!RequestRevokes, Copy!SessionAfterRequest,
      Copy!GrantAfterRequest, Copy!RequestAfterRequest, Copy!BoundIn,
      Copy!TasksAfterRequest, Copy!NextRetry
<1>2. ASSUME NEW a, Own!DisableAgent(a)
      PROVE  Copy!DisableAgent(a)
  BY <1>2, Zenon
  DEF Own!DisableAgent, Own!SessionsOf, Own!Revocable, Own!RetriesExhausted, Own!Retrying,
      Own!NoRevokeTask, Own!IsOpen, Own!LatestOf, Own!RequestRevokes,
      Own!SessionAfterRequest, Own!GrantAfterRequest, Own!RequestAfterRequest,
      Own!BoundIn, Own!TasksAfterRequest, Own!NextRetry, Copy!DisableAgent,
      Copy!SessionsOf, Copy!Revocable, Copy!RetriesExhausted, Copy!Retrying,
      Copy!NoRevokeTask, Copy!IsOpen, Copy!LatestOf, Copy!RequestRevokes,
      Copy!SessionAfterRequest, Copy!GrantAfterRequest, Copy!RequestAfterRequest,
      Copy!BoundIn, Copy!TasksAfterRequest, Copy!NextRetry
<1>3. ASSUME NEW g, NEW outcome, Own!RetryRevoke(g, outcome)
      PROVE  Copy!RetryRevoke(g, outcome)
  BY <1>3, Zenon
  DEF Own!RetryRevoke, Own!GrantAfterRequest, Own!CanRetryRevoke, Own!NoRevokeTask,
      Own!LatestOf, Own!SessionAfterRevoke, Own!SessionAfterRequest, Own!Retrying,
      Own!GrantAfterRevoke, Own!FinalStatus, Own!RequestAfterRevoke, Own!NextRetry,
      Copy!RetryRevoke, Copy!GrantAfterRequest, Copy!CanRetryRevoke, Copy!NoRevokeTask,
      Copy!LatestOf, Copy!SessionAfterRevoke, Copy!SessionAfterRequest, Copy!Retrying,
      Copy!GrantAfterRevoke, Copy!FinalStatus, Copy!RequestAfterRevoke, Copy!NextRetry
<1>4. ASSUME NEW done, Own!ProcessPendingRevokes(done)
      PROVE  Copy!ProcessPendingRevokes(done)
  BY <1>4, Zenon
  DEF Own!ProcessPendingRevokes, Own!HasOpenRevoke, Own!OpenOf, Own!IsOpen,
      Own!Retrying, Own!SessionAfterRevoke, Own!GrantAfterRevoke, Own!FinalStatus,
      Own!Newest, Own!Answer, Own!Deciding, Own!DecidingTrigger, Own!SomeDone,
      Own!RequestAfterTasks, Own!BoundIn, Own!RequestAfterRevoke, Own!TaskAfterRevoke,
      Copy!ProcessPendingRevokes, Copy!HasOpenRevoke, Copy!OpenOf, Copy!IsOpen,
      Copy!Retrying, Copy!SessionAfterRevoke, Copy!GrantAfterRevoke, Copy!FinalStatus,
      Copy!Newest, Copy!Answer, Copy!Deciding, Copy!DecidingTrigger, Copy!SomeDone,
      Copy!RequestAfterTasks, Copy!BoundIn, Copy!RequestAfterRevoke,
      Copy!TaskAfterRevoke
<1> QED
  BY <1>1, <1>2, <1>3, <1>4, Zenon

-----------------------------------------------------------------------------
(***************************************************************************)
(* Loading.                                                                *)
(***************************************************************************)
LEMMA DatabaseTyped == TypeOK <=> Database \in Snapshots
BY DEF TypeOK, Database, Snapshots

LEMMA CopyTyped == Copy!TypeOK <=> CopyRows \in Snapshots
<1>1. /\ Copy!RequestRow = RequestRow /\ Copy!ApprovalRow = ApprovalRow
      /\ Copy!GrantRow = GrantRow /\ Copy!SessionRow = SessionRow
      /\ Copy!ProvisionTaskRow = ProvisionTaskRow /\ Copy!RevokeTaskRow = RevokeTaskRow
      /\ Copy!ReminderRow = ReminderRow
  BY Zenon
  DEF RequestRow, ApprovalRow, GrantRow, SessionRow, ProvisionTaskRow, RevokeTaskRow,
      ReminderRow, RequestStatus, ApprovalStatus, GrantStatus, SessionStatus, TaskStatus,
      ConnectorStatus, Triggers,
      Copy!RequestRow, Copy!ApprovalRow, Copy!GrantRow, Copy!SessionRow,
      Copy!ProvisionTaskRow, Copy!RevokeTaskRow, Copy!ReminderRow, Copy!RequestStatus,
      Copy!ApprovalStatus, Copy!GrantStatus, Copy!SessionStatus, Copy!TaskStatus,
      Copy!ConnectorStatus, Copy!Triggers
<1>2. Copy!TypeOK <=>
        /\ ownRequest \in [Requests -> RequestRow]
        /\ ownApproval \in [Requests -> ApprovalRow]
        /\ ownGrant \in [Grants -> GrantRow]
        /\ ownSession \in [Grants -> SessionRow]
        /\ ownProvisionTasks \in [Grants -> Seq(ProvisionTaskRow)]
        /\ ownRevokeTasks \in [Grants -> Seq(RevokeTaskRow)]
        /\ ownReminders \in [Grants -> Seq(ReminderRow)]
        /\ ownAgentStatus \in [Agents -> {"Active", "Disabled"}]
        /\ ownNow \in Nat
  BY <1>1, Zenon DEF Copy!TypeOK
<1> QED
  BY <1>2 DEF CopyRows, Snapshots

LEMMA Loaded ==
  ASSUME NEW rows \in Snapshots, Load(rows)
  PROVE  read' = rows /\ CopyRows' = rows
BY DEF Load, CopyRows, Snapshots

\* What holds of the grants in the database holds of a copy that has its
\* grants, sessions and tasks.
LEMMA GrantsLoaded ==
  ASSUME RowInv, ownGrant' = grant, ownSession' = session,
         ownProvisionTasks' = provisionTasks, ownRevokeTasks' = revokeTasks
  PROVE  Copy!Linked' /\ \A g \in Grants : Copy!GrantOK(g)'
<1>1. ASSUME NEW g \in Grants
      PROVE  Copy!Held(g)' <=> Held(g)
  BY Zenon DEF Copy!Held, Copy!Exists, Held, Exists
<1>2. ASSUME NEW g \in Grants
      PROVE  (Copy!Exists(g)' <=> Exists(g)) /\ (Copy!NoRevokeTask(g)' <=> NoRevokeTask(g))
  BY Zenon DEF Copy!Exists, Exists, Copy!NoRevokeTask, NoRevokeTask
<1>3. Copy!Linked'
  BY <1>1, <1>2 DEF RowInv, TypeInv, Linked, Copy!Linked
<1>4. ASSUME NEW g \in Grants PROVE Copy!GrantOK(g)'
  BY <1>1, <1>2 DEF RowInv, GrantOK, Unused, Unattempted, Copy!GrantOK, Copy!Unused,
     Copy!Unattempted
<1> QED
  BY <1>3, <1>4

LEMMA SessionLoaded ==
  ASSUME RowInv, UNCHANGED vars, NEW g \in Grants, read'.session = session
  PROVE  EarlierSession(g)'
BY DEF RowInv, TypeInv, Linked, Held, EarlierSession, Exists, vars

\* A transaction sees the database as it is when it begins.
LEMMA BeginLoads ==
  ASSUME RowInv, Begin
  PROVE  ReadInv' /\ LoadedInv'
<1>1. Database \in Snapshots
  BY DatabaseTyped DEF RowInv, TypeInv
<1>2. read' = Database /\ CopyRows' = Database
  BY <1>1, Loaded DEF Begin
<1>3. /\ UNCHANGED vars
      /\ ownGrant' = grant /\ ownSession' = session
      /\ ownProvisionTasks' = provisionTasks /\ ownRevokeTasks' = revokeTasks
  BY DEF Begin, Load, Database
<1>4. \A g \in Grants : Earlier(g)'
  <2> TAKE g \in Grants
  <2>1. /\ Len(provisionTasks[g]) \in Nat /\ Len(revokeTasks[g]) \in Nat
        /\ Len(reminders[g]) \in Nat
    BY LenProperties DEF RowInv, TypeInv, TypeOK
  <2>2. read'.provisionTasks = provisionTasks /\ read'.revokeTasks = revokeTasks
    BY <1>2 DEF Database
  <2>3. read'.reminders = reminders /\ read'.grant = grant
    BY <1>2 DEF Database
  <2>4. Unused(g)
    BY DEF RowInv, GrantOK
  <2> QED
    BY <1>3, <2>1, <2>2, <2>3, <2>4 DEF vars, Earlier, ReadExists, Exists, Unused
<1>5. Database' = Database
  BY <1>3 DEF vars, Database
<1>6. \A g \in Grants : EarlierSession(g)'
  BY <1>2, <1>3, SessionLoaded DEF Database
<1> QED
  BY <1>1, <1>2, <1>3, <1>4, <1>5, <1>6, GrantsLoaded DEF ReadInv, LoadedInv

\* What it loads again it reads from the database.  It keeps the rest.
LEMMA GrantsKept ==
  ASSUME UNCHANGED <<ownGrant, ownProvisionTasks, ownRevokeTasks>>, NEW g \in Grants,
         Copy!GrantOK(g)
  PROVE  Copy!GrantOK(g)'
BY Zenon DEF Copy!GrantOK, Copy!Held, Copy!Exists, Copy!NoRevokeTask, Copy!Unused, Copy!Unattempted

LEMMA LinkedKept ==
  ASSUME UNCHANGED <<ownGrant, ownSession, ownRevokeTasks>>, Copy!Linked
  PROVE  Copy!Linked'
BY Zenon DEF Copy!Linked, Copy!Held, Copy!Exists, Copy!NoRevokeTask

LEMMA EarlierKept ==
  ASSUME UNCHANGED vars, NEW g \in Grants, Earlier(g),
         read'.grant = read.grant, read'.provisionTasks = read.provisionTasks,
         read'.revokeTasks = read.revokeTasks, read'.reminders = read.reminders
  PROVE  Earlier(g)'
BY DEF Earlier, ReadExists, Exists, vars

LEMMA EarlierSessionKept ==
  ASSUME UNCHANGED vars, NEW g \in Grants, EarlierSession(g), read'.session = read.session
  PROVE  EarlierSession(g)'
BY DEF EarlierSession, Exists, Reprovisioned, vars

LEMMA FlushCallbackLoads ==
  ASSUME RowInv, ReadInv, LoadedInv, UNCHANGED vars, phase' = "calling",
         NEW r \in Requests, NEW k \in Keys, FlushCallback(r, k)
  PROVE  ReadInv' /\ LoadedInv' /\ FlushInv' /\ OneFirstCall'
<1> DEFINE unread == [Database EXCEPT !.request[r] = read.request[r],
                                      !.approval = read.approval, !.now = read.now]
           creates == /\ ~Own!IsRenewal(r)
                      /\ CanProvision(r, DefaultGrant[r], Own!ApprovedRow(r))
<1>1. Database \in Snapshots /\ read \in Snapshots
  BY DatabaseTyped DEF RowInv, TypeInv, ReadInv
<1>2. unread \in Snapshots
  BY <1>1 DEF Snapshots
<1>3. Load(unread)
  BY DEF FlushCallback
<1>4. read' = unread /\ CopyRows' = unread
  BY <1>2, <1>3, Loaded
<1>5. /\ unread.grant = grant /\ unread.session = session
      /\ unread.provisionTasks = provisionTasks /\ unread.revokeTasks = revokeTasks
      /\ unread.reminders = reminders /\ unread.request = [request EXCEPT ![r] = read.request[r]]
  BY DEF Database
<1>6. /\ flushed'.by = "callback" /\ flushed'.request = r /\ flushed'.key = k
      /\ flushed'.grant = IF creates THEN DefaultGrant[r] ELSE NoGrant
  BY DEF FlushCallback
<1>7. /\ ownGrant' = grant /\ ownSession' = session
      /\ ownProvisionTasks' = provisionTasks /\ ownRevokeTasks' = revokeTasks
      /\ ownRequest' = [request EXCEPT ![r] = read.request[r]]
  BY <1>3, <1>5 DEF Load
<1> HIDE DEF unread
<1>8. ReadInv'
  <2>1. ASSUME NEW g \in Grants PROVE Earlier(g)'
    <3>1. /\ Len(provisionTasks[g]) \in Nat /\ Len(revokeTasks[g]) \in Nat
          /\ Len(reminders[g]) \in Nat
      BY LenProperties DEF RowInv, TypeInv, TypeOK
    <3>2. Unused(g)
      BY DEF RowInv, GrantOK
    <3> QED
      BY <1>4, <1>5, <3>1, <3>2 DEF vars, Earlier, ReadExists, Exists, Unused
  <2> QED
    BY <1>2, <1>4, <1>5, <2>1, SessionLoaded DEF ReadInv
<1>9. LoadedInv'
  BY <1>4, <1>7, GrantsLoaded DEF LoadedInv
<1>10. Creates(r)' => creates
  <2>1. ownRequest'[r] = ownRequest[r]
    <3>1. request \in [Requests -> RequestRow]
      BY DEF RowInv, TypeInv, TypeOK
    <3>2. read.request = ownRequest
      BY DEF LoadedInv, CopyRows
    <3> QED
      BY <1>7, <3>1, <3>2
  <2>2. Copy!IsRenewal(r)' <=> Own!IsRenewal(r)
    BY <2>1 DEF Copy!IsRenewal, Own!IsRenewal
  <2>3. Copy!ApprovedRow(r)' = Own!ApprovedRow(r)
    BY <2>1 DEF Copy!ApprovedRow, Own!ApprovedRow
  <2>4. ASSUME NEW row PROVE Copy!CanProvision(r, DefaultGrant[r], row)' =>
                               CanProvision(r, DefaultGrant[r], row)
    BY <1>7, Zenon DEF Copy!CanProvision, CanProvision, Copy!RecheckPolicy, RecheckPolicy,
       Copy!NoOtherGrant, NoOtherGrant
  <2> QED
    BY <2>2, <2>3, <2>4 DEF Creates
<1>11. FlushInv'
  <2>1. DefaultGrant[r] \in Grants
    BY AccessStateAssumption
  <2> QED
    BY <1>6, <1>10, <2>1 DEF FlushInv
<1>12. OneFirstCall'
  BY <1>6 DEF OneFirstCall, CanProvision, vars
<1> QED
  BY <1>8, <1>9, <1>11, <1>12

LEMMA FlushOthersLoad ==
  ASSUME RowInv, ReadInv, LoadedInv, flushed = NothingFlushed, UNCHANGED vars,
         phase' = "calling", NEW r \in Requests, NEW g \in Grants,
         FlushProvision(r, g) \/ FlushRetry(r, g) \/ ReadApproval(r)
  PROVE  ReadInv' /\ LoadedInv' /\ FlushInv' /\ OneFirstCall'
<1>1. Database \in Snapshots /\ read \in Snapshots /\ CopyRows = read
  BY DatabaseTyped DEF RowInv, TypeInv, ReadInv, LoadedInv
<1>2. Copy!Linked
  BY DEF LoadedInv, NothingFlushed
<1>3. CASE FlushProvision(r, g)
  <2>1. UNCHANGED <<read, own>> /\ flushed'.by = "provision" /\ flushed'.grant = g
        /\ flushed'.request = r /\ grant[g].status = "NotCreated"
    BY <1>3 DEF FlushProvision
  <2>2. CopyRows' = read'
    BY <1>1, <2>1 DEF own, CopyRows
  <2>3. Copy!Linked' /\ \A h \in Grants : Copy!GrantOK(h)'
    BY <1>2, <2>1, LinkedKept, GrantsKept DEF own, LoadedInv
  <2>4. ReadInv'
    BY <2>1, EarlierKept, EarlierSessionKept DEF ReadInv
  <2> QED
    BY <2>1, <2>2, <2>3, <2>4 DEF LoadedInv, FlushInv, OneFirstCall, vars
<1>4. CASE FlushRetry(r, g)
  <2> DEFINE rows == [read EXCEPT !.session = session]
  <2>1. rows \in Snapshots /\ Load(rows) /\ flushed'.by = "retry"
        /\ flushed'.request = r /\ flushed'.grant = g
    BY <1>1, <1>4 DEF FlushRetry, Snapshots, Database
  <2>2. read' = rows /\ CopyRows' = rows
    BY <2>1, Loaded
  <2>3. /\ rows.grant = read.grant /\ rows.provisionTasks = read.provisionTasks
        /\ rows.revokeTasks = read.revokeTasks /\ rows.reminders = read.reminders
        /\ rows.session = session
    BY <1>1 DEF Snapshots
  <2>4. UNCHANGED <<ownGrant, ownProvisionTasks, ownRevokeTasks>>
    BY <1>1, <2>1, <2>3 DEF Load, CopyRows
  <2>5. \A h \in Grants : Copy!GrantOK(h)'
    BY <2>4, GrantsKept DEF LoadedInv
  <2> HIDE DEF rows
  <2>6. ReadInv'
    BY <2>1, <2>2, <2>3, EarlierKept, SessionLoaded DEF ReadInv
  <2> QED
    BY <2>1, <2>2, <2>5, <2>6 DEF LoadedInv, FlushInv, OneFirstCall
<1>5. CASE ReadApproval(r)
  <2> DEFINE rows == [read EXCEPT !.approval = approval]
  <2>1. rows \in Snapshots /\ Load(rows) /\ flushed'.by = "evaluation"
        /\ flushed'.request = r /\ flushed'.grant = NoGrant
    BY <1>1, <1>5 DEF ReadApproval, Snapshots, Database
  <2>2. read' = rows /\ CopyRows' = rows
    BY <2>1, Loaded
  <2>3. /\ rows.grant = read.grant /\ rows.provisionTasks = read.provisionTasks
        /\ rows.revokeTasks = read.revokeTasks /\ rows.reminders = read.reminders
        /\ rows.session = read.session
    BY <1>1 DEF Snapshots
  <2>4. UNCHANGED <<ownGrant, ownSession, ownProvisionTasks, ownRevokeTasks>>
    BY <1>1, <2>1, <2>3 DEF Load, CopyRows
  <2>5. Copy!Linked' /\ \A h \in Grants : Copy!GrantOK(h)'
    BY <1>2, <2>4, LinkedKept, GrantsKept DEF LoadedInv
  <2> HIDE DEF rows
  <2>6. ReadInv'
    BY <2>1, <2>2, <2>3, EarlierKept, EarlierSessionKept DEF ReadInv
  <2> QED
    BY <2>1, <2>2, <2>5, <2>6 DEF LoadedInv, FlushInv, OneFirstCall
<1> QED
  BY <1>3, <1>4, <1>5

-----------------------------------------------------------------------------
(***************************************************************************)
(* Working.                                                                *)
(***************************************************************************)
\* What a transaction that flushed does to each grant of its copy.
Called(g) ==
  \/ Copy!Spared(g)
  \/ /\ Copy!Attempted(g)
     /\ Copy!Exists(g) \/ (flushed.by \in {"callback", "provision"} /\ flushed.grant = g)

LEMMA CopyRowInv ==
  ASSUME ReadInv, LoadedInv, flushed.by # "retry"
  PROVE  Copy!RowInv
<1>1. Copy!TypeOK
  BY CopyTyped DEF ReadInv, LoadedInv
<1> QED
  BY <1>1 DEF LoadedInv, Copy!RowInv, Copy!TypeInv

LEMMA CallbackCalls ==
  ASSUME ReadInv, LoadedInv, FlushInv, phase = "calling", flushed.by = "callback", WorkFlushed
  PROVE  /\ Copy!CallbackStep /\ UNCHANGED <<ownRevokeTasks, ownReminders>>
         /\ \A g \in Grants : Called(g)
<1> DEFINE r == flushed.request
           k == flushed.key
<1>1. /\ \/ \E outcome \in ProvisionOutcomes : Own!ApproveRequest(r, k, outcome)
         \/ Own!ApproveRenewal(r, k)
         \/ \E status \in Denials : Own!DenyRequest(r, k, status)
         \/ Own!FailCallback(r, k) \/ Own!RefuseCallback(r, k)
      /\ r \in Requests /\ k \in Keys
  BY DEF WorkFlushed, FlushInv
<1>2. Copy!TypeInv
  BY CopyRowInv DEF Copy!RowInv
<1> HIDE DEF r, k
<1>3. CASE \E outcome \in ProvisionOutcomes : Own!ApproveRequest(r, k, outcome)
  <2> PICK outcome \in Copy!ProvisionOutcomes : Copy!ApproveRequest(r, k, outcome)
    BY <1>3, SameCallbacks DEF ProvisionOutcomes, Copy!ProvisionOutcomes
  <2>1. Copy!CallbackStep
    BY <1>1 DEF Copy!CallbackStep
  <2>2. UNCHANGED <<ownRevokeTasks, ownReminders>>
    BY DEF Copy!ApproveRequest
  <2>3. ASSUME NEW g \in Grants PROVE Called(g)
    <3>1. \/ Copy!Spared(g)
          \/ /\ Copy!Attempted(g) /\ g = DefaultGrant[r]
             /\ ~Copy!IsRenewal(r) /\ Copy!CanProvision(r, g, Copy!ApprovedRow(r))
      BY <1>1, <1>2, Copy!ApproveShape, AccessStateAssumption DEF Copy!TypeInv
    <3> QED
      BY <3>1 DEF FlushInv, Creates, Called, r
  <2> QED
    BY <2>1, <2>2, <2>3
<1>4. CASE Own!ApproveRenewal(r, k)
  <2>1. Copy!ApproveRenewal(r, k)
    BY <1>4, SameCallbacks
  <2>2. \A g \in Grants : Copy!Spared(g)
    BY <1>1, <1>2, <2>1, Copy!RenewalSpares, AccessStateAssumption
  <2> QED
    BY <1>1, <2>1, <2>2 DEF Copy!CallbackStep, Copy!ApproveRenewal, Called
<1>5. CASE \/ \E status \in Denials : Own!DenyRequest(r, k, status)
           \/ Own!FailCallback(r, k) \/ Own!RefuseCallback(r, k)
  <2>1. \/ \E status \in Copy!Denials : Copy!DenyRequest(r, k, status)
        \/ Copy!FailCallback(r, k) \/ Copy!RefuseCallback(r, k)
    BY <1>5, SameCallbacks DEF Denials, Copy!Denials
  <2>2. /\ Copy!CallbackStep
        /\ UNCHANGED <<ownGrant, ownSession, ownProvisionTasks, ownRevokeTasks, ownReminders>>
    BY <1>1, <2>1
    DEF Copy!CallbackStep, Copy!DenyRequest, Copy!FailCallback, Copy!RefuseCallback
  <2> QED
    BY <2>2, Copy!OthersSpare, AccessStateAssumption DEF Called
<1> QED
  BY <1>1, <1>3, <1>4, <1>5

LEMMA ProvisionCalls ==
  ASSUME ReadInv, LoadedInv, FlushInv, phase = "calling", flushed.by = "provision", WorkFlushed
  PROVE  /\ Copy!ProvisionStep /\ UNCHANGED <<ownRevokeTasks, ownReminders>>
         /\ \A g \in Grants : Called(g)
<1> DEFINE r == flushed.request
           g == flushed.grant
<1>1. /\ \E outcome \in ProvisionOutcomes : Own!ProvisionGrant(r, g, outcome)
      /\ r \in Requests /\ g \in Grants
  BY DEF WorkFlushed, FlushInv
<1>2. Copy!TypeOK
  BY CopyRowInv DEF Copy!RowInv, Copy!TypeInv
<1> HIDE DEF r, g
<1> PICK outcome \in Copy!ProvisionOutcomes : Copy!ProvisionGrant(r, g, outcome)
  BY <1>1, SameProvisions DEF ProvisionOutcomes, Copy!ProvisionOutcomes
<1>3. Copy!Attempted(g) /\ \A h \in Grants \ {g} : Copy!Spared(h)
  BY <1>1, <1>2, Copy!ProvisionGrantShape, AccessStateAssumption
<1> QED
  BY <1>1, <1>3 DEF Copy!ProvisionStep, Copy!ProvisionGrant, Called, g

LEMMA RetryCalls ==
  ASSUME ReadInv, LoadedInv, FlushInv, phase = "calling", flushed.by = "retry", WorkFlushed
  PROVE  /\ Copy!ProvisionStep /\ UNCHANGED <<ownRevokeTasks, ownReminders>>
         /\ Copy!TypeOK' /\ \A g \in Grants : Called(g) /\ Copy!GrantOK(g)'
<1> DEFINE r == flushed.request
           g == flushed.grant
<1>1. /\ \E outcome \in ProvisionOutcomes : Own!RetryProvision(r, g, outcome)
      /\ r \in Requests /\ g \in Grants
  BY DEF WorkFlushed, FlushInv
<1>2. Copy!TypeOK /\ \A h \in Grants : Copy!GrantOK(h)
  BY CopyTyped DEF ReadInv, LoadedInv
<1> HIDE DEF r, g
<1> PICK outcome \in Copy!ProvisionOutcomes : Copy!RetryProvision(r, g, outcome)
  BY <1>1, SameProvisions DEF ProvisionOutcomes, Copy!ProvisionOutcomes
<1>3. Copy!Attempted(g) /\ \A h \in Grants \ {g} : Copy!Spared(h)
  BY <1>1, <1>2, Copy!RetryProvisionShape, AccessStateAssumption
<1>4. Copy!TypeOK'
  BY <1>1, <1>2, Copy!RetryProvisionRows, AccessStateAssumption
<1>5. \A h \in Grants : Copy!GrantOK(h)'
  BY <1>1, <1>2, Copy!RetryProvisionGrants, AccessStateAssumption
<1>6. Copy!Exists(g)
  BY DEF Copy!RetryProvision, Copy!CanRetryProvision, Copy!Exists
<1> QED
  BY <1>1, <1>3, <1>4, <1>5, <1>6 DEF Copy!ProvisionStep, Copy!RetryProvision, Called

LEMMA EvaluationCalls ==
  ASSUME phase = "calling", flushed.by = "evaluation", FlushInv, WorkFlushed
  PROVE  /\ Copy!EvaluationStep /\ UNCHANGED <<ownRevokeTasks, ownReminders>>
         /\ \A g \in Grants : Called(g)
<1> DEFINE r == flushed.request
<1>1. /\ \E force \in BOOLEAN :
           \/ Own!FailEvaluation(r, force)
           \/ \E required, deliverable \in BOOLEAN, duration \in Durations :
                Own!EvaluateRequest(r, force, required, deliverable, duration)
      /\ r \in Requests
  BY DEF WorkFlushed, FlushInv
<1> HIDE DEF r
<1>2. \E force \in BOOLEAN :
        \/ Copy!FailEvaluation(r, force)
        \/ \E required, deliverable \in BOOLEAN, duration \in Durations :
             Copy!EvaluateRequest(r, force, required, deliverable, duration)
  BY <1>1, SameRequests
<1>3. UNCHANGED <<ownGrant, ownSession, ownProvisionTasks, ownRevokeTasks, ownReminders>>
  BY <1>2 DEF Copy!FailEvaluation, Copy!EvaluateRequest
<1> QED
  BY <1>1, <1>2, <1>3, Copy!OthersSpare, AccessStateAssumption DEF Copy!EvaluationStep, Called

LEMMA WorkFlushedCalls ==
  ASSUME ReadInv, LoadedInv, FlushInv, phase = "calling", WorkFlushed
  PROVE  /\ [Copy!Next]_(Copy!vars) /\ UNCHANGED ownRevokeTasks
         /\ Copy!TypeOK' /\ \A g \in Grants : Called(g) /\ Copy!GrantOK(g)'
<1>1. CASE flushed.by = "retry"
  BY <1>1, RetryCalls DEF Copy!Next
<1>2. CASE flushed.by # "retry"
  <2>1. flushed.by \in {"callback", "provision", "evaluation"}
    BY <1>2 DEF WorkFlushed
  <2>2. /\ [Copy!Next]_(Copy!vars) /\ UNCHANGED ownRevokeTasks
        /\ \A g \in Grants : Called(g)
    BY <2>1, CallbackCalls, ProvisionCalls, EvaluationCalls DEF Copy!Next
  <2>3. Copy!RowInv'
    BY <1>2, <2>2, CopyRowInv, Copy!RowInvNext, AccessStateAssumption
  <2> QED
    BY <2>2, <2>3 DEF Copy!RowInv, Copy!TypeInv
<1> QED
  BY <1>1, <1>2

LEMMA WorkUnflushedRevokes ==
  ASSUME ReadInv, LoadedInv, flushed = NothingFlushed, WorkUnflushed
  PROVE  /\ [Copy!Next]_(Copy!vars)
         /\ Copy!TypeOK' /\ \A g \in Grants : Copy!Revokes(g) /\ Copy!GrantOK(g)'
<1>1. Copy!RowInv
  BY CopyRowInv DEF NothingFlushed
<1>2. Copy!TypeInv
  BY <1>1 DEF Copy!RowInv
<1>3. \/ Copy!RevokeStep \/ Copy!ProcessPendingStep \/ Copy!ReconcileGrantLifecycle
      \/ (\E r \in Requests : Copy!CreateRequest(r)) \/ Copy!RenewStep
  <2>1. Own!OpenTasks = Copy!OpenTasks
    BY Zenon
    DEF Own!OpenTasks, Own!OpenOf, Own!IsOpen, Own!Retrying,
        Copy!OpenTasks, Copy!OpenOf, Copy!IsOpen, Copy!Retrying
  <2> QED
    BY <2>1, SameRevocations, SameLifecycle, SameRequests
  DEF WorkUnflushed, Own!RenewStep, Copy!RenewStep, Copy!RevokeStep, Copy!ProcessPendingStep,
      RevokeOutcomes, Copy!RevokeOutcomes
<1>4. [Copy!Next]_(Copy!vars)
  BY <1>3 DEF Copy!Next
<1>5. Copy!RowInv'
  BY <1>1, <1>4, Copy!RowInvNext, AccessStateAssumption
<1>6. ASSUME NEW g \in Grants PROVE Copy!Revokes(g)
  <2>1. CASE Copy!RevokeStep
    BY <1>2, <2>1, Copy!RevokeStepShape, AccessStateAssumption
  <2>2. CASE Copy!ProcessPendingStep
    BY <1>2, <2>2, Copy!ProcessPendingShape, AccessStateAssumption DEF Copy!ProcessPendingStep
  <2>3. CASE Copy!ReconcileGrantLifecycle
    BY <1>2, <2>3, Copy!ReconcileShape, AccessStateAssumption
  <2>4. CASE (\E r \in Requests : Copy!CreateRequest(r)) \/ Copy!RenewStep
    BY <2>4, Copy!OthersSpare, AccessStateAssumption
    DEF Copy!CreateRequest, Copy!RenewStep, Copy!RenewGrant, Copy!Revokes
  <2> QED
    BY <1>3, <2>1, <2>2, <2>3, <2>4
<1> QED
  BY <1>4, <1>5, <1>6 DEF Copy!RowInv, Copy!TypeInv

-----------------------------------------------------------------------------
(***************************************************************************)
(* The connector's authorizations.                                         *)
(***************************************************************************)
LEMMA AuthorizedTyped ==
  ASSUME authorized \in [Grants -> BOOLEAN], NEW g \in Grants,
         NEW tasks, NEW newTasks, NEW row, NEW revokes, NEW newRevokes
  PROVE  Authorized(g, tasks, newTasks, row, revokes, newRevokes) \in BOOLEAN
BY Zenon DEF Authorized

\* Only a revocation that succeeds takes an authorization away.
LEMMA NoneWithdrawn ==
  ASSUME NEW revokes \in Seq(RevokeTaskRow), NEW newRevokes,
         \/ newRevokes = revokes
         \/ \E task \in RevokeTaskRow : IsOpen(task) /\ newRevokes = Append(revokes, task)
  PROVE  ~Withdraws(revokes, newRevokes)
<1>1. CASE newRevokes = revokes
  BY <1>1 DEF Withdraws
<1>2. CASE \E task \in RevokeTaskRow : IsOpen(task) /\ newRevokes = Append(revokes, task)
  <2> PICK task \in RevokeTaskRow : IsOpen(task) /\ newRevokes = Append(revokes, task)
    BY <1>2
  <2>1. /\ DOMAIN newRevokes = 1 .. Len(revokes) + 1 /\ DOMAIN revokes = 1 .. Len(revokes)
        /\ Len(revokes) \in Nat /\ newRevokes[Len(revokes) + 1] = task
        /\ \A i \in 1 .. Len(revokes) : newRevokes[i] = revokes[i]
    OBVIOUS
  <2>2. ASSUME NEW i \in DOMAIN newRevokes, newRevokes[i].status = "Succeeded"
        PROVE  i \in DOMAIN revokes /\ revokes[i].status = "Succeeded"
    <3>1. i # Len(revokes) + 1
      BY <2>1, <2>2 DEF IsOpen
    <3>2. i \in 1 .. Len(revokes)
      <4> DEFINE n == Len(revokes)
      <4>1. n \in Nat /\ i \in 1 .. n + 1 /\ i # n + 1
        BY <2>1, <2>2, <3>1
      <4> HIDE DEF n
      <4>2. i \in 1 .. n
        BY <4>1
      <4> QED
        BY <4>2 DEF n
    <3> QED
      BY <2>1, <2>2, <3>2
  <2> QED
    BY <2>2 DEF Withdraws
<1> QED
  BY <1>1, <1>2

LEMMA AuthorizedKept ==
  ASSUME NEW g, NEW tasks, NEW newTasks, NEW row, NEW revokes, NEW newRevokes,
         ~Withdraws(revokes, newRevokes), authorized[g]
  PROVE  Authorized(g, tasks, newTasks, row, revokes, newRevokes)
BY DEF Authorized

LEMMA AuthorizedGiven ==
  ASSUME NEW g, NEW tasks, NEW newTasks, NEW row, NEW revokes, NEW newRevokes,
         Len(newTasks) > Len(tasks), row.connector = "Applied"
  PROVE  Authorized(g, tasks, newTasks, row, revokes, newRevokes)
BY DEF Authorized, Authorizes

\* Another grant's authorization stays as it is.
LEMMA AuthorizedSpared ==
  ASSUME NEW g, NEW tasks \in Seq(ProvisionTaskRow), NEW row,
         NEW revokes \in Seq(RevokeTaskRow)
  PROVE  Authorized(g, tasks, tasks, row, revokes, revokes) = authorized[g]
<1>1. ~Withdraws(revokes, revokes)
  BY NoneWithdrawn
<1>2. Len(tasks) \in Nat
  BY LenProperties
<1>3. ~Authorizes(tasks, tasks, row)
  BY <1>2 DEF Authorizes
<1> QED
  BY <1>1, <1>3 DEF Authorized

-----------------------------------------------------------------------------
(***************************************************************************)
(* What the work leaves to be written.                                     *)
(***************************************************************************)
LEMMA CopyTypes ==
  ASSUME ReadInv, LoadedInv, NEW g \in Grants
  PROVE  /\ ownGrant = read.grant /\ ownSession = read.session
         /\ ownProvisionTasks = read.provisionTasks /\ ownRevokeTasks = read.revokeTasks
         /\ ownReminders = read.reminders
         /\ ownSession[g] \in SessionRow
         /\ ownProvisionTasks[g] \in Seq(ProvisionTaskRow)
         /\ ownRevokeTasks[g] \in Seq(RevokeTaskRow)
<1>1. CopyRows = read /\ read \in Snapshots
  BY DEF ReadInv, LoadedInv
<1>2. /\ ownGrant = read.grant /\ ownSession = read.session
      /\ ownProvisionTasks = read.provisionTasks /\ ownRevokeTasks = read.revokeTasks
      /\ ownReminders = read.reminders
  BY <1>1 DEF CopyRows
<1>3. /\ read.session \in [Grants -> SessionRow]
      /\ read.provisionTasks \in [Grants -> Seq(ProvisionTaskRow)]
      /\ read.revokeTasks \in [Grants -> Seq(RevokeTaskRow)]
  BY <1>1 DEF Snapshots
<1> QED
  BY <1>2, <1>3

\* Copy's row types are the rows' types.
LEMMA CopyAsked ==
  ASSUME NEW g \in Grants, Copy!Asked(g)
  PROVE  /\ Copy!Exists(g) /\ Copy!Exists(g)'
         /\ ownProvisionTasks'[g] = ownProvisionTasks[g]
         /\ ownSession'[g].status \in {"Revoking", "Syncing"}
         /\ \/ ownRevokeTasks'[g] = ownRevokeTasks[g]
            \/ \E task \in RevokeTaskRow :
                 IsOpen(task) /\ ownRevokeTasks'[g] = Append(ownRevokeTasks[g], task)
<1>1. Copy!RevokeTaskRow = RevokeTaskRow
  BY Zenon DEF Copy!RevokeTaskRow, RevokeTaskRow, Copy!TaskStatus, TaskStatus,
     Copy!Triggers, Triggers
<1>2. \A task : Copy!IsOpen(task) <=> IsOpen(task)
  BY DEF Copy!IsOpen, IsOpen
<1> QED
  BY <1>1, <1>2 DEF Copy!Asked

LEMMA AppendLonger ==
  ASSUME NEW S, NEW tasks \in Seq(S), NEW task
  PROVE  Len(Append(tasks, task)) = Len(tasks) + 1 /\ Len(tasks) \in Nat
<1>1. tasks \in Seq(S \cup {task})
  BY LenProperties, SeqDef
<1> QED
  BY <1>1

LEMMA WorkLengths ==
  ASSUME ReadInv, LoadedInv, UNCHANGED read, NEW g \in Grants,
         Called(g) \/ Copy!Revokes(g), Len(ownReminders[g]) <= Len(ownReminders'[g])
  PROVE  /\ (Len(read.provisionTasks[g]) <= Len(ownProvisionTasks[g]))'
         /\ (Len(read.revokeTasks[g]) <= Len(ownRevokeTasks[g]))'
         /\ (Len(read.reminders[g]) <= Len(ownReminders[g]))'
         /\ (ReadExists(g) => Copy!Exists(g))'
<1>1. /\ ownGrant = read.grant
      /\ ownProvisionTasks = read.provisionTasks /\ ownRevokeTasks = read.revokeTasks
      /\ ownReminders = read.reminders
      /\ ownProvisionTasks[g] \in Seq(ProvisionTaskRow)
      /\ ownRevokeTasks[g] \in Seq(RevokeTaskRow)
  BY CopyTypes
<1>2. Len(ownProvisionTasks[g]) \in Nat /\ Len(ownRevokeTasks[g]) \in Nat
  BY <1>1, LenProperties
<1>3. ReadExists(g)' <=> Copy!Exists(g)
  BY <1>1 DEF ReadExists, Copy!Exists
<1>4. CASE Copy!Spared(g)
  BY <1>1, <1>2, <1>3, <1>4 DEF Copy!Spared
<1>5. CASE Copy!Attempted(g)
  BY <1>1, <1>2, <1>3, <1>5 DEF Copy!Attempted
<1>6. CASE Copy!Asked(g)
  <2>1. Len(ownRevokeTasks'[g]) >= Len(ownRevokeTasks[g])
    BY <1>1, <1>2, <1>6, CopyAsked, AppendLonger
  <2> QED
    BY <1>1, <1>2, <1>3, <1>6, <2>1, CopyAsked
<1>7. CASE Copy!Settled(g)
  BY <1>1, <1>2, <1>3, <1>7 DEF Copy!Settled
<1> QED
  BY <1>4, <1>5, <1>6, <1>7 DEF Called, Copy!Revokes

LEMMA WorkChanges ==
  ASSUME ReadInv, LoadedInv, UNCHANGED <<read, flushed>>, NEW g \in Grants,
         Called(g) \/ Copy!Revokes(g), Len(ownReminders[g]) <= Len(ownReminders'[g]),
         authorized'[g] = Authorized(g, ownProvisionTasks[g], ownProvisionTasks'[g],
                                     ownGrant'[g], ownRevokeTasks[g], ownRevokeTasks'[g])
  PROVE  Changed(g)'
<1>1. /\ ownSession = read.session /\ ownRevokeTasks = read.revokeTasks
      /\ ownSession[g] \in SessionRow
      /\ ownProvisionTasks[g] \in Seq(ProvisionTaskRow)
      /\ ownRevokeTasks[g] \in Seq(RevokeTaskRow)
  BY CopyTypes
<1>2. Len(ownProvisionTasks[g]) \in Nat
  BY <1>1, LenProperties
<1>3. CASE Copy!Spared(g)
  <2>1. Untouched(g)'
    BY <1>1, <1>3 DEF Copy!Spared, Untouched
  <2> QED
    BY <2>1, WorkLengths DEF Changed
<1>4. CASE Copy!Attempted(g) /\ Called(g)
  <2>1. CASE ownSession'[g].status = ownSession[g].status
    <3>1. Untouched(g)'
      BY <1>1, <1>4, <2>1 DEF Copy!Attempted, Untouched
    <3> QED
      BY <3>1, WorkLengths DEF Changed
  <2>2. CASE ownSession'[g].status = "Active" /\ ownGrant'[g].connector = "Applied"
    <3>1. /\ Len(ownProvisionTasks'[g]) = Len(ownProvisionTasks[g]) + 1
          /\ Copy!Exists(g)' /\ ownRevokeTasks'[g] = ownRevokeTasks[g]
      BY <1>4 DEF Copy!Attempted
    <3>2. CASE Copy!Exists(g)
      <4>1. ownProvisionTasks[g] # <<>>
        BY <1>4, <3>2 DEF Copy!Attempted
      <4>2. Len(ownProvisionTasks[g]) # 0
        BY <1>1, <4>1, EmptySeq
      <4>3. Len(ownProvisionTasks'[g]) > 1
        BY <1>2, <3>1, <4>2
      <4> QED
        BY <2>2, <3>1, <4>3, WorkLengths DEF Bound, Changed
    <3>3. CASE ~Copy!Exists(g)
      <4>1. \/ flushed.by \in {"callback", "provision"} /\ flushed.grant = g
            \/ Copy!Spared(g)
        BY <1>4, <3>3 DEF Called
      <4>2. ownRevokeTasks[g] = <<>>
        BY <3>3 DEF LoadedInv, Copy!GrantOK, Copy!Held, Copy!NoRevokeTask
      <4>3. authorized'[g]
        BY <1>2, <2>2, <3>1, AuthorizedGiven
      <4>4. ~Copy!Spared(g)
        BY <3>1, <3>3 DEF Copy!Spared
      <4>5. FirstCall(g)'
        BY <3>1, <4>1, <4>2, <4>3, <4>4 DEF FirstCall
      <4> QED
        BY <2>2, <3>1, <4>5, WorkLengths DEF Bound, Changed
    <3> QED
      BY <3>2, <3>3
  <2> QED
    BY <1>4, <2>1, <2>2 DEF Copy!Attempted
<1>5. CASE Copy!Asked(g) \/ Copy!Settled(g)
  <2>1. Copy!Exists(g)' /\ Ended(g)'
    BY <1>5, CopyAsked DEF Copy!Settled, Ended
  <2> QED
    BY <2>1, WorkLengths DEF Changed
<1> QED
  BY <1>3, <1>4, <1>5 DEF Called, Copy!Revokes

\* The session of a grant that is not revoked by the work keeps what backs it.
LEMMA WorkBacks ==
  ASSUME ReadInv, LoadedInv, UNCHANGED vars, NEW g \in Grants, Backed(g),
         \/ phase = "working" /\ Copy!Revokes(g)
         \/ UNCHANGED ownRevokeTasks,
         authorized'[g] = Authorized(g, ownProvisionTasks[g], ownProvisionTasks'[g],
                                     ownGrant'[g], ownRevokeTasks[g], ownRevokeTasks'[g])
  PROVE  Backed(g)'
<1>1. ownRevokeTasks[g] \in Seq(RevokeTaskRow)
  BY CopyTypes
<1>2. SUFFICES ASSUME session[g].status = "Active", ~Reprovisioned(g)
               PROVE  authorized'[g]
  BY DEF vars, Backed, HasOpenRevoke, OpenOf, Reprovisioned
<1>3. authorized[g] /\ ~HasOpenRevoke(g)
  BY <1>2 DEF Backed
<1>4. CASE Withdraws(ownRevokeTasks[g], ownRevokeTasks'[g])
  <2>1. phase = "working" /\ Copy!Settled(g)
    BY <1>1, <1>4, NoneWithdrawn, CopyAsked DEF Copy!Revokes, Copy!Spared
  <2>2. ownSession = session /\ ownRevokeTasks = revokeTasks
    BY <2>1 DEF LoadedInv, CopyRows, Database
  <2>3. Copy!HasOpenRevoke(g)
    BY <1>2, <2>1, <2>2 DEF Copy!Settled
  <2> QED
    BY <1>3, <2>2, <2>3 DEF Copy!HasOpenRevoke, Copy!OpenOf, HasOpenRevoke, OpenOf, Copy!IsOpen, IsOpen
<1>5. CASE ~Withdraws(ownRevokeTasks[g], ownRevokeTasks'[g])
  BY <1>3, <1>5, AuthorizedKept
<1> QED
  BY <1>4, <1>5

LEMMA WorkKeeps ==
  ASSUME TxInv, Work
  PROVE  TxInv'
<1>1. /\ phase' = "writing" /\ UNCHANGED <<vars, read, flushed>>
      /\ \A g \in Grants : authorized'[g] =
           Authorized(g, ownProvisionTasks[g], ownProvisionTasks'[g], ownGrant'[g],
                      ownRevokeTasks[g], ownRevokeTasks'[g])
      /\ authorized' = [g \in Grants |->
           Authorized(g, ownProvisionTasks[g], ownProvisionTasks'[g], ownGrant'[g],
                      ownRevokeTasks[g], ownRevokeTasks'[g])]
  BY DEF Work
<1>2. /\ RowInv /\ authorized \in [Grants -> BOOLEAN]
      /\ FlushInv /\ OneFirstCall /\ ReadInv /\ LoadedInv
      /\ \A g \in Grants : Backed(g)
  BY DEF TxInv, Work
<1>3. Copy!TypeOK
  BY <1>2, CopyTyped DEF ReadInv, LoadedInv
<1>4. /\ \/ phase = "calling" /\ UNCHANGED ownRevokeTasks
         \/ phase = "working"
      /\ [Copy!Next]_(Copy!vars) /\ Copy!TypeOK'
      /\ \A g \in Grants : /\ Copy!GrantOK(g)'
                           /\ \/ phase = "calling" /\ Called(g)
                              \/ phase = "working" /\ Copy!Revokes(g)
  <2>1. CASE phase = "calling" /\ WorkFlushed
    BY <1>2, <2>1, WorkFlushedCalls
  <2>2. CASE phase = "working" /\ WorkUnflushed
    BY <1>2, <2>2, WorkUnflushedRevokes DEF FlushInv
  <2> QED
    BY <2>1, <2>2 DEF Work
<1>5. \A g \in Grants : Len(ownReminders[g]) <= Len(ownReminders'[g])
  BY <1>3, <1>4, Copy!RemindersStay, AccessStateAssumption
<1>6. RowInv'
  BY <1>1, <1>2, RowInvNext
<1>7. authorized' \in [Grants -> BOOLEAN]
  BY <1>1, <1>2, AuthorizedTyped
<1>8. \A g \in Grants : Backed(g)'
  BY <1>1, <1>2, <1>4, WorkBacks
<1>9. FlushInv' /\ OneFirstCall'
  BY <1>1, <1>2 DEF FlushInv, OneFirstCall, NothingFlushed, vars, TxInv, Work
<1>10. ReadInv'
  BY <1>1, <1>2, EarlierKept, EarlierSessionKept DEF ReadInv
<1>11. WriteInv'
  <2>1. CopyRows' \in Snapshots
    <3>1. (Copy!TypeOK <=> CopyRows \in Snapshots)'
      BY CopyTyped, PTL
    <3> QED
      BY <1>4, <3>1
  <2>2. \A g \in Grants : Changed(g)'
    BY <1>1, <1>2, <1>4, <1>5, WorkChanges
  <2> QED
    BY <1>4, <2>1, <2>2 DEF WriteInv
<1> QED
  BY <1>1, <1>6, <1>7, <1>8, <1>9, <1>10, <1>11 DEF TxInv

-----------------------------------------------------------------------------
(***************************************************************************)
(* The steps before and beside the work.                                   *)
(***************************************************************************)
LEMMA BackedStays ==
  ASSUME UNCHANGED <<vars, authorized>>, NEW g \in Grants, Backed(g)
  PROVE  Backed(g)'
BY DEF vars, Backed, HasOpenRevoke, OpenOf, Reprovisioned

LEMMA BeginKeeps ==
  ASSUME TxInv, Begin
  PROVE  TxInv'
<1>1. /\ UNCHANGED <<vars, flushed, authorized>> /\ phase = "idle"
      /\ phase' \in {"reading", "working"}
  BY DEF Begin
<1>2. RowInv' /\ \A g \in Grants : Backed(g)'
  BY <1>1, RowInvNext, BackedStays DEF TxInv
<1>3. ReadInv' /\ LoadedInv'
  BY BeginLoads DEF TxInv
<1>4. flushed = NothingFlushed
  BY <1>1 DEF TxInv, FlushInv
<1>5. FlushInv' /\ OneFirstCall'
  BY <1>1, <1>4 DEF FlushInv, OneFirstCall, NothingFlushed
<1> QED
  BY <1>1, <1>2, <1>3, <1>5 DEF TxInv

LEMMA FlushKeeps ==
  ASSUME TxInv, Flush
  PROVE  TxInv'
<1>1. /\ UNCHANGED <<vars, authorized>> /\ phase = "reading" /\ phase' = "calling"
  BY DEF Flush
<1>2. RowInv' /\ \A g \in Grants : Backed(g)'
  BY <1>1, RowInvNext, BackedStays DEF TxInv
<1>3. RowInv /\ ReadInv /\ LoadedInv /\ flushed = NothingFlushed
  BY <1>1 DEF TxInv, FlushInv
<1>4. ReadInv' /\ LoadedInv' /\ FlushInv' /\ OneFirstCall'
  <2> PICK r \in Requests :
        \/ \E k \in Keys : FlushCallback(r, k)
        \/ \E g \in Grants : FlushProvision(r, g) \/ FlushRetry(r, g)
        \/ ReadApproval(r)
    BY DEF Flush
  <2>1. CASE \E k \in Keys : FlushCallback(r, k)
    BY <1>1, <1>3, <2>1, FlushCallbackLoads
  <2>2. CASE \/ \E g \in Grants : FlushProvision(r, g) \/ FlushRetry(r, g)
             \/ ReadApproval(r)
    <3>1. DefaultGrant[r] \in Grants
      BY AccessStateAssumption
    <3> QED
      BY <1>1, <1>3, <2>2, <3>1, FlushOthersLoad
  <2> QED
    BY <2>1, <2>2
<1> QED
  BY <1>1, <1>2, <1>4 DEF TxInv

LEMMA RollbackKeeps ==
  ASSUME TxInv, Rollback
  PROVE  TxInv'
<1>1. /\ UNCHANGED <<vars, authorized>> /\ phase' = "idle" /\ flushed' = NothingFlushed
  BY DEF Rollback, Close
<1>2. RowInv' /\ \A g \in Grants : Backed(g)'
  BY <1>1, RowInvNext, BackedStays DEF TxInv
<1>3. FlushInv' /\ OneFirstCall'
  BY <1>1 DEF FlushInv, OneFirstCall, NothingFlushed
<1> QED
  BY <1>1, <1>2, <1>3 DEF TxInv

LEMMA StutterKeeps ==
  ASSUME TxInv, UNCHANGED txVars
  PROVE  TxInv'
<1>1. /\ UNCHANGED vars /\ UNCHANGED <<own, read>> /\ UNCHANGED <<phase, flushed, authorized>>
  BY DEF txVars, openVars
<1>2. RowInv' /\ \A g \in Grants : Backed(g)'
  BY <1>1, RowInvNext, BackedStays DEF TxInv
<1>3. CopyRows' = CopyRows /\ Database' = Database
  BY <1>1 DEF own, vars, CopyRows, Database
<1>4. FlushInv' /\ OneFirstCall'
  BY <1>1 DEF TxInv, FlushInv, OneFirstCall, Creates, own, vars, Copy!IsRenewal,
     Copy!CanProvision, Copy!ApprovedRow, Copy!RecheckPolicy, Copy!NoOtherGrant
<1>5. ReadInv => ReadInv'
  BY <1>1, EarlierKept, EarlierSessionKept DEF ReadInv
<1>6. LoadedInv => LoadedInv'
  BY <1>1, <1>3, GrantsKept, LinkedKept DEF LoadedInv, own
<1>7. WriteInv => WriteInv'
  BY <1>1, <1>3, GrantsKept DEF WriteInv, own, Changed, Untouched, Ended, Bound, FirstCall,
     ReadExists, Copy!Exists
<1> QED
  BY <1>1, <1>2, <1>4, <1>5, <1>6, <1>7 DEF TxInv

-----------------------------------------------------------------------------
(***************************************************************************)
(* Another transaction commits while one is open.                          *)
(***************************************************************************)
LEMMA OtherLengthens ==
  ASSUME RowInv, [Next]_vars, NEW g \in Grants
  PROVE  /\ Len(provisionTasks[g]) \in Nat /\ Len(revokeTasks[g]) \in Nat
         /\ Len(provisionTasks[g]) <= Len(provisionTasks'[g])
         /\ Len(revokeTasks[g]) <= Len(revokeTasks'[g])
         /\ Exists(g) => Exists(g)'
<1>1. /\ provisionTasks[g] \in Seq(ProvisionTaskRow) /\ revokeTasks[g] \in Seq(RevokeTaskRow)
      /\ Revokes(g) \/ Attempted(g)
  BY RowStep, GrantTypes DEF RowInv
<1>2. Len(provisionTasks[g]) \in Nat /\ Len(revokeTasks[g]) \in Nat
  BY <1>1, LenProperties
<1>3. CASE Spared(g)
  BY <1>2, <1>3 DEF Spared
<1>4. CASE Attempted(g)
  BY <1>2, <1>4 DEF Attempted
<1>5. CASE Asked(g)
  <2>1. Len(revokeTasks'[g]) >= Len(revokeTasks[g])
    BY <1>1, <1>2, <1>5, AppendLonger DEF Asked
  <2> QED
    BY <1>2, <1>5, <2>1 DEF Asked
<1>6. CASE Settled(g)
  BY <1>2, <1>6 DEF Settled
<1> QED
  BY <1>1, <1>3, <1>4, <1>5, <1>6 DEF Revokes

LEMMA OtherBacks ==
  ASSUME RowInv, NEW g \in Grants, Backed(g), Revokes(g) \/ Attempted(g),
         authorized'[g] = Authorized(g, provisionTasks[g], provisionTasks'[g], grant'[g],
                                     revokeTasks[g], revokeTasks'[g])
  PROVE  Backed(g)'
<1>1. /\ provisionTasks[g] \in Seq(ProvisionTaskRow) /\ revokeTasks[g] \in Seq(RevokeTaskRow)
      /\ session[g] \in SessionRow /\ GrantOK(g)
  BY GrantTypes DEF RowInv
<1>2. Len(provisionTasks[g]) \in Nat
  BY <1>1, LenProperties
<1>3. CASE Spared(g)
  <2>1. authorized'[g] = authorized[g]
    BY <1>1, <1>3, AuthorizedSpared DEF Spared
  <2> QED
    BY <1>3, <2>1 DEF Spared, Backed, HasOpenRevoke, OpenOf, Reprovisioned
<1>4. CASE Attempted(g)
  <2>1. /\ Len(provisionTasks'[g]) = Len(provisionTasks[g]) + 1
        /\ revokeTasks'[g] = revokeTasks[g]
        /\ \/ session'[g].status = session[g].status
           \/ session'[g].status = "Active" /\ grant'[g].connector = "Applied"
    BY <1>4 DEF Attempted
  <2>2. HasOpenRevoke(g)' <=> HasOpenRevoke(g)
    BY <2>1 DEF HasOpenRevoke, OpenOf
  <2>3. ~Withdraws(revokeTasks[g], revokeTasks'[g])
    BY <1>1, <2>1, NoneWithdrawn
  <2>4. CASE session'[g].status = session[g].status
    BY <1>2, <2>1, <2>2, <2>3, <2>4, AuthorizedKept DEF Backed, Reprovisioned
  <2>5. CASE session'[g].status = "Active" /\ grant'[g].connector = "Applied"
    <3>1. authorized'[g]
      BY <1>2, <2>1, <2>5, AuthorizedGiven
    <3>2. CASE Exists(g)
      <4>1. Len(provisionTasks[g]) # 0
        BY <1>1, <1>4, <3>2, EmptySeq DEF Attempted
      <4> QED
        BY <1>2, <2>1, <4>1 DEF Backed, Reprovisioned
    <3>3. CASE ~Exists(g)
      <4>1. revokeTasks[g] = <<>>
        BY <1>1, <3>3 DEF GrantOK, Held, NoRevokeTask
      <4>2. ~HasOpenRevoke(g)
        BY <4>1 DEF HasOpenRevoke, OpenOf
      <4> QED
        BY <2>2, <3>1, <4>2 DEF Backed
    <3> QED
      BY <3>2, <3>3
  <2> QED
    BY <2>1, <2>4, <2>5
<1>5. CASE Asked(g) \/ Settled(g)
  BY <1>5 DEF Asked, Settled, Backed
<1> QED
  BY <1>3, <1>4, <1>5 DEF Revokes

\* A grant whose row the open transaction has inserted is left alone.
LEMMA OtherSparesNew ==
  ASSUME RowInv, OneFirstCall, NEW g \in Grants, Revokes(g) \/ Attempted(g), Unblocked,
         phase \in {"calling", "writing"}, flushed.by \in {"callback", "provision"},
         flushed.grant = g
  PROVE  Spared(g) /\ grant'[g] = grant[g]
<1>1. g # NoGrant
  BY AccessStateAssumption
<1>2. grant'[g] = grant[g] /\ ~Exists(g)
  BY <1>1 DEF Unblocked, OneFirstCall, Exists
<1>3. ~Exists(g)'
  BY <1>2 DEF Exists
<1> QED
  BY <1>2, <1>3 DEF Revokes, Attempted, Asked, Settled

\* Only a provisioning makes a session active, and if the open transaction
\* has read the session the grant was there: it is another provisioning.
LEMMA EarlierSessionStays ==
  ASSUME RowInv, RowInv', UNCHANGED read, NEW g \in Grants, Revokes(g) \/ Attempted(g),
         EarlierSession(g)
  PROVE  EarlierSession(g)'
<1>1. Exists(g) => Exists(g)'
  BY DEF Revokes, Spared, Asked, Settled, Attempted
<1>2. provisionTasks[g] \in Seq(ProvisionTaskRow) /\ Len(provisionTasks[g]) \in Nat
  BY GrantTypes, LenProperties DEF RowInv
<1>3. Len(provisionTasks'[g]) \in {Len(provisionTasks[g]), Len(provisionTasks[g]) + 1}
  BY DEF Revokes, Spared, Asked, Settled, Attempted
<1>4. CASE session'[g].status = session[g].status
  BY <1>1, <1>2, <1>3, <1>4 DEF EarlierSession, Reprovisioned
<1>5. CASE Attempted(g)
  <2>1. SUFFICES ASSUME Exists(g) PROVE EarlierSession(g)'
    BY <1>1 DEF EarlierSession
  <2>2. Len(provisionTasks[g]) # 0
    BY <1>2, <1>5, <2>1, EmptySeq DEF Attempted
  <2>3. Reprovisioned(g)'
    BY <1>2, <1>5, <2>2 DEF Attempted, Reprovisioned
  <2> QED
    BY <1>1, <2>1, <2>3 DEF EarlierSession
<1>6. CASE session'[g].status # "Active"
  BY <1>1, <1>6 DEF EarlierSession
<1> QED
  BY <1>4, <1>5, <1>6 DEF Revokes, Spared, Asked, Settled

LEMMA OtherKeeps ==
  ASSUME TxInv, Other
  PROVE  TxInv'
<1>1. /\ [Next]_vars /\ Unblocked /\ phase # "working"
      /\ UNCHANGED <<own, read>> /\ UNCHANGED <<phase, flushed>>
      /\ authorized' = [g \in Grants |->
           Authorized(g, provisionTasks[g], provisionTasks'[g], grant'[g],
                      revokeTasks[g], revokeTasks'[g])]
  BY DEF Other, openVars
<1>2. /\ RowInv /\ authorized \in [Grants -> BOOLEAN] /\ FlushInv /\ OneFirstCall
      /\ \A g \in Grants : Backed(g)
  BY DEF TxInv
<1>3. RowInv'
  BY <1>1, <1>2, RowInvNext
<1>4. authorized' \in [Grants -> BOOLEAN]
  BY <1>1, <1>2, AuthorizedTyped
<1>5. \A g \in Grants : Revokes(g) \/ Attempted(g)
  BY <1>1, <1>2, RowStep DEF RowInv
<1>6. \A g \in Grants : Backed(g)'
  BY <1>1, <1>2, <1>5, OtherBacks
<1>7. FlushInv'
  BY <1>1, <1>2 DEF FlushInv, Creates, own, Copy!IsRenewal, Copy!CanProvision,
     Copy!ApprovedRow, Copy!RecheckPolicy, Copy!NoOtherGrant
<1>8. OneFirstCall'
  <2> SUFFICES ASSUME phase \in {"calling", "writing"}, flushed.by # "retry",
                      flushed.grant # NoGrant
               PROVE  grant'[flushed.grant].status = "NotCreated"
    BY <1>1 DEF OneFirstCall
  <2>1. flushed.by \in {"callback", "provision"} /\ flushed.grant \in Grants
    BY <1>2 DEF FlushInv
  <2> QED
    BY <1>1, <1>2, <2>1 DEF OneFirstCall, Unblocked
<1>9. CopyRows' = CopyRows
  BY <1>1 DEF own, CopyRows
<1>10. ASSUME ReadInv PROVE ReadInv'
  <2>1. ASSUME NEW g \in Grants PROVE Earlier(g)'
    <3>1. /\ Len(provisionTasks[g]) <= Len(provisionTasks'[g])
          /\ Len(revokeTasks[g]) <= Len(revokeTasks'[g])
          /\ Len(reminders[g]) <= Len(reminders'[g])
          /\ Exists(g) => Exists(g)'
      BY <1>1, <1>2, OtherLengthens, RemindersStay DEF RowInv, TypeInv
    <3>2. /\ Len(provisionTasks[g]) \in Nat /\ Len(revokeTasks[g]) \in Nat
          /\ Len(reminders[g]) \in Nat
      BY <1>2, LenProperties DEF RowInv, TypeInv, TypeOK
    <3>3. /\ Len(provisionTasks'[g]) \in Nat /\ Len(revokeTasks'[g]) \in Nat
          /\ Len(reminders'[g]) \in Nat
      BY <1>3, LenProperties DEF RowInv, TypeInv, TypeOK
    <3>4. /\ Len(read.provisionTasks[g]) \in Nat /\ Len(read.revokeTasks[g]) \in Nat
          /\ Len(read.reminders[g]) \in Nat
      BY <1>10, LenProperties DEF ReadInv, Snapshots
    <3>5. Earlier(g)
      BY <1>10 DEF ReadInv
    <3>6. \A k, m, n \in Nat : k <= m /\ m <= n => k <= n
      OBVIOUS
    <3>7. /\ Len(read.provisionTasks[g]) <= Len(provisionTasks'[g])
          /\ Len(read.revokeTasks[g]) <= Len(revokeTasks'[g])
          /\ Len(read.reminders[g]) <= Len(reminders'[g])
      BY <3>1, <3>2, <3>3, <3>4, <3>5, <3>6, Zenon DEF Earlier
    <3> QED
      BY <1>1, <3>1, <3>5, <3>7 DEF Earlier, ReadExists
  <2>2. ASSUME NEW g \in Grants PROVE EarlierSession(g)'
    <3>1. EarlierSession(g)
      BY <1>10 DEF ReadInv
    <3> QED
      BY <1>1, <1>2, <1>3, <1>5, <3>1, EarlierSessionStays
  <2> QED
    BY <1>1, <1>10, <2>1, <2>2 DEF ReadInv
<1>11. LoadedInv => LoadedInv'
  BY <1>1, <1>9, GrantsKept, LinkedKept DEF LoadedInv, own
<1>12. ASSUME WriteInv, phase = "writing" PROVE WriteInv'
  <2>1. ASSUME NEW g \in Grants PROVE Changed(g)'
    <3>1. FirstCall(g) => FirstCall(g)'
      <4> SUFFICES ASSUME FirstCall(g) PROVE FirstCall(g)'
        OBVIOUS
      <4>1. Spared(g)
        BY <1>1, <1>2, <1>5, <1>12, OtherSparesNew DEF FirstCall
      <4>2. provisionTasks[g] \in Seq(ProvisionTaskRow) /\ revokeTasks[g] \in Seq(RevokeTaskRow)
        BY <1>2, GrantTypes DEF RowInv
      <4>3. authorized'[g] = authorized[g]
        BY <1>1, <4>1, <4>2, AuthorizedSpared DEF Spared
      <4> QED
        BY <1>1, <4>3 DEF FirstCall, own
    <3>2. Bound(g) => Bound(g)'
      BY <1>1, <3>1 DEF Bound, own
    <3>3. Changed(g)
      BY <1>12 DEF WriteInv
    <3> QED
      BY <1>1, <3>2, <3>3 DEF Changed, Untouched, Ended, ReadExists, Copy!Exists, own
  <2> QED
    BY <1>1, <1>9, <1>12, <2>1, GrantsKept DEF WriteInv, own
<1> QED
  BY <1>1, <1>2, <1>3, <1>4, <1>6, <1>7, <1>8, <1>10, <1>11, <1>12 DEF TxInv

-----------------------------------------------------------------------------
(***************************************************************************)
(* Committing: rows written column by column are rows.                     *)
(***************************************************************************)
LEMMA RequestColumns ==
  ASSUME NEW old \in RequestRow, NEW new \in RequestRow, NEW row \in RequestRow
  PROVE  WriteColumns(old, new, row) \in RequestRow
BY DEF WriteColumns, RequestRow

LEMMA ApprovalColumns ==
  ASSUME NEW old \in ApprovalRow, NEW new \in ApprovalRow, NEW row \in ApprovalRow
  PROVE  WriteColumns(old, new, row) \in ApprovalRow
BY DEF WriteColumns, ApprovalRow

LEMMA GrantColumns ==
  ASSUME NEW old \in GrantRow, NEW new \in GrantRow, NEW row \in GrantRow
  PROVE  /\ WriteColumns(old, new, row) \in GrantRow
         /\ WriteColumns(old, new, row).status =
              IF new.status # old.status THEN new.status ELSE row.status
         /\ WriteColumns(old, new, row).request =
              IF new.request # old.request THEN new.request ELSE row.request
BY DEF WriteColumns, GrantRow

LEMMA SessionColumns ==
  ASSUME NEW old \in SessionRow, NEW new \in SessionRow, NEW row \in SessionRow
  PROVE  /\ WriteColumns(old, new, row) \in SessionRow
         /\ WriteColumns(old, new, row).status =
              IF new.status # old.status THEN new.status ELSE row.status
BY DEF WriteColumns, SessionRow

LEMMA ProvisionTaskColumns ==
  ASSUME NEW old \in ProvisionTaskRow, NEW new \in ProvisionTaskRow,
         NEW row \in ProvisionTaskRow
  PROVE  WriteColumns(old, new, row) \in ProvisionTaskRow
BY DEF WriteColumns, ProvisionTaskRow

LEMMA RevokeTaskColumns ==
  ASSUME NEW old \in RevokeTaskRow, NEW new \in RevokeTaskRow, NEW row \in RevokeTaskRow
  PROVE  /\ WriteColumns(old, new, row) \in RevokeTaskRow
         /\ WriteColumns(old, new, row).status =
              IF new.status # old.status THEN new.status ELSE row.status
BY DEF WriteColumns, RevokeTaskRow

LEMMA ReminderColumns ==
  ASSUME NEW old \in ReminderRow, NEW new \in ReminderRow, NEW row \in ReminderRow
  PROVE  WriteColumns(old, new, row) \in ReminderRow
BY DEF WriteColumns, ReminderRow

\* The first elements of a sequence, and the rest.
LEMMA FirstElements ==
  ASSUME NEW S, NEW seq \in Seq(S), NEW n \in Nat, n <= Len(seq)
  PROVE  /\ SubSeq(seq, 1, n) \in Seq(S) /\ Len(SubSeq(seq, 1, n)) = n
         /\ \A i \in 1 .. n : SubSeq(seq, 1, n)[i] = seq[i]
OBVIOUS

LEMMA LastElements ==
  ASSUME NEW S, NEW seq \in Seq(S), NEW m \in Nat, m <= Len(seq)
  PROVE  /\ SubSeq(seq, m + 1, Len(seq)) \in Seq(S) /\ Len(SubSeq(seq, m + 1, Len(seq))) = Len(seq) - m
         /\ \A i \in 1 .. Len(seq) - m : SubSeq(seq, m + 1, Len(seq))[i] = seq[m + i]
OBVIOUS

\* all has the elements of first, added and last and no others, those of first
\* at their places.
Parts(S, first, added, last, all) ==
  /\ all \in Seq(S) /\ Len(all) = Len(first) + Len(added) + Len(last)
  /\ \A i \in DOMAIN all :
       \/ \E j \in 1 .. Len(first) : all[i] = first[j]
       \/ \E j \in 1 .. Len(added) : all[i] = added[j]
       \/ \E j \in 1 .. Len(last) : all[i] = last[j]
  /\ \A j \in 1 .. Len(first) : j \in DOMAIN all /\ all[j] = first[j]
  /\ \A j \in 1 .. Len(added) : \E i \in DOMAIN all : all[i] = added[j]
  /\ \A j \in 1 .. Len(last) : \E i \in DOMAIN all : all[i] = last[j]

LEMMA ThreeParts ==
  ASSUME NEW S, NEW first \in Seq(S), NEW added \in Seq(S), NEW last \in Seq(S)
  PROVE  Parts(S, first, added, last, (first \o added) \o last)
<1> DEFINE head == first \o added
<1>0. ASSUME NEW s \in Seq(S), NEW t \in Seq(S)
      PROVE  /\ s \o t \in Seq(S) /\ Len(s \o t) = Len(s) + Len(t)
             /\ \A i \in 1 .. Len(s) + Len(t) :
                  (s \o t)[i] = IF i <= Len(s) THEN s[i] ELSE t[i - Len(s)]
  BY ConcatProperties
<1>1. /\ head \in Seq(S) /\ Len(head) = Len(first) + Len(added)
      /\ \A i \in 1 .. Len(first) + Len(added) :
           head[i] = IF i <= Len(first) THEN first[i] ELSE added[i - Len(first)]
  BY <1>0, Zenon
<1> HIDE DEF head
<1>2. /\ head \o last \in Seq(S) /\ Len(head \o last) = Len(head) + Len(last)
      /\ \A i \in 1 .. Len(head) + Len(last) :
           (head \o last)[i] = IF i <= Len(head) THEN head[i] ELSE last[i - Len(head)]
  BY <1>0, <1>1, Zenon
<1> DEFINE all == (first \o added) \o last
<1>3. all = head \o last
  BY DEF head
<1> HIDE DEF all
<1>4. /\ Len(first) \in Nat /\ Len(added) \in Nat /\ Len(last) \in Nat /\ Len(head) \in Nat
      /\ DOMAIN all = 1 .. Len(head) + Len(last)
  BY <1>1, <1>2, <1>3, LenProperties
<1>5. ASSUME NEW i \in DOMAIN all
      PROVE  \/ \E j \in 1 .. Len(first) : all[i] = first[j]
             \/ \E j \in 1 .. Len(added) : all[i] = added[j]
             \/ \E j \in 1 .. Len(last) : all[i] = last[j]
  <2>1. all[i] = IF i <= Len(head) THEN head[i] ELSE last[i - Len(head)]
    BY <1>2, <1>3, <1>4
  <2>2. CASE i <= Len(first)
    BY <1>1, <1>4, <2>1, <2>2
  <2>3. CASE Len(first) < i /\ i <= Len(head)
    <3>1. all[i] = added[i - Len(first)]
      BY <1>1, <1>4, <2>1, <2>3
    <3>2. i - Len(first) \in 1 .. Len(added)
      BY <1>1, <1>4, <2>3
    <3> QED
      BY <3>1, <3>2
  <2>4. CASE Len(head) < i
    <3>1. all[i] = last[i - Len(head)]
      BY <1>4, <2>1, <2>4
    <3>2. i - Len(head) \in 1 .. Len(last)
      BY <1>4, <2>4
    <3> QED
      BY <3>1, <3>2
  <2>5. i \in Nat
    BY <1>4
  <2>6. i <= Len(first) \/ (Len(first) < i /\ i <= Len(head)) \/ Len(head) < i
    BY <1>4, <2>5
  <2> QED
    BY <2>2, <2>3, <2>4, <2>6, Zenon
<1>6. /\ all \in Seq(S) /\ Len(all) = Len(head) + Len(last)
  BY <1>2, <1>3, Zenon
<1>7. Len(all) = Len(first) + Len(added) + Len(last)
  BY <1>1, <1>6, Zenon
<1>8. ASSUME NEW j \in 1 .. Len(first) PROVE j \in DOMAIN all /\ all[j] = first[j]
  <2>1. j \in 1 .. Len(head) + Len(last) /\ j \in 1 .. Len(first) + Len(added)
        /\ j <= Len(head) /\ j <= Len(first)
    BY <1>1, <1>4
  <2> QED
    BY <1>1, <1>2, <1>3, <1>4, <2>1
<1>9. ASSUME NEW j \in 1 .. Len(added) PROVE \E i \in DOMAIN all : all[i] = added[j]
  <2> DEFINE i == Len(first) + j
  <2>1. /\ i \in 1 .. Len(head) + Len(last) /\ i \in 1 .. Len(first) + Len(added)
        /\ i <= Len(head) /\ ~(i <= Len(first)) /\ i - Len(first) = j
    BY <1>1, <1>4
  <2> HIDE DEF i
  <2>2. all[i] = added[j]
    BY <1>1, <1>2, <1>3, <2>1
  <2> QED
    BY <1>4, <2>1, <2>2
<1>10. ASSUME NEW j \in 1 .. Len(last) PROVE \E i \in DOMAIN all : all[i] = last[j]
  <2> DEFINE i == Len(head) + j
  <2>1. i \in 1 .. Len(head) + Len(last) /\ ~(i <= Len(head)) /\ i - Len(head) = j
    BY <1>4
  <2> HIDE DEF i
  <2>2. all[i] = last[j]
    BY <1>2, <1>3, <2>1
  <2> QED
    BY <1>4, <2>1, <2>2
<1> QED
  BY <1>5, <1>6, <1>7, <1>8, <1>9, <1>10, Zenon DEF Parts, all

Insertion(S, seq, new, m, all) ==
  /\ all \in Seq(S) /\ Len(all) = Len(seq) + Len(new) - m
  /\ \A i \in DOMAIN all :
       \/ \E j \in 1 .. m : all[i] = seq[j]
       \/ \E j \in m + 1 .. Len(new) : all[i] = new[j]
       \/ \E j \in m + 1 .. Len(seq) : all[i] = seq[j]
  /\ \A j \in 1 .. m : j \in DOMAIN all /\ all[j] = seq[j]
  /\ \A j \in m + 1 .. Len(new) : \E i \in DOMAIN all : all[i] = new[j]
  /\ \A j \in m + 1 .. Len(seq) : \E i \in DOMAIN all : all[i] = seq[j]

\* A sequence with new elements put in after its first m.
LEMMA Inserted ==
  ASSUME NEW S, NEW seq \in Seq(S), NEW new \in Seq(S), NEW m \in Nat,
         m <= Len(new), m <= Len(seq)
  PROVE  Insertion(S, seq, new, m,
           SubSeq(seq, 1, m) \o SubSeq(new, m + 1, Len(new)) \o SubSeq(seq, m + 1, Len(seq)))
<1> DEFINE all ==
      SubSeq(seq, 1, m) \o SubSeq(new, m + 1, Len(new)) \o SubSeq(seq, m + 1, Len(seq))
<1>1. /\ SubSeq(seq, 1, m) \in Seq(S) /\ Len(SubSeq(seq, 1, m)) = m
      /\ \A i \in 1 .. m : SubSeq(seq, 1, m)[i] = seq[i]
  BY FirstElements, Zenon
<1>2. /\ SubSeq(new, m + 1, Len(new)) \in Seq(S) /\ Len(SubSeq(new, m + 1, Len(new))) = Len(new) - m
         /\ \A i \in 1 .. Len(new) - m : SubSeq(new, m + 1, Len(new))[i] = new[m + i]
  BY LastElements, Zenon
<1>3. /\ SubSeq(seq, m + 1, Len(seq)) \in Seq(S) /\ Len(SubSeq(seq, m + 1, Len(seq))) = Len(seq) - m
         /\ \A i \in 1 .. Len(seq) - m : SubSeq(seq, m + 1, Len(seq))[i] = seq[m + i]
  BY LastElements, Zenon
<1>4. PICK first \in Seq(S) : first = SubSeq(seq, 1, m)
  BY <1>1, Zenon
<1>5. PICK added \in Seq(S) : added = SubSeq(new, m + 1, Len(new))
  BY <1>2, Zenon
<1>6. PICK last \in Seq(S) : last = SubSeq(seq, m + 1, Len(seq))
  BY <1>3, Zenon
<1> HIDE DEF all
<1>7. /\ all \in Seq(S) /\ Len(all) = Len(first) + Len(added) + Len(last)
      /\ \A i \in DOMAIN all :
           \/ \E j \in 1 .. Len(first) : all[i] = first[j]
           \/ \E j \in 1 .. Len(added) : all[i] = added[j]
           \/ \E j \in 1 .. Len(last) : all[i] = last[j]
      /\ \A j \in 1 .. Len(first) : j \in DOMAIN all /\ all[j] = first[j]
      /\ \A j \in 1 .. Len(added) : \E i \in DOMAIN all : all[i] = added[j]
      /\ \A j \in 1 .. Len(last) : \E i \in DOMAIN all : all[i] = last[j]
  <2>1. Parts(S, first, added, last, (first \o added) \o last)
    BY ThreeParts, Zenon
  <2>2. all = (first \o added) \o last
    BY <1>4, <1>5, <1>6, Zenon DEF all
  <2>3. Parts(S, first, added, last, all)
    BY <2>1, <2>2
  <2> QED
    BY <2>3, Zenon DEF Parts
<1>8. /\ Len(first) = m /\ Len(added) = Len(new) - m /\ Len(last) = Len(seq) - m
      /\ \A i \in 1 .. m : first[i] = seq[i]
      /\ \A i \in 1 .. Len(new) - m : added[i] = new[m + i]
      /\ \A i \in 1 .. Len(seq) - m : last[i] = seq[m + i]
  BY <1>1, <1>2, <1>3, <1>4, <1>5, <1>6, Zenon
<1>9. Len(seq) \in Nat /\ Len(new) \in Nat
  BY LenProperties
<1>10. Len(all) = Len(seq) + Len(new) - m
  <2>1. ASSUME NEW x \in Nat, NEW y \in Nat
        PROVE  m + (x - m) + (y - m) = y + x - m
    OBVIOUS
  <2>2. Len(all) = m + (Len(new) - m) + (Len(seq) - m)
    BY <1>7, <1>8, Zenon
  <2> QED
    BY <1>9, <2>1, <2>2, Zenon
<1>11. ASSUME NEW j \in 1 .. Len(new) - m
       PROVE  m + j \in m + 1 .. Len(new)
  BY <1>9
<1>12. ASSUME NEW j \in 1 .. Len(seq) - m
       PROVE  m + j \in m + 1 .. Len(seq)
  BY <1>9
<1>13. ASSUME NEW i \in DOMAIN all
       PROVE  \/ \E j \in 1 .. m : all[i] = seq[j]
              \/ \E j \in m + 1 .. Len(new) : all[i] = new[j]
              \/ \E j \in m + 1 .. Len(seq) : all[i] = seq[j]
  <2>1. CASE \E j \in 1 .. Len(first) : all[i] = first[j]
    BY <1>8, <2>1, Zenon
  <2>2. ASSUME NEW j \in 1 .. Len(added), all[i] = added[j]
        PROVE  \E n \in m + 1 .. Len(new) : all[i] = new[n]
    <3>1. j \in 1 .. Len(new) - m
      BY <1>8, Zenon
    <3>2. all[i] = new[m + j]
      BY <1>8, <2>2, <3>1, Zenon
    <3>3. m + j \in m + 1 .. Len(new)
      BY <1>11, <3>1, Zenon
    <3> QED
      BY <3>2, <3>3, Zenon
  <2>3. ASSUME NEW j \in 1 .. Len(last), all[i] = last[j]
        PROVE  \E n \in m + 1 .. Len(seq) : all[i] = seq[n]
    <3>1. j \in 1 .. Len(seq) - m
      BY <1>8, Zenon
    <3>2. all[i] = seq[m + j]
      BY <1>8, <2>3, <3>1, Zenon
    <3>3. m + j \in m + 1 .. Len(seq)
      BY <1>12, <3>1, Zenon
    <3> QED
      BY <3>2, <3>3, Zenon
  <2> QED
    BY <1>7, <2>1, <2>2, <2>3, Zenon
<1>14. ASSUME NEW n \in m + 1 .. Len(new) PROVE \E i \in DOMAIN all : all[i] = new[n]
  <2> DEFINE j == n - m
  <2>1. j \in 1 .. Len(new) - m /\ m + j = n
    BY <1>9
  <2> HIDE DEF j
  <2>2. j \in 1 .. Len(added) /\ added[j] = new[n]
    BY <1>8, <2>1
  <2>3. \A x \in 1 .. Len(added) : \E i \in DOMAIN all : all[i] = added[x]
    BY <1>7, Zenon
  <2> QED
    BY <2>2, <2>3, Zenon
<1>15. ASSUME NEW n \in m + 1 .. Len(seq) PROVE \E i \in DOMAIN all : all[i] = seq[n]
  <2> DEFINE j == n - m
  <2>1. j \in 1 .. Len(seq) - m /\ m + j = n
    BY <1>9
  <2> HIDE DEF j
  <2>2. j \in 1 .. Len(last) /\ last[j] = seq[n]
    BY <1>8, <2>1
  <2>3. \A x \in 1 .. Len(last) : \E i \in DOMAIN all : all[i] = last[x]
    BY <1>7, Zenon
  <2> QED
    BY <2>2, <2>3, Zenon
<1>16. \A j \in 1 .. m : j \in DOMAIN all /\ all[j] = seq[j]
  BY <1>7, <1>8, Zenon
<1> QED
  BY <1>7, <1>10, <1>13, <1>14, <1>15, <1>16, Zenon DEF Insertion, all

\* The tasks written are those of the database, as the transaction changed
\* them, with its new ones between those it read and those created since.
Merged(S, old, new, tasks, all) ==
  /\ all \in Seq(S) /\ Len(all) = Len(tasks) + Len(new) - Len(old)
  /\ \A i \in DOMAIN all :
       \/ \E j \in DOMAIN old :
            /\ j \in DOMAIN new /\ j \in DOMAIN tasks
            /\ all[i] = WriteColumns(old[j], new[j], tasks[j])
       \/ \E j \in DOMAIN new \ DOMAIN old : all[i] = new[j]
       \/ \E j \in DOMAIN tasks \ DOMAIN old : all[i] = tasks[j]
  /\ \A j \in DOMAIN old : j \in DOMAIN all /\ all[j] = WriteColumns(old[j], new[j], tasks[j])
  /\ \A j \in DOMAIN new \ DOMAIN old : \E i \in DOMAIN all : all[i] = new[j]
  /\ \A j \in DOMAIN tasks \ DOMAIN old : \E i \in DOMAIN all : all[i] = tasks[j]

LEMMA TasksWritten ==
  ASSUME NEW S, NEW old \in Seq(S), NEW new \in Seq(S), NEW tasks \in Seq(S),
         Len(old) <= Len(new), Len(old) <= Len(tasks),
         \A x, y, z \in S : WriteColumns(x, y, z) \in S
  PROVE  Merged(S, old, new, tasks, WrittenTasks(old, new, tasks))
<1> DEFINE updated == [i \in DOMAIN tasks |->
             IF i \in DOMAIN old THEN WriteColumns(old[i], new[i], tasks[i]) ELSE tasks[i]]
<1>1. /\ Len(old) \in Nat /\ Len(new) \in Nat /\ Len(tasks) \in Nat
      /\ DOMAIN old = 1 .. Len(old) /\ DOMAIN new = 1 .. Len(new)
      /\ DOMAIN tasks = 1 .. Len(tasks)
  BY LenProperties
<1>2. ASSUME NEW i \in DOMAIN tasks PROVE updated[i] \in S
  <2>1. tasks[i] \in S
    BY ElementOfSeq, <1>1
  <2>2. CASE i \in DOMAIN old
    <3>1. i \in DOMAIN new
      BY <1>1, <2>2
    <3>2. old[i] \in S /\ new[i] \in S
      BY ElementOfSeq, <1>1, <2>2, <3>1
    <3> QED
      BY <2>1, <2>2, <3>2
  <2> QED
    BY <2>1, <2>2
<1>3. updated \in [1 .. Len(tasks) -> S]
  BY <1>1, <1>2
<1>4. updated \in Seq(S) /\ Len(updated) = Len(tasks)
  BY <1>1, <1>3, SeqDef, LenProperties
<1> DEFINE all == WrittenTasks(old, new, tasks)
<1>5. all = SubSeq(updated, 1, Len(old)) \o SubSeq(new, Len(old) + 1, Len(new))
              \o SubSeq(updated, Len(old) + 1, Len(updated))
  BY <1>4 DEF WrittenTasks
<1> HIDE DEF updated, all
<1>6. /\ all \in Seq(S) /\ Len(all) = Len(updated) + Len(new) - Len(old)
      /\ \A i \in DOMAIN all :
           \/ \E j \in 1 .. Len(old) : all[i] = updated[j]
           \/ \E j \in Len(old) + 1 .. Len(new) : all[i] = new[j]
           \/ \E j \in Len(old) + 1 .. Len(updated) : all[i] = updated[j]
      /\ \A j \in 1 .. Len(old) : j \in DOMAIN all /\ all[j] = updated[j]
      /\ \A j \in Len(old) + 1 .. Len(new) : \E i \in DOMAIN all : all[i] = new[j]
      /\ \A j \in Len(old) + 1 .. Len(updated) : \E i \in DOMAIN all : all[i] = updated[j]
  <2>1. Insertion(S, updated, new, Len(old),
          SubSeq(updated, 1, Len(old)) \o SubSeq(new, Len(old) + 1, Len(new))
            \o SubSeq(updated, Len(old) + 1, Len(updated)))
    BY <1>1, <1>4, Inserted, Zenon
  <2> QED
    BY <1>5, <2>1, Zenon DEF Insertion
<1>7. ASSUME NEW i \in DOMAIN all
      PROVE  \/ \E j \in DOMAIN old :
                  /\ j \in DOMAIN new /\ j \in DOMAIN tasks
                  /\ all[i] = WriteColumns(old[j], new[j], tasks[j])
             \/ \E j \in DOMAIN new \ DOMAIN old : all[i] = new[j]
             \/ \E j \in DOMAIN tasks \ DOMAIN old : all[i] = tasks[j]
  <2>1. ASSUME NEW j \in 1 .. Len(old), all[i] = updated[j]
        PROVE  /\ j \in DOMAIN old /\ j \in DOMAIN new /\ j \in DOMAIN tasks
               /\ all[i] = WriteColumns(old[j], new[j], tasks[j])
    <3>1. j \in DOMAIN old /\ j \in DOMAIN new /\ j \in DOMAIN tasks
      BY <1>1
    <3> QED
      BY <2>1, <3>1 DEF updated
  <2>2. ASSUME NEW j \in Len(old) + 1 .. Len(new), all[i] = new[j]
        PROVE  j \in DOMAIN new \ DOMAIN old
    BY <1>1
  <2>3. ASSUME NEW j \in Len(old) + 1 .. Len(updated), all[i] = updated[j]
        PROVE  j \in DOMAIN tasks \ DOMAIN old /\ all[i] = tasks[j]
    <3>1. j \in DOMAIN tasks \ DOMAIN old
      BY <1>1, <1>4
    <3> QED
      BY <2>3, <3>1 DEF updated
  <2> QED
    BY <1>6, <2>1, <2>2, <2>3
<1>8. ASSUME NEW j \in DOMAIN old
      PROVE  j \in DOMAIN all /\ all[j] = WriteColumns(old[j], new[j], tasks[j])
  <2>1. j \in 1 .. Len(old) /\ j \in DOMAIN tasks
    BY <1>1
  <2>2. updated[j] = WriteColumns(old[j], new[j], tasks[j])
    BY <2>1 DEF updated
  <2> QED
    BY <1>6, <2>1, <2>2, Zenon
<1>9. ASSUME NEW j \in DOMAIN new \ DOMAIN old PROVE \E i \in DOMAIN all : all[i] = new[j]
  <2>1. j \in Len(old) + 1 .. Len(new)
    BY <1>1
  <2> QED
    BY <1>6, <2>1, Zenon
<1>10. ASSUME NEW j \in DOMAIN tasks \ DOMAIN old PROVE \E i \in DOMAIN all : all[i] = tasks[j]
  <2>1. j \in Len(old) + 1 .. Len(updated)
    BY <1>1, <1>4
  <2>2. updated[j] = tasks[j]
    BY DEF updated
  <2> QED
    BY <1>6, <2>1, <2>2, Zenon
<1>11. all \in Seq(S) /\ Len(all) = Len(tasks) + Len(new) - Len(old)
  BY <1>4, <1>6, Zenon
<1> QED
  BY <1>7, <1>8, <1>9, <1>10, <1>11, Zenon DEF all, Merged

LEMMA CommitTables ==
  ASSUME TxInv, Commit
  PROVE  /\ TypeOK'
         /\ \A g \in Grants :
              /\ Merged(ProvisionTaskRow, read.provisionTasks[g], ownProvisionTasks[g],
                        provisionTasks[g], provisionTasks'[g])
              /\ Merged(RevokeTaskRow, read.revokeTasks[g], ownRevokeTasks[g],
                        revokeTasks[g], revokeTasks'[g])
              /\ session'[g] = WriteColumns(read.session[g], ownSession[g], session[g])
              /\ grant'[g] = WriteColumns(read.grant[g], ownGrant[g], grant[g])
<1>1. /\ TypeOK /\ read \in Snapshots /\ CopyRows \in Snapshots
      /\ \A g \in Grants : Earlier(g) /\ Changed(g)
  BY DEF TxInv, RowInv, TypeInv, ReadInv, WriteInv, Commit
<1>2. /\ ownRequest \in [Requests -> RequestRow] /\ ownApproval \in [Requests -> ApprovalRow]
      /\ ownGrant \in [Grants -> GrantRow] /\ ownSession \in [Grants -> SessionRow]
      /\ ownProvisionTasks \in [Grants -> Seq(ProvisionTaskRow)]
      /\ ownRevokeTasks \in [Grants -> Seq(RevokeTaskRow)]
      /\ ownReminders \in [Grants -> Seq(ReminderRow)]
      /\ ownAgentStatus \in [Agents -> {"Active", "Disabled"}]
  BY <1>1 DEF CopyRows, Snapshots
<1>3. /\ read.request \in [Requests -> RequestRow] /\ read.approval \in [Requests -> ApprovalRow]
      /\ read.grant \in [Grants -> GrantRow] /\ read.session \in [Grants -> SessionRow]
      /\ read.provisionTasks \in [Grants -> Seq(ProvisionTaskRow)]
      /\ read.revokeTasks \in [Grants -> Seq(RevokeTaskRow)]
      /\ read.reminders \in [Grants -> Seq(ReminderRow)]
  BY <1>1 DEF Snapshots
<1>4. request' \in [Requests -> RequestRow]
  <2>1. request' = Written(read.request, ownRequest, request)
    BY DEF Commit
  <2>2. ASSUME NEW r \in Requests
        PROVE  WriteColumns(read.request[r], ownRequest[r], request[r]) \in RequestRow
    <3>1. read.request[r] \in RequestRow /\ ownRequest[r] \in RequestRow /\ request[r] \in RequestRow
      BY <1>1, <1>2, <1>3 DEF TypeOK
    <3> QED
      BY <3>1, RequestColumns, Zenon
  <2> QED
    BY <1>1, <2>1, <2>2, Zenon DEF Written, TypeOK
<1>5. approval' \in [Requests -> ApprovalRow]
  <2>1. approval' = Written(read.approval, ownApproval, approval)
    BY DEF Commit
  <2>2. ASSUME NEW r \in Requests
        PROVE  WriteColumns(read.approval[r], ownApproval[r], approval[r]) \in ApprovalRow
    <3>1. /\ read.approval[r] \in ApprovalRow /\ ownApproval[r] \in ApprovalRow
          /\ approval[r] \in ApprovalRow
      BY <1>1, <1>2, <1>3 DEF TypeOK
    <3> QED
      BY <3>1, ApprovalColumns, Zenon
  <2> QED
    BY <1>1, <2>1, <2>2, Zenon DEF Written, TypeOK
<1>6. /\ grant' \in [Grants -> GrantRow]
      /\ \A g \in Grants : grant'[g] = WriteColumns(read.grant[g], ownGrant[g], grant[g])
  <2>1. grant' = Written(read.grant, ownGrant, grant)
    BY DEF Commit
  <2>2. ASSUME NEW g \in Grants
        PROVE  WriteColumns(read.grant[g], ownGrant[g], grant[g]) \in GrantRow
    <3>1. read.grant[g] \in GrantRow /\ ownGrant[g] \in GrantRow /\ grant[g] \in GrantRow
      BY <1>1, <1>2, <1>3 DEF TypeOK
    <3> QED
      BY <3>1, GrantColumns, Zenon
  <2> QED
    BY <1>1, <2>1, <2>2, Zenon DEF Written, TypeOK
<1>7. /\ session' \in [Grants -> SessionRow]
      /\ \A g \in Grants : session'[g] = WriteColumns(read.session[g], ownSession[g], session[g])
  <2>1. session' = Written(read.session, ownSession, session)
    BY DEF Commit
  <2>2. ASSUME NEW g \in Grants
        PROVE  WriteColumns(read.session[g], ownSession[g], session[g]) \in SessionRow
    <3>1. /\ read.session[g] \in SessionRow /\ ownSession[g] \in SessionRow
          /\ session[g] \in SessionRow
      BY <1>1, <1>2, <1>3 DEF TypeOK
    <3> QED
      BY <3>1, SessionColumns, Zenon
  <2> QED
    BY <1>1, <2>1, <2>2, Zenon DEF Written, TypeOK
<1>8. ASSUME NEW g \in Grants
      PROVE  Merged(ProvisionTaskRow, read.provisionTasks[g], ownProvisionTasks[g],
                    provisionTasks[g], provisionTasks'[g])
  <2>1. provisionTasks'[g] =
          WrittenTasks(read.provisionTasks[g], ownProvisionTasks[g], provisionTasks[g])
    BY DEF Commit
  <2>2. /\ read.provisionTasks[g] \in Seq(ProvisionTaskRow)
        /\ ownProvisionTasks[g] \in Seq(ProvisionTaskRow)
        /\ provisionTasks[g] \in Seq(ProvisionTaskRow)
    BY <1>1, <1>2, <1>3 DEF TypeOK
  <2>3. /\ Len(read.provisionTasks[g]) <= Len(ownProvisionTasks[g])
        /\ Len(read.provisionTasks[g]) <= Len(provisionTasks[g])
    BY <1>1 DEF Earlier, Changed
  <2>4. Merged(ProvisionTaskRow, read.provisionTasks[g], ownProvisionTasks[g], provisionTasks[g],
               WrittenTasks(read.provisionTasks[g], ownProvisionTasks[g], provisionTasks[g]))
    BY <2>2, <2>3, TasksWritten, ProvisionTaskColumns, Zenon
  <2> QED
    BY <2>1, <2>4, Zenon
<1>9. ASSUME NEW g \in Grants
      PROVE  Merged(RevokeTaskRow, read.revokeTasks[g], ownRevokeTasks[g],
                    revokeTasks[g], revokeTasks'[g])
  <2>1. revokeTasks'[g] = WrittenTasks(read.revokeTasks[g], ownRevokeTasks[g], revokeTasks[g])
    BY DEF Commit
  <2>2. /\ read.revokeTasks[g] \in Seq(RevokeTaskRow)
        /\ ownRevokeTasks[g] \in Seq(RevokeTaskRow) /\ revokeTasks[g] \in Seq(RevokeTaskRow)
    BY <1>1, <1>2, <1>3 DEF TypeOK
  <2>3. /\ Len(read.revokeTasks[g]) <= Len(ownRevokeTasks[g])
        /\ Len(read.revokeTasks[g]) <= Len(revokeTasks[g])
    BY <1>1 DEF Earlier, Changed
  <2>4. Merged(RevokeTaskRow, read.revokeTasks[g], ownRevokeTasks[g], revokeTasks[g],
               WrittenTasks(read.revokeTasks[g], ownRevokeTasks[g], revokeTasks[g]))
    BY <2>2, <2>3, TasksWritten, RevokeTaskColumns, Zenon
  <2> QED
    BY <2>1, <2>4, Zenon
<1>10. ASSUME NEW g \in Grants
       PROVE  Merged(ReminderRow, read.reminders[g], ownReminders[g], reminders[g], reminders'[g])
  <2>1. reminders'[g] = WrittenTasks(read.reminders[g], ownReminders[g], reminders[g])
    BY DEF Commit
  <2>2. /\ read.reminders[g] \in Seq(ReminderRow) /\ ownReminders[g] \in Seq(ReminderRow)
        /\ reminders[g] \in Seq(ReminderRow)
    BY <1>1, <1>2, <1>3 DEF TypeOK
  <2>3. /\ Len(read.reminders[g]) <= Len(ownReminders[g])
        /\ Len(read.reminders[g]) <= Len(reminders[g])
    BY <1>1 DEF Earlier, Changed
  <2>4. Merged(ReminderRow, read.reminders[g], ownReminders[g], reminders[g],
               WrittenTasks(read.reminders[g], ownReminders[g], reminders[g]))
    BY <2>2, <2>3, TasksWritten, ReminderColumns, Zenon
  <2> QED
    BY <2>1, <2>4, Zenon
<1>11. /\ provisionTasks' \in [Grants -> Seq(ProvisionTaskRow)]
       /\ revokeTasks' \in [Grants -> Seq(RevokeTaskRow)]
       /\ reminders' \in [Grants -> Seq(ReminderRow)]
  <2>1. /\ provisionTasks' = [g \in Grants |-> provisionTasks'[g]]
        /\ revokeTasks' = [g \in Grants |-> revokeTasks'[g]]
        /\ reminders' = [g \in Grants |-> reminders'[g]]
    BY Zenon DEF Commit
  <2>2. \A g \in Grants : /\ provisionTasks'[g] \in Seq(ProvisionTaskRow)
                         /\ revokeTasks'[g] \in Seq(RevokeTaskRow)
                         /\ reminders'[g] \in Seq(ReminderRow)
    BY <1>8, <1>9, <1>10, Zenon DEF Merged
  <2> QED
    BY <2>1, <2>2, Zenon
<1>12. agentStatus' \in [Agents -> {"Active", "Disabled"}] /\ now' \in Nat
  BY <1>1, <1>2 DEF Commit, TypeOK
<1> QED
  BY <1>4, <1>5, <1>6, <1>7, <1>8, <1>9, <1>11, <1>12 DEF TypeOK

\* What a commit does to one grant, its session and its tasks.
LEMMA CommitGrant ==
  ASSUME TxInv, Commit, NEW g \in Grants
  PROVE  /\ session'[g].status = IF ownSession[g].status # read.session[g].status
                                 THEN ownSession[g].status ELSE session[g].status
         /\ grant'[g].status = IF ownGrant[g].status # read.grant[g].status
                               THEN ownGrant[g].status ELSE grant[g].status
         /\ grant'[g].request = IF ownGrant[g].request # read.grant[g].request
                                THEN ownGrant[g].request ELSE grant[g].request
         /\ Len(provisionTasks'[g]) >= Len(provisionTasks[g])
         /\ Len(provisionTasks'[g]) >= Len(ownProvisionTasks[g])
         /\ provisionTasks'[g] \in Seq(ProvisionTaskRow)
         /\ ownProvisionTasks[g] = <<>> /\ provisionTasks[g] = <<>> => provisionTasks'[g] = <<>>
         /\ revokeTasks'[g] \in Seq(RevokeTaskRow)
         /\ ownRevokeTasks[g] = <<>> /\ revokeTasks[g] = <<>> => revokeTasks'[g] = <<>>
<1>1. /\ TypeOK /\ read \in Snapshots /\ CopyRows \in Snapshots /\ Earlier(g) /\ Changed(g)
  BY DEF TxInv, RowInv, TypeInv, ReadInv, WriteInv, Commit
<1>2. /\ read.grant[g] \in GrantRow /\ ownGrant[g] \in GrantRow /\ grant[g] \in GrantRow
      /\ read.session[g] \in SessionRow /\ ownSession[g] \in SessionRow
      /\ session[g] \in SessionRow
  BY <1>1 DEF TypeOK, Snapshots, CopyRows
<1>3. /\ read.provisionTasks[g] \in Seq(ProvisionTaskRow)
      /\ ownProvisionTasks[g] \in Seq(ProvisionTaskRow)
      /\ provisionTasks[g] \in Seq(ProvisionTaskRow)
      /\ read.revokeTasks[g] \in Seq(RevokeTaskRow)
      /\ ownRevokeTasks[g] \in Seq(RevokeTaskRow) /\ revokeTasks[g] \in Seq(RevokeTaskRow)
  BY <1>1 DEF TypeOK, Snapshots, CopyRows
<1>4. /\ grant'[g].status = IF ownGrant[g].status # read.grant[g].status
                            THEN ownGrant[g].status ELSE grant[g].status
      /\ grant'[g].request = IF ownGrant[g].request # read.grant[g].request
                             THEN ownGrant[g].request ELSE grant[g].request
  <2>1. grant'[g] = WriteColumns(read.grant[g], ownGrant[g], grant[g])
    BY CommitTables
  <2>2. WriteColumns(read.grant[g], ownGrant[g], grant[g]).status =
          IF ownGrant[g].status # read.grant[g].status
          THEN ownGrant[g].status ELSE grant[g].status
    <3> DEFINE before == read.grant[g]
               after == ownGrant[g]
               row == grant[g]
    <3>1. before \in GrantRow /\ after \in GrantRow /\ row \in GrantRow
      BY <1>2, Zenon
    <3> HIDE DEF before, after, row
    <3>2. WriteColumns(before, after, row).status = IF after.status # before.status THEN after.status ELSE row.status
      BY <3>1, GrantColumns
    <3> QED
      BY <3>2, Zenon DEF before, after, row
  <2>3. WriteColumns(read.grant[g], ownGrant[g], grant[g]).request =
          IF ownGrant[g].request # read.grant[g].request
          THEN ownGrant[g].request ELSE grant[g].request
    <3> DEFINE before == read.grant[g]
               after == ownGrant[g]
               row == grant[g]
    <3>1. before \in GrantRow /\ after \in GrantRow /\ row \in GrantRow
      BY <1>2, Zenon
    <3> HIDE DEF before, after, row
    <3>2. WriteColumns(before, after, row).request = IF after.request # before.request THEN after.request ELSE row.request
      BY <3>1, GrantColumns
    <3> QED
      BY <3>2, Zenon DEF before, after, row
  <2> QED
    BY <2>1, <2>2, <2>3, Zenon
<1>5. session'[g].status = IF ownSession[g].status # read.session[g].status
                           THEN ownSession[g].status ELSE session[g].status
  <2>1. session'[g] = WriteColumns(read.session[g], ownSession[g], session[g])
    BY CommitTables
  <2>2. WriteColumns(read.session[g], ownSession[g], session[g]).status =
          IF ownSession[g].status # read.session[g].status
          THEN ownSession[g].status ELSE session[g].status
    <3> DEFINE before == read.session[g]
               after == ownSession[g]
               row == session[g]
    <3>1. before \in SessionRow /\ after \in SessionRow /\ row \in SessionRow
      BY <1>2, Zenon
    <3> HIDE DEF before, after, row
    <3>2. WriteColumns(before, after, row).status = IF after.status # before.status THEN after.status ELSE row.status
      BY <3>1, SessionColumns
    <3> QED
      BY <3>2, Zenon DEF before, after, row
  <2> QED
    BY <2>1, <2>2, Zenon
<1>6. /\ Merged(ProvisionTaskRow, read.provisionTasks[g], ownProvisionTasks[g],
                provisionTasks[g], provisionTasks'[g])
      /\ Merged(RevokeTaskRow, read.revokeTasks[g], ownRevokeTasks[g],
                revokeTasks[g], revokeTasks'[g])
  BY CommitTables
<1>7. /\ provisionTasks'[g] \in Seq(ProvisionTaskRow) /\ revokeTasks'[g] \in Seq(RevokeTaskRow)
      /\ Len(provisionTasks'[g]) = Len(provisionTasks[g]) + Len(ownProvisionTasks[g])
                                     - Len(read.provisionTasks[g])
      /\ Len(revokeTasks'[g]) = Len(revokeTasks[g]) + Len(ownRevokeTasks[g])
                                  - Len(read.revokeTasks[g])
  BY <1>6, Zenon DEF Merged
<1>8. /\ Len(read.provisionTasks[g]) \in Nat /\ Len(ownProvisionTasks[g]) \in Nat
      /\ Len(provisionTasks[g]) \in Nat /\ Len(read.revokeTasks[g]) \in Nat
      /\ Len(ownRevokeTasks[g]) \in Nat /\ Len(revokeTasks[g]) \in Nat
  BY <1>3, LenProperties
<1>9. /\ Len(read.provisionTasks[g]) <= Len(ownProvisionTasks[g])
      /\ Len(read.provisionTasks[g]) <= Len(provisionTasks[g])
      /\ Len(read.revokeTasks[g]) <= Len(ownRevokeTasks[g])
      /\ Len(read.revokeTasks[g]) <= Len(revokeTasks[g])
  BY <1>1 DEF Earlier, Changed
<1>10. /\ Len(provisionTasks'[g]) >= Len(provisionTasks[g])
       /\ Len(provisionTasks'[g]) >= Len(ownProvisionTasks[g])
  BY <1>7, <1>8, <1>9
<1>11. ASSUME ownProvisionTasks[g] = <<>>, provisionTasks[g] = <<>>
       PROVE  provisionTasks'[g] = <<>>
  <2>1. Len(ownProvisionTasks[g]) = 0 /\ Len(provisionTasks[g]) = 0
    BY <1>11
  <2>2. Len(provisionTasks'[g]) = 0
    BY <1>7, <1>8, <1>9, <2>1
  <2> QED
    BY <1>7, <2>2, EmptySeq
<1>12. ASSUME ownRevokeTasks[g] = <<>>, revokeTasks[g] = <<>>
       PROVE  revokeTasks'[g] = <<>>
  <2>1. Len(ownRevokeTasks[g]) = 0 /\ Len(revokeTasks[g]) = 0
    BY <1>12
  <2>2. Len(revokeTasks'[g]) = 0
    BY <1>7, <1>8, <1>9, <2>1
  <2> QED
    BY <1>7, <2>2, EmptySeq
<1> QED
  BY <1>4, <1>5, <1>7, <1>10, <1>11, <1>12

\* A grant that exists after the commit has its request, and one that does
\* not has nothing.
LEMMA CommitHolds ==
  ASSUME TxInv, Commit, NEW g \in Grants
  PROVE  GrantOK(g)' /\ (session'[g].status # "Absent" => Held(g)')
<1>1. /\ GrantOK(g) /\ Copy!GrantOK(g) /\ Earlier(g) /\ EarlierSession(g) /\ Changed(g)
      /\ session[g].status # "Absent" => Exists(g)
  BY DEF TxInv, RowInv, TypeInv, Linked, Held, ReadInv, WriteInv, Commit
<1>2. /\ session'[g].status = IF ownSession[g].status # read.session[g].status
                              THEN ownSession[g].status ELSE session[g].status
      /\ grant'[g].status = IF ownGrant[g].status # read.grant[g].status
                            THEN ownGrant[g].status ELSE grant[g].status
      /\ grant'[g].request = IF ownGrant[g].request # read.grant[g].request
                             THEN ownGrant[g].request ELSE grant[g].request
      /\ ownProvisionTasks[g] = <<>> /\ provisionTasks[g] = <<>> => provisionTasks'[g] = <<>>
      /\ ownRevokeTasks[g] = <<>> /\ revokeTasks[g] = <<>> => revokeTasks'[g] = <<>>
  BY CommitGrant
<1>3. NoRequest \notin Requests
  BY AccessStateAssumption
<1>4. CASE Copy!Exists(g) \/ Exists(g)
  <2>1. Exists(g)' /\ grant'[g].request \in Requests
    <3>1. /\ Copy!Exists(g) => ownGrant[g].request \in Requests
          /\ ~Copy!Exists(g) => ownGrant[g].request = NoRequest
      BY <1>1 DEF Copy!GrantOK, Copy!Held, Copy!Unused
    <3>2. /\ Exists(g) => grant[g].request \in Requests
          /\ ~ReadExists(g) => read.grant[g].request = NoRequest
          /\ ReadExists(g) => Exists(g) /\ Copy!Exists(g)
      BY <1>1 DEF GrantOK, Held, Earlier, Changed
    <3> QED
      BY <1>2, <1>3, <1>4, <3>1, <3>2 DEF Exists, ReadExists, Copy!Exists
  <2> QED
    BY <2>1 DEF GrantOK, Held, Unused, Unattempted
<1>5. CASE ~Copy!Exists(g) /\ ~Exists(g)
  <2>1. /\ grant[g].status = "NotCreated" /\ ownGrant[g].status = "NotCreated"
        /\ read.grant[g].status = "NotCreated"
    BY <1>1, <1>5 DEF Exists, Copy!Exists, Earlier, ReadExists
  <2>2. /\ grant[g].request = NoRequest /\ ownGrant[g].request = NoRequest
        /\ read.grant[g].request = NoRequest
    BY <1>1, <1>5, <2>1 DEF GrantOK, Unused, Copy!GrantOK, Copy!Unused, Earlier, ReadExists
  <2>3. /\ provisionTasks[g] = <<>> /\ ownProvisionTasks[g] = <<>>
        /\ revokeTasks[g] = <<>> /\ ownRevokeTasks[g] = <<>>
    BY <1>1, <1>5 DEF GrantOK, Unattempted, Held, NoRevokeTask, Copy!GrantOK,
       Copy!Unattempted, Copy!Held, Copy!NoRevokeTask
  <2>4. session'[g].status = "Absent"
    BY <1>1, <1>2, <1>5 DEF Changed, Untouched
  <2> QED
    BY <1>2, <2>1, <2>2, <2>3, <2>4
    DEF GrantOK, Unused, Unattempted, Exists, NoRevokeTask
<1> QED
  BY <1>4, <1>5

\* Where the open transaction opened no task, none is open that was not.
LEMMA CommitOpensNone ==
  ASSUME TxInv, Commit, NEW g \in Grants, Untouched(g), HasOpenRevoke(g)'
  PROVE  HasOpenRevoke(g)
<1> DEFINE old == read.revokeTasks[g]
           new == ownRevokeTasks[g]
           tasks == revokeTasks[g]
<1>1. /\ old \in Seq(RevokeTaskRow) /\ new \in Seq(RevokeTaskRow) /\ tasks \in Seq(RevokeTaskRow)
  BY DEF TxInv, RowInv, TypeInv, TypeOK, ReadInv, WriteInv, Snapshots, CopyRows, Commit
<1>2. PICK i \in DOMAIN revokeTasks'[g] : IsOpen(revokeTasks'[g][i])
  BY Zenon DEF HasOpenRevoke, OpenOf
<1>3. \A j \in DOMAIN new : IsOpen(new[j]) => j \in DOMAIN old /\ new[j].status = old[j].status
  BY Zenon DEF Untouched
<1>4. \/ \E j \in DOMAIN old :
           /\ j \in DOMAIN new /\ j \in DOMAIN tasks
           /\ revokeTasks'[g][i] = WriteColumns(old[j], new[j], tasks[j])
      \/ \E j \in DOMAIN new \ DOMAIN old : revokeTasks'[g][i] = new[j]
      \/ \E j \in DOMAIN tasks \ DOMAIN old : revokeTasks'[g][i] = tasks[j]
  <2>1. Merged(RevokeTaskRow, old, new, tasks, revokeTasks'[g])
    BY CommitTables, Zenon
  <2> HIDE DEF old, new, tasks
  <2> QED
    BY <2>1, <1>2, Zenon DEF Merged
<1> HIDE DEF old, new
<1>5. ASSUME NEW j \in DOMAIN old, j \in DOMAIN new, j \in DOMAIN tasks,
             revokeTasks'[g][i] = WriteColumns(old[j], new[j], tasks[j])
      PROVE  IsOpen(tasks[j])
  <2>1. old[j] \in RevokeTaskRow /\ new[j] \in RevokeTaskRow /\ tasks[j] \in RevokeTaskRow
    BY <1>1, <1>5, ElementOfSeq, LenProperties
  <2>2. revokeTasks'[g][i].status =
          IF new[j].status # old[j].status THEN new[j].status ELSE tasks[j].status
    <3>1. WriteColumns(old[j], new[j], tasks[j]).status =
            IF new[j].status # old[j].status THEN new[j].status ELSE tasks[j].status
      <4> DEFINE before == old[j]
                 after == new[j]
                 row == tasks[j]
      <4>1. before \in RevokeTaskRow /\ after \in RevokeTaskRow /\ row \in RevokeTaskRow
        BY <2>1, Zenon
      <4> HIDE DEF before, after, row
      <4>2. WriteColumns(before, after, row).status =
              IF after.status # before.status THEN after.status ELSE row.status
        BY <4>1, RevokeTaskColumns
      <4> QED
        BY <4>2, Zenon DEF before, after, row
    <3> QED
      BY <1>5, <3>1, Zenon
  <2> QED
    BY <1>2, <1>3, <1>5, <2>2 DEF IsOpen
<1>6. \E j \in DOMAIN tasks : IsOpen(tasks[j])
  BY <1>2, <1>3, <1>4, <1>5, Zenon
<1> QED
  BY <1>6 DEF HasOpenRevoke, OpenOf

\* No commit makes a session active that the connector has not authorized, or
\* that somebody is revoking, unless its grant was provisioned again.
LEMMA CommitBacks ==
  ASSUME TxInv, Commit, NEW g \in Grants
  PROVE  Backed(g)'
<1>1. /\ Backed(g) /\ GrantOK(g) /\ Earlier(g) /\ EarlierSession(g) /\ Changed(g)
      /\ OneFirstCall /\ phase = "writing" /\ UNCHANGED authorized
  BY DEF TxInv, RowInv, ReadInv, WriteInv, Commit, Close
<1>2. /\ session'[g].status = IF ownSession[g].status # read.session[g].status
                              THEN ownSession[g].status ELSE session[g].status
      /\ Len(provisionTasks'[g]) >= Len(provisionTasks[g])
      /\ Len(provisionTasks'[g]) >= Len(ownProvisionTasks[g])
      /\ ownRevokeTasks[g] = <<>> /\ revokeTasks[g] = <<>> => revokeTasks'[g] = <<>>
  BY CommitGrant
<1>3. /\ Len(provisionTasks[g]) \in Nat /\ Len(provisionTasks'[g]) \in Nat
      /\ Len(ownProvisionTasks[g]) \in Nat
  <2>1. /\ provisionTasks[g] \in Seq(ProvisionTaskRow)
        /\ ownProvisionTasks[g] \in Seq(ProvisionTaskRow)
    BY DEF TxInv, RowInv, TypeInv, TypeOK, WriteInv, Snapshots, CopyRows, Commit
  <2>2. provisionTasks'[g] \in Seq(ProvisionTaskRow)
    BY CommitGrant
  <2> QED
    BY <2>1, <2>2, LenProperties
<1>4. SUFFICES ASSUME session'[g].status = "Active", ~Reprovisioned(g)'
               PROVE  authorized[g] /\ ~HasOpenRevoke(g)'
  BY <1>1 DEF Backed
<1>5. ~Reprovisioned(g) /\ ~(Len(ownProvisionTasks[g]) > 1)
  BY <1>2, <1>3, <1>4 DEF Reprovisioned
<1>6. CASE FirstCall(g)
  <2>1. ~Exists(g)
    <3>1. g # NoGrant
      BY AccessStateAssumption
    <3> QED
      BY <1>1, <1>6, <3>1 DEF FirstCall, OneFirstCall, Exists
  <2>2. revokeTasks[g] = <<>>
    BY <1>1, <2>1 DEF GrantOK, Held, NoRevokeTask
  <2>3. revokeTasks'[g] = <<>>
    BY <1>2, <1>6, <2>2 DEF FirstCall
  <2> QED
    BY <1>6, <2>3 DEF FirstCall, HasOpenRevoke, OpenOf
<1>7. CASE ~FirstCall(g)
  <2>1. ~Bound(g)
    BY <1>5, <1>7 DEF Bound
  <2>2. CASE Untouched(g)
    <3>1. session[g].status = "Active"
      BY <1>2, <1>4, <2>2 DEF Untouched
    <3> QED
      BY <1>1, <1>5, <2>2, <3>1, CommitOpensNone DEF Backed
  <2>3. CASE Ended(g)
    <3>1. session[g].status = "Active" /\ read.session[g].status \notin {"Absent", "Active"}
      BY <1>2, <1>4, <2>3 DEF Ended
    <3> QED
      BY <1>1, <1>5, <3>1 DEF EarlierSession
  <2> QED
    BY <1>1, <2>1, <2>2, <2>3 DEF Changed
<1> QED
  BY <1>6, <1>7

LEMMA CommitKeeps ==
  ASSUME TxInv, Commit
  PROVE  TxInv'
<1>1. RowInv'
  <2>1. TypeOK'
    BY CommitTables
  <2>2. \A g \in Grants : GrantOK(g)'
    BY CommitHolds
  <2>3. Linked'
    BY <2>2, CommitHolds DEF Linked, GrantOK
  <2> QED
    BY <2>1, <2>2, <2>3 DEF RowInv, TypeInv
<1>2. phase' = "idle" /\ flushed' = NothingFlushed /\ UNCHANGED authorized
  BY DEF Commit, Close
<1>3. authorized' \in [Grants -> BOOLEAN] /\ \A g \in Grants : Backed(g)'
  BY <1>2, CommitBacks DEF TxInv
<1>4. FlushInv' /\ OneFirstCall'
  BY <1>2 DEF FlushInv, OneFirstCall, NothingFlushed
<1> QED
  BY <1>1, <1>2, <1>3, <1>4 DEF TxInv

-----------------------------------------------------------------------------
(***************************************************************************)
(* The theorems.                                                           *)
(***************************************************************************)
LEMMA TxInvInit == TransactionsInit => TxInv
<1> SUFFICES ASSUME TransactionsInit PROVE TxInv
  OBVIOUS
<1>1. RowInv
  BY RowInvInit DEF TransactionsInit
<1>2. \A g \in Grants : Backed(g)
  BY DEF TransactionsInit, Init, Backed, AbsentSession
<1> QED
  BY <1>1, <1>2 DEF TransactionsInit, TxInv, FlushInv, OneFirstCall, NothingFlushed

LEMMA TxInvNext == TxInv /\ [TransactionsNext]_txVars => TxInv'
BY BeginKeeps, FlushKeeps, WorkKeeps, CommitKeeps, RollbackKeeps, OtherKeeps, StutterKeeps
DEF TransactionsNext

\* Transactions that overlap, each writing the columns it changed of rows that
\* may have changed meanwhile, leave rows of the types of the columns, and the
\* open transaction never works on anything else.
THEOREM OverlapsKeepTypes == TransactionsSpec => []TypeOK
<1>1. TxInv => TypeOK
  BY DEF TxInv, RowInv, TypeInv
<1> QED
  BY <1>1, TxInvInit, TxInvNext, PTL DEF TransactionsSpec

\* Whatever overlaps and whatever crashes, a session is active only if the
\* connector holds an authorization of its grant, or the grant was provisioned
\* again.  A stale commit does not bring a revoked session back: a transaction
\* that read it active writes its status only if it changed it, and one that
\* makes it active is the first to provision the grant, and the only one.
THEOREM SessionsStayAuthorized == TransactionsSpec => []SessionAuthorized
<1>1. TxInv => SessionAuthorized
  BY DEF TxInv, Backed, SessionAuthorized
<1> QED
  BY <1>1, TxInvInit, TxInvNext, PTL DEF TransactionsSpec

-----------------------------------------------------------------------------
(***************************************************************************)
(* Revocations.  Until the first open transaction has committed the others *)
(* are serial: the database has every property the other modules prove of  *)
(* it, and what the open one read is as consistent.  Its commit may leave  *)
(* a session and its tasks that no serial execution leaves, but it is one  *)
(* of a few things, and with what the others did in the meantime each of   *)
(* them keeps the revocation.                                              *)
(***************************************************************************)
Serial == opened = 0 \/ phase # "idle"

OutOfRetries(g) == ~NoRevokeTask(g) /\ LatestOf(revokeTasks[g]).retry = MaxRetry

\* Of RevocationTracked, what one commit cannot break.
Awaits(g) ==
  session[g].status \in {"Revoking", "Syncing"} =>
    HasOpenRevoke(g) \/ OutOfRetries(g) \/ Reprovisioned(g)

Tracks(g) == WithinBudget(revokeTasks[g]) /\ Awaits(g)

\* A forced retry has reloaded the session alone, and its tasks are older.
ReadTracked(g) ==
  /\ Numbered(read.revokeTasks[g])
  /\ flushed.by # "retry" => Copy!Tracked(g)

\* It writes neither a session status nor a task's: it may have new tasks.
Leaves(g) ==
  /\ ownSession[g].status = read.session[g].status
  /\ \A i \in DOMAIN read.revokeTasks[g] :
       ownRevokeTasks[g][i].status = read.revokeTasks[g][i].status

\* It writes a status that waits for nothing.
Settles(g) == ownSession[g].status \notin {"Revoking", "Syncing", read.session[g].status}

\* It creates an open task.
Opens(g) ==
  \E i \in DOMAIN ownRevokeTasks[g] \ DOMAIN read.revokeTasks[g] : IsOpen(ownRevokeTasks[g][i])

\* It marks the session though the last retry was made: nobody has a task for
\* it that the budget allows.
GivesUp(g) ==
  /\ ownRevokeTasks[g] = read.revokeTasks[g] /\ ownRevokeTasks[g] # <<>>
  /\ LatestOf(ownRevokeTasks[g]).retry = MaxRetry

\* It binds the session anew: a retry, or the first call for the grant.
Binds(g) ==
  /\ ownSession[g].status = "Active"
  /\ \/ Len(ownProvisionTasks[g]) > 1
     \/ flushed.by \in {"callback", "provision"} /\ flushed.grant = g

WritesTracked(g) ==
  /\ WithinBudget(ownRevokeTasks[g])
  /\ Leaves(g) \/ Settles(g) \/ Opens(g) \/ GivesUp(g) \/ Binds(g)

LostInv ==
  /\ TxInv /\ opened \in Nat /\ (opened = 0 => phase = "idle")
  /\ opened <= 1 =>
       /\ Serial => HoldingInv /\ BudgetInv
       /\ ~Serial => \A g \in Grants : Tracks(g)
       /\ phase \in {"reading", "working", "calling"} => \A g \in Grants : ReadTracked(g)
       /\ phase = "writing" =>
            \A g \in Grants : Numbered(read.revokeTasks[g]) /\ WritesTracked(g)

LEMMA NumberedWithin ==
  ASSUME NEW tasks, Numbered(tasks)
  PROVE  WithinBudget(tasks)
BY DEF Numbered, WithinBudget

LEMMA SerialTracks ==
  ASSUME HoldingInv, BudgetInv, NEW g \in Grants
  PROVE  Tracks(g)
<1>1. TypeInv /\ Tracked(g)
  BY DEF HoldingInv, RevocationInv, RevocationTracked
<1>2. WithinBudget(revokeTasks[g])
  BY BudgetByGrant, NumberedWithin
<1> QED
  BY <1>1, <1>2, TrackedTask DEF Tracks, Awaits, HasOpenRevoke, OpenOf

\* A serial step after the overlap keeps what the overlap left.
LEMMA OtherTracks ==
  ASSUME TypeInv, NEW g \in Grants, Tracks(g), Revokes(g) \/ Attempted(g)
  PROVE  Tracks(g)'
<1>1. revokeTasks[g] \in Seq(RevokeTaskRow) /\ provisionTasks[g] \in Seq(ProvisionTaskRow)
  BY GrantTypes
<1>2. MaxRetry \in Nat /\ Len(provisionTasks[g]) \in Nat
  BY <1>1, AccessStateAssumption, LenProperties
<1>3. CASE Spared(g)
  BY <1>3 DEF Spared, Tracks, Awaits, HasOpenRevoke, OpenOf, OutOfRetries, NoRevokeTask, Reprovisioned
<1>4. CASE Attempted(g)
  <2>1. /\ revokeTasks'[g] = revokeTasks[g]
        /\ session'[g].status \in {session[g].status, "Active"}
        /\ Reprovisioned(g) => Reprovisioned(g)'
    BY <1>2, <1>4 DEF Attempted, Reprovisioned
  <2> QED
    BY <2>1 DEF Tracks, Awaits, HasOpenRevoke, OpenOf, OutOfRetries, NoRevokeTask
<1>5. CASE Asked(g)
  <2>1. CASE /\ revokeTasks'[g] = revokeTasks[g] /\ ~NoRevokeTask(g)
             /\ \/ IsOpen(LatestOf(revokeTasks[g]))
                \/ LatestOf(revokeTasks[g]).retry + 1 > MaxRetry
    <3>1. Len(revokeTasks[g]) \in DOMAIN revokeTasks[g]
      BY <1>1, <2>1, LenProperties, EmptySeq DEF NoRevokeTask
    <3>2. LatestOf(revokeTasks[g]).retry \in Nat /\ LatestOf(revokeTasks[g]).retry <= MaxRetry
      BY <1>1, <2>1, <3>1, LatestInRow DEF NoRevokeTask, RevokeTaskRow, Tracks, WithinBudget, LatestOf
    <3>3. CASE IsOpen(LatestOf(revokeTasks[g]))
      BY <2>1, <3>1, <3>3 DEF Tracks, Awaits, HasOpenRevoke, OpenOf, LatestOf
    <3>4. CASE LatestOf(revokeTasks[g]).retry + 1 > MaxRetry
      <4>1. LatestOf(revokeTasks[g]).retry = MaxRetry
        BY <1>2, <3>2, <3>4
      <4> QED
        BY <2>1, <4>1 DEF Tracks, Awaits, OutOfRetries, NoRevokeTask
    <3> QED
      BY <2>1, <3>3, <3>4
  <2>2. ASSUME NEW task \in RevokeTaskRow, IsOpen(task),
               revokeTasks'[g] = Append(revokeTasks[g], task), task.retry <= MaxRetry
        PROVE  Tracks(g)'
    <3> DEFINE n == Len(revokeTasks[g])
    <3>1. /\ n \in Nat /\ DOMAIN revokeTasks[g] = 1 .. n
          /\ DOMAIN revokeTasks'[g] = 1 .. n + 1
          /\ revokeTasks'[g][n + 1] = task
          /\ \A i \in 1 .. n : revokeTasks'[g][i] = revokeTasks[g][i]
      BY <1>1, <2>2, LenProperties
    <3> HIDE DEF n
    <3>2. n + 1 \in DOMAIN revokeTasks'[g]
      BY <3>1
    <3>3. HasOpenRevoke(g)'
      BY <2>2, <3>1, <3>2 DEF HasOpenRevoke, OpenOf
    <3>4. ASSUME NEW i \in DOMAIN revokeTasks'[g] PROVE revokeTasks'[g][i].retry <= MaxRetry
      <4>1. i = n + 1 \/ i \in 1 .. n
        BY <3>1
      <4> QED
        BY <2>2, <3>1, <4>1 DEF Tracks, WithinBudget
    <3> QED
      BY <3>3, <3>4 DEF Tracks, Awaits, WithinBudget
  <2> QED
    BY <1>5, <2>1, <2>2 DEF Asked, Tracks
<1>6. CASE Settled(g)
  BY <1>6 DEF Settled, Tracks, Awaits
<1> QED
  BY <1>3, <1>4, <1>5, <1>6 DEF Revokes

LEMMA TrackedLoaded ==
  ASSUME NEW g \in Grants, Tracked(g), ownSession' = session, ownRevokeTasks' = revokeTasks
  PROVE  Copy!Tracked(g)'
BY Zenon DEF Tracked, NoRevokeTask, IsOpen, LatestOf, SessionBy, Copy!Tracked,
   Copy!NoRevokeTask, Copy!IsOpen, Copy!LatestOf, Copy!SessionBy

LEMMA TrackedKept ==
  ASSUME NEW g \in Grants, Copy!Tracked(g), UNCHANGED <<ownSession, ownRevokeTasks>>
  PROVE  Copy!Tracked(g)'
BY Zenon DEF Copy!Tracked, Copy!NoRevokeTask, Copy!IsOpen, Copy!LatestOf, Copy!SessionBy

LEMMA BeginTracked ==
  ASSUME HoldingInv, BudgetInv, Begin, NEW g \in Grants
  PROVE  ReadTracked(g)'
<1>1. /\ read'.revokeTasks = revokeTasks
      /\ ownSession' = session /\ ownRevokeTasks' = revokeTasks
  BY DEF Begin, Load, Database
<1>2. Tracked(g) /\ Numbered(revokeTasks[g])
  BY BudgetByGrant DEF HoldingInv, RevocationInv, RevocationTracked
<1> QED
  BY <1>1, <1>2, TrackedLoaded DEF ReadTracked

LEMMA FlushTracked ==
  ASSUME TxInv, Flush, HoldingInv, BudgetInv, NEW g \in Grants, ReadTracked(g)
  PROVE  ReadTracked(g)'
<1>1. /\ read \in Snapshots /\ CopyRows = read /\ flushed = NothingFlushed
      /\ Tracked(g) /\ Numbered(revokeTasks[g])
  BY BudgetByGrant
  DEF TxInv, ReadInv, LoadedInv, FlushInv, Flush, HoldingInv, RevocationInv, RevocationTracked
<1>2. ownSession = read.session /\ ownRevokeTasks = read.revokeTasks
  BY <1>1 DEF CopyRows
<1>3. Numbered(read.revokeTasks[g]) /\ Copy!Tracked(g)
  BY <1>1 DEF ReadTracked, NothingFlushed
<1> PICK r \in Requests :
      \/ \E k \in Keys : FlushCallback(r, k)
      \/ \E h \in Grants : FlushProvision(r, h) \/ FlushRetry(r, h)
      \/ ReadApproval(r)
  BY DEF Flush
<1>4. CASE \E k \in Keys : FlushCallback(r, k)
  <2>1. /\ read'.revokeTasks = revokeTasks
        /\ ownSession' = session /\ ownRevokeTasks' = revokeTasks
    BY <1>4 DEF FlushCallback, Load, Database
  <2> QED
    BY <1>1, <2>1, TrackedLoaded DEF ReadTracked
<1>5. CASE \E h \in Grants : FlushProvision(r, h)
  <2>1. UNCHANGED <<read, own>>
    BY <1>5 DEF FlushProvision
  <2> QED
    BY <1>3, <2>1, TrackedKept DEF ReadTracked, own
<1>6. CASE \E h \in Grants : FlushRetry(r, h)
  <2>1. flushed'.by = "retry" /\ read' = [read EXCEPT !.session = session]
    BY <1>6 DEF FlushRetry, Load
  <2>2. read'.revokeTasks = read.revokeTasks
    BY <1>1, <2>1 DEF Snapshots
  <2> QED
    BY <1>3, <2>1, <2>2 DEF ReadTracked
<1>7. CASE ReadApproval(r)
  <2> DEFINE rows == [read EXCEPT !.approval = approval]
  <2>1. rows.revokeTasks = read.revokeTasks /\ rows.session = read.session
    BY <1>1 DEF Snapshots
  <2>2. Load(rows)
    BY <1>7 DEF ReadApproval
  <2> HIDE DEF rows
  <2>3. read'.revokeTasks = read.revokeTasks /\ UNCHANGED <<ownSession, ownRevokeTasks>>
    BY <1>2, <2>1, <2>2 DEF Load
  <2> QED
    BY <1>3, <2>3, TrackedKept DEF ReadTracked
<1> QED
  BY <1>4, <1>5, <1>6, <1>7

\* What the work does to the tasks of a session it asks to be revoked.
LEMMA CopyAskedTasks ==
  ASSUME NEW g \in Grants, Copy!Asked(g)
  PROVE  \/ /\ ownRevokeTasks'[g] = ownRevokeTasks[g] /\ ownRevokeTasks[g] # <<>>
            /\ ownSession[g].status \in {"Active", "SyncFailed"}
            /\ \/ IsOpen(ownRevokeTasks[g][Len(ownRevokeTasks[g])])
               \/ LatestOf(ownRevokeTasks[g]).retry + 1 > MaxRetry
         \/ \E task \in RevokeTaskRow :
              /\ IsOpen(task) /\ ownRevokeTasks'[g] = Append(ownRevokeTasks[g], task)
              /\ WithinBudget(ownRevokeTasks[g]) => task.retry <= MaxRetry
<1>1. Copy!RevokeTaskRow = RevokeTaskRow
  BY Zenon DEF Copy!RevokeTaskRow, RevokeTaskRow, Copy!TaskStatus, TaskStatus,
     Copy!Triggers, Triggers
<1>2. \A task : Copy!IsOpen(task) <=> IsOpen(task)
  BY DEF Copy!IsOpen, IsOpen
<1>3. \A tasks : Copy!WithinBudget(tasks) <=> WithinBudget(tasks)
  BY DEF Copy!WithinBudget, WithinBudget
<1>4. \A tasks : Copy!LatestOf(tasks) = tasks[Len(tasks)] /\ LatestOf(tasks) = tasks[Len(tasks)]
  BY DEF Copy!LatestOf, LatestOf
<1> QED
  BY <1>1, <1>2, <1>3, <1>4 DEF Copy!Asked, Copy!NoRevokeTask

\* A task more, within the budget.
LEMMA AppendWithin ==
  ASSUME NEW tasks \in Seq(RevokeTaskRow), NEW task \in RevokeTaskRow,
         WithinBudget(tasks), task.retry <= MaxRetry
  PROVE  /\ WithinBudget(Append(tasks, task))
         /\ Len(tasks) + 1 \in DOMAIN Append(tasks, task) \ DOMAIN tasks
         /\ Append(tasks, task)[Len(tasks) + 1] = task
<1> DEFINE n == Len(tasks)
           more == Append(tasks, task)
<1>1. /\ n \in Nat /\ DOMAIN tasks = 1 .. n /\ DOMAIN more = 1 .. n + 1
      /\ more[n + 1] = task /\ \A i \in 1 .. n : more[i] = tasks[i]
  BY LenProperties
<1> HIDE DEF n, more
<1>2. ASSUME NEW i \in DOMAIN more PROVE more[i].retry <= MaxRetry
  <2>1. i = n + 1 \/ i \in 1 .. n
    BY <1>1
  <2> QED
    BY <1>1, <2>1 DEF WithinBudget
<1>3. n + 1 \in DOMAIN more \ DOMAIN tasks
  BY <1>1
<1> QED
  BY <1>1, <1>2, <1>3 DEF WithinBudget, n, more

LEMMA WorkAsked ==
  ASSUME ReadInv, LoadedInv, UNCHANGED read, NEW g \in Grants, Copy!Asked(g),
         Copy!TypeInv, Copy!Tracked(g), Numbered(read.revokeTasks[g])
  PROVE  (WithinBudget(ownRevokeTasks[g]) /\ (Opens(g) \/ GivesUp(g)))'
<1> DEFINE old == ownRevokeTasks[g]
<1>1. ownRevokeTasks = read.revokeTasks /\ old \in Seq(RevokeTaskRow)
  BY CopyTypes
<1>2. Numbered(old) /\ WithinBudget(old)
  BY <1>1, NumberedWithin
<1>3. CASE /\ ownRevokeTasks'[g] = old /\ old # <<>>
           /\ ownSession[g].status \in {"Active", "SyncFailed"}
           /\ \/ IsOpen(old[Len(old)])
              \/ LatestOf(old).retry + 1 > MaxRetry
  <2>1. ~IsOpen(old[Len(old)])
    <3>1. Len(old) \in DOMAIN old
      BY <1>1, <1>3, LenProperties, EmptySeq
    <3>2. ~Copy!HasOpenRevoke(g)
      BY <1>3, Copy!TrackedTask, AccessStateAssumption
    <3> QED
      BY <3>1, <3>2 DEF Copy!HasOpenRevoke, Copy!OpenOf, Copy!IsOpen, IsOpen
  <2>2. LatestOf(old).retry = MaxRetry
    <3>1. LatestOf(old).retry = Len(old) - 1 /\ Len(old) \in Nat /\ Len(old) \in DOMAIN old
      BY <1>1, <1>2, <1>3, LatestNumbered, LenProperties, EmptySeq
    <3>2. Len(old) - 1 <= MaxRetry
      BY <1>2, <3>1 DEF Numbered
    <3>3. MaxRetry \in Nat
      BY AccessStateAssumption
    <3> QED
      BY <1>3, <2>1, <3>1, <3>2, <3>3
  <2> QED
    BY <1>1, <1>2, <1>3, <2>2 DEF GivesUp
<1>4. ASSUME NEW task \in RevokeTaskRow, IsOpen(task),
             ownRevokeTasks'[g] = Append(old, task), task.retry <= MaxRetry
      PROVE  (WithinBudget(ownRevokeTasks[g]) /\ Opens(g))'
  BY <1>1, <1>2, <1>4, AppendWithin DEF Opens
<1> QED
  BY <1>2, <1>3, <1>4, CopyAskedTasks

LEMMA WorkSettled ==
  ASSUME ReadInv, LoadedInv, UNCHANGED read, NEW g \in Grants, Copy!Settled(g),
         Copy!TypeInv, Copy!Tracked(g), Numbered(read.revokeTasks[g])
  PROVE  (WithinBudget(ownRevokeTasks[g]) /\ (Settles(g) \/ Leaves(g)))'
<1> DEFINE old == ownRevokeTasks[g]
<1>1. ownSession = read.session /\ ownRevokeTasks = read.revokeTasks
  BY CopyTypes
<1>2. WithinBudget(ownRevokeTasks'[g])
  BY <1>1, NumberedWithin DEF Copy!Settled, Copy!WithinBudget, WithinBudget
<1>3. ownSession'[g].status \in {"Revoked", "SyncFailed"}
  BY DEF Copy!Settled
<1>4. CASE ownSession'[g].status # read.session[g].status
  BY <1>2, <1>3, <1>4 DEF Settles
<1>5. CASE ownSession'[g].status = read.session[g].status
  <2>1. ~Copy!HasOpenRevoke(g)
    BY <1>1, <1>3, <1>5, Copy!TrackedTask, AccessStateAssumption
  <2>2. \A i \in DOMAIN old : ownRevokeTasks'[g][i] = old[i]
    BY <2>1 DEF Copy!Settled, Copy!HasOpenRevoke, Copy!OpenOf
  <2> QED
    BY <1>1, <1>2, <1>5, <2>2 DEF Leaves
<1> QED
  BY <1>4, <1>5

LEMMA WorkTracked ==
  ASSUME ReadInv, LoadedInv, UNCHANGED <<read, flushed>>, NEW g \in Grants,
         ReadTracked(g), Changed(g)',
         Called(g) \/ (flushed.by # "retry" /\ Copy!Revokes(g))
  PROVE  WritesTracked(g)'
<1>1. /\ ownSession = read.session /\ ownRevokeTasks = read.revokeTasks
      /\ Numbered(read.revokeTasks[g]) /\ WithinBudget(read.revokeTasks[g])
  BY CopyTypes, NumberedWithin DEF ReadTracked
<1>2. CASE /\ ownSession'[g].status = ownSession[g].status
           /\ ownRevokeTasks'[g] = ownRevokeTasks[g]
  BY <1>1, <1>2 DEF WritesTracked, Leaves
<1>3. CASE Copy!Spared(g)
  BY <1>2, <1>3 DEF Copy!Spared
<1>4. CASE Copy!Attempted(g)
  <2>1. /\ ownRevokeTasks'[g] = ownRevokeTasks[g]
        /\ ownSession'[g].status \in {ownSession[g].status, "Active"}
    BY <1>4 DEF Copy!Attempted
  <2>2. CASE ownSession'[g].status # ownSession[g].status
    <3>1. Bound(g)'
      BY <1>1, <2>1, <2>2 DEF Changed, Untouched, Ended
    <3> QED
      BY <1>1, <2>1, <3>1 DEF Bound, FirstCall, Binds, WritesTracked
  <2> QED
    BY <1>2, <2>1, <2>2
<1>5. CASE flushed.by # "retry" /\ (Copy!Asked(g) \/ Copy!Settled(g))
  <2>1. Copy!TypeInv /\ Copy!Tracked(g)
    BY <1>5, CopyRowInv DEF Copy!RowInv, ReadTracked
  <2> QED
    BY <1>1, <1>5, <2>1, WorkAsked, WorkSettled DEF WritesTracked
<1> QED
  BY <1>3, <1>4, <1>5 DEF Called, Copy!Revokes

LEMMA RetryColumn ==
  ASSUME NEW old \in RevokeTaskRow, NEW new \in RevokeTaskRow, NEW row \in RevokeTaskRow
  PROVE  WriteColumns(old, new, row).retry =
           IF new.retry # old.retry THEN new.retry ELSE row.retry
BY DEF WriteColumns, RevokeTaskRow

\* Three lists of tasks at a commit: as read, as written, as others left them.
LEMMA CommitTasks ==
  ASSUME TxInv, Commit, NEW g \in Grants
  PROVE  LET old == read.revokeTasks[g] new == ownRevokeTasks[g] tasks == revokeTasks[g] IN
         /\ old \in Seq(RevokeTaskRow) /\ new \in Seq(RevokeTaskRow)
         /\ tasks \in Seq(RevokeTaskRow) /\ revokeTasks'[g] \in Seq(RevokeTaskRow)
         /\ Len(old) \in Nat /\ Len(new) \in Nat /\ Len(tasks) \in Nat
         /\ DOMAIN old = 1 .. Len(old) /\ DOMAIN new = 1 .. Len(new)
         /\ DOMAIN tasks = 1 .. Len(tasks)
         /\ DOMAIN revokeTasks'[g] = 1 .. Len(revokeTasks'[g])
         /\ Len(old) <= Len(new) /\ Len(old) <= Len(tasks)
         /\ Merged(RevokeTaskRow, old, new, tasks, revokeTasks'[g])
<1> DEFINE old == read.revokeTasks[g]
           new == ownRevokeTasks[g]
           tasks == revokeTasks[g]
<1>1. /\ old \in Seq(RevokeTaskRow) /\ new \in Seq(RevokeTaskRow)
      /\ tasks \in Seq(RevokeTaskRow)
  BY DEF TxInv, RowInv, TypeInv, TypeOK, ReadInv, WriteInv, Snapshots, CopyRows, Commit
<1>2. Len(old) <= Len(new) /\ Len(old) <= Len(tasks)
  BY DEF TxInv, ReadInv, WriteInv, Commit, Earlier, Changed
<1>3. Merged(RevokeTaskRow, old, new, tasks, revokeTasks'[g])
  BY CommitTables
<1>4. revokeTasks'[g] \in Seq(RevokeTaskRow)
  BY <1>3, Zenon DEF Merged
<1> HIDE DEF old, new, tasks
<1>5. /\ Len(old) \in Nat /\ Len(new) \in Nat /\ Len(tasks) \in Nat
      /\ DOMAIN old = 1 .. Len(old) /\ DOMAIN new = 1 .. Len(new)
      /\ DOMAIN tasks = 1 .. Len(tasks)
      /\ DOMAIN revokeTasks'[g] = 1 .. Len(revokeTasks'[g])
  BY <1>1, <1>4, LenProperties
<1> QED
  BY <1>1, <1>2, <1>3, <1>4, <1>5, Zenon DEF old, new, tasks

LEMMA CommitWithin ==
  ASSUME TxInv, Commit, NEW g \in Grants,
         WithinBudget(ownRevokeTasks[g]), WithinBudget(revokeTasks[g])
  PROVE  WithinBudget(revokeTasks'[g])
<1> DEFINE old == read.revokeTasks[g]
           new == ownRevokeTasks[g]
           tasks == revokeTasks[g]
           all == revokeTasks'[g]
<1>1. /\ old \in Seq(RevokeTaskRow) /\ new \in Seq(RevokeTaskRow) /\ tasks \in Seq(RevokeTaskRow)
      /\ Merged(RevokeTaskRow, old, new, tasks, all)
  BY CommitTasks
<1>2. (\A i \in DOMAIN new : new[i].retry <= MaxRetry) /\ (\A i \in DOMAIN tasks : tasks[i].retry <= MaxRetry)
  BY DEF WithinBudget
<1> SUFFICES ASSUME NEW i \in DOMAIN all PROVE all[i].retry <= MaxRetry
  BY DEF WithinBudget
<1>3. \/ \E j \in DOMAIN old :
           /\ j \in DOMAIN new /\ j \in DOMAIN tasks
           /\ all[i] = WriteColumns(old[j], new[j], tasks[j])
      \/ \E j \in DOMAIN new \ DOMAIN old : all[i] = new[j]
      \/ \E j \in DOMAIN tasks \ DOMAIN old : all[i] = tasks[j]
  BY <1>1, Zenon DEF Merged
<1> HIDE DEF old, new, tasks, all
<1>4. ASSUME NEW j \in DOMAIN old, j \in DOMAIN new, j \in DOMAIN tasks,
             all[i] = WriteColumns(old[j], new[j], tasks[j])
      PROVE  all[i].retry <= MaxRetry
  <2>1. old[j] \in RevokeTaskRow /\ new[j] \in RevokeTaskRow /\ tasks[j] \in RevokeTaskRow
    BY <1>1, <1>4, ElementOfSeq, LenProperties
  <2>2. WriteColumns(old[j], new[j], tasks[j]).retry =
          IF new[j].retry # old[j].retry THEN new[j].retry ELSE tasks[j].retry
    <3> DEFINE before == old[j]
               after == new[j]
               row == tasks[j]
    <3>1. before \in RevokeTaskRow /\ after \in RevokeTaskRow /\ row \in RevokeTaskRow
      BY <2>1, Zenon
    <3> HIDE DEF before, after, row
    <3>2. WriteColumns(before, after, row).retry = IF after.retry # before.retry THEN after.retry ELSE row.retry
      BY <3>1, RetryColumn
    <3> QED
      BY <3>2, Zenon DEF before, after, row
  <2>3. all[i].retry =
          IF new[j].retry # old[j].retry THEN new[j].retry ELSE tasks[j].retry
    BY <1>4, <2>2, Zenon
  <2> QED
    BY <1>2, <1>4, <2>3
<1> QED
  BY <1>2, <1>3, <1>4, Zenon

\* A task that was open and that the transaction did not answer is open.
LEMMA CommitKeepsOpen ==
  ASSUME TxInv, Commit, NEW g \in Grants, Leaves(g), HasOpenRevoke(g)
  PROVE  HasOpenRevoke(g)'
<1> DEFINE old == read.revokeTasks[g]
           new == ownRevokeTasks[g]
           tasks == revokeTasks[g]
           all == revokeTasks'[g]
<1>1. /\ old \in Seq(RevokeTaskRow) /\ new \in Seq(RevokeTaskRow) /\ tasks \in Seq(RevokeTaskRow)
      /\ Len(old) \in Nat /\ Len(new) \in Nat /\ DOMAIN old = 1 .. Len(old)
      /\ DOMAIN new = 1 .. Len(new) /\ Len(old) <= Len(new)
  BY CommitTasks
<1>2. /\ \A j \in DOMAIN old : j \in DOMAIN all /\ all[j] = WriteColumns(old[j], new[j], tasks[j])
      /\ \A j \in DOMAIN tasks \ DOMAIN old : \E i \in DOMAIN all : all[i] = tasks[j]
  <2>1. Merged(RevokeTaskRow, old, new, tasks, all)
    BY CommitTasks
  <2> QED
    BY <2>1, Zenon DEF Merged
<1>3. \A j \in DOMAIN old : new[j].status = old[j].status
  BY DEF Leaves
<1>4. PICK j \in DOMAIN tasks : IsOpen(tasks[j])
  BY DEF HasOpenRevoke, OpenOf
<1> HIDE DEF old, new, tasks, all
<1>5. CASE j \in DOMAIN old
  <2>1. j \in DOMAIN new
    BY <1>1, <1>5
  <2>2. old[j] \in RevokeTaskRow /\ new[j] \in RevokeTaskRow /\ tasks[j] \in RevokeTaskRow
    BY <1>1, <1>5, <2>1, ElementOfSeq, LenProperties
  <2>3. WriteColumns(old[j], new[j], tasks[j]).status = tasks[j].status
    <3>1. WriteColumns(old[j], new[j], tasks[j]).status =
            IF new[j].status # old[j].status THEN new[j].status ELSE tasks[j].status
      <4> DEFINE before == old[j]
                 after == new[j]
                 row == tasks[j]
      <4>1. before \in RevokeTaskRow /\ after \in RevokeTaskRow /\ row \in RevokeTaskRow
        BY <2>2, Zenon
      <4> HIDE DEF before, after, row
      <4>2. WriteColumns(before, after, row).status =
              IF after.status # before.status THEN after.status ELSE row.status
        BY <4>1, RevokeTaskColumns
      <4> QED
        BY <4>2, Zenon DEF before, after, row
    <3>2. new[j].status = old[j].status
      BY <1>3, <1>5, Zenon
    <3> QED
      BY <3>1, <3>2, Zenon
  <2>4. j \in DOMAIN all /\ all[j].status = tasks[j].status
    BY <1>2, <1>5, <2>3, Zenon
  <2> QED
    BY <1>4, <2>4 DEF HasOpenRevoke, OpenOf, IsOpen, all
<1>6. CASE j \notin DOMAIN old
  <2>1. \E i \in DOMAIN all : IsOpen(all[i])
    BY <1>2, <1>4, <1>6, Zenon
  <2> QED
    BY <2>1 DEF HasOpenRevoke, OpenOf, all
<1> QED
  BY <1>5, <1>6

LEMMA CommitOpens ==
  ASSUME TxInv, Commit, NEW g \in Grants, Opens(g)
  PROVE  HasOpenRevoke(g)'
<1> DEFINE all == revokeTasks'[g]
<1>1. \A j \in DOMAIN ownRevokeTasks[g] \ DOMAIN read.revokeTasks[g] :
        \E i \in DOMAIN all : all[i] = ownRevokeTasks[g][j]
  BY CommitTasks, Zenon DEF Merged
<1>2. \E i \in DOMAIN all : IsOpen(all[i])
  BY <1>1, Zenon DEF Opens
<1> QED
  BY <1>2 DEF HasOpenRevoke, OpenOf

\* Nobody has made a task since, for the budget allows none.
LEMMA CommitGivesUp ==
  ASSUME TxInv, Commit, NEW g \in Grants, GivesUp(g), Numbered(read.revokeTasks[g]),
         Numbered(revokeTasks[g])
  PROVE  OutOfRetries(g)'
<1> DEFINE old == read.revokeTasks[g]
           tasks == revokeTasks[g]
           all == revokeTasks'[g]
           n == Len(old)
<1>1. ownRevokeTasks[g] = old /\ old # <<>> /\ old[n].retry = MaxRetry
  BY DEF GivesUp, LatestOf
<1>2. /\ old \in Seq(RevokeTaskRow) /\ tasks \in Seq(RevokeTaskRow)
      /\ all \in Seq(RevokeTaskRow)
      /\ n \in Nat /\ Len(tasks) \in Nat /\ DOMAIN old = 1 .. n
      /\ DOMAIN tasks = 1 .. Len(tasks) /\ n <= Len(tasks)
      /\ Merged(RevokeTaskRow, old, old, tasks, all)
  BY <1>1, CommitTasks
<1>3. n \in DOMAIN old /\ n >= 1 /\ n - 1 = MaxRetry
  BY <1>1, <1>2, LatestNumbered, EmptySeq DEF LatestOf
<1>4. Len(tasks) = n
  <2>1. Len(tasks) - 1 <= MaxRetry
    BY <1>2, <1>3 DEF Numbered
  <2> QED
    BY <1>2, <1>3, <2>1
<1>5. /\ Len(all) = Len(tasks) + n - n
      /\ all[n] = WriteColumns(old[n], old[n], tasks[n])
  BY <1>2, <1>3, Zenon DEF Merged
<1>6. Len(all) = n
  BY <1>2, <1>4, <1>5
<1>7. old[n] \in RevokeTaskRow /\ tasks[n] \in RevokeTaskRow
  BY <1>2, <1>3, <1>4, ElementOfSeq
<1>8. all[n].retry = tasks[n].retry
  <2>1. ASSUME NEW x \in RevokeTaskRow, NEW row \in RevokeTaskRow
        PROVE  WriteColumns(x, x, row).retry = row.retry
    BY DEF WriteColumns, RevokeTaskRow
  <2>2. WriteColumns(old[n], old[n], tasks[n]).retry = tasks[n].retry
    BY <1>7, <2>1, Zenon
  <2> QED
    BY <1>5, <2>2, Zenon
<1>9. tasks[n].retry = MaxRetry
  BY <1>2, <1>3, <1>4 DEF Numbered
<1>10. all # <<>>
  BY <1>2, <1>3, <1>6, EmptySeq
<1> QED
  BY <1>6, <1>8, <1>9, <1>10 DEF OutOfRetries, NoRevokeTask, LatestOf

LEMMA CommitTracks ==
  ASSUME TxInv, Commit, HoldingInv, BudgetInv, NEW g \in Grants,
         Numbered(read.revokeTasks[g]), WritesTracked(g)
  PROVE  Tracks(g)'
<1>1. /\ TypeInv /\ Tracked(g) /\ Numbered(revokeTasks[g]) /\ WithinBudget(revokeTasks[g])
      /\ Linked /\ OneFirstCall /\ phase = "writing"
  BY BudgetByGrant, NumberedWithin
  DEF HoldingInv, RevocationInv, RevocationTracked, TypeInv, TxInv, Commit
<1>2. WithinBudget(revokeTasks'[g])
  BY <1>1, CommitWithin DEF WritesTracked
<1>3. SUFFICES ASSUME session'[g].status \in {"Revoking", "Syncing"}, ~Reprovisioned(g)'
               PROVE  HasOpenRevoke(g)' \/ OutOfRetries(g)'
  BY <1>2 DEF Tracks, Awaits
<1>4. /\ session'[g].status = IF ownSession[g].status # read.session[g].status
                              THEN ownSession[g].status ELSE session[g].status
      /\ Len(provisionTasks'[g]) >= Len(ownProvisionTasks[g])
  BY CommitGrant
<1>5. CASE Leaves(g)
  <2>1. session[g].status \in {"Revoking", "Syncing"}
    BY <1>3, <1>4, <1>5 DEF Leaves
  <2>2. HasOpenRevoke(g)
    BY <1>1, <2>1, TrackedTask DEF HasOpenRevoke, OpenOf
  <2> QED
    BY <1>5, <2>2, CommitKeepsOpen
<1>6. CASE Settles(g)
  BY <1>3, <1>4, <1>6 DEF Settles
<1>7. CASE Opens(g)
  BY <1>7, CommitOpens
<1>8. CASE GivesUp(g)
  BY <1>1, <1>8, CommitGivesUp
<1>9. CASE Binds(g)
  <2>1. session[g].status \in {"Revoking", "Syncing"}
    BY <1>3, <1>4, <1>9 DEF Binds
  <2>2. CASE Len(ownProvisionTasks[g]) > 1
    <3>1. Len(ownProvisionTasks[g]) \in Nat /\ Len(provisionTasks'[g]) \in Nat
      <4>1. ownProvisionTasks[g] \in Seq(ProvisionTaskRow)
        BY DEF TxInv, WriteInv, Snapshots, CopyRows, Commit
      <4>2. provisionTasks'[g] \in Seq(ProvisionTaskRow)
        BY CommitGrant
      <4> QED
        BY <4>1, <4>2, LenProperties
    <3> QED
      BY <1>3, <1>4, <2>2, <3>1 DEF Reprovisioned
  <2>3. CASE flushed.by \in {"callback", "provision"} /\ flushed.grant = g
    <3>1. Exists(g) /\ g # NoGrant
      BY <1>1, <2>1, AccessStateAssumption DEF Linked, Held
    <3> QED
      BY <1>1, <2>3, <3>1 DEF OneFirstCall, Exists
  <2> QED
    BY <1>9, <2>2, <2>3 DEF Binds
<1> QED
  BY <1>5, <1>6, <1>7, <1>8, <1>9 DEF WritesTracked

-----------------------------------------------------------------------------
LEMMA LostInvInit == TransactionsInit => LostInv
<1> SUFFICES ASSUME TransactionsInit PROVE LostInv
  OBVIOUS
<1>1. TxInv /\ HoldingInv /\ BudgetInv
  BY TxInvInit, HoldingInvInit, BudgetInit DEF TransactionsInit
<1> QED
  BY <1>1 DEF TransactionsInit, LostInv, Serial

\* The rows stay as they are, and whatever is known of them.
LEMMA RowsStay ==
  ASSUME UNCHANGED vars
  PROVE  /\ HoldingInv /\ BudgetInv => HoldingInv' /\ BudgetInv'
         /\ \A g \in Grants : Tracks(g) => Tracks(g)'
<1>1. HoldingInv /\ BudgetInv => HoldingInv' /\ BudgetInv'
  BY HoldingInvNext, BudgetNext
<1>2. \A g \in Grants : Tracks(g) => Tracks(g)'
  BY DEF vars, Tracks, Awaits, WithinBudget, HasOpenRevoke, OpenOf, OutOfRetries, NoRevokeTask,
     Reprovisioned
<1> QED
  BY <1>1, <1>2

LEMMA CopyStays ==
  ASSUME UNCHANGED <<read, flushed, own>>, NEW g \in Grants
  PROVE  (ReadTracked(g) => ReadTracked(g)') /\ (WritesTracked(g) => WritesTracked(g)')
BY TrackedKept
DEF own, ReadTracked, WritesTracked, Leaves, Settles, Opens, GivesUp, Binds

LEMMA BeginLosesNone ==
  ASSUME LostInv, TxInv', Begin
  PROVE  LostInv'
<1>1. /\ UNCHANGED vars /\ phase = "idle" /\ phase' \in {"reading", "working"}
      /\ opened \in Nat /\ opened' = opened + 1
  BY DEF Begin, LostInv
<1>2. SUFFICES ASSUME opened' <= 1
               PROVE  HoldingInv' /\ BudgetInv' /\ \A g \in Grants : ReadTracked(g)'
  BY <1>1 DEF LostInv, Serial
<1>3. opened = 0
  BY <1>1, <1>2
<1>4. HoldingInv /\ BudgetInv
  BY <1>3 DEF LostInv, Serial
<1> QED
  BY <1>1, <1>4, RowsStay, BeginTracked

LEMMA FlushLosesNone ==
  ASSUME LostInv, TxInv', Flush
  PROVE  LostInv'
<1>1. /\ UNCHANGED vars /\ phase = "reading" /\ phase' = "calling" /\ UNCHANGED opened
  BY DEF Flush
<1>2. SUFFICES ASSUME opened <= 1
               PROVE  HoldingInv' /\ BudgetInv' /\ \A g \in Grants : ReadTracked(g)'
  BY <1>1 DEF LostInv, Serial
<1>3. TxInv /\ HoldingInv /\ BudgetInv /\ \A g \in Grants : ReadTracked(g)
  BY <1>1, <1>2 DEF LostInv, Serial
<1> QED
  BY <1>1, <1>3, RowsStay, FlushTracked

LEMMA WorkLosesNone ==
  ASSUME LostInv, TxInv', Work
  PROVE  LostInv'
<1>1. /\ phase' = "writing" /\ UNCHANGED <<vars, read, flushed, opened>>
      /\ \/ phase = "calling" /\ WorkFlushed
         \/ phase = "working" /\ WorkUnflushed
  BY DEF Work
<1>2. SUFFICES ASSUME opened <= 1
               PROVE  /\ HoldingInv' /\ BudgetInv'
                      /\ \A g \in Grants : (Numbered(read.revokeTasks[g]) /\ WritesTracked(g))'
  BY <1>1 DEF LostInv, Serial
<1>3. TxInv /\ HoldingInv /\ BudgetInv /\ \A g \in Grants : ReadTracked(g)
  BY <1>1, <1>2 DEF LostInv, Serial
<1>4. FlushInv /\ ReadInv /\ LoadedInv
  BY <1>1, <1>3 DEF TxInv
<1>5. ASSUME NEW g \in Grants
      PROVE  Called(g) \/ (flushed.by # "retry" /\ Copy!Revokes(g))
  <2>1. CASE phase = "calling" /\ WorkFlushed
    BY <1>4, <2>1, WorkFlushedCalls
  <2>2. CASE phase = "working" /\ WorkUnflushed
    <3>1. flushed = NothingFlushed
      BY <1>4, <2>2 DEF FlushInv
    <3> QED
      BY <1>4, <2>2, <3>1, WorkUnflushedRevokes DEF NothingFlushed
  <2> QED
    BY <1>1, <2>1, <2>2
<1>6. \A g \in Grants : Changed(g)'
  BY <1>1 DEF TxInv, WriteInv
<1>7. \A g \in Grants : WritesTracked(g)'
  BY <1>1, <1>3, <1>4, <1>5, <1>6, WorkTracked
<1> QED
  BY <1>1, <1>3, <1>7, RowsStay DEF ReadTracked

LEMMA CommitLosesNone ==
  ASSUME LostInv, TxInv', Commit
  PROVE  LostInv'
<1>1. phase = "writing" /\ phase' = "idle" /\ UNCHANGED opened
  BY DEF Commit, Close
<1>2. opened # 0
  BY <1>1 DEF LostInv
<1>3. SUFFICES ASSUME opened <= 1 PROVE \A g \in Grants : Tracks(g)'
  BY <1>1, <1>2 DEF LostInv, Serial
<1>4. /\ TxInv /\ HoldingInv /\ BudgetInv
      /\ \A g \in Grants : Numbered(read.revokeTasks[g]) /\ WritesTracked(g)
  BY <1>1, <1>3 DEF LostInv, Serial
<1> QED
  BY <1>4, CommitTracks

LEMMA RollbackLosesNone ==
  ASSUME LostInv, TxInv', Rollback
  PROVE  LostInv'
<1>1. UNCHANGED vars /\ phase # "idle" /\ phase' = "idle" /\ UNCHANGED opened
  BY DEF Rollback, Close
<1>2. opened # 0
  BY <1>1 DEF LostInv
<1>3. SUFFICES ASSUME opened <= 1 PROVE \A g \in Grants : Tracks(g)'
  BY <1>1, <1>2 DEF LostInv, Serial
<1>4. HoldingInv /\ BudgetInv
  BY <1>1, <1>3 DEF LostInv, Serial
<1> QED
  BY <1>1, <1>4, RowsStay, SerialTracks

LEMMA OtherLosesNone ==
  ASSUME LostInv, TxInv', Other \/ UNCHANGED txVars
  PROVE  LostInv'
<1>1. [Next]_vars /\ UNCHANGED <<phase, read, flushed, own, opened>>
  BY DEF Other, openVars, txVars
<1>2. SUFFICES ASSUME opened <= 1
               PROVE  /\ HoldingInv /\ BudgetInv => HoldingInv' /\ BudgetInv'
                      /\ \A g \in Grants : /\ Tracks(g) => Tracks(g)'
                                           /\ ReadTracked(g) => ReadTracked(g)'
                                           /\ WritesTracked(g) => WritesTracked(g)'
  BY <1>1 DEF LostInv, Serial
<1>3. RowInv /\ TypeInv
  BY DEF LostInv, TxInv, RowInv
<1>4. ASSUME NEW g \in Grants, Tracks(g) PROVE Tracks(g)'
  BY <1>1, <1>3, <1>4, RowStep, OtherTracks
<1>5. HoldingInv /\ BudgetInv => HoldingInv' /\ BudgetInv'
  BY <1>1, HoldingInvNext, BudgetNext
<1> QED
  BY <1>1, <1>4, <1>5, CopyStays

LEMMA LostInvNext == LostInv /\ [TransactionsNext]_txVars => LostInv'
<1> SUFFICES ASSUME LostInv, [TransactionsNext]_txVars PROVE LostInv'
  OBVIOUS
<1>1. TxInv'
  BY TxInvNext DEF LostInv
<1> QED
  BY <1>1, BeginLosesNone, FlushLosesNone, WorkLosesNone, CommitLosesNone, RollbackLosesNone, OtherLosesNone
  DEF TransactionsNext

\* One overlap does not lose a revocation.  Whatever two transactions leave of
\* a session that is asked to be revoked and of its tasks, and whatever the
\* others do to the two afterwards, the session has an open task, or its last
\* allowed retry was made, or its grant was provisioned again.
THEOREM RevocationsAreNotLost == TransactionsSpec => []RevocationNotLost
<1>1. LostInv => RevocationNotLost
  <2> SUFFICES ASSUME LostInv, opened <= 1, NEW g \in Grants PROVE Awaits(g)
    BY DEF RevocationNotLost, Awaits, OutOfRetries
  <2>1. Serial => Tracks(g)
    BY SerialTracks DEF LostInv
  <2> QED
    BY <2>1 DEF LostInv, Tracks
<1> QED
  BY <1>1, LostInvInit, LostInvNext, PTL DEF TransactionsSpec

-----------------------------------------------------------------------------
(***************************************************************************)
(* Renewals.  The open transaction answers a renewal from its own copy, in *)
(* which it may still wait after another transaction has answered it.      *)
(* What it read of the grant then decides: whoever approved the renewal    *)
(* left the grant to the new holder, or found that it could not be         *)
(* extended, and neither is undone.  For this, what the copy knows of the  *)
(* renewals must be the past of what the database knows.                   *)
(***************************************************************************)
ReadRenewing(r) ==
  read.request[r].status = "PendingApproval" /\ read.request[r].source # NoRequest

RequestFollows(r) ==
  read.request[r].status # "Absent" =>
    /\ request[r].status # "Absent"
    /\ \/ /\ request[r].source = read.request[r].source
          /\ request[r].renews = read.request[r].renews
       \/ request[r].source = NoRequest /\ request[r].renews = NoGrant
    /\ Renewing(r) => ReadRenewing(r)

GrantFollows(g) == read.grant[g].status \notin Unheld => grant[g].status \notin Unheld

\* The grant, as it is now, could be extended by the renewal that was read.
CouldExtend(r) ==
  /\ grant[ownRequest[r].renews].request = ownRequest[r].source
  /\ grant[ownRequest[r].renews].status \in Renewable

\* A renewal that it read unanswered still waits, or it was answered.
AnswerOf(r) ==
  Copy!Renewing(r) /\ ownApproval[r].status \in Unanswered =>
    IF approval[r].status \in Unanswered
    THEN /\ request[r].status \in Gone \cup {"PendingApproval"}
         /\ request[r].source = ownRequest[r].source
         /\ request[r].renews = ownRequest[r].renews
    ELSE /\ approval[r].status # "Absent"
         /\ approval[r].status = "Approved" => ~CouldExtend(r)

\* A callback that comes after the approval has reloaded the grant.
LateAnswer ==
  LET r == flushed.request IN
  approval[r].status = "Approved" /\ Copy!Renewing(r) => ~Copy!Extends(r)

\* What it is going to write of a request: never its renewal context, unless
\* it evaluates the request and drops it, or creates the request as a renewal.
KeepsSource(r) ==
  /\ ownRequest[r].source = read.request[r].source
  /\ ownRequest[r].renews = read.request[r].renews

Evaluates(r) ==
  /\ read.request[r].status # "Absent" /\ ownRequest[r].status = "PendingApproval"
  /\ ownRequest[r].source = NoRequest /\ ownRequest[r].renews = NoGrant

Renews(r) ==
  /\ read.request[r].status = "Absent" /\ ownRequest[r].status = "PendingApproval"
  /\ read.request[r].source = NoRequest /\ read.request[r].renews = NoGrant
  /\ \E g \in Grants, s \in Requests :
       /\ read.grant[g].status \notin Unheld
       /\ read.request[s].status # "Absent" /\ ~ReadRenewing(s)
       /\ ownRequest[r].source = s /\ ownRequest[r].renews = g

RequestWrites(r) ==
  \/ /\ KeepsSource(r)
     /\ \/ ownRequest[r].status = read.request[r].status
        \/ ownRequest[r].status \notin {"Absent", "PendingApproval"}
  \/ Evaluates(r)
  \/ Renews(r)

\* What it is going to write of a grant: neither holder nor expiry, unless it
\* flushed the grant as new, or approves a renewal that nobody has approved.
KeepsGrant(g) ==
  /\ ownGrant[g].request = read.grant[g].request
  /\ ownGrant[g].expire = read.grant[g].expire
  /\ ownGrant[g].status \in Unheld => ownGrant[g].status = read.grant[g].status

Gives(g) == flushed.by # "retry" /\ flushed.grant = g

Prolongs(g, r) ==
  /\ flushed.by = "callback" /\ flushed.request = r
  /\ approval[r].status # "Approved"
  /\ ownApproval[r].status = "Approved" /\ read.approval[r].status # "Approved"
  /\ ownGrant[g].status \notin Unheld

GrantWrites(g) ==
  \/ KeepsGrant(g)
  \/ \E r \in Requests :
       /\ ownGrant[g].request = r
       /\ KeepsSource(r) /\ ownRequest[r].status \notin {"Absent", "PendingApproval"}
       /\ Gives(g) \/ Prolongs(g, r)

OnceInv ==
  /\ TxInv /\ SourceInv
  /\ phase # "idle" =>
       (\A r \in Requests : RequestFollows(r)) /\ (\A g \in Grants : GrantFollows(g))
  /\ phase \in {"reading", "working"} => Copy!SourceInv
  /\ phase = "calling" /\ flushed.by # "callback" => Copy!SourceInv
  /\ phase = "reading" => \A r \in Requests : AnswerOf(r)
  /\ phase = "calling" /\ flushed.by = "callback" => LateAnswer
  /\ phase = "writing" =>
       (\A r \in Requests : RequestWrites(r)) /\ (\A g \in Grants : GrantWrites(g))

-----------------------------------------------------------------------------
\* Committing.
Merge(old, new, value) == IF new # old THEN new ELSE value

LEMMA RenewalColumns ==
  ASSUME NEW old \in RequestRow, NEW new \in RequestRow, NEW row \in RequestRow
  PROVE  /\ WriteColumns(old, new, row).status = Merge(old.status, new.status, row.status)
         /\ WriteColumns(old, new, row).source = Merge(old.source, new.source, row.source)
         /\ WriteColumns(old, new, row).renews = Merge(old.renews, new.renews, row.renews)
BY DEF WriteColumns, RequestRow, Merge

LEMMA AnswerColumn ==
  ASSUME NEW old \in ApprovalRow, NEW new \in ApprovalRow, NEW row \in ApprovalRow
  PROVE  WriteColumns(old, new, row).status = Merge(old.status, new.status, row.status)
BY DEF WriteColumns, ApprovalRow, Merge

LEMMA ExpireColumn ==
  ASSUME NEW old \in GrantRow, NEW new \in GrantRow, NEW row \in GrantRow
  PROVE  WriteColumns(old, new, row).expire = Merge(old.expire, new.expire, row.expire)
BY DEF WriteColumns, GrantRow, Merge

LEMMA CommitRows ==
  ASSUME TxInv, Commit
  PROVE  /\ \A r \in Requests :
              /\ read.request[r] \in RequestRow /\ ownRequest[r] \in RequestRow
              /\ request[r] \in RequestRow /\ read.approval[r] \in ApprovalRow
              /\ ownApproval[r] \in ApprovalRow /\ approval[r] \in ApprovalRow
              /\ request'[r] = WriteColumns(read.request[r], ownRequest[r], request[r])
              /\ approval'[r] = WriteColumns(read.approval[r], ownApproval[r], approval[r])
         /\ \A g \in Grants :
              /\ read.grant[g] \in GrantRow /\ ownGrant[g] \in GrantRow /\ grant[g] \in GrantRow
              /\ grant'[g] = WriteColumns(read.grant[g], ownGrant[g], grant[g])
<1>1. /\ TypeOK /\ read \in Snapshots /\ CopyRows \in Snapshots
  BY DEF TxInv, RowInv, TypeInv, ReadInv, WriteInv, Commit
<1>2. /\ ownRequest \in [Requests -> RequestRow] /\ ownApproval \in [Requests -> ApprovalRow]
      /\ ownGrant \in [Grants -> GrantRow]
  BY <1>1 DEF CopyRows, Snapshots
<1>3. /\ read.request \in [Requests -> RequestRow] /\ read.approval \in [Requests -> ApprovalRow]
      /\ read.grant \in [Grants -> GrantRow]
  BY <1>1 DEF Snapshots
<1>4. /\ request \in [Requests -> RequestRow] /\ approval \in [Requests -> ApprovalRow]
      /\ grant \in [Grants -> GrantRow]
  BY <1>1, RowFields
<1>5. /\ request' = Written(read.request, ownRequest, request)
      /\ approval' = Written(read.approval, ownApproval, approval)
      /\ grant' = Written(read.grant, ownGrant, grant)
  BY DEF Commit
<1>6. /\ \A r \in Requests :
           /\ request'[r] = WriteColumns(read.request[r], ownRequest[r], request[r])
           /\ approval'[r] = WriteColumns(read.approval[r], ownApproval[r], approval[r])
      /\ \A g \in Grants : grant'[g] = WriteColumns(read.grant[g], ownGrant[g], grant[g])
  BY <1>4, <1>5, Zenon DEF Written
<1> QED
  BY <1>2, <1>3, <1>4, <1>6, Zenon

LEMMA CommitRequest ==
  ASSUME TxInv, Commit, NEW r \in Requests
  PROVE  /\ request'[r].status =
              Merge(read.request[r].status, ownRequest[r].status, request[r].status)
         /\ request'[r].source =
              Merge(read.request[r].source, ownRequest[r].source, request[r].source)
         /\ request'[r].renews =
              Merge(read.request[r].renews, ownRequest[r].renews, request[r].renews)
         /\ approval'[r].status =
              Merge(read.approval[r].status, ownApproval[r].status, approval[r].status)
<1> DEFINE old == read.request[r]
           new == ownRequest[r]
           row == request[r]
           asked == read.approval[r]
           answered == ownApproval[r]
           record == approval[r]
<1>1. /\ old \in RequestRow /\ new \in RequestRow /\ row \in RequestRow
      /\ asked \in ApprovalRow /\ answered \in ApprovalRow /\ record \in ApprovalRow
      /\ request'[r] = WriteColumns(old, new, row)
      /\ approval'[r] = WriteColumns(asked, answered, record)
  BY CommitRows, Zenon
<1> SUFFICES /\ request'[r].status = Merge(old.status, new.status, row.status)
             /\ request'[r].source = Merge(old.source, new.source, row.source)
             /\ request'[r].renews = Merge(old.renews, new.renews, row.renews)
             /\ approval'[r].status = Merge(asked.status, answered.status, record.status)
  OBVIOUS
<1> HIDE DEF old, new, row, asked, answered, record
<1>2. /\ WriteColumns(old, new, row).status = Merge(old.status, new.status, row.status)
      /\ WriteColumns(old, new, row).source = Merge(old.source, new.source, row.source)
      /\ WriteColumns(old, new, row).renews = Merge(old.renews, new.renews, row.renews)
  BY <1>1, RenewalColumns
<1>3. WriteColumns(asked, answered, record).status =
        Merge(asked.status, answered.status, record.status)
  BY <1>1, AnswerColumn
<1> QED
  BY <1>1, <1>2, <1>3

LEMMA CommitExpire ==
  ASSUME TxInv, Commit, NEW g \in Grants
  PROVE  /\ grant'[g].status =
              Merge(read.grant[g].status, ownGrant[g].status, grant[g].status)
         /\ grant'[g].request =
              Merge(read.grant[g].request, ownGrant[g].request, grant[g].request)
         /\ grant'[g].expire =
              Merge(read.grant[g].expire, ownGrant[g].expire, grant[g].expire)
<1> DEFINE old == read.grant[g]
           new == ownGrant[g]
           row == grant[g]
<1>1. /\ old \in GrantRow /\ new \in GrantRow /\ row \in GrantRow
      /\ grant'[g] = WriteColumns(old, new, row)
  BY CommitRows, Zenon
<1> SUFFICES /\ grant'[g].status = Merge(old.status, new.status, row.status)
             /\ grant'[g].request = Merge(old.request, new.request, row.request)
             /\ grant'[g].expire = Merge(old.expire, new.expire, row.expire)
  OBVIOUS
<1> HIDE DEF old, new, row
<1>2. /\ WriteColumns(old, new, row).status = Merge(old.status, new.status, row.status)
      /\ WriteColumns(old, new, row).request = Merge(old.request, new.request, row.request)
  BY <1>1, GrantColumns DEF Merge
<1>3. WriteColumns(old, new, row).expire = Merge(old.expire, new.expire, row.expire)
  BY <1>1, ExpireColumn
<1> QED
  BY <1>1, <1>2, <1>3

\* A request that was created and is not a renewal that waits stays so, and so
\* does a grant somebody has had access by.
LEMMA CommitWaits ==
  ASSUME OnceInv, Commit, NEW s \in Requests, request[s].status # "Absent", ~Renewing(s)
  PROVE  request'[s].status # "Absent" /\ ~Renewing(s)'
<1>1. TxInv /\ RequestFollows(s) /\ RequestWrites(s) /\ IdUnique(s)
  BY DEF OnceInv, Commit
<1>2. /\ request'[s].status =
           Merge(read.request[s].status, ownRequest[s].status, request[s].status)
      /\ request'[s].source =
           Merge(read.request[s].source, ownRequest[s].source, request[s].source)
  BY <1>1, CommitRequest
<1>3. ~Renews(s)
  BY <1>1 DEF Renews, IdUnique
<1>4. CASE Evaluates(s)
  <2>1. request'[s].source = NoRequest
    BY <1>1, <1>2, <1>4 DEF Evaluates, RequestFollows, Merge
  <2>2. request'[s].status # "Absent"
    BY <1>2, <1>4 DEF Evaluates, Merge
  <2> QED
    BY <2>1, <2>2 DEF Renewing
<1>5. CASE KeepsSource(s) /\ ownRequest[s].status = read.request[s].status
  <2>1. request'[s].status = request[s].status /\ request'[s].source = request[s].source
    BY <1>2, <1>5 DEF KeepsSource, Merge
  <2> QED
    BY <2>1 DEF Renewing
<1>6. CASE ownRequest[s].status \notin {"Absent", "PendingApproval", read.request[s].status}
  BY <1>2, <1>6 DEF Merge, Renewing
<1> QED
  BY <1>1, <1>3, <1>4, <1>5, <1>6 DEF RequestWrites

LEMMA CommitHeld ==
  ASSUME OnceInv, Commit, NEW g \in Grants, grant[g].status \notin Unheld
  PROVE  grant'[g].status \notin Unheld
<1>1. TxInv /\ GrantWrites(g) /\ OneFirstCall /\ FlushInv
  BY DEF OnceInv, TxInv, Commit
<1>2. grant'[g].status = Merge(read.grant[g].status, ownGrant[g].status, grant[g].status)
  BY <1>1, CommitExpire
<1>3. ~Gives(g)
  <2> SUFFICES ASSUME Gives(g) PROVE FALSE
    OBVIOUS
  <2>1. flushed.grant # NoGrant
    BY AccessStateAssumption DEF Gives
  <2>2. grant[g].status = "NotCreated"
    BY <1>1, <2>1 DEF OneFirstCall, Gives, Commit
  <2> QED
    BY <2>2 DEF Unheld
<1>4. ownGrant[g].status \in Unheld => ownGrant[g].status = read.grant[g].status
  BY <1>1, <1>3 DEF GrantWrites, KeepsGrant, Prolongs
<1> QED
  BY <1>2, <1>4 DEF Merge

LEMMA CommitSourceOf ==
  ASSUME OnceInv, Commit, NEW r \in Requests
  PROVE  SourceOf(r)'
<1>1. TxInv /\ SourceOf(r) /\ RequestFollows(r) /\ RequestWrites(r) /\ IdUnique(r)
  BY DEF OnceInv, SourceInv, Commit
<1>2. /\ request'[r].status =
           Merge(read.request[r].status, ownRequest[r].status, request[r].status)
      /\ request'[r].source =
           Merge(read.request[r].source, ownRequest[r].source, request[r].source)
      /\ request'[r].renews =
           Merge(read.request[r].renews, ownRequest[r].renews, request[r].renews)
  BY <1>1, CommitRequest
<1>3. CASE RequestWrites(r) /\ ~Evaluates(r) /\ ~Renews(r)
  <2>1. request'[r].source = request[r].source /\ request'[r].renews = request[r].renews
    BY <1>2, <1>3 DEF RequestWrites, KeepsSource, Merge
  <2>2. request'[r].status = "Absent" => request[r].status = "Absent"
    BY <1>2, <1>3 DEF RequestWrites, Merge
  <2>3. request[r].source # NoRequest => grant'[request[r].renews].status \notin Unheld
    <3>1. request[r] \in RequestRow
      BY <1>1, CommitRows
    <3>2. request[r].source # NoRequest => request[r].renews \in Grants
      BY <1>1, <3>1 DEF SourceOf, RequestRow
    <3> QED
      BY <1>1, <3>2, CommitHeld DEF SourceOf
  <2> QED
    BY <1>1, <2>1, <2>2, <2>3 DEF SourceOf
<1>4. CASE Evaluates(r)
  <2>1. request'[r].source = NoRequest /\ request'[r].renews = NoGrant
    BY <1>1, <1>2, <1>4 DEF Evaluates, RequestFollows, Merge
  <2> QED
    BY <2>1 DEF SourceOf
<1>5. CASE Renews(r)
  <2> PICK g \in Grants, s \in Requests :
        /\ read.grant[g].status \notin Unheld
        /\ ownRequest[r].source = s /\ ownRequest[r].renews = g
    BY <1>5 DEF Renews
  <2>1. s # NoRequest /\ g # NoGrant
    BY AccessStateAssumption
  <2>2. request'[r].source = s /\ request'[r].renews = g
    BY <1>2, <1>5, <2>1 DEF Renews, Merge
  <2>3. request'[r].status = "PendingApproval"
    BY <1>2, <1>5 DEF Renews, Merge
  <2>4. grant[g].status \notin Unheld
    BY DEF OnceInv, Commit, GrantFollows
  <2>5. grant'[g].status \notin Unheld
    BY <2>4, CommitHeld
  <2> QED
    BY <2>1, <2>2, <2>3, <2>5 DEF SourceOf
<1> QED
  BY <1>1, <1>3, <1>4, <1>5

LEMMA CommitNamed ==
  ASSUME OnceInv, Commit, NEW s \in Requests, Named(s)'
  PROVE  request'[s].status # "Absent" /\ ~Renewing(s)'
<1>1. TxInv /\ NamedIsOld(s) /\ RequestFollows(s) /\ FlushInv
  BY DEF OnceInv, TxInv, SourceInv, Commit
<1>2. CASE Named(s)
  BY <1>1, <1>2, CommitWaits DEF NamedIsOld
<1>3. CASE read.request[s].status # "Absent" /\ ~ReadRenewing(s)
  BY <1>1, <1>3, CommitWaits DEF RequestFollows
<1>4. CASE \E g \in Grants : grant'[g].request = s
  <2> PICK g \in Grants : grant'[g].request = s
    BY <1>4
  <2>1. GrantWrites(g)
    BY DEF OnceInv, Commit
  <2>2. grant'[g].request =
          Merge(read.grant[g].request, ownGrant[g].request, grant[g].request)
    BY <1>1, CommitExpire
  <2>3. CASE grant[g].request = s
    BY <1>2, <2>3 DEF Named
  <2>4. CASE grant[g].request # s
    <3>1. ownGrant[g].request = s /\ ~KeepsGrant(g)
      BY <2>2, <2>4 DEF Merge, KeepsGrant
    <3>2. KeepsSource(s) /\ ownRequest[s].status \notin {"Absent", "PendingApproval"}
      BY <2>1, <3>1 DEF GrantWrites
    <3>3. CASE ownRequest[s].status = read.request[s].status
      BY <1>3, <3>2, <3>3 DEF ReadRenewing
    <3>4. CASE ownRequest[s].status # read.request[s].status
      <4>1. request'[s].status = ownRequest[s].status
        BY <1>1, <3>4, CommitRequest DEF Merge
      <4> QED
        BY <3>2, <4>1 DEF Renewing
    <3> QED
      BY <3>3, <3>4
  <2> QED
    BY <2>3, <2>4
<1>5. CASE \E q \in Requests : request'[q].source = s
  <2> PICK q \in Requests : request'[q].source = s
    BY <1>5
  <2>1. RequestWrites(q)
    BY DEF OnceInv, Commit
  <2>2. request'[q].source =
          Merge(read.request[q].source, ownRequest[q].source, request[q].source)
    BY <1>1, CommitRequest
  <2>3. CASE request[q].source = s
    BY <1>2, <2>3 DEF Named
  <2>4. CASE request[q].source # s
    <3>1. ownRequest[q].source = s /\ ~KeepsSource(q)
      BY <2>2, <2>4 DEF Merge, KeepsSource
    <3>2. ~Evaluates(q)
      BY <3>1, AccessStateAssumption DEF Evaluates
    <3>3. Renews(q)
      BY <2>1, <3>1, <3>2 DEF RequestWrites
    <3> QED
      BY <1>3, <3>1, <3>3 DEF Renews
  <2> QED
    BY <2>3, <2>4
<1> QED
  BY <1>4, <1>5 DEF Named

LEMMA CommitSources ==
  ASSUME OnceInv, Commit
  PROVE  SourceInv'
BY CommitSourceOf, CommitNamed DEF SourceInv, NamedIsOld

\* Only the approval of a renewal, and only the first, prolongs a grant.
LEMMA CommitProlongs ==
  ASSUME OnceInv, Commit, NEW g \in Grants, Exists(g), grant'[g].expire # grant[g].expire
  PROVE  \E r \in Requests :
           approval[r].status # "Approved" /\ approval'[r].status = "Approved"
<1>1. TxInv /\ GrantWrites(g) /\ OneFirstCall
  BY DEF OnceInv, TxInv, Commit
<1>2. grant'[g].expire = Merge(read.grant[g].expire, ownGrant[g].expire, grant[g].expire)
  BY <1>1, CommitExpire
<1>3. ~KeepsGrant(g)
  BY <1>2 DEF KeepsGrant, Merge
<1>4. ~Gives(g)
  <2> SUFFICES ASSUME Gives(g) PROVE FALSE
    OBVIOUS
  <2>1. flushed.grant # NoGrant
    BY AccessStateAssumption DEF Gives
  <2> QED
    BY <1>1, <2>1 DEF OneFirstCall, Gives, Commit, Exists
<1> PICK r \in Requests : Prolongs(g, r)
  BY <1>1, <1>3, <1>4 DEF GrantWrites
<1>5. approval'[r].status = "Approved"
  BY <1>1, CommitRequest DEF Prolongs, Merge
<1> QED
  BY <1>5 DEF Prolongs

-----------------------------------------------------------------------------
\* Reading.
LEMMA SameWords ==
  /\ Copy!Renewable = Renewable /\ Copy!Unheld = Unheld
  /\ Copy!Unanswered = Unanswered /\ Copy!Gone = Gone
BY DEF Copy!Renewable, Renewable, Copy!Unheld, Unheld, Copy!Unanswered, Unanswered,
   Copy!Gone, Gone

LEMMA SourcesLoaded ==
  ASSUME SourceInv, ownRequest' = request, ownGrant' = grant
  PROVE  Copy!SourceInv'
BY SameWords, Zenon
DEF SourceInv, SourceOf, NamedIsOld, Named, Renewing, Copy!SourceInv, Copy!SourceOf,
    Copy!NamedIsOld, Copy!Named, Copy!Renewing

LEMMA SourcesKept ==
  ASSUME Copy!SourceInv, UNCHANGED <<ownRequest, ownGrant>>
  PROVE  Copy!SourceInv'
BY Zenon DEF Copy!SourceInv, Copy!SourceOf, Copy!NamedIsOld, Copy!Named, Copy!Renewing

LEMMA SourceInvStays == SourceInv /\ UNCHANGED vars => SourceInv'
BY Zenon DEF vars, SourceInv, SourceOf, NamedIsOld, Named, Renewing

LEMMA RequestFollowed ==
  ASSUME UNCHANGED vars, NEW r \in Requests,
         \/ read'.request[r] = request[r]
         \/ read'.request[r] = read.request[r] /\ RequestFollows(r)
  PROVE  RequestFollows(r)'
BY DEF vars, RequestFollows, ReadRenewing, Renewing

LEMMA GrantFollowed ==
  ASSUME UNCHANGED vars, NEW g \in Grants,
         \/ read'.grant[g] = grant[g]
         \/ read'.grant[g] = read.grant[g] /\ GrantFollows(g)
  PROVE  GrantFollows(g)'
BY DEF vars, GrantFollows

LEMMA BeginOnce ==
  ASSUME OnceInv, TxInv', Begin
  PROVE  OnceInv'
<1>1. /\ UNCHANGED vars /\ phase' \in {"reading", "working"}
      /\ read'.request = request /\ read'.grant = grant
      /\ ownRequest' = request /\ ownApproval' = approval /\ ownGrant' = grant
  BY DEF Begin, Load, Database
<1>2. SourceInv' /\ Copy!SourceInv'
  BY <1>1, SourceInvStays, SourcesLoaded DEF OnceInv
<1>3. /\ \A r \in Requests : RequestFollows(r)'
      /\ \A g \in Grants : GrantFollows(g)'
  BY <1>1, RequestFollowed, GrantFollowed
<1>4. \A r \in Requests : AnswerOf(r)'
  BY <1>1, Zenon DEF vars, AnswerOf, Copy!Renewing
<1> QED
  BY <1>1, <1>2, <1>3, <1>4 DEF OnceInv

LEMMA FlushCallbackOnce ==
  ASSUME OnceInv, TxInv', phase = "reading", UNCHANGED vars, phase' = "calling",
         NEW r \in Requests, NEW k \in Keys, FlushCallback(r, k)
  PROVE  OnceInv'
<1>1. /\ read.request \in [Requests -> RequestRow] /\ request \in [Requests -> RequestRow]
      /\ ownRequest = read.request /\ ownApproval = read.approval
  BY RowFields DEF OnceInv, TxInv, RowInv, TypeInv, ReadInv, LoadedInv, Snapshots, CopyRows
<1>2. /\ flushed'.by = "callback" /\ flushed'.request = r
      /\ read'.request = [request EXCEPT ![r] = read.request[r]] /\ read'.grant = grant
      /\ ownRequest' = read'.request /\ ownGrant' = grant
      /\ ownApproval[r].status \in Unanswered
  <2>1. ownApproval[r].status \in Unanswered
    BY DEF FlushCallback, Own!Processable, Unanswered
  <2> QED
    BY <2>1 DEF FlushCallback, Load, Database
<1>3. SourceInv'
  BY SourceInvStays DEF OnceInv
<1>4. /\ \A q \in Requests : RequestFollows(q)'
      /\ \A g \in Grants : GrantFollows(g)'
  <2>1. \A q \in Requests : RequestFollows(q) /\
          (read'.request[q] = request[q] \/ read'.request[q] = read.request[q])
    BY <1>1, <1>2 DEF OnceInv
  <2> QED
    BY <1>2, <2>1, RequestFollowed, GrantFollowed
<1>5. LateAnswer'
  <2>1. AnswerOf(r)
    BY DEF OnceInv
  <2>2. ownRequest'[r] = ownRequest[r]
    BY <1>1, <1>2
  <2>3. approval[r].status = "Approved" /\ Copy!Renewing(r) => ~CouldExtend(r)
    BY <1>2, <2>1 DEF AnswerOf, Unanswered
  <2> QED
    BY <1>2, <2>2, <2>3, SameWords, Zenon
    DEF LateAnswer, CouldExtend, Copy!Renewing, Copy!Extends, vars
<1> QED
  BY <1>2, <1>3, <1>4, <1>5 DEF OnceInv

LEMMA FlushOthersOnce ==
  ASSUME OnceInv, TxInv', phase = "reading", UNCHANGED vars, phase' = "calling",
         NEW r \in Requests, NEW g \in Grants,
         FlushProvision(r, g) \/ FlushRetry(r, g) \/ ReadApproval(r)
  PROVE  OnceInv'
<1>1. /\ read \in Snapshots /\ ownRequest = read.request /\ ownGrant = read.grant
  BY DEF OnceInv, TxInv, ReadInv, LoadedInv, CopyRows
<1>2. /\ flushed'.by # "callback"
      /\ UNCHANGED <<ownRequest, ownGrant>>
      /\ read'.request = read.request /\ read'.grant = read.grant
  <2>1. CASE FlushProvision(r, g)
    BY <2>1 DEF FlushProvision, own
  <2>2. CASE FlushRetry(r, g)
    <3> DEFINE rows == [read EXCEPT !.session = session]
    <3>1. rows.request = read.request /\ rows.grant = read.grant
      BY <1>1 DEF Snapshots
    <3>2. Load(rows) /\ flushed'.by = "retry"
      BY <2>2 DEF FlushRetry
    <3> HIDE DEF rows
    <3> QED
      BY <1>1, <3>1, <3>2 DEF Load
  <2>3. CASE ReadApproval(r)
    <3> DEFINE rows == [read EXCEPT !.approval = approval]
    <3>1. rows.request = read.request /\ rows.grant = read.grant
      BY <1>1 DEF Snapshots
    <3>2. Load(rows) /\ flushed'.by = "evaluation"
      BY <2>3 DEF ReadApproval
    <3> HIDE DEF rows
    <3> QED
      BY <1>1, <3>1, <3>2 DEF Load
  <2> QED
    BY <2>1, <2>2, <2>3
<1>3. SourceInv' /\ Copy!SourceInv'
  BY <1>2, SourceInvStays, SourcesKept DEF OnceInv
<1>4. /\ \A q \in Requests : RequestFollows(q)'
      /\ \A h \in Grants : GrantFollows(h)'
  BY <1>2, RequestFollowed, GrantFollowed DEF OnceInv
<1> QED
  BY <1>2, <1>3, <1>4 DEF OnceInv

LEMMA FlushOnce ==
  ASSUME OnceInv, TxInv', Flush
  PROVE  OnceInv'
<1>1. phase = "reading" /\ phase' = "calling" /\ UNCHANGED vars
  BY DEF Flush
<1> PICK r \in Requests :
      \/ \E k \in Keys : FlushCallback(r, k)
      \/ \E g \in Grants : FlushProvision(r, g) \/ FlushRetry(r, g)
      \/ ReadApproval(r)
  BY DEF Flush
<1>2. DefaultGrant[r] \in Grants
  BY AccessStateAssumption
<1> QED
  BY <1>1, <1>2, FlushCallbackOnce, FlushOthersOnce

LEMMA RollbackOnce ==
  ASSUME OnceInv, TxInv', Rollback
  PROVE  OnceInv'
BY SourceInvStays DEF Rollback, Close, OnceInv

LEMMA CommitOnce ==
  ASSUME OnceInv, TxInv', Commit
  PROVE  OnceInv'
BY CommitSources DEF Commit, Close, OnceInv

-----------------------------------------------------------------------------
\* Meanwhile another transaction commits.
LEMMA OtherFollows ==
  ASSUME Turns, UNCHANGED read, NEW r \in Requests, RequestFollows(r)
  PROVE  RequestFollows(r)'
<1>1. RequestTurn(r)
  BY DEF Turns
<1>2. CASE RequestLeft(r)
  BY <1>2 DEF RequestLeft, SameSource, RequestFollows, ReadRenewing, Renewing
<1>3. CASE RequestEvaluated(r)
  BY <1>3 DEF RequestEvaluated, RequestFollows, ReadRenewing, Renewing
<1>4. CASE RequestRenewed(r)
  BY <1>4 DEF RequestRenewed, RequestFollows
<1> QED
  BY <1>1, <1>2, <1>3, <1>4 DEF RequestTurn

LEMMA OtherHolds ==
  ASSUME Turns, UNCHANGED read, NEW g \in Grants, GrantFollows(g)
  PROVE  GrantFollows(g)'
BY HeldStays DEF Turns, GrantFollows

\* While its record is unanswered a renewal waits or is gone for good, and its
\* approval leaves nothing to extend.
LEMMA OtherAnswers ==
  ASSUME Turns, TypeOK, SourceInv, Copy!SourceInv, ownRequest \in [Requests -> RequestRow],
         UNCHANGED own, NEW r \in Requests, AnswerOf(r), Copy!Renewing(r),
         ownApproval[r].status \in Unanswered, approval[r].status \in Unanswered
  PROVE  AnswerOf(r)'
<1> DEFINE g == ownRequest[r].renews
           s == ownRequest[r].source
<1>1. /\ RequestTurn(r) /\ ApprovalTurn(r)
      /\ request[r].status \in Gone \cup {"PendingApproval"}
      /\ request[r].source = s /\ request[r].renews = g
      /\ s # NoRequest /\ UNCHANGED <<ownRequest, ownApproval>>
  BY DEF Turns, AnswerOf, Copy!Renewing, own
<1>2. s \in Requests /\ g \in Grants
  <2>1. ownRequest[r] \in RequestRow /\ Copy!SourceOf(r)
    BY DEF Copy!SourceInv
  <2> QED
    BY <1>1, <2>1 DEF RequestRow, Copy!SourceOf
<1>3. s # r
  BY DEF Copy!SourceInv, Copy!NamedIsOld, Copy!Named
<1> HIDE DEF g, s
<1>4. SameSource(r)
  BY <1>1 DEF RequestTurn, RequestLeft, RequestEvaluated, RequestRenewed, Gone
<1>5. CASE approval'[r].status \in Unanswered
  <2>1. request'[r].status \in Gone \cup {"PendingApproval"}
    BY <1>1, <1>5 DEF RequestTurn
  <2> QED
    BY <1>1, <1>4, <1>5, <2>1 DEF AnswerOf, SameSource, g, s
<1>6. CASE approval'[r].status \notin Unanswered
  <2>1. approval'[r].status # "Absent"
    BY <1>1, <1>6 DEF ApprovalTurn, Unanswered, Denials
  <2>2. approval'[r].status = "Approved" => ~Extends(r)'
    BY <1>1, <1>2, <1>3, <1>6, AccessStateAssumption DEF ApprovalTurn, Unanswered, Denials
  <2>3. approval'[r].status = "Approved" => ~CouldExtend(r)'
    BY <1>1, <1>4, <2>2 DEF Extends, CouldExtend, SameSource, g, s
  <2> QED
    BY <1>6, <2>1, <2>3 DEF AnswerOf
<1> QED
  BY <1>5, <1>6

\* Once it is answered the answer stays, and if it was the approval nobody
\* gives the grant back.
LEMMA OtherStaysAnswered ==
  ASSUME Turns, TypeOK, SourceInv, Copy!SourceInv, ownRequest \in [Requests -> RequestRow],
         \A q \in Requests : RequestFollows(q), \A g \in Grants : GrantFollows(g),
         ownRequest = read.request, ownGrant = read.grant,
         UNCHANGED own, NEW r \in Requests, AnswerOf(r), Copy!Renewing(r),
         ownApproval[r].status \in Unanswered, approval[r].status \notin Unanswered
  PROVE  AnswerOf(r)'
<1> DEFINE g == ownRequest[r].renews
           s == ownRequest[r].source
<1>1. /\ ApprovalTurn(r) /\ approval[r].status # "Absent"
      /\ approval[r].status = "Approved" => ~CouldExtend(r)
      /\ s # NoRequest /\ UNCHANGED <<ownRequest, ownApproval>>
  BY DEF Turns, AnswerOf, Copy!Renewing, own
<1>2. Copy!SourceOf(r)
  BY DEF Copy!SourceInv
<1>3. s \in Requests /\ g \in Grants
  <2>1. ownRequest[r] \in RequestRow
    OBVIOUS
  <2> QED
    BY <1>1, <1>2, <2>1 DEF RequestRow, Copy!SourceOf
<1>4. request[r].status # "Absent"
  BY DEF RequestFollows, Copy!Renewing
<1>5. approval'[r].status = approval[r].status
  BY <1>1, <1>4 DEF ApprovalTurn
<1>6. grant[g].status \notin Unheld
  BY <1>1, <1>2, <1>3, SameWords DEF Copy!SourceOf, GrantFollows
<1>7. ~Renewing(s)
  <2>1. ownRequest[s].status # "Absent" /\ ~Copy!Renewing(s)
    BY <1>3 DEF Copy!SourceInv, Copy!NamedIsOld, Copy!Named
  <2> QED
    BY <1>3, <2>1 DEF RequestFollows, ReadRenewing, Copy!Renewing
<1>8. ASSUME approval[r].status = "Approved" PROVE ~CouldExtend(r)'
  <2>1. ~(grant[g].request = s /\ grant[g].status \in Renewable)
    BY <1>1, <1>8 DEF CouldExtend
  <2>2. GrantTurn(g)
    BY <1>3 DEF Turns
  <2> HIDE DEF g, s
  <2>3. ~(grant'[g].request = s /\ grant'[g].status \in Renewable)
    <3>1. CASE GrantLeft(g)
      BY <1>6, <2>1, <3>1 DEF GrantLeft
    <3>2. ~GrantCreated(g)
      BY <1>6 DEF GrantCreated, Exists, Unheld
    <3>3. CASE GrantExtended(g)
      BY <1>7, <3>3 DEF GrantExtended
    <3> QED
      BY <2>2, <3>1, <3>2, <3>3 DEF GrantTurn
  <2> QED
    BY <1>1, <2>3 DEF CouldExtend, g, s
<1> QED
  BY <1>1, <1>5, <1>8 DEF AnswerOf

LEMMA OtherAnswerOf ==
  ASSUME OnceInv, phase = "reading", Turns, UNCHANGED <<own, read>>,
         NEW r \in Requests
  PROVE  AnswerOf(r)'
<1>1. /\ AnswerOf(r) /\ TypeOK /\ SourceInv /\ Copy!SourceInv
      /\ \A q \in Requests : RequestFollows(q)
      /\ \A g \in Grants : GrantFollows(g)
  BY DEF OnceInv, TxInv, RowInv, TypeInv
<1>2. /\ ownRequest = read.request /\ ownGrant = read.grant
      /\ ownRequest \in [Requests -> RequestRow]
  BY DEF OnceInv, TxInv, ReadInv, LoadedInv, CopyRows, Snapshots
<1>3. UNCHANGED <<ownRequest, ownApproval>>
  BY DEF own
<1>4. CASE Copy!Renewing(r) /\ ownApproval[r].status \in Unanswered
  BY <1>1, <1>2, <1>4, OtherAnswers, OtherStaysAnswered
<1>5. CASE ~(Copy!Renewing(r) /\ ownApproval[r].status \in Unanswered)
  BY <1>3, <1>5 DEF AnswerOf, Copy!Renewing
<1> QED
  BY <1>4, <1>5

LEMMA OtherOnce ==
  ASSUME OnceInv, TxInv', Other \/ UNCHANGED txVars
  PROVE  OnceInv'
<1>1. /\ [Next]_vars /\ UNCHANGED <<phase, read, flushed, own>>
      /\ flushed.by = "callback" => approval'[flushed.request] = approval[flushed.request]
      /\ phase = "working" => UNCHANGED vars
  BY DEF Other, openVars, txVars, Unblocked, vars
<1>2. TypeOK /\ Linked /\ SourceInv
  BY DEF OnceInv, TxInv, RowInv, TypeInv
<1>3. Turns /\ SourceInv'
  BY <1>1, <1>2, NextTurns, SourceInvNext
<1>4. /\ \A r \in Requests : RequestFollows(r) => RequestFollows(r)'
      /\ \A g \in Grants : GrantFollows(g) => GrantFollows(g)'
  BY <1>1, <1>3, OtherFollows, OtherHolds
<1>5. Copy!SourceInv => Copy!SourceInv'
  BY <1>1, SourcesKept DEF own
<1>6. phase = "reading" => \A r \in Requests : AnswerOf(r)'
  BY <1>1, <1>3, OtherAnswerOf
<1>7. flushed.by = "callback" /\ LateAnswer => LateAnswer'
  BY <1>1, Zenon DEF own, LateAnswer, Copy!Renewing, Copy!Extends
<1>8. \A r \in Requests : RequestWrites(r) => RequestWrites(r)'
  BY <1>1, Zenon DEF own, RequestWrites, KeepsSource, Evaluates, Renews, ReadRenewing
<1>9. ASSUME NEW g \in Grants, GrantWrites(g) PROVE GrantWrites(g)'
  <2>1. KeepsGrant(g) => KeepsGrant(g)'
    BY <1>1, Zenon DEF own, KeepsGrant
  <2>2. ASSUME NEW r \in Requests, Prolongs(g, r) PROVE Prolongs(g, r)'
    BY <1>1, <2>2, Zenon DEF own, Prolongs
  <2>3. Gives(g) => Gives(g)'
    BY <1>1 DEF Gives
  <2>4. \A r \in Requests : KeepsSource(r) => KeepsSource(r)'
    BY <1>1, Zenon DEF own, KeepsSource
  <2>5. UNCHANGED <<ownGrant, ownRequest>>
    BY <1>1 DEF own
  <2> QED
    BY <1>9, <2>1, <2>2, <2>3, <2>4, <2>5 DEF GrantWrites
<1> QED
  BY <1>1, <1>3, <1>4, <1>5, <1>6, <1>7, <1>8, <1>9 DEF OnceInv

-----------------------------------------------------------------------------
\* Working.
LEMMA WorkTurns ==
  ASSUME OnceInv, Work
  PROVE  /\ Copy!TypeOK /\ Copy!Turns /\ \A g \in Grants : Copy!GrantOK(g)
         /\ phase = "calling" /\ flushed.by = "callback" =>
              \A r \in Requests : Copy!RequestLeft(r)
         /\ \A g \in Grants : ~Copy!Exists(g) /\ Copy!Exists(g)' => Gives(g)
<1>1. /\ ReadInv /\ LoadedInv /\ FlushInv
      /\ \/ phase = "calling" /\ WorkFlushed
         \/ phase = "working" /\ WorkUnflushed
  BY DEF Work, OnceInv, TxInv
<1>2. Copy!TypeOK /\ \A g \in Grants : Copy!GrantOK(g)
  BY <1>1, CopyTyped DEF ReadInv, LoadedInv
<1>3. /\ [Copy!Next]_(Copy!vars)
      /\ \A g \in Grants : ~Copy!Exists(g) /\ Copy!Exists(g)' => Gives(g)
  <2>1. CASE phase = "calling" /\ WorkFlushed
    <3>1. [Copy!Next]_(Copy!vars) /\ \A g \in Grants : Called(g)
      BY <1>1, <2>1, WorkFlushedCalls
    <3> QED
      BY <3>1 DEF Called, Copy!Spared, Gives
  <2>2. CASE phase = "working" /\ WorkUnflushed
    <3>1. flushed = NothingFlushed
      BY <1>1, <2>2 DEF FlushInv
    <3>2. [Copy!Next]_(Copy!vars) /\ \A g \in Grants : Copy!Revokes(g)
      BY <1>1, <2>2, <3>1, WorkUnflushedRevokes
    <3> QED
      BY <3>2 DEF Copy!Revokes, Copy!Spared, Copy!Asked, Copy!Settled
  <2> QED
    BY <1>1, <2>1, <2>2
<1>4. Copy!Turns
  BY <1>2, <1>3, Copy!NextTurns, AccessStateAssumption
<1>5. ASSUME phase = "calling", flushed.by = "callback"
      PROVE  \A r \in Requests : Copy!RequestLeft(r)
  <2>1. Copy!CallbackStep
    BY <1>1, <1>5, CallbackCalls
  <2> QED
    BY <1>2, <2>1, Copy!CallbackLeaves, AccessStateAssumption
<1> QED
  BY <1>2, <1>3, <1>4, <1>5

\* Only a callback approves, and only the renewal it is for.
LEMMA WorkAnswers ==
  ASSUME OnceInv, Work, NEW r \in Requests,
         ownApproval'[r].status = "Approved", ownApproval[r].status # "Approved"
  PROVE  phase = "calling" /\ flushed.by = "callback" /\ flushed.request = r
<1>1. ownApproval \in [Requests -> ApprovalRow]
  BY DEF OnceInv, TxInv, ReadInv, LoadedInv, Work, Snapshots, CopyRows
<1>2. ownApproval'[r] # ownApproval[r] /\ ownApproval'[r].status # "Pending"
  OBVIOUS
<1>3. CASE phase = "working" /\ WorkUnflushed
  <2>1. UNCHANGED ownApproval \/ Own!RenewStep
    BY <1>3 DEF WorkUnflushed, Own!RevokeSession, Own!DisableAgent, Own!RetryRevoke,
       Own!ProcessPendingRevokes, Own!ReconcileGrantLifecycle, Own!CreateRequest
  <2>2. CASE Own!RenewStep
    <3> PICK q \in Requests :
          ownApproval' = [ownApproval EXCEPT ![q] = [status |-> "Pending", key |-> NoKey]]
      BY <2>2 DEF Own!RenewStep, Own!RenewGrant
    <3> QED
      BY <1>1, <1>2
  <2> QED
    BY <1>2, <2>1, <2>2
<1>4. CASE phase = "calling" /\ WorkFlushed
  <2> DEFINE q == flushed.request
             k == flushed.key
  <2>1. CASE flushed.by = "callback"
    <3>1. \E status : ownApproval' = [ownApproval EXCEPT ![q] = [status |-> status, key |-> k]]
      BY <1>4, <2>1
      DEF WorkFlushed, Own!ApproveRequest, Own!ApproveRenewal, Own!DenyRequest,
          Own!FailCallback, Own!RefuseCallback, Own!RecordCallback
    <3>2. r = q
      BY <1>1, <1>2, <3>1
    <3> QED
      BY <1>4, <2>1, <3>2
  <2>2. CASE flushed.by \in {"provision", "retry"}
    <3>1. UNCHANGED ownApproval
      BY <1>4, <2>2 DEF WorkFlushed, Own!ProvisionGrant, Own!RetryProvision
    <3> QED
      BY <1>2, <3>1
  <2>3. CASE flushed.by = "evaluation"
    <3>1. \/ UNCHANGED ownApproval
          \/ ownApproval' = [ownApproval EXCEPT ![q] = [status |-> "Pending", key |-> NoKey]]
      BY <1>4, <2>3
      DEF WorkFlushed, Own!FailEvaluation, Own!EvaluateRequest, Own!SubmitApproval
    <3> QED
      BY <1>1, <1>2, <3>1
  <2> QED
    BY <1>4, <2>1, <2>2, <2>3 DEF WorkFlushed
<1> QED
  BY <1>3, <1>4 DEF Work

LEMMA WorkRequests ==
  ASSUME OnceInv, Work, NEW r \in Requests
  PROVE  RequestWrites(r)'
<1>1. /\ UNCHANGED read /\ Copy!RequestTurn(r)
      /\ ownRequest = read.request /\ ownGrant = read.grant
  BY WorkTurns DEF Work, Copy!Turns, OnceInv, TxInv, LoadedInv, CopyRows
<1>2. CASE Copy!RequestLeft(r)
  <2>1. KeepsSource(r)'
    BY <1>1, <1>2 DEF Copy!RequestLeft, Copy!SameSource, KeepsSource
  <2>2. \/ ownRequest'[r].status = read'.request[r].status
        \/ ownRequest'[r].status \notin {"Absent", "PendingApproval"}
    BY <1>1, <1>2 DEF Copy!RequestLeft
  <2> QED
    BY <2>1, <2>2 DEF RequestWrites
<1>3. CASE Copy!RequestEvaluated(r)
  <2>1. Evaluates(r)'
    BY <1>1, <1>3 DEF Copy!RequestEvaluated, Evaluates
  <2> QED
    BY <2>1 DEF RequestWrites
<1>4. CASE Copy!RequestRenewed(r) /\ ~Copy!RequestLeft(r)
  <2> PICK g \in Grants :
        /\ ownGrant[g].status \in Renewable
        /\ ownRequest'[r].source = ownGrant[g].request /\ ownRequest'[r].renews = g
    BY <1>4, SameWords DEF Copy!RequestRenewed
  <2>1. Copy!SourceInv
    BY <1>4, WorkTurns DEF Work, OnceInv
  <2>2. ownGrant[g].request \in Requests
    <3>1. Copy!GrantOK(g)
      BY WorkTurns
    <3> QED
      BY <3>1 DEF Copy!GrantOK, Copy!Exists, Copy!Held, Renewable
  <2> PICK s \in Requests : s = ownGrant[g].request
    BY <2>2
  <2>3. ownRequest[s].status # "Absent" /\ ~Copy!Renewing(s)
    BY <2>1 DEF Copy!SourceInv, Copy!NamedIsOld, Copy!Named
  <2>4. read'.request[s].status # "Absent" /\ ~ReadRenewing(s)'
    BY <1>1, <2>3 DEF Copy!Renewing, ReadRenewing
  <2>5. /\ read'.request[r].status = "Absent" /\ ownRequest'[r].status = "PendingApproval"
        /\ read'.request[r].source = NoRequest /\ read'.request[r].renews = NoGrant
    BY <1>1, <1>4, <2>1 DEF Copy!RequestRenewed, Copy!SourceInv, Copy!SourceOf
  <2>6. read'.grant[g].status \notin Unheld
    BY <1>1 DEF Renewable, Unheld
  <2>7. Renews(r)'
    BY <2>4, <2>5, <2>6 DEF Renews
  <2> QED
    BY <2>7 DEF RequestWrites
<1> QED
  BY <1>1, <1>2, <1>3, <1>4 DEF Copy!RequestTurn

LEMMA WorkGrants ==
  ASSUME OnceInv, Work, NEW g \in Grants
  PROVE  GrantWrites(g)'
<1>1. /\ UNCHANGED <<vars, read, flushed>> /\ Copy!GrantTurn(g)
      /\ ownRequest = read.request /\ ownGrant = read.grant /\ ownApproval = read.approval
  BY WorkTurns DEF Work, Copy!Turns, OnceInv, TxInv, LoadedInv, CopyRows
<1>2. CASE Copy!GrantLeft(g)
  <2>1. KeepsGrant(g)'
    BY <1>1, <1>2, SameWords DEF Copy!GrantLeft, KeepsGrant
  <2> QED
    BY <2>1 DEF GrantWrites
<1>3. CASE Copy!GrantCreated(g)
  <2>1. Gives(g)
    BY <1>3, WorkTurns DEF Copy!GrantCreated
  <2> PICK r \in Requests :
        /\ ownGrant'[g].request = r
        /\ ownRequest'[r].status \notin {"Absent", "PendingApproval"}
        /\ ownRequest'[r].source = ownRequest[r].source
        /\ ownRequest'[r].renews = ownRequest[r].renews
    BY <1>3 DEF Copy!GrantCreated, Copy!SameSource
  <2>2. KeepsSource(r)' /\ Gives(g)'
    BY <1>1, <2>1 DEF KeepsSource, Gives
  <2> QED
    BY <2>1, <2>2 DEF GrantWrites
<1>4. CASE Copy!GrantExtended(g)
  <2> PICK r \in Requests :
        /\ ownGrant'[g].request = r /\ Copy!Renewing(r)
        /\ ownRequest'[r].source = ownRequest[r].source
        /\ ownRequest'[r].renews = ownRequest[r].renews
        /\ ownRequest[r].renews = g /\ ownRequest[r].source = ownGrant[g].request
        /\ ownGrant[g].status \in Renewable /\ ownGrant'[g].status = "Active"
        /\ ownRequest'[r].status = "Active"
        /\ ownApproval[r].status \in Unanswered /\ ownApproval'[r].status = "Approved"
    BY <1>4, SameWords DEF Copy!GrantExtended, Copy!SameSource
  <2>1. ownApproval[r].status # "Approved"
    BY DEF Unanswered
  <2>2. phase = "calling" /\ flushed.by = "callback" /\ flushed.request = r
    BY <2>1, WorkAnswers
  <2>3. Copy!Extends(r)
    BY SameWords DEF Copy!Extends
  <2>4. approval[r].status # "Approved"
    BY <2>2, <2>3 DEF OnceInv, LateAnswer
  <2>5. KeepsSource(r)'
    BY <1>1 DEF KeepsSource
  <2>6. Prolongs(g, r)'
    BY <1>1, <2>1, <2>2, <2>4 DEF Prolongs, vars, Unheld
  <2> QED
    BY <2>5, <2>6 DEF GrantWrites
<1> QED
  BY <1>1, <1>2, <1>3, <1>4 DEF Copy!GrantTurn

LEMMA WorkOnce ==
  ASSUME OnceInv, TxInv', Work
  PROVE  OnceInv'
<1>1. UNCHANGED <<vars, read>> /\ phase # "idle" /\ phase' = "writing"
  BY DEF Work
<1>2. SourceInv'
  BY <1>1, SourceInvStays DEF OnceInv
<1>3. /\ \A r \in Requests : RequestFollows(r)'
      /\ \A g \in Grants : GrantFollows(g)'
  BY <1>1, RequestFollowed, GrantFollowed DEF OnceInv
<1> QED
  BY <1>1, <1>2, <1>3, WorkRequests, WorkGrants DEF OnceInv

LEMMA OnceInvInit == TransactionsInit => OnceInv
BY TxInvInit, SourceInvInit DEF TransactionsInit, OnceInv

LEMMA OnceInvNext == OnceInv /\ [TransactionsNext]_txVars => OnceInv'
<1> SUFFICES ASSUME OnceInv, [TransactionsNext]_txVars PROVE OnceInv'
  OBVIOUS
<1>1. TxInv'
  BY TxInvNext DEF OnceInv
<1> QED
  BY <1>1, BeginOnce, FlushOnce, WorkOnce, CommitOnce, RollbackOnce, OtherOnce
  DEF TransactionsNext

\* However many callbacks for one renewal overlap, and whatever else changes
\* the grant and the two requests meanwhile, the grant's expiry moves only in
\* a step that turns an approval record to Approved: the record does so once,
\* and whoever commits the answer a second time has not extended the grant.
THEOREM RenewalsExtendOnce == TransactionsSpec => ExtendedOncePerApproval
<1> DEFINE Once(g) ==
      Exists(g) /\ grant'[g].expire > grant[g].expire =>
        \E r \in Requests :
          approval[r].status # "Approved" /\ approval'[r].status = "Approved"
<1>1. ASSUME OnceInv, [TransactionsNext]_txVars PROVE \A g \in Grants : Once(g)
  <2> SUFFICES ASSUME NEW g \in Grants, Exists(g), grant'[g].expire > grant[g].expire
               PROVE  \E r \in Requests :
                        approval[r].status # "Approved" /\ approval'[r].status = "Approved"
    OBVIOUS
  <2>1. TypeOK /\ grant'[g].expire # grant[g].expire
    <3>1. TypeOK
      BY <1>1 DEF OnceInv, TxInv, RowInv, TypeInv
    <3>2. grant[g] \in GrantRow
      BY <3>1, RowFields
    <3>3. grant[g].expire \in Nat
      BY <3>2 DEF GrantRow
    <3> QED
      BY <3>1, <3>3
  <2>2. CASE Commit
    BY <2>1, <2>2, CommitProlongs, <1>1
  <2>3. CASE Other
    <3>1. Turns
      BY <2>1, <2>3, NextTurns DEF Other
    <3>2. GrantExtended(g)
      BY <2>1, <3>1 DEF Turns, GrantTurn, GrantLeft, GrantCreated
    <3> QED
      BY <3>2 DEF GrantExtended, Unanswered
  <2>4. CASE Begin \/ Flush \/ Work \/ Rollback \/ UNCHANGED txVars
    <3>1. UNCHANGED grant
      BY <2>4 DEF Begin, Flush, Work, Rollback, txVars, vars
    <3> QED
      BY <2>1, <3>1
  <2> QED
    BY <1>1, <2>2, <2>3, <2>4 DEF TransactionsNext
<1>2. OnceInv /\ [TransactionsNext]_txVars => [\A g \in Grants : Once(g)]_txVars
  BY <1>1
<1> QED
  BY <1>2, OnceInvInit, OnceInvNext, PTL DEF TransactionsSpec, ExtendedOncePerApproval

-----------------------------------------------------------------------------
(***************************************************************************)
(* First attempts.  That a session is only ever there after an attempt     *)
(* that succeeded is as true of what the open transaction read, since no   *)
(* attempt goes; and of the attempts it adds only the first counts from 0, *)
(* for a grant whose row it holds the lock on.                             *)
(***************************************************************************)
Ordered(tasks) == \A i \in DOMAIN tasks : tasks[i].retry = 0 <=> i = 1

Successful(tasks) == \E i \in DOMAIN tasks : tasks[i].status = "Succeeded"

FirstOf(g) ==
  /\ Exists(g) <=> provisionTasks[g] # <<>>
  /\ Ordered(provisionTasks[g])
  /\ session[g].status # "Absent" \/ ~NoRevokeTask(g) => Successful(provisionTasks[g])

ReadFirst(g) ==
  /\ ReadExists(g) <=> read.provisionTasks[g] # <<>>
  /\ read.session[g].status # "Absent" \/ read.revokeTasks[g] # <<>> =>
       Successful(provisionTasks[g])

\* What it is going to write: no attempt, nor a session that was not there ...
AddsNone(g) ==
  /\ ownProvisionTasks[g] = read.provisionTasks[g]
  /\ Copy!Exists(g) <=> ReadExists(g)
  /\ ownSession[g].status # "Absent" \/ ownRevokeTasks[g] # <<>> =>
       read.session[g].status # "Absent" \/ read.revokeTasks[g] # <<>>

\* ... or one more attempt.
AddsOne(g) ==
  /\ Copy!Exists(g) /\ ownRevokeTasks[g] = read.revokeTasks[g]
  /\ ~ReadExists(g) => flushed.by \in {"callback", "provision"} /\ flushed.grant = g
  /\ \E task \in ProvisionTaskRow :
       /\ ownProvisionTasks[g] = Append(read.provisionTasks[g], task)
       /\ task.retry = 0 <=> ~ReadExists(g)
       /\ ownSession[g].status = read.session[g].status \/ task.status = "Succeeded"

FirstInv ==
  /\ TxInv
  /\ \A g \in Grants :
       /\ FirstOf(g)
       /\ phase # "idle" => ReadFirst(g)
       /\ phase = "writing" => AddsNone(g) \/ AddsOne(g)

LEMMA Appended ==
  ASSUME NEW tasks \in Seq(ProvisionTaskRow), NEW task \in ProvisionTaskRow
  PROVE  LET all == Append(tasks, task) IN
         /\ all \in Seq(ProvisionTaskRow) /\ all # <<>>
         /\ Len(tasks) \in Nat /\ (Len(tasks) = 0 <=> tasks = <<>>)
         /\ DOMAIN tasks = 1 .. Len(tasks) /\ DOMAIN all = 1 .. Len(tasks) + 1
         /\ Len(all) = Len(tasks) + 1 /\ all[Len(tasks) + 1] = task
         /\ \A i \in 1 .. Len(tasks) : all[i] = tasks[i]
BY EmptySeq, LenProperties

LEMMA AppendFirst ==
  ASSUME NEW tasks \in Seq(ProvisionTaskRow), NEW task \in ProvisionTaskRow
  PROVE  /\ Ordered(tasks) /\ (task.retry = 0 <=> tasks = <<>>) => Ordered(Append(tasks, task))
         /\ Successful(tasks) \/ task.status = "Succeeded" => Successful(Append(tasks, task))
<1> DEFINE all == Append(tasks, task)
           n == Len(tasks)
<1>1. /\ n \in Nat /\ (n = 0 <=> tasks = <<>>)
      /\ DOMAIN tasks = 1 .. n /\ DOMAIN all = 1 .. n + 1
      /\ all[n + 1] = task /\ \A i \in 1 .. n : all[i] = tasks[i]
  BY Appended
<1> HIDE DEF all, n
<1>2. ASSUME Ordered(tasks), task.retry = 0 <=> tasks = <<>>
      PROVE  Ordered(all)
  <2> SUFFICES ASSUME NEW i \in 1 .. n + 1 PROVE all[i].retry = 0 <=> i = 1
    BY <1>1 DEF Ordered
  <2>1. CASE i = n + 1
    BY <1>1, <1>2, <2>1
  <2>2. CASE i \in 1 .. n
    BY <1>1, <1>2, <2>2 DEF Ordered
  <2> QED
    BY <1>1, <2>1, <2>2
<1>3. Successful(tasks) => Successful(all)
  BY <1>1 DEF Successful
<1>4. task.status = "Succeeded" => Successful(all)
  BY <1>1 DEF Successful
<1> QED
  BY <1>2, <1>3, <1>4 DEF all

\* What one step of the database makes of it.
LEMMA StepFirst ==
  ASSUME RowInv, NEW g \in Grants, FirstOf(g), Revokes(g) \/ Attempted(g)
  PROVE  /\ FirstOf(g)'
         /\ Successful(provisionTasks[g]) => Successful(provisionTasks[g])'
<1>1. provisionTasks[g] \in Seq(ProvisionTaskRow)
  BY GrantTypes DEF RowInv
<1>2. CASE Attempted(g)
  <2> PICK task \in ProvisionTaskRow :
        /\ provisionTasks'[g] = Append(provisionTasks[g], task)
        /\ task.retry = 0 <=> ~Exists(g)
        /\ session'[g].status = session[g].status \/ task.status = "Succeeded"
    BY <1>2 DEF Attempted
  <2>1. provisionTasks'[g] # <<>>
    BY <1>1, Appended
  <2>2. Exists(g)' /\ revokeTasks'[g] = revokeTasks[g]
    BY <1>2 DEF Attempted
  <2>3. Ordered(provisionTasks'[g])
    BY <1>1, AppendFirst DEF FirstOf
  <2>4. Successful(provisionTasks[g]) \/ task.status = "Succeeded" =>
          Successful(provisionTasks'[g])
    BY <1>1, AppendFirst
  <2> QED
    BY <2>1, <2>2, <2>3, <2>4 DEF FirstOf, NoRevokeTask
<1>3. CASE Revokes(g)
  <2>1. provisionTasks'[g] = provisionTasks[g] /\ (Exists(g)' <=> Exists(g))
    BY <1>3 DEF Revokes, Spared, Asked, Settled
  <2>2. session'[g].status # "Absent" \/ revokeTasks'[g] # <<>> =>
          session[g].status # "Absent" \/ ~NoRevokeTask(g)
    BY <1>3 DEF Revokes, Spared, Asked, Settled, NoRevokeTask
  <2> QED
    BY <2>1, <2>2 DEF FirstOf, NoRevokeTask
<1> QED
  BY <1>2, <1>3

-----------------------------------------------------------------------------
\* Whatever is loaded is of the database, now or when the transaction began.
LEMMA ReadFirstLoaded ==
  ASSUME NEW g \in Grants, FirstOf(g), UNCHANGED vars,
         \/ /\ read'.grant = grant /\ read'.provisionTasks = provisionTasks
            /\ read'.revokeTasks = revokeTasks /\ read'.session = session
         \/ /\ read'.grant = read.grant /\ read'.provisionTasks = read.provisionTasks
            /\ read'.revokeTasks = read.revokeTasks
            /\ read'.session \in {read.session, session}
            /\ ReadFirst(g)
  PROVE  ReadFirst(g)'
BY DEF FirstOf, ReadFirst, ReadExists, Exists, NoRevokeTask, vars

LEMMA FirstStays ==
  ASSUME UNCHANGED vars, NEW g \in Grants, FirstOf(g)
  PROVE  FirstOf(g)'
BY DEF FirstOf, Exists, NoRevokeTask, vars

LEMMA BeginFirst ==
  ASSUME FirstInv, TxInv', Begin
  PROVE  FirstInv'
<1>1. /\ UNCHANGED vars /\ phase' \in {"reading", "working"}
      /\ read'.grant = grant /\ read'.provisionTasks = provisionTasks
      /\ read'.revokeTasks = revokeTasks /\ read'.session = session
  BY DEF Begin, Load, Database
<1> QED
  BY <1>1, FirstStays, ReadFirstLoaded DEF FirstInv

LEMMA FlushFirst ==
  ASSUME FirstInv, TxInv', Flush
  PROVE  FirstInv'
<1>1. phase = "reading" /\ phase' = "calling" /\ UNCHANGED vars
  BY DEF Flush
<1>2. read \in Snapshots
  BY <1>1 DEF FirstInv, TxInv, ReadInv
<1>3. \/ /\ read'.grant = grant /\ read'.provisionTasks = provisionTasks
         /\ read'.revokeTasks = revokeTasks /\ read'.session = session
      \/ /\ read'.grant = read.grant /\ read'.provisionTasks = read.provisionTasks
         /\ read'.revokeTasks = read.revokeTasks
         /\ read'.session \in {read.session, session}
  <2> PICK r \in Requests :
        \/ \E k \in Keys : FlushCallback(r, k)
        \/ \E g \in Grants : FlushProvision(r, g) \/ FlushRetry(r, g)
        \/ ReadApproval(r)
    BY DEF Flush
  <2>1. CASE \E k \in Keys : FlushCallback(r, k)
    <3> DEFINE rows == [Database EXCEPT !.request[r] = read.request[r],
                                        !.approval = read.approval, !.now = read.now]
    <3>1. /\ rows.grant = grant /\ rows.provisionTasks = provisionTasks
          /\ rows.revokeTasks = revokeTasks /\ rows.session = session
      BY DEF Database
    <3>2. read' = rows
      BY <2>1 DEF FlushCallback, Load
    <3> HIDE DEF rows
    <3> QED
      BY <3>1, <3>2
  <2>2. CASE \E g \in Grants : FlushProvision(r, g)
    BY <2>2 DEF FlushProvision
  <2>3. CASE \E g \in Grants : FlushRetry(r, g)
    <3> DEFINE rows == [read EXCEPT !.session = session]
    <3>1. /\ rows.grant = read.grant /\ rows.provisionTasks = read.provisionTasks
          /\ rows.revokeTasks = read.revokeTasks /\ rows.session = session
      BY <1>2 DEF Snapshots
    <3>2. read' = rows
      BY <2>3 DEF FlushRetry, Load
    <3> HIDE DEF rows
    <3> QED
      BY <3>1, <3>2
  <2>4. CASE ReadApproval(r)
    <3> DEFINE rows == [read EXCEPT !.approval = approval]
    <3>1. /\ rows.grant = read.grant /\ rows.provisionTasks = read.provisionTasks
          /\ rows.revokeTasks = read.revokeTasks /\ rows.session = read.session
      BY <1>2 DEF Snapshots
    <3>2. read' = rows
      BY <2>4 DEF ReadApproval, Load
    <3> HIDE DEF rows
    <3> QED
      BY <3>1, <3>2
  <2> QED
    BY <2>1, <2>2, <2>3, <2>4
<1> QED
  BY <1>1, <1>3, FirstStays, ReadFirstLoaded DEF FirstInv

\* Copy's task rows are the rows' type.
LEMMA CopyAttempted ==
  ASSUME NEW g \in Grants, Copy!Attempted(g)
  PROVE  \E task \in ProvisionTaskRow :
           /\ ownProvisionTasks'[g] = Append(ownProvisionTasks[g], task)
           /\ task.retry = 0 <=> ~Copy!Exists(g)
           /\ ownSession'[g].status = ownSession[g].status \/ task.status = "Succeeded"
<1>1. Copy!ProvisionTaskRow = ProvisionTaskRow
  BY Zenon DEF Copy!ProvisionTaskRow, ProvisionTaskRow, Copy!TaskStatus, TaskStatus
<1> QED
  BY <1>1 DEF Copy!Attempted

LEMMA WorkAdds ==
  ASSUME ReadInv, LoadedInv, UNCHANGED <<read, flushed>>, NEW g \in Grants,
         Called(g) \/ Copy!Revokes(g)
  PROVE  AddsNone(g)' \/ AddsOne(g)'
<1>1. /\ ownGrant = read.grant /\ ownSession = read.session
      /\ ownProvisionTasks = read.provisionTasks /\ ownRevokeTasks = read.revokeTasks
  BY CopyTypes
<1>2. ReadExists(g)' <=> Copy!Exists(g)
  BY <1>1 DEF ReadExists, Copy!Exists
<1>3. CASE Copy!Revokes(g)
  <2>1. ownProvisionTasks'[g] = ownProvisionTasks[g] /\ (Copy!Exists(g)' <=> Copy!Exists(g))
    BY <1>3 DEF Copy!Revokes, Copy!Spared, Copy!Asked, Copy!Settled
  <2>2. ownSession'[g].status # "Absent" \/ ownRevokeTasks'[g] # <<>> =>
          ownSession[g].status # "Absent" \/ ownRevokeTasks[g] # <<>>
    BY <1>3 DEF Copy!Revokes, Copy!Spared, Copy!Asked, Copy!Settled, Copy!NoRevokeTask
  <2> QED
    BY <1>1, <1>2, <2>1, <2>2 DEF AddsNone
<1>4. CASE Copy!Attempted(g) /\ ~Copy!Spared(g) /\ Called(g)
  <2>1. /\ Copy!Exists(g)' /\ ownRevokeTasks'[g] = ownRevokeTasks[g]
        /\ ~Copy!Exists(g) => flushed.by \in {"callback", "provision"} /\ flushed.grant = g
    BY <1>4 DEF Copy!Attempted, Called
  <2>2. \E task \in ProvisionTaskRow :
           /\ ownProvisionTasks'[g] = Append(ownProvisionTasks[g], task)
           /\ task.retry = 0 <=> ~Copy!Exists(g)
           /\ ownSession'[g].status = ownSession[g].status \/ task.status = "Succeeded"
    BY <1>4, CopyAttempted
  <2> QED
    BY <1>1, <1>2, <2>1, <2>2 DEF AddsOne
<1> QED
  BY <1>3, <1>4 DEF Called, Copy!Revokes

LEMMA WorkFirst ==
  ASSUME FirstInv, TxInv', Work
  PROVE  FirstInv'
<1>1. /\ phase' = "writing" /\ UNCHANGED <<vars, read, flushed>>
      /\ phase \in {"calling", "working"}
  BY DEF Work
<1>2. ReadInv /\ LoadedInv /\ FlushInv
  BY <1>1 DEF FirstInv, TxInv
<1>3. \A g \in Grants : Called(g) \/ Copy!Revokes(g)
  <2>1. CASE phase = "calling" /\ WorkFlushed
    BY <1>2, <2>1, WorkFlushedCalls
  <2>2. CASE phase = "working" /\ WorkUnflushed
    BY <1>2, <2>2, WorkUnflushedRevokes DEF FlushInv
  <2> QED
    BY <2>1, <2>2 DEF Work
<1>4. \A g \in Grants : AddsNone(g)' \/ AddsOne(g)'
  BY <1>1, <1>2, <1>3, WorkAdds
<1>5. \A g \in Grants : ReadFirst(g) => ReadFirst(g)'
  BY <1>1 DEF ReadFirst, ReadExists, vars
<1> QED
  BY <1>1, <1>4, <1>5, FirstStays DEF FirstInv

LEMMA RollbackFirst ==
  ASSUME FirstInv, TxInv', Rollback
  PROVE  FirstInv'
BY FirstStays DEF Rollback, Close, FirstInv

LEMMA OtherFirst ==
  ASSUME FirstInv, TxInv', Other
  PROVE  FirstInv'
<1>1. UNCHANGED openVars /\ RowInv /\ [Next]_vars
  BY DEF Other, FirstInv, TxInv
<1>2. ASSUME NEW g \in Grants
      PROVE  /\ FirstOf(g)'
             /\ Successful(provisionTasks[g]) => Successful(provisionTasks[g])'
  <2>1. Revokes(g) \/ Attempted(g)
    BY <1>1, RowStep DEF RowInv
  <2> QED
    BY <1>1, <2>1, StepFirst DEF FirstInv
<1>3. ASSUME NEW g \in Grants, ReadFirst(g) PROVE ReadFirst(g)'
  BY <1>1, <1>2, <1>3 DEF ReadFirst, ReadExists, openVars
<1>4. ASSUME NEW g \in Grants, AddsNone(g) \/ AddsOne(g) PROVE AddsNone(g)' \/ AddsOne(g)'
  BY <1>1, <1>4 DEF AddsNone, AddsOne, ReadExists, Copy!Exists, openVars, own
<1> QED
  BY <1>1, <1>2, <1>3, <1>4 DEF FirstInv, openVars

-----------------------------------------------------------------------------
\* The places of the tasks written where those it read are left as they are.
Places(old, new, tasks, all) ==
  /\ Len(all) = Len(tasks) + (Len(new) - Len(old))
  /\ \A i \in 1 .. Len(all) :
       all[i] = IF i <= Len(old) THEN tasks[i]
                ELSE IF i <= Len(new) THEN new[i] ELSE tasks[i - (Len(new) - Len(old))]

LEMMA WrittenPlaces ==
  ASSUME NEW old \in Seq(ProvisionTaskRow), NEW new \in Seq(ProvisionTaskRow),
         NEW tasks \in Seq(ProvisionTaskRow),
         Len(old) <= Len(new), Len(old) <= Len(tasks),
         \A i \in 1 .. Len(old) : new[i] = old[i]
  PROVE  /\ WrittenTasks(old, new, tasks) \in Seq(ProvisionTaskRow)
         /\ Places(old, new, tasks, WrittenTasks(old, new, tasks))
<1>a. ASSUME NEW s \in Seq(ProvisionTaskRow), NEW j \in Nat, j <= Len(s)
      PROVE  /\ SubSeq(s, j + 1, Len(s)) \in Seq(ProvisionTaskRow)
             /\ Len(SubSeq(s, j + 1, Len(s))) = Len(s) - j
             /\ \A i \in 1 .. Len(s) - j : SubSeq(s, j + 1, Len(s))[i] = s[j + i]
  BY <1>a, LastElements
<1>b. ASSUME NEW s \in Seq(ProvisionTaskRow), NEW t \in Seq(ProvisionTaskRow)
      PROVE  /\ s \o t \in Seq(ProvisionTaskRow) /\ Len(s \o t) = Len(s) + Len(t)
             /\ \A i \in 1 .. Len(s) + Len(t) :
                  (s \o t)[i] = IF i <= Len(s) THEN s[i] ELSE t[i - Len(s)]
  BY ConcatProperties
<1> DEFINE updated == [i \in DOMAIN tasks |->
             IF i \in DOMAIN old THEN WriteColumns(old[i], new[i], tasks[i]) ELSE tasks[i]]
           m == Len(old)
           n == Len(new)
           k == Len(tasks)
<1>1. /\ m \in Nat /\ n \in Nat /\ k \in Nat /\ m <= n /\ m <= k
      /\ DOMAIN old = 1 .. m /\ DOMAIN new = 1 .. n /\ DOMAIN tasks = 1 .. k
  BY LenProperties
<1>2. ASSUME NEW row \in ProvisionTaskRow, NEW x PROVE WriteColumns(x, x, row) = row
  BY DEF WriteColumns, ProvisionTaskRow
<1>3. updated = tasks
  <2>1. \A i \in DOMAIN tasks : tasks[i] \in ProvisionTaskRow
    BY <1>1, ElementOfSeq
  <2>2. \A i \in DOMAIN tasks : updated[i] = tasks[i]
    BY <1>1, <1>2, <2>1
  <2>3. tasks = [i \in DOMAIN tasks |-> tasks[i]]
    BY <1>1, LenProperties
  <2> QED
    BY <2>2, <2>3
<1> DEFINE first == SubSeq(tasks, 1, m)
           added == SubSeq(new, m + 1, n)
           last == SubSeq(tasks, m + 1, k)
<1>4. WrittenTasks(old, new, tasks) = (first \o added) \o last
  BY <1>3 DEF WrittenTasks
<1>5. /\ first \in Seq(ProvisionTaskRow) /\ Len(first) = m
      /\ \A i \in 1 .. m : first[i] = tasks[i]
  BY <1>1, FirstElements
<1>6. /\ added \in Seq(ProvisionTaskRow) /\ Len(added) = n - m
      /\ \A i \in 1 .. n - m : added[i] = new[m + i]
  BY <1>a, <1>1, Zenon
<1>7. /\ last \in Seq(ProvisionTaskRow) /\ Len(last) = k - m
      /\ \A i \in 1 .. k - m : last[i] = tasks[m + i]
  BY <1>a, <1>1, Zenon
<1> HIDE DEF first, added, last, updated, m, n, k
<1> DEFINE head == first \o added
           all == head \o last
<1>8. /\ head \in Seq(ProvisionTaskRow) /\ Len(head) = n
      /\ \A i \in 1 .. n : head[i] = IF i <= m THEN first[i] ELSE added[i - m]
  <2>0. /\ head \in Seq(ProvisionTaskRow) /\ Len(head) = Len(first) + Len(added)
        /\ \A i \in 1 .. Len(first) + Len(added) :
             head[i] = IF i <= Len(first) THEN first[i] ELSE added[i - Len(first)]
    BY <1>b, <1>5, <1>6, Zenon
  <2>1. /\ head \in Seq(ProvisionTaskRow) /\ Len(head) = m + (n - m)
        /\ \A i \in 1 .. m + (n - m) : head[i] = IF i <= m THEN first[i] ELSE added[i - m]
    BY <1>5, <1>6, <2>0, Zenon
  <2>2. m + (n - m) = n
    BY <1>1
  <2> QED
    BY <2>1, <2>2
<1> HIDE DEF head
<1>9. /\ all \in Seq(ProvisionTaskRow) /\ Len(all) = n + (k - m)
      /\ \A i \in 1 .. n + (k - m) : all[i] = IF i <= n THEN head[i] ELSE last[i - n]
  <2>1. /\ all \in Seq(ProvisionTaskRow) /\ Len(all) = Len(head) + Len(last)
        /\ \A i \in 1 .. Len(head) + Len(last) :
             all[i] = IF i <= Len(head) THEN head[i] ELSE last[i - Len(head)]
    BY <1>b, <1>7, <1>8, Zenon
  <2> QED
    BY <1>7, <1>8, <2>1, Zenon
<1> HIDE DEF all
<1>10. Len(all) = k + (n - m)
  BY <1>1, <1>9
<1>11. ASSUME NEW i \in 1 .. n + (k - m)
       PROVE  all[i] = IF i <= m THEN tasks[i]
                       ELSE IF i <= n THEN new[i] ELSE tasks[i - (n - m)]
  <2>1. CASE i <= m
    <3>1. i \in 1 .. m /\ i \in 1 .. n /\ i <= n
      BY <1>1, <2>1
    <3>2. all[i] = head[i]
      BY <1>9, <3>1
    <3>3. head[i] = first[i]
      BY <1>8, <2>1, <3>1
    <3> QED
      BY <1>5, <2>1, <3>1, <3>2, <3>3
  <2>2. CASE ~(i <= m) /\ i <= n
    <3>1. i - m \in 1 .. n - m /\ m + (i - m) = i /\ i \in 1 .. n
      BY <1>1, <2>2
    <3>2. all[i] = added[i - m]
      BY <1>8, <1>9, <2>2, <3>1
    <3> QED
      BY <1>6, <2>2, <3>1, <3>2
  <2>3. CASE ~(i <= m) /\ ~(i <= n)
    <3>1. i - n \in 1 .. k - m /\ m + (i - n) = i - (n - m)
      BY <1>1, <2>3
    <3>2. all[i] = last[i - n]
      BY <1>9, <2>3
    <3> QED
      BY <1>7, <2>3, <3>1, <3>2
  <2> QED
    BY <1>1, <2>1, <2>2, <2>3
<1>12. Places(old, new, tasks, all)
  BY <1>9, <1>10, <1>11 DEF Places, m, n, k
<1> QED
  BY <1>4, <1>9, <1>12 DEF all, head

\* No attempt added: the tasks stay as they are.
LEMMA NoneWritten ==
  ASSUME NEW old \in Seq(ProvisionTaskRow), NEW tasks \in Seq(ProvisionTaskRow),
         Len(old) <= Len(tasks)
  PROVE  WrittenTasks(old, old, tasks) = tasks
<1> DEFINE all == WrittenTasks(old, old, tasks)
<1>1. all \in Seq(ProvisionTaskRow) /\ Places(old, old, tasks, all)
  BY WrittenPlaces, LenProperties
<1> HIDE DEF all
<1>2. Len(old) \in Nat /\ Len(tasks) \in Nat
  BY LenProperties
<1>3. Len(all) = Len(tasks) /\ \A i \in 1 .. Len(all) : all[i] = tasks[i]
  BY <1>1, <1>2 DEF Places
<1>4. /\ all = [i \in 1 .. Len(all) |-> all[i]]
      /\ tasks = [i \in 1 .. Len(tasks) |-> tasks[i]]
  BY <1>1, LenProperties
<1> QED
  BY <1>3, <1>4 DEF all

\* One added: it is the first only where there is none.
LEMMA OneWritten ==
  ASSUME NEW old \in Seq(ProvisionTaskRow), NEW tasks \in Seq(ProvisionTaskRow),
         NEW task \in ProvisionTaskRow, Len(old) <= Len(tasks)
  PROVE  LET all == WrittenTasks(old, Append(old, task), tasks) IN
         /\ all # <<>>
         /\ Ordered(tasks) /\ (task.retry = 0 <=> old = <<>>) /\ (old = <<>> => tasks = <<>>) =>
              Ordered(all)
         /\ Successful(tasks) \/ task.status = "Succeeded" => Successful(all)
<1> DEFINE new == Append(old, task)
           all == WrittenTasks(old, new, tasks)
           m == Len(old)
           k == Len(tasks)
<1>1. /\ m \in Nat /\ k \in Nat /\ m <= k
      /\ (m = 0 <=> old = <<>>) /\ (k = 0 <=> tasks = <<>>)
      /\ DOMAIN tasks = 1 .. k
      /\ new \in Seq(ProvisionTaskRow) /\ Len(new) = m + 1 /\ new[m + 1] = task
      /\ \A i \in 1 .. m : new[i] = old[i]
  BY Appended
<1> HIDE DEF new
<1>2. all \in Seq(ProvisionTaskRow) /\ Places(old, new, tasks, all)
  BY <1>1, WrittenPlaces
<1> HIDE DEF all
<1>3. /\ Len(all) = k + 1
      /\ \A i \in 1 .. k + 1 :
           all[i] = IF i <= m THEN tasks[i] ELSE IF i <= m + 1 THEN new[i] ELSE tasks[i - 1]
  <2>1. Len(new) - m = 1
    BY <1>1
  <2> QED
    BY <1>1, <1>2, <2>1 DEF Places
<1>4. DOMAIN all = 1 .. k + 1 /\ all # <<>>
  BY <1>1, <1>2, <1>3, LenProperties, EmptySeq
<1> HIDE DEF m, k
<1>5. all[m + 1] = task /\ m + 1 \in 1 .. k + 1
  BY <1>1, <1>3
<1>6. ASSUME Ordered(tasks), task.retry = 0 <=> old = <<>>, old = <<>> => tasks = <<>>
      PROVE  Ordered(all)
  <2> SUFFICES ASSUME NEW i \in 1 .. k + 1 PROVE all[i].retry = 0 <=> i = 1
    BY <1>4 DEF Ordered
  <2>1. CASE i <= m
    BY <1>1, <1>3, <1>6, <2>1 DEF Ordered
  <2>2. CASE i = m + 1
    BY <1>1, <1>5, <1>6, <2>2
  <2>3. CASE ~(i <= m) /\ i # m + 1
    <3>1. i - 1 \in 1 .. k /\ ~(i <= m + 1) /\ m # 0
      BY <1>1, <1>6, <2>3
    <3>2. all[i] = tasks[i - 1]
      BY <1>3, <2>3, <3>1
    <3>3. i - 1 # 1 /\ i # 1
      BY <1>1, <2>3, <3>1
    <3> QED
      BY <1>1, <1>6, <3>1, <3>2, <3>3 DEF Ordered
  <2> QED
    BY <2>1, <2>2, <2>3
<1>7. ASSUME Successful(tasks) PROVE Successful(all)
  <2> PICK i \in 1 .. k : tasks[i].status = "Succeeded"
    BY <1>1, <1>7 DEF Successful
  <2>1. CASE i <= m
    <3>1. i \in 1 .. k + 1 /\ all[i] = tasks[i]
      BY <1>1, <1>3, <2>1
    <3> QED
      BY <1>4, <3>1 DEF Successful
  <2>2. CASE ~(i <= m)
    <3> DEFINE j == i + 1
    <3>1. j \in 1 .. k + 1 /\ ~(j <= m) /\ ~(j <= m + 1) /\ j - 1 = i
      BY <1>1, <2>2
    <3> HIDE DEF j
    <3>2. all[j] = tasks[i]
      BY <1>3, <3>1
    <3> QED
      BY <1>4, <3>1, <3>2 DEF Successful
  <2> QED
    BY <2>1, <2>2
<1>8. task.status = "Succeeded" => Successful(all)
  BY <1>4, <1>5 DEF Successful
<1> QED
  BY <1>4, <1>6, <1>7, <1>8 DEF all, new

LEMMA CommitFirstOf ==
  ASSUME FirstInv, Commit, NEW g \in Grants
  PROVE  FirstOf(g)'
<1> DEFINE old == read.provisionTasks[g]
           new == ownProvisionTasks[g]
           tasks == provisionTasks[g]
<1>1. /\ TxInv /\ FirstOf(g) /\ ReadFirst(g) /\ (AddsNone(g) \/ AddsOne(g))
      /\ Earlier(g) /\ OneFirstCall
  BY DEF FirstInv, TxInv, ReadInv, Commit
<1>2. old \in Seq(ProvisionTaskRow) /\ tasks \in Seq(ProvisionTaskRow) /\ Len(old) <= Len(tasks)
  BY DEF FirstInv, TxInv, RowInv, TypeInv, TypeOK, ReadInv, Snapshots, Commit, Earlier
<1>3. /\ session'[g].status = IF ownSession[g].status # read.session[g].status
                              THEN ownSession[g].status ELSE session[g].status
      /\ grant'[g].status = IF ownGrant[g].status # read.grant[g].status
                            THEN ownGrant[g].status ELSE grant[g].status
      /\ ownRevokeTasks[g] = <<>> /\ revokeTasks[g] = <<>> => revokeTasks'[g] = <<>>
  BY <1>1, CommitGrant
<1>4. provisionTasks'[g] = WrittenTasks(old, new, tasks)
  BY DEF Commit
<1>5. ReadExists(g) => Exists(g)
  BY <1>1 DEF Earlier
<1> HIDE DEF old, new, tasks
<1>6. CASE AddsNone(g)
  <2>1. provisionTasks'[g] = tasks
    <3>1. new = old
      BY <1>6 DEF AddsNone, old, new
    <3> QED
      BY <1>2, <1>4, <3>1, NoneWritten
  <2>2. Exists(g)' <=> Exists(g)
    BY <1>3, <1>5, <1>6 DEF AddsNone, Exists, ReadExists, Copy!Exists
  <2>3. session'[g].status # "Absent" \/ revokeTasks'[g] # <<>> => Successful(tasks)
    BY <1>1, <1>3, <1>6 DEF AddsNone, FirstOf, ReadFirst, NoRevokeTask, tasks
  <2> QED
    BY <1>1, <2>1, <2>2, <2>3 DEF FirstOf, NoRevokeTask, tasks
<1>7. CASE AddsOne(g)
  <2> PICK task \in ProvisionTaskRow :
        /\ new = Append(old, task)
        /\ task.retry = 0 <=> ~ReadExists(g)
        /\ ownSession[g].status = read.session[g].status \/ task.status = "Succeeded"
    BY <1>7 DEF AddsOne, old, new
  <2>1. ReadExists(g) <=> old # <<>>
    BY <1>1 DEF ReadFirst, old
  <2>2. ~ReadExists(g) => ~Exists(g)
    <3>1. phase = "writing" /\ g # NoGrant
      BY AccessStateAssumption DEF Commit
    <3> QED
      BY <1>1, <1>7, <3>1 DEF AddsOne, OneFirstCall, Exists
  <2>3. old = <<>> => tasks = <<>>
    BY <1>1, <2>1, <2>2 DEF FirstOf, tasks
  <2>4. Ordered(tasks)
    BY <1>1 DEF FirstOf, tasks
  <2>5. /\ provisionTasks'[g] # <<>> /\ Ordered(provisionTasks'[g])
        /\ Successful(tasks) \/ task.status = "Succeeded" => Successful(provisionTasks'[g])
    BY <1>2, <1>4, <2>1, <2>3, <2>4, OneWritten
  <2>6. Exists(g)'
    BY <1>3, <1>5, <1>7 DEF AddsOne, Exists, ReadExists, Copy!Exists
  <2>7. session'[g].status # "Absent" \/ revokeTasks'[g] # <<>> =>
          Successful(tasks) \/ task.status = "Succeeded"
    BY <1>1, <1>3, <1>7 DEF AddsOne, FirstOf, ReadFirst, NoRevokeTask, tasks
  <2> QED
    BY <2>5, <2>6, <2>7 DEF FirstOf, NoRevokeTask
<1> QED
  BY <1>1, <1>6, <1>7

LEMMA FirstInvInit == TransactionsInit => FirstInv
<1> SUFFICES ASSUME TransactionsInit PROVE FirstInv
  OBVIOUS
<1>1. TxInv /\ phase = "idle"
  BY TxInvInit DEF TransactionsInit
<1>2. ASSUME NEW g \in Grants PROVE FirstOf(g)
  <2>1. /\ ~Exists(g) /\ provisionTasks[g] = <<>> /\ NoRevokeTask(g)
        /\ session[g].status = "Absent"
    BY DEF TransactionsInit, Init, AbsentGrant, AbsentSession, Exists, NoRevokeTask
  <2> QED
    BY <2>1 DEF FirstOf, Ordered
<1> QED
  BY <1>1, <1>2 DEF FirstInv

LEMMA FirstInvNext == FirstInv /\ [TransactionsNext]_txVars => FirstInv'
<1> SUFFICES ASSUME FirstInv, [TransactionsNext]_txVars PROVE FirstInv'
  OBVIOUS
<1>1. TxInv'
  BY TxInvNext DEF FirstInv
<1>2. CASE Commit
  <2>1. phase' = "idle"
    BY <1>2 DEF Commit, Close
  <2> QED
    BY <1>1, <1>2, <2>1, CommitFirstOf DEF FirstInv
<1>3. CASE UNCHANGED txVars
  <2>1. UNCHANGED vars /\ UNCHANGED <<own, read>> /\ UNCHANGED <<phase, flushed>>
    BY <1>3 DEF txVars, openVars
  <2>2. \A g \in Grants : ReadFirst(g) => ReadFirst(g)'
    BY <2>1 DEF ReadFirst, ReadExists, vars
  <2>3. \A g \in Grants : AddsNone(g) \/ AddsOne(g) => AddsNone(g)' \/ AddsOne(g)'
    BY <2>1 DEF AddsNone, AddsOne, ReadExists, Copy!Exists, own
  <2> QED
    BY <1>1, <2>1, <2>2, <2>3, FirstStays DEF FirstInv
<1> QED
  BY <1>1, <1>2, <1>3, BeginFirst, FlushFirst, WorkFirst, RollbackFirst, OtherFirst
  DEF TransactionsNext

\* Of any number of first provisionings of one grant that overlap one gets
\* through; the others fail on its row or, if they read it, are retries.
\* Nobody has a session, or a revocation of one, without an attempt that the
\* connector applied.
THEOREM AttemptsBeginOnce == TransactionsSpec => []OneFirstAttempt
<1>1. FirstInv => OneFirstAttempt
  BY DEF FirstInv, FirstOf, OneFirstAttempt, Ordered, Successful
<1> QED
  BY <1>1, FirstInvInit, FirstInvNext, PTL DEF TransactionsSpec

=============================================================================
