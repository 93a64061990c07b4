# Permission governance: a TLA+ model

The repository is a permission self-service: an employee asks an agent for
access in plain text, the request is evaluated and approved, the access is
provisioned through the Feishu connector with an expiry, renewed or reclaimed,
and the session under which the agent acts can be revoked. This directory
models the protocol those steps form over one database, checks it with TLC on
small instances, and proves with TLAPS, for every value of the constants,
the safety properties that the passing runs check, all but one.

## 1. Inventory

| Component | State it keeps | Operations | Interacts with |
| --- | --- | --- | --- |
| `PermissionRequestService`, `PermissionRequestEvaluationService` | `permission_requests` | create, evaluate (also forced, after a failure) | parser and policy engine (results), `ApprovalService` (submission) |
| `ApprovalService` and the callback router | `approval_records`, the request's approval status | submit, callback: approved, denied, failed, refused, duplicate | the approval system (at-least-once callbacks), provisioning, renewal |
| `ProvisioningService` | `access_grants`, connector tasks of type `provision` | provision, forced retry | the connector (called inside the transaction), `SessionAuthority` |
| `SessionAuthority` | `session_contexts`, connector tasks of type `session_revoke`, `agent_identities` | bind, rebind, request revocation (manual, expiry, agent disabled), process pending | the connector; writes grants and requests too |
| `GrantLifecycleService` | expiry of grants, reminders in `notification_tasks` | renew, complete a renewal, reconcile hourly | `SessionAuthority`; writes requests |
| `FailedTaskService` | none of its own | list failed tasks with what can be retried, retry the latest | provisioning, `SessionAuthority` |
| `DelegationService` | `delegation_credentials`, idempotency keys in `audit_records` | create, read (expires), validate (no caller) | users and agents, creation of requests |
| `session_scope`, repositories | the identity map of one transaction | load, flush, commit, roll back | the database: READ COMMITTED, unique keys |
| Policy engine, parser, LLM gateway | none (tables of rules in `config/policy`) | parse a text with an LLM's answer as hint; action, resource, risk, approval route | evaluation |
| Connector, approval adapter | stubs of external systems | provision, revoke, submit | - |
| Audit queries, configuration, web console | none, or read only | list, load, show | - |

Each API handler and worker task is one database session and one transaction.
No component owns its table: the status of one permission is spread over up to
four rows (request, approval, grant, session) and the tasks, and seven handlers
write overlapping parts of it. What is hard:

* *ordering*: a renewal's approval comes after the grant expired, was revoked
  or was renewed by someone else; an approval comes after its agent was disabled;
* *unreliable delivery*: callbacks come twice, late, unreadable, under other keys;
* *retries and their limit*, counted by four entry points;
* *partial failure*: errors swallowed after rows were already changed;
* *re-entry*: a failed request is evaluated again and takes the route to a
  grant a second time;
* *time*: boundaries of "nearing" and "due", sessions that outlive a grant;
* *overlapping transactions* without row locks or versions, and the connector
  call before the commit;
* *authority that runs out*: a delegation is checked when a request is made,
  its expiry recorded when somebody looks.

Correctness, per component: an active session rests on an approved, applied,
unexpired grant held by the same request (sessions, grants, approvals
together); one grant per request and one holder per grant; one open renewal;
an answered approval stays answered; an ended grant or session stays ended;
the retry budget holds; a revocation always has the task that will execute it;
what is due is eventually reclaimed; every request goes back to a delegation of
its user to its agent; and none of it is undone by transactions that overlap,
or the exceptions are known.

## 2. Modules

| Module | Models | Depends on |
| --- | --- | --- |
| `AccessState` | the tables, their row types, `Init`, the clock | - |
| `PermissionRequests` | `CreateRequest`, `EvaluateRequest`, `FailEvaluation` | `AccessState` |
| `Provisioning` | `ProvisionGrant`, `RetryProvision` | `AccessState` |
| `SessionAuthority` | `RevokeSession`, `DisableAgent`, `ProcessPendingRevokes` | `AccessState` |
| `GrantLifecycle` | `RenewGrant`, `ReconcileGrantLifecycle`, completing a renewal | `SessionAuthority` |
| `Approvals` | `ApproveRequest`, `ApproveRenewal`, `DenyRequest`, `FailCallback`, `RefuseCallback` | `Provisioning`, `GrantLifecycle` |
| `FailedTasks` | `RetryRevoke` (a provision task's retry is `RetryProvision`), what the list offers for a retry | `Provisioning`, `SessionAuthority` |
| `AccessSystem` | all of them: `Next`, `Spec`, fairness and the properties | all |
| `AccessRight` | the abstract specification: one right per grant id, offered, in force, ending, ended | - |
| `AccessRights` | the refinement mapping from the tables to the rights | `AccessSystem`, `AccessRight` |
| `AccessTransactions` | one transaction that stays open among atomic ones: `Begin`, `Flush`, `Work`, `Commit`, `Rollback` | `AccessSystem`, twice |
| `Delegations` | `CreateDelegation`, `ReadDelegation`, `SubmitRequest`, their commits, and all other handlers | `AccessSystem` |
| `PolicyRules` | the policy engine for any bundle: action, resource, risk level, approval rule | - |
| `RequestParser` | the parser: the LLM's answer completed from the text | `PolicyRules` |
| `RequestEvaluation` | one evaluation: parsing, then the policy; its properties | `RequestParser` |
| `DeployedPolicy` | the bundle in `config/policy` | - |
| `DocumentedClaims` | statements of docs, comments and assertions the code breaks | `AccessSystem` |
| `MCAccess`, `MCTransactions`, `MCDelegations`, `MCClaims`, `MCEvaluation` | constants, symmetry and constraints for TLC | - |
| `AccessSystem_proofs`, `Revocation_proofs`, `Holding_proofs`, `Steps_proofs` | theorems about the tables: types and row shapes, revocations, who holds a grant, single steps | each the one before it |
| `Rights_proofs` | the refinement of `AccessRight` | `Steps_proofs`, `AccessRights` |
| `Delegations_proofs`, `Transactions_proofs`, `Evaluation_proofs` | theorems about those compositions | `Delegations` and `Holding_proofs`, `AccessTransactions` and `Steps_proofs`, `RequestEvaluation` |

### How state and actions correspond to the code

* `request[r]`, `approval[r]`, `grant[g]`, `session[g]` are rows; "Absent" (or
  `NotCreated`) is a row that does not exist. A request has at most one approval
  record (`submit_approval_for_request` returns an existing one) and a grant at
  most one session (unique index).
* `request[r].source`, `.renews` and `.round` are the `renewal_context` of
  `structured_request_json` and `renew_round`. An evaluation replaces the
  structured request and so loses the context, as the code does.
* `request[r].deliverable` abstracts the resource and action to what
  `_recheck_policy` distinguishes; `duration` is the requested duration in clock
  units.
* `provisionTasks[g]` and `revokeTasks[g]` are the connector tasks of a grant by
  type, oldest first. A task is `Running` only inside a transaction. A retry of a
  provisioning looks at the latest task of either type; `CanRetryProvision` has
  no revoke task and the latest provisioning instead. The two agree: in no state
  of these runs, stale writes included, has a grant that failed to be provisioned
  a revoke task.
* One action is one transaction, with every call it makes that changes state:
  `ApproveRequest` includes the provisioning that the callback router starts,
  `ReconcileGrantLifecycle` goes over all grants, and takes none of them on where
  a record it needs is missing (`RecordsFound`); `ProcessPendingRevokes` goes over
  all open tasks, of which the connector revokes any subset (`done`) and fails the
  others, each with its own trigger; `RetryRevoke` requests and processes in one
  transaction. A grant has more than one open task only after transactions
  overlapped; what the tasks, handled one after the other, then make of its rows
  together is decided by one of them (`Deciding`).
  What the code answers with a state or an error without writing anything is no
  action. Where a router commits on an error (`RefuseCallback`, a failed
  evaluation, an unavailable connector) it is one; where it rolls back
  (`DisableAgent` out of retries) it is not.
* The connector's and the approval system's answers are the choice of the
  action: `ProvisionOutcomes`, `RevokeOutcomes`, the callback's status.
* `AccessTransactions` has every table three times: the committed rows, the rows
  as the open transaction loaded them (`read`), and its own copy
  (SQLAlchemy's identity map), on which the handlers of a second instance of
  `AccessSystem` work. The sessions do not autoflush, no query says FOR UPDATE
  and no row has a version, so a row once loaded is not read again. A
  transaction that calls the connector flushes first, and a flush locks: a
  callback its approval record (its key is unique), a first provisioning the new
  grant row (primary key). What a handler reads only after its flush is loaded
  then; an evaluation flushes nothing, and reads the approval record once the
  LLM has answered. `Commit` writes the columns that differ from what was loaded, as the
  UPDATE does, and fails on a second session for a grant. Request
  ids are generated, so no two creations meet (`IdUnique`); that a request has
  one approval record is a bound of the model (`OneRecord`). What a handler reads
  before its flush, or where it has none, it reads at once in the model, in
  `Begin`; the code reads it in a few queries, one after the other.
  `Rollback` is possible
  at any point, also after the connector has acted. `authorized[g]` is what the
  connector was told last. One open transaction among atomic ones covers every
  overlap of two, because of two transactions the first to commit sees nothing
  change.
* `AccessRights` reads the phase of a right off the grant and its session: a
  grant that expired or is being revoked is "ending" until the connector has
  closed the session.
* In `Delegations` creating a delegation or a request takes two steps, up to
  the commit and the commit, since two calls with one Idempotency-Key may each
  look it up in the audit before the other has committed. `saw` is how much of
  the audit a call had seen. A renewal takes user, agent and delegation from its
  source.
* `RequestEvaluation` looks inside the one result that `EvaluateRequest` leaves
  open. A text is the set of known terms in it; the LLM may answer anything, and
  no answer (none configured, or it failed) is the empty answer. A text may have
  the bare character that makes a read one for reading only ("only"), alone or
  within a term. The policy
  bundle is a constant: the risk rules that apply add up, none of their minimum
  levels is undercut, the approval rule is the first that matches, a condition a rule does not have admits every value.
* Definitions marked `Faulty:` take no part in the specification; each is a
  plausible bug of the definition after it, for which TLC finds the property
  it breaks.

Assumptions of the model: outside `Delegations`, user and delegation are valid
when a request is created; the provider's callback carries the request id it was submitted with;
keys of callbacks are fresh or repeated, and only the last key of a record is
remembered, as in the code; requests may share a default grant id, which is a
truncated hash of the request id (`DefaultGrant` is any function). Without that
the provision endpoint would have nothing to do for the first time: every
approval provisions its request under its default id at once. The approval of a
renewal has a route (submitting it without one is refused): its source was
approved by one and the renewal copies it. The search for an open renewal goes over all
requests, in the code over the latest 200 of the user.
`current_task_state` and texts, which no decision reads, are left out.

## 3. Runs

The runs of `AccessSystem` have one agent; `CHECK_DEADLOCK FALSE` because requests, keys, retries
and the clock are bounded, so that the system may stop.

| Run | Instance | Checks |
| --- | --- | --- |
| `lifecycle` | 2 requests, 1 grant, 3 keys, durations 0 and 2, one retry, time to 3 | `TypeOK`, `SessionBacked`, `RevocationTracked`, `RetryBudget`, `GrantMirrored`, `RemindedOnce`, `RetriesAreOffered`, `RevocationFinal`, `ActivatedByAttempt`, `EndedIsFinal` |
| `renewals` | 3 requests, 1 grant, 3 keys, no retry, time to 2 | `OneOpenRenewal`, `ExtendedByRenewal`, `AnsweredOnce` |
| `two_grants` | 2 requests, 2 grants, 3 keys, one retry, time to 2 | `OneHolder`, `DeniedHoldsNothing`, `OpenApprovalIsAwaited`, the refinement `RightsKept` |
| `liveness` | 2 requests, 1 grant, 2 keys, durations 0 and 1, one retry, time to 1, `ScheduledSpec`, no symmetry | `DueReclaimed`, `DueSessionEnds`, `RevokeSettles` |
| `evaluation` | the deployed bundle, 640 texts, 3 departments (one unknown), 192 LLM answers | `UnreviewedIsHarmless`, `EscalatedWhenRisky`, `CrossingNeverHelps`, `RulesOutrankAnswer`, `ReadOnlyTextReads` |
| `overlap` | 2 requests, 2 grants, 2 keys, duration 1, one retry, time to 1; 1 transaction that stays open, 2 that commit meanwhile | `SessionAuthorized`, `OneFirstAttempt`, `RevocationNotLost`, `LostByRollback`, `ExtendedOncePerApproval` |
| `delegations` | 2 users, 2 delegations, 2 requests, 1 grant, 1 Idempotency-Key, no retry, time to 1 | `DelegationChain`, `KeyReusedInOverlap`, `OnlyRenewedAfterExpiry` |
| `claim_*` | one of the above, smaller | one documented statement each, which TLC refutes |

Why the bounds are enough: with two requests and one grant every conflict over
a grant occurs (two candidates for it, or a holder and its renewal); the third
request of `renewals` gives two renewals of one source and a renewal of a
renewal. In `two_grants` the second grant can only be reached by the provision endpoint. Three keys allow a failed callback, an answer and a duplicate. A budget
of one retry reaches exhaustion. Lead time is 1, so duration 2 has all of
active, expiring and expired and duration 0 is due at once; three ticks let a
grant be announced, renewed and announced again. `MaxTime` bounds the clock and
is the only bound the actions' guards add. Symmetry over requests and keys is
used in the safety runs where the instance treats them alike.

What a property says where the code makes an exception, the property names.
`RetriesAreOffered`: every retry that is accepted is offered; what the list
offers and the services refuse is provisioning for a request whose evaluation
failed since it was approved (`EvaluationFailed`). `LostByRollback`: the connector
is called before the commit, so a crash, or a commit that fails, leaves an
authorization there without a session, which nothing will ever withdraw; this is
the code's behaviour, and the property says that it is the only way to it, not
that it does not happen. `SessionAuthorized` covers the other direction: a
withdrawal whose record is lost leaves no session active. In `liveness` duration
0 makes a grant due before it was ever announced.

In `overlap` the connector and the callbacks interleave in every way with two
commits between a transaction's reads and its own commit: enough for a handler
and its answer (a revocation asked for and processed) to pass unseen. The
constraint `Explored` follows only requests that are within scope and whose
evaluation asks for an approval, and gives the second grant away only before
the clock moves; what it cuts off is in the other runs. In `delegations` its
namesake follows a request until its session is asked to be revoked, since no
later step reads a delegation. Duration, expiry and clock are 1, so that a grant
may outlive the delegation it was obtained under, and be renewed.

The texts of `evaluation` combine every set of words for an action (but not two
terms for reading only that both contain "only") with up to two words for resources, so that every pair of words that contend occurs, among
them one that fits two resources equally; the answers name a known, another or
no resource, every action, a resource type that does not fit, and claims of
department and sensitivity that are too low and too high. A request is
evaluated once, since evaluating keeps no state of its own.

Fairness. Celery beat schedules `worker.grants.lifecycle.reconcile` and nothing
else: `ScheduledSpec` assumes weak fairness of that action only, and
`DueReclaimed` and `DueSessionEnds` hold under it. No code or schedule sends
`worker.sessions.revoke.process_pending`; `RevokeSettles` says so by having its
fairness as a premise. `ExpiryReachesConnector` is refuted under `ScheduledSpec`,
the schedule the repository has.

### Where code and documents disagree

* A request being revoked is Active with a grant that is not; the domain class
  refuses to be built from it, so reading the request, or a page of the list it
  is on, raises (`RequestsReadable`).
* The scheduled task never reaches the connector (`ExpiryReachesConnector`).
* An evaluation waits for the LLM between reading the request and writing its
  status: what commits meanwhile is overwritten. Evaluated twice at once and
  approved, a request that is in force goes back to Failed or PendingApproval
  (`ChangesAreSerial`).
* Two deliveries of one approval that overlap: the second sets the request back
  to Approved (`RedeliveryAdvancesNothing`). If the first one's provisioning had
  failed, the request can then not be retried.
* A request is provisioned although its delegation has expired or does not
  cover its resource type (`ProvisionedUnderDelegation`).
* The exceptions `SessionAuthorized` and `RevocationNotLost` name
  (`Reprovisioned`): a forced retry of a provisioning that overlaps another, which
  succeeds and whose session is then revoked, makes that session active again.
  Also without a lock: a reconciliation or a manual revocation that overlaps the
  end of a revocation writes its older view over RevokeFailed or SyncFailed, and
  two callbacks that overlap with different answers leave the later one. What such an
  overlap leaves can lose the revocation altogether in a second one, which is why
  `RevocationNotLost` speaks of one: a failure then finds a session still
  syncing, whose task it may not retry.
* Seen while modelling, without a run: a provisioning the connector only
  accepted is confirmed by nobody and cannot be retried (state-machine:169); a
  duration too large for a timestamp raises OverflowError, which nobody catches
  (provisioning.py:821; grant_lifecycle.py:775 catches ValueError); a request evaluated again after its
  approval was answered waits for an approval that is not open
  (state-machine:80); an approval after its agent was disabled opens a session
  (prd:364); a request that needs no approval is never taken further
  (state-machine:116); a renewal approved after its grant ended stays Approved
  (the comment at apps/api/approvals.py:145); one session out of retries keeps its
  agent from being disabled (srs:329 says an agent can be disabled on its own;
  only tests call this service method so far). A text that fits two resources
  equally is taken for the one listed first, not for manual review (README:130
  of the repository). The two lists of read-only wordings differ: with
  `不需要修改` and an LLM's answer of `write` the policy suggests a write. No rule
  looks at the duration (srs:408), and `request_edit` has no permission in any
  mapping, so it is always reviewed manually. A renewal moves `expire_at` without
  calling the connector (integration-spec:191 says it is updated there first),
  and a failed revocation of an expired grant leaves it Expired where
  state-machine:302 says RevokeFailed.

## 4. Proofs

The theorems hold for every value of the constants that the modules'
assumptions allow: any sets of requests, grants, agents and keys, any
durations, lead time and retry limit, any bound on the clock, any number of open
and overlapping transactions (`RevocationNotLost` itself speaks of the first
overlap only). Those about the policy hold for every bundle, or
for every bundle that satisfies a named condition.

| Module | Theorems: the property each states |
| --- | --- |
| `AccessSystem_proofs` | `TypeCorrect`: `TypeOK` |
| `Revocation_proofs` | `RevocationStaysTracked`: `RevocationTracked`; `RevocationIsFinal`: `RevocationFinal` |
| `Holding_proofs` | `SessionsAreBacked`, `HolderMirrorsGrant`, `GrantHasOneHolder`, `RenewalsAreExclusive`, `OpenApprovalsAreAwaited`, `DeniedRequestsHoldNothing`, `RetriesStayOffered`: `SessionBacked`, `GrantMirrored`, `OneHolder`, `OneOpenRenewal`, `OpenApprovalIsAwaited`, `DeniedHoldsNothing`, `RetriesAreOffered` |
| `Steps_proofs` | `ApprovalsAreAnsweredOnce`, `EndedRequestsStayEnded`, `OnlyRenewalsExtend`, `OnlyAttemptsActivate`: the action properties `AnsweredOnce`, `EndedIsFinal`, `ExtendedByRenewal`, `ActivatedByAttempt`; `RetriesStayInBudget`: `RetryBudget`; `RemindersAreUnique`: `RemindedOnce` |
| `Rights_proofs` | `RightsAreKept`: the refinement `RightsKept` |
| `Delegations_proofs` | `RequestsAreDelegated`: `DelegationChain`; `ExpiredDelegationsOnlyRenew`: `OnlyRenewedAfterExpiry`; `KeysAreReusedInOverlap`: `KeyReusedInOverlap` |
| `Transactions_proofs` | `OverlapsKeepTypes`: `TypeOK` of the tables when transactions overlap; `SessionsStayAuthorized`: `SessionAuthorized`; `AttemptsBeginOnce`: `OneFirstAttempt`; `RevocationsAreNotLost`: `RevocationNotLost`; `RenewalsExtendOnce`: `ExtendedOncePerApproval` |
| `Evaluation_proofs` | `UnreviewedRequestsAreHarmless`, `RisksAreEscalated`, `AnswersCannotOutrankRules`, `ReadOnlyTextsRead`: `UnreviewedIsHarmless`, `EscalatedWhenRisky`, `RulesOutrankAnswer`, `ReadOnlyTextReads`; `CrossingIsNoHelp`: `CrossingNeverHelps` |

Every invariant and every action property that a passing run checks is stated by
one of these, `LostByRollback` excepted; what is left to TLC is under *Only
model-checked*.

### The argument

*Types.* `TypeOK` is not inductive alone: when a grant changes hands or is
reclaimed the code follows references (`grant.request`, `session.request`, the
latest task), so `TypeInv` adds `Linked`: a grant that has a session or a revoke
task exists, and a grant that exists names a request.

*Revocations.* `RevocationInv` adds `EndingSession` to these and
`RevocationTracked`: once a session was asked to be revoked, its grant is in one
of the ending statuses. Without it reconciliation, which swallows
RETRY_NOT_ALLOWED after having changed the session, could leave a session
syncing without a task; with it, a grant that is due never has a session out of
retries.

*Who holds a grant.* None of the seven invariants of `Holding_proofs` is
inductive alone, so `HoldingInv` has most of them together: a renewal completes
on what the approval says of the request, a revocation is written to the request
that `GrantMirrored` and `OneHolder` make the only one concerned. It adds
`Acting` (an active session and a grant in force imply each other),
`ApprovedHolder` and `RecordOf` (what an approval rests on when an evaluation
has reset the request's own copy of it) and `RenewalOf`: what is known of a
renewal until an evaluation drops its context, in particular that the grant
status it copied from its source keeps it from being provisioned. The proof that
`Next` keeps it goes by the shape of a step rather than by the handler: a request written
without its grant (`RequestWritten`), a provisioning (`Provisioned`), a renewal
completed (`CompletesRenewal`), and grants and sessions that move on together
with their holders (`Moves`, for the handlers that go over many of them).

*Steps.* The action properties are read off the same shapes (`StepAllowed`).
`RetryBudget` follows from its tasks being numbered as they are appended; a new
reminder has the round of the grant's holder, which reminders of earlier rounds
cannot have.

*The refinement.* `Init` maps to `Init` and `NextImplements` maps every step to a
step of `AccessRight` or a stutter: `RightsAdvance` says so of each right, and
that one right at most changes hands. The attempt showed that `PhaseOf` used to
have two arms of a CASE that were both true of a grant without a session, which
TLC resolves by their order; the arms now exclude each other.

*Delegations.* `ChainInv` says of a delegation that it is within its agent's
capability, and of a submission, already before it commits, that its delegation
has been committed. For the Idempotency-Keys `AuditInv` says that a call which has
not committed had looked at the audit before any entry of its key was written.

*Overlapping transactions.* `TxInv` cannot rest on `HoldingInv`, which stale
writes break. It uses what every handler does to single rows whatever the others
say (`RowInv` and the shapes of `AccessSystem_proofs`: a session is spared, asked
to be revoked, settled or attempted). Of the open transaction it says how old
its view may be (`Earlier`, `EarlierSession`: no grant and no task has gone
since, and a session that it read as being revoked is not active now), of what
it is going to write for each grant that it is one of three things: nothing that
counts (`Untouched`), an end (`Ended`) or a first or repeated provisioning (`Bound`).
The longest part shows that `Commit`, which merges its columns and its task lists into the
database, then keeps the types and `SessionAuthorized`. The handlers at work on
the copy are those of `AccessSystem` under a substitution, so its lemmas are used
twice.

*First attempts.* `TxInv` has, as `OneFirstCall`, what the lock on a new row
gives: while a transaction has flushed a grant's row, no other has committed
one. `FirstInv` adds that a revoke
task, too, comes after an attempt that succeeded (`FirstOf`), that this is so of
what the open transaction read, since no attempt goes (`ReadFirst`), and that of
a grant's attempts it is going to write either none and no session that was
not there (`AddsNone`), or one that counts from 0 only for a row it found missing
(`AddsOne`). `WrittenPlaces` says where each task ends up when a commit merges
its own with those committed meanwhile; the new attempt may land between them,
and is the first only where there is none.

*Revocations in one overlap.* `LostInv` adds to `TxInv` what holds until the first
open transaction ends: all others are serial (`Serial`), so the tables satisfy
`HoldingInv` and the tasks' numbering (`BudgetInv`), and so did those it read
(`ReadTracked`; a forced retry, which loads its session again, is the
exception). What it is going to write of a grant's revocation is then one of five
things (`WritesTracked`): it leaves it alone (`Leaves`), settles a task
(`Settles`), opens one (`Opens`), finds no retry left (`GivesUp`) or attempts a
provisioning (`Binds`). `CommitTracks` shows that each, merged with whatever was
committed meanwhile, leaves the revocation tracked: where it gives up, the
budget leaves the others no task to add either. From then on every transaction is
serial again and the weaker `Tracks` is kept for good, from the shapes of single
rows alone (`OtherTracks`), since `HoldingInv` may be broken by then. It says
nothing of a second overlap, which can lose a revocation (section 3).

*Renewals in overlaps.* `OnceInv` adds to `TxInv` what a renewal rests on whatever
stale writes do: the grant that a request renews has been given away, and the
request it renews for is no waiting renewal itself (`SourceInv`). Of the open
transaction it says that what it read of requests and grants is their past
(`RequestFollows`, `GrantFollows`). The crux is a callback that read a renewal as
unanswered and then waited for the lock on the approval record: either the record
is still unanswered and the renewal waits or has left that state for good, or
it was answered and, if approved, the source no longer holds a grant in force
(`AnswerOf`) - so the callback, which reloads the grant but not its answer, finds
nothing to extend (`LateAnswer`). What it will then write of a grant is one of three
things (`GrantWrites`): neither holder nor expiry, a new grant that it has
flushed, or the later expiry of a renewal that nobody has approved yet. All of
it rests on `Turns` in `AccessSystem_proofs`: what a handler may do to the
columns a renewal depends on, used once for the database and once for the copy.
TLC checked `OnceInv` in the bounds of `overlap` before it was proved.

*The policy.* What a bundle needs is a named condition, as weak as the proofs
allow: `GuardedBundle` (the rules that waive the approval are within harmless
reads, and one that catches what has no permission comes before them),
`EscalatingBundle`, and `CrossingBundle` (a resource has one rule, no risk rule
rewards crossing, what is suggested at home meets a rule there, and no route is
longer than those that the same request may be given from elsewhere). Nothing in
the loader checks them; `MCEvaluation` has TLC evaluate all three on the
deployed bundle (`DeployedIsGuarded`). What the loader does check, that scores
are integers and levels are levels, is the assumption `BundleIsLoaded`. `AnswersHaveFields` is the shape of a
parsed answer. `AnswersCannotOutrankRules` and the parts about the level and
the first rule that matches need none of them. `CrossingIsNoHelp` compares two scores, each
a sum over the risk rules that apply. The induction theorems that would give
the sum its meaning are out of reach, so `EverySubset` takes a set of finite sets instead of a
predicate, and from it follow that the fold has a value, may take out any element
first (`SumWithout`) and does not fall when rules with no negative delta join
(`SumGrows`). Hence crossing never lowers the level (`CrossingRaisesLevel`), and with
the first match of each side the route is no shorter (`CrossingKeepsRoute`).

### Only model-checked

* Liveness (`DueReclaimed`, `DueSessionEnds`, `RevokeSettles`): the provers
  handle neither fairness nor `ENABLED`.
* `LostByRollback`, in the bounds of `overlap`.
* What a refuted claim says, of course, and the other components' behaviour that
  the modules only leave open.

## 5. Not modelled, and the plan

The modules were written in the order of the table: first the life of a grant
from request to end, because everything rests on it, then the policy, the
abstract rights, overlapping transactions and delegations; then the proofs, in
the order of section 4. All of the plan is done except what follows.

In `AccessTransactions` any handler may be the transaction that stays open, one
at a time. Two cases are not followed: two evaluations that each submit an
approval record, of which the model has one per request, and two renewals of one
grant that both find none open, for which `overlap` would need a third request.

Left out for good: the web console, audit queries and configuration (no
protocol), the LLM gateway, durations in texts and the loading of policy files
(their failure is `FailEvaluation`), signature checks and payloads, the limits
of 100 and 200 rows on two queries (so `OneOpenRenewal` says nothing of a user
with more than 200 requests), reading the clock more than once in a
transaction.
