--------------------------- MODULE Holding_proofs ---------------------------
(***************************************************************************)
(* Proofs about who holds a grant: the tables of requests, approvals,      *)
(* grants and sessions agree, whatever the handlers do.                    *)
(***************************************************************************)
EXTENDS Revocation_proofs

\* A request that has had access: it is never evaluated or provisioned again.
Lived == {"Active", "Expiring", "Expired", "Revoked"}

\* The session acts exactly while the grant is in force, which the connector
\* applied and the approval of the holder's own row covers.
Acting(g) ==
  /\ session[g].status = "Active" <=> grant[g].status \in Renewable
  /\ grant[g].status = "Revoked" => session[g].status = "Revoked"
  /\ grant[g].status \in Renewable =>
       grant[g].connector = "Applied" /\ request[grant[g].request].approval = "Approved"

\* Holding a grant takes an approval record; the request's own approval is
\* reset when it is evaluated again, and its scope with it, or by an evaluation
\* that failed.
ApprovedHolder(g) ==
  Exists(g) =>
    /\ approval[grant[g].request].status = "Approved"
    /\ request[grant[g].request].approval = "Approved" =>
         request[grant[g].request].deliverable
    /\ request[grant[g].request].status = "Failed" =>
         request[grant[g].request].approval \in {"Approved", "NotRequired"}

\* A request's approval rests on its record, and a new request has none.
RecordOf(r) ==
  /\ request[r].status = "Absent" => approval[r].status = "Absent"
  /\ request[r].approval = "Approved" => approval[r].status = "Approved"

\* A renewal, until an evaluation drops its context: it asks for some time, its
\* source has had access, under the grant it renews and no other, and is one round behind;
\* while the renewal has not, its grant status is the source's at the time it
\* was asked for, so that it can never be provisioned.
RenewalOf(r) ==
  LET source == request[r].source IN
  source # NoRequest =>
    /\ request[r].renews \in Grants /\ request[r].deliverable /\ request[r].duration > 0
    /\ request[r].status # "Absent"
    /\ request[r].status \in Lived \/ request[r].grant \in Renewable
    /\ request[source].status \in Lived
    /\ request[r].round = request[source].round + 1
    /\ \A g \in Grants : grant[g].request = source => request[r].renews = g

GrantParts == \A g \in Grants : Unused(g) /\ Acting(g) /\ ApprovedHolder(g)

RequestParts == \A r \in Requests : RecordOf(r) /\ RenewalOf(r)

(***************************************************************************)
(* The invariant.  None of the properties is inductive alone: a renewal is *)
(* completed on what RenewalOf says of it, a revocation is recorded on the *)
(* request that GrantMirrored and OneHolder say is the only one concerned. *)
(***************************************************************************)
HoldingInv ==
  /\ RevocationInv
  /\ GrantMirrored /\ OneHolder
  /\ OpenApprovalIsAwaited /\ DeniedHoldsNothing
  /\ OneOpenRenewal
  /\ GrantParts /\ RequestParts

HoldsNothing(r) == \A g \in Grants : grant[g].request # r

LEMMA HoldingInvInit == Init => HoldingInv
<1> SUFFICES ASSUME Init PROVE HoldingInv
  OBVIOUS
<1>1. RevocationInv
  BY RevocationInvInit
<1>2. GrantMirrored /\ OneHolder /\ GrantParts
  BY DEF Init, GrantMirrored, OneHolder, GrantParts, Unused, Acting, ApprovedHolder, Exists,
     AbsentGrant, AbsentSession, AbsentRequest, Renewable
<1>3. OpenApprovalIsAwaited /\ DeniedHoldsNothing /\ OneOpenRenewal /\ RequestParts
  BY DEF Init, OpenApprovalIsAwaited, DeniedHoldsNothing, OneOpenRenewal, RequestParts,
     RecordOf, RenewalOf, AbsentRequest, AbsentApproval, Denials
<1> QED
  BY <1>1, <1>2, <1>3 DEF HoldingInv

-----------------------------------------------------------------------------
(***************************************************************************)
(* What the invariant says of one grant, and of one request.               *)
(***************************************************************************)
LEMMA HolderFacts ==
  ASSUME HoldingInv, NEW g \in Grants, Exists(g)
  PROVE  LET r == grant[g].request IN
         /\ r \in Requests /\ r # NoRequest
         /\ request[r].grant = grant[g].status
         /\ request[r].status \in HolderStatuses(grant[g].status)
         /\ session[g].status # "Absent" => session[g].request = r
         /\ approval[r].status = "Approved"
         /\ \A h \in Grants : grant[h].request = r => h = g
<1>1. grant[g].request \in Requests
  BY DEF HoldingInv, GrantMirrored
<1>2. grant[g].request # NoRequest
  BY <1>1, AccessStateAssumption
<1>3. \A h \in Grants : grant[h].request = grant[g].request => Exists(h)
  BY <1>2 DEF HoldingInv, GrantParts, Unused
<1>4. \A h \in Grants : grant[h].request = grant[g].request => h = g
  BY <1>3 DEF HoldingInv, OneHolder
<1> QED
  BY <1>1, <1>2, <1>4 DEF HoldingInv, GrantMirrored, GrantParts, ApprovedHolder

\* A request that is not yet approved for good, or new, holds nothing; one
\* that failed or is evaluated again holds at most what failed to be provisioned.
LEMMA HoldsByStatus ==
  ASSUME HoldingInv, NEW r \in Requests, NEW g \in Grants, grant[g].request = r
  PROVE  /\ Exists(g)
         /\ request[r].status \notin {"Absent", "Submitted", "Approved"}
         /\ request[r].status \in {"Failed", "PendingApproval"} =>
              grant[g].status = "ProvisionFailed"
         /\ approval[r].status = "Approved"
<1>1. Exists(g)
  BY AccessStateAssumption DEF HoldingInv, GrantParts, Unused
<1>2. request[r].status \in HolderStatuses(grant[g].status) /\ approval[r].status = "Approved"
  BY <1>1, HolderFacts
<1>3. grant[g].status \in GrantStatus
  BY DEF HoldingInv, RevocationInv, TypeInv, TypeOK, GrantRow
<1> QED
  BY <1>1, <1>2, <1>3 DEF HolderStatuses, Renewable, GrantStatus

-----------------------------------------------------------------------------
(***************************************************************************)
(* Steps that write one request and its approval record only.              *)
(***************************************************************************)
Early == {"Absent", "Submitted", "PendingApproval", "Approved", "Failed"}

RequestWritten(r) ==
  /\ UNCHANGED <<grant, session>>
  /\ \A q \in Requests \ {r} : request'[q] = request[q] /\ approval'[q] = approval[q]
  /\ request[r].status \in Early /\ request'[r].status \in Early \ {"Absent"}
  \* A holder keeps its failed grant and loses its approval, nothing else.
  /\ \/ HoldsNothing(r)
     \/ /\ request'[r].status \in {"Failed", "PendingApproval"}
        /\ request'[r].grant = request[r].grant
        /\ request'[r].approval # "Approved"
        /\ request'[r].status = "Failed" => request'[r].approval = "NotRequired"
        /\ approval'[r].status = approval[r].status
  /\ request'[r].approval = "Approved" => approval'[r].status = "Approved"
  /\ approval'[r].status \in {"Pending", "CallbackFailed"} =>
       /\ request'[r].status = "PendingApproval"
       /\ request'[r].approval = approval'[r].status
  /\ approval'[r].status \in Denials =>
       HoldsNothing(r) /\ request'[r].status \in {"Failed", "PendingApproval"}
  /\ approval'[r] = approval[r] \/ approval[r].status \in {"Absent", "Pending", "CallbackFailed"}
  /\ request'[r].round = request[r].round \/ request[r].status = "Absent"
  /\ RenewalOf(r)'
  /\ \A q \in Requests \ {r} :
       /\ request'[r].source # NoRequest /\ request'[r].status # "Failed"
       /\ request[q].status # "Failed"
       => request[q].source # request'[r].source

LEMMA RequestWrittenHolding ==
  ASSUME HoldingInv, RevocationInv', NEW r \in Requests, RequestWritten(r)
  PROVE  HoldingInv'
<1> USE DEF RequestWritten
<1>1. GrantMirrored'
  <2> SUFFICES ASSUME NEW g \in Grants, Exists(g)'
               PROVE  (/\ grant[g].request \in Requests
                       /\ request[grant[g].request].grant = grant[g].status
                       /\ request[grant[g].request].status \in HolderStatuses(grant[g].status)
                       /\ session[g].status # "Absent" => session[g].request = grant[g].request)'
    BY DEF GrantMirrored
  <2>1. Exists(g)
    BY DEF Exists
  <2>2. CASE grant[g].request # r
    BY <2>1, <2>2, HolderFacts
  <2>3. CASE grant[g].request = r
    <3>1. grant[g].status = "ProvisionFailed" 
      BY <2>3, HoldsByStatus DEF Early
    <3>2. HolderStatuses("ProvisionFailed") = {"Failed", "PendingApproval"}
      BY Zenon DEF HolderStatuses
    <3> QED
      BY <2>1, <2>3, <3>1, <3>2, HolderFacts DEF HoldsNothing
  <2> QED
    BY <2>2, <2>3
<1>2. OneHolder'
  BY DEF HoldingInv, OneHolder, Exists, Early
<1>3. OpenApprovalIsAwaited' /\ DeniedHoldsNothing'
  BY DEF HoldingInv, OpenApprovalIsAwaited, DeniedHoldsNothing, HoldsNothing
<1>4. OneOpenRenewal'
  <2> SUFFICES ASSUME NEW p \in Requests, NEW q \in Requests, p # q,
                      request'[p].source # NoRequest,
                      request'[p].status # "Failed", request'[q].status # "Failed"
               PROVE  request'[p].source # request'[q].source
    BY DEF OneOpenRenewal
  <2>1. CASE p # r /\ q # r
    BY <2>1 DEF HoldingInv, OneOpenRenewal
  <2>2. CASE p = r
    BY <2>2
  <2>3. CASE q = r
    BY <2>3
  <2> QED
    BY <2>1, <2>2, <2>3
<1>5. GrantParts'
  <2> SUFFICES ASSUME NEW g \in Grants PROVE (Unused(g) /\ Acting(g) /\ ApprovedHolder(g))'
    BY DEF GrantParts
  <2>1. Unused(g) /\ Acting(g) /\ ApprovedHolder(g)
    BY DEF HoldingInv, GrantParts
  <2>2. CASE grant[g].request = r
    <3>1. grant[g].status = "ProvisionFailed" /\ approval[r].status = "Approved"
      BY <2>2, HoldsByStatus DEF Early
    <3> QED
      BY <2>1, <2>2, <3>1 DEF Unused, Acting, ApprovedHolder, Exists, HoldsNothing, Renewable
  <2>3. CASE grant[g].request # r
    <3>1. Exists(g) => grant[g].request \in Requests \ {r}
      BY <2>3, HolderFacts
    <3> QED
      BY <2>1, <3>1 DEF Unused, Acting, ApprovedHolder, Exists, Renewable
  <2> QED
    BY <2>2, <2>3
<1>6. RequestParts'
  <2> SUFFICES ASSUME NEW q \in Requests PROVE (RecordOf(q) /\ RenewalOf(q))'
    BY DEF RequestParts
  <2>1. CASE q = r
    BY <2>1 DEF RecordOf
  <2>2. CASE q # r
    <3>1. RecordOf(q) /\ RenewalOf(q) /\ request'[q] = request[q] /\ approval'[q] = approval[q]
      BY <2>2 DEF HoldingInv, RequestParts
    <3>2. request[q].source # NoRequest => request[q].source \in Requests \ {r}
      BY <3>1 DEF RenewalOf, HoldingInv, RevocationInv, TypeInv, TypeOK, RequestRow, Early, Lived
    <3> QED
      BY <3>1, <3>2 DEF RecordOf, RenewalOf
  <2> QED
    BY <2>1, <2>2
<1> QED
  BY <1>1, <1>2, <1>3, <1>4, <1>5, <1>6 DEF HoldingInv

\* A request and its record have the types of their rows.
LEMMA RowTypes ==
  ASSUME HoldingInv
  PROVE  /\ request \in [Requests -> RequestRow] /\ approval \in [Requests -> ApprovalRow]
         /\ grant \in [Grants -> GrantRow] /\ session \in [Grants -> SessionRow]
         /\ revokeTasks \in [Grants -> Seq(RevokeTaskRow)]
         /\ provisionTasks \in [Grants -> Seq(ProvisionTaskRow)]
         /\ now \in Nat
BY DEF HoldingInv, RevocationInv, TypeInv, TypeOK

\* While a request awaits its approval, its record is not a denial or an
\* approval, and it holds nothing.
LEMMA AwaitedFacts ==
  ASSUME HoldingInv, NEW r \in Requests, NEW k \in Keys, Processable(r, k)
  PROVE  /\ request[r].status = "PendingApproval" /\ HoldsNothing(r)
         /\ request[r].approval = approval[r].status
         /\ approval[r].status \in {"Pending", "CallbackFailed"}
<1>1. approval[r].status \in {"Pending", "CallbackFailed"}
  BY DEF Processable
<1>2. HoldsNothing(r)
  BY <1>1, HoldsByStatus DEF HoldsNothing
<1> QED
  BY <1>1, <1>2 DEF HoldingInv, OpenApprovalIsAwaited

LEMMA AppearsWrites ==
  ASSUME HoldingInv, NEW r \in Requests, Appears(r)
  PROVE  RequestWritten(r)
<1>1. /\ request' = [request EXCEPT ![r] = [request[r] EXCEPT !.status = "Submitted"]]
      /\ UNCHANGED <<approval, grant, session>> /\ request[r].status = "Absent"
  BY RowTypes DEF Appears
<1>2. /\ request'[r].status = "Submitted" /\ request'[r].grant = request[r].grant
      /\ request'[r].approval = request[r].approval /\ request'[r].source = request[r].source
      /\ request'[r].renews = request[r].renews /\ request'[r].round = request[r].round
      /\ request'[r].deliverable = request[r].deliverable
      /\ request'[r].duration = request[r].duration
      /\ \A q \in Requests \ {r} : request'[q] = request[q]
  BY <1>1, RowTypes DEF RequestRow
<1>3. HoldsNothing(r)
  BY <1>1, HoldsByStatus DEF HoldsNothing
<1>4. approval[r].status = "Absent" /\ request[r].approval # "Approved"
  BY <1>1 DEF HoldingInv, RequestParts, RecordOf
<1>5. RenewalOf(r)'
  <2>1. RenewalOf(r)
    BY DEF HoldingInv, RequestParts
  <2>2. request[r].source # NoRequest => request[r].source \in Requests \ {r}
    BY <1>1, <2>1, RowTypes DEF RenewalOf, RequestRow, Lived
  <2> QED
    BY <1>1, <1>2, <2>1, <2>2 DEF RenewalOf, Lived
<1>6. \A q \in Requests \ {r} :
        request'[r].source # NoRequest /\ request[q].status # "Failed"
        => request[q].source # request'[r].source
  BY <1>1, <1>2 DEF HoldingInv, OneOpenRenewal
<1> QED
  BY <1>1, <1>2, <1>3, <1>4, <1>5, <1>6 DEF RequestWritten, Early, Denials

LEMMA EvaluateWrites ==
  ASSUME HoldingInv, NEW r \in Requests, NEW force \in BOOLEAN,
         NEW required \in BOOLEAN, NEW deliverable \in BOOLEAN, NEW duration \in Durations,
         EvaluateRequest(r, force, required, deliverable, duration)
  PROVE  RequestWritten(r)
<1>1. /\ request[r].status \in {"Submitted", "Failed"} /\ UNCHANGED <<grant, session>>
      /\ request' = [request EXCEPT
           ![r] = EvaluatedRequest(request[r], required, deliverable, duration)]
  BY RowTypes DEF EvaluateRequest, CanStartEvaluation
<1>2. /\ request'[r].status = "PendingApproval" /\ request'[r].grant = request[r].grant
      /\ request'[r].approval = (IF required THEN "Pending" ELSE "NotRequired")
      /\ request'[r].source = NoRequest /\ request'[r].round = request[r].round
      /\ \A q \in Requests \ {r} : request'[q] = request[q]
  BY <1>1, RowTypes DEF EvaluatedRequest, RequestRow
<1>3. /\ \A q \in Requests \ {r} : approval'[q] = approval[q]
      /\ \/ approval'[r] = approval[r]
         \/ required /\ approval[r].status = "Absent" /\ approval'[r].status = "Pending"
  BY RowTypes DEF EvaluateRequest, SubmitApproval
<1>4. HoldsNothing(r) \/ approval'[r] = approval[r]
  BY <1>3, HoldsByStatus DEF HoldsNothing
<1>5. approval[r].status \notin {"Pending", "CallbackFailed"}
  BY <1>1 DEF HoldingInv, OpenApprovalIsAwaited
<1>6. approval'[r].status \in Denials => HoldsNothing(r)
  BY <1>3 DEF HoldingInv, DeniedHoldsNothing, HoldsNothing, Denials
<1>7. RenewalOf(r)'
  BY <1>2 DEF RenewalOf
<1> QED
  BY <1>1, <1>2, <1>3, <1>4, <1>5, <1>6, <1>7 DEF RequestWritten, Early

LEMMA FailEvaluationWrites ==
  ASSUME HoldingInv, NEW r \in Requests, NEW force \in BOOLEAN,
         FailEvaluation(r, force)
  PROVE  RequestWritten(r)
<1>1. /\ request[r].status \in {"Submitted", "Failed"} /\ UNCHANGED <<approval, grant, session>>
      /\ request' = [request EXCEPT
           ![r] = [request[r] EXCEPT !.status = "Failed", !.approval = "NotRequired"]]
  BY RowTypes DEF FailEvaluation, CanStartEvaluation
<1>2. /\ request'[r].status = "Failed" /\ request'[r].approval = "NotRequired"
      /\ request'[r].grant = request[r].grant /\ request'[r].source = request[r].source
      /\ request'[r].renews = request[r].renews /\ request'[r].round = request[r].round
      /\ request'[r].deliverable = request[r].deliverable
      /\ request'[r].duration = request[r].duration
      /\ \A q \in Requests \ {r} : request'[q] = request[q]
  BY <1>1, RowTypes DEF RequestRow
<1>3. approval[r].status \notin {"Pending", "CallbackFailed"}
  BY <1>1 DEF HoldingInv, OpenApprovalIsAwaited
<1>4. approval[r].status \in Denials => HoldsNothing(r)
  BY DEF HoldingInv, DeniedHoldsNothing, HoldsNothing
<1>5. RenewalOf(r)'
  <2>1. RenewalOf(r)
    BY DEF HoldingInv, RequestParts
  <2>2. request[r].source # NoRequest => request[r].source \in Requests \ {r}
    BY <1>1, <2>1, RowTypes DEF RenewalOf, RequestRow, Lived
  <2> QED
    BY <1>1, <1>2, <2>1, <2>2 DEF RenewalOf, Lived
<1> QED
  BY <1>1, <1>2, <1>3, <1>4, <1>5 DEF RequestWritten, Early

\* The context of a renewal that awaits its approval outlasts a callback that
\* neither completes nor provisions anything.
LEMMA AwaitingRenewalKept ==
  ASSUME HoldingInv, NEW r \in Requests, request[r].status = "PendingApproval",
         UNCHANGED grant, \A q \in Requests \ {r} : request'[q] = request[q],
         request'[r].status \in Early \ {"Absent"},
         request'[r].grant = request[r].grant, request'[r].source = request[r].source,
         request'[r].renews = request[r].renews, request'[r].round = request[r].round,
         request'[r].deliverable = request[r].deliverable,
         request'[r].duration = request[r].duration
  PROVE  /\ RenewalOf(r)'
         /\ \A q \in Requests \ {r} :
              request'[r].source # NoRequest /\ request[q].status # "Failed"
              => request[q].source # request'[r].source
<1>1. RenewalOf(r)
  BY DEF HoldingInv, RequestParts
<1>2. request[r].source # NoRequest => request[r].source \in Requests \ {r}
  BY <1>1, RowTypes DEF RenewalOf, RequestRow, Lived
<1>3. RenewalOf(r)'
  BY <1>1, <1>2 DEF RenewalOf, Lived
<1>4. \A q \in Requests \ {r} :
        request'[r].source # NoRequest /\ request[q].status # "Failed"
        => request[q].source # request'[r].source
  BY DEF HoldingInv, OneOpenRenewal
<1> QED
  BY <1>3, <1>4

LEMMA DenyWrites ==
  ASSUME HoldingInv, NEW r \in Requests, NEW k \in Keys,
         NEW status \in Denials, DenyRequest(r, k, status)
  PROVE  RequestWritten(r)
<1>1. /\ request[r].status = "PendingApproval" /\ HoldsNothing(r)
      /\ approval[r].status \in {"Pending", "CallbackFailed"}
      /\ UNCHANGED <<grant, session>>
      /\ request' = [request EXCEPT
           ![r] = [request[r] EXCEPT !.approval = status, !.status = "Failed"]]
      /\ approval' = [approval EXCEPT ![r] = [status |-> status, key |-> k]]
  BY RowTypes, AwaitedFacts DEF DenyRequest, Awaited, RecordCallback
<1>2. /\ request'[r].status = "Failed" /\ request'[r].approval = status
      /\ request'[r].grant = request[r].grant /\ request'[r].source = request[r].source
      /\ request'[r].renews = request[r].renews /\ request'[r].round = request[r].round
      /\ request'[r].deliverable = request[r].deliverable
      /\ request'[r].duration = request[r].duration
      /\ approval'[r].status = status
      /\ \A q \in Requests \ {r} : request'[q] = request[q] /\ approval'[q] = approval[q]
  BY <1>1, RowTypes DEF RequestRow
<1>3. RenewalOf(r)'
  BY <1>1, <1>2, AwaitingRenewalKept DEF Early
<1> QED
  BY <1>1, <1>2, <1>3 DEF RequestWritten, Early, Denials

LEMMA FailCallbackWrites ==
  ASSUME HoldingInv, NEW r \in Requests, NEW k \in Keys, FailCallback(r, k)
  PROVE  RequestWritten(r)
<1>1. /\ request[r].status = "PendingApproval" /\ HoldsNothing(r)
      /\ approval[r].status \in {"Pending", "CallbackFailed"}
      /\ UNCHANGED <<grant, session>>
      /\ request' = [request EXCEPT ![r] = [request[r] EXCEPT !.approval = "CallbackFailed"]]
      /\ approval' = [approval EXCEPT ![r] = [status |-> "CallbackFailed", key |-> k]]
  BY RowTypes, AwaitedFacts DEF FailCallback, RecordCallback
<1>2. /\ request'[r].status = "PendingApproval" /\ request'[r].approval = "CallbackFailed"
      /\ request'[r].grant = request[r].grant /\ request'[r].source = request[r].source
      /\ request'[r].renews = request[r].renews /\ request'[r].round = request[r].round
      /\ request'[r].deliverable = request[r].deliverable
      /\ request'[r].duration = request[r].duration
      /\ approval'[r].status = "CallbackFailed"
      /\ \A q \in Requests \ {r} : request'[q] = request[q] /\ approval'[q] = approval[q]
  BY <1>1, RowTypes DEF RequestRow
<1>3. /\ RenewalOf(r)'
      /\ \A q \in Requests \ {r} :
           request'[r].source # NoRequest /\ request[q].status # "Failed"
           => request[q].source # request'[r].source
  BY <1>1, <1>2, AwaitingRenewalKept DEF Early
<1> QED
  BY <1>1, <1>2, <1>3 DEF RequestWritten, Early, Denials

LEMMA RefuseCallbackWrites ==
  ASSUME HoldingInv, NEW r \in Requests, NEW k \in Keys, RefuseCallback(r, k)
  PROVE  RequestWritten(r)
<1>1. /\ request[r].status = "PendingApproval" /\ HoldsNothing(r)
      /\ request[r].approval = approval[r].status
      /\ approval[r].status \in {"Pending", "CallbackFailed"}
      /\ UNCHANGED <<request, grant, session>>
      /\ approval' = [approval EXCEPT ![r] = [status |-> approval[r].status, key |-> k]]
  BY RowTypes, AwaitedFacts DEF RefuseCallback, RecordCallback
<1>2. /\ approval'[r].status = approval[r].status
      /\ \A q \in Requests \ {r} : approval'[q] = approval[q]
  BY <1>1, RowTypes
<1>3. /\ RenewalOf(r)'
      /\ \A q \in Requests \ {r} :
           request'[r].source # NoRequest /\ request[q].status # "Failed"
           => request[q].source # request'[r].source
  BY <1>1, AwaitingRenewalKept DEF Early
<1> QED
  BY <1>1, <1>2, <1>3 DEF RequestWritten, Early, Denials

\* An approval that neither provisions nor renews: the request stays Approved.
LEMMA ApprovedOnlyWrites ==
  ASSUME HoldingInv, NEW r \in Requests, NEW k \in Keys, Awaited(r, k),
         RecordCallback(r, k, "Approved"), request' = [request EXCEPT ![r] = ApprovedRow(r)],
         UNCHANGED <<grant, session>>
  PROVE  RequestWritten(r)
<1>1. /\ request[r].status = "PendingApproval" /\ HoldsNothing(r)
      /\ approval[r].status \in {"Pending", "CallbackFailed"}
  BY AwaitedFacts DEF Awaited
<1>2. /\ request'[r].status = "Approved" /\ request'[r].approval = "Approved"
      /\ request'[r].grant = request[r].grant /\ request'[r].source = request[r].source
      /\ request'[r].renews = request[r].renews /\ request'[r].round = request[r].round
      /\ request'[r].deliverable = request[r].deliverable
      /\ request'[r].duration = request[r].duration
      /\ approval'[r].status = "Approved"
      /\ \A q \in Requests \ {r} : request'[q] = request[q] /\ approval'[q] = approval[q]
  BY RowTypes DEF ApprovedRow, RequestRow, RecordCallback
<1>3. /\ RenewalOf(r)'
      /\ \A q \in Requests \ {r} :
           request'[r].source # NoRequest /\ request[q].status # "Failed"
           => request[q].source # request'[r].source
  BY <1>1, <1>2, AwaitingRenewalKept DEF Early
<1> QED
  BY <1>1, <1>2, <1>3 DEF RequestWritten, Early, Denials

\* A new renewal.  Any other of the same source would have been found by
\* RenewalOpen, which compares the round and the grant as well.
LEMMA RenewWrites ==
  ASSUME HoldingInv, NEW r \in Requests, NEW g \in Grants,
         NEW duration \in Durations, RenewGrant(r, g, duration)
  PROVE  RequestWritten(r)
<1> DEFINE s == grant[g].request
<1>1. /\ request[r].status = "Absent" /\ grant[g].status \in Renewable
      /\ UNCHANGED <<grant, session>> /\ Exists(g)
  BY DEF RenewGrant, Renewable, Exists
<1>2. /\ request'[r].status = "PendingApproval" /\ request'[r].approval = "Pending"
      /\ request'[r].grant = grant[g].status /\ request'[r].source = s
      /\ request'[r].renews = g /\ request'[r].round = request[s].round + 1
      /\ request'[r].deliverable = request[s].deliverable /\ request'[r].duration > 0
      /\ approval'[r].status = "Pending"
      /\ \A q \in Requests \ {r} : request'[q] = request[q] /\ approval'[q] = approval[q]
  BY RowTypes DEF RenewGrant, RenewalRequest
<1>3. /\ s \in Requests /\ s # r /\ request[s].status = grant[g].status
      /\ \A h \in Grants : grant[h].request = s => h = g
  BY <1>1, HolderFacts DEF HolderStatuses, Renewable
<1>4. request[s].deliverable
  BY <1>1 DEF HoldingInv, GrantParts, Acting, ApprovedHolder
<1>5. HoldsNothing(r) /\ approval[r].status = "Absent"
  BY <1>1, HoldsByStatus DEF HoldsNothing, HoldingInv, RequestParts, RecordOf
<1>6. RenewalOf(r)'
  BY <1>1, <1>2, <1>3, <1>4 DEF RenewalOf, Renewable, Lived
<1>7. ASSUME NEW q \in Requests \ {r}, request[q].status # "Failed"
      PROVE  request[q].source # s
  <2> SUFFICES ASSUME request[q].source = s PROVE FALSE
    OBVIOUS
  <2>1. RenewalOf(q) /\ s # NoRequest
    BY <1>3, AccessStateAssumption DEF HoldingInv, RequestParts
  <2>2. request[q].round = request[s].round + 1 /\ request[q].renews = g
    BY <1>1, <2>1 DEF RenewalOf
  <2>3. request[q].status # "Absent"
    BY <2>1 DEF RenewalOf
  <2> QED
    BY <1>7, <2>2, <2>3 DEF RenewGrant, RenewalOpen
<1> QED
  BY <1>1, <1>2, <1>5, <1>6, <1>7 DEF RequestWritten, Early, Denials

-----------------------------------------------------------------------------
(***************************************************************************)
(* Steps that provision: one request takes a grant, or tries again with    *)
(* the one it holds.                                                       *)
(***************************************************************************)
LEMMA OutcomeStatuses ==
  ASSUME NEW outcome \in ProvisionOutcomes
  PROVE  \/ /\ outcome = "Applied" /\ ConnectorStatusAfter(outcome) = "Applied"
            /\ GrantStatusAfter(outcome) = "Active"
            /\ RequestStatusAfter(outcome) = "Active"
         \/ /\ outcome = "Accepted"
            /\ GrantStatusAfter(outcome) = "Provisioning"
            /\ RequestStatusAfter(outcome) = "Provisioning"
         \/ /\ outcome \notin {"Applied", "Accepted"}
            /\ GrantStatusAfter(outcome) = "ProvisionFailed"
            /\ RequestStatusAfter(outcome) = "Failed"
BY DEF ProvisionOutcomes, ConnectorStatusAfter, GrantStatusAfter, RequestStatusAfter

\* The request statuses GrantMirrored admits, without its CASE.
LEMMA HolderStatusesOf ==
  ASSUME NEW status
  PROVE  /\ status = "ProvisionFailed" => HolderStatuses(status) = {"Failed", "PendingApproval"}
         /\ status \in {"Revoking", "RevokeFailed"} => HolderStatuses(status) = Renewable
         /\ status \notin {"ProvisionFailed", "Revoking", "RevokeFailed"} =>
              HolderStatuses(status) = {status}
<1>1. status = "ProvisionFailed" => HolderStatuses(status) = {"Failed", "PendingApproval"}
  BY Zenon DEF HolderStatuses
<1>2. status \in {"Revoking", "RevokeFailed"} => HolderStatuses(status) = Renewable
  BY DEF HolderStatuses
<1>3. status \notin {"ProvisionFailed", "Revoking", "RevokeFailed"} =>
        HolderStatuses(status) = {status}
  BY DEF HolderStatuses
<1> QED
  BY <1>1, <1>2, <1>3

\* A grant that was not provisioned yet, or in vain, has no session.
LEMMA NoSessionYet ==
  ASSUME HoldingInv, NEW g \in Grants, grant[g].status \in {"NotCreated", "ProvisionFailed"}
  PROVE  session[g].status = "Absent"
<1>1. session[g].status # "Active"
  BY DEF HoldingInv, GrantParts, Acting, Renewable
<1>2. session[g].status \in {"Absent", "Active"}
  BY DEF HoldingInv, RevocationInv, EndingSession, Ending
<1> QED
  BY <1>1, <1>2

Provisioned(r, g, expire, retry, outcome) ==
  /\ ProvisionEffect(r, g, expire, retry, outcome)
  /\ \A q \in Requests \ {r} : request'[q] = request[q] /\ approval'[q] = approval[q]
  /\ request[r].status \in Early
  /\ \/ grant[g].status = "NotCreated" /\ HoldsNothing(r)
     \/ /\ grant[g].status = "ProvisionFailed" /\ grant[g].request = r
        /\ expire = grant[g].expire
  /\ request'[r].status = RequestStatusAfter(outcome)
  /\ request'[r].grant = GrantStatusAfter(outcome)
  /\ request'[r].approval = "Approved" /\ approval'[r].status = "Approved"
  /\ approval'[r] = approval[r] \/ approval[r].status \in {"Pending", "CallbackFailed"}
  /\ request'[r].source = NoRequest /\ request'[r].deliverable
  /\ request'[r].round = request[r].round

LEMMA ProvisionedHolding ==
  ASSUME HoldingInv, RevocationInv', NEW r \in Requests, NEW g \in Grants,
         NEW expire, NEW retry, NEW outcome \in ProvisionOutcomes,
         Provisioned(r, g, expire, retry, outcome)
  PROVE  HoldingInv'
<1> USE DEF Provisioned
<1>1. /\ grant'[g].status = GrantStatusAfter(outcome) /\ grant'[g].request = r
      /\ grant'[g].connector = ConnectorStatusAfter(outcome)
      /\ session'[g] = IF outcome = "Applied" THEN BoundSession(r) ELSE session[g]
      /\ \A h \in Grants \ {g} : grant'[h] = grant[h] /\ session'[h] = session[h]
  BY RowTypes DEF ProvisionEffect
<1>2. session[g].status = "Absent"
  BY NoSessionYet
<1>3. \A h \in Grants \ {g} : grant[h].request # r
  BY HoldsByStatus, HolderFacts DEF HoldsNothing
<1>4. r # NoRequest
  BY AccessStateAssumption
<1>5. GrantMirrored'
  <2> SUFFICES ASSUME NEW h \in Grants, Exists(h)'
               PROVE  (/\ grant[h].request \in Requests
                       /\ request[grant[h].request].grant = grant[h].status
                       /\ request[grant[h].request].status \in HolderStatuses(grant[h].status)
                       /\ session[h].status # "Absent" => session[h].request = grant[h].request)'
    BY DEF GrantMirrored
  <2>1. CASE h = g
    <3>1. RequestStatusAfter(outcome) \in HolderStatuses(GrantStatusAfter(outcome))
      BY OutcomeStatuses, HolderStatusesOf
    <3> QED
      BY <1>1, <1>2, <2>1, <3>1 DEF BoundSession
  <2>2. CASE h # g
    <3>1. Exists(h) /\ grant'[h] = grant[h] /\ session'[h] = session[h]
      BY <1>1, <2>2 DEF Exists
    <3> QED
      BY <1>3, <2>2, <3>1, HolderFacts
  <2> QED
    BY <2>1, <2>2
<1>6. OneHolder'
  <2>1. \A h, i \in Grants :
          Exists(h)' /\ Exists(i)' /\ grant'[h].request = grant'[i].request => h = i
    <3> SUFFICES ASSUME NEW h \in Grants, NEW i \in Grants, Exists(h)', Exists(i)',
                        grant'[h].request = grant'[i].request, h # i
                 PROVE  FALSE
      OBVIOUS
    <3>1. h # g /\ i # g
      BY <1>1, <1>3
    <3> QED
      BY <1>1, <3>1 DEF HoldingInv, OneHolder, Exists
  <2>2. ASSUME NEW q \in Requests, request'[q].status \in {"Provisioning", "Active", "Expiring"}
        PROVE  \E h \in Grants : Exists(h)' /\ grant'[h].request = q
    <3>1. CASE q = r
      <4>1. GrantStatusAfter(outcome) # "NotCreated"
        BY OutcomeStatuses
      <4> QED
        BY <1>1, <3>1, <4>1 DEF Exists
    <3>2. CASE q # r
      <4>1. PICK h \in Grants : Exists(h) /\ grant[h].request = q
        BY <2>2, <3>2 DEF HoldingInv, OneHolder
      <4>2. h # g
        BY <3>2, <4>1 DEF Exists
      <4> QED
        BY <1>1, <4>1, <4>2 DEF Exists
    <3> QED
      BY <3>1, <3>2
  <2> QED
    BY <2>1, <2>2 DEF OneHolder
<1>7. OpenApprovalIsAwaited'
  BY DEF HoldingInv, OpenApprovalIsAwaited
<1>8. DeniedHoldsNothing'
  <2> SUFFICES ASSUME NEW q \in Requests, approval'[q].status \in Denials
               PROVE  /\ request'[q].status \in {"Failed", "PendingApproval"}
                      /\ \A h \in Grants : grant'[h].request # q
    BY DEF DeniedHoldsNothing
  <2>1. q # r
    BY DEF Denials
  <2> QED
    BY <1>1, <2>1 DEF HoldingInv, DeniedHoldsNothing
<1>9. OneOpenRenewal'
  <2> SUFFICES ASSUME NEW p \in Requests, NEW q \in Requests, p # q,
                      request'[p].source # NoRequest, request'[p].source = request'[q].source,
                      request'[p].status # "Failed", request'[q].status # "Failed"
               PROVE  FALSE
    BY DEF OneOpenRenewal
  <2>1. p # r /\ q # r
    OBVIOUS
  <2> QED
    BY <2>1 DEF HoldingInv, OneOpenRenewal
<1>10. GrantParts'
  <2> SUFFICES ASSUME NEW h \in Grants PROVE (Unused(h) /\ Acting(h) /\ ApprovedHolder(h))'
    BY DEF GrantParts
  <2>1. CASE h = g
    BY <1>1, <1>2, <2>1, OutcomeStatuses
    DEF Unused, Acting, ApprovedHolder, Exists, Renewable, BoundSession
  <2>2. CASE h # g
    <3>1. Unused(h) /\ Acting(h) /\ ApprovedHolder(h)
      BY DEF HoldingInv, GrantParts
    <3>2. grant'[h] = grant[h] /\ session'[h] = session[h]
      BY <1>1, <2>2
    <3>3. Exists(h) => grant[h].request \in Requests \ {r}
      BY <1>3, <2>2, HolderFacts
    <3> QED
      BY <3>1, <3>2, <3>3 DEF Unused, Acting, ApprovedHolder, Exists, Renewable
  <2> QED
    BY <2>1, <2>2
<1>11. RequestParts'
  <2> SUFFICES ASSUME NEW q \in Requests PROVE (RecordOf(q) /\ RenewalOf(q))'
    BY DEF RequestParts
  <2>1. CASE q = r
    BY <2>1, OutcomeStatuses DEF RecordOf, RenewalOf
  <2>2. CASE q # r
    <3>1. RecordOf(q) /\ RenewalOf(q) /\ request'[q] = request[q] /\ approval'[q] = approval[q]
      BY <2>2 DEF HoldingInv, RequestParts
    <3>2. request[q].source # NoRequest => request[q].source \in Requests \ {r}
      BY <3>1, RowTypes DEF RenewalOf, RequestRow, Early, Lived
    <3>3. request[q].source # NoRequest =>
            \A h \in Grants : grant'[h].request = request[q].source =>
              grant[h].request = request[q].source
      BY <1>1, <3>2
    <3> QED
      BY <3>1, <3>2, <3>3 DEF RecordOf, RenewalOf
  <2> QED
    BY <2>1, <2>2
<1> QED
  BY <1>5, <1>6, <1>7, <1>8, <1>9, <1>10, <1>11 DEF HoldingInv

LEMMA ProvisionGrantProvisions ==
  ASSUME HoldingInv, NEW r \in Requests, NEW g \in Grants,
         NEW outcome \in ProvisionOutcomes, ProvisionGrant(r, g, outcome)
  PROVE  Provisioned(r, g, now + request[r].duration, 0, outcome)
<1>1. /\ request[r].status = "Approved" /\ request[r].grant = "NotCreated"
      /\ request[r].approval = "Approved" /\ request[r].deliverable
      /\ grant[g].status = "NotCreated"
      /\ request' = [request EXCEPT ![r] = RequestAfterProvision(request[r], outcome)]
      /\ ProvisionEffect(r, g, now + request[r].duration, 0, outcome)
      /\ UNCHANGED approval
  BY RowTypes DEF ProvisionGrant, CanProvision, RecheckPolicy
<1>2. RecordOf(r) /\ RenewalOf(r)
  BY DEF HoldingInv, RequestParts
<1>3. request[r].source = NoRequest /\ approval[r].status = "Approved"
  BY <1>1, <1>2 DEF RecordOf, RenewalOf, Lived, Renewable
<1>4. HoldsNothing(r)
  BY <1>1, HoldsByStatus DEF HoldsNothing
<1>5. /\ request'[r].status = RequestStatusAfter(outcome)
      /\ request'[r].grant = GrantStatusAfter(outcome)
      /\ request'[r].approval = "Approved" /\ approval'[r].status = "Approved"
      /\ request'[r].source = NoRequest /\ request'[r].deliverable
      /\ request'[r].round = request[r].round
      /\ \A q \in Requests \ {r} : request'[q] = request[q] /\ approval'[q] = approval[q]
  BY <1>1, <1>3, RowTypes DEF RequestAfterProvision, RequestRow
<1> QED
  BY <1>1, <1>4, <1>5 DEF Provisioned, Early

LEMMA RetryProvisionProvisions ==
  ASSUME HoldingInv, NEW r \in Requests, NEW g \in Grants,
         NEW outcome \in ProvisionOutcomes, RetryProvision(r, g, outcome)
  PROVE  Provisioned(r, g, grant[g].expire, LatestOf(provisionTasks[g]).retry + 1, outcome)
<1> DEFINE retry == LatestOf(provisionTasks[g]).retry + 1
<1>1. /\ request[r].status = "Failed" /\ request[r].approval = "Approved"
      /\ request[r].deliverable
      /\ grant[g].status = "ProvisionFailed" /\ grant[g].request = r
      /\ request' = [request EXCEPT ![r] = RequestAfterProvision(request[r], outcome)]
      /\ ProvisionEffect(r, g, grant[g].expire, retry, outcome)
      /\ UNCHANGED approval
  BY RowTypes DEF RetryProvision, CanRetryProvision, RecheckPolicy
<1> HIDE DEF retry
<1>2. RecordOf(r) /\ RenewalOf(r)
  BY DEF HoldingInv, RequestParts
<1>3. request[r].grant = "ProvisionFailed"
  BY <1>1, HolderFacts DEF Exists
<1>4. request[r].source = NoRequest /\ approval[r].status = "Approved"
  BY <1>1, <1>2, <1>3 DEF RecordOf, RenewalOf, Lived, Renewable
<1>5. /\ request'[r].status = RequestStatusAfter(outcome)
      /\ request'[r].grant = GrantStatusAfter(outcome)
      /\ request'[r].approval = "Approved" /\ approval'[r].status = "Approved"
      /\ request'[r].source = NoRequest /\ request'[r].deliverable
      /\ request'[r].round = request[r].round
      /\ \A q \in Requests \ {r} : request'[q] = request[q] /\ approval'[q] = approval[q]
  BY <1>1, <1>4, RowTypes DEF RequestAfterProvision, RequestRow
<1> QED
  BY <1>1, <1>5 DEF Provisioned, Early, retry

LEMMA ApproveRequestShape ==
  ASSUME HoldingInv, NEW r \in Requests, NEW k \in Keys,
         NEW outcome \in ProvisionOutcomes, ApproveRequest(r, k, outcome)
  PROVE  \/ Provisioned(r, DefaultGrant[r], now + request[r].duration, 0, outcome)
         \/ RequestWritten(r)
<1> DEFINE g == DefaultGrant[r]
           row == ApprovedRow(r)
<1>1. g \in Grants
  BY AccessStateAssumption
<1>2. /\ Awaited(r, k) /\ RecordCallback(r, k, "Approved")
      /\ request[r].status = "PendingApproval" /\ HoldsNothing(r)
      /\ request[r].source = NoRequest /\ approval[r].status \in {"Pending", "CallbackFailed"}
  BY AwaitedFacts DEF ApproveRequest, Awaited, IsRenewal
<1>3. CASE CanProvision(r, g, row)
  <2>1. /\ request' = [request EXCEPT ![r] = RequestAfterProvision(row, outcome)]
        /\ ProvisionEffect(r, g, now + row.duration, 0, outcome)
        /\ grant[g].status = "NotCreated" /\ row.deliverable
    BY <1>3 DEF ApproveRequest, CanProvision, RecheckPolicy
  <2>2. /\ row \in RequestRow /\ row.approval = "Approved" /\ row.source = NoRequest
        /\ row.round = request[r].round /\ row.duration = request[r].duration
    BY <1>2, RowTypes, ApprovedRowType DEF ApprovedRow, RequestRow, HoldingInv, RevocationInv
  <2> HIDE DEF g, row
  <2>3. /\ request'[r].status = RequestStatusAfter(outcome)
        /\ request'[r].grant = GrantStatusAfter(outcome)
        /\ request'[r].approval = "Approved"
        /\ request'[r].source = NoRequest /\ request'[r].deliverable
        /\ request'[r].round = request[r].round
    BY <2>1, <2>2, RowTypes DEF RequestAfterProvision, RequestRow
  <2>4. /\ approval'[r].status = "Approved"
        /\ \A q \in Requests \ {r} : request'[q] = request[q] /\ approval'[q] = approval[q]
    BY <1>2, <2>1, RowTypes DEF RecordCallback
  <2> QED
    BY <1>1, <1>2, <2>1, <2>2, <2>3, <2>4 DEF Provisioned, Early, g
<1>4. CASE ~CanProvision(r, g, row)
  BY <1>2, <1>4, ApprovedOnlyWrites DEF ApproveRequest
<1> QED
  BY <1>3, <1>4

-----------------------------------------------------------------------------
(***************************************************************************)
(* The step that passes a grant on: from a source to its approved renewal. *)
(***************************************************************************)
CompletesRenewal(r, k) ==
  /\ Awaited(r, k) /\ IsRenewal(r) /\ RecordCallback(r, k, "Approved")
  /\ CanCompleteRenewal(ApprovedRow(r)) /\ RenewalEffect(r, ApprovedRow(r))

RenewedRows(r) ==
  LET s == request[r].source
      g == request[r].renews
  IN
  /\ s \in Requests \ {r} /\ g \in Grants /\ HoldsNothing(r)
  /\ request[r].status = "PendingApproval" /\ request[r].deliverable /\ request[r].duration > 0
  /\ approval[r].status \in {"Pending", "CallbackFailed"}
  /\ request[s].status \in Renewable /\ approval[s].status = "Approved"
  /\ grant[g].request = s /\ grant[g].status \in Renewable
  /\ \A h \in Grants : grant[h].request = s => h = g
  /\ request'[r].status = "Active" /\ request'[r].grant = "Active"
  /\ request'[r].approval = "Approved" /\ approval'[r].status = "Approved"
  /\ request'[s].status = "Expired" /\ request'[s].approval = request[s].approval
  /\ approval'[s] = approval[s]
  /\ \A q \in Requests \ {r, s} : request'[q] = request[q] /\ approval'[q] = approval[q]
  /\ grant'[g].request = r /\ grant'[g].status = "Active" /\ grant'[g].connector = "Applied"
  /\ grant'[g].expire = grant[g].expire + request[r].duration
  /\ session'[g].request = r /\ session'[g].status = "Active"
  /\ \A h \in Grants \ {g} : grant'[h] = grant[h] /\ session'[h] = session[h]
  /\ \A q \in Requests :
       /\ request'[q].source = request[q].source /\ request'[q].renews = request[q].renews
       /\ request'[q].round = request[q].round /\ request'[q].duration = request[q].duration
       /\ request'[q].deliverable = request[q].deliverable

LEMMA RenewedFacts ==
  ASSUME HoldingInv, NEW r \in Requests, NEW k \in Keys, CompletesRenewal(r, k)
  PROVE  RenewedRows(r)
<1> USE DEF CompletesRenewal
<1> DEFINE s == request[r].source
           g == request[r].renews
           row == ApprovedRow(r)
<1>1. /\ request[r].status = "PendingApproval" /\ HoldsNothing(r) /\ RenewalOf(r)
      /\ s # NoRequest /\ approval[r].status \in {"Pending", "CallbackFailed"}
  BY AwaitedFacts DEF Awaited, IsRenewal, HoldingInv, RequestParts
<1>2. /\ s \in Requests \ {r} /\ g \in Grants /\ request[r].deliverable
      /\ request[s].status \in Lived /\ request[r].duration > 0
  BY <1>1, RowTypes DEF RenewalOf, RequestRow, Lived
<1>3. row \in RequestRow /\ row = [request[r] EXCEPT !.approval = "Approved", !.status = "Approved"]
  BY ApprovedRowType DEF HoldingInv, RevocationInv, ApprovedRow
<1>4. /\ row.source = s /\ row.renews = g /\ row.approval = "Approved"
      /\ row.round = request[r].round /\ row.deliverable = request[r].deliverable
      /\ row.duration = request[r].duration
  BY <1>3, RowTypes DEF RequestRow
<1>5. /\ grant[g].request = s /\ grant[g].status \in Renewable /\ Exists(g)
      /\ approval[s].status = "Approved" /\ session[g].request = s
      /\ grant[g].connector = "Applied" /\ session[g].status = "Active"
      /\ request[s].status \in Renewable
      /\ \A h \in Grants : grant[h].request = s => h = g
  <2>1. grant[g].request = s /\ grant[g].status \in Renewable /\ Exists(g)
    BY <1>4 DEF CanCompleteRenewal, Exists, Renewable
  <2>2. Acting(g)
    BY <1>2 DEF HoldingInv, GrantParts
  <2> HIDE DEF s, g
  <2>3. grant[g].connector = "Applied" /\ session[g].status = "Active"
    BY <2>1, <2>2 DEF Acting
  <2> QED
    BY <1>2, <2>1, <2>3, HolderFacts, HolderStatusesOf DEF Renewable
<1>6. /\ request' = [request EXCEPT
           ![s] = [request[s] EXCEPT !.status = "Expired", !.grant = "Expired"],
           ![r] = [row EXCEPT !.status = "Active", !.grant = "Active"]]
      /\ grant' = [grant EXCEPT ![g] = [grant[g] EXCEPT !.request = r, !.status = "Active",
                                          !.expire = grant[g].expire + row.duration]]
      /\ session' = [session EXCEPT ![g].request = r]
      /\ approval' = [approval EXCEPT ![r] = [status |-> "Approved", key |-> k]]
  BY <1>2, <1>4, <1>5, RowTypes DEF RenewalEffect, RecordCallback
<1> HIDE DEF s, g, row
<1>7. /\ request'[r].status = "Active" /\ request'[r].grant = "Active"
      /\ request'[r].approval = "Approved" /\ approval'[r].status = "Approved"
      /\ request'[s].status = "Expired" /\ request'[s].approval = request[s].approval
      /\ approval'[s] = approval[s]
      /\ \A q \in Requests \ {r, s} : request'[q] = request[q] /\ approval'[q] = approval[q]
  BY <1>2, <1>3, <1>4, <1>6, RowTypes DEF RequestRow
<1>8. /\ grant'[g].request = r /\ grant'[g].status = "Active"
      /\ grant'[g].connector = "Applied"
      /\ grant'[g].expire = grant[g].expire + request[r].duration
      /\ session'[g].request = r /\ session'[g].status = "Active"
      /\ \A h \in Grants \ {g} : grant'[h] = grant[h] /\ session'[h] = session[h]
  BY <1>2, <1>4, <1>5, <1>6, RowTypes DEF GrantRow, SessionRow
<1>9. \A q \in Requests :
        /\ request'[q].source = request[q].source /\ request'[q].renews = request[q].renews
        /\ request'[q].round = request[q].round /\ request'[q].duration = request[q].duration
        /\ request'[q].deliverable = request[q].deliverable
  <2> SUFFICES ASSUME NEW q \in Requests
               PROVE /\ request'[q].source = request[q].source
                     /\ request'[q].renews = request[q].renews
                     /\ request'[q].round = request[q].round /\ request'[q].duration = request[q].duration
                     /\ request'[q].deliverable = request[q].deliverable
    OBVIOUS
  <2>1. request[r] \in RequestRow /\ request[s] \in RequestRow
    BY <1>2, <1>4, RowTypes
  <2>2. CASE q = r
    <3>1. request'[r] = [row EXCEPT !.status = "Active", !.grant = "Active"]
      BY <1>4, <1>6, RowTypes
    <3>2. row.source = request[r].source /\ row.renews = request[r].renews
          /\ row.round = request[r].round /\ row.duration = request[r].duration
          /\ row.deliverable = request[r].deliverable
      BY <1>3, <2>1 DEF RequestRow
    <3> QED
      BY <2>2, <3>1, <3>2, <1>3 DEF RequestRow
  <2>3. CASE q = s
    <3>1. request'[s] = [request[s] EXCEPT !.status = "Expired", !.grant = "Expired"]
      BY <1>2, <1>4, <1>6, RowTypes
    <3> QED
      BY <2>1, <2>3, <3>1 DEF RequestRow
  <2>4. CASE q \in Requests \ {r, s}
    BY <1>7, <2>4
  <2> QED
    BY <2>2, <2>3, <2>4
<1> QED
  BY <1>1, <1>2, <1>5, <1>7, <1>8, <1>9 DEF RenewedRows, s, g

LEMMA RenewedHolding ==
  ASSUME HoldingInv, RevocationInv', NEW r \in Requests, RenewedRows(r)
  PROVE  HoldingInv'
<1> DEFINE s == request[r].source
           g == request[r].renews
<1>1. /\ request[r].status = "PendingApproval" /\ HoldsNothing(r) /\ request[r].deliverable
      /\ s \in Requests \ {r} /\ g \in Grants /\ request[s].status \in Lived
      /\ \A h \in Grants : grant[h].request = s => h = g
      /\ grant[g].request = s /\ approval[s].status = "Approved"
  BY DEF RenewedRows, Lived, Renewable
<1>2. /\ request'[r].status = "Active" /\ request'[r].grant = "Active"
      /\ request'[r].approval = "Approved" /\ approval'[r].status = "Approved"
      /\ request'[s].status = "Expired" /\ request'[s].approval = request[s].approval
      /\ approval'[s] = approval[s]
      /\ \A q \in Requests \ {r, s} : request'[q] = request[q] /\ approval'[q] = approval[q]
  BY DEF RenewedRows
<1>3. /\ grant'[g].request = r /\ grant'[g].status = "Active"
      /\ grant'[g].connector = "Applied"
      /\ session'[g].request = r /\ session'[g].status = "Active"
      /\ \A h \in Grants \ {g} : grant'[h] = grant[h] /\ session'[h] = session[h]
  BY DEF RenewedRows
<1>4. \A q \in Requests :
        /\ request'[q].source = request[q].source /\ request'[q].renews = request[q].renews
        /\ request'[q].round = request[q].round /\ request'[q].duration = request[q].duration
        /\ request'[q].deliverable = request[q].deliverable
  BY DEF RenewedRows
<1> HIDE DEF s, g
<1>5. \A h \in Grants \ {g} : grant[h].request # r /\ grant[h].request # s
  BY <1>1 DEF HoldsNothing
<1>6. GrantMirrored'
  <2> SUFFICES ASSUME NEW h \in Grants, Exists(h)'
               PROVE  (/\ grant[h].request \in Requests
                       /\ request[grant[h].request].grant = grant[h].status
                       /\ request[grant[h].request].status \in HolderStatuses(grant[h].status)
                       /\ session[h].status # "Absent" => session[h].request = grant[h].request)'
    BY DEF GrantMirrored
  <2>1. CASE h = g
    BY <1>2, <1>3, <2>1, HolderStatusesOf
  <2>2. CASE h # g
    <3>1. Exists(h) /\ grant'[h] = grant[h] /\ session'[h] = session[h]
      BY <1>3, <2>2 DEF Exists
    <3>2. grant[h].request \in Requests \ {r, s}
      BY <1>5, <2>2, <3>1, HolderFacts
    <3> QED
      BY <1>2, <3>1, <3>2, HolderFacts
  <2> QED
    BY <2>1, <2>2
<1>7. OneHolder'
  <2>1. \A h, i \in Grants :
          Exists(h)' /\ Exists(i)' /\ grant'[h].request = grant'[i].request => h = i
    <3> SUFFICES ASSUME NEW h \in Grants, NEW i \in Grants, Exists(h)', Exists(i)',
                        grant'[h].request = grant'[i].request, h # i
                 PROVE  FALSE
      OBVIOUS
    <3>1. h # g /\ i # g
      BY <1>3, <1>5
    <3> QED
      BY <1>3, <3>1 DEF HoldingInv, OneHolder, Exists
  <2>2. ASSUME NEW q \in Requests, request'[q].status \in {"Provisioning", "Active", "Expiring"}
        PROVE  \E h \in Grants : Exists(h)' /\ grant'[h].request = q
    <3>1. CASE q = r
      BY <1>1, <1>3, <3>1 DEF Exists
    <3>2. CASE q # r
      <4>1. q \in Requests \ {r, s}
        BY <1>2, <2>2, <3>2
      <4>2. PICK h \in Grants : Exists(h) /\ grant[h].request = q
        BY <1>2, <2>2, <4>1 DEF HoldingInv, OneHolder
      <4>3. h # g
        BY <1>1, <4>1, <4>2
      <4> QED
        BY <1>3, <4>2, <4>3 DEF Exists
    <3> QED
      BY <3>1, <3>2
  <2> QED
    BY <2>1, <2>2 DEF OneHolder
<1>8. OpenApprovalIsAwaited' /\ DeniedHoldsNothing'
  <2>1. ASSUME NEW q \in Requests, approval'[q].status # "Approved"
        PROVE  q \in Requests \ {r, s} /\ request'[q] = request[q] /\ approval'[q] = approval[q]
    BY <1>1, <1>2, <2>1
  <2>2. OpenApprovalIsAwaited'
    BY <2>1 DEF HoldingInv, OpenApprovalIsAwaited
  <2>3. DeniedHoldsNothing'
    BY <1>3, <2>1 DEF HoldingInv, DeniedHoldsNothing, Denials
  <2> QED
    BY <2>2, <2>3
<1>9. OneOpenRenewal'
  <2>1. \A q \in Requests : request'[q].status # "Failed" => request[q].status # "Failed"
    BY <1>1, <1>2 DEF Lived
  <2> QED
    BY <1>4, <2>1 DEF HoldingInv, OneOpenRenewal
<1>10. GrantParts'
  <2> SUFFICES ASSUME NEW h \in Grants PROVE (Unused(h) /\ Acting(h) /\ ApprovedHolder(h))'
    BY DEF GrantParts
  <2>1. CASE h = g
    BY <1>1, <1>2, <1>3, <1>4, <2>1
    DEF Unused, Acting, ApprovedHolder, Exists, Renewable
  <2>2. CASE h # g
    <3>1. Unused(h) /\ Acting(h) /\ ApprovedHolder(h)
      BY DEF HoldingInv, GrantParts
    <3>2. grant'[h] = grant[h] /\ session'[h] = session[h]
      BY <1>3, <2>2
    <3>3. Exists(h) => grant[h].request \in Requests \ {r, s}
      BY <1>5, <2>2, HolderFacts
    <3> QED
      BY <1>2, <3>1, <3>2, <3>3 DEF Unused, Acting, ApprovedHolder, Exists, Renewable
  <2> QED
    BY <2>1, <2>2
<1>11. RequestParts'
  <2>1. \A q \in Requests : /\ request[q].status \in Lived => request'[q].status \in Lived
                            /\ request'[q].status = "Absent" => request[q].status = "Absent"
    BY <1>1, <1>2 DEF Lived
  <2> SUFFICES ASSUME NEW q \in Requests PROVE (RecordOf(q) /\ RenewalOf(q))'
    BY DEF RequestParts
  <2>2. RecordOf(q) /\ RenewalOf(q)
    BY DEF HoldingInv, RequestParts
  <2>3. RecordOf(q)'
    BY <1>1, <1>2, <2>2 DEF RecordOf
  <2>4. request'[q].status \in Lived \/ request'[q].grant = request[q].grant
    BY <1>2 DEF Lived
  <2>5. request[q].source # NoRequest =>
          /\ request[q].source \in Requests \ {r}
          /\ \A h \in Grants : grant'[h].request = request[q].source =>
               grant[h].request = request[q].source
    <3> SUFFICES ASSUME request[q].source # NoRequest
                 PROVE  /\ request[q].source \in Requests \ {r}
                        /\ \A h \in Grants : grant'[h].request = request[q].source =>
                             grant[h].request = request[q].source
      OBVIOUS
    <3>1. request[q].source \in Requests \ {r}
      BY <1>1, <2>2, RowTypes DEF RenewalOf, RequestRow, Lived
    <3> QED
      BY <1>3, <3>1
  <2>6. RenewalOf(q)'
    BY <1>4, <2>1, <2>2, <2>4, <2>5 DEF RenewalOf
  <2> QED
    BY <2>3, <2>6
<1> QED
  BY <1>6, <1>7, <1>8, <1>9, <1>10, <1>11 DEF HoldingInv

LEMMA ApproveRenewalShape ==
  ASSUME HoldingInv, NEW r \in Requests, NEW k \in Keys, ApproveRenewal(r, k)
  PROVE  RenewedRows(r) \/ RequestWritten(r)
<1>1. CASE CanCompleteRenewal(ApprovedRow(r))
  BY <1>1, RenewedFacts DEF ApproveRenewal, CompletesRenewal
<1>2. CASE ~CanCompleteRenewal(ApprovedRow(r))
  BY <1>2, ApprovedOnlyWrites DEF ApproveRenewal
<1> QED
  BY <1>1, <1>2

-----------------------------------------------------------------------------
(***************************************************************************)
(* Steps that move grants that had come into force, each with its session  *)
(* and its holder, and nothing else: revocations and the reconciliation.   *)
(***************************************************************************)
Moved(g) ==
  LET r == grant[g].request IN
  /\ grant[g].status \in Renewable \cup Ending
  /\ grant'[g].status \in {"Expiring"} \cup Ending
  /\ grant'[g].status \in Renewable => grant[g].status \in Renewable
  /\ grant[g].status = "Expired" => grant'[g].status = "Expired"
  /\ grant'[g].request = r /\ grant'[g].connector = grant[g].connector
  /\ grant'[g].expire = grant[g].expire
  /\ session'[g].request = session[g].request
  /\ session[g].status \notin {"Absent", "Revoked"} /\ session'[g].status # "Absent"
  /\ session'[g].status = "Active" <=> grant'[g].status \in Renewable
  /\ session'[g].status = "Revoked" => grant[g].status \in Ending
  /\ grant'[g].status = "Revoked" => session'[g].status = "Revoked"
  /\ request'[r] = [request[r] EXCEPT !.status = request'[r].status,
                                      !.grant = grant'[g].status]
  /\ request'[r].status = "Active" => request[r].status = "Active"
  /\ request'[r].status \in HolderStatuses(grant'[g].status)

Moves(M) ==
  /\ \A g \in M : Moved(g)
  /\ \A g \in Grants \ M : grant'[g] = grant[g] /\ session'[g] = session[g]
  /\ \A r \in Requests : (\A g \in M : grant[g].request # r) => request'[r] = request[r]
  /\ UNCHANGED approval

LEMMA MovedStatuses ==
  ASSUME HoldingInv, NEW g \in Grants, Moved(g)
  PROVE  /\ Exists(g) /\ Exists(g)'
         /\ request[grant[g].request].status \in Lived
         /\ request'[grant[g].request].status \in Lived
<1>1. Exists(g) /\ Exists(g)'
  BY DEF Moved, Exists, Renewable, Ending
<1>2. \A status \in Renewable \cup Ending : HolderStatuses(status) \subseteq Lived
  BY HolderStatusesOf DEF Renewable, Ending, Lived
<1>3. grant'[g].status \in Renewable \cup Ending
  BY DEF Moved, Renewable
<1>4. request'[grant[g].request].status \in HolderStatuses(grant'[g].status)
  BY DEF Moved
<1>5. request[grant[g].request].status \in HolderStatuses(grant[g].status)
  BY <1>1, HolderFacts
<1> QED
  BY <1>1, <1>2, <1>3, <1>4, <1>5 DEF Moved

LEMMA MovedRow ==
  ASSUME HoldingInv, NEW g \in Grants, Moved(g)
  PROVE  LET r == grant[g].request IN
         /\ r \in Requests /\ request'[r].grant = grant'[g].status
         /\ request'[r].approval = request[r].approval
         /\ request'[r].source = request[r].source
         /\ request'[r].renews = request[r].renews
         /\ request'[r].round = request[r].round
         /\ request'[r].duration = request[r].duration
         /\ request'[r].deliverable = request[r].deliverable
<1>1. grant[g].request \in Requests
  BY MovedStatuses, HolderFacts
<1>2. request[grant[g].request] \in RequestRow
  BY <1>1, RowTypes
<1> QED
  BY <1>1, <1>2 DEF Moved, RequestRow

LEMMA MovedHolding ==
  ASSUME HoldingInv, RevocationInv', NEW M \in SUBSET Grants, Moves(M)
  PROVE  HoldingInv'
<1> USE DEF Moves
<1>1. \A g \in Grants : grant'[g].request = grant[g].request /\ (Exists(g)' <=> Exists(g))
  <2> SUFFICES ASSUME NEW g \in Grants
               PROVE  grant'[g].request = grant[g].request /\ (Exists(g)' <=> Exists(g))
    OBVIOUS
  <2>1. CASE g \in M
    BY <2>1, MovedStatuses DEF Moved
  <2>2. CASE g \notin M
    BY <2>2 DEF Exists
  <2> QED
    BY <2>1, <2>2
<1>2. \A r \in Requests :
        \/ request'[r] = request[r]
        \/ \E g \in M : grant[g].request = r
  OBVIOUS
<1>3. \A r \in Requests :
        /\ request'[r].approval = request[r].approval
        /\ request'[r].source = request[r].source /\ request'[r].renews = request[r].renews
        /\ request'[r].round = request[r].round /\ request'[r].duration = request[r].duration
        /\ request'[r].deliverable = request[r].deliverable
        /\ \/ request'[r] = request[r]
           \/ request[r].status \in Lived /\ request'[r].status \in Lived
  BY <1>2, MovedRow, MovedStatuses
<1>4. \A g \in Grants \ M : Exists(g) =>
        request'[grant[g].request] = request[grant[g].request]
  <2> SUFFICES ASSUME NEW g \in Grants \ M, Exists(g)
               PROVE  request'[grant[g].request] = request[grant[g].request]
    OBVIOUS
  <2>1. grant[g].request \in Requests /\ \A h \in M : grant[h].request # grant[g].request
    BY HolderFacts
  <2> QED
    BY <2>1
<1>5. GrantMirrored'
  <2> SUFFICES ASSUME NEW g \in Grants, Exists(g)'
               PROVE  (/\ grant[g].request \in Requests
                       /\ request[grant[g].request].grant = grant[g].status
                       /\ request[grant[g].request].status \in HolderStatuses(grant[g].status)
                       /\ session[g].status # "Absent" => session[g].request = grant[g].request)'
    BY DEF GrantMirrored
  <2>1. Exists(g) /\ grant'[g].request = grant[g].request
    BY <1>1
  <2>2. CASE g \in M
    <3>1. Moved(g)
      BY <2>2
    <3>2. /\ grant[g].request \in Requests
          /\ request'[grant[g].request].grant = grant'[g].status
          /\ session[g].status # "Absent" => session[g].request = grant[g].request
      BY <2>1, <3>1, MovedRow, HolderFacts
    <3> QED
      BY <2>1, <3>1, <3>2 DEF Moved
  <2>3. CASE g \notin M
    BY <1>4, <2>1, <2>3, HolderFacts
  <2> QED
    BY <2>2, <2>3
<1>6. OneHolder'
  <2>1. \A g, h \in Grants :
          Exists(g)' /\ Exists(h)' /\ grant'[g].request = grant'[h].request => g = h
    BY <1>1 DEF HoldingInv, OneHolder
  <2>2. ASSUME NEW r \in Requests, request'[r].status \in {"Provisioning", "Active", "Expiring"}
        PROVE  \E g \in Grants : Exists(g)' /\ grant'[g].request = r
    <3>1. CASE request'[r] = request[r]
      BY <1>1, <2>2, <3>1 DEF HoldingInv, OneHolder
    <3>2. CASE \E g \in M : grant[g].request = r
      BY <1>1, <3>2, MovedStatuses
    <3> QED
      BY <1>2, <3>1, <3>2
  <2> QED
    BY <2>1, <2>2 DEF OneHolder
<1>7. OpenApprovalIsAwaited' /\ DeniedHoldsNothing'
  <2>1. ASSUME NEW r \in Requests, approval[r].status # "Approved"
        PROVE  request'[r] = request[r]
    <3>1. \A g \in M : grant[g].request # r
      BY <2>1, MovedStatuses, HolderFacts
    <3> QED
      BY <3>1
  <2>2. OpenApprovalIsAwaited'
    BY <2>1 DEF HoldingInv, OpenApprovalIsAwaited
  <2>3. DeniedHoldsNothing'
    BY <1>1, <2>1 DEF HoldingInv, DeniedHoldsNothing, Denials
  <2> QED
    BY <2>2, <2>3
<1>8. OneOpenRenewal'
  <2>1. \A r \in Requests : request'[r].status # "Failed" => request[r].status # "Failed"
    BY <1>3 DEF Lived
  <2> QED
    BY <1>3, <2>1 DEF HoldingInv, OneOpenRenewal
<1>9. GrantParts'
  <2> SUFFICES ASSUME NEW g \in Grants PROVE (Unused(g) /\ Acting(g) /\ ApprovedHolder(g))'
    BY DEF GrantParts
  <2>1. Unused(g) /\ Acting(g) /\ ApprovedHolder(g)
    BY DEF HoldingInv, GrantParts
  <2>2. CASE g \in M
    <3>1. Moved(g) /\ Exists(g) /\ Exists(g)'
      BY <2>2, MovedStatuses
    <3>2. grant'[g].request = grant[g].request /\ grant[g].request \in Requests
      BY <1>1, <3>1, HolderFacts
    <3>3. Unused(g)' /\ ApprovedHolder(g)'
      <4> DEFINE r == grant[g].request
      <4>1. /\ request'[r].approval = request[r].approval
            /\ request'[r].deliverable = request[r].deliverable
            /\ request'[r].status = "Failed" => request[r].status = "Failed"
        BY <1>3, <3>2 DEF Lived
      <4>2. grant'[g].request = r /\ approval' = approval
        BY <3>2
      <4> HIDE DEF r
      <4>3. /\ approval[r].status = "Approved"
            /\ request[r].approval = "Approved" => request[r].deliverable
            /\ request[r].status = "Failed" => request[r].approval \in {"Approved", "NotRequired"}
        BY <2>1, <3>1 DEF ApprovedHolder, r
      <4>4. ApprovedHolder(g)'
        BY <4>1, <4>2, <4>3 DEF ApprovedHolder
      <4> QED
        BY <3>1, <4>4 DEF Unused
    <3>4. Acting(g)'
      <4>1. request'[grant[g].request].approval = request[grant[g].request].approval
        BY <1>3, <3>2
      <4>2. /\ session'[g].status = "Active" <=> grant'[g].status \in Renewable
            /\ grant'[g].status = "Revoked" => session'[g].status = "Revoked"
            /\ grant'[g].status \in Renewable => grant[g].status \in Renewable
            /\ grant'[g].connector = grant[g].connector
        BY <3>1 DEF Moved
      <4> QED
        BY <2>1, <3>2, <4>1, <4>2 DEF Acting, Renewable
    <3> QED
      BY <3>3, <3>4
  <2>3. CASE g \notin M
    <3>1. grant'[g] = grant[g] /\ session'[g] = session[g]
      BY <2>3
    <3> QED
      BY <1>4, <2>1, <2>3, <3>1 DEF Unused, Acting, ApprovedHolder, Exists, Renewable
  <2> QED
    BY <2>2, <2>3
<1>10. RequestParts'
  <2> SUFFICES ASSUME NEW q \in Requests PROVE (RecordOf(q) /\ RenewalOf(q))'
    BY DEF RequestParts
  <2>1. RecordOf(q) /\ RenewalOf(q)
    BY DEF HoldingInv, RequestParts
  <2>2. RecordOf(q)'
    BY <1>3, <2>1 DEF RecordOf, Lived
  <2>3. request[q].source # NoRequest => request[q].source \in Requests
    BY RowTypes DEF RequestRow
  <2>4. RenewalOf(q)'
    BY <1>1, <1>3, <2>1, <2>3 DEF RenewalOf, Lived
  <2> QED
    BY <2>2, <2>4
<1> QED
  BY <1>5, <1>6, <1>7, <1>8, <1>9, <1>10 DEF HoldingInv

\* The handlers of sessions find a request by session, not by grant: in
\* every state the two are the same, and there is no other session to take.
LEMMA BoundHolder ==
  ASSUME HoldingInv, NEW S \in SUBSET Grants,
         \A g \in S : Exists(g) /\ session[g].status # "Absent",
         NEW r \in Requests
  PROVE  /\ BoundIn(S, r) = {} <=> \A g \in S : grant[g].request # r
         /\ \A g \in S : grant[g].request = r => BoundIn(S, r) = {g}
<1>1. \A g \in S : session[g].request = grant[g].request
  BY HolderFacts
<1>2. BoundIn(S, r) = {g \in S : grant[g].request = r}
  BY <1>1 DEF BoundIn
<1>3. \A g \in S : grant[g].request = r => BoundIn(S, r) = {g}
  BY <1>2, HolderFacts
<1> QED
  BY <1>2, <1>3

\* A session a revocation can start from is on a grant in force, or on one
\* that is ending and not revoked.
LEMMA RevocableGrant ==
  ASSUME HoldingInv, NEW g \in Grants, session[g].status \notin {"Absent", "Revoked"}
  PROVE  /\ grant[g].status \in Renewable \cup Ending /\ grant[g].status # "Revoked"
         /\ Exists(g) /\ grant[g].request \in Requests
         /\ session[g].request = grant[g].request
         /\ session[g].status # "Active" => grant[g].status \in Ending
<1>1. grant[g].status \in Renewable \cup Ending /\ grant[g].status # "Revoked"
  BY DEF HoldingInv, GrantParts, Acting, RevocationInv, EndingSession, Ending
<1>2. session[g].status # "Active" => grant[g].status \in Ending
  BY DEF HoldingInv, RevocationInv, EndingSession
<1>3. Exists(g)
  BY <1>1 DEF Exists, Renewable, Ending
<1> QED
  BY <1>1, <1>2, <1>3, HolderFacts

LEMMA RequestRevokesMoves ==
  ASSUME HoldingInv, NEW S \in SUBSET Grants, \A g \in S : Revocable(g),
         RequestRevokes(S), UNCHANGED approval
  PROVE  Moves(S)
<1>1. \A g \in S : Exists(g) /\ session[g].status # "Absent"
  BY RevocableGrant DEF Revocable
<1>2. ASSUME NEW g \in S PROVE Moved(g)
  <2> DEFINE r == grant[g].request
  <2>1. /\ grant[g].status \in Renewable \cup Ending /\ grant[g].status # "Revoked"
        /\ r \in Requests /\ session[g].status \notin {"Absent", "Revoked"}
    BY <1>2, RevocableGrant DEF Revocable
  <2>2. /\ grant'[g] = GrantAfterRequest(grant[g])
        /\ session'[g] = SessionAfterRequest(g)
    BY <1>2 DEF RequestRevokes
  <2>3. request'[r] = [request[r] EXCEPT !.grant = GrantAfterRequest(grant[g]).status]
    <3>1. BoundIn(S, r) = {g}
      BY <1>1, <1>2, <2>1, BoundHolder
    <3>2. (CHOOSE h \in BoundIn(S, r) : TRUE) = g
      BY <3>1
    <3>3. request'[r] = RequestAfterRequest(S, r)
      BY <2>1 DEF RequestRevokes
    <3> QED
      BY <3>1, <3>2, <3>3, Zenon DEF RequestAfterRequest
  <2>4. request[r].status \in HolderStatuses(grant[g].status) /\ request[r] \in RequestRow
    BY <1>1, <2>1, HolderFacts, RowTypes
  <2>5. grant[g] \in GrantRow /\ session[g] \in SessionRow
    BY RowTypes
  <2> HIDE DEF r
  <2>6. /\ grant'[g].status = IF grant[g].status = "Expired" THEN "Expired" ELSE "Revoking"
        /\ grant'[g].request = grant[g].request /\ grant'[g].connector = grant[g].connector
        /\ grant'[g].expire = grant[g].expire
    BY <2>2, <2>5 DEF GrantAfterRequest, GrantRow
  <2>7. session'[g].status \in {"Syncing", "Revoking"} /\ session'[g].request = session[g].request
    BY <2>2, <2>5 DEF SessionAfterRequest, SessionRow
  <2>8. /\ request'[r].status = request[r].status
        /\ request'[r] = [request[r] EXCEPT !.status = request'[r].status,
                                            !.grant = grant'[g].status]
    BY <2>2, <2>3, <2>4 DEF RequestRow
  <2>9. request'[r].status \in HolderStatuses(grant'[g].status)
    BY <2>1, <2>4, <2>6, <2>8, HolderStatusesOf DEF Renewable, Ending
  <2> QED
    BY <2>1, <2>6, <2>7, <2>8, <2>9 DEF Moved, Renewable, Ending, r
<1>3. \A g \in Grants \ S : grant'[g] = grant[g] /\ session'[g] = session[g]
  BY DEF RequestRevokes
<1>4. \A r \in Requests : (\A g \in S : grant[g].request # r) => request'[r] = request[r]
  BY <1>1, BoundHolder DEF RequestRevokes, RequestAfterRequest
<1> QED
  BY <1>2, <1>3, <1>4 DEF Moves

LEMMA RevokeSessionMoves ==
  ASSUME HoldingInv, NEW g \in Grants, RevokeSession(g)
  PROVE  Moves({g})
<1>1. {g} \in SUBSET Grants /\ \A h \in {g} : Revocable(h)
  BY DEF RevokeSession
<1> QED
  BY <1>1, RequestRevokesMoves DEF RevokeSession

LEMMA DisableAgentMoves ==
  ASSUME HoldingInv, NEW a \in Agents, DisableAgent(a)
  PROVE  Moves(SessionsOf(a))
<1>1. SessionsOf(a) \in SUBSET Grants /\ \A h \in SessionsOf(a) : Revocable(h)
  BY DEF SessionsOf
<1> QED
  BY <1>1, RequestRevokesMoves DEF DisableAgent

\* What the connector's answer makes of a grant on its way out, of the
\* request holding it and of its session.
Answered(grantRow, row, bound, grant2, row2, bound2) ==
  /\ grant2.status \in Ending
  /\ grantRow.status = "Expired" => grant2.status = "Expired"
  /\ grant2.request = grantRow.request /\ grant2.connector = grantRow.connector
  /\ grant2.expire = grantRow.expire
  /\ row2.status \in HolderStatuses(grant2.status)
  /\ row2.status = "Active" => row.status = "Active"
  /\ row2 = [row EXCEPT !.status = row2.status, !.grant = grant2.status]
  /\ bound2.status \in {"Revoked", "SyncFailed"} /\ bound2.request = bound.request
  /\ grant2.status = "Revoked" => bound2.status = "Revoked"

\* Grant and request each decide for themselves whether they expired, and agree.
LEMMA AnsweredRows ==
  ASSUME NEW grantRow \in GrantRow, NEW row \in RequestRow, NEW bound \in SessionRow,
         NEW trigger, NEW outcome \in RevokeOutcomes,
         grantRow.status \in Ending \ {"Revoked"},
         row.grant = grantRow.status, row.status \in HolderStatuses(grantRow.status)
  PROVE  Answered(grantRow, row, bound,
                  GrantAfterRevoke(grantRow, trigger, outcome),
                  RequestAfterRevoke(row, grantRow, trigger, outcome),
                  SessionAfterRevoke(bound, outcome))
<1> DEFINE final == FinalStatus(grantRow, trigger)
           g2 == GrantAfterRevoke(grantRow, trigger, outcome)
           r2 == RequestAfterRevoke(row, grantRow, trigger, outcome)
           s2 == SessionAfterRevoke(bound, outcome)
<1>1. /\ s2.status = (IF outcome = "Succeeded" THEN "Revoked" ELSE "SyncFailed")
      /\ s2.request = bound.request
  BY DEF SessionAfterRevoke, SessionRow
<1>2. \/ grantRow.status = "Expired" /\ row.status = "Expired"
      \/ grantRow.status \in {"Revoking", "RevokeFailed"} /\ row.status \in Renewable
  BY HolderStatusesOf DEF Ending
<1>3. /\ final \in {"Expired", "Revoked"} /\ FinalStatus(row, trigger) = final
      /\ grantRow.status = "Expired" => final = "Expired"
  BY <1>2 DEF FinalStatus, Renewable
<1>4. CASE outcome = "Succeeded"
  <2>1. /\ g2 = [grantRow EXCEPT !.status = final]
        /\ r2 = [row EXCEPT !.status = final, !.grant = final]
    BY <1>3, <1>4 DEF GrantAfterRevoke, RequestAfterRevoke
  <2> HIDE DEF final, g2, r2, s2
  <2>2. /\ g2.status = final /\ g2.request = grantRow.request
        /\ g2.connector = grantRow.connector /\ g2.expire = grantRow.expire
        /\ r2.status = final
    BY <2>1 DEF GrantRow, RequestRow
  <2>3. final \in HolderStatuses(final)
    BY <1>3, HolderStatusesOf
  <2> QED
    BY <1>1, <1>3, <1>4, <2>1, <2>2, <2>3 DEF Answered, Ending, g2, r2, s2
<1>5. CASE outcome # "Succeeded" /\ final # "Expired"
  <2>1. /\ g2 = [grantRow EXCEPT !.status = "RevokeFailed"]
        /\ r2 = [row EXCEPT !.grant = "RevokeFailed"]
    BY <1>5 DEF GrantAfterRevoke, RequestAfterRevoke
  <2>2. grantRow.status # "Expired" /\ row.status \in Renewable
    BY <1>2, <1>5 DEF FinalStatus
  <2> HIDE DEF final, g2, r2, s2
  <2>3. /\ g2.status = "RevokeFailed" /\ g2.request = grantRow.request
        /\ g2.connector = grantRow.connector /\ g2.expire = grantRow.expire
        /\ r2.status = row.status
        /\ r2 = [row EXCEPT !.status = r2.status, !.grant = g2.status]
    BY <2>1 DEF GrantRow, RequestRow
  <2>4. row.status \in HolderStatuses("RevokeFailed")
    BY <2>2, HolderStatusesOf
  <2> QED
    BY <1>1, <1>5, <2>2, <2>3, <2>4 DEF Answered, Ending, g2, r2, s2
<1>6. CASE outcome # "Succeeded" /\ final = "Expired"
  <2>1. g2 = grantRow /\ r2 = row
    BY <1>6 DEF GrantAfterRevoke, RequestAfterRevoke
  <2> HIDE DEF final, g2, r2, s2
  <2>2. r2 = [row EXCEPT !.status = r2.status, !.grant = g2.status]
    BY <2>1 DEF RequestRow
  <2> QED
    BY <1>1, <1>6, <2>1, <2>2 DEF Answered, g2, r2, s2
<1> QED
  BY <1>4, <1>5, <1>6

\* The latest task, the only open one, decides session, grant and request.
LEMMA OneDecides ==
  ASSUME NEW g \in Grants, revokeTasks[g] \in Seq(RevokeTaskRow), Tracked(g),
         HasOpenRevoke(g), NEW done
  PROVE  /\ Deciding(done, g) = Len(revokeTasks[g]) /\ Newest(OpenOf(g)) = Deciding(done, g)
         /\ DecidingTrigger(done, g) = LatestOf(revokeTasks[g]).trigger
         /\ \A row \in RequestRow :
              RequestAfterTasks(done, g, row) =
                RequestAfterRevoke(row, grant[g], DecidingTrigger(done, g),
                                   Answer(done, g, Deciding(done, g)))
<1> DEFINE n == Len(revokeTasks[g])
<1>1. OpenOf(g) = {n} /\ Newest({n}) = n
  BY OneOpenTask
<1> HIDE DEF n
<1>2. Deciding(done, g) = n
  <2> DEFINE asked == {i \in OpenOf(g) : revokeTasks[g][i].trigger = "Requested"}
             expiring == {i \in OpenOf(g) \ asked : <<g, i>> \in done}
  <2>1. Deciding(done, g) =
          Newest(IF expiring # {} THEN expiring ELSE IF asked # {} THEN asked ELSE OpenOf(g))
    BY DEF Deciding
  <2>2. asked \in {{}, {n}} /\ expiring \in {{}, {n}}
    BY <1>1
  <2> HIDE DEF asked, expiring
  <2> QED
    BY <1>1, <2>1, <2>2
<1>3. DecidingTrigger(done, g) = LatestOf(revokeTasks[g]).trigger
  BY <1>2 DEF DecidingTrigger, LatestOf, n
<1>4. SomeDone(done, g) <=> Answer(done, g, n) = "Succeeded"
  BY <1>1 DEF SomeDone, Answer
<1>5. ASSUME NEW row \in RequestRow
      PROVE  RequestAfterTasks(done, g, row) =
               RequestAfterRevoke(row, grant[g], DecidingTrigger(done, g),
                                  Answer(done, g, Deciding(done, g)))
  <2> DEFINE trigger == DecidingTrigger(done, g)
             outcome == Answer(done, g, n)
             revoked == RequestAfterRevoke(row, grant[g], trigger, "Succeeded")
  <2>1. RequestAfterTasks(done, g, row) =
          RequestAfterRevoke(IF outcome = "Succeeded" THEN revoked ELSE row,
                             grant[g], trigger, outcome)
    BY <1>2, <1>4 DEF RequestAfterTasks
  <2> HIDE DEF trigger, outcome
  <2>2. RequestAfterRevoke(revoked, grant[g], trigger, "Succeeded") = revoked
    BY DEF RequestAfterRevoke, FinalStatus, RequestRow
  <2> HIDE DEF revoked
  <2>3. CASE outcome = "Succeeded"
    BY <1>2, <2>1, <2>2, <2>3 DEF revoked, trigger, outcome
  <2>4. CASE outcome # "Succeeded"
    BY <1>2, <2>1, <2>4 DEF trigger, outcome
  <2> QED
    BY <2>3, <2>4
<1> QED
  BY <1>1, <1>2, <1>3, <1>5 DEF n

LEMMA ProcessPendingMoves ==
  ASSUME HoldingInv, NEW done, ProcessPendingRevokes(done)
  PROVE  \E M \in SUBSET Grants : Moves(M)
<1> DEFINE Todo == {g \in Grants : HasOpenRevoke(g)}
<1>1. ASSUME NEW g \in Todo
      PROVE  /\ session[g].status \notin {"Absent", "Active", "Revoked"}
             /\ Exists(g) /\ grant[g].request \in Requests
             /\ grant[g].status \in Ending \ {"Revoked"}
  <2>1. Tracked(g) /\ revokeTasks[g] \in Seq(RevokeTaskRow)
    BY <1>1, RowTypes DEF HoldingInv, RevocationInv, RevocationTracked
  <2>2. ~NoRevokeTask(g) /\ IsOpen(LatestOf(revokeTasks[g]))
    BY <1>1, <2>1, LenProperties, EmptySeq
    DEF HasOpenRevoke, OpenOf, Tracked, NoRevokeTask, LatestOf
  <2>3. session[g].status \notin {"Absent", "Active", "Revoked"}
    BY <2>1, <2>2 DEF Tracked, SessionBy, IsOpen
  <2> QED
    BY <1>1, <2>3, RevocableGrant
<1>2. \A g \in Todo : Exists(g) /\ session[g].status # "Absent"
  BY <1>1
<1>3. ASSUME NEW g \in Todo PROVE Moved(g)
  <2> DEFINE r == grant[g].request
             trigger == DecidingTrigger(done, g)
             outcome == Answer(done, g, Deciding(done, g))
  <2>0. Tracked(g) /\ revokeTasks[g] \in Seq(RevokeTaskRow)
    BY <1>3, RowTypes DEF HoldingInv, RevocationInv, RevocationTracked
  <2>1. /\ grant'[g] = GrantAfterRevoke(grant[g], trigger, outcome)
        /\ session'[g] = SessionAfterRevoke(session[g], outcome)
    BY <1>3, <2>0, OneDecides DEF ProcessPendingRevokes
  <2>2. request'[r] = RequestAfterRevoke(request[r], grant[g], trigger, outcome)
    <3>1. BoundIn(Todo, r) = {g}
      BY <1>1, <1>2, <1>3, BoundHolder
    <3>2. (CHOOSE h \in BoundIn(Todo, r) : TRUE) = g
      BY <3>1
    <3>3. request'[r] =
            IF BoundIn(Todo, r) = {} THEN request[r]
            ELSE RequestAfterTasks(done, CHOOSE h \in BoundIn(Todo, r) : TRUE, request[r])
      BY <1>1, <1>3 DEF ProcessPendingRevokes
    <3>4. request[r] \in RequestRow
      BY <1>1, <1>3, RowTypes
    <3> HIDE DEF r, Todo
    <3>5. request'[r] = RequestAfterTasks(done, g, request[r])
      BY <3>1, <3>2, <3>3, Zenon
    <3> QED
      BY <1>3, <2>0, <3>4, <3>5, OneDecides DEF Todo
  <2>3. /\ request[r] \in RequestRow /\ grant[g] \in GrantRow /\ session[g] \in SessionRow
        /\ outcome \in RevokeOutcomes
        /\ request[r].grant = grant[g].status
        /\ request[r].status \in HolderStatuses(grant[g].status)
    BY <1>1, <1>3, RowTypes, HolderFacts, AnswerType
  <2> HIDE DEF r, trigger, outcome
  <2>4. Answered(grant[g], request[r], session[g], grant'[g], request'[r], session'[g])
    <3>1. Answered(grant[g], request[r], session[g],
                   GrantAfterRevoke(grant[g], trigger, outcome),
                   RequestAfterRevoke(request[r], grant[g], trigger, outcome),
                   SessionAfterRevoke(session[g], outcome))
      BY <1>1, <2>3, AnsweredRows
    <3> QED
      BY <2>1, <2>2, <3>1
  <2> QED
    BY <1>1, <1>3, <2>4 DEF Answered, Moved, Ending, Renewable, r
<1>4. \A g \in Grants \ Todo : grant'[g] = grant[g] /\ session'[g] = session[g]
  BY DEF ProcessPendingRevokes
<1>5. \A r \in Requests : (\A g \in Todo : grant[g].request # r) => request'[r] = request[r]
  BY <1>2, BoundHolder DEF ProcessPendingRevokes
<1>6. UNCHANGED approval
  BY DEF ProcessPendingRevokes
<1> HIDE DEF Todo
<1>7. Todo \in SUBSET Grants
  BY DEF Todo
<1> QED
  BY <1>3, <1>4, <1>5, <1>6, <1>7 DEF Moves

LEMMA RetryRevokeMoves ==
  ASSUME HoldingInv, NEW g \in Grants, NEW outcome \in RevokeOutcomes,
         RetryRevoke(g, outcome)
  PROVE  Moves({g})
<1> DEFINE r == grant[g].request
           asked == GrantAfterRequest(grant[g])
           askedRow == [request[r] EXCEPT !.grant = asked.status]
<1>1. /\ session[g].status = "SyncFailed"
      /\ grant[g].status \in Ending \ {"Revoked"} /\ Exists(g)
      /\ r \in Requests /\ session[g].request = r
  BY RevocableGrant DEF RetryRevoke, CanRetryRevoke
<1>2. /\ grant' = [grant EXCEPT ![g] = GrantAfterRevoke(asked, "Requested", outcome)]
      /\ session' = [session EXCEPT ![g] = SessionAfterRevoke(SessionAfterRequest(g), outcome)]
      /\ request' = [request EXCEPT
           ![r] = RequestAfterRevoke(askedRow, asked, "Requested", outcome)]
      /\ UNCHANGED approval
  BY <1>1, RowTypes DEF RetryRevoke
<1>3. /\ request[r] \in RequestRow /\ grant[g] \in GrantRow /\ session[g] \in SessionRow
      /\ request[r].status \in HolderStatuses(grant[g].status)
  BY <1>1, RowTypes, HolderFacts
<1> HIDE DEF r
<1>4. /\ asked \in GrantRow /\ asked.request = r /\ asked.connector = grant[g].connector
      /\ asked.expire = grant[g].expire
      /\ asked.status = IF grant[g].status = "Expired" THEN "Expired" ELSE "Revoking"
  BY <1>3 DEF GrantAfterRequest, GrantRow, GrantStatus, r
<1> HIDE DEF asked
<1>5. /\ askedRow \in RequestRow /\ askedRow.grant = asked.status
      /\ askedRow.status = request[r].status
  BY <1>3, <1>4 DEF RequestRow, GrantRow
<1>6. askedRow.status \in HolderStatuses(asked.status) /\ asked.status \in Ending \ {"Revoked"}
  BY <1>1, <1>3, <1>4, <1>5, HolderStatusesOf DEF Ending
<1> HIDE DEF askedRow
<1>7. SessionAfterRequest(g) \in SessionRow /\ SessionAfterRequest(g).request = session[g].request
  BY <1>3 DEF SessionAfterRequest, SessionRow, SessionStatus
<1>8. /\ grant'[g] = GrantAfterRevoke(asked, "Requested", outcome)
      /\ session'[g] = SessionAfterRevoke(SessionAfterRequest(g), outcome)
      /\ request'[r] = RequestAfterRevoke(askedRow, asked, "Requested", outcome)
  BY <1>1, <1>2, RowTypes
<1>9. Answered(asked, askedRow, SessionAfterRequest(g), grant'[g], request'[r], session'[g])
  <2>1. Answered(asked, askedRow, SessionAfterRequest(g),
                 GrantAfterRevoke(asked, "Requested", outcome),
                 RequestAfterRevoke(askedRow, asked, "Requested", outcome),
                 SessionAfterRevoke(SessionAfterRequest(g), outcome))
    BY <1>4, <1>5, <1>6, <1>7, AnsweredRows
  <2> QED
    BY <1>8, <2>1
<1>10. request'[r] = [request[r] EXCEPT !.status = request'[r].status,
                                        !.grant = grant'[g].status]
  <2>1. request'[r] = [askedRow EXCEPT !.status = request'[r].status,
                                       !.grant = grant'[g].status]
    BY <1>9 DEF Answered
  <2> QED
    BY <1>3, <2>1 DEF askedRow, RequestRow
<1>11. Moved(g)
  BY <1>1, <1>4, <1>5, <1>7, <1>9, <1>10 DEF Answered, Moved, Ending, Renewable, r
<1>12. \A h \in Grants \ {g} : grant'[h] = grant[h] /\ session'[h] = session[h]
  BY <1>2, RowTypes
<1>13. \A q \in Requests : (\A h \in {g} : grant[h].request # q) => request'[q] = request[q]
  BY <1>2, RowTypes DEF r
<1>14. {g} \in SUBSET Grants /\ (\A h \in {g} : Moved(h)) /\ UNCHANGED approval
  BY <1>2, <1>11
<1> QED
  BY <1>12, <1>13, <1>14 DEF Moves

LEMMA ReconcileMoves ==
  ASSUME HoldingInv, ReconcileGrantLifecycle
  PROVE  Moves(Due \cup Nearing)
<1> DEFINE M == Due \cup Nearing
<1>1. \A g \in Grants : ~(g \in Due /\ g \in Nearing)
  <2>1. \A g \in Grants : grant[g].expire \in Nat
    BY RowTypes DEF GrantRow
  <2> QED
    BY <2>1, RowTypes DEF Due, Nearing
<1>2. ASSUME NEW g \in M
      PROVE  /\ g \in Grants /\ grant[g].status \in Renewable /\ Exists(g)
             /\ session[g].status = "Active" /\ session[g].request = grant[g].request
             /\ grant[g].request \in Requests
  <2>1. g \in Grants /\ grant[g].status \in Renewable /\ Exists(g)
    BY <1>2 DEF Due, Nearing, Exists, Renewable
  <2>2. session[g].status = "Active"
    BY <2>1 DEF HoldingInv, GrantParts, Acting
  <2> QED
    BY <2>1, <2>2, HolderFacts
<1>3. M \in SUBSET Grants
  BY DEF Due, Nearing
\* What the reconciliation finds of a request is the one grant it holds.
<1>4. ASSUME NEW r \in Requests, NEW S \in SUBSET M
      PROVE  /\ RequestOf(S, r) <=> \E g \in S : grant[g].request = r
             /\ BoundIn(S, r) # {} <=> \E g \in S : grant[g].request = r
  <2>1. \A g \in S : session[g].request = grant[g].request
    BY <1>2, <1>4
  <2> HIDE DEF M
  <2> QED
    BY <2>1 DEF RequestOf, BoundIn
<1>5. Reclaimed \in SUBSET M /\ Due \in SUBSET M
      /\ {g \in Nearing : grant[g].status = "Active"} \in SUBSET M
  BY DEF Reclaimed
<1>6. \A r \in Requests : request'[r] = RequestAfterReconcile(r)
  BY DEF ReconcileGrantLifecycle
<1>7. ASSUME NEW g \in Due PROVE Moved(g)
  <2> DEFINE r == grant[g].request
  <2>1. /\ g \in M /\ g \in Grants /\ grant[g].status \in Renewable /\ Exists(g)
        /\ session[g].status = "Active" /\ r \in Requests
    BY <1>2, <1>7
  <2>2. grant[g] \in GrantRow /\ session[g] \in SessionRow /\ request[r] \in RequestRow
    BY <2>1, RowTypes
  <2>3. grant'[g] = [grant[g] EXCEPT !.status = "Expired"]
    BY <1>1, <1>7, <2>1 DEF ReconcileGrantLifecycle
  <2>4. session'[g] = SessionAfterRequest(g)
    BY <1>7, <2>1 DEF ReconcileGrantLifecycle, Reclaimed, Revocable
  <2>5. request'[r] = [request[r] EXCEPT !.status = "Expired", !.grant = "Expired"]
    BY <1>4, <1>5, <1>6, <1>7, <2>1 DEF RequestAfterReconcile
  <2> HIDE DEF r, M
  <2>6. /\ grant'[g].status = "Expired" /\ grant'[g].request = r
        /\ grant'[g].connector = grant[g].connector /\ grant'[g].expire = grant[g].expire
    BY <2>2, <2>3 DEF GrantRow, r
  <2>7. session'[g].status = "Revoking" /\ session'[g].request = session[g].request
    BY <2>1, <2>2, <2>4 DEF SessionAfterRequest, SessionRow, Retrying
  <2>8. request'[r].status = "Expired"
    BY <2>2, <2>5 DEF RequestRow
  <2>9. request'[r].status \in HolderStatuses(grant'[g].status)
    BY <2>6, <2>8, HolderStatusesOf
  <2> QED
    BY <2>1, <2>5, <2>6, <2>7, <2>8, <2>9 DEF Moved, Ending, Renewable, r
<1>8. ASSUME NEW g \in Nearing PROVE Moved(g)
  <2> DEFINE r == grant[g].request
  <2>1. /\ g \in M /\ g \in Grants /\ grant[g].status \in Renewable /\ Exists(g)
        /\ session[g].status = "Active" /\ r \in Requests
    BY <1>2, <1>8
  <2>2. grant[g] \in GrantRow /\ session[g] \in SessionRow /\ request[r] \in RequestRow
    BY <2>1, RowTypes
  <2>3. g \notin Due /\ g \notin Reclaimed
    BY <1>1, <1>8, <2>1 DEF Reclaimed
  <2>4. grant'[g] = [grant[g] EXCEPT !.status = "Expiring"] /\ session'[g] = session[g]
    BY <1>8, <2>1, <2>3 DEF ReconcileGrantLifecycle, ExpiringRow
  <2>5. \A h \in Grants : grant[h].request = r => h = g
    BY <2>1, HolderFacts
  <2>6. /\ request[r].grant = grant[g].status
        /\ request[r].status = grant[g].status
    BY <2>1, HolderFacts, HolderStatusesOf DEF Renewable
  <2>7. ~RequestOf(Due, r) /\ BoundIn(Reclaimed, r) = {}
    BY <1>4, <1>5, <2>1, <2>3, <2>5 DEF Due, Reclaimed
  <2>8. RequestOf({h \in Nearing : grant[h].status = "Active"}, r) <=> grant[g].status = "Active"
    BY <1>4, <1>5, <1>8, <2>1, <2>5 DEF Nearing
  <2>9. request'[r] = [request[r] EXCEPT !.status = "Expiring", !.grant = "Expiring"]
    <3>1. CASE grant[g].status = "Active"
      BY <1>6, <2>1, <2>7, <2>8, <3>1 DEF RequestAfterReconcile
    <3>2. CASE grant[g].status = "Expiring"
      <4>1. request'[r] = request[r]
        BY <1>6, <2>1, <2>7, <2>8, <3>2 DEF RequestAfterReconcile
      <4> QED
        BY <2>2, <2>6, <3>2, <4>1 DEF RequestRow
    <3> QED
      BY <2>1, <3>1, <3>2 DEF Renewable
  <2> HIDE DEF r, M
  <2>10. /\ grant'[g].status = "Expiring" /\ grant'[g].request = r
         /\ grant'[g].connector = grant[g].connector /\ grant'[g].expire = grant[g].expire
    BY <2>2, <2>4 DEF GrantRow, r
  <2>11. request'[r].status = "Expiring"
    BY <2>2, <2>9 DEF RequestRow
  <2>12. request'[r].status \in HolderStatuses(grant'[g].status)
    BY <2>10, <2>11, HolderStatusesOf
  <2> QED
    BY <2>1, <2>4, <2>9, <2>10, <2>11, <2>12 DEF Moved, Ending, Renewable, r
<1>9. \A g \in M : Moved(g)
  BY <1>7, <1>8
<1>10. \A g \in Grants \ M : grant'[g] = grant[g] /\ session'[g] = session[g]
  BY DEF ReconcileGrantLifecycle, Reclaimed
<1>11. ASSUME NEW r \in Requests, \A g \in M : grant[g].request # r
       PROVE  request'[r] = request[r]
  <2>1. \A S \in SUBSET M : ~RequestOf(S, r) /\ BoundIn(S, r) = {}
    BY <1>4, <1>11
  <2> HIDE DEF M
  <2> QED
    BY <1>5, <1>6, <2>1 DEF RequestAfterReconcile
<1>12. UNCHANGED approval
  BY DEF ReconcileGrantLifecycle
<1> QED
  BY <1>3, <1>9, <1>10, <1>11, <1>12 DEF Moves

-----------------------------------------------------------------------------
(***************************************************************************)
(* Every transaction has one of these shapes.                              *)
(***************************************************************************)
StepShape ==
  \/ UNCHANGED <<request, approval, grant, session>>
  \/ \E r \in Requests : RequestWritten(r)
  \/ \E r \in Requests, g \in Grants, outcome \in ProvisionOutcomes, expire, retry \in Nat :
       Provisioned(r, g, expire, retry, outcome)
  \/ \E r \in Requests : RenewedRows(r)
  \/ \E M \in SUBSET Grants : Moves(M)

LEMMA ProvisionedShape ==
  ASSUME HoldingInv, NEW r \in Requests, NEW g \in Grants, NEW outcome \in ProvisionOutcomes,
         \/ ProvisionGrant(r, g, outcome)
         \/ RetryProvision(r, g, outcome)
         \/ g = DefaultGrant[r]
              /\ Provisioned(r, DefaultGrant[r], now + request[r].duration, 0, outcome)
  PROVE  StepShape
<1>1. now + request[r].duration \in Nat /\ grant[g].expire \in Nat
  BY RowTypes DEF RequestRow, GrantRow
<1>2. CASE RetryProvision(r, g, outcome)
  <2> DEFINE retry == LatestOf(provisionTasks[g]).retry + 1
  <2>1. LatestOf(provisionTasks[g]) \in ProvisionTaskRow
    BY <1>2, RowTypes, LatestInRow DEF RetryProvision, CanRetryProvision
  <2>2. retry \in Nat
    BY <2>1 DEF ProvisionTaskRow
  <2>3. Provisioned(r, g, grant[g].expire, retry, outcome)
    BY <1>2, RetryProvisionProvisions
  <2> HIDE DEF retry
  <2> QED
    BY <1>1, <2>2, <2>3 DEF StepShape
<1>3. CASE ProvisionGrant(r, g, outcome)
  <2>1. Provisioned(r, g, now + request[r].duration, 0, outcome)
    BY <1>3, ProvisionGrantProvisions
  <2> QED
    BY <1>1, <2>1 DEF StepShape
<1>4. CASE g = DefaultGrant[r]
             /\ Provisioned(r, DefaultGrant[r], now + request[r].duration, 0, outcome)
  BY <1>1, <1>4 DEF StepShape
<1> QED
  BY <1>2, <1>3, <1>4

LEMMA CallbackShape ==
  ASSUME HoldingInv, CallbackStep
  PROVE  StepShape
<1> PICK r \in Requests, k \in Keys :
      \/ \E outcome \in ProvisionOutcomes : ApproveRequest(r, k, outcome)
      \/ ApproveRenewal(r, k)
      \/ \E status \in Denials : DenyRequest(r, k, status)
      \/ FailCallback(r, k)
      \/ RefuseCallback(r, k)
  BY DEF CallbackStep
<1>1. CASE \E outcome \in ProvisionOutcomes : ApproveRequest(r, k, outcome)
  <2>1. PICK outcome \in ProvisionOutcomes : ApproveRequest(r, k, outcome)
    BY <1>1
  <2>2. DefaultGrant[r] \in Grants
    BY AccessStateAssumption
  <2>3. CASE Provisioned(r, DefaultGrant[r], now + request[r].duration, 0, outcome)
    BY <2>2, <2>3, ProvisionedShape
  <2>4. CASE RequestWritten(r)
    BY <2>4 DEF StepShape
  <2> QED
    BY <2>1, <2>3, <2>4, ApproveRequestShape
<1>2. CASE ApproveRenewal(r, k)
  BY <1>2, ApproveRenewalShape DEF StepShape
<1>3. CASE \E status \in Denials : DenyRequest(r, k, status)
  BY <1>3, DenyWrites DEF StepShape
<1>4. CASE FailCallback(r, k)
  BY <1>4, FailCallbackWrites DEF StepShape
<1>5. CASE RefuseCallback(r, k)
  BY <1>5, RefuseCallbackWrites DEF StepShape
<1> QED
  BY <1>1, <1>2, <1>3, <1>4, <1>5

LEMMA NextShape == HoldingInv /\ [Next]_vars => StepShape
<1> SUFFICES ASSUME HoldingInv, [Next]_vars PROVE StepShape
  OBVIOUS
<1>1. CASE \E r \in Requests : CreateRequest(r)
  BY <1>1, AppearsWrites DEF StepShape, CreateRequest, Appears
<1>2. CASE EvaluationStep
  BY <1>2, EvaluateWrites, FailEvaluationWrites DEF EvaluationStep, StepShape
<1>3. CASE CallbackStep
  BY <1>3, CallbackShape
<1>4. CASE ProvisionStep
  BY <1>4, ProvisionedShape DEF ProvisionStep
<1>5. CASE RenewStep
  BY <1>5, RenewWrites DEF RenewStep, StepShape
<1>6. CASE RevokeStep
  <2>1. CASE \E g \in Grants : RevokeSession(g)
    BY <2>1, RevokeSessionMoves DEF StepShape
  <2>2. CASE \E a \in Agents : DisableAgent(a)
    BY <2>2, DisableAgentMoves DEF StepShape, SessionsOf
  <2>3. CASE \E g \in Grants, outcome \in RevokeOutcomes : RetryRevoke(g, outcome)
    BY <2>3, RetryRevokeMoves DEF StepShape
  <2> QED
    BY <1>6, <2>1, <2>2, <2>3 DEF RevokeStep
<1>7. CASE ProcessPendingStep
  BY <1>7, ProcessPendingMoves DEF ProcessPendingStep, StepShape
<1>8. CASE ReconcileGrantLifecycle
  <2>1. Due \cup Nearing \in SUBSET Grants
    BY DEF Due, Nearing
  <2> QED
    BY <1>8, <2>1, ReconcileMoves DEF StepShape
<1>9. CASE Tick
  BY <1>9 DEF Tick, StepShape
<1>10. CASE UNCHANGED vars
  BY <1>10 DEF vars, StepShape
<1> QED
  BY <1>1, <1>2, <1>3, <1>4, <1>5, <1>6, <1>7, <1>8, <1>9, <1>10 DEF Next

LEMMA UntouchedHolding ==
  ASSUME HoldingInv, RevocationInv', UNCHANGED <<request, approval, grant, session>>
  PROVE  HoldingInv'
<1>1. GrantMirrored' /\ OneHolder' /\ GrantParts'
  BY DEF HoldingInv, GrantMirrored, OneHolder, GrantParts, Unused, Acting, ApprovedHolder,
     Exists
<1>2. OpenApprovalIsAwaited' /\ DeniedHoldsNothing' /\ OneOpenRenewal' /\ RequestParts'
  BY DEF HoldingInv, OpenApprovalIsAwaited, DeniedHoldsNothing, OneOpenRenewal, RequestParts,
     RecordOf, RenewalOf
<1> QED
  BY <1>1, <1>2 DEF HoldingInv

LEMMA HoldingInvNext == HoldingInv /\ [Next]_vars => HoldingInv'
<1> SUFFICES ASSUME HoldingInv, [Next]_vars PROVE HoldingInv'
  OBVIOUS
<1>1. RevocationInv'
  BY RevocationInvNext DEF HoldingInv
<1>2. StepShape
  BY NextShape
<1> QED
  BY <1>1, <1>2, UntouchedHolding, RequestWrittenHolding, ProvisionedHolding, RenewedHolding,
     MovedHolding DEF StepShape

LEMMA HoldingInvAlways == Spec => []HoldingInv
BY HoldingInvInit, HoldingInvNext, PTL DEF Spec

-----------------------------------------------------------------------------
(***************************************************************************)
(* The theorems, for any number of requests, grants, agents, callbacks,    *)
(* retries and renewal rounds.                                             *)
(***************************************************************************)
\* Seven handlers write requests, grants and sessions: after every transaction
\* the request that holds a grant shows the grant's status, has a status that
\* goes with it, and is the request the session is bound to.
THEOREM HolderMirrorsGrant == Spec => []GrantMirrored
<1>1. HoldingInv => GrantMirrored
  BY DEF HoldingInv
<1> QED
  BY <1>1, HoldingInvAlways, PTL

\* Initial provisioning, retries and renewals never give one request two
\* grants, and every request that says it has access holds one.
THEOREM GrantHasOneHolder == Spec => []OneHolder
<1>1. HoldingInv => OneHolder
  BY DEF HoldingInv
<1> QED
  BY <1>1, HoldingInvAlways, PTL

\* However callbacks, evaluations and retries interleave, an open approval
\* record is one its request still waits for.
THEOREM OpenApprovalsAreAwaited == Spec => []OpenApprovalIsAwaited
<1>1. HoldingInv => OpenApprovalIsAwaited
  BY DEF HoldingInv
<1> QED
  BY <1>1, HoldingInvAlways, PTL

\* No handler provisions a request whose approval was denied, also not after
\* it was evaluated again and found to need no approval.
THEOREM DeniedRequestsHoldNothing == Spec => []DeniedHoldsNothing
<1>1. HoldingInv => DeniedHoldsNothing
  BY DEF HoldingInv
<1> QED
  BY <1>1, HoldingInvAlways, PTL

\* The search for an open renewal compares the round and the grant as well as
\* the source; the rounds never differ for one source, so that it misses none.
THEOREM RenewalsAreExclusive == Spec => []OneOpenRenewal
<1>1. HoldingInv => OneOpenRenewal
  BY DEF HoldingInv
<1> QED
  BY <1>1, HoldingInvAlways, PTL

\* The authority an agent acts with always rests on a grant in force, applied
\* by the connector, held by the session's own approved request.
THEOREM SessionsAreBacked == Spec => []SessionBacked
<1>1. HoldingInv => SessionBacked
  <2> SUFFICES ASSUME HoldingInv, NEW g \in Grants, session[g].status = "Active"
               PROVE  LET r == grant[g].request IN
                      /\ session[g].request = r
                      /\ grant[g].status \in Renewable
                      /\ grant[g].connector = "Applied"
                      /\ request[r].status = grant[g].status
                      /\ request[r].approval = "Approved" /\ approval[r].status = "Approved"
                      /\ request[r].deliverable
                      /\ NoRevokeTask(g)
    BY DEF SessionBacked
  <2>1. Acting(g) /\ ApprovedHolder(g) /\ Tracked(g)
    BY DEF HoldingInv, GrantParts, RevocationInv, RevocationTracked
  <2>2. grant[g].status \in Renewable /\ Exists(g) /\ NoRevokeTask(g)
    BY <2>1 DEF Acting, Tracked, Exists, Renewable
  <2>3. request[grant[g].request].status = grant[g].status
    BY <2>2, HolderFacts, HolderStatusesOf DEF Renewable
  <2> QED
    BY <2>1, <2>2, <2>3, HolderFacts DEF Acting, ApprovedHolder
<1> QED
  BY <1>1, HoldingInvAlways, PTL

\* The list of failed tasks reads grants, tasks and sessions, the retry reads
\* the request and its policy: no retry that would be accepted is missing from
\* the list, and of what it offers only the provisioning for a request whose
\* evaluation failed since is refused.
THEOREM RetriesStayOffered == Spec => []RetriesAreOffered
<1>1. HoldingInv => RetriesAreOffered
  <2> SUFFICES ASSUME HoldingInv, NEW g \in Grants
               PROVE  LET r == grant[g].request IN
                      /\ Exists(g) =>
                           /\ CanRetryProvision(r, g) => ListedProvision(g)
                           /\ ListedProvision(g) =>
                                CanRetryProvision(r, g) \/ EvaluationFailed(r)
                      /\ ListedRevoke(g) <=> CanRetryRevoke(g)
    BY DEF RetriesAreOffered
  <2> DEFINE r == grant[g].request
  <2>1. ListedRevoke(g) <=> CanRetryRevoke(g)
    BY RevocableGrant DEF ListedRevoke, CanRetryRevoke
  <2>2. ASSUME Exists(g)
        PROVE  /\ CanRetryProvision(r, g) => ListedProvision(g)
               /\ ListedProvision(g) => CanRetryProvision(r, g) \/ EvaluationFailed(r)
    <3>1. ApprovedHolder(g) /\ NoOtherGrant(r, g)
      BY <2>2, HolderFacts DEF HoldingInv, GrantParts, NoOtherGrant
    <3>2. provisionTasks[g] # <<>> => LatestOf(provisionTasks[g]).retry \in Nat
      BY RowTypes, LatestInRow DEF ProvisionTaskRow
    <3>3. MaxRetry \in Nat
      BY AccessStateAssumption
    <3>4. request[r].status = "Failed" => request[r].approval \in {"Approved", "NotRequired"}
      BY <2>2, <3>1 DEF ApprovedHolder
    <3> QED
      BY <2>2, <3>1, <3>2, <3>3, <3>4
      DEF ListedProvision, CanRetryProvision, RecheckPolicy, ApprovedHolder, NoRevokeTask,
          EvaluationFailed
  <2> QED
    BY <2>1, <2>2
<1> QED
  BY <1>1, HoldingInvAlways, PTL

=============================================================================
