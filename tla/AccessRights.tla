---------------------------- MODULE AccessRights ----------------------------
(***************************************************************************)
(* AccessSystem implements AccessRight: the right that a grant id stands   *)
(* for, read off its grant and its session.                                *)
(***************************************************************************)
EXTENDS AccessSystem

\* A grant on its way out has ended when its session is revoked.
PhaseOf(g) ==
  CASE grant[g].status = "NotCreated"                          -> "none"
    [] grant[g].status \in {"Provisioning", "ProvisionFailed"} -> "offered"
    [] grant[g].status \in Renewable                           -> "inForce"
    [] grant[g].status \in Ending ->
         IF session[g].status \in {"Absent", "Revoked"} THEN "ended" ELSE "ending"

RightOf(g) ==
  [phase |-> PhaseOf(g), holder |-> grant[g].request, until |-> grant[g].expire]

Right == INSTANCE AccessRight WITH right <- [g \in Grants |-> RightOf(g)]

\* Whatever the handlers do to grants, sessions, requests and tasks, in any
\* order, each grant id goes through the life of one right: in force once,
\* held by one request at a time, prolonged by renewals only, and closed at
\* the connector before it counts as ended.
RightsKept == Right!RightSpec

=============================================================================
