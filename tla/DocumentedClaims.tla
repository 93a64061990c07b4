-------------------------- MODULE DocumentedClaims --------------------------
(***************************************************************************)
(* What the repository's documents, comments and assertions say of the     *)
(* system and the code does not keep.  Each claim has a run of its own in  *)
(* which TLC shows a behaviour of the code that breaks it.                 *)
(***************************************************************************)
EXTENDS AccessSystem

\* packages/domain/models.py:356-357, PermissionRequest.__post_init__, and
\* docs/agent-identity-permission-state-machine.md:95: an Active request has
\* an Active grant, so that every committed request can be read.  Asking for
\* its session to be revoked sets the request's grant status to Revoking and
\* leaves the request Active: until the connector has answered, reading it,
\* or listing a page it is on, raises.
RequestsReadable == \A r \in Requests : Readable(request[r])

\* docs/agent-identity-permission-integration-spec.md:192: a scheduled task
\* reclaims an expired grant by having the connector delete it.  The scheduled
\* task only queues the revocation; the task that calls the connector is not
\* scheduled.
ExpiryReachesConnector ==
  \A g \in Grants :
    grant[g].status = "Expired" /\ session[g].status = "Revoking" ~>
      session[g].status # "Revoking"

=============================================================================
