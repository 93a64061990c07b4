------------------------------ MODULE MCAccess ------------------------------
(***************************************************************************)
(* Small instances of AccessSystem for TLC.  The .cfg files name their     *)
(* requests r1, r2, r3, their grants g1, g2 and their agent a1.            *)
(***************************************************************************)
EXTENDS AccessRights, TLC

CONSTANTS g1, a1

\* Every request is created for the one agent.
OneAgent == [r \in Requests |-> a1]

\* Every request has the same default grant id (a truncated hash of its own):
\* with one grant the requests compete for it and renew it, with two the
\* second request needs the provision endpoint, whose caller names a grant.
OneGrant == [r \in Requests |-> g1]

\* OneAgent and OneGrant treat the requests alike; nothing tells keys apart.
Symmetry == Permutations(Requests) \cup Permutations(Keys)

\* Constraint: requests whose evaluation succeeds, asks for an approval and
\* finds them within scope.  The others obtain no grant.
Approvable ==
  \A r \in Requests :
    request[r].status \in {"PendingApproval", "Failed"} =>
      request[r].approval # "NotRequired" /\ request[r].deliverable
=============================================================================
