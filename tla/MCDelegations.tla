---------------------------- MODULE MCDelegations ----------------------------
(***************************************************************************)
(* Small instances of Delegations for TLC, as MCAccess.                    *)
(***************************************************************************)
EXTENDS MCAccess, Delegations

CONSTANTS doc

\* The capability of the agent, of the resource types doc and report.
OnlyDoc == [a \in Agents |-> {doc}]

\* Constraint: a request is followed until its grant ends; how its session is
\* revoked then is left to MCAccess.
Explored == Approvable /\ \A g \in Grants : NoRevokeTask(g)

DelegationSymmetry ==
  Permutations(Requests) \cup Permutations(Keys) \cup Permutations(Users)
    \cup Permutations(DelegationIds) \cup Permutations(CallKeys)
=============================================================================
