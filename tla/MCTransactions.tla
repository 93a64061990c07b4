--------------------------- MODULE MCTransactions ---------------------------
(***************************************************************************)
(* Small instances of AccessTransactions for TLC, as MCAccess.             *)
(***************************************************************************)
EXTENDS MCAccess, AccessTransactions

\* Constraint: the second grant is there only while the clock stands.
Explored ==
  /\ Approvable
  /\ now > 0 => \A g, h \in Grants : Exists(g) /\ Exists(h) => g = h
=============================================================================
