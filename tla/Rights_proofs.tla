---------------------------- MODULE Rights_proofs ----------------------------
(***************************************************************************)
(* Proof that AccessSystem implements AccessRight: every transaction makes *)
(* of each grant id's right a step of its life, or leaves it as it is, and *)
(* gives a new holder to one right at most.                                *)
(***************************************************************************)
EXTENDS Holding_proofs, AccessRights

\* Nobody else has a right of the holder that takes this one.
TakenBy(r) == r \in Requests /\ HoldsNothing(r)

Advances(g) ==
  LET old == RightOf(g)
      new == RightOf(g)'
  IN
  \/ /\ old.phase = "none" /\ new.phase \in {"offered", "inForce"}
     /\ TakenBy(new.holder)
  \/ /\ old.phase = "offered" /\ new = [old EXCEPT !.phase = "inForce"]
  \/ /\ old.phase = "inForce" /\ new.phase = "inForce"
     /\ TakenBy(new.holder) /\ new.until > old.until
  \/ /\ old.phase = "inForce" /\ new = [old EXCEPT !.phase = "ending"]
  \/ /\ old.phase = "ending" /\ new = [old EXCEPT !.phase = "ended"]

HolderKept(g) == grant'[g].request = grant[g].request

\* What is to be shown of a step of the service.
RightsAdvance ==
  /\ \A g \in Grants : RightOf(g)' = RightOf(g) \/ Advances(g)
  /\ \A g, h \in Grants : HolderKept(g) \/ HolderKept(h) \/ g = h

LEMMA HeldRights ==
  ASSUME NEW r
  PROVE  HoldsNothing(r) <=> Right!Unheld(r)
BY DEF HoldsNothing, Right!Unheld, RightOf

LEMMA AdvanceIsStep ==
  ASSUME NEW g \in Grants, Advances(g)
  PROVE  Right!RightStep(g)
<1> DEFINE rights == [h \in Grants |-> RightOf(h)]
<1>1. rights[g] = RightOf(g) /\ rights'[g] = RightOf(g)'
  OBVIOUS
<1> QED
  BY <1>1, HeldRights DEF Advances, TakenBy, Right!RightStep, Right!Offer, Right!Confirm,
     Right!Renew, Right!Withdraw, Right!Close, Right!MovesTo

LEMMA KeptRight ==
  ASSUME NEW g \in Grants, grant'[g] = grant[g], session'[g] = session[g]
  PROVE  RightOf(g)' = RightOf(g) /\ HolderKept(g)
BY DEF RightOf, PhaseOf, HolderKept

\* How the right is read off the grant's status and the session's.
PhaseRead(g) ==
  /\ grant[g].status = "NotCreated" => RightOf(g).phase = "none"
  /\ grant[g].status \in {"Provisioning", "ProvisionFailed"} => RightOf(g).phase = "offered"
  /\ grant[g].status \in Renewable => RightOf(g).phase = "inForce"
  /\ grant[g].status \in Ending =>
       RightOf(g).phase = IF session[g].status \in {"Absent", "Revoked"} THEN "ended" ELSE "ending"
  /\ RightOf(g).holder = grant[g].request /\ RightOf(g).until = grant[g].expire

LEMMA PhasesByStatus == \A g \in Grants : PhaseRead(g)
<1> SUFFICES ASSUME NEW g \in Grants PROVE PhaseRead(g)
  OBVIOUS
<1>1. ASSUME grant[g].status = "NotCreated" PROVE PhaseOf(g) = "none"
  BY <1>1 DEF PhaseOf, Renewable, Ending
<1>2. ASSUME grant[g].status \in {"Provisioning", "ProvisionFailed"} PROVE PhaseOf(g) = "offered"
  BY <1>2 DEF PhaseOf, Renewable, Ending
<1>3. ASSUME grant[g].status \in Renewable PROVE PhaseOf(g) = "inForce"
  BY <1>3 DEF PhaseOf, Renewable, Ending
<1>4. ASSUME grant[g].status \in Ending
      PROVE  PhaseOf(g) = IF session[g].status \in {"Absent", "Revoked"} THEN "ended" ELSE "ending"
  BY <1>4 DEF PhaseOf, Renewable, Ending
<1> QED
  BY <1>1, <1>2, <1>3, <1>4 DEF PhaseRead, RightOf

LEMMA PhasesAfter == \A g \in Grants : PhaseRead(g)'
<1>1. (\A g \in Grants : PhaseRead(g))'
  BY PhasesByStatus, PTL
<1> QED
  BY <1>1

LEMMA RightFields ==
  ASSUME NEW g \in Grants, NEW phase,
         RightOf(g)'.phase = phase, HolderKept(g), grant'[g].expire = grant[g].expire
  PROVE  RightOf(g)' = [RightOf(g) EXCEPT !.phase = phase]
BY DEF RightOf, HolderKept

\* A provisioning offers a right to a request without one, and may bring it
\* into force; the provisioning of a failed one may do so for its own holder.
LEMMA ProvisionedRights ==
  ASSUME HoldingInv, NEW r \in Requests, NEW g \in Grants, NEW expire \in Nat, NEW retry \in Nat,
         NEW outcome \in ProvisionOutcomes, Provisioned(r, g, expire, retry, outcome)
  PROVE  RightsAdvance
<1>1. /\ grant' = [grant EXCEPT ![g] =
           [status |-> GrantStatusAfter(outcome), connector |-> ConnectorStatusAfter(outcome),
            request |-> r, expire |-> expire]]
  BY DEF Provisioned, ProvisionEffect
<1>2. grant'[g].request = r /\ grant'[g].status = GrantStatusAfter(outcome) /\ grant'[g].expire = expire
  BY <1>1, RowTypes
<1>3. grant'[g].status \in {"Provisioning", "ProvisionFailed", "Active"}
  BY <1>2, OutcomeStatuses
<1>4. \A h \in Grants \ {g} : grant'[h] = grant[h] /\ session'[h] = session[h]
  BY <1>1, RowTypes DEF Provisioned, ProvisionEffect
<1>5. \A h \in Grants \ {g} : RightOf(h)' = RightOf(h) /\ HolderKept(h)
  BY <1>4, KeptRight
<1>6. RightOf(g)'.phase \in {"offered", "inForce"}
  BY <1>3, PhasesAfter DEF PhaseRead, Renewable
<1>7. RightOf(g)' = RightOf(g) \/ Advances(g)
  <2>1. CASE grant[g].status = "NotCreated" /\ HoldsNothing(r)
    BY <1>2, <1>6, <2>1, PhasesByStatus, PhasesAfter DEF PhaseRead, Advances, TakenBy
  <2>2. CASE /\ grant[g].status = "ProvisionFailed" /\ grant[g].request = r
             /\ expire = grant[g].expire
    <3>1. RightOf(g).phase = "offered"
      BY <2>2, PhasesByStatus DEF PhaseRead
    <3>2. RightOf(g)' = [RightOf(g) EXCEPT !.phase = RightOf(g)'.phase]
      BY <1>2, <2>2, RightFields DEF HolderKept
    <3>3. [RightOf(g) EXCEPT !.phase = "offered"] = RightOf(g)
      BY <3>1 DEF RightOf
    <3> QED
      BY <1>6, <3>1, <3>2, <3>3 DEF Advances
  <2> QED
    BY <2>1, <2>2 DEF Provisioned
<1> QED
  BY <1>5, <1>7 DEF RightsAdvance

\* The approval of a renewal passes the right on, for longer.
LEMMA RenewedRights ==
  ASSUME HoldingInv, NEW r \in Requests, RenewedRows(r)
  PROVE  RightsAdvance
<1> PICK g \in Grants : g = request[r].renews
  BY DEF RenewedRows
<1>1. \A h \in Grants \ {g} : RightOf(h)' = RightOf(h) /\ HolderKept(h)
  BY KeptRight DEF RenewedRows
<1>2. g \in Grants /\ HoldsNothing(r) /\ grant[g].status \in Renewable /\ grant'[g].status = "Active"
      /\ grant'[g].request = r /\ request[r].duration > 0
      /\ grant'[g].expire = grant[g].expire + request[r].duration
  BY DEF RenewedRows
<1>3. grant[g].expire \in Nat /\ request[r].duration \in Nat
  BY <1>2, RowTypes DEF GrantRow, RequestRow
<1>4. grant'[g].expire > grant[g].expire
  BY <1>2, <1>3
<1>5. RightOf(g).phase = "inForce" /\ RightOf(g)'.phase = "inForce"
  BY <1>2, PhasesByStatus, PhasesAfter DEF PhaseRead, Renewable
<1>6. Advances(g)
  BY <1>2, <1>4, <1>5, PhasesByStatus, PhasesAfter DEF PhaseRead, Advances, TakenBy
<1> QED
  BY <1>1, <1>2, <1>6 DEF RightsAdvance

\* Revocations and reconciliation withdraw or close rights, any number of
\* them at once, and a right is closed only if it was withdrawn before.
LEMMA MovesRights ==
  ASSUME HoldingInv, NEW M \in SUBSET Grants, Moves(M)
  PROVE  RightsAdvance
<1>1. \A g \in Grants \ M : RightOf(g)' = RightOf(g) /\ HolderKept(g)
  BY KeptRight DEF Moves
<1>2. ASSUME NEW g \in M
      PROVE  HolderKept(g) /\ (RightOf(g)' = RightOf(g) \/ Advances(g))
  <2>1. Moved(g) /\ g \in Grants
    BY DEF Moves
  <2>2. HolderKept(g) /\ grant'[g].expire = grant[g].expire
    BY <2>1 DEF Moved, HolderKept
  <2>3. RightOf(g).phase \in {"inForce", "ending"}
    BY <2>1, PhasesByStatus DEF PhaseRead, Moved
  <2>4. RightOf(g)'.phase \in {"inForce", "ending", "ended"}
    BY <2>1, PhasesAfter DEF PhaseRead, Moved, Renewable
  <2>5. RightOf(g)'.phase = "inForce" => RightOf(g).phase = "inForce"
    BY <2>1, PhasesByStatus, PhasesAfter DEF PhaseRead, Moved, Renewable, Ending
  <2>6. RightOf(g)'.phase = "ended" => RightOf(g).phase = "ending"
    BY <2>1, PhasesByStatus, PhasesAfter DEF PhaseRead, Moved, Renewable, Ending
  <2>7. RightOf(g)' = [RightOf(g) EXCEPT !.phase = RightOf(g)'.phase]
    BY <2>1, <2>2, RightFields
  <2>8. [RightOf(g) EXCEPT !.phase = RightOf(g).phase] = RightOf(g)
    BY DEF RightOf
  <2> QED
    BY <2>2, <2>3, <2>4, <2>5, <2>6, <2>7, <2>8 DEF Advances
<1>3. \A g \in Grants : HolderKept(g) /\ (RightOf(g)' = RightOf(g) \/ Advances(g))
  BY <1>1, <1>2
<1> QED
  BY <1>3 DEF RightsAdvance

LEMMA NextRights == HoldingInv /\ [Next]_vars => RightsAdvance
<1> SUFFICES ASSUME HoldingInv, [Next]_vars PROVE RightsAdvance
  OBVIOUS
<1>1. CASE UNCHANGED <<grant, session>>
  BY <1>1, KeptRight DEF RightsAdvance
<1>2. StepShape
  BY NextShape
<1> QED
  BY <1>1, <1>2, ProvisionedRights, RenewedRights, MovesRights DEF StepShape, RequestWritten

LEMMA RightsTyped ==
  ASSUME HoldingInv'
  PROVE  [g \in Grants |-> RightOf(g)]' \in [Grants -> Right!RightRow]
<1>1. ASSUME NEW g \in Grants PROVE RightOf(g)' \in Right!RightRow
  <2>1. grant'[g] \in GrantRow
    BY DEF HoldingInv, RevocationInv, TypeInv, TypeOK
  <2>2. PhaseOf(g)' \in Right!Phases
    BY <2>1, PhasesAfter DEF PhaseRead, RightOf, Right!Phases, GrantRow, GrantStatus, Renewable, Ending
  <2> QED
    BY <2>1, <2>2 DEF RightOf, Right!RightRow, GrantRow
<1> QED
  BY <1>1

LEMMA NextImplements ==
  HoldingInv /\ HoldingInv' /\ [Next]_vars => Right!RightNext
<1> SUFFICES ASSUME HoldingInv, HoldingInv', [Next]_vars PROVE Right!RightNext
  OBVIOUS
<1> DEFINE rights == [g \in Grants |-> RightOf(g)]
<1>1. rights' \in [Grants -> Right!RightRow]
  BY RightsTyped
<1>2. ASSUME NEW g \in Grants PROVE rights'[g] = rights[g] \/ Right!RightStep(g)
  BY NextRights, AdvanceIsStep DEF RightsAdvance
<1>3. ASSUME NEW g \in Grants, NEW h \in Grants, Right!NewHolder(g), Right!NewHolder(h)
      PROVE  g = h
  BY <1>3, NextRights DEF RightsAdvance, HolderKept, Right!NewHolder, RightOf
<1> QED
  BY <1>1, <1>2, <1>3 DEF Right!RightNext

\* Seven handlers and four tables come to this: a grant id is given out once,
\* to a request that has no other, comes into force once, passes to a renewal
\* only while it is in force and for longer, is taken out of force before it
\* is closed at the connector, and never comes back.
THEOREM RightsAreKept == Spec => RightsKept
<1>1. Init => Right!RightInit
  <2> SUFFICES ASSUME Init PROVE \A g \in Grants : RightOf(g) = Right!NoRight
    BY DEF Right!RightInit
  <2> QED
    BY PhasesByStatus DEF PhaseRead, Init, AbsentGrant, Right!NoRight, RightOf
<1>2. HoldingInv /\ HoldingInv' /\ [Next]_vars => [Right!RightNext]_([g \in Grants |-> RightOf(g)])
  BY NextImplements
<1> QED
  BY <1>1, <1>2, HoldingInvAlways, PTL DEF Spec, RightsKept, Right!RightSpec

=============================================================================
