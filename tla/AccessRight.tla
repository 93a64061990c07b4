---------------------------- MODULE AccessRight -----------------------------
(***************************************************************************)
(* What the service promises, whatever its tables: each grant id stands    *)
(* for one right of access.  A right is offered to one request, comes into *)
(* force once, may pass to a renewal that runs longer, is ended once, and  *)
(* never comes back.  No request holds two.                                *)
(***************************************************************************)
EXTENDS Naturals

CONSTANTS Requests, Grants, NoRequest

VARIABLE right  \* by grant id: its phase, its holder, and until when it runs

Phases == {"none", "offered", "inForce", "ending", "ended"}

RightRow == [phase : Phases, holder : Requests \cup {NoRequest}, until : Nat]

NoRight == [phase |-> "none", holder |-> NoRequest, until |-> 0]

RightInit == right = [g \in Grants |-> NoRight]

-----------------------------------------------------------------------------
\* A step is what one transaction makes of the right of grant g.
Unheld(r) == \A g \in Grants : right[g].holder # r

MovesTo(g, phase) == right'[g] = [right[g] EXCEPT !.phase = phase]

\* The connector is asked for the right, and may grant it at once.
Offer(g) ==
  /\ right[g].phase = "none"
  /\ right'[g].phase \in {"offered", "inForce"}
  /\ right'[g].holder \in Requests /\ Unheld(right'[g].holder)

Confirm(g) == right[g].phase = "offered" /\ MovesTo(g, "inForce")

Renew(g) ==
  /\ right[g].phase = "inForce" /\ right'[g].phase = "inForce"
  /\ right'[g].holder \in Requests /\ Unheld(right'[g].holder)
  /\ right'[g].until > right[g].until

\* It is over, but the connector may still let its holder in.
Withdraw(g) == right[g].phase = "inForce" /\ MovesTo(g, "ending")

Close(g) == right[g].phase = "ending" /\ MovesTo(g, "ended")

RightStep(g) == Offer(g) \/ Confirm(g) \/ Renew(g) \/ Withdraw(g) \/ Close(g)

\* Reconciliation and revocation move several rights in one transaction; only
\* the others take a new holder, one at a time.
NewHolder(g) == right'[g].holder # right[g].holder

RightNext ==
  /\ right' \in [Grants -> RightRow]
  /\ \A g \in Grants : right'[g] = right[g] \/ RightStep(g)
  /\ \A g, h \in Grants : NewHolder(g) /\ NewHolder(h) => g = h

RightSpec == RightInit /\ [][RightNext]_right

=============================================================================
