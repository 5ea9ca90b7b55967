-------------------------- MODULE SingleUseVisits --------------------------
(* SingleUse as a ledger of visits: a presentation is admitted when the store   *)
(* calls its spend fresh while the challenge is alive.                          *)
EXTENDS SingleUse

Opened == {n \in Nonce : expiresAt[n] # NotIssued}
Admitted == {<<check[c].transcript, c>> : c \in {d \in Check : OnTime(d)}}
Inside == {c \in Check : OnTime(c) /\ check[c].verdict = Fresh}

Visit == INSTANCE Visits WITH open <- Opened, admitted <- Admitted, letIn <- Inside

\* Every step of the concurrent checks is a step of the visit ledger or invisible to
\* it: of the presentations spent before their challenge expired at most one is
\* admitted per visit, and an accept among them was admitted first.
ImplementsVisits == Visit!Spec
=============================================================================
