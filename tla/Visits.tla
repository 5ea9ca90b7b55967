------------------------------- MODULE Visits -------------------------------
(***************************************************************************)
(* What replay defence promises a site, with no clock, no store and no     *)
(* message: a visit is opened once, at most one presentation is admitted   *)
(* to it, and whoever is let in was admitted.  SingleUse implements it for *)
(* the presentations spent before their challenge expired.                 *)
(***************************************************************************)
CONSTANTS Nonce, Check

VARIABLES
    open,       \* the visits opened
    admitted,   \* pairs <<visit, check>>: the presentation admitted to a visit
    letIn       \* the checks that were answered "yes"

vars == <<open, admitted, letIn>>

Init == open = {} /\ admitted = {} /\ letIn = {}

Open(n) == n \notin open /\ open' = open \cup {n} /\ UNCHANGED <<admitted, letIn>>

Free(n) == \A c \in Check : <<n, c>> \notin admitted

Admit(n, c) ==
    /\ n \in open /\ Free(n)
    /\ admitted' = admitted \cup {<<n, c>>}
    /\ UNCHANGED <<open, letIn>>

LetIn(n, c) ==
    /\ <<n, c>> \in admitted /\ c \notin letIn
    /\ letIn' = letIn \cup {c}
    /\ UNCHANGED <<open, admitted>>

\* One process admits and answers in the same turn.
AdmitAndLetIn(n, c) ==
    /\ n \in open /\ Free(n) /\ c \notin letIn
    /\ admitted' = admitted \cup {<<n, c>>}
    /\ letIn' = letIn \cup {c}
    /\ UNCHANGED open

Next ==
    \/ \E n \in Nonce : Open(n)
    \/ \E n \in Nonce, c \in Check : Admit(n, c) \/ LetIn(n, c) \/ AdmitAndLetIn(n, c)

Spec == Init /\ [][Next]_vars
=============================================================================
