------------------------------ MODULE MCGate ------------------------------
(* Small instances of a host and its gate: one verdict of each kind, options    *)
(* with at most one flaw of their own.                                          *)
EXTENDS Host, TLC

MCAnswer == {Fresh, Answered("no", "claim_false"), Unanswerable("session_unknown")}

MCFlawSets == {{}} \cup {{f} : f \in {"threshold", "paths", "policy", "bounds"}}
=============================================================================
