---------------------------- MODULE MCSingleUse ----------------------------
(* Small instances of SingleUse.  One verdict of each kind stands for what      *)
(* classify() may return: an accept, a "no" and "the verifier did not answer". *)
EXTENDS SingleUse, TLC

MCBaseVerdict == {Fresh, Answered("no", "claim_false"), Unanswerable("service_timeout")}

\* Checks and nonces are interchangeable.
Symmetric == Permutations(Check) \cup Permutations(Nonce)
=============================================================================
