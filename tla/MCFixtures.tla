----------------------------- MODULE MCFixtures -----------------------------
(***************************************************************************)
(* Two runs of mkfixture, three time units apart; the unlinkability set is *)
(* minted a unit after the rest of its run.  With a tolerance of two, each *)
(* of the suite's clocks is too early or too late for some credentials and *)
(* exactly at the tolerance of others.                                     *)
(***************************************************************************)
EXTENDS Fixtures

MCMinted == [ca \in CA |-> 10 + 3 * ca.run + (IF ca.of = "unlinkable" THEN 1 ELSE 0)]

MCClocks == {12, 15, 18}
=============================================================================
