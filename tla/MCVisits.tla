------------------------------ MODULE MCVisits ------------------------------
(* The small instances of SingleUse, with the visit ledger they implement.      *)
EXTENDS MCSingleUse, SingleUseVisits
=============================================================================
