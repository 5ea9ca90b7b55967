----------------------------- MODULE MCService -----------------------------
(* Small instances of Service: one stream for the whole log, or the network   *)
(* trust list's line on the other one.                                        *)
EXTENDS Service

OneStream == [l \in Line |-> "stderr"]
TwoStreams == [l \in Line |-> IF l \in {"started", "read"} THEN "stdout" ELSE "stderr"]
=============================================================================
