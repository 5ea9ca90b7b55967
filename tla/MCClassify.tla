----------------------------- MODULE MCClassify -----------------------------
(* Small exchanges for TLC: every kind, status, error wording, message code   *)
(* and claim value, up to two claims, four dates and four clock readings.     *)
EXTENDS Classify

CONSTANT MaxCode

Usable(n) == [usable |-> TRUE, ms |-> n]
Unusable == [usable |-> FALSE, ms |-> 0]

Plain == [readable |-> TRUE,
          error |-> [present |-> FALSE, untrusted |-> FALSE, unparseable |-> FALSE],
          status |-> FALSE, message |-> [form |-> "text", code |-> 0],
          claims |-> <<>>, stamp |-> Unusable]

Over18 == "age_over_18"
Items == [id: {Over18, "age_over_13"}, value: ClaimValue]
Claims == {<<>>} \cup {<<x>> : x \in Items} \cup {<<x, y>> : x, y \in Items}
Stamps == {Unusable} \cup {Usable(n) : n \in 2..5}

Proof == [id |-> Over18, value |-> "true"]

\* One base body whose Status is true and claim proven, so that a 400, an unreadable
\* body or an odd status must be caught although the rest looks like an accept.
Accepting == [Plain EXCEPT !.status = TRUE, !.claims = <<Proof>>, !.stamp = Usable(3)]

Messages == [form: {"code"}, code: 0..MaxCode]
              \cup [form: {"circuit", "text", "opaque"}, code: {0}]

Bodies ==
    {[Accepting EXCEPT !.readable = r, !.error = e] : r \in BOOLEAN, e \in Envelope}
      \cup {[Plain EXCEPT !.message = m] : m \in Messages}
      \cup {[Plain EXCEPT !.status = TRUE, !.claims = c, !.stamp = s] : c \in Claims, s \in Stamps}

MCOutcome == [kind: {"response"}, http: {200, 400, 503}, body: Bodies]
               \cup [kind: Kind, http: {0}, body: {Accepting}]

MCOptions == [requiredClaim: {Over18}, requireCurrentValidity: BOOLEAN,
              tolerance: {Unusable, Usable(0), Usable(1)},
              now: {Unusable} \cup {Usable(n) : n \in 1..6}]

MCDelay == 0..3
=============================================================================
