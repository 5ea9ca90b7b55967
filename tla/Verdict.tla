------------------------------ MODULE Verdict ------------------------------
(***************************************************************************)
(* src/verdict.js: how one raw exchange with the longfellow verifier       *)
(* becomes one bit.  Pure operators, no state: Classify.tla runs them as a *)
(* machine, SingleUse.tla uses the verdict constructors.                   *)
(*                                                                         *)
(* Data abstraction.  An error text is the set of answers the two          *)
(* diagnostic regular expressions give about it; a Message is the class    *)
(* the code sorts it into; a claim value is what readCborBool and the      *)
(* absent / null / '' tests tell apart; a timestamp, a clock reading and a *)
(* tolerance are an integer together with "was it usable at all".          *)
(***************************************************************************)
EXTENDS Integers, Sequences

Reason == {"verified", "zk_proof_invalid", "issuer_untrusted", "proof_malformed",
           "claim_absent", "claim_false", "credential_expired",
           "service_unreachable", "service_timeout", "service_not_ready",
           "circuit_unavailable", "response_unintelligible", "invalid_request",
           "freshness_unknown", "replay_detected", "session_unknown"}

\* over is the bit: "yes", "no", or "null" when there is no answer.  "threw" is
\* the pseudo-reason of a call that ended in an exception instead of a verdict.
VerdictType == [ok: BOOLEAN, over: {"yes", "no", "null"}, reason: Reason \cup {"threw"}]

Answered(over, reason) == [ok |-> TRUE, over |-> over, reason |-> reason]

Unanswerable(reason) == [ok |-> FALSE, over |-> "null", reason |-> reason]

Threw == [ok |-> FALSE, over |-> "null", reason |-> "threw"]

---------------------------------------------------------------------------
(* What a raw outcome can look like.                                       *)

Reading == [usable: BOOLEAN, ms: Int]

\* The verifier's error envelope: present (a non-blank string), and which of the
\* two diagnostic patterns its wording matches.
Envelope == [present: BOOLEAN, untrusted: BOOLEAN, unparseable: BOOLEAN]

\* body.Message: "code" is 'verification failure: return code N'; "circuit" any
\* other text naming a circuit; "text" any other text, none included; "opaque" a
\* JSON object that String() cannot convert.
MessageType == [form: {"code", "circuit", "text", "opaque"}, code: Nat]

ClaimValue == {"null", "empty", "true", "false", "unreadable"}

ClaimItem == [id: STRING, value: ClaimValue]

Body == [readable: BOOLEAN, error: Envelope, status: BOOLEAN, message: MessageType,
         claims: Seq(ClaimItem), stamp: Reading]

Kind == {"timeout", "unreachable", "not_ready", "invalid_request", "response", "unknown"}

OutcomeType == [kind: Kind, http: Nat, body: Body]

OptionType == [requiredClaim: STRING, requireCurrentValidity: BOOLEAN,
               tolerance: Reading, now: Reading]

---------------------------------------------------------------------------
(* The decision.                                                           *)

PROOF_IS_BAD_AllCodes == Nat

\* Return codes that are evidence about the proof; every other code is ours.
PROOF_IS_BAD == {2, 3, 4, 5, 11}

\* The FIRST item carrying the identifier, in iteration order; "absent" if none.
findClaim(claims, id) ==
    LET Hit(i) == i \in DOMAIN claims /\ claims[i].id = id
    IN  IF \E i \in DOMAIN claims : Hit(i)
        THEN claims[CHOOSE i \in DOMAIN claims :
                        Hit(i) /\ \A j \in DOMAIN claims : Hit(j) => i <= j].value
        ELSE "absent"

Fresh == [ok |-> TRUE, over |-> "yes", reason |-> "verified"]

freshnessGate_Absolute(body, now, tolerance) ==
    IF ~ body.stamp.usable \/ ~ now.usable \/ ~ tolerance.usable
    THEN Unanswerable("freshness_unknown")
    ELSE LET skew == now.ms - body.stamp.ms
         IN  IF skew > tolerance.ms \/ skew < -tolerance.ms
             THEN Answered("no", "credential_expired")
             ELSE Fresh

freshnessGate_NaN(body, now, tolerance) ==
    IF ~ body.stamp.usable \/ ~ now.usable THEN Unanswerable("freshness_unknown")
    ELSE IF tolerance.usable /\ now.ms - body.stamp.ms > tolerance.ms
         THEN Answered("no", "credential_expired")
         ELSE Fresh

\* The currency gate.  A stamp, clock or tolerance that cannot be used refuses to
\* judge; the past beyond the tolerance is a "no"; the future is not.
freshnessGate(body, now, tolerance) ==
    IF ~ body.stamp.usable \/ ~ now.usable \/ ~ tolerance.usable
    THEN Unanswerable("freshness_unknown")
    ELSE LET skew == now.ms - body.stamp.ms
         IN  IF skew > tolerance.ms THEN Answered("no", "credential_expired")
             ELSE IF skew < -tolerance.ms THEN Unanswerable("freshness_unknown")
             ELSE Fresh

refused_ByWording(error) ==
    IF ~ error.present \/ ~ (error.untrusted \/ error.unparseable)
    THEN Unanswerable("response_unintelligible")
    ELSE Answered("no", IF error.untrusted /\ ~ error.unparseable
                        THEN "issuer_untrusted" ELSE "proof_malformed")

\* http 400: a rejection only when it carries the verifier's own error envelope;
\* the wording picks the reason, never the bit.
refused(error) ==
    IF ~ error.present THEN Unanswerable("response_unintelligible")
    ELSE Answered("no", IF error.untrusted /\ ~ error.unparseable
                        THEN "issuer_untrusted" ELSE "proof_malformed")


\* http 200 with Status other than true: String(body.Message) is read first.
failed(message) ==
    CASE message.form = "opaque"  -> Threw
      [] message.form = "circuit" -> Unanswerable("circuit_unavailable")
      [] message.form = "text"    -> Unanswerable("response_unintelligible")
      [] message.form = "code"    -> IF message.code \in PROOF_IS_BAD
                                     THEN Answered("no", "zk_proof_invalid")
                                     ELSE Unanswerable("circuit_unavailable")

proven_CurrencyFirst(body, opts) ==
    LET value == findClaim(body.claims, opts.requiredClaim)
        gate == freshnessGate(body, opts.now, opts.tolerance)
    IN  CASE opts.requireCurrentValidity /\ gate # Fresh -> gate
          [] (opts.requireCurrentValidity => gate = Fresh) /\ value = "true" -> Fresh
          [] (opts.requireCurrentValidity => gate = Fresh) /\ value = "false" ->
                Answered("no", "claim_false")
          [] OTHER -> Answered("no", "claim_absent")

\* http 200 with Status true: the maths checked out; the claim and its currency next.
proven(body, opts) ==
    LET value == findClaim(body.claims, opts.requiredClaim)
    IN  CASE value \in {"absent", "null", "empty"} -> Answered("no", "claim_absent")
          [] value = "unreadable" -> Unanswerable("response_unintelligible")
          [] value = "false"      -> Answered("no", "claim_false")
          [] value = "true"       -> IF opts.requireCurrentValidity
                                     THEN freshnessGate(body, opts.now, opts.tolerance)
                                     ELSE Answered("yes", "verified")

classify(raw, opts) ==
    CASE raw.kind = "timeout"         -> Unanswerable("service_timeout")
      [] raw.kind = "unreachable"     -> Unanswerable("service_unreachable")
      [] raw.kind = "not_ready"       -> Unanswerable("service_not_ready")
      [] raw.kind = "invalid_request" -> Unanswerable("invalid_request")
      [] raw.kind = "unknown"         -> Unanswerable("response_unintelligible")
      [] raw.kind = "response" ->
            CASE ~ raw.body.readable -> Unanswerable("response_unintelligible")
              [] raw.body.readable /\ raw.http = 400 -> refused(raw.body.error)
              [] raw.body.readable /\ raw.http \notin {200, 400} ->
                    Unanswerable("response_unintelligible")
              [] raw.body.readable /\ raw.http = 200 /\ ~ raw.body.status ->
                    failed(raw.body.message)
              [] raw.body.readable /\ raw.http = 200 /\ raw.body.status ->
                    proven(raw.body, opts)
=============================================================================
