------------------------------ MODULE Classify ------------------------------
(***************************************************************************)
(* classify() of src/verdict.js as a one-step machine: any exchange the    *)
(* wire can produce, any options a caller can pass, one verdict.  The      *)
(* properties compare that verdict with what the module's header promises  *)
(* -- and, because several promises relate TWO exchanges (the same bytes   *)
(* later, reworded, or without the currency requirement), with the verdict *)
(* of the other exchange.                                                  *)
(***************************************************************************)
EXTENDS Verdict

CONSTANTS
    Outcome,    \* the raw exchanges considered
    Options,    \* the options considered
    Delay       \* how much later the same bytes may be judged again

ASSUME OutcomeAssumption == Outcome \subseteq OutcomeType
ASSUME OptionAssumption == Options \subseteq OptionType
ASSUME DelayAssumption == Delay \subseteq Nat

VARIABLES raw, opts, verdict

vars == <<raw, opts, verdict>>

NoVerdict == [ok |-> FALSE, over |-> "null", reason |-> "none"]

Init == raw \in Outcome /\ opts \in Options /\ verdict = NoVerdict

Judge ==
    /\ verdict = NoVerdict
    /\ verdict' = classify(raw, opts)
    /\ UNCHANGED <<raw, opts>>

Next == Judge

Spec == Init /\ [][Next]_vars

Judged == verdict # NoVerdict

---------------------------------------------------------------------------
TypeOK ==
    /\ raw \in Outcome
    /\ opts \in Options
    /\ verdict \in VerdictType \cup {NoVerdict}

\* The reference for "yes": every layer passed, stated without the code's order.
Proves(r, claim) ==
    /\ r.kind = "response" /\ r.http = 200 /\ r.body.readable /\ r.body.status
    /\ \E i \in DOMAIN r.body.claims :
          /\ r.body.claims[i] = [id |-> claim, value |-> "true"]
          /\ \A j \in 1..(i - 1) : r.body.claims[j].id # claim

Current(r, o) ==
    /\ r.body.stamp.usable /\ o.now.usable /\ o.tolerance.usable
    /\ o.now.ms <= r.body.stamp.ms + o.tolerance.ms
    /\ r.body.stamp.ms <= o.now.ms + o.tolerance.ms

\* A visitor is let in exactly when the maths verified, the FIRST item naming the
\* required claim is true and, if currency is required, the presentation is dated
\* within the tolerance of our clock (verdict.js, classify and freshnessGate).
YesExactlyWhenProven ==
    Judged => (verdict.over = "yes"
                 <=> /\ Proves(raw, opts.requiredClaim)
                     /\ opts.requireCurrentValidity => Current(raw, opts))

\* The first item naming the claim, if any, denies it or carries nothing.
Denies(r, claim) ==
    \/ \A i \in DOMAIN r.body.claims : r.body.claims[i].id # claim
    \/ \E i \in DOMAIN r.body.claims :
          /\ r.body.claims[i].id = claim
          /\ r.body.claims[i].value \in {"null", "empty", "false"}
          /\ \A j \in 1..(i - 1) : r.body.claims[j].id # claim

\* The evidence a "no" may rest on: always a readable answer of the verifier's own.
EvidenceAgainst(r, o) ==
    /\ r.kind = "response" /\ r.body.readable
    /\ \/ r.http = 400 /\ r.body.error.present
       \/ /\ r.http = 200 /\ ~ r.body.status
          /\ r.body.message.form = "code" /\ r.body.message.code \in {2, 3, 4, 5, 11}
       \/ /\ r.http = 200 /\ r.body.status
          /\ \/ Denies(r, o.requiredClaim)
             \/ /\ o.requireCurrentValidity
                /\ r.body.stamp.usable /\ o.now.usable /\ o.tolerance.usable
                /\ r.body.stamp.ms + o.tolerance.ms < o.now.ms

\* Nobody is told "no" by a broken verifier: a "no" rests on an answer of the
\* verifier about this proof (verdict.js:6-14), never on a timeout, an unreadable
\* body, an unknown status or code, an unusable clock or a date in the future.
NoRestsOnEvidence == verdict.over = "no" => EvidenceAgainst(raw, opts)

\* Requiring currency can only take an accept away, and then says which of the two
\* it was; every other verdict is the one the caller gets without it.
CurrencyOnlyDowngrades ==
    LET without == classify(raw, [opts EXCEPT !.requireCurrentValidity = FALSE])
    IN  Judged /\ verdict # without
          => /\ without.over = "yes"
             /\ verdict.reason \in {"credential_expired", "freshness_unknown"}

\* Age of a presentation: 0 dated in the future, 1 current, 2 expired.
Phase(v) == CASE v.reason = "freshness_unknown" -> 0
              [] v.reason = "verified" -> 1
              [] v.reason = "credential_expired" -> 2
              [] OTHER -> 3

\* The same bytes judged later only grow older: future, current, expired -- an
\* expired presentation never becomes current again, and no other verdict depends
\* on the clock at all.
CurrencyAgesOneWay ==
    \A d \in Delay :
        Judged => Phase(verdict)
                    <= Phase(classify(raw, [opts EXCEPT !.now.ms = @ + d]))

\* Rewording the error text of a 400 blurs the reason and never moves the bit
\* (verdict.js:164-178: "rewording upstream can blur the reason string but can
\* never move the verdict").
WordingNeverMovesTheBit ==
    \A error \in Envelope :
        Judged /\ raw.http = 400 /\ error.present = raw.body.error.present
          => verdict.over = classify([raw EXCEPT !.body.error = error], opts).over

\* "Pure. Never throws." (verdict.js:16): every exchange is given a verdict.
NeverThrows == verdict.reason # "threw"
=============================================================================
