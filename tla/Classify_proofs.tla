-------------------------- MODULE Classify_proofs --------------------------
(***************************************************************************)
(* What classify() decides, for every raw exchange of the wire's types and *)
(* every option: claim lists of any length, any dates, clock readings and  *)
(* tolerances, any message code.                                           *)
(***************************************************************************)
EXTENDS Classify, WellFoundedInduction, TLAPS

---------------------------------------------------------------------------
(* The first item carrying an identifier.                                  *)

\* A non-empty set of numbers has a least member.
LEMMA LeastNumber ==
    ASSUME NEW T, T \subseteq Nat, T # {}
    PROVE  \E i \in T : \A j \in T : i <= j
  <1>1. PICK i \in T : \A j \in T : ~ (<<j, i>> \in OpToRel(<, Nat))
    BY WFMin, NatLessThanWellFounded, Zenon
  <1>2. \A j \in T : ~ (j < i)
    BY <1>1 DEF OpToRel
  <1> QED BY <1>2

First(claims, id, i) ==
    /\ i \in DOMAIN claims /\ claims[i].id = id
    /\ \A j \in DOMAIN claims : claims[j].id = id => i <= j

Carries(claims, id) == \E i \in DOMAIN claims : claims[i].id = id

\* findClaim reads the first item with the identifier, and only that.
LEMMA FindsFirst ==
    ASSUME NEW claims \in Seq(ClaimItem), NEW id
    PROVE  /\ Carries(claims, id) =>
                 \E i \in DOMAIN claims : First(claims, id, i) /\ findClaim(claims, id) = claims[i].value
           /\ ~ Carries(claims, id) => findClaim(claims, id) = "absent"
  <1>1. CASE Carries(claims, id)
    <2> DEFINE T == {i \in DOMAIN claims : claims[i].id = id}
               Least(i) == /\ i \in DOMAIN claims /\ claims[i].id = id
                           /\ \A j \in DOMAIN claims :
                                 (j \in DOMAIN claims /\ claims[j].id = id) => i <= j
               k == CHOOSE i \in DOMAIN claims : Least(i)
    <2>1. T \subseteq Nat /\ T # {}
      BY <1>1 DEF Carries
    <2>2. PICK i \in T : \A j \in T : i <= j
      BY <2>1, LeastNumber
    <2>3. i \in DOMAIN claims /\ Least(i)
      BY <2>2
    <2>4. k \in DOMAIN claims /\ Least(k)
      BY <2>3
    <2>5. findClaim(claims, id) = claims[k].value
      BY <1>1, Zenon DEF findClaim, Carries
    <2>6. First(claims, id, k)
      BY <2>4 DEF First
    <2> QED BY <1>1, <2>4, <2>5, <2>6
  <1>2. CASE ~ Carries(claims, id)
    BY <1>2 DEF findClaim, Carries
  <1> QED BY <1>1, <1>2

LEMMA ClaimTyped ==
    ASSUME NEW claims \in Seq(ClaimItem), NEW id
    PROVE  findClaim(claims, id) \in ClaimValue \cup {"absent"}
  <1>1. \A i \in DOMAIN claims : claims[i].value \in ClaimValue
    <2> SUFFICES ASSUME NEW i \in DOMAIN claims PROVE claims[i].value \in ClaimValue
      OBVIOUS
    <2>1. claims[i] \in ClaimItem
      OBVIOUS
    <2> QED BY <2>1 DEF ClaimItem
  <1>2. CASE Carries(claims, id)
    <2>1. PICK i \in DOMAIN claims : findClaim(claims, id) = claims[i].value
      BY <1>2, FindsFirst
    <2> QED BY <1>1, <2>1
  <1>3. CASE ~ Carries(claims, id)
    BY <1>3, FindsFirst
  <1> QED BY <1>2, <1>3

---------------------------------------------------------------------------
(* classify() by the shape of the exchange, and what each shape can give.  *)

\* The verdicts of an exchange whose maths did not verify, and of one that did.
Unjudged == {Unanswerable(r) : r \in {"service_timeout", "service_unreachable",
                "service_not_ready", "invalid_request", "response_unintelligible",
                "circuit_unavailable", "freshness_unknown"}}

Against == {Answered("no", r) : r \in {"zk_proof_invalid", "issuer_untrusted",
               "proof_malformed", "claim_absent", "claim_false", "credential_expired"}}

LEMMA ByKind ==
    ASSUME NEW r \in OutcomeType, NEW o
    PROVE  /\ r.kind # "response"
                => classify(r, o) \in Unjudged /\ \A p : classify(r, p) = classify(r, o)
           /\ r.kind = "response" /\ ~ r.body.readable
                => classify(r, o) = Unanswerable("response_unintelligible")
           /\ r.kind = "response" /\ r.body.readable /\ r.http \notin {200, 400}
                => classify(r, o) = Unanswerable("response_unintelligible")
           /\ r.kind = "response" /\ r.body.readable /\ r.http = 400
                => classify(r, o) = refused(r.body.error)
           /\ r.kind = "response" /\ r.body.readable /\ r.http = 200 /\ ~ r.body.status
                => classify(r, o) = failed(r.body.message)
           /\ r.kind = "response" /\ r.body.readable /\ r.http = 200 /\ r.body.status
                => classify(r, o) = proven(r.body, o)
  <1>1. r.kind \in Kind
    BY DEF OutcomeType
  <1>2. r.kind # "response"
           => classify(r, o) \in Unjudged /\ \A p : classify(r, p) = classify(r, o)
    <2>1. r.kind = "timeout" => \A p : classify(r, p) = Unanswerable("service_timeout")
      BY Zenon DEF classify
    <2>2. r.kind = "unreachable" => \A p : classify(r, p) = Unanswerable("service_unreachable")
      BY DEF classify
    <2>3. r.kind = "not_ready" => \A p : classify(r, p) = Unanswerable("service_not_ready")
      BY DEF classify
    <2>4. r.kind = "invalid_request" => \A p : classify(r, p) = Unanswerable("invalid_request")
      BY DEF classify
    <2>5. r.kind = "unknown" => \A p : classify(r, p) = Unanswerable("response_unintelligible")
      BY DEF classify
    <2> QED BY <1>1, <2>1, <2>2, <2>3, <2>4, <2>5 DEF Kind, Unjudged
  <1>3. r.kind = "response" /\ ~ r.body.readable
           => classify(r, o) = Unanswerable("response_unintelligible")
    BY DEF classify
  <1>4. r.kind = "response" /\ r.body.readable /\ r.http \notin {200, 400}
           => classify(r, o) = Unanswerable("response_unintelligible")
    BY DEF classify
  <1>5. r.kind = "response" /\ r.body.readable /\ r.http = 400
           => classify(r, o) = refused(r.body.error)
    BY DEF classify
  <1>6. r.kind = "response" /\ r.body.readable /\ r.http = 200 /\ ~ r.body.status
           => classify(r, o) = failed(r.body.message)
    BY DEF classify
  <1>7. r.kind = "response" /\ r.body.readable /\ r.http = 200 /\ r.body.status
           => classify(r, o) = proven(r.body, o)
    BY DEF classify
  <1> QED BY <1>2, <1>3, <1>4, <1>5, <1>6, <1>7

\* The three answers of the currency gate, and when it gives which.
LEMMA GateSays ==
    ASSUME NEW body \in Body, NEW now \in Reading, NEW tolerance \in Reading
    PROVE  LET usable == body.stamp.usable /\ now.usable /\ tolerance.usable
               gate == freshnessGate(body, now, tolerance)
           IN  /\ ~ usable => gate = Unanswerable("freshness_unknown")
               /\ usable /\ now.ms > body.stamp.ms + tolerance.ms
                    => gate = Answered("no", "credential_expired")
               /\ usable /\ now.ms <= body.stamp.ms + tolerance.ms
                         /\ body.stamp.ms > now.ms + tolerance.ms
                    => gate = Unanswerable("freshness_unknown")
               /\ usable /\ now.ms <= body.stamp.ms + tolerance.ms
                         /\ body.stamp.ms <= now.ms + tolerance.ms
                    => gate = Fresh
  <1>1. /\ body.stamp \in Reading /\ body.stamp.usable \in BOOLEAN /\ body.stamp.ms \in Int
        /\ now.usable \in BOOLEAN /\ now.ms \in Int
        /\ tolerance.usable \in BOOLEAN /\ tolerance.ms \in Int
    BY DEF Body, Reading
  <1> QED BY <1>1 DEF freshnessGate

LEMMA RefusedSays ==
    ASSUME NEW error \in Envelope
    PROVE  /\ ~ error.present => refused(error) = Unanswerable("response_unintelligible")
           /\ error.present => refused(error) \in {Answered("no", "issuer_untrusted"),
                                                   Answered("no", "proof_malformed")}
  BY DEF refused

LEMMA FailedSays ==
    ASSUME NEW message \in MessageType
    PROVE  /\ message.form = "opaque" => failed(message) = Threw
           /\ message.form = "code" /\ message.code \in PROOF_IS_BAD
                => failed(message) = Answered("no", "zk_proof_invalid")
           /\ message.form # "opaque" /\ ~ (message.form = "code" /\ message.code \in PROOF_IS_BAD)
                => failed(message) \in {Unanswerable("circuit_unavailable"),
                                        Unanswerable("response_unintelligible")}
  <1>1. message.form \in {"code", "circuit", "text", "opaque"}
    BY DEF MessageType
  <1>2. message.form = "opaque" => failed(message) = Threw
    BY DEF failed
  <1>3. message.form = "circuit" => failed(message) = Unanswerable("circuit_unavailable")
    BY DEF failed
  <1>4. message.form = "text" => failed(message) = Unanswerable("response_unintelligible")
    BY DEF failed
  <1>5. message.form = "code" =>
           failed(message) = IF message.code \in PROOF_IS_BAD
                             THEN Answered("no", "zk_proof_invalid")
                             ELSE Unanswerable("circuit_unavailable")
    BY DEF failed
  <1> QED BY <1>1, <1>2, <1>3, <1>4, <1>5

LEMMA ProvenSays ==
    ASSUME NEW body \in Body, NEW o
    PROVE  LET value == findClaim(body.claims, o.requiredClaim)
           IN  /\ value \in {"absent", "null", "empty"}
                    => proven(body, o) = Answered("no", "claim_absent")
               /\ value = "unreadable" => proven(body, o) = Unanswerable("response_unintelligible")
               /\ value = "false" => proven(body, o) = Answered("no", "claim_false")
               /\ value = "true" /\ ~ o.requireCurrentValidity => proven(body, o) = Fresh
               /\ value = "true" /\ o.requireCurrentValidity
                    => proven(body, o) = freshnessGate(body, o.now, o.tolerance)
               /\ value \in {"absent", "null", "empty", "unreadable", "false", "true"}
  <1> DEFINE value == findClaim(body.claims, o.requiredClaim)
  <1>1. value \in {"absent", "null", "empty", "unreadable", "false", "true"}
    BY ClaimTyped DEF Body, ClaimValue
  <1>2. value \in {"absent", "null", "empty"} => proven(body, o) = Answered("no", "claim_absent")
    BY DEF proven
  <1>3. value = "unreadable" => proven(body, o) = Unanswerable("response_unintelligible")
    BY DEF proven
  <1>4. value = "false" => proven(body, o) = Answered("no", "claim_false")
    BY DEF proven
  <1>5. value = "true" => proven(body, o) = IF o.requireCurrentValidity
                                            THEN freshnessGate(body, o.now, o.tolerance)
                                            ELSE Answered("yes", "verified")
    BY DEF proven
  <1>6. Answered("yes", "verified") = Fresh
    BY DEF Answered, Fresh
  <1> QED BY <1>1, <1>2, <1>3, <1>4, <1>5, <1>6

---------------------------------------------------------------------------
(* The bit and the reason, by the shape of the exchange.                   *)

Readable(r) == r.kind = "response" /\ r.body.readable

\* The maths verified: only here do claims, currency and options matter.
Verified(r) == Readable(r) /\ r.http = 200 /\ r.body.status

LEMMA VerdictFields ==
    /\ \A v \in Unjudged \cup {Threw} : v.over = "null"
    /\ \A v \in Against : v.over = "no"
    /\ Fresh.over = "yes"
    /\ \A v \in Unjudged \cup {Threw} \cup Against \cup {Fresh} :
          /\ v \in VerdictType
          /\ v.over = "yes" => v = Fresh
          /\ v.reason \notin {"replay_detected", "session_unknown"}
  <1>1. \A v \in Unjudged : v.over = "null" /\ v \in VerdictType
                            /\ v.reason \notin {"replay_detected", "session_unknown"}
    <2> SUFFICES ASSUME NEW v \in Unjudged
                 PROVE  v.over = "null" /\ v \in VerdictType
                        /\ v.reason \notin {"replay_detected", "session_unknown"}
      OBVIOUS
    <2>1. PICK r \in {"service_timeout", "service_unreachable", "service_not_ready",
                      "invalid_request", "response_unintelligible", "circuit_unavailable",
                      "freshness_unknown"} :
             v = [ok |-> FALSE, over |-> "null", reason |-> r]
      BY Zenon DEF Unjudged, Unanswerable
    <2>2. v.over = "null" /\ v.reason = r
      BY <2>1
    <2>3. v \in VerdictType
      BY <2>1 DEF VerdictType, Reason
    <2> QED BY <2>2, <2>3
  <1>2. \A v \in Against : v.over = "no" /\ v \in VerdictType
                           /\ v.reason \notin {"replay_detected", "session_unknown"}
    <2> SUFFICES ASSUME NEW v \in Against
                 PROVE  v.over = "no" /\ v \in VerdictType
                        /\ v.reason \notin {"replay_detected", "session_unknown"}
      OBVIOUS
    <2>1. PICK r \in {"zk_proof_invalid", "issuer_untrusted", "proof_malformed",
                      "claim_absent", "claim_false", "credential_expired"} :
             v = [ok |-> TRUE, over |-> "no", reason |-> r]
      BY Zenon DEF Against, Answered
    <2>2. v.over = "no" /\ v.reason = r
      BY <2>1
    <2>3. v \in VerdictType
      BY <2>1 DEF VerdictType, Reason
    <2> QED BY <2>2, <2>3
  <1>3. Fresh.over = "yes" /\ Fresh \in VerdictType /\ Fresh.reason = "verified"
    BY DEF Fresh, VerdictType, Reason
  <1>4. Threw.over = "null" /\ Threw \in VerdictType /\ Threw.reason = "threw"
    BY DEF Threw, VerdictType
  <1> QED BY <1>1, <1>2, <1>3, <1>4

LEMMA VerdictBits ==
    \A v \in Unjudged \cup {Threw} \cup Against \cup {Fresh} : v.ok <=> v.over # "null"
  <1>1. \A v \in Unjudged : ~ v.ok /\ v.over = "null"
    <2> SUFFICES ASSUME NEW v \in Unjudged PROVE ~ v.ok /\ v.over = "null"
      OBVIOUS
    <2>1. PICK r : v = [ok |-> FALSE, over |-> "null", reason |-> r]
      BY Zenon DEF Unjudged, Unanswerable
    <2> QED BY <2>1
  <1>2. \A v \in Against : v.ok /\ v.over = "no"
    <2> SUFFICES ASSUME NEW v \in Against PROVE v.ok /\ v.over = "no"
      OBVIOUS
    <2>1. PICK r : v = [ok |-> TRUE, over |-> "no", reason |-> r]
      BY Zenon DEF Against, Answered
    <2> QED BY <2>1
  <1>3. Fresh.ok /\ Fresh.over = "yes" /\ ~ Threw.ok /\ Threw.over = "null"
    BY DEF Fresh, Threw
  <1> QED BY <1>1, <1>2, <1>3

LEMMA OutcomeParts ==
    ASSUME NEW r \in OutcomeType
    PROVE  /\ r.body \in Body /\ r.http \in Nat /\ r.body.error \in Envelope
           /\ r.body.message \in MessageType /\ r.body.claims \in Seq(ClaimItem)
           /\ r.body.stamp \in Reading /\ r.body.readable \in BOOLEAN
           /\ r.body.status \in BOOLEAN
  <1>1. r.body \in Body /\ r.http \in Nat
    BY DEF OutcomeType
  <1> QED BY <1>1 DEF Body

LEMMA OptionParts ==
    ASSUME NEW o \in OptionType
    PROVE  /\ o.requireCurrentValidity \in BOOLEAN
           /\ o.tolerance \in Reading /\ o.now \in Reading
  BY DEF OptionType

\* Where the maths did not verify: the bit, and that no option moves the verdict.
LEMMA OtherShapes ==
    ASSUME NEW r \in OutcomeType, NEW o, ~ Verified(r)
    PROVE  /\ classify(r, o) \in Unjudged \cup {Threw} \cup Against
           /\ \A p : classify(r, p) = classify(r, o)
           /\ classify(r, o).over # "yes"
           /\ classify(r, o).over = "no" <=>
                 /\ Readable(r)
                 /\ \/ r.http = 400 /\ r.body.error.present
                    \/ /\ r.http = 200 /\ ~ r.body.status
                       /\ r.body.message.form = "code" /\ r.body.message.code \in PROOF_IS_BAD
  <1>1. /\ r.body.error \in Envelope /\ r.body.message \in MessageType
        /\ r.body.status \in BOOLEAN /\ r.body.readable \in BOOLEAN
    BY OutcomeParts
  <1>2. CASE r.kind # "response"
    BY <1>2, ByKind, VerdictFields DEF Readable
  <1>3. CASE r.kind = "response" /\ (~ r.body.readable \/ r.http \notin {200, 400})
    <2>1. Unanswerable("response_unintelligible") \in Unjudged
      BY DEF Unjudged
    <2> QED BY <1>3, <2>1, ByKind, VerdictFields DEF Readable
  <1>4. CASE Readable(r) /\ r.http = 400
    <2>1. \A p : classify(r, p) = refused(r.body.error)
      BY <1>4, ByKind DEF Readable
    <2>2. /\ Unanswerable("response_unintelligible") \in Unjudged
          /\ Answered("no", "issuer_untrusted") \in Against
          /\ Answered("no", "proof_malformed") \in Against
      BY DEF Unjudged, Against
    <2>3. CASE r.body.error.present
      BY <1>1, <1>4, <2>1, <2>2, <2>3, RefusedSays, VerdictFields
    <2>4. CASE ~ r.body.error.present
      BY <1>1, <1>4, <2>1, <2>2, <2>4, RefusedSays, VerdictFields
    <2> QED BY <2>3, <2>4
  <1>5. CASE Readable(r) /\ r.http = 200 /\ ~ r.body.status
    <2> DEFINE bad == r.body.message.form = "code" /\ r.body.message.code \in PROOF_IS_BAD
    <2>1. \A p : classify(r, p) = failed(r.body.message)
      BY <1>5, ByKind DEF Readable
    <2>2. /\ Unanswerable("circuit_unavailable") \in Unjudged
          /\ Unanswerable("response_unintelligible") \in Unjudged
          /\ Answered("no", "zk_proof_invalid") \in Against
      BY DEF Unjudged, Against
    <2>3. CASE bad
      <3>1. failed(r.body.message) \in Against
        BY <1>1, <2>2, <2>3, FailedSays
      <3> QED BY <1>5, <2>1, <2>3, <3>1, VerdictFields
    <2>4. CASE ~ bad
      <3>1. failed(r.body.message) \in Unjudged \cup {Threw}
        BY <1>1, <2>2, <2>4, FailedSays
      <3> HIDE DEF bad
      <3> QED BY <1>5, <2>1, <2>4, <3>1, VerdictFields DEF bad
    <2> QED BY <2>3, <2>4
  <1> QED BY <1>1, <1>2, <1>3, <1>4, <1>5 DEF Readable, Verified

\* Where it did: everything hangs on the first item and, if asked for, the date.
InDate(body, o) ==
    /\ body.stamp.usable /\ o.now.usable /\ o.tolerance.usable
    /\ o.now.ms <= body.stamp.ms + o.tolerance.ms
    /\ body.stamp.ms <= o.now.ms + o.tolerance.ms

OutOfDate(body, o) ==
    /\ body.stamp.usable /\ o.now.usable /\ o.tolerance.usable
    /\ o.now.ms > body.stamp.ms + o.tolerance.ms

LEMMA ProvenShape ==
    ASSUME NEW body \in Body, NEW o \in OptionType
    PROVE  LET value == findClaim(body.claims, o.requiredClaim)
               v == proven(body, o)
           IN  /\ v \in Unjudged \cup Against \cup {Fresh}
               /\ v.over = "yes" <=>
                     value = "true" /\ (o.requireCurrentValidity => InDate(body, o))
               /\ v.over = "no" <=>
                     \/ value \in {"absent", "null", "empty", "false"}
                     \/ value = "true" /\ o.requireCurrentValidity /\ OutOfDate(body, o)
               /\ value = "true" /\ o.requireCurrentValidity =>
                     /\ InDate(body, o) => v = Fresh
                     /\ OutOfDate(body, o) => v = Answered("no", "credential_expired")
                     /\ ~ InDate(body, o) /\ ~ OutOfDate(body, o)
                           => v = Unanswerable("freshness_unknown")
  <1> DEFINE value == findClaim(body.claims, o.requiredClaim)
             v == proven(body, o)
  <1>1. /\ Unanswerable("response_unintelligible") \in Unjudged
        /\ Unanswerable("freshness_unknown") \in Unjudged
        /\ Answered("no", "claim_absent") \in Against
        /\ Answered("no", "claim_false") \in Against
        /\ Answered("no", "credential_expired") \in Against
    BY DEF Unjudged, Against
  <1>2. value \in {"absent", "null", "empty", "unreadable", "false", "true"}
    BY ProvenSays
  <1>3. CASE value # "true"
    <2>1. CASE value \in {"absent", "null", "empty"}
      BY <1>1, <1>3, <2>1, ProvenSays, VerdictFields
    <2>2. CASE value = "unreadable"
      BY <1>1, <1>3, <2>2, ProvenSays, VerdictFields
    <2>3. CASE value = "false"
      BY <1>1, <1>3, <2>3, ProvenSays, VerdictFields
    <2> QED BY <1>2, <1>3, <2>1, <2>2, <2>3
  <1>4. CASE value = "true" /\ ~ o.requireCurrentValidity
    BY <1>1, <1>4, ProvenSays, VerdictFields
  <1>5. CASE value = "true" /\ o.requireCurrentValidity
    <2>1. v = freshnessGate(body, o.now, o.tolerance)
      BY <1>5, ProvenSays
    <2>2. /\ o.now \in Reading /\ o.tolerance \in Reading /\ body.stamp \in Reading
          /\ o.now.ms \in Int /\ o.tolerance.ms \in Int /\ body.stamp.ms \in Int
      BY OptionParts DEF Body, Reading
    <2>3. /\ InDate(body, o) => v = Fresh
          /\ OutOfDate(body, o) => v = Answered("no", "credential_expired")
          /\ ~ InDate(body, o) /\ ~ OutOfDate(body, o)
                => v = Unanswerable("freshness_unknown")
      BY <2>1, <2>2, GateSays DEF InDate, OutOfDate
    <2>4. ~ (InDate(body, o) /\ OutOfDate(body, o))
      BY <2>2 DEF InDate, OutOfDate
    <2>5. CASE InDate(body, o)
      BY <1>1, <1>5, <2>3, <2>4, <2>5, VerdictFields
    <2>6. CASE OutOfDate(body, o)
      BY <1>1, <1>5, <2>3, <2>4, <2>6, VerdictFields
    <2>7. CASE ~ InDate(body, o) /\ ~ OutOfDate(body, o)
      BY <1>1, <1>5, <2>3, <2>4, <2>7, VerdictFields
    <2> QED BY <2>5, <2>6, <2>7
  <1> QED BY <1>2, <1>3, <1>4, <1>5

---------------------------------------------------------------------------
(* What the header of verdict.js promises, exchange by exchange.           *)

\* "The first item naming the claim is true", as findClaim decides it and as Proves
\* states it.
LEMMA TrueFirst ==
    ASSUME NEW claims \in Seq(ClaimItem), NEW id \in STRING
    PROVE  findClaim(claims, id) = "true" <=>
             \E i \in DOMAIN claims :
                /\ claims[i] = [id |-> id, value |-> "true"]
                /\ \A j \in 1..(i - 1) : claims[j].id # id
  <1>1. \A i \in DOMAIN claims : i \in Nat /\ claims[i] \in ClaimItem
    OBVIOUS
  <1>2. ASSUME findClaim(claims, id) = "true"
        PROVE  \E i \in DOMAIN claims :
                  /\ claims[i] = [id |-> id, value |-> "true"]
                  /\ \A j \in 1..(i - 1) : claims[j].id # id
    <2>1. PICK i \in DOMAIN claims : First(claims, id, i) /\ claims[i].value = "true"
      BY <1>2, FindsFirst
    <2>2. claims[i] = [id |-> id, value |-> "true"]
      BY <1>1, <2>1 DEF First, ClaimItem
    <2>3. ASSUME NEW j \in 1..(i - 1) PROVE claims[j].id # id
      <3>1. j \in DOMAIN claims /\ ~ (i <= j)
        BY <1>1
      <3> QED BY <2>1, <3>1 DEF First
    <2> QED BY <2>2, <2>3
  <1>3. ASSUME NEW i \in DOMAIN claims, claims[i] = [id |-> id, value |-> "true"],
               \A j \in 1..(i - 1) : claims[j].id # id
        PROVE  findClaim(claims, id) = "true"
    <2>1. Carries(claims, id)
      BY <1>3 DEF Carries
    <2>2. PICK k \in DOMAIN claims :
             First(claims, id, k) /\ findClaim(claims, id) = claims[k].value
      BY <2>1, FindsFirst
    <2>3. k <= i /\ claims[k].id = id
      BY <1>3, <2>2 DEF First
    <2>4. k \notin 1..(i - 1)
      BY <1>3, <2>3
    <2>5. i \in 1..Len(claims) /\ k \in 1..Len(claims)
      OBVIOUS
    <2>6. k = i
      BY <2>3, <2>4, <2>5
    <2> QED BY <1>3, <2>2, <2>6
  <1> QED BY <1>2, <1>3

\* A claim found to be missing, empty or false is denied by the list itself.
LEMMA DeniedFirst ==
    ASSUME NEW r \in OutcomeType, NEW id \in STRING,
           findClaim(r.body.claims, id) \in {"absent", "null", "empty", "false"}
    PROVE  Denies(r, id)
  <1> DEFINE claims == r.body.claims
  <1>1. claims \in Seq(ClaimItem)
    BY OutcomeParts
  <1>2. CASE ~ Carries(claims, id)
    BY <1>2 DEF Denies, Carries
  <1>3. CASE Carries(claims, id)
    <2>1. PICK i \in DOMAIN claims :
             First(claims, id, i) /\ findClaim(claims, id) = claims[i].value
      BY <1>1, <1>3, FindsFirst
    <2>2. claims[i].value # "absent"
      <3>1. claims[i] \in ClaimItem
        BY <1>1
      <3> QED BY <3>1 DEF ClaimItem, ClaimValue
    <2>3. ASSUME NEW j \in 1..(i - 1) PROVE claims[j].id # id
      <3>1. j \in DOMAIN claims /\ ~ (i <= j)
        BY <1>1
      <3> QED BY <2>1, <3>1 DEF First
    <2>4. claims[i].value \in {"null", "empty", "false"} /\ claims[i].id = id
      BY <2>1, <2>2 DEF First
    <2> QED BY <2>3, <2>4 DEF Denies
  <1> QED BY <1>2, <1>3

LEMMA YesLemma ==
    ASSUME NEW r \in OutcomeType, NEW o \in OptionType
    PROVE  classify(r, o).over = "yes" <=>
             /\ Proves(r, o.requiredClaim)
             /\ o.requireCurrentValidity => Current(r, o)
  <1>1. CASE ~ Verified(r)
    BY <1>1, OtherShapes DEF Verified, Readable, Proves
  <1>2. CASE Verified(r)
    <2>1. classify(r, o) = proven(r.body, o)
      BY <1>2, ByKind DEF Verified, Readable
    <2>2. r.body \in Body /\ r.body.claims \in Seq(ClaimItem) /\ o.requiredClaim \in STRING
      BY OutcomeParts DEF OptionType
    <2>3. classify(r, o).over = "yes" <=>
             /\ findClaim(r.body.claims, o.requiredClaim) = "true"
             /\ o.requireCurrentValidity => InDate(r.body, o)
      BY <2>1, <2>2, ProvenShape
    <2>4. findClaim(r.body.claims, o.requiredClaim) = "true" <=> Proves(r, o.requiredClaim)
      BY <1>2, <2>2, TrueFirst DEF Proves, Verified, Readable
    <2>5. InDate(r.body, o) <=> Current(r, o)
      BY DEF InDate, Current
    <2> QED BY <2>3, <2>4, <2>5
  <1> QED BY <1>1, <1>2

LEMMA NoLemma ==
    ASSUME NEW r \in OutcomeType, NEW o \in OptionType, classify(r, o).over = "no"
    PROVE  EvidenceAgainst(r, o)
  <1>1. CASE ~ Verified(r)
    BY <1>1, OtherShapes DEF Readable, EvidenceAgainst, PROOF_IS_BAD
  <1>2. CASE Verified(r)
    <2>1. classify(r, o) = proven(r.body, o)
      BY <1>2, ByKind DEF Verified, Readable
    <2>2. r.body \in Body /\ o.requiredClaim \in STRING
      BY OutcomeParts DEF OptionType
    <2>3. \/ findClaim(r.body.claims, o.requiredClaim) \in {"absent", "null", "empty", "false"}
          \/ o.requireCurrentValidity /\ OutOfDate(r.body, o)
      BY <2>1, <2>2, ProvenShape
    <2>4. CASE findClaim(r.body.claims, o.requiredClaim) \in {"absent", "null", "empty", "false"}
      BY <1>2, <2>2, <2>4, DeniedFirst DEF Verified, Readable, EvidenceAgainst
    <2>5. CASE o.requireCurrentValidity /\ OutOfDate(r.body, o)
      <3>1. /\ r.body.stamp.ms \in Int /\ o.tolerance.ms \in Int /\ o.now.ms \in Int
        BY OutcomeParts, OptionParts DEF Reading
      <3>2. r.body.stamp.ms + o.tolerance.ms < o.now.ms
        BY <2>5, <3>1 DEF OutOfDate
      <3> QED BY <1>2, <2>5, <3>2 DEF OutOfDate, Verified, Readable, EvidenceAgainst
    <2> QED BY <2>3, <2>4, <2>5
  <1> QED BY <1>1, <1>2

LEMMA CurrencyLemma ==
    ASSUME NEW r \in OutcomeType, NEW o \in OptionType,
           NEW p, p = [o EXCEPT !.requireCurrentValidity = FALSE],
           classify(r, o) # classify(r, p)
    PROVE  /\ classify(r, p).over = "yes"
           /\ classify(r, o).reason \in {"credential_expired", "freshness_unknown"}
  <1>1. p \in OptionType /\ p.requiredClaim = o.requiredClaim /\ ~ p.requireCurrentValidity
    BY DEF OptionType
  <1>2. Verified(r)
    BY OtherShapes
  <1>3. classify(r, o) = proven(r.body, o) /\ classify(r, p) = proven(r.body, p)
    BY <1>2, ByKind DEF Verified, Readable
  <1>4. r.body \in Body
    BY OutcomeParts
  <1> DEFINE value == findClaim(r.body.claims, o.requiredClaim)
  <1>5. value = "true"
    <2>1. \A q : q.requiredClaim = o.requiredClaim =>
             /\ value \in {"absent", "null", "empty"}
                  => proven(r.body, q) = Answered("no", "claim_absent")
             /\ value = "unreadable" => proven(r.body, q) = Unanswerable("response_unintelligible")
             /\ value = "false" => proven(r.body, q) = Answered("no", "claim_false")
      BY <1>4, ProvenSays
    <2>2. value \in {"absent", "null", "empty", "unreadable", "false", "true"}
      BY <1>4, ProvenSays
    <2> QED BY <1>1, <1>3, <2>1, <2>2
  <1>6. proven(r.body, p) = Fresh
    BY <1>1, <1>4, <1>5, ProvenSays
  <1>7. o.requireCurrentValidity
    BY <1>3, <1>4, <1>5, <1>6, ProvenSays, OptionParts
  <1>8. \/ proven(r.body, o) = Fresh
        \/ proven(r.body, o) = Answered("no", "credential_expired")
        \/ proven(r.body, o) = Unanswerable("freshness_unknown")
    BY <1>4, <1>5, <1>7, ProvenShape
  <1>9. /\ Answered("no", "credential_expired").reason = "credential_expired"
        /\ Unanswerable("freshness_unknown").reason = "freshness_unknown"
    BY DEF Answered, Unanswerable
  <1> QED BY <1>3, <1>6, <1>8, <1>9, VerdictFields

LEMMA PhaseSays ==
    /\ \A v : Phase(v) \in 0..3
    /\ Phase(Unanswerable("freshness_unknown")) = 0 /\ Phase(Fresh) = 1
    /\ Phase(Answered("no", "credential_expired")) = 2
  <1>1. \A v : /\ v.reason = "freshness_unknown" => Phase(v) = 0
               /\ v.reason = "verified" => Phase(v) = 1
               /\ v.reason = "credential_expired" => Phase(v) = 2
               /\ v.reason \notin {"freshness_unknown", "verified", "credential_expired"}
                    => Phase(v) = 3
    BY Zenon DEF Phase
  <1>2. \A v : Phase(v) \in 0..3
    <2> SUFFICES ASSUME NEW v PROVE Phase(v) \in 0..3
      OBVIOUS
    <2>1. Phase(v) = 0 \/ Phase(v) = 1 \/ Phase(v) = 2 \/ Phase(v) = 3
      BY <1>1
    <2> QED BY <2>1
  <1> QED BY <1>1, <1>2 DEF Answered, Unanswerable, Fresh

\* The same exchange, judged d later.
LEMMA AgesLemma ==
    ASSUME NEW r \in OutcomeType, NEW o \in OptionType, NEW d \in Nat,
           NEW p, p = [o EXCEPT !.now.ms = @ + d]
    PROVE  Phase(classify(r, o)) <= Phase(classify(r, p))
  <1>1. /\ p \in OptionType /\ p.requiredClaim = o.requiredClaim
        /\ p.requireCurrentValidity = o.requireCurrentValidity /\ p.tolerance = o.tolerance
        /\ p.now.usable = o.now.usable /\ p.now.ms = o.now.ms + d
    BY DEF OptionType, Reading
  <1>2. CASE classify(r, o) = classify(r, p)
    BY <1>2, PhaseSays
  <1>3. CASE classify(r, o) # classify(r, p)
    <2>1. Verified(r)
      BY <1>3, OtherShapes
    <2>2. classify(r, o) = proven(r.body, o) /\ classify(r, p) = proven(r.body, p)
      BY <2>1, ByKind DEF Verified, Readable
    <2>3. r.body \in Body
      BY OutcomeParts
    <2> DEFINE value == findClaim(r.body.claims, o.requiredClaim)
    <2>4. value = "true" /\ o.requireCurrentValidity
      <3>1. \A q : q.requiredClaim = o.requiredClaim =>
               /\ value \in {"absent", "null", "empty"}
                    => proven(r.body, q) = Answered("no", "claim_absent")
               /\ value = "unreadable"
                    => proven(r.body, q) = Unanswerable("response_unintelligible")
               /\ value = "false" => proven(r.body, q) = Answered("no", "claim_false")
               /\ value = "true" /\ ~ q.requireCurrentValidity => proven(r.body, q) = Fresh
        BY <2>3, ProvenSays
      <3>2. value \in {"absent", "null", "empty", "unreadable", "false", "true"}
        BY <2>3, ProvenSays
      <3> QED BY <1>1, <1>3, <2>2, <3>1, <3>2
    <2>5. /\ o.now.ms \in Int /\ o.tolerance.ms \in Int /\ r.body.stamp.ms \in Int
      BY OutcomeParts, OptionParts DEF Reading
    <2>6. /\ OutOfDate(r.body, o) => OutOfDate(r.body, p)
          /\ InDate(r.body, o) => InDate(r.body, p) \/ OutOfDate(r.body, p)
      BY <1>1, <2>5 DEF InDate, OutOfDate
    <2>7. ASSUME NEW q \in OptionType, q.requiredClaim = o.requiredClaim,
                 q.requireCurrentValidity
          PROVE  /\ InDate(r.body, q) => proven(r.body, q) = Fresh
                 /\ OutOfDate(r.body, q)
                      => proven(r.body, q) = Answered("no", "credential_expired")
                 /\ ~ InDate(r.body, q) /\ ~ OutOfDate(r.body, q)
                      => proven(r.body, q) = Unanswerable("freshness_unknown")
      <3>1. findClaim(r.body.claims, q.requiredClaim) = "true"
        BY <2>4, <2>7
      <3> QED BY <2>3, <2>7, <3>1, ProvenShape
    <2>8. CASE OutOfDate(r.body, o)
      <3>1. classify(r, o) = Answered("no", "credential_expired")
        BY <2>2, <2>4, <2>7, <2>8
      <3>2. classify(r, p) = Answered("no", "credential_expired")
        BY <1>1, <2>2, <2>4, <2>6, <2>7, <2>8
      <3> QED BY <1>3, <3>1, <3>2
    <2>9. CASE InDate(r.body, o)
      <3>1. classify(r, o) = Fresh
        BY <2>2, <2>4, <2>7, <2>9
      <3>2. classify(r, p) \in {Fresh, Answered("no", "credential_expired")}
        BY <1>1, <2>2, <2>4, <2>6, <2>7, <2>9
      <3>3. Phase(classify(r, o)) = 1 /\ Phase(classify(r, p)) \in {1, 2}
        BY <3>1, <3>2, PhaseSays
      <3> QED BY <3>3
    <2>10. CASE ~ InDate(r.body, o) /\ ~ OutOfDate(r.body, o)
      <3>1. Phase(classify(r, o)) = 0
        BY <2>2, <2>4, <2>7, <2>10, PhaseSays
      <3> QED BY <3>1, PhaseSays
    <2> QED BY <2>8, <2>9, <2>10
  <1> QED BY <1>2, <1>3

\* A 400 is a "no" exactly when it carries the verifier's own envelope.
LEMMA RefusedBit ==
    ASSUME NEW r \in OutcomeType, NEW o, r.http = 400
    PROVE  classify(r, o).over = "no" <=> Readable(r) /\ r.body.error.present
  <1>1. ~ Verified(r) /\ r.http # 200
    BY DEF Verified
  <1>2. classify(r, o).over = "no" <=>
                 /\ Readable(r)
                 /\ \/ r.http = 400 /\ r.body.error.present
                    \/ /\ r.http = 200 /\ ~ r.body.status
                       /\ r.body.message.form = "code" /\ r.body.message.code \in PROOF_IS_BAD
    BY <1>1, OtherShapes
  <1> QED BY <1>1, <1>2

\* The same 400, its error text reworded.
LEMMA WordingLemma ==
    ASSUME NEW r \in OutcomeType, NEW o \in OptionType, NEW error \in Envelope,
           r.http = 400, error.present = r.body.error.present
    PROVE  classify(r, o).over = classify([r EXCEPT !.body.error = error], o).over
  <1> DEFINE q == [r EXCEPT !.body.error = error]
  <1>1. r.body \in Body
    BY OutcomeParts
  <1>2. /\ q \in OutcomeType /\ q.kind = r.kind /\ q.http = 400
        /\ q.body.readable = r.body.readable /\ q.body.error = error
    BY <1>1 DEF OutcomeType, Body
  <1> HIDE DEF q
  <1>3. classify(r, o).over = "no" <=> Readable(r) /\ r.body.error.present
    BY RefusedBit
  <1>4. classify(q, o).over = "no" <=> Readable(q) /\ q.body.error.present
    BY <1>2, RefusedBit
  <1>5. classify(r, o).over = "no" <=> classify(q, o).over = "no"
    BY <1>2, <1>3, <1>4 DEF Readable
  <1>6. ~ Verified(r) /\ ~ Verified(q)
    BY <1>2 DEF Verified
  <1>7. classify(r, o).over \in {"no", "null"} /\ classify(q, o).over \in {"no", "null"}
    BY <1>2, <1>6, OtherShapes, VerdictFields
  <1>8. classify(r, o).over = classify(q, o).over
    BY <1>5, <1>7
  <1> QED BY <1>8 DEF q

---------------------------------------------------------------------------
(* The theorems.  The machine judges once: what it holds is classify() of  *)
(* its exchange.                                                           *)

IInv ==
    /\ raw \in Outcome /\ opts \in Options
    /\ verdict = NoVerdict \/ verdict = classify(raw, opts)

LEMMA IInvInvariant == Spec => []IInv
  <1>1. Init => IInv
    BY DEF Init, IInv
  <1>2. IInv /\ [Next]_vars => IInv'
    BY DEF IInv, Next, Judge, vars
  <1> QED BY <1>1, <1>2, PTL DEF Spec

LEMMA ExchangeTyped == IInv => raw \in OutcomeType /\ opts \in OptionType
  BY OutcomeAssumption, OptionAssumption DEF IInv

\* Every verdict is a verdict, the only "yes" is the accept, and neither "replay" nor
\* "unknown session" is classify()'s to say: what SingleUse assumes of it.  And a verdict
\* is ok exactly when it has a bit: what Gate assumes of it.
THEOREM ClassifyAsAssumed ==
    ASSUME NEW r \in OutcomeType, NEW o \in OptionType
    PROVE  /\ classify(r, o) \in VerdictType
           /\ classify(r, o).over = "yes" => classify(r, o) = Fresh
           /\ classify(r, o).reason \notin {"replay_detected", "session_unknown"}
           /\ classify(r, o).ok <=> classify(r, o).over # "null"
  <1>1. classify(r, o) \in Unjudged \cup {Threw} \cup Against \cup {Fresh}
    <2>1. CASE ~ Verified(r)
      BY <2>1, OtherShapes
    <2>2. CASE Verified(r)
      <3>1. classify(r, o) = proven(r.body, o)
        BY <2>2, ByKind DEF Verified, Readable
      <3> QED BY <3>1, OutcomeParts, ProvenShape
    <2> QED BY <2>1, <2>2
  <1> QED BY <1>1, VerdictFields, VerdictBits

\* A visitor is let in exactly when the maths verified, the first item naming the claim
\* is true and, where it is asked for, the presentation is dated within the tolerance.
THEOREM YesIsProven == Spec => []YesExactlyWhenProven
  <1>1. IInv => YesExactlyWhenProven
    BY ExchangeTyped, YesLemma DEF IInv, Judged, YesExactlyWhenProven
  <1> QED BY IInvInvariant, <1>1, PTL

\* A "no" rests on a readable answer of the verifier about this proof.
THEOREM NoIsEvidence == Spec => []NoRestsOnEvidence
  <1>1. IInv => NoRestsOnEvidence
    BY ExchangeTyped, NoLemma DEF IInv, NoVerdict, NoRestsOnEvidence
  <1> QED BY IInvInvariant, <1>1, PTL

\* Requiring currency only takes accepts away, and says so.
THEOREM CurrencyTakesAway == Spec => []CurrencyOnlyDowngrades
  <1>1. IInv => CurrencyOnlyDowngrades
    BY ExchangeTyped, CurrencyLemma DEF IInv, Judged, CurrencyOnlyDowngrades
  <1> QED BY IInvInvariant, <1>1, PTL

\* The same bytes judged later have only aged.
THEOREM BytesAge == Spec => []CurrencyAgesOneWay
  <1>1. IInv => CurrencyAgesOneWay
    BY ExchangeTyped, AgesLemma, DelayAssumption DEF IInv, Judged, CurrencyAgesOneWay
  <1> QED BY IInvInvariant, <1>1, PTL

\* Rewording the text of a 400 never moves the bit.
THEOREM WordingIsNoEvidence == Spec => []WordingNeverMovesTheBit
  <1>1. IInv => WordingNeverMovesTheBit
    <2> SUFFICES ASSUME IInv, Judged, NEW error \in Envelope, raw.http = 400,
                        error.present = raw.body.error.present
                 PROVE  verdict.over = classify([raw EXCEPT !.body.error = error], opts).over
      BY DEF WordingNeverMovesTheBit
    <2>1. verdict = classify(raw, opts)
      BY DEF IInv, Judged
    <2> QED BY <2>1, ExchangeTyped, WordingLemma
  <1> QED BY IInvInvariant, <1>1, PTL
=============================================================================
