--------------------------- MODULE Fixtures_proofs ---------------------------
(***************************************************************************)
(* What can be relied on of a directory of fixtures, for any number of     *)
(* runs of mkfixture into it, each of which may stop at any file.          *)
(***************************************************************************)
EXTENDS Fixtures, TLAPS

\* What a run puts at a name: the scenario, checked to do what its name says.
Made(name, run, fx) ==
    \E broke, unchained \in BOOLEAN :
        fx = scenario(run, name, broke, unchained) /\ asserted(name, fx)

\* The CAs of everything but the fixture nobody is to trust.
Trusted == {ca \in CA : ca.of # "untrusted-issuer"}

\* The fixtures a run has written by now, in the order of its plan.
Shipped ==
    LET done == {Plan[i] : i \in 1..(gen.at - 1)} \ {"unlinkable"}
    IN  (IF gen.nonce THEN done ELSE done \ {"single-use"})
          \cup (IF gen.pc = "sharing" \/ gen.at > 9 THEN Unlinkable \ gen.share ELSE {})

\* Where a run stands in its plan.
AtStep ==
    /\ Running => gen.run > 0
    /\ gen.pc = "clearing" => gen.at = 1 /\ gen.share = {}
    /\ gen.pc = "sharing" => gen.at = 9
    /\ gen.pc \in {"emitting", "trusting", "returned"} => gen.share = {}
    /\ gen.pc = "emitting" => gen.at <= 10 /\ (gen.at = 10 => gen.nonce)
    /\ gen.pc \in {"trusting", "returned"} => gen.at = 11

\* Whatever is whole was made by some run, with its defect, and no trust list has the CA
\* that is to be unknown.
Honestly ==
    /\ \A name \in DOMAIN dir :
          name \in Name /\ (dir[name].whole => Made(name, dir[name].ca.run, dir[name]))
    /\ gen.trusted \in Seq(Trusted)
    /\ pem \subseteq Trusted

\* Once the old fixtures are gone, the directory is this run's alone.
OneGeneration ==
    /\ gen.pc \in {"emitting", "sharing", "trusting", "returned"} =>
         /\ DOMAIN dir = Shipped
         /\ \A name \in DOMAIN dir :
               /\ Made(name, gen.run, dir[name])
               /\ trusts(name) => caOf(gen.run, name) \in CAs(gen.trusted)
         /\ gen.pc = "sharing" => caOf(gen.run, "unlinkable-a1") \in CAs(gen.trusted)
    /\ gen.pc = "returned" => pem = CAs(gen.trusted)

IInv == gen \in GenType /\ AtStep /\ Honestly /\ OneGeneration
---------------------------------------------------------------------------
(* The plan and the scenarios.                                             *)

LEMMA PlanIs ==
    /\ Len(Plan) = 10 /\ DOMAIN Plan = 1..10
    /\ \A i \in 1..10 :
          /\ Plan[i] = "unlinkable" <=> i = 9
          /\ Plan[i] = "single-use" <=> i = 10
          /\ i # 9 => Plan[i] \in Scenario
    /\ Scenario = {Plan[i] : i \in 1..10} \ {"unlinkable"}
    /\ "single-use" \in Scenario /\ "untrusted-issuer" \in Scenario
    /\ "unlinkable" \notin Name
    /\ Scenario \cap Unlinkable = {}
  <1>1. Len(Plan) = 10 /\ DOMAIN Plan = 1..10
    BY DEF Plan
  <1>2. \A i \in 1..10 :
           /\ Plan[i] = "unlinkable" <=> i = 9
           /\ Plan[i] = "single-use" <=> i = 10
           /\ Plan[i] = "untrusted-issuer" <=> i = 2
           /\ Plan[i] \notin Unlinkable
    BY DEF Plan, Unlinkable
  <1> QED BY <1>1, <1>2 DEF Scenario, Name, Unlinkable

LEMMA GlobIs == Name \subseteq {Glob[i] : i \in DOMAIN Glob}
  <1>1. Scenario \subseteq {"valid", "untrusted-issuer", "underage", "tampered", "stale-nonce",
                            "mangled-cert", "substituted-claim", "expired-credential", "single-use"}
    BY DEF Scenario, Plan
  <1> QED BY <1>1 DEF Name, Unlinkable, Glob

---------------------------------------------------------------------------
(* The verdict on a fixture.                                               *)

LEMMA OnlyClaim ==
    ASSUME NEW value PROVE findClaim(<<[id |-> "age_over_18", value |-> value]>>, "age_over_18") = value
  <1> DEFINE claims == <<[id |-> "age_over_18", value |-> value]>>
             Hit(i) == i \in DOMAIN claims /\ claims[i].id = "age_over_18"
             first == CHOOSE i \in DOMAIN claims :
                        Hit(i) /\ \A j \in DOMAIN claims : Hit(j) => i <= j
  <1>1. DOMAIN claims = {1} /\ claims[1].id = "age_over_18" /\ claims[1].value = value
    OBVIOUS
  <1>2. first = 1 /\ Hit(1)
    BY <1>1
  <1> QED BY <1>1, <1>2 DEF findClaim

\* What the suite reads off the verdict on a fixture.
LEMMA Judged ==
    ASSUME NEW name, NEW current \in BOOLEAN, NEW now \in Clocks,
           dir[name].leafIntact \in BOOLEAN, dir[name].claim \in Value, dir[name].stamp \in Stamp,
           pem \subseteq CA
    PROVE  LET fx == dir[name]
               chained == fx.leafIntact /\ fx.ca \in pem
               v == check(name, current, now)
           IN  /\ ~ chained => v = Answered("no", "issuer_untrusted")
               /\ chained /\ ~ verifies(fx) => v = Answered("no", "zk_proof_invalid")
               /\ chained /\ verifies(fx) /\ fx.claim = "false" => v = Answered("no", "claim_false")
               /\ chained /\ verifies(fx) /\ fx.claim = "true" =>
                    /\ ~ current => v = Answered("yes", "verified")
                    /\ current /\ fx.stamp = "2020" => v = Answered("no", "credential_expired")
                    /\ current /\ fx.stamp = "now" /\ Timely(fx, now) =>
                         v = Answered("yes", "verified")
  <1> DEFINE fx == dir[name]
             chained == fx.leafIntact /\ fx.ca \in pem
             o == [requiredClaim |-> "age_over_18", requireCurrentValidity |-> current,
                   tolerance |-> Usable(Tolerance), now |-> Usable(now)]
  <1>1. PICK a : a = Answer(fx)
    OBVIOUS
  <1>2. /\ a.kind = "response" /\ a.body.readable = TRUE
        /\ chained => a.http = 200
        /\ ~ chained => a.http = 400
        /\ a.body.error = [present |-> ~ chained, untrusted |-> ~ chained, unparseable |-> FALSE]
        /\ a.body.status <=> chained /\ verifies(fx)
        /\ a.body.message = [form |-> "code", code |-> IF verifies(fx) THEN 0 ELSE 5]
        /\ a.body.claims = <<[id |-> "age_over_18", value |-> fx.claim]>>
        /\ a.body.stamp = Usable(IF fx.stamp = "now" THEN Minted[fx.ca] ELSE Expired)
    BY <1>1 DEF Answer
  <1>3. PICK v : v = check(name, current, now)
    OBVIOUS
  <1>4. v = classify(a, o)
    BY <1>1, <1>3 DEF check
  <1>5. CASE ~ chained
    <2>1. v = refused(a.body.error)
      BY <1>2, <1>4, <1>5 DEF classify
    <2>2. refused([present |-> TRUE, untrusted |-> TRUE, unparseable |-> FALSE])
             = Answered("no", "issuer_untrusted")
      BY DEF refused
    <2>3. a.body.error = [present |-> TRUE, untrusted |-> TRUE, unparseable |-> FALSE]
      <3>1. (~ chained) = TRUE
        BY <1>5
      <3> HIDE DEF chained
      <3> QED BY <1>2, <3>1
    <2> QED BY <1>3, <1>5, <2>1, <2>2, <2>3
  <1>6. CASE chained /\ ~ verifies(fx)
    <2>1. v = failed(a.body.message)
      BY <1>2, <1>4, <1>6 DEF classify
    <2>2. failed([form |-> "code", code |-> 5]) = Answered("no", "zk_proof_invalid")
      BY DEF failed, PROOF_IS_BAD
    <2> QED BY <1>2, <1>3, <1>6, <2>1, <2>2
  <1>7. CASE chained /\ verifies(fx)
    <2>1. v = proven(a.body, o)
      BY <1>2, <1>4, <1>7 DEF classify
    <2>2. findClaim(a.body.claims, o.requiredClaim) = fx.claim
      BY <1>2, OnlyClaim
    <2>3. ASSUME fx.claim = "false" PROVE v = Answered("no", "claim_false")
      BY <2>1, <2>2, <2>3 DEF proven
    <2>4. ASSUME fx.claim = "true"
          PROVE  v = IF current THEN freshnessGate(a.body, Usable(now), Usable(Tolerance))
                     ELSE Answered("yes", "verified")
      BY <2>1, <2>2, <2>4 DEF proven
    <2>5. /\ now \in Int /\ Tolerance \in Int /\ Expired \in Int /\ Minted[fx.ca] \in Int
          /\ now - Expired > Tolerance
      <3>1. fx.ca \in CA
        BY <1>7
      <3> QED BY <3>1, ClockAssumption
    <2>6. ASSUME fx.stamp = "2020"
          PROVE  freshnessGate(a.body, Usable(now), Usable(Tolerance))
                    = Answered("no", "credential_expired")
      BY <1>2, <2>5, <2>6 DEF freshnessGate, Usable
    <2>7. ASSUME fx.stamp = "now", Timely(fx, now)
          PROVE  freshnessGate(a.body, Usable(now), Usable(Tolerance))
                    = Answered("yes", "verified")
      BY <1>2, <2>5, <2>7 DEF freshnessGate, Usable, Fresh, Answered, Timely
    <2>8. fx.claim = "true" /\ ~ current => v = Answered("yes", "verified")
      BY <2>4
    <2>9. fx.claim = "true" /\ current /\ fx.stamp = "2020"
             => v = Answered("no", "credential_expired")
      BY <2>4, <2>6
    <2>10. fx.claim = "true" /\ current /\ fx.stamp = "now" /\ Timely(fx, now)
             => v = Answered("yes", "verified")
      BY <2>4, <2>7
    <2> QED BY <1>3, <1>7, <2>3, <2>8, <2>9, <2>10
  <1> QED BY <1>3, <1>5, <1>6, <1>7

---------------------------------------------------------------------------
(* What a made fixture is.                                                 *)

\* Everything the verdict depends on, of a fixture that passed the self-check.
LEMMA MadeIs ==
    ASSUME NEW name \in Name, NEW run, NEW fx, Made(name, run, fx)
    PROVE  /\ fx.ca = caOf(run, name) /\ fx.whole = TRUE
           /\ fx.leafIntact \in BOOLEAN
           /\ fx.leafIntact <=> name # "mangled-cert"
           /\ fx.claim = IF name = "underage" THEN "false" ELSE "true"
           /\ fx.stamp = IF name = "expired-credential" THEN "2020" ELSE "now"
           /\ verifies(fx) <=> name \notin {"tampered", "stale-nonce", "substituted-claim"}
  <1>1. PICK broke \in BOOLEAN, unchained \in BOOLEAN :
           fx = scenario(run, name, broke, unchained) /\ asserted(name, fx)
    BY DEF Made
  <1>2. PICK o : o = opts(name)
    OBVIOUS
  <1>3. /\ o.mangleCert <=> name = "mangled-cert"
        /\ o.wireValue = IF name = "underage" THEN "false" ELSE "true"
        /\ o.clock = IF name = "expired-credential" THEN "2020" ELSE "now"
        /\ o.want = "accept" <=> name \notin {"tampered", "stale-nonce", "substituted-claim"}
    BY <1>2 DEF opts, Honest
  <1>4. /\ fx.ca = caOf(run, name) /\ fx.whole = TRUE
        /\ fx.leafIntact <=> ~ (o.mangleCert /\ unchained)
        /\ fx.leafIntact \in BOOLEAN
        /\ fx.claim = o.wireValue /\ fx.stamp = o.clock
    BY <1>1, <1>2 DEF scenario
  <1>5. /\ verifies(fx) <=> o.want = "accept"
        /\ o.mangleCert => ~ fx.leafIntact
    BY <1>1, <1>2 DEF asserted
  <1> QED BY <1>3, <1>4, <1>5

LEMMA MadeChecks ==
    ASSUME NEW name \in Name, NEW run, Made(name, run, dir[name]), NEW current \in BOOLEAN,
           NEW now \in Clocks, pem \subseteq Trusted
    PROVE  /\ check(name, current, now).over = "yes" => Expected(name, current) = "verified"
           /\ (name = "untrusted-issuer" <=> dir[name].ca \notin pem)
                /\ (current => Timely(dir[name], now))
                => check(name, current, now).reason = Expected(name, current)
  <1> DEFINE fx == dir[name]
             v == check(name, current, now)
             timely == current => Timely(fx, now)
  <1>1. /\ fx.leafIntact \in BOOLEAN /\ fx.claim \in Value /\ fx.stamp \in Stamp
        /\ fx.ca = caOf(run, name)
        /\ fx.leafIntact <=> name # "mangled-cert"
        /\ fx.claim = IF name = "underage" THEN "false" ELSE "true"
        /\ fx.stamp = IF name = "expired-credential" THEN "2020" ELSE "now"
        /\ verifies(fx) <=> name \notin {"tampered", "stale-nonce", "substituted-claim"}
    <2>1. PICK f : f = dir[name]
      OBVIOUS
    <2>2. Made(name, run, f)
      BY <2>1
    <2>3. /\ f.leafIntact \in BOOLEAN /\ f.ca = caOf(run, name)
          /\ f.leafIntact <=> name # "mangled-cert"
          /\ f.claim = IF name = "underage" THEN "false" ELSE "true"
          /\ f.stamp = IF name = "expired-credential" THEN "2020" ELSE "now"
          /\ verifies(f) <=> name \notin {"tampered", "stale-nonce", "substituted-claim"}
      BY <2>2, MadeIs, Zenon
    <2>4. f.claim \in Value /\ f.stamp \in Stamp
      BY <2>3 DEF Value, Stamp
    <2> QED BY <2>1, <2>3, <2>4, Zenon
  <1>2. /\ ~ (fx.leafIntact /\ fx.ca \in pem) => v = Answered("no", "issuer_untrusted")
        /\ fx.leafIntact /\ fx.ca \in pem /\ ~ verifies(fx) => v = Answered("no", "zk_proof_invalid")
        /\ fx.leafIntact /\ fx.ca \in pem /\ verifies(fx) /\ fx.claim = "false"
              => v = Answered("no", "claim_false")
        /\ fx.leafIntact /\ fx.ca \in pem /\ verifies(fx) /\ fx.claim = "true" =>
              /\ current /\ fx.stamp = "2020" => v = Answered("no", "credential_expired")
              /\ (fx.stamp = "now" \/ ~ current) /\ timely
                    => v = Answered("yes", "verified")
    <2>1. pem \subseteq CA
      BY DEF Trusted
    <2>2. /\ ~ (fx.leafIntact /\ fx.ca \in pem) => v = Answered("no", "issuer_untrusted")
          /\ fx.leafIntact /\ fx.ca \in pem /\ ~ verifies(fx)
                => v = Answered("no", "zk_proof_invalid")
          /\ fx.leafIntact /\ fx.ca \in pem /\ verifies(fx) /\ fx.claim = "false"
                => v = Answered("no", "claim_false")
          /\ fx.leafIntact /\ fx.ca \in pem /\ verifies(fx) /\ fx.claim = "true" =>
                /\ ~ current => v = Answered("yes", "verified")
                /\ current /\ fx.stamp = "2020" => v = Answered("no", "credential_expired")
                /\ current /\ fx.stamp = "now" /\ Timely(fx, now) => v = Answered("yes", "verified")
      BY <1>1, <2>1, Judged
    <2> QED BY <2>2
  <1>3. name = "untrusted-issuer" => fx.ca \notin pem
    <2>1. "untrusted-issuer" \notin Unlinkable
      BY DEF Unlinkable
    <2> QED BY <1>1, <2>1 DEF caOf, Trusted
  <1>4. \A over, reason : /\ Answered(over, reason).over = over
                          /\ Answered(over, reason).reason = reason
    BY DEF Answered
  <1> HIDE DEF fx, v, timely
  <1>5. Expected(name, current) =
           IF name = "underage" THEN "claim_false"
           ELSE IF name \in {"untrusted-issuer", "mangled-cert"} THEN "issuer_untrusted"
           ELSE IF name \in {"tampered", "stale-nonce", "substituted-claim"} THEN "zk_proof_invalid"
           ELSE IF name = "expired-credential" /\ current THEN "credential_expired"
           ELSE "verified"
    BY DEF Expected
  <1>6. v.over = "yes" => Expected(name, current) = "verified"
    BY <1>1, <1>2, <1>3, <1>4, <1>5
  <1>7. (name = "untrusted-issuer" <=> fx.ca \notin pem) /\ timely => v.reason = Expected(name, current)
    BY <1>1, <1>2, <1>4, <1>5
  <1> QED BY <1>6, <1>7 DEF fx, v, timely

---------------------------------------------------------------------------
(* The steps of a run.                                                     *)

LEMMA GenParts ==
    ASSUME gen \in GenType
    PROVE  /\ gen.pc \in {"idle", "clearing", "emitting", "sharing", "trusting", "failed", "returned"}
           /\ gen.run \in 0..MaxRuns /\ gen.run \in Int /\ gen.at \in 1..11 /\ gen.at \in Int
           /\ gen.nonce \in BOOLEAN /\ gen.trusted \in Seq(CA) /\ gen.share \subseteq Unlinkable
  BY PlanIs DEF GenType

\* A step of the run is at most an EXCEPT of gen.
LEMMA GenStep ==
    ASSUME gen \in GenType,
           NEW pc \in {"idle", "clearing", "emitting", "sharing", "trusting", "failed", "returned"},
           NEW run \in 0..MaxRuns, NEW at \in 1..11, NEW nonce \in BOOLEAN,
           NEW trusted \in Seq(CA), NEW share \in SUBSET Unlinkable,
           gen' = [pc |-> pc, run |-> run, at |-> at, nonce |-> nonce, trusted |-> trusted,
                   share |-> share]
    PROVE  gen' \in GenType
  BY PlanIs DEF GenType

LEMMA Written ==
    ASSUME NEW name, NEW fx, Write(name, fx)
    PROVE  /\ DOMAIN dir' = DOMAIN dir \cup {name} /\ dir'[name] = fx
           /\ \A n \in DOMAIN dir \ {name} : dir'[n] = dir[n]
  BY DEF Write

LEMMA Torn ==
    ASSUME NEW name, NEW run, NEW b, NEW u
    PROVE  ~ [scenario(run, name, b, u) EXCEPT !.whole = FALSE].whole
  BY DEF scenario

LEMMA Owned ==
    ASSUME NEW name \in Name, NEW run, NEW fx, Made(name, run, fx)
    PROVE  fx.ca = caOf(run, name) /\ fx.whole = TRUE /\ fx.ca.run = run
  <1>1. fx.ca = caOf(run, name) /\ fx.whole = TRUE
    BY MadeIs, Zenon
  <1> QED BY <1>1 DEF caOf

LEMMA Issuer ==
    ASSUME NEW run \in 1..MaxRuns, NEW name \in Name, trusts(name)
    PROVE  caOf(run, name) \in Trusted
  <1>1. "untrusted-issuer" # "unlinkable" /\ Unlinkable \cap Scenario = {}
    BY PlanIs
  <1> QED BY <1>1 DEF Trusted, CA, caOf, trusts, Name

\* A file is written, whole or torn: nothing else there changes.
LEMMA HonestWrite ==
    ASSUME IInv, NEW name \in Name, NEW fx, Write(name, fx),
           ~ fx.whole \/ (\E run : Made(name, run, fx)),
           gen'.trusted \in Seq(Trusted), UNCHANGED pem
    PROVE  Honestly'
  <1>1. fx.whole => Made(name, fx.ca.run, fx)
    BY Owned
  <1>2. \A n \in DOMAIN dir' : n \in Name /\ (dir'[n].whole => Made(n, dir'[n].ca.run, dir'[n]))
    <2> TAKE n \in DOMAIN dir'
    <2>1. CASE n = name
      BY <1>1, <2>1, Written
    <2>2. CASE n # name
      <3>1. n \in DOMAIN dir /\ dir'[n] = dir[n]
        BY <2>2 DEF Write
      <3>2. n \in Name /\ (dir[n].whole => Made(n, dir[n].ca.run, dir[n]))
        BY <3>1 DEF IInv, Honestly
      <3> QED BY <3>1, <3>2, Zenon
    <2> QED BY <2>1, <2>2
  <1> QED BY <1>2 DEF IInv, Honestly

\* Failing changes nothing but where the run is.
LEMMA FailedStep ==
    ASSUME IInv, gen' = Failed
    PROVE  /\ gen' \in GenType /\ AtStep' /\ OneGeneration'
           /\ gen'.trusted = gen.trusted /\ gen'.trusted \in Seq(Trusted)
  <1>1. gen \in GenType /\ gen.trusted \in Seq(Trusted)
    BY DEF IInv, Honestly
  <1>2. gen' \in GenType /\ gen'.pc = "failed" /\ gen'.trusted = gen.trusted
    BY <1>1 DEF Failed, GenType
  <1> QED BY <1>1, <1>2 DEF AtStep, OneGeneration, Running

LEMMA IInvInit == Init => IInv
  <1> SUFFICES ASSUME Init PROVE IInv
    OBVIOUS
  <1>1. gen \in GenType
    BY RunsAssumption, PlanIs DEF Init, GenType
  <1>2. Honestly
    BY DEF Init, Honestly
  <1> QED BY <1>1, <1>2 DEF Init, IInv, AtStep, OneGeneration, Running

LEMMA BeginStep ==
    ASSUME IInv, NEW nonce \in BOOLEAN, NEW circuitKnown \in BOOLEAN, Begin(nonce, circuitKnown)
    PROVE  IInv'
  <1>1. /\ gen'.pc = IF circuitKnown THEN "clearing" ELSE "failed"
        /\ gen'.run = gen.run + 1 /\ gen'.at = 1 /\ gen'.trusted = <<>> /\ gen'.share = {}
        /\ gen.run < MaxRuns /\ UNCHANGED <<dir, pem>>
    BY DEF IInv, Begin, GenType
  <1>2. gen' \in GenType
    <2>1. 1 \in 1..(Len(Plan) + 1) /\ <<>> \in Seq(CA)
      BY PlanIs
    <2>2. gen.run + 1 \in 0..MaxRuns
      BY <1>1, RunsAssumption, GenParts DEF IInv
    <2>3. (IF circuitKnown THEN "clearing" ELSE "failed")
             \in {"idle", "clearing", "emitting", "sharing", "trusting", "failed", "returned"}
      OBVIOUS
    <2> QED BY <2>1, <2>2, <2>3 DEF IInv, Begin, GenType
  <1>3. AtStep'
    BY <1>1, GenParts DEF AtStep, Running, IInv
  <1> QED BY <1>1, <1>2, <1>3 DEF IInv, Honestly, OneGeneration

LEMMA ClearStep ==
    ASSUME IInv, Clear
    PROVE  IInv'
  <1>1. CASE stale = {}
    <2>1. /\ gen' \in GenType /\ gen'.pc = "emitting" /\ gen'.run = gen.run /\ gen'.at = 1
          /\ gen'.share = {} /\ gen'.trusted = gen.trusted /\ UNCHANGED <<dir, pem>>
          /\ gen.run > 0
      BY <1>1 DEF Clear, IInv, GenType, AtStep, Running
    <2>2. DOMAIN dir = {}
      <3> SUFFICES ASSUME NEW n \in DOMAIN dir PROVE FALSE
        OBVIOUS
      <3>1. PICK i \in DOMAIN Glob : n = Glob[i]
        BY GlobIs DEF IInv, Honestly
      <3> QED BY <1>1, <3>1 DEF stale
    <2>3. Shipped' = {}
      BY <2>1 DEF Shipped
    <2> QED BY <2>1, <2>2, <2>3 DEF IInv, AtStep, Honestly, OneGeneration, Running
  <1>2. CASE stale # {}
    <2>1. PICK n : dir' = Restrict(dir, DOMAIN dir \ {n}) /\ UNCHANGED <<gen, pem>>
      BY <1>2 DEF Clear
    <2>2. DOMAIN dir' \subseteq DOMAIN dir /\ \A m \in DOMAIN dir' : dir'[m] = dir[m]
      BY <2>1 DEF Restrict
    <2>3. gen.pc = "clearing"
      BY DEF Clear
    <2>4. \A m \in DOMAIN dir' : m \in Name /\ (dir'[m].whole => Made(m, dir'[m].ca.run, dir'[m]))
      BY <2>2, Zenon DEF IInv, Honestly
    <2> QED BY <2>1, <2>3, <2>4 DEF IInv, AtStep, Honestly, OneGeneration, Running
  <1> QED BY <1>1, <1>2

\* Where the run is after a step of the plan is done.
LEMMA AdvancedIs ==
    ASSUME IInv, gen.pc \in {"emitting", "sharing"}, gen.at <= 10, NEW trusted \in Seq(Trusted), NEW g, g = Advanced(trusted)
    PROVE  LET at == IF gen.at = 9 /\ ~ gen.nonce THEN 11 ELSE gen.at + 1
           IN  /\ g \in GenType /\ g.trusted = trusted /\ g.share = gen.share
               /\ g.run = gen.run /\ g.nonce = gen.nonce /\ g.at = at
               /\ g.pc = IF at > 10 THEN "trusting" ELSE "emitting"
  <1> DEFINE at == IF gen.at = 9 /\ ~ gen.nonce THEN 11 ELSE gen.at + 1
  <1>1. trusted \in Seq(CA)
    BY DEF Trusted
  <1>2. Len(Plan) = 10 /\ at \in 1..(Len(Plan) + 1)
    <2>1. Len(Plan) = 10
      BY PlanIs
    <2>2. gen.at \in 1..11 /\ gen.at \in Int /\ gen.nonce \in BOOLEAN
      BY GenParts DEF IInv
    <2>3. at \in 1..11
      BY <2>2, SMTT(30)
    <2> QED BY <2>1, <2>3
  <1>3. PICK pc : pc = (IF at > 10 THEN "trusting" ELSE "emitting") /\ pc \in {"trusting", "emitting"}
    OBVIOUS
  <1>4. g = [gen EXCEPT !.pc = pc, !.at = at, !.trusted = trusted]
    BY <1>2, <1>3 DEF Advanced
  <1> HIDE DEF at
  <1>5. /\ g \in GenType /\ g.trusted = trusted /\ g.share = gen.share
        /\ g.run = gen.run /\ g.nonce = gen.nonce /\ g.at = at /\ g.pc = pc
    BY <1>1, <1>2, <1>3, <1>4 DEF IInv, GenType
  <1> QED BY <1>3, <1>5 DEF at

\* The names written after one more step of the plan.
LEMMA OneMore ==
    ASSUME NEW k \in 1..10, k # 9
    PROVE  {Plan[i] : i \in 1..k} \ {"unlinkable"}
              = ({Plan[i] : i \in 1..(k - 1)} \ {"unlinkable"}) \cup {Plan[k]}
  <1>1. Plan[k] # "unlinkable"
    BY PlanIs
  <1>2. 1..k = (1..(k - 1)) \cup {k}
    OBVIOUS
  <1> QED BY <1>1, <1>2

LEMMA EmitStep ==
    ASSUME IInv, NEW name \in Scenario, Emit(name)
    PROVE  IInv'
  <1>1. /\ gen.pc = "emitting" /\ Plan[gen.at] = name /\ gen.share = {} /\ UNCHANGED pem
        /\ gen.at \in 1..10 /\ gen.at # 9 /\ gen.run \in 1..MaxRuns /\ gen.nonce \in BOOLEAN
        /\ gen.at = 10 => gen.nonce
    <2>1. gen.pc = "emitting" /\ Plan[gen.at] = name /\ UNCHANGED pem
      BY DEF Emit
    <2>2. gen.at \in 1..11 /\ gen.at \in Int /\ gen.run \in 0..MaxRuns /\ gen.nonce \in BOOLEAN
      BY GenParts DEF IInv
    <2>3. gen.at <= 10 /\ (gen.at = 10 => gen.nonce) /\ gen.share = {} /\ gen.run > 0
      BY <2>1 DEF IInv, AtStep, Running
    <2>4. name # "unlinkable"
      BY DEF Scenario
    <2>5. Plan[9] = "unlinkable"
      BY PlanIs
    <2> QED BY <2>1, <2>2, <2>3, <2>4, <2>5, RunsAssumption
  <1>2. PICK broke \in BOOLEAN, unchained \in BOOLEAN :
           LET fx == scenario(gen.run, name, broke, unchained)
           IN  IF asserted(name, fx)
               THEN Write(name, fx) /\ gen' = Advanced(WithCA(name))
               ELSE gen' = Failed /\ UNCHANGED dir
    BY DEF Emit
  <1> DEFINE fx == scenario(gen.run, name, broke, unchained)
  <1>3. CASE ~ asserted(name, fx)
    <2>1. gen' = Failed /\ UNCHANGED dir
      BY <1>2, <1>3
    <2>2. Honestly'
      BY <1>1, <2>1, FailedStep DEF IInv, Honestly
    <2> QED BY <2>1, <2>2, FailedStep DEF IInv
  <1>4. CASE asserted(name, fx)
    <2>1. Write(name, fx) /\ gen' = Advanced(WithCA(name))
      BY <1>2, <1>4
    <2>2. Made(name, gen.run, fx)
      BY <1>4 DEF Made
    <2> HIDE DEF fx
    <2>3. name \in Name
      BY DEF Name
    <2>4. /\ WithCA(name) \in Seq(Trusted)
          /\ CAs(gen.trusted) \subseteq CAs(WithCA(name))
          /\ trusts(name) => caOf(gen.run, name) \in CAs(WithCA(name))
      <3>1. gen.trusted \in Seq(Trusted)
        BY DEF IInv, Honestly
      <3>2. CASE trusts(name)
        <4>1. PICK ca : ca = caOf(gen.run, name) /\ ca \in Trusted
          BY <1>1, <2>3, <3>2, Issuer
        <4>2. WithCA(name) = Append(gen.trusted, ca)
          BY <3>2, <4>1 DEF WithCA
        <4> QED BY <3>1, <4>1, <4>2 DEF CAs
      <3>3. CASE ~ trusts(name)
        BY <3>1, <3>3 DEF WithCA
      <3> QED BY <3>2, <3>3
    <2>5. /\ gen' \in GenType /\ gen'.trusted = WithCA(name) /\ gen'.share = {}
          /\ gen'.run = gen.run /\ gen'.nonce = gen.nonce /\ gen'.at = gen.at + 1
          /\ gen'.pc = IF gen.at = 10 THEN "trusting" ELSE "emitting"
      BY <1>1, <2>1, <2>4, AdvancedIs
    <2>6. Honestly'
      BY <1>1, <2>1, <2>2, <2>3, <2>4, <2>5, HonestWrite
    <2>7. AtStep'
      BY <1>1, <2>5 DEF AtStep, Running
    <2>8. OneGeneration'
      <3>1. Shipped' = Shipped \cup {name}
        <4>1. {Plan[i] : i \in 1..gen.at} \ {"unlinkable"}
                 = ({Plan[i] : i \in 1..(gen.at - 1)} \ {"unlinkable"}) \cup {name}
          BY <1>1, OneMore
        <4>2. (gen.at + 1) - 1 = gen.at
          BY <1>1
        <4>3. name = "single-use" => gen.nonce
          BY <1>1, PlanIs
        <4>4. gen'.at > 9 <=> gen.at > 9
          BY <1>1, <2>5
        <4> QED BY <1>1, <2>5, <4>1, <4>2, <4>3, <4>4 DEF Shipped
      <3>2. DOMAIN dir' = Shipped'
        BY <1>1, <2>1, <3>1, Written DEF IInv, OneGeneration
      <3>3. ASSUME NEW n \in DOMAIN dir'
            PROVE  /\ Made(n, gen.run, dir'[n])
                   /\ trusts(n) => caOf(gen.run, n) \in CAs(WithCA(name))
        <4>1. CASE n = name
          <5>1. dir'[n] = fx
            BY <2>1, <4>1 DEF Write
          <5> QED BY <2>2, <2>4, <4>1, <5>1, Zenon
        <4>2. CASE n # name
          <5>1. n \in DOMAIN dir /\ dir'[n] = dir[n]
            BY <2>1, <4>2 DEF Write
          <5>2. Made(n, gen.run, dir[n]) /\ (trusts(n) => caOf(gen.run, n) \in CAs(gen.trusted))
            BY <1>1, <5>1 DEF IInv, OneGeneration
          <5> QED BY <2>4, <5>1, <5>2, Zenon
        <4> QED BY <4>1, <4>2
      <3>4. gen'.pc \notin {"sharing", "returned"}
        BY <2>5
      <3>5. \A n \in DOMAIN dir' : /\ Made(n, gen'.run, dir'[n])
                                   /\ trusts(n) => caOf(gen'.run, n) \in CAs(gen'.trusted)
        BY <2>5, <3>3, Zenon
      <3> QED BY <3>2, <3>4, <3>5 DEF OneGeneration
    <2> QED BY <2>5, <2>6, <2>7, <2>8 DEF IInv
  <1> QED BY <1>3, <1>4

\* The presentations of the unlinkability set are honest ones.
LEMMA SharedMade ==
    ASSUME NEW name \in Unlinkable
    PROVE  Made(name, gen.run, shared(name)) /\ shared(name).ca = caOf(gen.run, "unlinkable-a1")
  <1>1. opts(name) = Honest
    BY DEF opts, Unlinkable
  <1>2. PICK fx : fx = shared(name)
    OBVIOUS
  <1>3. fx.proof = [value |-> "true", stamp |-> "now", session |-> "own", intact |-> TRUE]
    <2>1. (~ (Honest.tamperProof /\ TRUE)) = TRUE
      BY DEF Honest
    <2>2. fx.proof = [value |-> Honest.credValue, stamp |-> Honest.clock,
                      session |-> Honest.session, intact |-> ~ (Honest.tamperProof /\ TRUE)]
      BY <1>1, <1>2 DEF shared, scenario
    <2>3. fx.proof = [value |-> Honest.credValue, stamp |-> Honest.clock,
                      session |-> Honest.session, intact |-> TRUE]
      BY <2>1, <2>2, Zenon
    <2> QED BY <2>3 DEF Honest
  <1>4. fx.claim = "true" /\ fx.stamp = "now" /\ fx.session = "own" /\ fx.ca = caOf(gen.run, name)
    BY <1>1, <1>2 DEF shared, scenario, Honest
  <1>5. asserted(name, fx)
    BY <1>1, <1>3, <1>4 DEF asserted, verifies, Honest
  <1>6. caOf(gen.run, name) = caOf(gen.run, "unlinkable-a1")
    BY DEF caOf, Unlinkable
  <1> QED BY <1>2, <1>4, <1>5, <1>6 DEF Made, shared

LEMMA SharedIssuer ==
    ASSUME NEW run \in 1..MaxRuns
    PROVE  caOf(run, "unlinkable-a1") \in Trusted
  BY Issuer DEF Name, Unlinkable, trusts

LEMMA MintSetStep ==
    ASSUME IInv, MintSet
    PROVE  IInv'
  <1>1. /\ gen.pc = "emitting" /\ gen.at = 9 /\ gen.share = {} /\ UNCHANGED <<dir, pem>>
        /\ gen.run \in 1..MaxRuns
    <2>1. gen.at \in 1..10 /\ gen.run \in 1..MaxRuns
      BY GenParts, RunsAssumption DEF IInv, AtStep, MintSet, Running
    <2> QED BY <2>1, PlanIs DEF MintSet, IInv, AtStep
  <1>2. PICK ca : ca = caOf(gen.run, "unlinkable-a1") /\ ca \in Trusted /\ ca \in CA
    BY <1>1, SharedIssuer DEF Trusted
  <1>3. gen' = [gen EXCEPT !.pc = "sharing", !.share = Unlinkable, !.trusted = Append(gen.trusted, ca)]
    BY <1>2, SharedMade DEF MintSet, Made, shared, Unlinkable
  <1>4. gen \in GenType /\ gen.trusted \in Seq(CA) /\ gen.trusted \in Seq(Trusted)
    BY GenParts DEF IInv, Honestly
  <1>5. /\ gen' \in GenType /\ gen'.trusted \in Seq(Trusted)
        /\ CAs(gen.trusted) \subseteq CAs(gen'.trusted) /\ ca \in CAs(gen'.trusted)
    <2>1. PICK trusted : trusted = Append(gen.trusted, ca)
      OBVIOUS
    <2>2. trusted \in Seq(CA) /\ trusted \in Seq(Trusted)
      BY <1>2, <1>4, <2>1
    <2>3. CAs(gen.trusted) \subseteq CAs(trusted) /\ ca \in CAs(trusted)
      BY <1>2, <1>4, <2>1 DEF CAs
    <2>4. gen' \in GenType /\ gen'.trusted = trusted
      BY <1>3, <1>4, <2>1, <2>2 DEF GenType
    <2> QED BY <2>2, <2>3, <2>4
  <1>6. /\ gen'.pc = "sharing" /\ gen'.share = Unlinkable /\ gen'.at = gen.at /\ gen'.run = gen.run
        /\ gen'.nonce = gen.nonce
    BY <1>3, <1>4 DEF GenType
  <1>7. Shipped' = Shipped
    BY <1>1, <1>6 DEF Shipped
  <1>8. \A n \in DOMAIN dir' : /\ Made(n, gen'.run, dir'[n])
                               /\ trusts(n) => caOf(gen'.run, n) \in CAs(gen'.trusted)
    <2>1. \A n \in DOMAIN dir : /\ Made(n, gen.run, dir[n])
                                /\ trusts(n) => caOf(gen.run, n) \in CAs(gen.trusted)
      BY <1>1 DEF IInv, OneGeneration
    <2>2. dir' = dir
      BY <1>1
    <2> QED BY <1>5, <1>6, <2>1, <2>2, Zenon
  <1>9. OneGeneration'
    BY <1>1, <1>2, <1>5, <1>6, <1>7, <1>8 DEF IInv, OneGeneration
  <1> QED BY <1>1, <1>5, <1>6, <1>9 DEF IInv, AtStep, Honestly, Running

LEMMA WriteShareStep ==
    ASSUME IInv, NEW name \in Unlinkable, WriteShare(name)
    PROVE  IInv'
  <1>1. /\ gen.pc = "sharing" /\ gen.at = 9 /\ name \in gen.share /\ UNCHANGED pem
        /\ gen.run \in 1..MaxRuns /\ gen.share \subseteq Unlinkable /\ gen.nonce \in BOOLEAN
        /\ Write(name, shared(name))
    BY GenParts, RunsAssumption DEF IInv, AtStep, WriteShare, Running
  <1>2. gen \in GenType /\ gen.trusted \in Seq(Trusted)
    BY DEF IInv, Honestly
  <1>3. PICK g : g = IF gen.share = {name} THEN Advanced(gen.trusted) ELSE gen
    OBVIOUS
  <1>4. gen' = [g EXCEPT !.share = @ \ {name}]
    BY <1>3 DEF WriteShare
  <1>5. /\ g \in GenType /\ g.trusted = gen.trusted /\ g.share = gen.share /\ g.run = gen.run
        /\ g.nonce = gen.nonce
        /\ \/ g.pc = "sharing" /\ g.at = 9 /\ gen.share # {name}
           \/ g.pc = "emitting" /\ g.at = 10 /\ gen.nonce /\ gen.share = {name}
           \/ g.pc = "trusting" /\ g.at = 11 /\ ~ gen.nonce /\ gen.share = {name}
    <2>1. CASE gen.share = {name}
      <3>1. PICK a : a = Advanced(gen.trusted)
        OBVIOUS
      <3>2. LET at == IF gen.at = 9 /\ ~ gen.nonce THEN 11 ELSE gen.at + 1
            IN  /\ a \in GenType /\ a.trusted = gen.trusted /\ a.share = gen.share
                /\ a.run = gen.run /\ a.nonce = gen.nonce /\ a.at = at
                /\ a.pc = IF at > 10 THEN "trusting" ELSE "emitting"
        BY <1>1, <1>2, <3>1, AdvancedIs
      <3> QED BY <1>1, <1>3, <2>1, <3>1, <3>2
    <2>2. CASE gen.share # {name}
      BY <1>1, <1>2, <1>3, <2>2
    <2> QED BY <2>1, <2>2
  <1>6. /\ gen' \in GenType /\ gen'.trusted = gen.trusted /\ gen'.share = gen.share \ {name}
        /\ gen'.run = gen.run /\ gen'.nonce = gen.nonce /\ gen'.at = g.at /\ gen'.pc = g.pc
    BY <1>4, <1>5 DEF GenType
  <1>7. name \in Name /\ Made(name, gen.run, shared(name))
    BY SharedMade DEF Name
  <1>8. Honestly'
    BY <1>1, <1>2, <1>6, <1>7, HonestWrite
  <1>9. AtStep'
    BY <1>1, <1>5, <1>6 DEF AtStep, Running
  <1>10. OneGeneration'
    <2>1. Shipped' = Shipped \cup {name}
      <3>1. {Plan[i] : i \in 1..9} \ {"unlinkable"} = {Plan[i] : i \in 1..8} \ {"unlinkable"}
        <4>1. Plan[9] = "unlinkable" /\ 1..9 = (1..8) \cup {9}
          BY PlanIs
        <4> QED BY <4>1
      <3>2. {Plan[i] : i \in 1..10} \ {"unlinkable"}
               = ({Plan[i] : i \in 1..9} \ {"unlinkable"}) \cup {"single-use"}
        <4>1. Plan[10] = "single-use" /\ 1..10 = (1..9) \cup {10}
          BY PlanIs
        <4> QED BY <4>1
      <3>3. Plan[10] = "single-use" /\ \A i \in 1..8 : Plan[i] # "single-use"
        BY PlanIs
      <3>4. CASE g.at = 9
        BY <1>1, <1>5, <1>6, <3>4 DEF Shipped
      <3>5. CASE g.at = 10
        BY <1>1, <1>5, <1>6, <3>1, <3>5 DEF Shipped
      <3>6. CASE g.at = 11
        BY <1>1, <1>5, <1>6, <3>1, <3>2, <3>3, <3>6 DEF Shipped
      <3> QED BY <1>5, <3>4, <3>5, <3>6
    <2>2. DOMAIN dir' = Shipped'
      BY <1>1, <2>1, Written DEF IInv, OneGeneration
    <2>3. /\ caOf(gen.run, "unlinkable-a1") \in CAs(gen.trusted)
          /\ \A n \in DOMAIN dir : /\ Made(n, gen.run, dir[n])
                                   /\ trusts(n) => caOf(gen.run, n) \in CAs(gen.trusted)
      BY <1>1 DEF IInv, OneGeneration
    <2>4. caOf(gen.run, name) = caOf(gen.run, "unlinkable-a1")
      BY DEF caOf, Unlinkable
    <2>5. ASSUME NEW n \in DOMAIN dir'
          PROVE  Made(n, gen.run, dir'[n]) /\ (trusts(n) => caOf(gen.run, n) \in CAs(gen.trusted))
      <3>1. CASE n = name
        <4>1. dir'[n] = shared(name)
          BY <1>1, <3>1 DEF Write
        <4> QED BY <1>7, <2>3, <2>4, <3>1, <4>1, Zenon
      <3>2. CASE n # name
        <4>1. n \in DOMAIN dir /\ dir'[n] = dir[n]
          BY <1>1, <3>2 DEF Write
        <4> QED BY <2>3, <4>1, Zenon
      <3> QED BY <3>1, <3>2
    <2>6. \A n \in DOMAIN dir' : /\ Made(n, gen'.run, dir'[n])
                                 /\ trusts(n) => caOf(gen'.run, n) \in CAs(gen'.trusted)
      BY <1>6, <2>5, Zenon
    <2>7. gen'.pc # "returned" /\ caOf(gen'.run, "unlinkable-a1") \in CAs(gen'.trusted)
      BY <1>5, <1>6, <2>3
    <2> QED BY <2>2, <2>6, <2>7 DEF OneGeneration
  <1> QED BY <1>6, <1>8, <1>9, <1>10 DEF IInv

LEMMA WritePemStep ==
    ASSUME IInv, WritePem
    PROVE  IInv'
  <1>1. gen.pc = "trusting" /\ UNCHANGED dir /\ gen \in GenType /\ gen.trusted \in Seq(Trusted)
    BY DEF WritePem, IInv, Honestly
  <1>2. CAs(gen.trusted) \subseteq Trusted
    BY <1>1 DEF CAs
  <1>3. CASE gen' = Failed /\ UNCHANGED pem
    <2>1. Honestly'
      BY <1>1, <1>3, FailedStep DEF IInv, Honestly
    <2> QED BY <1>3, <2>1, FailedStep DEF IInv
  <1>4. CASE pem' = CAs(gen.trusted) /\ gen' = [gen EXCEPT !.pc = "returned"]
    <2>1. /\ gen' \in GenType /\ gen'.pc = "returned" /\ gen'.trusted = gen.trusted
          /\ gen'.run = gen.run /\ gen'.at = gen.at /\ gen'.nonce = gen.nonce
          /\ gen'.share = gen.share
      BY <1>1, <1>4 DEF GenType
    <2>2. Honestly'
      BY <1>1, <1>2, <1>4, <2>1 DEF IInv, Honestly
    <2>3. Shipped' = Shipped
      BY <1>1, <2>1 DEF Shipped
    <2>4. \A n \in DOMAIN dir' : /\ Made(n, gen'.run, dir'[n])
                                 /\ trusts(n) => caOf(gen'.run, n) \in CAs(gen'.trusted)
      <3>1. \A n \in DOMAIN dir : /\ Made(n, gen.run, dir[n])
                                  /\ trusts(n) => caOf(gen.run, n) \in CAs(gen.trusted)
        BY <1>1 DEF IInv, OneGeneration
      <3> QED BY <1>1, <2>1, <3>1, Zenon
    <2>5. OneGeneration'
      BY <1>1, <1>4, <2>1, <2>3, <2>4 DEF IInv, OneGeneration
    <2>6. AtStep'
      BY <1>1, <2>1 DEF IInv, AtStep, Running
    <2> QED BY <2>1, <2>2, <2>5, <2>6 DEF IInv
  <1> QED BY <1>3, <1>4 DEF WritePem

LEMMA InterruptedStep ==
    ASSUME IInv, Interrupted
    PROVE  IInv'
  <1>1. gen' = Failed /\ gen'.trusted \in Seq(Trusted)
    BY FailedStep DEF Interrupted
  <1> SUFFICES Honestly'
    BY <1>1, FailedStep DEF IInv
  <1>2. CASE UNCHANGED <<dir, pem>>
    BY <1>1, <1>2 DEF IInv, Honestly
  <1>3. ASSUME NEW name \in Name, WriteTorn(name), UNCHANGED pem
        PROVE  Honestly'
    <2>1. PICK fx : fx = [scenario(gen.run, name, TRUE, TRUE) EXCEPT !.whole = FALSE]
      OBVIOUS
    <2>2. Write(name, fx) /\ ~ fx.whole
      BY <1>3, <2>1, Torn DEF WriteTorn
    <2> QED BY <1>1, <1>3, <2>2, HonestWrite
  <1>4. ASSUME NEW n \in 0..Len(gen.trusted), pem' = CAs(SubSeq(gen.trusted, 1, n)), UNCHANGED dir
        PROVE  Honestly'
    <2>1. gen.trusted \in Seq(Trusted)
      BY DEF IInv, Honestly
    <2>2. SubSeq(gen.trusted, 1, n) \in Seq(Trusted)
      BY <2>1
    <2>3. pem' \subseteq Trusted
      BY <1>4, <2>2 DEF CAs
    <2> QED BY <1>1, <1>4, <2>3 DEF IInv, Honestly
  <1>5. CASE gen.pc = "emitting" /\ Plan[gen.at] \in Scenario /\ WriteTorn(Plan[gen.at])
             /\ UNCHANGED pem
    BY <1>3, <1>5 DEF Name
  <1>6. CASE gen.pc = "sharing" /\ (\E name \in gen.share : WriteTorn(name)) /\ UNCHANGED pem
    BY <1>3, <1>6, GenParts DEF IInv, Name
  <1> QED BY <1>2, <1>4, <1>5, <1>6 DEF Interrupted

LEMMA IInvStep == IInv /\ [Next]_vars => IInv'
  <1> SUFFICES ASSUME IInv, [Next]_vars PROVE IInv'
    OBVIOUS
  <1>1. CASE UNCHANGED vars
    <2>1. dir' = dir /\ pem' = pem /\ gen' = gen
      BY <1>1 DEF vars
    <2>2. Shipped' = Shipped
      BY <2>1 DEF Shipped
    <2> QED BY <2>1, <2>2 DEF IInv, AtStep, Honestly, OneGeneration, Running
  <1> QED BY <1>1, BeginStep, ClearStep, EmitStep, MintSetStep, WriteShareStep, WritePemStep,
             InterruptedStep DEF Next

LEMMA Invariance == Spec => []IInv
  BY IInvInit, IInvStep, PTL DEF Spec

---------------------------------------------------------------------------
(* What follows.                                                           *)

\* A fixture made to be refused is let in by no mixture of runs that the directory may
\* hold, however often a run stopped and wherever, on no clock of the suite for which 2020 is
\* past the tolerance (fixture.go:560-568): whatever is whole was made with its defect, and no
\* trust list has the CA that is to be unknown.
THEOREM NegativesStayOut == Spec => []NegativeNeverAccepted
  <1>1. IInv => NegativeNeverAccepted
    <2> SUFFICES ASSUME IInv, NEW name \in Name, NEW current \in BOOLEAN, NEW now \in Clocks,
                        Readable(name), check(name, current, now).over = "yes"
                 PROVE  Expected(name, current) = "verified"
      BY DEF NegativeNeverAccepted
    <2>1. Made(name, dir[name].ca.run, dir[name]) /\ pem \subseteq Trusted
      BY DEF IInv, Honestly, Readable
    <2> QED BY <2>1, MadeChecks
  <1> QED BY Invariance, <1>1, PTL

\* After a run that returned, whatever earlier or interrupted runs had left, every fixture it
\* was asked for is there and whole, and is judged as its name says under the trust list
\* beside it, for any tolerance and any clock within it of the fixture's minting.
THEOREM FixturesSayWhatTheyTest == Spec => []SaysWhatItTests
  <1>1. IInv => SaysWhatItTests
    <2> SUFFICES ASSUME IInv, gen.pc = "returned" PROVE SaysWhatItTests
      BY DEF SaysWhatItTests
    <2>1. /\ gen.at = 11 /\ gen.share = {} /\ DOMAIN dir = Shipped
          /\ pem = CAs(gen.trusted) /\ pem \subseteq Trusted /\ gen.nonce \in BOOLEAN
          /\ \A name \in DOMAIN dir :
                /\ name \in Name /\ Made(name, gen.run, dir[name])
                /\ trusts(name) => caOf(gen.run, name) \in CAs(gen.trusted)
      BY GenParts DEF IInv, AtStep, Honestly, OneGeneration
    <2>2. Shipped = IF gen.nonce THEN Name ELSE Name \ {"single-use"}
      <3>1. {Plan[i] : i \in 1..(gen.at - 1)} \ {"unlinkable"} = Scenario
        BY <2>1, PlanIs
      <3>2. "single-use" \notin Unlinkable
        BY DEF Unlinkable
      <3> QED BY <2>1, <3>1, <3>2 DEF Shipped, Name
    <2>3. ASSUME NEW name \in DOMAIN dir
          PROVE  /\ Readable(name)
                 /\ \A current \in BOOLEAN, now \in Clocks :
                       (current => Timely(dir[name], now))
                           => check(name, current, now).reason = Expected(name, current)
      <3>1. dir[name].ca = caOf(gen.run, name) /\ dir[name].whole = TRUE
        <4>1. name \in Name /\ Made(name, gen.run, dir[name])
          BY <2>1
        <4> QED BY <4>1, Owned, Zenon
      <3>2. name = "untrusted-issuer" <=> dir[name].ca \notin pem
        <4>1. name # "untrusted-issuer" => dir[name].ca \in pem
          BY <2>1, <3>1 DEF trusts
        <4>2. name = "untrusted-issuer" => dir[name].ca \notin pem
          <5>1. "untrusted-issuer" \notin Unlinkable
            BY DEF Unlinkable
          <5> QED BY <2>1, <3>1, <5>1 DEF Trusted, caOf
        <4> QED BY <4>1, <4>2
      <3> QED BY <2>1, <3>1, <3>2, MadeChecks DEF Readable
    <2> QED BY <2>1, <2>2, <2>3 DEF SaysWhatItTests
  <1> QED BY Invariance, <1>1, PTL
=============================================================================
