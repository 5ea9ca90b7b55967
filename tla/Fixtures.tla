------------------------------ MODULE Fixtures ------------------------------
(***************************************************************************)
(* tools/mkfixture: the Go program that mints the proofs the integration   *)
(* suite runs on, each with ONE thing wrong with it, and the trust list    *)
(* they are judged under.  A run writes the files of one directory one     *)
(* after another and may fail or be killed between any two; the next run   *)
(* finds what it left.                                                     *)
(*                                                                         *)
(* Cryptography is symbolic: a proof is what it commits to, and it         *)
(* verifies when what is shipped is what was proved.  Chance is a choice:  *)
(* a flipped byte may land where it changes nothing.  What the suite sees  *)
(* is classify() of Verdict.tla over what the longfellow service answers.  *)
(***************************************************************************)
EXTENDS Verdict, FiniteSetsExt, Functions

CONSTANTS
    MaxRuns,     \* bound: runs of mkfixture into the directory
    Minted,      \* the clock a credential was minted on, by the CA minted with it
    Expired,     \* the instant of 2020 the expired credential declares
    Tolerance,   \* the verifier's freshness tolerance
    Clocks       \* what the clock of the suite may read when it judges

ASSUME RunsAssumption == MaxRuns \in Nat \ {0}

VARIABLES
    dir,    \* the files there are, by fixture name
    pem,    \* the CAs in caCerts.pem
    gen     \* the current or last run

vars == <<dir, pem, gen>>

\* The order GenFixtures works in, and the presentations of its ninth step.
Plan == <<"valid", "untrusted-issuer", "underage", "tampered", "stale-nonce", "mangled-cert",
          "substituted-claim", "expired-credential", "unlinkable", "single-use">>
Unlinkable == {"unlinkable-a1", "unlinkable-a2", "unlinkable-b1"}
Scenario == {Plan[i] : i \in DOMAIN Plan} \ {"unlinkable"}
Name == Scenario \cup Unlinkable

\* Every CA is fresh; the presentations of the unlinkability set share one.
CA == [run: 1..MaxRuns, of: Scenario \cup {"unlinkable"}]

\* Any clocks, as long as 2020 is out of tolerance for the suite; the certificates' own
\* window, a year to either side of their minting, is taken to be open.
ASSUME ClockAssumption ==
    /\ Minted \in [CA -> Nat] /\ Expired \in Nat /\ Tolerance \in Nat /\ Clocks \subseteq Nat
    /\ \A now \in Clocks : now - Expired > Tolerance

caOf(run, name) == [run |-> run, of |-> IF name \in Unlinkable THEN "unlinkable" ELSE name]

Value == {"true", "false"}
Session == {"own", "issued", "other"}
Stamp == {"now", "2020"}

\* A proof commits to the credential's value, its clock and the session.
Proof == [value: Value, stamp: Stamp, session: Session, intact: BOOLEAN]

\* whole: FALSE when os.WriteFile was cut short.
Fixture == [ca: CA, leafIntact: BOOLEAN, proof: Proof,
            session: Session, claim: Value, stamp: Stamp, whole: BOOLEAN]

GenType ==
    [pc: {"idle", "clearing", "emitting", "sharing", "trusting", "failed", "returned"},
     run: 0..MaxRuns, at: 1..(Len(Plan) + 1),
     nonce: BOOLEAN,                \* -session-nonce was given
     trusted: Seq(CA),              \* the CAs that go into the PEM
     share: SUBSET Unlinkable]      \* the set's members still to write

Init ==
    /\ dir = <<>>
    /\ pem = {}
    /\ gen = [pc |-> "idle", run |-> 0, at |-> 1, nonce |-> FALSE, trusted |-> <<>>,
              share |-> {}]

---------------------------------------------------------------------------
(* One fixture.                                                            *)

\* scenarioOpts: the honest over-18 presentation, and what each scenario changes.
Honest == [credValue |-> "true", wireValue |-> "true", tamperProof |-> FALSE,
           staleNonce |-> FALSE, mangleCert |-> FALSE, session |-> "own", clock |-> "now",
           want |-> "accept"]

opts(name) ==
    CASE name = "underage"    -> [Honest EXCEPT !.credValue = "false", !.wireValue = "false"]
      [] name = "tampered"    -> [Honest EXCEPT !.tamperProof = TRUE, !.want = "reject"]
      [] name = "stale-nonce" -> [Honest EXCEPT !.staleNonce = TRUE, !.want = "reject"]
      [] name = "mangled-cert"      -> [Honest EXCEPT !.mangleCert = TRUE]
      [] name = "substituted-claim" -> [Honest EXCEPT !.credValue = "false", !.want = "reject"]
      [] name = "expired-credential" -> [Honest EXCEPT !.clock = "2020"]
      [] name = "single-use"  -> [Honest EXCEPT !.session = "issued"]
      [] OTHER -> Honest

\* What is shipped.  broke: the byte flipped in the proof mattered; unchained: the byte
\* flipped in the leaf certificate did.
scenario(run, name, broke, unchained) ==
    LET o == opts(name)
    IN  [ca |-> caOf(run, name),
         leafIntact |-> ~ (o.mangleCert /\ unchained),
         proof |-> [value |-> o.credValue, stamp |-> o.clock, session |-> o.session,
                    intact |-> ~ (o.tamperProof /\ broke)],
         session |-> IF o.staleNonce THEN "other" ELSE o.session,
         claim |-> o.wireValue, stamp |-> o.clock, whole |-> TRUE]

\* run_mdoc_verifier: the proof, for the value, clock and session it is shown with.
verifies(fx) == fx.proof = [value |-> fx.claim, stamp |-> fx.stamp, session |-> fx.session,
                            intact |-> TRUE]

asserted_Never(name, fx) == TRUE
\* assertFixtureVerifies and mangleLeaf: what is shipped does what its scenario says.
asserted(name, fx) ==
    /\ verifies(fx) <=> opts(name).want = "accept"
    /\ opts(name).mangleCert => ~ fx.leafIntact

trusts(name) == name # "untrusted-issuer"

---------------------------------------------------------------------------
(* A run.                                                                  *)

Running == gen.pc \in {"clearing", "emitting", "sharing", "trusting"}

\* The circuit is known by its id; a run over an unknown one touches nothing.
Begin(nonce, circuitKnown) ==
    /\ ~ Running /\ gen.run < MaxRuns
    /\ gen' = [gen EXCEPT !.pc = IF circuitKnown THEN "clearing" ELSE "failed",
                          !.run = @ + 1, !.at = 1, !.nonce = nonce, !.trusted = <<>>,
                          !.share = {}]
    /\ UNCHANGED <<dir, pem>>

Glob == <<"expired-credential", "mangled-cert", "single-use", "stale-nonce",
          "substituted-claim", "tampered", "underage", "unlinkable-a1", "unlinkable-a2",
          "unlinkable-b1", "untrusted-issuer", "valid">>

stale_Own == {i \in DOMAIN Glob : Glob[i] \in DOMAIN dir /\ (Glob[i] = "single-use" => gen.nonce)}
\* The fixtures of earlier runs still there, as the directory lists them.
stale == {i \in DOMAIN Glob : Glob[i] \in DOMAIN dir}

Clear ==
    /\ gen.pc = "clearing"
    /\ IF stale = {}
       THEN gen' = [gen EXCEPT !.pc = "emitting"] /\ UNCHANGED dir
       ELSE /\ dir' = Restrict(dir, DOMAIN dir \ {Glob[Min(stale)]})
            /\ UNCHANGED gen
    /\ UNCHANGED pem

\* gen with step at done: the unlinkability set and the single-use fixture come last,
\* the latter only when a nonce was given.
Advanced(trusted) ==
    LET at == IF gen.at = 9 /\ ~ gen.nonce THEN 11 ELSE gen.at + 1
    IN  [gen EXCEPT !.pc = IF at > Len(Plan) THEN "trusting" ELSE "emitting",
                    !.at = at, !.trusted = trusted]

Write(name, fx) == dir' = [n \in DOMAIN dir \cup {name} |-> IF n = name THEN fx ELSE dir[n]]

Failed == [gen EXCEPT !.pc = "failed"]

WithCA(name) ==
    IF trusts(name) THEN Append(gen.trusted, caOf(gen.run, name)) ELSE gen.trusted

\* One scenario is minted, presented, proved, spoiled, checked, packaged and written.
Emit(name) ==
    /\ gen.pc = "emitting" /\ Plan[gen.at] = name
    /\ \E broke, unchained \in BOOLEAN :
          LET fx == scenario(gen.run, name, broke, unchained)
          IN  IF asserted(name, fx)
              THEN Write(name, fx) /\ gen' = Advanced(WithCA(name))
              ELSE gen' = Failed /\ UNCHANGED dir
    /\ UNCHANGED pem

shared(name) == scenario(gen.run, name, TRUE, TRUE)

\* The unlinkability set is complete in memory before its first file is written.
MintSet ==
    /\ gen.pc = "emitting" /\ Plan[gen.at] = "unlinkable"
    /\ gen' = IF \A name \in Unlinkable : asserted(name, shared(name))
              THEN [gen EXCEPT !.pc = "sharing", !.share = Unlinkable,
                               !.trusted = Append(@, shared("unlinkable-a1").ca)]
              ELSE Failed
    /\ UNCHANGED <<dir, pem>>

\* A Go map is iterated in any order.
WriteShare(name) ==
    /\ gen.pc = "sharing" /\ name \in gen.share
    /\ Write(name, shared(name))
    /\ gen' = [IF gen.share = {name} THEN Advanced(gen.trusted) ELSE gen
                 EXCEPT !.share = @ \ {name}]
    /\ UNCHANGED pem

CAs(trusted) == {trusted[i] : i \in DOMAIN trusted}

\* The leak check, then the trust list.
WritePem ==
    /\ gen.pc = "trusting"
    /\ IF caOf(gen.run, "untrusted-issuer") \in CAs(gen.trusted)
       THEN gen' = Failed /\ UNCHANGED pem
       ELSE pem' = CAs(gen.trusted) /\ gen' = [gen EXCEPT !.pc = "returned"]
    /\ UNCHANGED dir

WriteTorn(name) == Write(name, [scenario(gen.run, name, TRUE, TRUE) EXCEPT !.whole = FALSE])

\* Any error, or a kill, ends the run where it is; a file being written is cut short,
\* which leaves a trust list with the first of its certificates.
Interrupted ==
    /\ Running
    /\ gen' = Failed
    /\ \/ UNCHANGED <<dir, pem>>
       \/ /\ gen.pc = "emitting" /\ Plan[gen.at] \in Scenario
          /\ WriteTorn(Plan[gen.at]) /\ UNCHANGED pem
       \/ /\ gen.pc = "sharing"
          /\ \E name \in gen.share : WriteTorn(name)
          /\ UNCHANGED pem
       \/ /\ gen.pc = "trusting"
          /\ \E n \in 0..Len(gen.trusted) : pem' = CAs(SubSeq(gen.trusted, 1, n))
          /\ UNCHANGED dir

Next ==
    \/ \E nonce, circuitKnown \in BOOLEAN : Begin(nonce, circuitKnown)
    \/ Clear
    \/ \E name \in Scenario : Emit(name)
    \/ MintSet
    \/ \E name \in Unlinkable : WriteShare(name)
    \/ WritePem
    \/ Interrupted

Spec == Init /\ [][Next]_vars

---------------------------------------------------------------------------
(* What the suite makes of the directory.                                  *)

Usable(n) == [usable |-> TRUE, ms |-> n]

\* The longfellow service: the chain against the trust list first, then the proof; the
\* claims are echoed whatever the proof said.
Answer(fx) ==
    LET chained == fx.leafIntact /\ fx.ca \in pem
    IN  [kind |-> "response", http |-> IF chained THEN 200 ELSE 400,
         body |-> [readable |-> TRUE,
                   error |-> [present |-> ~ chained, untrusted |-> ~ chained,
                              unparseable |-> FALSE],
                   status |-> chained /\ verifies(fx),
                   message |-> [form |-> "code", code |-> IF verifies(fx) THEN 0 ELSE 5],
                   claims |-> <<[id |-> "age_over_18", value |-> fx.claim]>>,
                   stamp |-> Usable(IF fx.stamp = "now" THEN Minted[fx.ca] ELSE Expired)]]

check(name, current, now) ==
    classify(Answer(dir[name]),
             [requiredClaim |-> "age_over_18", requireCurrentValidity |-> current,
              tolerance |-> Usable(Tolerance), now |-> Usable(now)])

\* The suite's clock is within the tolerance of the fixture's minting.
Timely(fx, now) ==
    /\ now - Minted[fx.ca] <= Tolerance
    /\ Minted[fx.ca] - now <= Tolerance

Readable(name) == name \in DOMAIN dir /\ dir[name].whole

\* The reason the suite expects of each fixture (test/integration.test.js:413-493,
\* 566-582, 640-646).
Expected(name, current) ==
    CASE name = "underage" -> "claim_false"
      [] name \in {"untrusted-issuer", "mangled-cert"} -> "issuer_untrusted"
      [] name \in {"tampered", "stale-nonce", "substituted-claim"} -> "zk_proof_invalid"
      [] name = "expired-credential" /\ current -> "credential_expired"
      [] OTHER -> "verified"

TypeOK ==
    /\ DOMAIN dir \subseteq Name /\ Range(dir) \subseteq Fixture
    /\ pem \subseteq CA
    /\ gen \in GenType

\* After a run that returned, whatever earlier or interrupted runs had left, the directory
\* holds the fixtures asked for, and every one is whole and fails for the reason it was made
\* for, or passes, when the verifier judges it under the trust list beside it: on any clock
\* where currency is not asked, on any within the tolerance of its minting where it is.
SaysWhatItTests ==
    gen.pc = "returned" =>
        /\ DOMAIN dir = IF gen.nonce THEN Name ELSE Name \ {"single-use"}
        /\ \A name \in DOMAIN dir :
              /\ Readable(name)
              /\ \A current \in BOOLEAN, now \in Clocks :
                    (current => Timely(dir[name], now))
                        => check(name, current, now).reason = Expected(name, current)

\* At no instant, whatever mixture of runs the directory holds and whatever the clock, is a
\* fixture made to be refused let in (fixture.go:560-568).
NegativeNeverAccepted ==
    \A name \in Name, current \in BOOLEAN, now \in Clocks :
        Readable(name) /\ check(name, current, now).over = "yes"
            => Expected(name, current) = "verified"

---------------------------------------------------------------------------
\* "The output directory must describe exactly one run" (fixture.go:568): all its
\* fixtures come from the run that wrote its trust list.
OneRun ==
    ~ Running => \A name \in Name : Readable(name) => \A ca \in pem : ca.run = dir[name].ca.run
=============================================================================
