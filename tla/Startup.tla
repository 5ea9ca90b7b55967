------------------------------ MODULE Startup ------------------------------
(***************************************************************************)
(* How a gate comes up: one call of startGate (src/gate.js), or of         *)
(* Verifier.start (src/index.js) and then createGate on the verifier it    *)
(* gave, with whatever options an adopter passes.  Four places validate    *)
(* them -- startGate, Verifier.start, its constructor, createGate -- two   *)
(* of them only once a child process is running.                           *)
(*                                                                         *)
(* The load itself is Service.tla: here it succeeds over a running child,  *)
(* or fails and leaves none -- unless the signal that was to stop it was   *)
(* refused (NoChildBehindFailedStart there).                               *)
(***************************************************************************)
EXTENDS Naturals

CONSTANT FlawSets   \* which combinations of bad options are considered

\* Options that are bad in themselves: a threshold that is no positive integer, no
\* circuitDir or caCerts, a bad toleranceMs or challengeTtlMs, a bad maxBodyBytes,
\* maxBodyReadMs or rateLimit.
Flaw == {"threshold", "paths", "policy", "bounds"}

VARIABLE boot   \* the call

\* "absent" is undefined or null.  "truthy" and "falsy" are values that are no Booleans,
\* such as the string 'false' and the empty string of an unset variable.
Options ==
    [by: {"startGate", "createGate"},
     requireSingleUse: {"absent", "true", "false", "truthy", "falsy"},
     allowReplay: BOOLEAN,                  \* to createGate; startGate computes its own
     challengeSecret: {"absent", "short", "good"},
     nonceStore: {"absent", "broken", "given"},
     memory: BOOLEAN,                       \* store: 'memory', of startGate only
     binary: {"absent", "blank", "given"},
     flaws: FlawSets]

\* What is left when the call has come back and nobody looks at them again.
Dropped == [by |-> "nobody"]

\* pc: "resolving" in await resolveProvisionedBinary; "loading" in await service.start;
\* "verifier" its caller has a Verifier and calls createGate next; "up"; "refused".
BootType ==
    [pc: {"off", "resolving", "loading", "verifier", "up", "refused"},
     opts: Options \cup {Dropped},
     child: {"none", "running", "gone"},
     singleUse: BOOLEAN,        \* the Verifier requires single use
     allowReplay: BOOLEAN,      \* the gate allows replay
     why: {"", "secret", "store", "replayOpen", "binary", "service"} \cup Flaw]

Init == boot = [pc |-> "off", opts |-> Dropped, child |-> "none", singleUse |-> FALSE,
                allowReplay |-> FALSE, why |-> ""]

---------------------------------------------------------------------------
Refused(b, why) == [b EXCEPT !.pc = "refused", !.why = why]

\* b, or b refused for the first of these flaws it has.
Checked(b, flaws) ==
    IF b.opts.flaws \cap flaws = {} THEN b
    ELSE Refused(b, CHOOSE f \in b.opts.flaws \cap flaws : TRUE)

truthy(v) == v \in {"true", "truthy"}

defaulted_Off(v) == IF v = "absent" THEN "false" ELSE v
\* startGate turns single use on unless told otherwise; the bare Verifier does not.
defaulted(v) == IF v = "absent" THEN "true" ELSE v

\* The store startGate passes on.
nonceStore(o) ==
    IF o.by = "startGate" /\ o.nonceStore = "absent" /\ o.memory THEN "given" ELSE o.nonceStore

\* What the Verifier is given for requireSingleUse.
required(o) ==
    IF o.by = "startGate" THEN defaulted(o.requireSingleUse)
    ELSE IF o.requireSingleUse = "absent" THEN "false" ELSE o.requireSingleUse

\* Of the two things single use needs, what the constructor finds wanting, or "".
lacking(o) ==
    IF o.challengeSecret = "absent" THEN "secret"
    ELSE IF nonceStore(o) # "given" THEN "store"
    ELSE IF o.challengeSecret = "short" THEN "secret" ELSE ""

shapely_Present(o) == o.challengeSecret # "absent"
\* startGate looks at the secret's shape, not merely at its presence.
shapely(o) == o.challengeSecret = "good"

\* startGate's own validation, before anything slow.
early(b) ==
    LET o == b.opts
    IN  IF o.by # "startGate" \/ ~ truthy(required(o)) THEN b
        ELSE IF ~ shapely(o) THEN Refused(b, "secret")
        ELSE IF nonceStore(o) # "given" THEN Refused(b, "store") ELSE b

\* new VerifierService and its start(), as far as the spawn: there is a process, or
\* there is none and the rejection comes later.
Spawns(b) ==
    LET c == Checked(b, {"paths"})
    IN  IF c.pc = "refused" THEN boot' = c
        ELSE \E child \in {"running", "none"} :
                boot' = [c EXCEPT !.pc = "loading", !.child = child]

\* startGate, or Verifier.start, called with o; up to the first await.
startGate(o) ==
    /\ boot.pc = "off"
    /\ LET called == early([boot EXCEPT !.opts = o])
           b == IF called.pc = "refused" THEN called ELSE Checked(called, {"threshold"})
       IN  CASE b.pc = "refused" -> boot' = b
             [] b.pc # "refused" /\ o.binary = "blank"  -> boot' = Refused(b, "binary")
             [] b.pc # "refused" /\ o.binary = "absent" -> boot' = [b EXCEPT !.pc = "resolving"]
             [] b.pc # "refused" /\ o.binary = "given"  -> Spawns(b)

\* resolveProvisionedBinary answers, or throws because nothing intact is there.
Resolved ==
    /\ boot.pc = "resolving"
    /\ boot' = Refused(boot, "binary") \/ Spawns(boot)

LoadFails ==
    /\ boot.pc = "loading"
    /\ \E child \in (IF boot.child = "none" THEN {"none"} ELSE {"gone", boot.child}) :
          boot' = [Refused(boot, "service") EXCEPT !.child = child]

\* The Verifier constructor.
constructed(b) ==
    LET o == b.opts
        use == truthy(required(o))
        c == Checked(b, {"policy"})
    IN  IF c.pc = "refused" THEN c
        ELSE IF use /\ lacking(o) # "" THEN Refused(b, lacking(o))
        ELSE [b EXCEPT !.pc = "verifier", !.singleUse = use]

\* requiresSingleUse is the value as it was given: only true itself is true.
declaresSingleUse(o) == required(o) = "true"

\* createGate over that Verifier, with allowReplay as given.
gated(b, allowReplay) ==
    IF ~ allowReplay /\ ~ declaresSingleUse(b.opts) THEN Refused(b, "replayOpen")
    ELSE LET c == Checked(b, {"bounds"})
         IN  IF c.pc = "refused" THEN c ELSE [c EXCEPT !.pc = "up", !.allowReplay = allowReplay]

\* service.start() resolved: the rest of Verifier.start runs at once, and with it the
\* rest of startGate.  What is refused now is refused over a running child.
Loaded ==
    /\ boot.pc = "loading" /\ boot.child = "running"
    /\ LET b == constructed(boot)
       IN  boot' = IF b.pc = "verifier" /\ b.opts.by = "startGate"
                   THEN gated(b, ~ truthy(required(b.opts))) ELSE b

createGate ==
    /\ boot.pc = "verifier"
    /\ boot' = gated(boot, boot.opts.allowReplay)

Next == (\E o \in Options : startGate(o)) \/ Resolved \/ LoadFails \/ Loaded \/ createGate

Spec == Init /\ [][Next]_boot

---------------------------------------------------------------------------
TypeOK == boot \in BootType

\* "a config error costs a second, not a minute" (gate.js:9-11, 381, 389-392): what
\* single use lacks is found by startGate's own checks, never by the constructor's
\* after the load, for every way of giving or not giving a secret and a store.
SingleUseErrorsAreCheap ==
    boot.opts.by = "startGate" /\ boot.why \in {"secret", "store"}
      => boot.child = "none"

\* Replay-safe by default (gate.js:7-12, 215-220, 376): leaving requireSingleUse out, or
\* any truthy value of it, gives a gate whose verifier spends nonces, with a sound secret
\* and a store -- so /challenge, which is open on exactly those gates, can always be
\* served.  A gate that accepts replays was given a requireSingleUse that is false or
\* falsy ('' or 0, see OptOutIsTyped), or allowReplay in createGate.
ReplaySafeByDefault ==
    LET o == boot.opts
    IN  boot.pc = "up" /\ o # Dropped =>
          IF boot.allowReplay
          THEN IF o.by = "startGate" THEN o.requireSingleUse \in {"false", "falsy"}
               ELSE o.allowReplay
          ELSE boot.singleUse /\ o.challengeSecret = "good" /\ nonceStore(o) = "given"

---------------------------------------------------------------------------
(* What the repository says and the code does not do.                      *)

\* "never leave a child running behind a failed start" (service.js:234): a call that
\* was refused, whoever refused it, has left no process its caller cannot stop.
NoChildBehindRefusal ==
    boot.pc = "refused" /\ (boot.opts.by = "startGate" \/ boot.why \notin {"replayOpen", "bounds"})
      => boot.child # "running"

\* "rather than throw on the very verifier startGate built" (gate.js:409-411).
AcceptsItsOwnVerifier == ~ (boot.opts.by = "startGate" /\ boot.why = "replayOpen")

\* "Running replay-open is a deliberate, typed opt-out (requireSingleUse:false)"
\* (gate.js:350-351).
OptOutIsTyped ==
    boot.pc = "up" /\ boot.allowReplay /\ boot.opts.by = "startGate"
      => boot.opts.requireSingleUse = "false"
=============================================================================
