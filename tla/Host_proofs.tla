----------------------------- MODULE Host_proofs -----------------------------
(***************************************************************************)
(* What a process that runs a gate guarantees, for any options, any number *)
(* of requests and clients, any body sizes and times: how it comes up, what*)
(* an answer may say, how long a body may hold a slot, how it goes down.   *)
(***************************************************************************)
EXTENDS Host, FiniteSetTheorems, TLAPS

\* The call of startGate or Verifier.start, step by step: what was checked so far.
BootInv ==
    LET o == boot.opts
    IN  /\ boot \in Boot!BootType
        /\ boot.pc = "off" => boot.child = "none"
        /\ boot.pc # "refused" => boot.why = ""
        /\ boot.pc \in {"resolving", "loading", "verifier"} => o \in Boot!Options
        /\ boot.pc \in {"resolving", "loading"} /\ o.by = "startGate"
             /\ Boot!truthy(Boot!required(o)) => Boot!shapely(o) /\ Boot!nonceStore(o) = "given"
        /\ boot.pc = "verifier" =>
             /\ o.by = "createGate"
             /\ boot.singleUse <=> Boot!truthy(Boot!required(o))
             /\ boot.singleUse => Boot!lacking(o) = ""
        /\ SingleUseErrorsAreCheap /\ ReplaySafeByDefault

Fields == {"pc", "client", "since", "posting", "len", "ended", "asked", "status", "over", "close"}

\* What holds of a request at each point of its way through handle().
Proper(a) ==
    /\ DOMAIN a = Fields /\ a.since \in Nat /\ a.len \in Nat
    /\ a.pc = "none" => a.len = 0 /\ ~ a.ended /\ a.status = 0 /\ a.over = "none"
    /\ a.pc = "reading" => clock <= a.since + MaxBodyRead /\ a.len <= MaxBody
    /\ a.pc = "checking" => a.ended /\ a.asked
    /\ a.pc = "done" =>
         /\ a.over \in {"yes", "no"} => a.asked /\ a.ended /\ a.status = 200
         /\ a.status = 200 /\ a.over # "none" => a.over \in {"yes", "no"}
         /\ a.posting /\ ~ a.ended /\ a.status # 500 => a.close

GateInv ==
    /\ clock \in Nat /\ opts \in OptsType
    /\ DOMAIN req = Request
    /\ \A r \in Request : Proper(req[r])

HostInv ==
    /\ host \in HostType
    /\ host \in {"serving", "draining", "stopping", "exited"} =>
         boot.pc = "up" /\ boot.opts = Boot!Dropped

IInv == BootInv /\ GateInv /\ HostInv

---------------------------------------------------------------------------
(* Coming up.                                                              *)

LEMMA Refusing ==
    ASSUME NEW b \in Boot!BootType, NEW why \in {"secret", "store", "replayOpen", "binary", "service"}
                                                  \cup Boot!Flaw
    PROVE  /\ Boot!Refused(b, why) \in Boot!BootType
           /\ Boot!Refused(b, why).pc = "refused" /\ Boot!Refused(b, why).why = why
           /\ Boot!Refused(b, why).opts = b.opts /\ Boot!Refused(b, why).child = b.child
  BY DEF Boot!Refused, Boot!BootType

\* A call refused for a flaw is not refused for want of a secret or a store.
LEMMA Checking ==
    ASSUME NEW b \in Boot!BootType, b.opts \in Boot!Options, NEW flaws \in SUBSET Boot!Flaw
    PROVE  LET c == Boot!Checked(b, flaws)
           IN  /\ c \in Boot!BootType /\ c.opts = b.opts /\ c.child = b.child
               /\ c = b \/ (c.pc = "refused" /\ c.why \in Boot!Flaw)
  <1> DEFINE f == CHOOSE f \in b.opts.flaws \cap flaws : TRUE
  <1>1. CASE b.opts.flaws \cap flaws = {}
    BY <1>1 DEF Boot!Checked
  <1>2. CASE b.opts.flaws \cap flaws # {}
    <2>1. f \in Boot!Flaw
      BY <1>2
    <2>2. Boot!Checked(b, flaws) = Boot!Refused(b, f)
      BY <1>2 DEF Boot!Checked
    <2>3. PICK why \in Boot!Flaw : Boot!Checked(b, flaws) = Boot!Refused(b, why)
      BY <2>1, <2>2
    <2> HIDE DEF f
    <2>4. why \in {"secret", "store", "replayOpen", "binary", "service"} \cup Boot!Flaw
      OBVIOUS
    <2>5. /\ Boot!Refused(b, why) \in Boot!BootType
          /\ Boot!Refused(b, why).pc = "refused" /\ Boot!Refused(b, why).why = why
          /\ Boot!Refused(b, why).opts = b.opts /\ Boot!Refused(b, why).child = b.child
      BY <2>4, Refusing
    <2> QED BY <2>3, <2>5
  <1> QED BY <1>1, <1>2

LEMMA NotDropped ==
    ASSUME NEW o \in Boot!Options
    PROVE  /\ o.by \in {"startGate", "createGate"} /\ o # Boot!Dropped
           /\ o.requireSingleUse \in {"absent", "true", "false", "truthy", "falsy"}
           /\ o.challengeSecret \in {"absent", "short", "good"}
           /\ o.allowReplay \in BOOLEAN
  <1>1. o.by \in {"startGate", "createGate"}
        /\ o.requireSingleUse \in {"absent", "true", "false", "truthy", "falsy"}
        /\ o.challengeSecret \in {"absent", "short", "good"} /\ o.allowReplay \in BOOLEAN
    BY DEF Boot!Options
  <1>2. Boot!Dropped.by = "nobody"
    BY DEF Boot!Dropped
  <1> QED BY <1>1, <1>2

\* What startGate's own checks leave to the constructor.
Passed(o) ==
    o.by = "startGate" /\ Boot!truthy(Boot!required(o))
      => Boot!shapely(o) /\ Boot!nonceStore(o) = "given"

LEMMA EarlyChecks ==
    ASSUME NEW b \in Boot!BootType, b.opts \in Boot!Options
    PROVE  LET c == Boot!early(b)
           IN  /\ c \in Boot!BootType /\ c.opts = b.opts /\ c.child = b.child
               /\ \/ c = b /\ Passed(b.opts)
                  \/ c.pc = "refused" /\ c.why \in {"secret", "store"}
  BY Refusing DEF Boot!early, Passed

\* A refused call: cheap if it is about single use.
RefusedWell(b) ==
    /\ b \in Boot!BootType /\ b.pc = "refused"
    /\ b.opts.by = "startGate" /\ b.why \in {"secret", "store"} => b.child = "none"

LEMMA RefusedIsSound ==
    ASSUME RefusedWell(boot)'
    PROVE  BootInv'
  BY DEF RefusedWell, BootInv, SingleUseErrorsAreCheap, Boot!SingleUseErrorsAreCheap,
         ReplaySafeByDefault, Boot!ReplaySafeByDefault

LEMMA Spawning ==
    ASSUME NEW b \in Boot!BootType, b.opts \in Boot!Options, b.why = "",
           Passed(b.opts), Boot!Spawns(b)
    PROVE  BootInv'
  <1> DEFINE c == Boot!Checked(b, {"paths"})
  <1>1. /\ c \in Boot!BootType /\ c.opts = b.opts /\ c.child = b.child
        /\ c = b \/ (c.pc = "refused" /\ c.why \in Boot!Flaw)
    BY Checking DEF Boot!Flaw
  <1>2. CASE c.pc = "refused" /\ boot' = c
    <2>1. CASE c.why \in Boot!Flaw
      BY <1>1, <1>2, <2>1, RefusedIsSound DEF RefusedWell, Boot!Flaw
    <2>2. CASE c = b
      BY <1>1, <1>2, <2>2, RefusedIsSound DEF RefusedWell
    <2> QED BY <1>1, <2>1, <2>2
  <1>3. CASE c.pc # "refused"
    <2>1. PICK child \in {"running", "none"} :
             boot' = [b EXCEPT !.pc = "loading", !.child = child]
      BY <1>1, <1>3 DEF Boot!Spawns
    <2>2. /\ boot' \in Boot!BootType /\ boot'.pc = "loading" /\ boot'.opts = b.opts
          /\ boot'.why = ""
      BY <2>1 DEF Boot!BootType
    <2> QED BY <2>2 DEF BootInv, Passed, SingleUseErrorsAreCheap, Boot!SingleUseErrorsAreCheap,
                        ReplaySafeByDefault, Boot!ReplaySafeByDefault
  <1> QED BY <1>2, <1>3 DEF Boot!Spawns

\* The gate over a verifier: what it takes it for, and what it refuses.
LEMMA Gating ==
    ASSUME NEW b \in Boot!BootType, b.opts \in Boot!Options, b.pc = "verifier", b.why = "",
           b.singleUse <=> Boot!truthy(Boot!required(b.opts)),
           b.singleUse => Boot!lacking(b.opts) = "",
           NEW allow \in BOOLEAN,
           b.opts.by = "startGate" => (allow <=> ~ Boot!truthy(Boot!required(b.opts))),
           b.opts.by = "createGate" => (allow <=> b.opts.allowReplay),
           boot' = Boot!gated(b, allow)
    PROVE  BootInv'
  <1> DEFINE c == Boot!Checked(b, {"bounds"})
  <1>1. /\ c \in Boot!BootType /\ c.opts = b.opts /\ c.child = b.child
        /\ c = b \/ (c.pc = "refused" /\ c.why \in Boot!Flaw)
    BY Checking DEF Boot!Flaw
  <1>2. CASE ~ allow /\ ~ Boot!declaresSingleUse(b.opts)
    <2>1. boot' = Boot!Refused(b, "replayOpen")
      BY <1>2 DEF Boot!gated
    <2>2. /\ Boot!Refused(b, "replayOpen") \in Boot!BootType
          /\ Boot!Refused(b, "replayOpen").pc = "refused"
          /\ Boot!Refused(b, "replayOpen").why = "replayOpen"
      BY Refusing
    <2>3. /\ boot' \in Boot!BootType /\ boot'.pc = "refused" /\ boot'.why = "replayOpen"
      BY <2>1, <2>2
    <2> QED BY <2>3, RefusedIsSound DEF RefusedWell
  <1>3. CASE ~ (~ allow /\ ~ Boot!declaresSingleUse(b.opts)) /\ c.pc = "refused"
    <2>1. boot' = c
      BY <1>3 DEF Boot!gated
    <2>2. c.why \notin {"secret", "store"}
      BY <1>1, <1>3 DEF Boot!Flaw
    <2> QED BY <1>1, <1>3, <2>1, <2>2, RefusedIsSound DEF RefusedWell
  <1>4. CASE ~ (~ allow /\ ~ Boot!declaresSingleUse(b.opts)) /\ c.pc # "refused"
    <2>1. boot' = [c EXCEPT !.pc = "up", !.allowReplay = allow] /\ c = b
      BY <1>1, <1>4 DEF Boot!gated
    <2>2. /\ boot' \in Boot!BootType /\ boot'.pc = "up" /\ boot'.opts = b.opts
          /\ boot'.why = "" /\ boot'.singleUse = b.singleUse /\ boot'.allowReplay = allow
      <3>1. boot' = [b EXCEPT !.pc = "up", !.allowReplay = allow]
        BY <2>1
      <3>2. boot' \in Boot!BootType
        BY <3>1 DEF Boot!BootType
      <3>3. /\ boot'.pc = "up" /\ boot'.opts = b.opts
            /\ boot'.why = b.why /\ boot'.singleUse = b.singleUse /\ boot'.allowReplay = allow
        BY <3>1 DEF Boot!BootType
      <3> QED BY <3>2, <3>3
    <2>3. /\ b.opts.by \in {"startGate", "createGate"}
          /\ b.opts.requireSingleUse \in {"absent", "true", "false", "truthy", "falsy"}
          /\ b.opts.challengeSecret \in {"absent", "short", "good"}
      BY NotDropped
    <2>4. CASE allow
      <3>1. b.opts.by = "startGate" => b.opts.requireSingleUse \in {"false", "falsy"}
        BY <2>3, <2>4 DEF Boot!truthy, Boot!required, Boot!defaulted
      <3>2. b.opts.by = "createGate" => b.opts.allowReplay
        BY <2>4
      <3> QED BY <2>2, <2>3, <2>4, <3>1, <3>2
              DEF BootInv, SingleUseErrorsAreCheap, Boot!SingleUseErrorsAreCheap,
                  ReplaySafeByDefault, Boot!ReplaySafeByDefault
    <2>5. CASE ~ allow
      <3>1. Boot!truthy(Boot!required(b.opts))
        BY <1>4, <2>5 DEF Boot!declaresSingleUse, Boot!truthy
      <3>2. b.singleUse /\ Boot!lacking(b.opts) = ""
        BY <3>1
      <3>3. b.opts.challengeSecret = "good" /\ Boot!nonceStore(b.opts) = "given"
        BY <2>3, <3>2 DEF Boot!lacking
      <3> QED BY <2>2, <2>3, <2>5, <3>2, <3>3
              DEF BootInv, SingleUseErrorsAreCheap, Boot!SingleUseErrorsAreCheap,
                  ReplaySafeByDefault, Boot!ReplaySafeByDefault
    <2> QED BY <2>4, <2>5
  <1> QED BY <1>2, <1>3, <1>4

\* The constructor over a running child: startGate has left it nothing to find wanting.
LEMMA Constructing ==
    ASSUME BootInv, boot.pc = "loading", NEW b, b = Boot!constructed(boot)
    PROVE  \/ RefusedWell(b)
           \/ /\ b \in Boot!BootType /\ b.opts = boot.opts /\ b.pc = "verifier" /\ b.why = ""
              /\ b.singleUse <=> Boot!truthy(Boot!required(b.opts))
              /\ b.singleUse => Boot!lacking(b.opts) = ""
  <1> DEFINE o == boot.opts
             use == Boot!truthy(Boot!required(o))
             c == Boot!Checked(boot, {"policy"})
  <1>1. boot \in Boot!BootType /\ o \in Boot!Options /\ boot.why = "" /\ Passed(o)
    BY DEF BootInv, Passed
  <1>2. /\ c \in Boot!BootType /\ c.opts = o /\ c.child = boot.child
        /\ c = boot \/ (c.pc = "refused" /\ c.why \in Boot!Flaw)
    BY <1>1, Checking DEF Boot!Flaw
  <1>3. CASE c.pc = "refused"
    <2>1. b = c /\ c.why \notin {"secret", "store"}
      BY <1>2, <1>3 DEF Boot!constructed, Boot!Flaw
    <2> QED BY <1>2, <1>3, <2>1 DEF RefusedWell
  <1>4. CASE c.pc # "refused" /\ use /\ Boot!lacking(o) # ""
    <2>1. b = Boot!Refused(boot, Boot!lacking(o)) /\ Boot!lacking(o) \in {"secret", "store"}
      BY <1>2, <1>4 DEF Boot!constructed, Boot!lacking
    <2>2. o.by # "startGate"
      BY <1>1, <1>4 DEF Passed, Boot!shapely, Boot!lacking
    <2>3. PICK why \in {"secret", "store"} : b = Boot!Refused(boot, why)
      BY <2>1
    <2>4. Boot!Refused(boot, why) \in Boot!BootType
          /\ Boot!Refused(boot, why).pc = "refused" /\ Boot!Refused(boot, why).opts = boot.opts
      <3>1. why \in {"secret", "store", "replayOpen", "binary", "service"} \cup Boot!Flaw
        OBVIOUS
      <3> HIDE DEF o, use, c
      <3> QED BY <1>1, <3>1, Refusing
    <2> QED BY <2>2, <2>3, <2>4 DEF RefusedWell
  <1>5. CASE c.pc # "refused" /\ ~ (use /\ Boot!lacking(o) # "")
    <2>1. b = [boot EXCEPT !.pc = "verifier", !.singleUse = use]
      BY <1>2, <1>5 DEF Boot!constructed
    <2>2. use \in BOOLEAN
      BY DEF Boot!truthy
    <2>3. /\ b \in Boot!BootType /\ b.opts = boot.opts /\ b.pc = "verifier" /\ b.why = ""
          /\ b.singleUse = use
      BY <1>1, <2>1, <2>2 DEF Boot!BootType
    <2> QED BY <1>5, <2>3
  <1> QED BY <1>3, <1>4, <1>5

LEMMA BootStep ==
    ASSUME BootInv, Boot!Next
    PROVE  BootInv'
  <1>1. boot \in Boot!BootType
    BY DEF BootInv
  <1>2. ASSUME NEW o \in Boot!Options, Boot!startGate(o) PROVE BootInv'
    <2> DEFINE a == [boot EXCEPT !.opts = o]
               called == Boot!early(a)
               b == IF called.pc = "refused" THEN called ELSE Boot!Checked(called, {"threshold"})
    <2>1. /\ a \in Boot!BootType /\ a.opts = o /\ a.child = "none" /\ a.pc = "off" /\ a.why = ""
      BY <1>1, <1>2 DEF Boot!startGate, BootInv, Boot!BootType
    <2> HIDE DEF a
    <2>2. /\ called \in Boot!BootType /\ called.opts = o /\ called.child = "none"
          /\ \/ called = a /\ Passed(o)
             \/ called.pc = "refused" /\ called.why \in {"secret", "store"}
      BY <2>1, EarlyChecks
    <2> HIDE DEF called
    <2>3. CASE called.pc = "refused"
      <3>1. boot' = called
        BY <1>2, <2>3, Zenon DEF Boot!startGate, called, a
      <3> QED BY <2>2, <2>3, <3>1, RefusedIsSound DEF RefusedWell
    <2>4. CASE called.pc # "refused"
      <3>1. called = a /\ Passed(o)
        BY <2>2, <2>4
      <3>2. /\ b \in Boot!BootType /\ b.opts = o /\ b.child = "none"
            /\ b = a \/ (b.pc = "refused" /\ b.why \in Boot!Flaw)
        BY <2>1, <2>4, <3>1, Checking DEF Boot!Flaw
      <3> HIDE DEF b
      <3>3. CASE b.pc = "refused"
        <4>1. boot' = b
          BY <1>2, <3>3, Zenon DEF Boot!startGate, b, called, a
        <4> QED BY <3>2, <3>3, <4>1, RefusedIsSound DEF RefusedWell
      <3>4. CASE b.pc # "refused"
        <4>1. b = a
          BY <3>2, <3>4
        <4>2. CASE o.binary = "blank"
          <5>1. boot' = Boot!Refused(b, "binary")
            BY <1>2, <3>4, <4>2, Zenon DEF Boot!startGate, b, called, a
          <5> QED BY <3>2, <5>1, Refusing, RefusedIsSound DEF RefusedWell
        <4>3. CASE o.binary = "absent"
          <5>1. boot' = [b EXCEPT !.pc = "resolving"]
            BY <1>2, <3>4, <4>3 DEF Boot!startGate, b, called, a
          <5>2. /\ boot' \in Boot!BootType /\ boot'.pc = "resolving" /\ boot'.opts = o
                /\ boot'.why = ""
            BY <2>1, <3>2, <4>1, <5>1 DEF Boot!BootType
          <5> QED BY <3>1, <5>2 DEF BootInv, Passed, SingleUseErrorsAreCheap,
                     Boot!SingleUseErrorsAreCheap, ReplaySafeByDefault, Boot!ReplaySafeByDefault
        <4>4. CASE o.binary = "given"
          <5>1. Boot!Spawns(b)
            BY <1>2, <3>4, <4>4 DEF Boot!startGate, b, called, a
          <5> QED BY <2>1, <3>1, <3>2, <4>1, <5>1, Spawning
        <4>5. o.binary \in {"absent", "blank", "given"}
          BY DEF Boot!Options
        <4> QED BY <4>2, <4>3, <4>4, <4>5
      <3> QED BY <3>3, <3>4
    <2> QED BY <2>3, <2>4
  <1>3. CASE Boot!Resolved
    <2>1. boot.pc = "resolving" /\ boot.opts \in Boot!Options /\ boot.why = "" /\ Passed(boot.opts)
      BY <1>3 DEF Boot!Resolved, BootInv, Passed
    <2>2. CASE boot' = Boot!Refused(boot, "binary")
      BY <1>1, <2>2, Refusing, RefusedIsSound DEF RefusedWell
    <2>3. CASE Boot!Spawns(boot)
      BY <1>1, <2>1, <2>3, Spawning
    <2> QED BY <1>3, <2>2, <2>3 DEF Boot!Resolved
  <1>4. CASE Boot!LoadFails
    <2>1. /\ Boot!Refused(boot, "service") \in Boot!BootType
          /\ Boot!Refused(boot, "service").pc = "refused"
          /\ Boot!Refused(boot, "service").why = "service"
      BY <1>1, Refusing
    <2>2. boot' \in Boot!BootType /\ boot'.pc = "refused" /\ boot'.why = "service"
      <3>1. boot.child \in {"none", "running", "gone"}
        BY <1>1 DEF BootInv, Boot!BootType
      <3>2. PICK child \in {"none", "running", "gone"} :
               boot' = [Boot!Refused(boot, "service") EXCEPT !.child = child]
        BY <1>4, <3>1 DEF Boot!LoadFails
      <3> QED BY <2>1, <3>2 DEF Boot!BootType
    <2> QED BY <2>2, RefusedIsSound DEF RefusedWell
  <1>5. CASE Boot!Loaded
    <2>1. PICK b : b = Boot!constructed(boot)
      OBVIOUS
    <2>2. boot.pc = "loading" /\ boot.opts \in Boot!Options
          /\ boot' = IF b.pc = "verifier" /\ b.opts.by = "startGate"
                     THEN Boot!gated(b, ~ Boot!truthy(Boot!required(b.opts))) ELSE b
      BY <1>5, <2>1 DEF Boot!Loaded, BootInv
    <2>3. CASE RefusedWell(b)
      BY <2>2, <2>3, RefusedIsSound DEF RefusedWell
    <2>4. CASE ~ RefusedWell(b)
      <3>1. /\ b \in Boot!BootType /\ b.opts = boot.opts /\ b.pc = "verifier" /\ b.why = ""
            /\ b.singleUse <=> Boot!truthy(Boot!required(b.opts))
            /\ b.singleUse => Boot!lacking(b.opts) = ""
        BY <2>1, <2>2, <2>4, Constructing
      <3>2. CASE b.opts.by = "startGate"
        <4>1. PICK allow \in BOOLEAN : allow = ~ Boot!truthy(Boot!required(b.opts))
          OBVIOUS
        <4>2. boot' = Boot!gated(b, allow)
          BY <2>2, <3>1, <3>2, <4>1
        <4> QED BY <2>2, <3>1, <3>2, <4>1, <4>2, Gating
      <3>3. CASE b.opts.by # "startGate"
        <4>1. boot' = b /\ b.opts.by = "createGate"
          BY <2>2, <3>1, <3>3, NotDropped
        <4> QED BY <2>2, <3>1, <4>1 DEF BootInv, SingleUseErrorsAreCheap,
                   Boot!SingleUseErrorsAreCheap, ReplaySafeByDefault, Boot!ReplaySafeByDefault
      <3> QED BY <3>2, <3>3
    <2> QED BY <2>3, <2>4
  <1>6. CASE Boot!createGate
    <2>1. /\ boot.pc = "verifier" /\ boot.opts \in Boot!Options /\ boot.why = ""
          /\ boot.opts.by = "createGate"
          /\ boot.singleUse <=> Boot!truthy(Boot!required(boot.opts))
          /\ boot.singleUse => Boot!lacking(boot.opts) = ""
          /\ boot' = Boot!gated(boot, boot.opts.allowReplay)
      BY <1>6 DEF Boot!createGate, BootInv
    <2>2. boot.opts.allowReplay \in BOOLEAN
      BY <2>1, NotDropped
    <2> QED BY <1>1, <2>1, <2>2, Gating
  <1> QED BY <1>2, <1>3, <1>4, <1>5, <1>6 DEF Boot!Next

---------------------------------------------------------------------------
(* The gate.                                                               *)

\* The three answers of the gate's own, each without a bit and never a 200: a refusal that
\* closes the connection, one that keeps it, and one that closes it if a body is coming.
closing(a, code) == err(a, code, TRUE)
keeping(a, code) == err(a, code, FALSE)
closingUnread(a, code) == err(a, code, inFlight(a))

LEMMA Denying ==
    ASSUME NEW b, DOMAIN b = Fields, b.pc = "done", b.len \in Nat, b.since \in Nat,
           b.status # 200, b.over = "null", b.posting /\ ~ b.ended /\ b.status # 500 => b.close
    PROVE  Proper(b)
  BY DEF Proper

LEMMA Closing ==
    ASSUME NEW a, Proper(a), NEW code, code # 200
    PROVE  Proper(closing(a, code))
  <1>1. PICK b : b = closing(a, code)
    OBVIOUS
  <1>2. /\ DOMAIN b = Fields /\ b.pc = "done" /\ b.len = 0 /\ b.status = code
        /\ b.over = "null" /\ b.since = a.since /\ b.close
    BY <1>1 DEF Proper, closing, err, Fields
  <1>3. b.len \in Nat /\ b.since \in Nat
    BY <1>2 DEF Proper
  <1> QED BY <1>1, <1>2, <1>3, Denying

LEMMA ClosingUnread ==
    ASSUME NEW a, Proper(a), NEW code, code # 200
    PROVE  Proper(closingUnread(a, code))
  <1>1. PICK b : b = closingUnread(a, code)
    OBVIOUS
  <1>2. /\ DOMAIN b = Fields /\ b.pc = "done" /\ b.len = 0 /\ b.status = code
        /\ b.over = "null" /\ b.since = a.since
    BY <1>1 DEF Proper, closingUnread, err, Fields
  <1>3. b.posting <=> b.close
    BY <1>1 DEF Proper, closingUnread, err, Fields, inFlight
  <1>4. b.len \in Nat /\ b.since \in Nat
    BY <1>2 DEF Proper
  <1> QED BY <1>1, <1>2, <1>3, <1>4, Denying

LEMMA KeepingAlive ==
    ASSUME NEW a, Proper(a), NEW code, code # 200, ~ a.posting \/ a.ended \/ code = 500
    PROVE  Proper(keeping(a, code))
  <1>1. PICK b : b = keeping(a, code)
    OBVIOUS
  <1>2. /\ DOMAIN b = Fields /\ b.pc = "done" /\ b.len = 0 /\ b.status = code
        /\ b.over = "null" /\ b.since = a.since
    BY <1>1 DEF Proper, keeping, err, Fields
  <1>3. (b.ended <=> a.ended) /\ (b.posting <=> a.posting)
    BY <1>1 DEF Proper, keeping, err, Fields
  <1>4. b.len \in Nat /\ b.since \in Nat
    BY <1>2 DEF Proper
  <1> QED BY <1>1, <1>2, <1>3, <1>4, Denying

LEMMA Challenging ==
    ASSUME NEW a, Proper(a), a.pc = "none", ~ a.posting,
           NEW b, b = [a EXCEPT !.pc = "done", !.status = 200]
    PROVE  Proper(b)
  <1>1. /\ DOMAIN b = Fields /\ b.pc = "done" /\ b.len = a.len /\ b.since = a.since
        /\ b.over = "none" /\ ~ b.posting
    BY DEF Proper, Fields
  <1> QED BY <1>1 DEF Proper

LEMMA Listening ==
    ASSUME NEW a, Proper(a), a.pc = "none", clock \in Nat,
           NEW b, b = [a EXCEPT !.pc = "reading", !.since = clock]
    PROVE  Proper(b)
  <1>1. DOMAIN b = Fields /\ b.pc = "reading" /\ b.len = 0 /\ b.since = clock
    BY DEF Proper, Fields
  <1>2. clock <= clock + MaxBodyRead /\ 0 <= MaxBody /\ 0 \in Nat
    BY GateAssumption
  <1> QED BY <1>1, <1>2 DEF Proper

LEMMA Routing ==
    ASSUME clock \in Nat, NEW a, Proper(a), a.pc = "none",
           NEW route \in {"challenge", "verify"}, NEW method \in Method,
           a.posting <=> method = "POST"
    PROVE  Proper(routed(a, route, method))
  <1>1. \/ routed(a, route, method) = closingUnread(a, 405)
        \/ routed(a, route, method) = keeping(a, 404) /\ ~ a.posting
        \/ routed(a, route, method) = [a EXCEPT !.pc = "done", !.status = 200] /\ ~ a.posting
        \/ routed(a, route, method) = [a EXCEPT !.pc = "reading", !.since = clock]
    <2>1. \/ route = "challenge" /\ method # "GET"
          \/ route = "challenge" /\ method = "GET" /\ opts.allowReplay /\ ~ a.posting
          \/ route = "challenge" /\ method = "GET" /\ ~ opts.allowReplay /\ ~ a.posting
          \/ route = "verify" /\ method # "POST"
          \/ route = "verify" /\ method = "POST"
      OBVIOUS
    <2> QED BY <2>1, ZenonT(60) DEF routed, keeping, closingUnread
  <1>2. PICK b : b = routed(a, route, method)
    OBVIOUS
  <1>4. CASE b = closingUnread(a, 405)
    BY <1>2, <1>4, ClosingUnread
  <1>5. CASE b = keeping(a, 404) /\ ~ a.posting
    BY <1>2, <1>5, KeepingAlive
  <1>6. CASE b = [a EXCEPT !.pc = "done", !.status = 200] /\ ~ a.posting
    BY <1>2, <1>6, Challenging, Zenon
  <1>7. CASE b = [a EXCEPT !.pc = "reading", !.since = clock]
    BY <1>2, <1>7, Listening, Zenon
  <1> QED BY <1>1, <1>2, <1>4, <1>5, <1>6, <1>7

LEMMA Buffering ==
    ASSUME NEW a, Proper(a), a.pc = "reading", NEW n \in Nat, NEW b, b = chunk(a, n)
    PROVE  Proper(b)
  <1>1. CASE a.len + n > MaxBody
    <2>1. b = closing(a, 413)
      BY <1>1, Zenon DEF chunk, closing
    <2> QED BY <2>1, Closing
  <1>2. CASE ~ (a.len + n > MaxBody)
    <2>1. b = [a EXCEPT !.len = @ + n]
      BY <1>2 DEF chunk
    <2>2. DOMAIN b = Fields /\ b.pc = a.pc /\ b.len = a.len + n /\ b.since = a.since
      BY <2>1 DEF Proper, Fields
    <2> QED BY <1>2, <2>2, GateAssumption DEF Proper
  <1> QED BY <1>1, <1>2

LEMMA Consuming ==
    ASSUME NEW a, Proper(a), a.pc = "reading",
           NEW e, e = [a EXCEPT !.ended = TRUE, !.len = 0]
    PROVE  Proper(e) /\ e.ended /\ e.pc = "reading"
  <1>1. DOMAIN e = Fields /\ e.pc = a.pc /\ e.len = 0 /\ e.since = a.since /\ e.ended
    BY DEF Proper, Fields
  <1>2. Proper(e)
    BY <1>1, GateAssumption DEF Proper
  <1> QED BY <1>1, <1>2

LEMMA Asking ==
    ASSUME NEW e, Proper(e), e.ended, NEW b, b = [e EXCEPT !.pc = "checking", !.asked = TRUE]
    PROVE  Proper(b)
  <1>1. /\ DOMAIN b = Fields /\ b.pc = "checking" /\ b.len = e.len /\ b.since = e.since
        /\ b.asked /\ b.ended
    BY DEF Proper, Fields
  <1> QED BY <1>1 DEF Proper

\* An answer of check(): ok if and only if it has the bit, and 200 if and only if ok.
LEMMA Answering ==
    ASSUME NEW a, Proper(a), a.pc = "checking", NEW v \in Answer,
           NEW b, b = [a EXCEPT !.pc = "done", !.status = status(v), !.over = v.over]
    PROVE  Proper(b)
  <1>1. v.over \in {"yes", "no", "null"} /\ (v.ok <=> v.over # "null")
    BY GateAssumption DEF VerdictType
  <1>2. status(v) = IF v.over # "null" THEN 200 ELSE 503
    BY <1>1 DEF status
  <1>3. /\ DOMAIN b = Fields /\ b.pc = "done" /\ b.status = status(v) /\ b.over = v.over
        /\ b.len = a.len /\ b.since = a.since
    BY DEF Proper, Fields
  <1>4. (b.ended <=> a.ended) /\ (b.asked <=> a.asked)
    BY DEF Proper, Fields
  <1> QED BY <1>1, <1>2, <1>3, <1>4 DEF Proper

\* One request moves on.
LEMMA Becoming ==
    ASSUME GateInv, NEW r \in Request, NEW b, Proper(b),
           req' = [req EXCEPT ![r] = b], UNCHANGED <<opts, clock>>
    PROVE  GateInv'
  <1>1. DOMAIN req' = Request
    BY DEF GateInv
  <1>2. ASSUME NEW q \in Request PROVE Proper(req'[q])
    BY DEF GateInv
  <1>3. ASSUME NEW q \in Request PROVE Proper(req[q])'
    BY <1>2, <1>3 DEF Proper
  <1> QED BY <1>1, <1>3 DEF GateInv

LEMMA ArrivalStep ==
    ASSUME GateInv, Arrivals
    PROVE  GateInv'
  <1>1. PICK r \in Request, client \in Client, forged \in Forged, route \in Route,
             method \in Method : Arrive(r, client, forged, route, method)
    BY DEF Arrivals
  <1>2. Proper(req[r]) /\ req[r].pc = "none" /\ clock \in Nat /\ UNCHANGED <<opts, clock>>
    BY <1>1 DEF GateInv, Arrive
  <1>3. PICK a : a = [req[r] EXCEPT !.client = client,
                          !.posting = method = "POST" /\ route \in {"challenge", "verify"}]
    OBVIOUS
  <1>4. \/ route = "badUrl" /\ req' = [req EXCEPT ![r] = keeping(a, 400)]
        \/ route = "other" /\ \E b \in onUnmatched(a) : req' = [req EXCEPT ![r] = b]
        \/ route \in {"challenge", "verify"} /\ req' = [req EXCEPT ![r] = routed(a, route, method)]
        \/ route \in {"challenge", "verify"} /\ req' = [req EXCEPT ![r] = closingUnread(a, 429)]
    BY <1>1, <1>3, Zenon DEF Arrive, keeping, closingUnread
  <1>5. /\ DOMAIN a = Fields /\ a.pc = "none" /\ a.since = req[r].since /\ a.len = req[r].len
        /\ (a.ended <=> req[r].ended) /\ a.status = req[r].status /\ a.over = req[r].over
    BY <1>2, <1>3 DEF Proper, Fields
  <1>6. a.posting <=> method = "POST" /\ route \in {"challenge", "verify"}
    BY <1>2, <1>3 DEF Proper, Fields
  <1>7. Proper(a)
    BY <1>2, <1>5 DEF Proper
  <1>8. CASE route = "badUrl" /\ req' = [req EXCEPT ![r] = keeping(a, 400)]
    <2>1. PICK b : b = keeping(a, 400)
      OBVIOUS
    <2>2. ~ a.posting
      BY <1>6, <1>8
    <2>3. Proper(b)
      BY <1>7, <2>1, <2>2, KeepingAlive
    <2> QED BY <1>2, <1>8, <2>1, <2>3, Becoming
  <1>9. CASE route = "other" /\ \E b \in onUnmatched(a) : req' = [req EXCEPT ![r] = b]
    <2>1. PICK b \in onUnmatched(a) : req' = [req EXCEPT ![r] = b]
      BY <1>9
    <2>2. CASE b = keeping(a, 404)
      <3>1. ~ a.posting
        BY <1>6, <1>9
      <3>2. Proper(b)
        BY <1>7, <2>2, <3>1, KeepingAlive
      <3> QED BY <1>2, <2>1, <3>2, Becoming
    <2>3. CASE b = [a EXCEPT !.pc = "done"]
      <3>1. /\ DOMAIN b = Fields /\ b.pc = "done" /\ b.since = a.since /\ b.len = a.len
            /\ b.over = a.over /\ (b.posting <=> a.posting)
        BY <1>5, <2>3 DEF Fields
      <3>2. Proper(b)
        BY <1>5, <1>6, <1>7, <1>9, <3>1 DEF Proper
      <3> QED BY <1>2, <2>1, <3>2, Becoming
    <2> QED BY <2>1, <2>2, <2>3 DEF onUnmatched, keeping
  <1>10. CASE /\ route \in {"challenge", "verify"}
              /\ req' = [req EXCEPT ![r] = routed(a, route, method)]
    <2>1. Proper(routed(a, route, method))
      BY <1>2, <1>5, <1>6, <1>7, <1>10, Routing
    <2> QED BY <1>2, <1>10, <2>1, Becoming
  <1>11. CASE /\ route \in {"challenge", "verify"}
              /\ req' = [req EXCEPT ![r] = closingUnread(a, 429)]
    <2>1. PICK b : b = closingUnread(a, 429)
      OBVIOUS
    <2>2. Proper(b)
      BY <1>7, <2>1, ClosingUnread
    <2> QED BY <1>2, <1>11, <2>1, <2>2, Becoming
  <1> QED BY <1>4, <1>8, <1>9, <1>10, <1>11

LEMMA ProgressStep ==
    ASSUME GateInv, NEW r \in Request, Progress(r)
    PROVE  GateInv'
  <1>1. PICK a : a = req[r]
    OBVIOUS
  <1>2. Proper(a)
    BY <1>1 DEF GateInv
  <1>3. ASSUME NEW b, Proper(b), Becomes(r, b) PROVE GateInv'
    BY <1>3, Becoming DEF Becomes
  <1>4. ASSUME NEW n \in 1..(MaxBody + 1), Chunk(r, n) PROVE GateInv'
    <2>1. a.pc = "reading" /\ Becomes(r, chunk(a, n)) /\ n \in Nat
      BY <1>1, <1>4, GateAssumption DEF Chunk
    <2>2. Proper(chunk(a, n))
      BY <1>2, <2>1, Buffering
    <2> QED BY <1>3, <2>1, <2>2
  <1>5. ASSUME NEW content \in Content, End(r, content) PROVE GateInv'
    <2>1. PICK e : e = [a EXCEPT !.ended = TRUE, !.len = 0]
      OBVIOUS
    <2>2. a.pc = "reading"
          /\ \E b : Becomes(r, b) /\ (\/ b = [e EXCEPT !.pc = "checking", !.asked = TRUE]
                                      \/ b = keeping(e, 400))
      BY <1>1, <1>5, <2>1 DEF End, keeping
    <2>3. Proper(e) /\ e.ended
      BY <1>2, <2>1, <2>2, Consuming
    <2>4. PICK b : Becomes(r, b) /\ (\/ b = [e EXCEPT !.pc = "checking", !.asked = TRUE]
                                     \/ b = keeping(e, 400))
      BY <2>2
    <2>5. ASSUME b = [e EXCEPT !.pc = "checking", !.asked = TRUE] PROVE Proper(b)
      BY <2>3, <2>5, Asking
    <2>6. ASSUME b = keeping(e, 400) PROVE Proper(b)
      BY <2>3, <2>6, KeepingAlive
    <2> QED BY <1>3, <2>4, <2>5, <2>6
  <1>6. CASE BodyFails(r)
    <2>1. PICK b : b = keeping(a, 500)
      OBVIOUS
    <2>2. Proper(b)
      BY <1>2, <2>1, KeepingAlive
    <2> QED BY <1>1, <1>3, <1>6, <2>1, <2>2 DEF BodyFails, keeping
  <1>7. CASE Deadline(r)
    <2>1. PICK b : b = closing(a, 408)
      OBVIOUS
    <2>2. Proper(b)
      BY <1>2, <2>1, Closing
    <2> QED BY <1>1, <1>3, <1>7, <2>1, <2>2 DEF Deadline, closing
  <1>8. ASSUME NEW v \in Answer \cup {Threw}, CheckReturns(r, v) PROVE GateInv'
    <2>1. a.pc = "checking" /\ a.ended
      BY <1>1, <1>2, <1>8 DEF CheckReturns, Proper
    <2>2. CASE v = Threw
      <3>1. PICK b : b = keeping(a, 500)
        OBVIOUS
      <3>2. Proper(b)
        BY <1>2, <3>1, KeepingAlive
      <3> QED BY <1>1, <1>3, <1>8, <2>2, <3>1, <3>2 DEF CheckReturns, keeping
    <2>3. CASE v # Threw
      <3>1. PICK b : b = [a EXCEPT !.pc = "done", !.status = status(v), !.over = v.over]
        OBVIOUS
      <3>2. Proper(b)
        BY <1>2, <1>8, <2>1, <2>3, <3>1, Answering
      <3>3. Becomes(r, b)
        BY <1>1, <1>8, <2>3, <3>1 DEF CheckReturns
      <3> QED BY <1>3, <3>2, <3>3
    <2> QED BY <2>2, <2>3
  <1> QED BY <1>4, <1>5, <1>6, <1>7, <1>8 DEF Progress, Settle

\* The clock does not pass a deadline that is due.
LEMMA TickStep ==
    ASSUME GateInv, Tick
    PROVE  GateInv'
  <1>1. clock \in Nat /\ clock' = clock + 1 /\ UNCHANGED <<opts, req>>
    BY DEF GateInv, Tick
  <1>2. ASSUME NEW r \in Request PROVE Proper(req[r])'
    <2>1. Proper(req[r]) /\ req[r].since \in Nat /\ req'[r] = req[r] /\ MaxBodyRead \in Nat
      BY <1>1, GateAssumption DEF GateInv, Proper
    <2>2. req[r].pc = "reading" => clock + 1 <= req[r].since + MaxBodyRead
      BY <1>1, <2>1 DEF Tick, due
    <2> QED BY <1>1, <2>1, <2>2 DEF Proper
  <1> QED BY <1>1, <1>2 DEF GateInv

---------------------------------------------------------------------------
(* The process.                                                            *)

LEMMA InitHolds ==
    ASSUME HostInit
    PROVE  IInv
  <1>1. BootInv
    <2>1. /\ boot.pc = "off" /\ boot.child = "none" /\ boot.why = "" /\ boot.opts = Boot!Dropped
          /\ boot \in Boot!BootType
      BY DEF HostInit, Boot!Init, Boot!BootType
    <2> QED BY <2>1 DEF BootInv, SingleUseErrorsAreCheap, Boot!SingleUseErrorsAreCheap,
                        ReplaySafeByDefault, Boot!ReplaySafeByDefault
  <1>2. GateInv
    <2>1. clock \in Nat
      BY DEF HostInit, Limiter!Init
    <2>2. opts \in OptsType
      BY DEF HostInit, OptsType
    <2>3. DOMAIN req = Request
      BY DEF HostInit, Untouched
    <2>4. ASSUME NEW r \in Request PROVE Proper(req[r])
      BY DEF HostInit, Untouched, Proper, Fields
    <2> QED BY <2>1, <2>2, <2>3, <2>4 DEF GateInv
  <1>3. HostInv
    BY DEF HostInit, HostInv, HostType
  <1> QED BY <1>1, <1>2, <1>3 DEF IInv

LEMMA BootStutters ==
    ASSUME BootInv, UNCHANGED boot
    PROVE  BootInv'
  BY DEF BootInv, SingleUseErrorsAreCheap, Boot!SingleUseErrorsAreCheap,
         ReplaySafeByDefault, Boot!ReplaySafeByDefault

LEMMA GateStutters ==
    ASSUME GateInv, UNCHANGED <<clock, req>>, opts' \in OptsType
    PROVE  GateInv'
  <1>1. ASSUME NEW r \in Request PROVE Proper(req[r])'
    BY DEF GateInv, Proper
  <1> QED BY <1>1 DEF GateInv

\* Every step of the process keeps the three parts of the invariant.
LEMMA StepHolds ==
    ASSUME IInv, [HostNext]_hostVars
    PROVE  IInv'
  <1>1. BootInv /\ GateInv /\ HostInv
    BY DEF IInv
  <1>2. opts \in OptsType
    BY <1>1 DEF GateInv
  <1>3. CASE Booting
    <2>1. BootInv'
      BY <1>1, <1>3, BootStep DEF Booting
    <2>2. GateInv'
      BY <1>1, <1>2, <1>3, GateStutters DEF Booting, vars
    <2>3. HostInv'
      BY <1>1, <1>3 DEF Booting, HostInv, HostType
    <2> QED BY <2>1, <2>2, <2>3 DEF IInv
  <1>4. CASE BootFails \/ Crashes
    <2>1. BootInv' /\ GateInv'
      BY <1>1, <1>2, <1>4, BootStutters, GateStutters DEF BootFails, Crashes, vars
    <2>2. HostInv'
      BY <1>1, <1>4 DEF BootFails, Crashes, HostInv, HostType
    <2> QED BY <2>1, <2>2 DEF IInv
  <1>5. CASE Listens
    <2>1. boot.pc = "up" /\ boot' = [boot EXCEPT !.opts = Boot!Dropped] /\ boot \in Boot!BootType
      BY <1>1, <1>5 DEF Listens, BootInv
    <2>2. /\ boot' \in Boot!BootType /\ boot'.pc = "up" /\ boot'.opts = Boot!Dropped
          /\ boot'.why = boot.why
      BY <2>1 DEF Boot!BootType
    <2>3. BootInv'
      <3>1. boot.why = "" /\ Boot!Dropped.by = "nobody"
        BY <1>1, <2>1 DEF BootInv, Boot!Dropped
      <3> QED BY <2>2, <3>1 DEF BootInv, SingleUseErrorsAreCheap, Boot!SingleUseErrorsAreCheap,
                                ReplaySafeByDefault, Boot!ReplaySafeByDefault
    <2>4. GateInv'
      BY <1>1, <1>5, GateStutters DEF Listens, Deployment
    <2>5. HostInv'
      BY <1>1, <1>5, <2>2 DEF Listens, HostInv, HostType
    <2> QED BY <2>3, <2>4, <2>5 DEF IInv
  <1>6. CASE TimePasses \/ Requested \/ \E r \in Request : Served(r)
    <2>1. host \in {"serving", "draining"} /\ UNCHANGED <<boot, host>>
      BY <1>6 DEF TimePasses, Requested, Served, Up
    <2>2. GateInv'
      BY <1>1, <1>6, TickStep, ArrivalStep, ProgressStep DEF TimePasses, Requested, Served
    <2>3. BootInv'
      BY <1>1, <2>1, BootStutters
    <2>4. HostInv'
      BY <1>1, <2>1 DEF HostInv, HostType
    <2> QED BY <2>2, <2>3, <2>4 DEF IInv
  <1>7. CASE Signal
    <2>1. BootInv' /\ GateInv'
      BY <1>1, <1>2, <1>7, BootStutters, GateStutters DEF Signal, vars
    <2>2. HostInv'
      BY <1>1, <1>7 DEF Signal, HostInv, HostType
    <2> QED BY <2>1, <2>2 DEF IInv
  <1>8. CASE Closed
    <2>1. BootInv' /\ GateInv'
      BY <1>1, <1>2, <1>8, BootStutters, GateStutters DEF Closed
    <2>2. HostInv'
      BY <1>1, <1>8 DEF Closed, HostInv, HostType
    <2> QED BY <2>1, <2>2 DEF IInv
  <1>9. CASE Exits
    <2>1. boot \in Boot!BootType /\ boot.pc = "up" /\ boot.opts = Boot!Dropped
      BY <1>1, <1>9 DEF Exits, BootInv, HostInv
    <2>6. PICK child \in {"none", "running", "gone"} : boot' = [boot EXCEPT !.child = child]
      BY <1>9, <2>1 DEF Exits, Boot!BootType
    <2>2. /\ boot' \in Boot!BootType /\ boot'.pc = "up" /\ boot'.opts = Boot!Dropped
          /\ boot'.why = boot.why
      BY <2>1, <2>6 DEF Boot!BootType
    <2>3. BootInv'
      <3>1. boot.why = "" /\ Boot!Dropped.by = "nobody"
        BY <1>1, <2>1 DEF BootInv, Boot!Dropped
      <3> QED BY <2>2, <3>1 DEF BootInv, SingleUseErrorsAreCheap, Boot!SingleUseErrorsAreCheap,
                                ReplaySafeByDefault, Boot!ReplaySafeByDefault
    <2>4. GateInv'
      BY <1>1, <1>2, <1>9, GateStutters DEF Exits, vars
    <2>5. HostInv'
      BY <1>1, <1>9, <2>2 DEF Exits, HostInv, HostType, vars
    <2> QED BY <2>3, <2>4, <2>5 DEF IInv
  <1>10. CASE UNCHANGED hostVars
    <2>1. BootInv' /\ GateInv'
      BY <1>1, <1>2, <1>10, BootStutters, GateStutters DEF hostVars, vars
    <2>2. HostInv'
      BY <1>1, <1>10 DEF HostInv, HostType, hostVars, vars
    <2> QED BY <2>1, <2>2 DEF IInv
  <1> QED BY <1>3, <1>4, <1>5, <1>6, <1>7, <1>8, <1>9, <1>10 DEF HostNext

LEMMA Invariance == HostSpec => []IInv
  <1>1. HostInit => IInv
    BY InitHolds
  <1>2. IInv /\ [HostNext]_hostVars => IInv'
    BY StepHolds
  <1> QED BY <1>1, <1>2, PTL DEF HostSpec

---------------------------------------------------------------------------
(* The verifier behind the limiter: each request it sees was let through   *)
(* once, at its arrival, and a client is always counted under one key.     *)

Limits == INSTANCE RateLimiter_proofs

LEMMA SameParts ==
    /\ \A h, k : (Limiter!Has(h, k) <=> Limits!Has(h, k)) /\ Limiter!At(h, k) = Limits!At(h, k)
    /\ \A e : (Limiter!running(e) <=> Limits!running(e)) /\ (Limiter!spent(e) <=> Limits!spent(e))
    /\ \A R : Limiter!inOrder(R) = Limits!inOrder(R)
  <1>1. \A h, k : (Limiter!Has(h, k) <=> Limits!Has(h, k)) /\ Limiter!At(h, k) = Limits!At(h, k)
    BY Zenon DEF Limiter!Has, Limits!Has, Limiter!At, Limits!At
  <1>2. \A e : (Limiter!running(e) <=> Limits!running(e)) /\ (Limiter!spent(e) <=> Limits!spent(e))
    BY Zenon DEF Limiter!running, Limits!running, Limiter!spent, Limits!spent
  <1>3. \A S : Limiter!Cardinality(S) = Limits!Cardinality(S)
    BY Zenon DEF Limiter!Cardinality, Limits!Cardinality
  <1>4. \A R : Limiter!inOrder(R) = Limits!inOrder(R)
    BY <1>3, Zenon DEF Limiter!inOrder, Limits!inOrder
  <1> QED BY <1>1, <1>2, <1>4

LEMMA SameTable ==
    /\ \A h : Limiter!makeRoom(h) = Limits!makeRoom(h)
    /\ \A h, e : Limiter!put(h, e) = Limits!put(h, e)
    /\ \A k : (Limiter!counting(k) <=> Limits!counting(k))
              /\ (Limiter!Forgotten(k) <=> Limits!Forgotten(k))
  <1>1. \A h : Limiter!swept(h) = Limits!swept(h)
    <2> SUFFICES ASSUME NEW h PROVE Limiter!swept(h) = Limits!swept(h)
      OBVIOUS
    <2>1. {i \in DOMAIN h : Limiter!running(h[i])} = {i \in DOMAIN h : Limits!running(h[i])}
      BY SameParts
    <2>2. Limiter!inOrder({i \in DOMAIN h : Limiter!running(h[i])})
            = Limits!inOrder({i \in DOMAIN h : Limits!running(h[i])})
      BY <2>1, SameParts, Zenon
    <2> QED BY <2>2, Zenon DEF Limiter!swept, Limits!swept
  <1>2. \A h : Limiter!makeRoom(h) = Limits!makeRoom(h)
    BY <1>1, Zenon DEF Limiter!makeRoom, Limits!makeRoom
  <1>3. \A h, e : Limiter!put(h, e) = Limits!put(h, e)
    BY SameParts, Zenon DEF Limiter!put, Limits!put
  <1>4. \A k : (Limiter!counting(k) <=> Limits!counting(k))
               /\ (Limiter!Forgotten(k) <=> Limits!Forgotten(k))
    BY SameParts DEF Limiter!counting, Limits!counting, Limiter!Forgotten, Limits!Forgotten
  <1> QED BY <1>2, <1>3, <1>4

\* The limiter of the gate is the one whose proofs these are.
LEMMA SameLimiter ==
    /\ Limits!LimiterAssumption
    /\ Limiter!Init => Limits!Init
    /\ \A k : Limiter!Grant(k) => Limits!Grant(k)
    /\ \A k : Limiter!Refuse(k) => Limits!Refuse(k)
    /\ Tick => Limits!Tick
  <1>1. Limits!LimiterAssumption
    BY GateLimiterAssumption DEF Limiter!LimiterAssumption, Limits!LimiterAssumption
  <1>2. Limiter!Init => Limits!Init
    BY DEF Limiter!Init, Limits!Init, Limiter!Never, Limits!Never
  <1>3. ASSUME NEW k, Limiter!Grant(k) PROVE Limits!Grant(k)
    BY <1>3, SameParts, SameTable DEF Limiter!Grant, Limits!Grant, Limiter!opened, Limits!opened,
       Limiter!Never, Limits!Never
  <1>4. ASSUME NEW k, Limiter!Refuse(k) PROVE Limits!Refuse(k)
    BY <1>4, SameParts, SameTable DEF Limiter!Refuse, Limits!Refuse
  <1>5. Tick => Limits!Tick
    BY DEF Tick, Limits!Tick
  <1> QED BY <1>1, <1>2, <1>3, <1>4, <1>5

\* Whom the limiter counts a client as, whatever it wrote into X-Forwarded-For.
keyOf(client) == IF opts.proxied /\ ~ opts.trustProxy THEN Proxy ELSE client

LEMMA KeyIs ==
    ASSUME opts \in Deployment, NEW client \in Client
    PROVE  /\ keyOf(client) \in Key
           /\ \A forged \in Forged : clientKey(client, forged) = keyOf(client)
  <1>1. keyOf(client) \in Key
    BY GateAssumption DEF keyOf
  <1>2. ASSUME NEW forged \in Forged PROVE clientKey(client, forged) = keyOf(client)
    <2>1. forged \in Seq(Key)
      <3>1. forged = <<>> \/ \E k \in Key : forged = <<k>>
        BY DEF Forged
      <3>2. <<>> \in Seq(Key) /\ \A k \in Key : <<k>> \in Seq(Key)
        OBVIOUS
      <3> QED BY <3>1, <3>2, Zenon
    <2>2. PICK hops : hops = Append(forged, client)
      OBVIOUS
    <2>3. hops # <<>> /\ hops[Len(hops)] = client
      BY <2>1, <2>2
    <2>4. opts.trustProxy => opts.proxied
      BY DEF Deployment
    <2> QED BY <2>2, <2>3, <2>4, Zenon DEF clientKey, xForwardedFor, remoteAddress, keyOf
  <1> QED BY <1>1, <1>2

\* A request that is at the verifier, was, or may yet be.
Charged(a) == a.asked \/ a.pc = "reading"

KeyAt(r) == keyOf(req[r].client)

\* at: the grant that let a request through.
Paid(at) ==
    /\ \A r \in Request : Charged(req[r]) =>
          /\ req[r].client \in Client
          /\ at[r] \in DOMAIN granted[KeyAt(r)] /\ granted[KeyAt(r)][at[r]] = req[r].since
    /\ \A r, q \in Request :
          Charged(req[r]) /\ Charged(req[q]) /\ KeyAt(r) = KeyAt(q) /\ at[r] = at[q] => r = q

LimiterInv ==
    /\ opts \in Deployment
    /\ \A r \in Request : req[r].pc = "none" => ~ req[r].asked
    /\ host = "booting" => \A r \in Request : req[r].pc = "none"
    /\ IF host \in {"booting", "serving", "draining"}
       THEN Limits!IInv /\ (opts.limited => \E at \in [Request -> Nat] : Paid(at))
       ELSE VerifierProtected

\* Requests that reached the verifier within a window hold as many grants of one key,
\* and those are at most twice the limit.
LEMMA Protected ==
    ASSUME GateInv, LimiterInv
    PROVE  VerifierProtected
  <1> SUFFICES ASSUME host \in {"booting", "serving", "draining"}, opts.limited,
                      NEW r \in Request, req[r].asked,
                      NEW with, with = {q \in Request :
                                          /\ req[q].asked /\ req[q].client = req[r].client
                                          /\ req[q].since >= req[r].since
                                          /\ req[q].since <= req[r].since + WindowMs}
               PROVE  Cardinality(with) <= 2 * Limit
    BY DEF LimiterInv, VerifierProtected
  <1>1. Limits!LimiterAssumption /\ Limits!IInv /\ opts \in Deployment
    BY SameLimiter DEF LimiterInv
  <1>2. PICK at \in [Request -> Nat] : Paid(at)
    BY DEF LimiterInv
  <1>3. Limit \in Nat /\ Limit > 0 /\ WindowMs \in Nat
    BY <1>1 DEF Limits!LimiterAssumption
  <1>4. PICK k \in Key : k = KeyAt(r)
    BY <1>1, <1>2, KeyIs DEF Paid, Charged, KeyAt
  <1>5. PICK g \in Seq(Int) :
          /\ g = granted[k] /\ DOMAIN g = 1..Len(g) /\ Len(g) \in Nat
          /\ \A i, j \in DOMAIN g : i <= j => g[i] <= g[j]
    BY <1>1, Limits!GrantsInTime
  <1>6. ASSUME NEW i \in DOMAIN g, i + 2 * Limit \in DOMAIN g
        PROVE  g[i + 2 * Limit] - g[i] > WindowMs
    <2>1. Limits!TwoWindowsAtMost
      BY <1>1, Limits!TwiceAtMost
    <2> QED BY <1>5, <1>6, <2>1 DEF Limits!TwoWindowsAtMost
  <1>7. PICK t \in Nat : t = req[r].since
    BY DEF GateInv, Proper
  <1>8. ASSUME NEW q \in with
        PROVE  /\ q \in Request /\ at[q] \in DOMAIN g /\ g[at[q]] = req[q].since
               /\ t <= g[at[q]] /\ g[at[q]] <= t + WindowMs
    BY <1>2, <1>4, <1>5, <1>7 DEF Paid, Charged, KeyAt
  <1>9. ASSUME NEW p \in with, NEW q \in with, at[p] = at[q] PROVE p = q
    BY <1>2, <1>9 DEF Paid, Charged, KeyAt
  <1>10. PICK J : J = {at[q] : q \in with}
    OBVIOUS
  <1>11. J \subseteq DOMAIN g /\ J \subseteq Nat /\ at[r] \in J
         /\ \A i \in J : t <= g[i] /\ g[i] <= t + WindowMs /\ g[i] \in Int
    <2>1. r \in with
      BY <1>3, <1>7
    <2> QED BY <1>5, <1>8, <1>10, <2>1
  <1>12. PICK low \in J : \A i \in J : low <= i
    BY <1>1, <1>11, Limits!LeastNumber
  <1>13. ASSUME NEW i \in J PROVE i \in low..(low + 2 * Limit - 1)
    <2>1. i \in Nat /\ low \in Nat /\ low <= i /\ low \in DOMAIN g /\ i \in DOMAIN g
      BY <1>11, <1>12
    <2>2. PICK next \in Nat : next = low + 2 * Limit
      BY <1>3, <2>1
    <2>3. ASSUME next <= i PROVE FALSE
      <3>1. next \in DOMAIN g
        <4>1. i <= Len(g) /\ low >= 1
          BY <1>5, <2>1
        <4>2. next >= 1
          BY <1>3, <2>1, <2>2, <4>1
        <4>3. next <= Len(g)
          BY <1>5, <2>1, <2>3, <4>1
        <4> QED BY <1>5, <4>2, <4>3
      <3>2. g[next] - g[low] > WindowMs /\ g[next] <= g[i]
        BY <1>5, <1>6, <2>1, <2>2, <2>3, <3>1
      <3>3. g[next] \in Int /\ g[low] \in Int /\ g[i] \in Int /\ t <= g[low] /\ g[i] <= t + WindowMs
        BY <1>5, <1>11, <2>1, <3>1
      <3> QED BY <1>3, <3>2, <3>3
    <2>4. i < next
      BY <2>1, <2>2, <2>3
    <2>5. next - 1 = low + 2 * Limit - 1 /\ low + 2 * Limit - 1 \in Int
      BY <1>3, <2>1, <2>2
    <2>6. i <= low + 2 * Limit - 1
      BY <2>1, <2>4, <2>5
    <2> QED BY <2>1, <2>5, <2>6
  <1>14. PICK high \in Int : high = low + 2 * Limit - 1
    BY <1>3, <1>11
  <1>15. [q \in with |-> at[q]] \in Injection(with, low..high)
    BY <1>9, <1>10, <1>13, <1>14 DEF Injection, IsInjective
  <1>16. IsFiniteSet(low..high) /\ Cardinality(low..high) = 2 * Limit
    <2>1. low \in Int
      BY <1>11
    <2>2. IsFiniteSet(low..high)
          /\ Cardinality(low..high) = IF low > high THEN 0 ELSE high - low + 1
      BY <2>1, FS_Interval
    <2> QED BY <1>3, <1>14, <2>1, <2>2
  <1> QED BY <1>15, <1>16, FS_Injection

\* A request moves on and no grant is asked for.
LEMMA MovesUnpaid ==
    ASSUME LimiterInv, GateInv, host \in {"serving", "draining"}, UNCHANGED <<host, opts, granted>>,
           Limits!IInv', NEW r \in Request, NEW b, req' = [req EXCEPT ![r] = b], b.pc # "none",
           opts.limited /\ Charged(b) => /\ Charged(req[r]) /\ b.since = req[r].since
                                         /\ b.client = req[r].client
    PROVE  LimiterInv'
  <1>1. \A q \in Request : req'[q] = IF q = r THEN b ELSE req[q]
    BY DEF GateInv
  <1>2. ASSUME NEW q \in Request, req'[q].pc = "none" PROVE ~ req'[q].asked
    BY <1>1, <1>2 DEF LimiterInv
  <1>3. ASSUME opts.limited PROVE \E at \in [Request -> Nat] : Paid(at)'
    <2>1. PICK at \in [Request -> Nat] : Paid(at)
      BY <1>3 DEF LimiterInv
    <2>2. ASSUME NEW q \in Request, Charged(req'[q])
          PROVE  Charged(req[q]) /\ req'[q].since = req[q].since /\ req'[q].client = req[q].client
      BY <1>1, <1>3, <2>2
    <2>3. \A q \in Request : Charged(req'[q]) => KeyAt(q)' = KeyAt(q)
      BY <2>2 DEF KeyAt, keyOf
    <2>4. ASSUME NEW q \in Request, Charged(req'[q])
          PROVE  /\ req'[q].client \in Client /\ at[q] \in DOMAIN granted'[KeyAt(q)']
                 /\ granted'[KeyAt(q)'][at[q]] = req'[q].since
      BY <2>1, <2>2, <2>3, <2>4 DEF Paid
    <2>5. ASSUME NEW p \in Request, NEW q \in Request, Charged(req'[p]), Charged(req'[q]),
                 KeyAt(p)' = KeyAt(q)', at[p] = at[q]
          PROVE  p = q
      BY <2>1, <2>2, <2>3, <2>5 DEF Paid
    <2>6. Paid(at)'
      BY <2>4, <2>5 DEF Paid, Charged
    <2> QED BY <2>6
  <1> QED BY <1>2, <1>3 DEF LimiterInv

\* A request is let through.
LEMMA MovesPaid ==
    ASSUME Limits!EveryoneFits, LimiterInv, GateInv, host \in {"serving", "draining"},
           UNCHANGED <<host, opts, clock>>, opts.limited, NEW r \in Request,
           NEW client \in Client, NEW k, k = keyOf(client), Limiter!Grant(k),
           NEW b, req' = [req EXCEPT ![r] = b], b.pc # "none",
           Charged(b) => b.client = client /\ b.since = clock
    PROVE  LimiterInv'
  <1>1. Limits!LimiterAssumption /\ Limits!IInv /\ opts \in Deployment /\ Limits!Grant(k)
    BY SameLimiter DEF LimiterInv
  <1>2. k \in Key /\ \A c \in Client : keyOf(c) \in Key
    BY <1>1, KeyIs
  <1>3. Limits!IInv'
    BY <1>1, <1>2, Limits!GrantStep
  <1>4. \A q \in Request : req'[q] = IF q = r THEN b ELSE req[q]
    BY DEF GateInv
  <1>5. ASSUME NEW q \in Request, req'[q].pc = "none" PROVE ~ req'[q].asked
    BY <1>4, <1>5 DEF LimiterInv
  <1>6. PICK at \in [Request -> Nat] : Paid(at)
    BY DEF LimiterInv
  <1>7. PICK n \in Nat : n = Len(granted[k]) /\ DOMAIN granted[k] = 1..n /\ granted[k] \in Seq(Int)
    BY <1>1, <1>2, Limits!GrantsInTime
  <1>8. /\ granted'[k] = Append(granted[k], clock)
        /\ \A j \in Key \ {k} : granted'[j] = granted[j]
    BY <1>1, <1>2, Limits!NobodyForgotten
  <1>9. /\ DOMAIN granted'[k] = 1..(n + 1) /\ granted'[k][n + 1] = clock
        /\ \A i \in 1..n : granted'[k][i] = granted[k][i]
    BY <1>7, <1>8
  <1>10. PICK to \in [Request -> Nat] : to = [at EXCEPT ![r] = n + 1]
    <2>1. PICK m \in Nat : m = n + 1
      BY <1>7
    <2>2. [at EXCEPT ![r] = m] \in [Request -> Nat]
      BY <1>6, <2>1
    <2> QED BY <2>1, <2>2
  <1>11. ASSUME NEW q \in Request, Charged(req'[q])
         PROVE  /\ req'[q].client \in Client /\ KeyAt(q)' \in Key
                /\ to[q] \in DOMAIN granted'[KeyAt(q)']
                /\ granted'[KeyAt(q)'][to[q]] = req'[q].since
                /\ q = r => KeyAt(q)' = k /\ to[q] = n + 1
                /\ q # r => Charged(req[q]) /\ KeyAt(q)' = KeyAt(q) /\ to[q] = at[q]
    <2>1. CASE q = r
      <3>1. req'[q] = b /\ b.client = client /\ b.since = clock
        BY <1>4, <1>11, <2>1
      <3>2. KeyAt(q)' = k
        BY <3>1 DEF KeyAt, keyOf
      <3>3. to[q] = n + 1 /\ n + 1 \in 1..(n + 1)
        BY <1>6, <1>7, <1>10, <2>1
      <3> QED BY <1>2, <1>9, <2>1, <3>1, <3>2, <3>3
    <2>2. CASE q # r
      <3>1. req'[q] = req[q] /\ Charged(req[q])
        BY <1>4, <1>11, <2>2
      <3>2. KeyAt(q)' = KeyAt(q) /\ to[q] = at[q]
        BY <1>10, <2>2, <3>1 DEF KeyAt, keyOf
      <3>3. /\ req[q].client \in Client /\ at[q] \in DOMAIN granted[KeyAt(q)]
            /\ granted[KeyAt(q)][at[q]] = req[q].since
        BY <1>6, <3>1 DEF Paid
      <3>4. KeyAt(q) \in Key
        BY <1>2, <3>3 DEF KeyAt
      <3>5. at[q] \in DOMAIN granted'[KeyAt(q)]
            /\ granted'[KeyAt(q)][at[q]] = granted[KeyAt(q)][at[q]]
        <4>1. CASE KeyAt(q) = k
          BY <1>7, <1>9, <3>3, <4>1
        <4>2. CASE KeyAt(q) # k
          BY <1>8, <3>3, <3>4, <4>2
        <4> QED BY <4>1, <4>2
      <3> QED BY <2>2, <3>1, <3>2, <3>3, <3>4, <3>5
    <2> QED BY <2>1, <2>2
  <1>12. ASSUME NEW p \in Request, NEW q \in Request, Charged(req'[p]), Charged(req'[q]),
                KeyAt(p)' = KeyAt(q)', to[p] = to[q], p # q
         PROVE  FALSE
    <2>1. ASSUME NEW x \in Request, Charged(req'[x]), x # r, KeyAt(x)' = k PROVE to[x] # n + 1
      <3>1. at[x] \in 1..n
        BY <1>6, <1>7, <1>11, <2>1 DEF Paid
      <3>2. at[x] # n + 1
        BY <1>7, <3>1
      <3> QED BY <1>11, <2>1, <3>2
    <2>2. CASE p = r
      BY <1>11, <1>12, <2>1, <2>2
    <2>3. CASE q = r
      BY <1>11, <1>12, <2>1, <2>3
    <2>4. CASE p # r /\ q # r
      BY <1>6, <1>11, <1>12, <2>4 DEF Paid
    <2> QED BY <2>2, <2>3, <2>4
  <1>13. Paid(to)'
    BY <1>11, <1>12 DEF Paid, Charged
  <1> QED BY <1>3, <1>5, <1>13 DEF LimiterInv

LEMMA Denied ==
    ASSUME NEW a, DOMAIN a = Fields, NEW code, NEW close
    PROVE  LET b == err(a, code, close)
           IN  b.pc = "done" /\ b.since = a.since /\ b.client = a.client /\ b.asked = a.asked
  BY DEF err, Fields

\* What handle() makes of a request that was let through: if it is charged at all, it
\* reads its body from now on.
LEMMA RoutedIs ==
    ASSUME NEW a, DOMAIN a = Fields, ~ a.asked, NEW route \in {"challenge", "verify"},
           NEW method \in Method
    PROVE  LET b == routed(a, route, method)
           IN  b.pc # "none" /\ (Charged(b) => b.client = a.client /\ b.since = clock)
  <1>1. PICK b : b = routed(a, route, method)
    OBVIOUS
  <1>2. \/ \E code, close : b = err(a, code, close)
        \/ b = [a EXCEPT !.pc = "done", !.status = 200]
        \/ b = [a EXCEPT !.pc = "reading", !.since = clock]
    <2>1. \/ route = "challenge" /\ method # "GET"
          \/ route = "challenge" /\ method = "GET" /\ opts.allowReplay
          \/ route = "challenge" /\ method = "GET" /\ ~ opts.allowReplay
          \/ route = "verify" /\ method # "POST"
          \/ route = "verify" /\ method = "POST"
      OBVIOUS
    <2> QED BY <1>1, <2>1, ZenonT(60) DEF routed
  <1>3. CASE \E code, close : b = err(a, code, close)
    <2>1. b.pc = "done" /\ b.asked = a.asked
      BY <1>3, Denied
    <2> QED BY <1>1, <2>1 DEF Charged
  <1>4. CASE b = [a EXCEPT !.pc = "done", !.status = 200]
    <2>1. b.pc = "done" /\ b.asked = a.asked
      BY <1>4 DEF Fields
    <2> QED BY <1>1, <2>1 DEF Charged
  <1>5. CASE b = [a EXCEPT !.pc = "reading", !.since = clock]
    <2>1. b.pc = "reading" /\ b.client = a.client /\ b.since = clock
      BY <1>5 DEF Fields
    <2> QED BY <1>1, <2>1
  <1> QED BY <1>2, <1>3, <1>4, <1>5

LEMMA ArrivalCounted ==
    ASSUME Limits!EveryoneFits, LimiterInv, GateInv, host \in {"serving", "draining"},
           UNCHANGED host, Arrivals
    PROVE  LimiterInv'
  <1>1. PICK r \in Request, client \in Client, forged \in Forged, route \in Route,
             method \in Method : Arrive(r, client, forged, route, method)
    BY DEF Arrivals
  <1>2. Proper(req[r]) /\ req[r].pc = "none" /\ ~ req[r].asked /\ UNCHANGED <<opts, clock>>
    BY <1>1 DEF GateInv, Arrive, LimiterInv
  <1> DEFINE arriving == [req[r] EXCEPT !.client = client,
                              !.posting = method = "POST" /\ route \in {"challenge", "verify"}]
             itsKey     == clientKey(client, forged)
             Refused    == \E code, close : req' = [req EXCEPT ![r] = err(arriving, code, close)]
             HandedOn   == req' = [req EXCEPT ![r] = routed(arriving, route, method)]
             LeftToHost   == req' = [req EXCEPT ![r] = [arriving EXCEPT !.pc = "done"]]
  <1>3. \/ (Refused \/ LeftToHost) /\ UNCHANGED <<hits, granted, turnedAway>>
        \/ /\ route \in {"challenge", "verify"} /\ ~ opts.limited /\ HandedOn
           /\ UNCHANGED <<hits, granted, turnedAway>>
        \/ /\ route \in {"challenge", "verify"} /\ opts.limited /\ Limiter!Grant(itsKey)
           /\ HandedOn
        \/ opts.limited /\ Limiter!Refuse(itsKey) /\ Refused
    <2>0. ASSUME NEW code, NEW close, req' = [req EXCEPT ![r] = err(arriving, code, close)]
          PROVE  Refused
      BY <2>0
    <2>1. CASE route = "badUrl" /\ UNCHANGED <<hits, granted, turnedAway>>
               /\ req' = [req EXCEPT ![r] = err(arriving, 400, FALSE)]
      BY <2>1
    <2>2. CASE route = "other" /\ UNCHANGED <<hits, granted, turnedAway>>
               /\ \E b \in onUnmatched(arriving) : req' = [req EXCEPT ![r] = b]
      <3>1. PICK b \in onUnmatched(arriving) : req' = [req EXCEPT ![r] = b]
        BY <2>2
      <3>2. b = err(arriving, 404, FALSE) \/ b = [arriving EXCEPT !.pc = "done"]
        BY <3>1, Zenon DEF onUnmatched
      <3>3. Refused \/ LeftToHost
        BY <2>0, <3>1, <3>2, Zenon
      <3> QED BY <2>2, <3>3, Zenon
    <2>3. CASE route \in {"challenge", "verify"} /\ unlimited(method) /\ HandedOn
               /\ UNCHANGED <<hits, granted, turnedAway>>
      BY <2>3, Zenon DEF unlimited
    <2>4. CASE /\ route \in {"challenge", "verify"} /\ ~ unlimited(method)
               /\ \/ Limiter!Grant(itsKey) /\ HandedOn
                  \/ /\ Limiter!Refuse(itsKey)
                     /\ req' = [req EXCEPT ![r] = err(arriving, 429, inFlight(arriving))]
      <3>1. req' = [req EXCEPT ![r] = err(arriving, 429, inFlight(arriving))] => Refused
        <4> HIDE DEF arriving
        <4> QED BY <2>0, Zenon
      <3> HIDE DEF Refused, HandedOn
      <3>2. route \in {"challenge", "verify"} /\ opts.limited
        BY <2>4, Zenon DEF unlimited
      <3> QED BY <2>4, <3>1, <3>2, Zenon
    <2> QED BY <1>1, <2>1, <2>2, <2>3, <2>4, Zenon DEF Arrive
  <1>4. PICK a : a = arriving
    OBVIOUS
  <1>5. DOMAIN a = Fields /\ a.client = client /\ a.pc = "none" /\ a.asked = req[r].asked
    BY <1>2, <1>4 DEF Proper, Fields
  <1>6. opts \in Deployment /\ Limits!LimiterAssumption /\ Limits!IInv
    BY SameLimiter DEF LimiterInv
  <1>7. PICK k \in Key : k = itsKey /\ k = keyOf(client)
    BY <1>6, KeyIs
  <1> HIDE DEF arriving, itsKey
  <1>8. \/ /\ \/ \E code, close : req' = [req EXCEPT ![r] = err(a, code, close)]
              \/ req' = [req EXCEPT ![r] = [a EXCEPT !.pc = "done"]]
           /\ UNCHANGED <<hits, granted, turnedAway>>
        \/ /\ route \in {"challenge", "verify"} /\ ~ opts.limited
           /\ req' = [req EXCEPT ![r] = routed(a, route, method)]
           /\ UNCHANGED <<hits, granted, turnedAway>>
        \/ /\ route \in {"challenge", "verify"} /\ opts.limited /\ Limiter!Grant(k)
           /\ req' = [req EXCEPT ![r] = routed(a, route, method)]
        \/ /\ opts.limited /\ Limiter!Refuse(k)
           /\ \E code, close : req' = [req EXCEPT ![r] = err(a, code, close)]
    BY <1>3, <1>4, <1>7, ZenonT(60)
  <1>9. ASSUME NEW code, NEW close
        PROVE  err(a, code, close).pc # "none" /\ ~ Charged(err(a, code, close))
    <2>1. PICK b : b = err(a, code, close)
      OBVIOUS
    <2>2. b.pc = "done" /\ b.asked = a.asked
      BY <1>5, <2>1, Denied
    <2> QED BY <1>2, <1>5, <2>1, <2>2 DEF Charged
  <1>10. UNCHANGED <<hits, granted, turnedAway>> => Limits!IInv'
    BY <1>2, <1>6, Limits!IInvStep DEF Limits!vars
  <1>11. CASE /\ \/ \E code, close : req' = [req EXCEPT ![r] = err(a, code, close)]
                 \/ req' = [req EXCEPT ![r] = [a EXCEPT !.pc = "done"]]
              /\ UNCHANGED <<hits, granted, turnedAway>>
    <2>1. ASSUME NEW code, NEW close, req' = [req EXCEPT ![r] = err(a, code, close)]
          PROVE  LimiterInv'
      BY <1>2, <1>9, <1>10, <1>11, <2>1, MovesUnpaid
    <2>2. CASE req' = [req EXCEPT ![r] = [a EXCEPT !.pc = "done"]]
      <3>1. PICK b : b = [a EXCEPT !.pc = "done"]
        OBVIOUS
      <3>2. b.pc = "done" /\ b.asked = a.asked
        BY <1>5, <3>1 DEF Fields
      <3>3. ~ Charged(b)
        BY <1>2, <1>5, <3>2 DEF Charged
      <3> QED BY <1>2, <1>10, <1>11, <2>2, <3>1, <3>2, <3>3, MovesUnpaid
    <2> QED BY <1>11, <2>1, <2>2
  <1>12. CASE /\ route \in {"challenge", "verify"} /\ ~ opts.limited
              /\ req' = [req EXCEPT ![r] = routed(a, route, method)]
              /\ UNCHANGED <<hits, granted, turnedAway>>
    <2>1. PICK b : b = routed(a, route, method)
      OBVIOUS
    <2>2. b.pc # "none"
      BY <1>2, <1>5, <1>12, <2>1, RoutedIs
    <2> QED BY <1>2, <1>10, <1>12, <2>1, <2>2, MovesUnpaid
  <1>13. CASE /\ route \in {"challenge", "verify"} /\ opts.limited /\ Limiter!Grant(k)
              /\ req' = [req EXCEPT ![r] = routed(a, route, method)]
    <2>1. PICK b : b = routed(a, route, method)
      OBVIOUS
    <2>2. b.pc # "none" /\ (Charged(b) => b.client = client /\ b.since = clock)
      BY <1>2, <1>5, <1>13, <2>1, RoutedIs
    <2> QED BY <1>2, <1>7, <1>13, <2>1, <2>2, MovesPaid
  <1>14. CASE /\ opts.limited /\ Limiter!Refuse(k)
              /\ \E code, close : req' = [req EXCEPT ![r] = err(a, code, close)]
    <2>1. Limits!Refuse(k)
      BY <1>14, SameLimiter
    <2>2. Limits!IInv' /\ granted' = granted
      BY <1>2, <1>6, <2>1, Limits!RefuseStep DEF Limits!Refuse
    <2>3. PICK code, close : req' = [req EXCEPT ![r] = err(a, code, close)]
      BY <1>14
    <2> QED BY <1>2, <1>9, <2>2, <2>3, MovesUnpaid
  <1> QED BY <1>8, <1>11, <1>12, <1>13, <1>14

LEMMA ProgressCounted ==
    ASSUME LimiterInv, GateInv, host \in {"serving", "draining"}, UNCHANGED host,
           NEW r \in Request, Progress(r)
    PROVE  LimiterInv'
  <1>1. PICK a : a = req[r] /\ DOMAIN a = Fields
    BY DEF GateInv, Proper
  <1>2. ASSUME NEW b, Becomes(r, b), Charged(a), b.pc # "none", b.since = a.since,
               b.client = a.client
        PROVE  LimiterInv'
    <2>1. /\ req' = [req EXCEPT ![r] = b]
          /\ UNCHANGED <<opts, clock, hits, granted, turnedAway>>
      BY <1>2 DEF Becomes
    <2>2. Limits!IInv'
      BY <2>1, SameLimiter, Limits!IInvStep DEF LimiterInv, Limits!vars
    <2> QED BY <1>1, <1>2, <2>1, <2>2, MovesUnpaid
  <1>3. ASSUME NEW code, NEW close, Becomes(r, err(a, code, close)), Charged(a)
        PROVE  LimiterInv'
    <2>1. PICK b : b = err(a, code, close)
      OBVIOUS
    <2>2. b.pc = "done" /\ b.since = a.since /\ b.client = a.client
      BY <1>1, <2>1, Denied
    <2> QED BY <1>2, <1>3, <2>1, <2>2
  <1>4. a.pc = "reading" => Charged(a)
    BY DEF Charged
  <1>5. ASSUME NEW n \in 1..(MaxBody + 1), Chunk(r, n) PROVE LimiterInv'
    <2>1. Charged(a) /\ a.pc = "reading"
      BY <1>1, <1>4, <1>5 DEF Chunk
    <2>2. \/ Becomes(r, err(a, 413, TRUE))
          \/ Becomes(r, [a EXCEPT !.len = @ + n])
      BY <1>1, <1>5, Zenon DEF Chunk, chunk
    <2>3. ASSUME NEW b, b = [a EXCEPT !.len = @ + n], Becomes(r, b) PROVE LimiterInv'
      <3>1. b.pc = a.pc /\ b.since = a.since /\ b.client = a.client
        BY <1>1, <2>3 DEF Fields
      <3> QED BY <1>2, <2>1, <2>3, <3>1
    <2> QED BY <1>3, <2>1, <2>2, <2>3
  <1>6. ASSUME NEW content \in Content, End(r, content) PROVE LimiterInv'
    <2>1. PICK e : e = [a EXCEPT !.ended = TRUE, !.len = 0]
      OBVIOUS
    <2>2. Charged(a) /\ DOMAIN e = Fields /\ e.since = a.since /\ e.client = a.client
      BY <1>1, <1>4, <1>6, <2>1 DEF End, Fields
    <2>3. \/ Becomes(r, [e EXCEPT !.pc = "checking", !.asked = TRUE])
          \/ Becomes(r, err(e, 400, FALSE))
      BY <1>1, <1>6, <2>1 DEF End
    <2>4. ASSUME NEW b, Becomes(r, b),
                 b = [e EXCEPT !.pc = "checking", !.asked = TRUE] \/ b = err(e, 400, FALSE)
          PROVE  LimiterInv'
      <3>1. b.pc # "none" /\ b.since = e.since /\ b.client = e.client
        <4>1. ASSUME NEW code, NEW close, b = err(e, code, close)
              PROVE  b.pc = "done" /\ b.since = e.since /\ b.client = e.client
          BY <2>2, <4>1, Denied
        <4>2. CASE b = [e EXCEPT !.pc = "checking", !.asked = TRUE]
          BY <2>2, <4>2 DEF Fields
        <4> QED BY <2>4, <4>1, <4>2
      <3> QED BY <1>2, <2>2, <2>4, <3>1
    <2> QED BY <2>3, <2>4
  <1>7. CASE BodyFails(r)
    BY <1>1, <1>3, <1>4, <1>7 DEF BodyFails
  <1>8. CASE Deadline(r)
    BY <1>1, <1>3, <1>4, <1>8 DEF Deadline
  <1>9. ASSUME NEW v \in Answer \cup {Threw}, CheckReturns(r, v) PROVE LimiterInv'
    <2>1. a.pc = "checking" /\ Charged(a)
      BY <1>1, <1>9 DEF CheckReturns, GateInv, Proper, Charged
    <2>2. \/ Becomes(r, err(a, 500, FALSE))
          \/ Becomes(r, [a EXCEPT !.pc = "done", !.status = status(v), !.over = v.over])
      BY <1>1, <1>9, Zenon DEF CheckReturns
    <2>3. ASSUME NEW b, Becomes(r, b),
                 b = [a EXCEPT !.pc = "done", !.status = status(v), !.over = v.over]
          PROVE  LimiterInv'
      <3>1. b.pc = "done" /\ b.since = a.since /\ b.client = a.client
        BY <1>1, <2>3 DEF Fields
      <3> QED BY <1>2, <2>1, <2>3, <3>1
    <2> QED BY <1>3, <2>1, <2>2, <2>3
  <1> QED BY <1>5, <1>6, <1>7, <1>8, <1>9 DEF Progress, Settle

\* Steps that leave the requests and the limiter alone.
LEMMA NothingCounted ==
    ASSUME LimiterInv, host \in {"booting", "serving", "draining"},
           host' \in {"booting", "serving", "draining"},
           host' = "booting" => host = "booting",
           UNCHANGED <<opts, granted, req>>, Limits!IInv'
    PROVE  LimiterInv'
  <1>1. ASSUME opts.limited PROVE \E at \in [Request -> Nat] : Paid(at)'
    <2>1. PICK at \in [Request -> Nat] : Paid(at)
      BY <1>1 DEF LimiterInv
    <2>2. Paid(at)'
      BY <2>1 DEF Paid, KeyAt, keyOf, Charged
    <2> QED BY <2>2
  <1> QED BY <1>1 DEF LimiterInv

LEMMA CountedInit ==
    ASSUME HostInit
    PROVE  LimiterInv
  <1>1. opts \in Deployment
    BY DEF HostInit, Deployment, OptsType
  <1>2. \A r \in Request : req[r].pc = "none" /\ ~ req[r].asked
    BY DEF HostInit, Untouched
  <1>3. Limits!IInv
    BY SameLimiter, Limits!IInvInit DEF HostInit
  <1>4. host = "booting" /\ ~ opts.limited
    BY DEF HostInit
  <1> QED BY <1>1, <1>2, <1>3, <1>4 DEF LimiterInv

LEMMA CountedStep ==
    ASSUME Limits!EveryoneFits, IInv, LimiterInv, [HostNext]_hostVars
    PROVE  LimiterInv'
  <1>1. GateInv /\ VerifierProtected
    BY Protected DEF IInv
  <1>2. ASSUME UNCHANGED <<clock, hits, granted, turnedAway>>,
               host \in {"booting", "serving", "draining"}
        PROVE  Limits!IInv'
    BY <1>2, SameLimiter, Limits!IInvStep DEF LimiterInv, Limits!vars
  <1>3. ASSUME UNCHANGED <<opts, req>>, host' \notin {"booting", "serving", "draining"}
        PROVE  LimiterInv'
    <2>1. VerifierProtected'
      BY <1>1, <1>3 DEF VerifierProtected
    <2> QED BY <1>3, <2>1 DEF LimiterInv
  <1>4. CASE Booting \/ Signal
    BY <1>2, <1>4, NothingCounted DEF Booting, Signal, vars
  <1>5. CASE BootFails \/ Crashes \/ Closed \/ Exits
    BY <1>3, <1>5 DEF BootFails, Crashes, Closed, Exits, vars
  <1>6. CASE Listens
    <2>1. /\ opts' \in Deployment /\ host = "booting" /\ host' = "serving"
          /\ UNCHANGED <<clock, hits, granted, turnedAway, req>>
      BY <1>6 DEF Listens
    <2>2. \A r \in Request : ~ Charged(req'[r])
      BY <2>1 DEF LimiterInv, Charged
    <2>3. PICK at \in [Request -> Nat] : at = [r \in Request |-> 0]
      OBVIOUS
    <2>4. Paid(at)'
      BY <2>2 DEF Paid, Charged
    <2> QED BY <1>2, <2>1, <2>4 DEF LimiterInv
  <1>7. CASE TimePasses
    <2>1. host \in {"serving", "draining"} /\ host' = host /\ Tick /\ UNCHANGED <<opts, req>>
          /\ granted' = granted
      BY <1>7 DEF TimePasses, Up, Tick
    <2>2. Limits!IInv'
      BY <2>1, SameLimiter, Limits!TickStep DEF LimiterInv
    <2> QED BY <2>1, <2>2, NothingCounted
  <1>8. CASE Requested
    BY <1>1, <1>8, ArrivalCounted DEF Requested, Up
  <1>9. ASSUME NEW r \in Request, Served(r) PROVE LimiterInv'
    BY <1>1, <1>9, ProgressCounted DEF Served, Up
  <1>10. CASE UNCHANGED hostVars
    <2>1. UNCHANGED <<clock, hits, granted, turnedAway, opts, req, host>>
      BY <1>10 DEF hostVars, vars
    <2>2. CASE host \in {"booting", "serving", "draining"}
      BY <1>2, <2>1, <2>2, NothingCounted
    <2>3. CASE host \notin {"booting", "serving", "draining"}
      BY <1>3, <2>1, <2>3
    <2> QED BY <2>2, <2>3
  <1> QED BY <1>4, <1>5, <1>6, <1>7, <1>8, <1>9, <1>10 DEF HostNext

---------------------------------------------------------------------------
(* What follows.                                                           *)

\* Nobody holds a slot past the body deadline nor makes the gate buffer more than the cap
\* (gate.js:136-144), for any sizes and times: the clock may not pass a due timer, and
\* what is buffered was compared with the cap before it was kept.
THEOREM BodiesAreBounded == HostSpec => []SlotBounded
  <1>1. IInv => SlotBounded
    BY DEF IInv, GateInv, Proper, SlotBounded
  <1> QED BY <1>1, Invariance, PTL

\* Only the verifier speaks about a person (gate.js:38-42, 314-316): an answer with a bit
\* is a 200 over a whole body that check() was asked about, and no refusal of the gate's
\* own says 200.  It rests on a verdict being ok exactly when it has the bit, which is
\* ClassifyAsAssumed of Classify_proofs.
THEOREM TheGateHasNoOpinion == HostSpec => []BitOnlyFromVerifier
  <1>1. IInv => BitOnlyFromVerifier
    BY DEF IInv, GateInv, Proper, BitOnlyFromVerifier
  <1> QED BY <1>1, Invariance, PTL

\* A POST to one of our routes answered while its body is coming closes the connection
\* (gate.js:275-278), by whichever refusal and after however many bytes.
THEOREM UnreadBodiesClose == HostSpec => []ClosesUnread
  <1>1. IInv => ClosesUnread
    BY DEF IInv, GateInv, Proper, ClosesUnread
  <1> QED BY <1>1, Invariance, PTL

\* What single use lacks is found before there is a child (gate.js:389-392), for every
\* option an adopter can pass together with it: after startGate's own checks have passed,
\* the constructor finds neither the secret nor the store wanting.
THEOREM ConfigErrorsAreCheap == HostSpec => []SingleUseErrorsAreCheap
  <1>1. IInv => SingleUseErrorsAreCheap
    BY DEF IInv, BootInv
  <1> QED BY <1>1, Invariance, PTL

\* A gate that is up has a verifier that spends nonces (gate.js:7-12, 215-220) whenever
\* startGate was given no requireSingleUse or a truthy one, and createGate no allowReplay,
\* whatever the other options; a falsy one that was never typed ('' or 0) still opens it.
THEOREM GatesAreReplaySafe == HostSpec => []ReplaySafeByDefault
  <1>1. IInv => ReplaySafeByDefault
    BY DEF IInv, BootInv
  <1> QED BY <1>1, Invariance, PTL

\* With a table that has room for every address, one client keeps the verifier busy with
\* at most twice the limit of its requests in any span of one window (gate.js:119-132),
\* whatever it writes into X-Forwarded-For, however late its bodies come and after a
\* shutdown has begun.
THEOREM VerifierIsProtected ==
    ASSUME Limits!EveryoneFits
    PROVE  HostSpec => []VerifierProtected
  <1>1. HostInit => LimiterInv
    BY CountedInit
  <1>2. IInv /\ LimiterInv /\ [HostNext]_hostVars => LimiterInv'
    BY CountedStep
  <1>3. IInv /\ LimiterInv => VerifierProtected
    BY Protected DEF IInv
  <1> QED BY <1>1, <1>2, <1>3, Invariance, PTL DEF HostSpec
=============================================================================
