------------------------------- MODULE Service -------------------------------
(***************************************************************************)
(* src/service.js: VerifierService supervises the longfellow verifier, a   *)
(* Go process of its own.  Each service here is one VerifierService with   *)
(* the child it spawned last; src/index.js Verifier.start wraps it, so     *)
(* what the constructor does to a started service is part of the step that *)
(* resolves start().  start() may be called again once the child is gone.  *)
(*                                                                         *)
(* The child (outside src/) is what service.js says of it: it logs what it *)
(* loads, in program order, announces "Starting server", only then listens *)
(* on its port, and may die at any time.  Each KIND of line goes to one of *)
(* its two output streams; the supervisor reads the streams independently. *)
(* The kernel may refuse a signal to a child that runs (EPERM): kill()     *)
(* then emits 'error' before it returns.                                   *)
(* Time is abstract: a timer may fire at any point and eventually does.    *)
(***************************************************************************)
EXTENDS Naturals, Sequences, FiniteSets

CONSTANTS
    Service,          \* the VerifierService objects, one child each
    Nobody,           \* nobody holds the port
    Stranger,         \* another process, e.g. a child left over from before
    CircuitCounts,    \* how many circuit files the directory may hold
    AnchorCounts,     \* how many certificates the PEM bundle may hold
    StreamOf,         \* the stream the child writes each kind of line on
    MaxStarts         \* bound: calls of start() on one service

Line == {"ca", "vical", "read", "skip", "started"}
Stream == {"stdout", "stderr"}
Caller == {"start", "user"}

ASSUME ServiceAssumption ==
    /\ Nobody \notin Service /\ Stranger \notin Service /\ Stranger # Nobody
    /\ CircuitCounts \subseteq Nat /\ AnchorCounts \subseteq Nat
    /\ StreamOf \in [Line -> Stream] /\ MaxStarts \in Nat

VARIABLES
    sup,    \* per service: the fields of the VerifierService and where start() is
    stop,   \* per service and caller: where a call of stop() is
    kid,    \* per service: its child process and the two pipes
    port    \* who listens on the configured port

vars == <<sup, stop, kid, port>>

\* pc of start(): "new"; "spawning" in await spawned; "loop" between two polls;
\* "alive" in await #alive(); "stopping" in await stop() before a throw; "up" resolved;
\* "failed" rejected.  why: what a rejection says.
SupType ==
    [pc: {"new", "spawning", "loop", "alive", "stopping", "up", "failed"},
     starts: 0..MaxStarts, \* history: calls of start()
     ready: BOOLEAN, started: BOOLEAN,
     exit: {"no", "exit", "error"},   \* #exit: null, of an 'exit' event, of an 'error' event
     circuits: Nat, expected: Nat, skipped: Nat,
     anchors: Nat, anchorsExpected: Nat, vical: Nat,
     late: BOOLEAN,        \* the startup deadline has passed
     healthy: BOOLEAN,     \* a 200 from /healthz is waiting to be read
     vicalUrl: BOOLEAN,    \* the operator asked for a network trust list
     why: {"", "spawn", "empty", "exited", "corrupt", "timeout",
           "vical", "truncated", "noAnchors", "policy", "signal"}]

\* "grace" and "kill" await once(child, 'exit'), which an 'error' rejects: "threw".
StopPC == {"idle", "grace", "kill", "done", "threw"}

\* proc: "none" not spawned; "loading"; "binding" about to listen; "serving"; "dead".
KidType ==
    [proc: {"none", "loading", "binding", "serving", "dead"},
     script: Seq(Line),          \* everything this child will ever log
     todo: Seq(Line),            \* what of it is still to be written
     pipe: [Stream -> Seq(Line)],
     kill: BOOLEAN]              \* SIGKILL was sent (SIGTERM obliges it to nothing)

Init ==
    /\ \E url \in [Service -> BOOLEAN] :
          sup = [s \in Service |->
                   [pc |-> "new", starts |-> 0, ready |-> FALSE, started |-> FALSE, exit |-> "no",
                    circuits |-> 0, expected |-> 0, skipped |-> 0,
                    anchors |-> 0, anchorsExpected |-> 0, vical |-> 0,
                    late |-> FALSE, healthy |-> FALSE, vicalUrl |-> url[s],
                    why |-> ""]]
    /\ stop = [s \in Service |-> [c \in Caller |-> "idle"]]
    /\ kid = [s \in Service |->
                [proc |-> "none", script |-> <<>>, todo |-> <<>>,
                 pipe |-> [x \in Stream |-> <<>>], kill |-> FALSE]]
    /\ port \in {Nobody, Stranger}

Running(s) == kid[s].proc \in {"loading", "binding", "serving"}

---------------------------------------------------------------------------
(* The child.                                                              *)

\* n lines of one kind.
Lines(n, l) == [i \in 1..n |-> l]

\* What a child may log: some of the CAs and perhaps a network trust list, before or
\* after some of the circuit files, read or ignored; last, that it starts to serve.
Script(e, a) ==
    LET Trust == {Lines(n, "ca") \o v : n \in 0..a, v \in {<<>>, <<"vical">>}}
        Circuits == UNION {[1..k -> {"read", "skip"}] : k \in 0..e}
    IN  {t \o c \o <<"started">> : t \in Trust, c \in Circuits}
          \cup {c \o t \o <<"started">> : t \in Trust, c \in Circuits}

Write(s) ==
    /\ kid[s].proc = "loading"
    /\ LET l == Head(kid[s].todo)
       IN  kid' = [kid EXCEPT ![s] =
                     [kid[s] EXCEPT !.todo = Tail(@),
                                    !.pipe[StreamOf[l]] = Append(@, l),
                                    !.proc = IF l = "started" THEN "binding" ELSE @]]
    /\ UNCHANGED <<sup, stop, port>>

\* Listening fails, and the child with it, when the port is taken.
Bind(s) ==
    /\ kid[s].proc = "binding"
    /\ port' = IF port = Nobody THEN s ELSE port
    /\ kid' = [kid EXCEPT ![s].proc = IF port = Nobody THEN "serving" ELSE "dead"]
    /\ UNCHANGED <<sup, stop>>

Die(s) ==
    /\ Running(s)
    /\ kid' = [kid EXCEPT ![s].proc = "dead"]
    /\ port' = IF port = s THEN Nobody ELSE port
    /\ UNCHANGED <<sup, stop>>

\* The kernel delivers a SIGKILL.
Killed(s) == kid[s].kill /\ Die(s)

---------------------------------------------------------------------------
(* Events the supervisor handles.                                          *)

\* #absorb: one line of the child's log.
absorbed(v, l) ==
    CASE l = "read"    -> [v EXCEPT !.circuits = @ + 1]
      [] l = "ca"      -> [v EXCEPT !.anchors = @ + 1]
      [] l = "started" -> [v EXCEPT !.started = TRUE]
      [] l = "skip"    -> [v EXCEPT !.skipped = @ + 1]
      [] l = "vical"   -> [v EXCEPT !.vical = @ + 1]

Absorb(s, x) ==
    /\ kid[s].pipe[x] # <<>>
    /\ sup' = [sup EXCEPT ![s] = absorbed(@, Head(kid[s].pipe[x]))]
    /\ kid' = [kid EXCEPT ![s].pipe[x] = Tail(@)]
    /\ UNCHANGED <<stop, port>>

\* The 'exit' event: some time after the child died.
ExitEvent(s) ==
    /\ kid[s].proc = "dead" /\ sup[s].exit # "exit"
    /\ sup' = [sup EXCEPT ![s] = [@ EXCEPT !.exit = "exit", !.ready = FALSE]]
    /\ UNCHANGED <<stop, kid, port>>

\* What an 'error' event does to the fields of the service and to its start().  The
\* durable listener keeps what #exit holds already; once(child, 'spawn') rejects.
noted(v) == [v EXCEPT !.ready = FALSE, !.exit = IF @ = "no" THEN "error" ELSE @]
errored(v) == IF v.pc = "spawning" THEN [noted(v) EXCEPT !.pc = "failed", !.why = "spawn"] ELSE noted(v)

\* And to the calls of stop() that wait for the exit.
rejected(calls) ==
    [c \in Caller |-> IF calls[c] \in {"grace", "kill"} THEN "threw" ELSE calls[c]]

\* An 'error' event over a child that may well be running.
ErrorEvent(s) ==
    /\ kid[s].proc # "none"
    /\ sup' = [sup EXCEPT ![s] = errored(@)]
    /\ stop' = [stop EXCEPT ![s] = rejected(@)]
    /\ UNCHANGED <<kid, port>>

---------------------------------------------------------------------------
(* stop().                                                                 *)

\* Its synchronous part, called by c over the fields v: nothing to do once an exit was
\* noted, or SIGTERM is sent.  If that is refused the 'error' is emitted before this
\* call begins to wait.
StopCalled(s, c, v) ==
    /\ \/ /\ v.exit # "no"
          /\ sup' = [sup EXCEPT ![s] = v]
          /\ stop' = [stop EXCEPT ![s][c] = "done"]
       \/ /\ v.exit = "no"
          /\ sup' = [sup EXCEPT ![s] = v]
          /\ stop' = [stop EXCEPT ![s][c] = "grace"]
       \/ /\ v.exit = "no" /\ Running(s)
          /\ sup' = [sup EXCEPT ![s] = errored(v)]
          /\ stop' = [stop EXCEPT ![s] = [rejected(@) EXCEPT ![c] = "grace"]]
    /\ UNCHANGED kid

\* The holder of the service calls stop(), at any time after start(); nobody holds
\* one whose Verifier was refused.
UserStops(s) ==
    /\ sup[s].pc # "new" /\ sup[s].why # "policy" /\ stop[s]["user"] = "idle"
    /\ StopCalled(s, "user", [sup[s] EXCEPT !.ready = FALSE])
    /\ UNCHANGED port

\* The exit event came, or the grace is over and something was noted as an exit.
StopReturns(s, c) ==
    /\ \/ stop[s][c] = "grace" /\ sup[s].exit # "no"
       \/ stop[s][c] = "kill" /\ sup[s].exit = "exit"
    /\ stop' = [stop EXCEPT ![s][c] = "done"]
    /\ UNCHANGED <<sup, kid, port>>

graceOver_GivesUp(s, c) ==
    /\ stop' = [stop EXCEPT ![s][c] = "done"]
    /\ UNCHANGED <<sup, kid>>

graceOver_WaitsOn(s, c) == UNCHANGED <<sup, stop, kid>>

\* The grace timer fired and no exit is noted: SIGKILL, which may be refused too.
graceOver(s, c) ==
    \/ /\ stop' = [stop EXCEPT ![s][c] = "kill"]
       /\ kid' = [kid EXCEPT ![s].kill = TRUE]
       /\ UNCHANGED sup
    \/ /\ Running(s)
       /\ sup' = [sup EXCEPT ![s] = errored(@)]
       /\ stop' = [stop EXCEPT ![s] = rejected(@)]
       /\ UNCHANGED kid

GraceOver(s, c) ==
    /\ stop[s][c] = "grace" /\ sup[s].exit = "no"
    /\ graceOver(s, c)
    /\ UNCHANGED port

---------------------------------------------------------------------------
(* start() and #awaitReady().                                              *)

\* Bound: a child of a later start loads everything, or nothing.
Scripts(s, e, a) ==
    IF sup[s].starts = 0 THEN Script(e, a)
    ELSE {<<"started">>, Lines(a, "ca") \o Lines(e, "read") \o <<"started">>}

again_ForgetsExit(v) == [v EXCEPT !.exit = "no"]
\* What start() resets of a service that was started before: nothing.  #exit and the
\* counts of the first child are still there.
again(v) == v

\* Called first, or again after a failure or a stop, with no child left and everything
\* the old one wrote, its exit included, noticed.
Start(s, e, a) ==
    /\ sup[s].pc \in {"new", "up", "failed"} /\ sup[s].starts < MaxStarts
    /\ sup[s].why # "policy" /\ ~ Running(s)
    /\ \A c \in Caller : stop[s][c] \in {"idle", "done", "threw"}
    /\ sup[s].starts > 0 => sup[s].exit # "no" /\ \A x \in Stream : kid[s].pipe[x] = <<>>
    /\ kid[s].proc = "dead" => sup[s].exit = "exit"
    /\ sup' = [sup EXCEPT ![s] = [again(sup[s]) EXCEPT !.pc = "spawning", !.starts = @ + 1,
                                                       !.expected = e, !.anchorsExpected = a,
                                                       !.late = FALSE, !.why = ""]]
    /\ stop' = [stop EXCEPT ![s] = [c \in Caller |-> "idle"]]
    /\ \/ \E script \in Scripts(s, e, a) :
             kid' = [kid EXCEPT ![s] = [@ EXCEPT !.proc = "loading", !.kill = FALSE,
                                                 !.script = script, !.todo = script]]
       \/ kid' = [kid EXCEPT ![s] = [@ EXCEPT !.proc = "none", !.kill = FALSE,  \* ENOENT and friends
                                               !.script = <<>>, !.todo = <<>>]]
    /\ UNCHANGED port

\* sup[s] with start() rejected, or about to be once stop() has returned.
FailNow(s, why) == sup' = [sup EXCEPT ![s] = [@ EXCEPT !.pc = "failed", !.why = why]]

StopAndFail_NoStop(s, why) == FailNow(s, why) /\ UNCHANGED <<stop, kid>>
\* "never leave a child running behind a failed start".
StopAndFail(s, why) ==
    StopCalled(s, "start", [sup[s] EXCEPT !.pc = "stopping", !.why = why, !.ready = FALSE,
                                          !.healthy = FALSE])

\* There is no child, and an 'error' says so to everybody who waits.
SpawnFails(s) ==
    /\ sup[s].pc = "spawning" /\ kid[s].proc = "none"
    /\ sup' = [sup EXCEPT ![s] = errored(@)]
    /\ stop' = [stop EXCEPT ![s] = rejected(@)]
    /\ UNCHANGED <<kid, port>>

Spawned(s) ==
    /\ sup[s].pc = "spawning" /\ kid[s].proc # "none"
    /\ IF sup[s].expected = 0
       THEN StopAndFail(s, "empty")
       ELSE sup' = [sup EXCEPT ![s].pc = "loop"] /\ UNCHANGED <<stop, kid>>
    /\ UNCHANGED port

DeadlinePasses(s) ==
    /\ sup[s].pc \in {"loop", "alive"} /\ ~ sup[s].late
    /\ sup' = [sup EXCEPT ![s].late = TRUE]
    /\ UNCHANGED <<stop, kid, port>>

loaded_BeforeStarted(s) == sup[s].circuits >= sup[s].expected
\* The child announced itself and every circuit file was read.
loaded(s) == sup[s].started /\ sup[s].circuits >= sup[s].expected

\* One turn of the polling loop; a turn that finds nothing sleeps and changes nothing.
PollTimeout(s) ==
    /\ sup[s].pc = "loop" /\ sup[s].late
    /\ StopAndFail(s, "timeout")
    /\ UNCHANGED port

PollExit(s) ==
    /\ sup[s].pc = "loop" /\ ~ sup[s].late /\ sup[s].exit # "no"
    /\ FailNow(s, "exited")
    /\ UNCHANGED <<stop, kid, port>>

PollLoaded(s) ==
    /\ sup[s].pc = "loop" /\ ~ sup[s].late /\ sup[s].exit = "no" /\ loaded(s)
    /\ sup' = [sup EXCEPT ![s].pc = "alive"]
    /\ UNCHANGED <<stop, kid, port>>

PollCorrupt(s) ==
    /\ sup[s].pc = "loop" /\ ~ sup[s].late /\ sup[s].exit = "no" /\ ~ loaded(s)
    /\ sup[s].skipped > 0
    /\ StopAndFail(s, "corrupt")
    /\ UNCHANGED port

\* Whoever listens on the port answers /healthz with a 200.
HealthzAnswers(s) ==
    /\ sup[s].pc = "alive" /\ ~ sup[s].healthy /\ port # Nobody
    /\ sup' = [sup EXCEPT ![s].healthy = TRUE]
    /\ UNCHANGED <<stop, kid, port>>

\* #alive() is false -- refused, reset or too slow -- and the turn goes on.
NotAlive(s) ==
    /\ sup[s].pc = "alive" /\ ~ sup[s].healthy
    /\ IF sup[s].skipped > 0
       THEN StopAndFail(s, "corrupt")
       ELSE sup' = [sup EXCEPT ![s].pc = "loop"] /\ UNCHANGED <<stop, kid>>
    /\ UNCHANGED port

\* #assertTrustAnchors: the reason it throws, "" when it does not.
untrustworthy(v) ==
    IF v.vical > 0 /\ ~ v.vicalUrl THEN "vical"
    ELSE IF v.anchors < v.anchorsExpected THEN "truncated"
    ELSE IF v.anchors + v.vical = 0 THEN "noAnchors" ELSE ""

\* #alive() is true.  Nothing else is looked at again: the trust anchors are judged and
\* start() resolves; Verifier.start then builds the Verifier over the ready service,
\* and a policy the constructor refuses rejects the caller, not the child.
AliveReturns(s) ==
    /\ sup[s].pc = "alive" /\ sup[s].healthy
    /\ IF untrustworthy(sup[s]) # ""
       THEN StopAndFail(s, untrustworthy(sup[s]))
       ELSE /\ \E why \in {"", "policy"} :
                  sup' = [sup EXCEPT ![s] = [@ EXCEPT !.pc = "up", !.ready = TRUE,
                                                      !.healthy = FALSE, !.why = why]]
            /\ UNCHANGED <<stop, kid>>
    /\ UNCHANGED port

\* stop() came back inside start(): now the rejection, which is stop()'s own if it threw.
StartFails(s) ==
    /\ sup[s].pc = "stopping" /\ stop[s]["start"] \in {"done", "threw"}
    /\ FailNow(s, IF stop[s]["start"] = "threw" THEN "signal" ELSE sup[s].why)
    /\ UNCHANGED <<stop, kid, port>>

Poll(s) == PollTimeout(s) \/ PollExit(s) \/ PollLoaded(s) \/ PollCorrupt(s)

Child(s) == Write(s) \/ Bind(s) \/ Die(s)

Stopping(s, c) == StopReturns(s, c) \/ GraceOver(s, c)

Starting(s) ==
    \/ SpawnFails(s) \/ Spawned(s) \/ Poll(s)
    \/ NotAlive(s) \/ AliveReturns(s) \/ StartFails(s)

Next ==
    \E s \in Service :
        \/ \E e \in CircuitCounts, a \in AnchorCounts : Start(s, e, a)
        \/ Child(s) \/ ExitEvent(s) \/ ErrorEvent(s) \/ \E x \in Stream : Absorb(s, x)
        \/ Starting(s) \/ DeadlinePasses(s) \/ HealthzAnswers(s)
        \/ UserStops(s) \/ \E c \in Caller : Stopping(s, c)

Spec == Init /\ [][Next]_vars

\* The event loop runs what is due, timers fire, pipes are read, the kernel kills.
\* Nothing is asked of the child: it may load for ever, ignore SIGTERM or crash.
Fairness ==
    \A s \in Service :
        /\ WF_vars(Starting(s)) /\ WF_vars(DeadlinePasses(s)) /\ WF_vars(ExitEvent(s))
        /\ WF_vars(Killed(s))
        /\ \A c \in Caller : WF_vars(Stopping(s, c))

FairSpec == Spec /\ Fairness

---------------------------------------------------------------------------
(* Properties.                                                             *)

TypeOK ==
    /\ sup \in [Service -> SupType]
    /\ stop \in [Service -> [Caller -> StopPC]]
    /\ kid \in [Service -> KidType]
    /\ port \in Service \cup {Nobody, Stranger}

\* How often the child logs a line of this kind, read or not.
Truth(s, l) == Cardinality({i \in DOMAIN kid[s].script : kid[s].script[i] = l})

Whole(s) ==
    /\ Truth(s, "read") >= sup[s].expected
    /\ Truth(s, "ca") >= sup[s].anchorsExpected
    /\ Truth(s, "ca") + Truth(s, "vical") > 0
    /\ Truth(s, "vical") > 0 => sup[s].vicalUrl

\* No child runs, or an 'error' event is all the supervisor has to go by: a signal the
\* kernel refused is noted in #exit like an exit (service.js:164-168).
Gone(s) == ~ Running(s) \/ sup[s].exit = "error"

\* A service becomes ready only over a child that loads every circuit file and every
\* CA, trusts somebody, and trusts nobody from the network uninvited -- in what the
\* child DID, not in what was read of its log so far (service.js:222-231, 268-279), nor in
\* what an earlier child of the same service logged.
ReadyOnlyWhole ==
    [][\A s \in Service : ~ sup[s].ready /\ sup'[s].ready => Whole(s)']_vars

\* What a rejected first start() says of the child is so: an intact child is never
\* refused as corrupt, truncated or widened, nor called exited, or not started, while it
\* runs -- unless what start() took for its exit was an 'error' event.
RefusalIsTrue ==
    \A s \in Service : sup[s].pc = "failed" /\ sup[s].starts = 1 =>
        CASE sup[s].why \in {"spawn", "exited"} -> Gone(s)
          [] sup[s].why = "empty"     -> sup[s].expected = 0
          [] sup[s].why = "corrupt"   -> Truth(s, "skip") > 0
          [] sup[s].why = "vical"     -> Truth(s, "vical") > 0 /\ ~ sup[s].vicalUrl
          [] sup[s].why = "truncated" -> Truth(s, "ca") < sup[s].anchorsExpected
          [] sup[s].why = "noAnchors" -> Truth(s, "ca") = 0 /\ Truth(s, "vical") = 0
          [] OTHER -> TRUE

\* "never leave a child running behind a failed start" (service.js:234), whichever way
\* the first VerifierService.start itself fails and whoever else stops it meanwhile,
\* except over an 'error' event.
NoChildBehindFailedStart ==
    \A s \in Service : sup[s].pc = "failed" /\ sup[s].starts = 1 => Gone(s)

\* When stop() has come back its child is gone, also when start() and the user stop it
\* at once or it exits under them, except over an 'error' event; of the first child, for
\* #exit outlives it.
StopMeansGone ==
    \A s \in Service, c \in Caller :
        stop[s][c] \in {"done", "threw"} /\ sup[s].starts = 1 => Gone(s)

\* start() resolves or rejects within its timeouts, whatever the child does.
StartSettles ==
    \A s \in Service : sup[s].pc = "spawning" ~> sup[s].pc \in {"up", "failed"}

\* stop() returns or throws, also over a child that ignores SIGTERM.
StopSettles ==
    \A s \in Service, c \in Caller : stop[s][c] = "grace" ~> stop[s][c] \in {"done", "threw"}

---------------------------------------------------------------------------
(* What the repository says and the code does not do.                      *)

\* "resolves only once it is genuinely able to verify" (service.js:119): a service
\* that says it is ready has not seen its child exit.
ReadyHasNotExited == \A s \in Service : sup[s].ready => sup[s].exit # "exit"

\* "never leave a child running behind a failed start" (service.js:234), the start
\* being Verifier.start: a caller that got no Verifier cannot stop the child.
NoChildBehindRejectedVerifier ==
    \A s \in Service : sup[s].why = "policy" => ~ Running(s)

\* The same of a service that is started again, which fails whatever its child does:
\* it is told that the verifier exited, by the exit of the first one.
NoChildBehindLaterStart == \A s \in Service : sup[s].pc = "failed" => ~ Running(s)

\* "SIGTERM, then SIGKILL if it will not go" (service.js:382): a stop() that resolved
\* left no child.  A refused SIGTERM is noted as an exit, and SIGKILL is never tried.
StopEnds ==
    \A s \in Service, c \in Caller : stop[s][c] = "done" /\ sup[s].starts = 1 => ~ Running(s)
=============================================================================
