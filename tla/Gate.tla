------------------------------- MODULE Gate -------------------------------
(***************************************************************************)
(* createGate of src/gate.js: handle() and readBody() over concurrent      *)
(* requests, in front of a verifier whose check() may say anything, take   *)
(* as long as it likes, or reject.  The limiter is RateLimiter.tla.        *)
(*                                                                         *)
(* A request is one event after another on its socket: chunks, the end, or *)
(* an error, in any number and at any time, racing the body deadline.      *)
(* Sizes are numbers, contents the three the parser tells apart.  A timer  *)
(* fires when it is due: the clock does not move past a due deadline.  How *)
(* a gate comes up and goes down is Startup.tla and Host.tla.              *)
(***************************************************************************)
EXTENDS Verdict, FiniteSets

CONSTANTS
    Request,      \* the requests considered, numbers in the order of their arrival
    Client,       \* the addresses of the clients
    Proxy,        \* the address of the proxy, where there is one
    Key, Limit, WindowMs, HardCap, MaxClock, MaxGrants,  \* see RateLimiter
    MaxBody,      \* maxBodyBytes
    MaxBodyRead,  \* maxBodyReadMs
    Answer        \* the verdicts check() may resolve with (ClassifyAsAssumed of Classify_proofs)

ASSUME GateAssumption ==
    /\ Request \subseteq Nat
    /\ MaxBody \in Nat \ {0} /\ MaxBodyRead \in Nat \ {0}
    /\ Answer \subseteq VerdictType /\ \A v \in Answer : v.ok <=> v.over # "null"
    /\ Client # {} /\ Client \cup {Proxy} \subseteq Key

VARIABLES
    opts,                              \* what createGate was given
    clock, hits, granted, turnedAway,  \* see RateLimiter
    req                                \* per request: where handle() is and what it answered

vars == <<opts, clock, hits, granted, turnedAway, req>>

Limiter == INSTANCE RateLimiter

ASSUME GateLimiterAssumption == Limiter!LimiterAssumption

\* limited: FALSE for rateLimit: false; allowReplay: the adopter opted out of single
\* use; proxied: a proxy of ours stands in front, and trustProxy is set only then ("the
\* vetted proxy contract").  With the limiter off nobody's address is looked at.
OptsType == [limited: BOOLEAN, proxied: BOOLEAN, trustProxy: BOOLEAN, allowReplay: BOOLEAN]

Deployment == {o \in OptsType : (o.trustProxy => o.proxied) /\ (o.proxied => o.limited)}

Route == {"badUrl", "other", "challenge", "verify"}
Method == {"GET", "POST", "PUT"}
Content == {"proof", "incomplete", "notJson"}

\* pc: "none" not arrived; "reading" in await readBody; "checking" in await
\* verifier.check; "done" answered.
RequestType ==
    [pc: {"none", "reading", "checking", "done"},
     client: Client,
     since: Nat,              \* when readBody armed its timer, in the turn of its arrival
     posting: BOOLEAN,        \* a POST to one of our two routes: a body is on its way
     len: Nat,                \* bytes readBody has buffered
     ended: BOOLEAN,          \* the whole body was consumed
     asked: BOOLEAN,          \* history: verifier.check was called for it
     status: {0, 200, 400, 404, 405, 408, 413, 429, 500, 503},  \* 0: not answered by us
     over: {"yes", "no", "null", "none"},   \* over_threshold; "none": not in the answer
     close: BOOLEAN]          \* connection: close

Untouched ==
    [r \in Request |->
        [pc |-> "none", client |-> CHOOSE c \in Client : TRUE, since |-> 0,
         posting |-> FALSE, len |-> 0, ended |-> FALSE, asked |-> FALSE,
         status |-> 0, over |-> "none", close |-> FALSE]]

Init ==
    /\ opts \in Deployment
    /\ Limiter!Init
    /\ req = Untouched

---------------------------------------------------------------------------
(* The synchronous part of handle(): what request r, just arrived as a,    *)
(* becomes.                                                                *)

err(a, status, close) ==
    [a EXCEPT !.pc = "done", !.len = 0, !.status = status, !.over = "null", !.close = close]

inFlight_No(a) == FALSE
\* Refused before its body is consumed: the connection closes after the answer.
inFlight(a) == a.posting

\* A request the limiter let through.
routed(a, route, method) ==
    CASE route = "challenge" /\ method # "GET" -> err(a, 405, inFlight(a))
      [] route = "challenge" /\ method = "GET" /\ opts.allowReplay -> err(a, 404, FALSE)
      [] route = "challenge" /\ method = "GET" /\ ~ opts.allowReplay ->
            [a EXCEPT !.pc = "done", !.status = 200]
      [] route = "verify" /\ method # "POST" -> err(a, 405, inFlight(a))
      [] route = "verify" /\ method = "POST" -> [a EXCEPT !.pc = "reading", !.since = clock]

unlimited(method) == ~ opts.limited

\* X-Forwarded-For: what the client wrote into it, and what our proxy appended.
xForwardedFor(client, forged) == IF opts.proxied THEN Append(forged, client) ELSE forged

remoteAddress(client) == IF opts.proxied THEN Proxy ELSE client

clientKey_Leftmost(client, forged) ==
    IF opts.trustProxy /\ xForwardedFor(client, forged) # <<>>
    THEN Head(xForwardedFor(client, forged)) ELSE remoteAddress(client)
\* The rightmost hop is the one our proxy saw.
clientKey(client, forged) ==
    LET hops == xForwardedFor(client, forged)
    IN  IF opts.trustProxy /\ hops # <<>> THEN hops[Len(hops)] ELSE remoteAddress(client)

\* The path is none of ours: 404 from the bare handler; mounted in Express, the next
\* middleware answers.
onUnmatched(a) == {err(a, 404, FALSE), [a EXCEPT !.pc = "done"]}

Arrive(r, client, forged, route, method) ==
    /\ req[r].pc = "none"
    /\ \A q \in Request : q < r => req[q].pc # "none"   \* numbered as they arrive
    /\ clock + MaxBodyRead <= MaxClock  \* bound: its deadline is within the clock's
    /\ LET a == [req[r] EXCEPT !.client = client,
                               !.posting = method = "POST" /\ route \in {"challenge", "verify"}]
           k == clientKey(client, forged)
       IN  \/ /\ route = "badUrl"
              /\ req' = [req EXCEPT ![r] = err(a, 400, FALSE)]
              /\ UNCHANGED <<hits, granted, turnedAway>>
           \/ /\ route = "other"
              /\ \E b \in onUnmatched(a) : req' = [req EXCEPT ![r] = b]
              /\ UNCHANGED <<hits, granted, turnedAway>>
           \/ /\ route \in {"challenge", "verify"} /\ unlimited(method)
              /\ req' = [req EXCEPT ![r] = routed(a, route, method)]
              /\ UNCHANGED <<hits, granted, turnedAway>>
           \/ /\ route \in {"challenge", "verify"} /\ ~ unlimited(method)
              /\ Len(granted[k]) < MaxGrants
              /\ \/ Limiter!Grant(k) /\ req' = [req EXCEPT ![r] = routed(a, route, method)]
                 \/ Limiter!Refuse(k) /\ req' = [req EXCEPT ![r] = err(a, 429, inFlight(a))]
    /\ UNCHANGED <<opts, clock>>

---------------------------------------------------------------------------
(* readBody and what follows it.                                           *)

due_FirstByte(r) == IF req[r].len = 0 THEN MaxClock + 1 ELSE req[r].since + MaxBodyRead
\* The deadline is total: set once, when reading begins.
due(r) == req[r].since + MaxBodyRead

Becomes(r, a) == req' = [req EXCEPT ![r] = a] /\ UNCHANGED <<opts, clock, hits, granted, turnedAway>>

chunk_Late(a, n) ==
    IF a.len > MaxBody THEN err(a, 413, TRUE) ELSE [a EXCEPT !.len = @ + n]
\* Over the cap: refused the moment it is crossed, the chunk is not kept.
chunk(a, n) ==
    IF a.len + n > MaxBody THEN err(a, 413, TRUE) ELSE [a EXCEPT !.len = @ + n]

Chunk(r, n) == req[r].pc = "reading" /\ Becomes(r, chunk(req[r], n))

\* The whole body is there: parsed, and if it carries a proof, checked.
End(r, content) ==
    /\ req[r].pc = "reading"
    /\ req[r].len = 0 => content = "notJson"
    /\ LET a == [req[r] EXCEPT !.ended = TRUE, !.len = 0]
       IN  Becomes(r, IF content = "proof" THEN [a EXCEPT !.pc = "checking", !.asked = TRUE]
                      ELSE err(a, 400, FALSE))

\* The client went away under its body: a 500, to nobody.
BodyFails(r) == req[r].pc = "reading" /\ Becomes(r, err(req[r], 500, FALSE))

Deadline(r) ==
    /\ req[r].pc = "reading" /\ clock >= due(r)
    /\ Becomes(r, err(req[r], 408, TRUE))

status_Denied(v) == IF v.ok \/ v.reason = "session_unknown" THEN 200 ELSE 503
\* ok -> 200, not ok -> 503: never a status that denies a person.
status(v) == IF v.ok THEN 200 ELSE 503

\* check() came back, with a verdict or by rejecting.
CheckReturns(r, v) ==
    /\ req[r].pc = "checking"
    /\ Becomes(r, IF v = Threw THEN err(req[r], 500, FALSE)
                  ELSE [req[r] EXCEPT !.pc = "done", !.status = status(v), !.over = v.over])

Tick ==
    /\ clock < MaxClock
    /\ \A r \in Request : req[r].pc = "reading" => clock < due(r)
    /\ clock' = clock + 1
    /\ UNCHANGED <<opts, hits, granted, turnedAway, req>>

Settle(r) == Deadline(r) \/ \E v \in Answer \cup {Threw} : CheckReturns(r, v)

\* A client may have sent any address in X-Forwarded-For, or none.
Forged == {<<>>} \cup {<<k>> : k \in Key}

Arrivals ==
    \E r \in Request, client \in Client, forged \in Forged, route \in Route, method \in Method :
        Arrive(r, client, forged, route, method)

\* What happens to a request that is there.
Progress(r) ==
    \/ \E n \in 1..(MaxBody + 1) : Chunk(r, n)
    \/ \E content \in Content : End(r, content)
    \/ BodyFails(r) \/ Settle(r)

Next == Tick \/ Arrivals \/ \E r \in Request : Progress(r)

Spec == Init /\ [][Next]_vars

---------------------------------------------------------------------------
TypeOK ==
    /\ opts \in OptsType
    /\ Limiter!TypeOK
    /\ req \in [Request -> RequestType]

\* Nobody holds a slot past the body deadline nor makes the gate buffer more than the
\* cap, however slowly or in whatever pieces the body drips (gate.js:136-144).
SlotBounded ==
    \A r \in Request : req[r].pc = "reading" =>
        /\ clock <= req[r].since + MaxBodyRead
        /\ req[r].len <= MaxBody

\* Only the verifier speaks about a person: an answer carries a bit only when check()
\* gave that bit for a whole body received in time and within the cap, and then with
\* a 200; every refusal of the gate's own has no bit and no 200 (gate.js:38-42, 314-316).
BitOnlyFromVerifier ==
    \A r \in Request : req[r].pc = "done" =>
        /\ req[r].over \in {"yes", "no"} => req[r].asked /\ req[r].ended /\ req[r].status = 200
        /\ req[r].status = 200 /\ req[r].over # "none" => req[r].over \in {"yes", "no"}

\* With the limiter on, one client keeps the verifier busy with at most twice the limit
\* of its requests in any span of one window -- counting those that reached it late, and
\* whatever addresses it writes into X-Forwarded-For (gate.js:119-132).
VerifierProtected ==
    \A r \in Request :
        LET with == {q \in Request : /\ req[q].asked /\ req[q].client = req[r].client
                                     /\ req[q].since >= req[r].since
                                     /\ req[q].since <= req[r].since + WindowMs}
        IN  opts.limited /\ req[r].asked => Cardinality(with) <= 2 * Limit

\* On our routes a POST answered while its body is still coming closes the connection,
\* whichever of the four refusals it met (gate.js:275-278); when the body failed there
\* is no connection left to close.
ClosesUnread ==
    \A r \in Request :
        req[r].pc = "done" /\ req[r].posting /\ ~ req[r].ended /\ req[r].status # 500
          => req[r].close

\* Every request that reached us is answered (gate.js:281-282), whatever its client
\* sends, stalls or withholds.
EveryRequestAnswered ==
    \A r \in Request : req[r].pc \in {"reading", "checking"} ~> req[r].pc = "done"
=============================================================================
