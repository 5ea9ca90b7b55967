----------------------------- MODULE SingleUse -----------------------------
(***************************************************************************)
(* Replay defence: Verifier.issueChallenge and Verifier.check of           *)
(* src/index.js with requireSingleUse on, applySingleUse and               *)
(* InMemoryNonceStore of src/challenge.js, over concurrent checks.         *)
(*                                                                         *)
(* A check reads the clock ONCE, before it awaits the verifier, and uses   *)
(* that reading for the expiry test and for the ttl it hands the store;    *)
(* the store reads its own clock when the spend arrives.  Everything       *)
(* between the two readings -- other checks, other spends, the passing of  *)
(* time -- is an interleaving here.                                        *)
(*                                                                         *)
(* The adopter's store is either one InMemoryNonceStore per process        *)
(* (Shared = FALSE: spend() runs synchronously inside the check's turn) or *)
(* one remote store for every replica (Shared = TRUE: the call travels,    *)
(* may fail, and its answer comes back later).  The remote store is        *)
(* outside src/; it is taken to record atomically, as NonceStore asks.     *)
(***************************************************************************)
EXTENDS Verdict, FiniteSets

CONSTANTS
    Nonce,          \* the nonces issueChallenge may mint
    Foreign,        \* a transcript that is not a challenge of ours
    Check,          \* one id per call of check()
    Replica,        \* the processes that run a Verifier
    Shared,         \* one remote store, or one in-memory store per replica
    BaseVerdict,    \* the verdicts classify() may return
    Ttl,            \* challengeTtlMs
    RequestTimeout, \* requestTimeoutMs: the longest an answer may take
    SweepAbove,     \* the store sweeps once it holds more records (1024)
    MaxClock,       \* bound: the clock stops here
    MaxRestarts     \* bound: restarts of one replica

ASSUME ForeignAssumption == Foreign \notin Nonce
ASSUME ReplicaAssumption == Replica # {}
ASSUME SharedAssumption == Shared \in BOOLEAN
ASSUME NumberAssumption ==
    /\ Ttl \in Nat \ {0} /\ RequestTimeout \in Nat /\ SweepAbove \in Nat
    /\ MaxClock \in Nat /\ MaxRestarts \in Nat
\* What classify() may return: a "yes" is the one accept, and "replay_detected" is
\* not among its reasons (verdict.js:56-229; proved of classify in Classify_proofs).
ASSUME BaseAssumption ==
    /\ BaseVerdict \subseteq VerdictType
    /\ \A v \in BaseVerdict : (v.over = "yes" => v = Fresh) /\ v.reason # "replay_detected"

VARIABLES
    clock,      \* Date.now()
    expiresAt,  \* per nonce: the expiry stamped into it, or NotIssued
    check,      \* per call: where it is and what it holds
    seen,       \* per store: nonce -> remembered until, or Absent
    life        \* per replica: how often the process was restarted

vars == <<clock, expiresAt, check, seen, life>>

NotIssued == -1
Absent == -1

\* pc: "idle" not called; "verifying" in await service.verify; "spending" in await
\* store.spend; "spent" the store has acted, its answer is under way; "done"
\* returned or rejected; "lost" the process went away under it.
PC == {"idle", "verifying", "spending", "spent", "done", "lost"}

Pending == [ok |-> FALSE, over |-> "null", reason |-> "pending"]

CheckType ==
    [pc: PC, home: Replica, life: Nat, transcript: Nonce \cup {Foreign}, now: Nat,
     base: BaseVerdict \cup {Pending},  \* history: what classify() said
     orphan: BOOLEAN,                   \* its process is gone, its spend is not
     fresh: BOOLEAN, spentAt: Nat,      \* the store's answer and when it acted
     verdict: VerdictType \cup {Pending}]

Stores == IF Shared THEN {"shared"} ELSE Replica
StoreOf(r) == IF Shared THEN "shared" ELSE r

Init ==
    /\ clock = 0
    /\ expiresAt = [n \in Nonce |-> NotIssued]
    /\ check = [c \in Check |->
                  [pc |-> "idle", home |-> CHOOSE r \in Replica : TRUE, life |-> 0,
                   transcript |-> Foreign, now |-> 0, base |-> Pending, orphan |-> FALSE,
                   fresh |-> FALSE, spentAt |-> 0, verdict |-> Pending]]
    /\ seen = [s \in Stores |-> [n \in Nonce |-> Absent]]
    /\ life = [r \in Replica |-> 0]

---------------------------------------------------------------------------
(* Challenges and the store.                                               *)

\* The stamp of a challenge minted at time t.
expiryOf(t) == t + Ttl

\* inspectChallenge: ours, and not past its stamp AT THE CHECK'S OWN READING.
recognized(c) == check[c].transcript \in Nonce

expired_Never(c) == FALSE
expired(c) == check[c].now > expiresAt[check[c].transcript]

\* A challenge applySingleUse may spend.
answerable(c) == recognized(c) /\ ~ expired(c)

ttlMs(c) == expiresAt[check[c].transcript] - check[c].now

live_Exclusive(store, n) == store[n] # Absent /\ store[n] > clock
live_Ever(store, n) == FALSE
\* InMemoryNonceStore: a record holds through its last millisecond.
live(store, n) == store[n] # Absent /\ store[n] >= clock

swept_Eager(store) ==
    IF Cardinality({n \in Nonce : store[n] # Absent}) > SweepAbove
    THEN [n \in Nonce |-> Absent]
    ELSE store
\* The opportunistic sweep: only strictly past records go.
swept(store) ==
    IF Cardinality({n \in Nonce : store[n] # Absent}) > SweepAbove
    THEN [n \in Nonce |-> IF store[n] < clock THEN Absent ELSE store[n]]
    ELSE store

recorded(store, n, ttl) == swept([store EXCEPT ![n] = clock + ttl])

\* spend(): record-if-absent, in one step; fresh is what it returns.
spend(c, fresh) ==
    LET s == StoreOf(check[c].home)
        n == check[c].transcript
    IN  /\ fresh = ~ live(seen[s], n)
        /\ seen' = IF fresh THEN [seen EXCEPT ![s] = recorded(@, n, ttlMs(c))] ELSE seen

\* What applySingleUse makes of the store's answer.
ruling_Inverted(v, fresh) == IF fresh THEN Unanswerable("replay_detected") ELSE v
ruling(v, fresh) == IF fresh THEN v ELSE Unanswerable("replay_detected")

sessionRefusal_No == Answered("no", "session_unknown")
sessionRefusal_Raw == Unanswerable("expired")
sessionRefusal == Unanswerable("session_unknown")

---------------------------------------------------------------------------
(* Actions.                                                                *)

Tick == clock < MaxClock /\ clock' = clock + 1 /\ UNCHANGED <<expiresAt, check, seen, life>>

issueChallenge(n) ==
    /\ expiresAt[n] = NotIssued
    /\ expiresAt' = [expiresAt EXCEPT ![n] = expiryOf(clock)]
    /\ UNCHANGED <<clock, check, seen, life>>

\* check() up to its await: one reading of the clock.  The transcript is one of
\* ours that was issued (a nonce cannot be guessed), or foreign.
BeginCheck(c, r, t) ==
    /\ check[c].pc = "idle"
    /\ t \in {Foreign} \cup {n \in Nonce : expiresAt[n] # NotIssued}
    /\ check' = [check EXCEPT ![c] = [@ EXCEPT !.pc = "verifying", !.home = r, !.life = life[r],
                                               !.transcript = t, !.now = clock]]
    /\ UNCHANGED <<clock, expiresAt, seen, life>>

\* service.verify has settled and classify() says v.  An answer of the verifier
\* arrives within the request timeout; a failure to answer may be found out later.
Verified(c, v) ==
    /\ check[c].pc = "verifying"
    /\ v.ok => clock <= check[c].now + RequestTimeout

Finish(c, base, verdict) ==
    check' = [check EXCEPT ![c] = [@ EXCEPT !.pc = "done", !.base = base, !.verdict = verdict]]

PassThrough_NoTimeout(c, v) ==
    /\ Verified(c, v) /\ v # Fresh /\ v.ok
    /\ Finish(c, v, v)
    /\ UNCHANGED <<clock, expiresAt, seen, life>>

\* Not an accept: handed on untouched, and no nonce is spent.
PassThrough(c, v) ==
    /\ Verified(c, v) /\ v # Fresh
    /\ Finish(c, v, v)
    /\ UNCHANGED <<clock, expiresAt, seen, life>>

RefuseSession(c, v) ==
    /\ Verified(c, v) /\ v = Fresh
    /\ ~ answerable(c)
    /\ Finish(c, v, sessionRefusal)
    /\ UNCHANGED <<clock, expiresAt, seen, life>>

\* An accept bound to a live challenge of ours, in-memory store: spend() runs to
\* its return inside this turn of the event loop.
SpendInMemory(c, v) ==
    /\ ~ Shared
    /\ Verified(c, v) /\ v = Fresh /\ answerable(c)
    /\ \E fresh \in BOOLEAN :
          /\ spend(c, fresh)
          /\ check' = [check EXCEPT ![c] =
                [@ EXCEPT !.pc = "done", !.base = v, !.fresh = fresh, !.spentAt = clock,
                          !.verdict = ruling(v, fresh)]]
    /\ UNCHANGED <<clock, expiresAt, life>>

SendSpend(c, v) ==
    /\ Shared
    /\ Verified(c, v) /\ v = Fresh /\ answerable(c)
    /\ check' = [check EXCEPT ![c] = [@ EXCEPT !.pc = "spending", !.base = v]]
    /\ UNCHANGED <<clock, expiresAt, seen, life>>

\* The remote store acts on the call; a process that is gone hears no answer.
StoreSpends(c) ==
    /\ check[c].pc = "spending"
    /\ \E fresh \in BOOLEAN :
          /\ spend(c, fresh)
          /\ check' = [check EXCEPT ![c] =
                [@ EXCEPT !.pc = IF check[c].orphan THEN "lost" ELSE "spent",
                          !.fresh = fresh, !.spentAt = clock]]
    /\ UNCHANGED <<clock, expiresAt, life>>

AnswerSpend(c) ==
    /\ check[c].pc = "spent"
    /\ Finish(c, check[c].base, ruling(check[c].base, check[c].fresh))
    /\ UNCHANGED <<clock, expiresAt, seen, life>>

\* The call, or its answer, is lost and store.spend() rejects: nothing catches it.
StoreFails(c) ==
    /\ check[c].pc \in {"spending", "spent"}
    /\ check' = [check EXCEPT ![c] =
          IF check[c].orphan THEN [@ EXCEPT !.pc = "lost"]
          ELSE [@ EXCEPT !.pc = "done", !.verdict = Threw]]
    /\ UNCHANGED <<clock, expiresAt, seen, life>>

\* A process restart: its checks are lost with it, an in-memory store is empty
\* again, a call already on its way to the remote store is not recalled.
Restart(r) ==
    /\ life[r] < MaxRestarts
    /\ life' = [life EXCEPT ![r] = @ + 1]
    /\ check' = [c \in Check |->
          IF check[c].home # r \/ check[c].pc \in {"idle", "done", "lost"} THEN check[c]
          ELSE IF check[c].pc = "spending" THEN [check[c] EXCEPT !.orphan = TRUE]
          ELSE [check[c] EXCEPT !.pc = "lost"]]
    /\ seen' = IF Shared THEN seen ELSE [seen EXCEPT ![r] = [n \in Nonce |-> Absent]]
    /\ UNCHANGED <<clock, expiresAt>>

VerifyReturns(c) ==
    \E v \in BaseVerdict :
        PassThrough(c, v) \/ RefuseSession(c, v) \/ SpendInMemory(c, v) \/ SendSpend(c, v)

StoreAnswers(c) == StoreSpends(c) \/ StoreFails(c) \/ AnswerSpend(c)

Next ==
    \/ Tick
    \/ \E n \in Nonce : issueChallenge(n)
    \/ \E c \in Check, r \in Replica, t \in Nonce \cup {Foreign} : BeginCheck(c, r, t)
    \/ \E c \in Check : VerifyReturns(c)
    \/ \E c \in Check : StoreAnswers(c)
    \/ \E r \in Replica : Restart(r)

Spec == Init /\ [][Next]_vars

\* service.verify always settles (AbortSignal.timeout on the request); the store is
\* trusted to settle every spend -- check() puts no timeout of its own on it.
Fairness == \A c \in Check : WF_vars(VerifyReturns(c)) /\ WF_vars(StoreAnswers(c))

FairSpec == Spec /\ Fairness

---------------------------------------------------------------------------
(* Properties.                                                             *)

TypeOK ==
    /\ clock \in 0..MaxClock
    /\ expiresAt \in [Nonce -> Nat \cup {NotIssued}]
    /\ check \in [Check -> CheckType]
    /\ seen \in [Stores -> [Nonce -> Nat \cup {Absent}]]
    /\ life \in [Replica -> 0..MaxRestarts]

\* Two checks that would meet in the same set of spent nonces: one remote store,
\* or the same in-memory store not restarted in between.
SameStore(c, d) ==
    Shared \/ (check[c].home = check[d].home /\ check[c].life = check[d].life)

SameVisit(c, d) == check[c].transcript = check[d].transcript /\ SameStore(c, d)

OnTime(c) == check[c].fresh /\ check[c].spentAt <= expiresAt[check[c].transcript]

\* Of all the spends of one nonce, however the checks that carry them interleave,
\* the store calls at most one fresh while the nonce is alive (challenge.js:18-23).
NoReplayWhileAlive ==
    \A c, d \in Check : c # d /\ SameVisit(c, d) => ~ (OnTime(c) /\ OnTime(d))

\* The record of a spend never runs out before the nonce does -- whatever the delay
\* between the check's clock reading and the spend -- and no sweep takes it early.
RecordOutlivesNonce ==
    \A c \in Check :
        LET n == check[c].transcript
            r == check[c].home
        IN  /\ check[c].fresh /\ (Shared \/ life[r] = check[c].life)
            /\ clock <= expiresAt[n]
            => seen[StoreOf(r)][n] >= expiresAt[n]

\* A nonce is only ever used up by a proof that verified, bound to it, in a check
\* begun before it expired: garbage cannot exhaust a visitor's challenge
\* (challenge.js:167-170).
OnlyProvenSpends ==
    \A s \in Stores, n \in Nonce :
        seen[s][n] # Absent
          => \E c \in Check : /\ check[c].fresh /\ check[c].transcript = n
                              /\ StoreOf(check[c].home) = s
                              /\ check[c].base = Fresh
                              /\ check[c].now <= expiresAt[n]

\* Nobody is told "replay" unless another call did use that nonce before: a retry
\* that finds its nonce burnt is refused, a first visit never is.
ReplayHasFirstUse ==
    \A c \in Check :
        check[c].verdict.reason = "replay_detected"
          => \E d \in Check \ {c} : /\ check[d].fresh /\ SameVisit(c, d)
                                   /\ check[d].spentAt <= check[c].spentAt

\* The gate only takes accepts away, and never by saying "no": a "no" is passed on
\* as it is, an accept comes out as itself or as "we cannot confirm"
\* (challenge.js:145-153), and every accept paid with a spend of its own.
OnlyDowngrades ==
    \A c \in Check : check[c].pc = "done" =>
        /\ check[c].verdict.over = "no" <=> check[c].base.over = "no"
        /\ check[c].verdict.over = "yes" => check[c].base = Fresh /\ check[c].fresh

\* In one process a presentation is never accepted later than one request timeout
\* after its challenge expired: the price of judging expiry by the old reading.
AcceptedSoonAfterExpiry ==
    \A c \in Check : ~ Shared /\ check[c].fresh
        => check[c].spentAt <= expiresAt[check[c].transcript] + RequestTimeout

\* Every call of check() comes back -- with a verdict or a rejection -- unless its
\* process went away.
CheckSettles == \A c \in Check : check[c].pc = "verifying" ~> check[c].pc \in {"done", "lost"}

---------------------------------------------------------------------------
(* What the repository says and the code does not do.                      *)

\* "SPEND the nonce once ... a spent nonce need only be remembered until it expires;
\* after that its own expiry stamp refuses it, with no memory needed"
\* (challenge.js:18-23).
AcceptedAtMostOnce ==
    \A c, d \in Check : c # d /\ SameVisit(c, d)
        => ~ (check[c].verdict = Fresh /\ check[d].verdict = Fresh)

\* "ttlMs is how long to remember it -- exactly until the nonce expires, never
\* longer" (types.js:38-39).
RememberedUntilExpiry ==
    \A s \in Stores, n \in Nonce : seen[s][n] # Absent => seen[s][n] <= expiresAt[n]

\* "Verify one proof. Never throws." (index.js:246).
CheckNeverRejects == \A c \in Check : check[c].verdict # Threw
=============================================================================
