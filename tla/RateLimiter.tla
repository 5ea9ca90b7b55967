---------------------------- MODULE RateLimiter ----------------------------
(***************************************************************************)
(* createRateLimiter of src/gate.js: the fixed-window counter in front of  *)
(* both routes, one entry per client key in a Map that keeps insertion     *)
(* order.  Gate.tla instantiates it over the gate's own clock.             *)
(***************************************************************************)
EXTENDS Integers, Sequences, FiniteSets

CONSTANTS
    Key,        \* client addresses
    Limit,      \* requests granted per window
    WindowMs,   \* length of a window
    HardCap,    \* RL_HARD_CAP: entries kept at most
    MaxClock,   \* bound: the clock stops here
    MaxGrants   \* bound: requests granted to one key

ASSUME LimiterAssumption ==
    /\ Limit \in Nat \ {0} /\ WindowMs \in Nat \ {0} /\ HardCap \in Nat \ {0, 1}
    /\ MaxClock \in Nat /\ MaxGrants \in Nat

VARIABLES
    clock,    \* Date.now()
    hits,     \* the Map, in insertion order: [key, count, resetAt]
    granted,  \* history, per key: when it was let through since it was last forgotten
    turnedAway \* history, per key: when it was last refused, or Never

vars == <<clock, hits, granted, turnedAway>>

Never == -1

Entry == [key: Key, count: Nat \ {0}, resetAt: Nat]

Init ==
    /\ clock = 0 /\ hits = <<>>
    /\ granted = [k \in Key |-> <<>>]
    /\ turnedAway = [k \in Key |-> Never]

---------------------------------------------------------------------------
Has(h, k) == \E i \in DOMAIN h : h[i].key = k
At(h, k) == CHOOSE i \in DOMAIN h : h[i].key = k

running_Inclusive(e) == clock <= e.resetAt
\* The entry's window is still running.
running(e) == clock < e.resetAt

counting(k) == Has(hits, k) /\ running(hits[At(hits, k)])

spent_OffByOne(e) == e.count > Limit
spent(e) == e.count >= Limit

\* The numbers of a finite set, in increasing order.
inOrder(R) ==
    CHOOSE f \in [1..Cardinality(R) -> R] : \A i, j \in DOMAIN f : i < j => f[i] < f[j]

\* The sweep: the entries whose window is still running, in their order.
swept(h) ==
    LET at == inOrder({i \in DOMAIN h : running(h[i])})
    IN  [n \in DOMAIN at |-> h[at[n]]]

makeRoom_SweepOnly(h) == IF Len(h) < HardCap THEN h ELSE swept(h)
\* At the cap: expired entries go first; if that was not enough, the half inserted
\* earliest goes, rounded up.
makeRoom(h) ==
    IF Len(h) < HardCap THEN h
    ELSE LET kept == swept(h)
         IN  IF Len(kept) < HardCap THEN kept
             ELSE SubSeq(kept, (Len(kept) + 1) \div 2 + 1, Len(kept))

\* Map.set: a key that is there keeps its place.
put(h, e) == IF Has(h, e.key) THEN [h EXCEPT ![At(h, e.key)] = e] ELSE Append(h, e)

\* A key's new window, this request counted.
opened(k) == [key |-> k, count |-> 1, resetAt |-> clock + WindowMs]

Forgotten(k) == counting(k) /\ ~ Has(hits', k)

\* A request of key k is let through.
Grant(k) ==
    /\ \/ /\ counting(k) /\ ~ spent(hits[At(hits, k)])
          /\ hits' = [hits EXCEPT ![At(hits, k)].count = @ + 1]
       \/ /\ ~ counting(k)
          /\ hits' = put(makeRoom(hits), opened(k))
    /\ granted' = [j \in Key |-> IF j = k THEN Append(granted[k], clock)
                                 ELSE IF Forgotten(j) THEN <<>> ELSE granted[j]]
    /\ turnedAway' = [j \in Key |-> IF Forgotten(j) THEN Never ELSE turnedAway[j]]

\* A request of key k is turned away.
Refuse(k) ==
    /\ counting(k) /\ spent(hits[At(hits, k)])
    /\ turnedAway' = [turnedAway EXCEPT ![k] = clock]
    /\ UNCHANGED <<hits, granted>>

allow(k) ==
    /\ Len(granted[k]) < MaxGrants
    /\ Grant(k) \/ Refuse(k)
    /\ UNCHANGED clock

Tick == clock < MaxClock /\ clock' = clock + 1 /\ UNCHANGED <<hits, granted, turnedAway>>

Next == Tick \/ \E k \in Key : allow(k)

Spec == Init /\ [][Next]_vars

---------------------------------------------------------------------------
TypeOK ==
    /\ clock \in 0..MaxClock
    /\ hits \in Seq(Entry)
    /\ granted \in [Key -> Seq(0..MaxClock)]
    /\ turnedAway \in [Key -> {Never} \cup 0..MaxClock]

\* The table never holds more than the cap, nor a key twice, whatever the flood
\* (gate.js:88-90).
Bounded ==
    /\ Len(hits) <= HardCap
    /\ \A i, j \in DOMAIN hits : hits[i].key = hits[j].key => i = j

\* What a fixed window gives: however requests straddle its edges, a key that was not
\* forgotten gets through at most twice the limit in any span of one window.
TwoWindowsAtMost ==
    \A k \in Key : \A i \in DOMAIN granted[k] :
        i + 2 * Limit \in DOMAIN granted[k]
          => granted[k][i + 2 * Limit] - granted[k][i] > WindowMs

\* Only a key that did use up its limit within the last window is turned away; no
\* other client's traffic, no sweep and no eviction can cause it.
RefusedOnlyWhenSpent ==
    \A k \in Key : turnedAway[k] # Never =>
        LET late == {i \in DOMAIN granted[k] : granted[k][i] > turnedAway[k] - WindowMs
                                                 /\ granted[k][i] <= turnedAway[k]}
        IN  \E i \in late : i + Limit - 1 \in late

---------------------------------------------------------------------------
\* "this drops the least-recent keys (nearest to expiry anyway) and keeps recent,
\* likely-active counters intact" (gate.js:99-101): an entry that is dropped while its
\* window runs does not outlast one that is kept.
DropsNearestToExpiry ==
    [][\A i \in DOMAIN hits, j \in DOMAIN hits' :
          running(hits[i]) /\ ~ Has(hits', hits[i].key) /\ Has(hits, hits'[j].key)
            => hits[i].resetAt <= hits'[j].resetAt]_vars
=============================================================================
