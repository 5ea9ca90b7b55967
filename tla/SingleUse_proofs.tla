-------------------------- MODULE SingleUse_proofs --------------------------
(***************************************************************************)
(* What replay defence guarantees for any number of checks, replicas and   *)
(* nonces, any ttl, any timeout and any delay, with either store: what is  *)
(* in a store and when, what the callers of check() are told of it, and    *)
(* that the whole is a ledger of visits.                                   *)
(***************************************************************************)
EXTENDS SingleUseVisits, TLAPS

USE ForeignAssumption, ReplicaAssumption, SharedAssumption, NumberAssumption, BaseAssumption

\* A verdict of the constructors, and the pseudo-verdict of a rejection, are verdicts.
LEMMA VerdictsTyped ==
    /\ Fresh \in VerdictType /\ Threw \in VerdictType
    /\ sessionRefusal \in VerdictType
    /\ \A v \in VerdictType, fresh \in BOOLEAN : ruling(v, fresh) \in VerdictType
  BY DEF Fresh, Threw, sessionRefusal, ruling, Unanswerable, VerdictType, Reason

\* A check keeps its type through every change the actions make to one.
LEMMA CheckTyped ==
    ASSUME NEW k \in CheckType
    PROVE  /\ \A pc \in PC : [k EXCEPT !.pc = pc] \in CheckType
           /\ [k EXCEPT !.orphan = TRUE] \in CheckType
           /\ \A pc \in PC, r \in Replica, l, now \in Nat, t \in Nonce \cup {Foreign} :
                 [k EXCEPT !.pc = pc, !.home = r, !.life = l, !.transcript = t, !.now = now]
                    \in CheckType
           /\ \A pc \in PC, v \in BaseVerdict \cup {Pending} :
                 [k EXCEPT !.pc = pc, !.base = v] \in CheckType
           /\ \A pc \in PC, w \in VerdictType \cup {Pending} :
                 [k EXCEPT !.pc = pc, !.verdict = w] \in CheckType
           /\ \A pc \in PC, v \in BaseVerdict \cup {Pending}, w \in VerdictType \cup {Pending} :
                 [k EXCEPT !.pc = pc, !.base = v, !.verdict = w] \in CheckType
           /\ \A pc \in PC, fresh \in BOOLEAN, at \in Nat :
                 [k EXCEPT !.pc = pc, !.fresh = fresh, !.spentAt = at] \in CheckType
           /\ \A pc \in PC, v \in BaseVerdict, fresh \in BOOLEAN, at \in Nat, w \in VerdictType :
                 [k EXCEPT !.pc = pc, !.base = v, !.fresh = fresh, !.spentAt = at, !.verdict = w]
                    \in CheckType
  BY ZenonT(60) DEF CheckType

\* What one spend does to the store: the record of another nonce that is not past
\* stays, the new record is as long as asked unless it is already past.
LEMMA RecordedKeeps ==
    ASSUME NEW store \in [Nonce -> Nat \cup {Absent}], NEW n \in Nonce, NEW ttl \in Nat,
           clock \in Nat
    PROVE  /\ recorded(store, n, ttl) \in [Nonce -> Nat \cup {Absent}]
           /\ recorded(store, n, ttl)[n] = clock + ttl
           /\ \A m \in Nonce \ {n} : store[m] # Absent /\ store[m] >= clock
                                        => recorded(store, n, ttl)[m] = store[m]
  <1> DEFINE put == [store EXCEPT ![n] = clock + ttl]
  <1>1. put \in [Nonce -> Nat \cup {Absent}] /\ put[n] = clock + ttl
        /\ \A m \in Nonce \ {n} : put[m] = store[m]
    OBVIOUS
  <1>2. recorded(store, n, ttl) = put
        \/ recorded(store, n, ttl) = [m \in Nonce |-> IF put[m] < clock THEN Absent ELSE put[m]]
    BY DEF recorded, swept
  <1> HIDE DEF put
  <1>3. clock + ttl >= clock
    OBVIOUS
  <1>4. CASE recorded(store, n, ttl) = put
    BY <1>1, <1>4
  <1>5. CASE recorded(store, n, ttl) = [m \in Nonce |-> IF put[m] < clock THEN Absent ELSE put[m]]
    BY <1>1, <1>3, <1>5 DEF Absent
  <1> QED BY <1>2, <1>4, <1>5

---------------------------------------------------------------------------
(* Types and bookkeeping: neither is inductive alone, since the ttl handed *)
(* to the store is a number only because the challenge was alive.          *)

\* The bookkeeping of a check while the world moves on under it: its reading of the
\* clock only gets older, it spends only a challenge of ours that was alive at that
\* reading, it counts as fresh only after the store acted, and while it is verifying
\* its process has not been restarted.
Bookkeeping ==
    \A c \in Check :
        LET k == check[c]
        IN  /\ k.now <= clock /\ k.spentAt <= clock /\ k.life <= life[k.home]
            /\ k.transcript \in Nonce => expiresAt[k.transcript] # NotIssued
            /\ k.pc \in {"idle", "verifying", "spending"} => ~ k.fresh
            /\ k.fresh \/ k.pc = "spending"
                 => k.transcript \in Nonce /\ k.now <= expiresAt[k.transcript]
            /\ k.pc = "verifying" => k.life = life[k.home]
            /\ k.pc = "spending" => Shared

Core == TypeOK /\ Bookkeeping

LEMMA CoreInit == Init => Core
  <1> SUFFICES ASSUME Init PROVE Core
    OBVIOUS
  <1>1. PICK r0 \in Replica : r0 = CHOOSE r \in Replica : TRUE
    OBVIOUS
  <1>2. TypeOK
    BY <1>1 DEF Init, TypeOK, CheckType, PC, NotIssued, Absent, Stores, Pending
  <1>3. Bookkeeping
    BY <1>1 DEF Init, Bookkeeping
  <1> QED BY <1>2, <1>3 DEF Core

\* A spend of a live challenge leaves a well-typed store.
LEMMA SpendTyped ==
    ASSUME TypeOK, NEW c \in Check, NEW fresh \in BOOLEAN,
           check[c].transcript \in Nonce, expiresAt[check[c].transcript] # NotIssued,
           check[c].now <= expiresAt[check[c].transcript],
           spend(c, fresh)
    PROVE  seen' \in [Stores -> [Nonce -> Nat \cup {Absent}]]
  <1> DEFINE s == StoreOf(check[c].home)
             n == check[c].transcript
  <1>1. s \in Stores
    BY DEF TypeOK, CheckType, Stores, StoreOf
  <1>2. seen[s] \in [Nonce -> Nat \cup {Absent}]
    BY <1>1 DEF TypeOK
  <1>3. ttlMs(c) \in Nat /\ clock \in Nat
    BY DEF ttlMs, TypeOK, CheckType, NotIssued
  <1>4. recorded(seen[s], n, ttlMs(c)) \in [Nonce -> Nat \cup {Absent}]
    BY <1>2, <1>3, RecordedKeeps
  <1>5. seen' = seen \/ seen' = [seen EXCEPT ![s] = recorded(seen[s], n, ttlMs(c))]
    BY DEF spend
  <1> QED BY <1>1, <1>4, <1>5 DEF TypeOK

LEMMA CoreStep == Core /\ [Next]_vars => Core'
  <1> SUFFICES ASSUME Core, [Next]_vars PROVE Core'
    OBVIOUS
  <1> USE DEF Core
  <1>1. CASE Tick
    BY <1>1 DEF Tick, TypeOK, Bookkeeping, Stores, CheckType
  <1>2. CASE \E n \in Nonce : issueChallenge(n)
    <2>1. PICK n \in Nonce : issueChallenge(n)
      BY <1>2
    <2>2. expiryOf(clock) \in Nat
      BY DEF expiryOf, TypeOK
    <2>3. TypeOK'
      BY <2>1, <2>2 DEF issueChallenge, TypeOK, Stores
    <2>4. Bookkeeping'
      BY <2>1, <2>2 DEF issueChallenge, TypeOK, Bookkeeping, CheckType, NotIssued
    <2> QED BY <2>3, <2>4
  <1>3. CASE \E c \in Check, r \in Replica, t \in Nonce \cup {Foreign} : BeginCheck(c, r, t)
    <2>1. PICK c \in Check, r \in Replica, t \in Nonce \cup {Foreign} : BeginCheck(c, r, t)
      BY <1>3
    <2>2. TypeOK'
      <3>1. life[r] \in Nat /\ clock \in Nat /\ "verifying" \in PC
        BY DEF TypeOK, PC
      <3> QED BY <2>1, <3>1, CheckTyped DEF BeginCheck, TypeOK, Stores
    <2>3. Bookkeeping'
      BY <2>1 DEF BeginCheck, TypeOK, Bookkeeping, CheckType
    <2> QED BY <2>2, <2>3
  <1>4. CASE \E c \in Check : VerifyReturns(c)
    <2>1. PICK c \in Check, v \in BaseVerdict :
             PassThrough(c, v) \/ RefuseSession(c, v) \/ SpendInMemory(c, v) \/ SendSpend(c, v)
      BY <1>4 DEF VerifyReturns
    <2>2. v \in VerdictType
      OBVIOUS
    <2>3. CASE PassThrough(c, v) \/ RefuseSession(c, v)
      <3>1. PICK w \in VerdictType : Finish(c, v, w)
        BY <2>2, <2>3, VerdictsTyped DEF PassThrough, RefuseSession
      <3>2. check[c].pc = "verifying" /\ UNCHANGED <<clock, expiresAt, seen, life>>
        BY <2>3 DEF PassThrough, RefuseSession, Verified
      <3>3. TypeOK'
        <4>1. "done" \in PC
          BY DEF PC
        <4> QED BY <3>1, <3>2, <4>1, CheckTyped DEF Finish, TypeOK, Stores
      <3>4. Bookkeeping'
        BY <3>1, <3>2 DEF Finish, TypeOK, Bookkeeping, CheckType
      <3> QED BY <3>3, <3>4
    <2>4. CASE SendSpend(c, v)
      <3>1. TypeOK'
        <4>1. "spending" \in PC
          BY DEF PC
        <4> QED BY <2>4, <4>1, CheckTyped DEF SendSpend, TypeOK, Stores
      <3>2. Bookkeeping'
        BY <2>4 DEF SendSpend, Verified, answerable, recognized, expired, TypeOK,
                    Bookkeeping, CheckType
      <3> QED BY <3>1, <3>2
    <2>5. CASE SpendInMemory(c, v)
      <3>1. PICK fresh \in BOOLEAN :
               /\ spend(c, fresh)
               /\ check' = [check EXCEPT ![c] =
                    [@ EXCEPT !.pc = "done", !.base = v, !.fresh = fresh, !.spentAt = clock,
                              !.verdict = ruling(v, fresh)]]
        BY <2>5 DEF SpendInMemory
      <3>2. /\ check[c].pc = "verifying" /\ UNCHANGED <<clock, expiresAt, life>>
            /\ check[c].transcript \in Nonce
            /\ ~ (check[c].now > expiresAt[check[c].transcript])
        BY <2>5 DEF SpendInMemory, Verified, answerable, recognized, expired
      <3>3. check[c].now <= expiresAt[check[c].transcript]
        BY <3>2 DEF TypeOK, CheckType, NotIssued
      <3>4. seen' \in [Stores -> [Nonce -> Nat \cup {Absent}]]
        BY <3>1, <3>2, <3>3, SpendTyped DEF Bookkeeping
      <3>5. ruling(v, fresh) \in VerdictType
        BY <2>2, VerdictsTyped
      <3>6. TypeOK'
        <4>1. "done" \in PC /\ clock \in Nat
          BY DEF PC, TypeOK
        <4> QED BY <3>1, <3>2, <3>4, <3>5, <4>1, CheckTyped, ZenonT(60) DEF TypeOK, Stores
      <3>7. Bookkeeping'
        BY <3>1, <3>2, <3>3 DEF TypeOK, Bookkeeping, CheckType
      <3> QED BY <3>6, <3>7
    <2> QED BY <2>1, <2>3, <2>4, <2>5
  <1>5. CASE \E c \in Check : StoreAnswers(c)
    <2>1. PICK c \in Check : StoreSpends(c) \/ StoreFails(c) \/ AnswerSpend(c)
      BY <1>5 DEF StoreAnswers
    <2>2. CASE StoreSpends(c)
      <3>1. PICK fresh \in BOOLEAN :
               /\ spend(c, fresh)
               /\ check' = [check EXCEPT ![c] =
                    [@ EXCEPT !.pc = IF check[c].orphan THEN "lost" ELSE "spent",
                              !.fresh = fresh, !.spentAt = clock]]
        BY <2>2 DEF StoreSpends
      <3>2. check[c].pc = "spending" /\ UNCHANGED <<clock, expiresAt, life>>
        BY <2>2 DEF StoreSpends
      <3>3. seen' \in [Stores -> [Nonce -> Nat \cup {Absent}]]
        BY <3>1, <3>2, SpendTyped DEF Bookkeeping
      <3>4. TypeOK'
        <4>1. (IF check[c].orphan THEN "lost" ELSE "spent") \in PC /\ clock \in Nat
          BY DEF PC, TypeOK
        <4> QED BY <3>1, <3>2, <3>3, <4>1, CheckTyped DEF TypeOK, Stores
      <3>5. Bookkeeping'
        BY <3>1, <3>2 DEF TypeOK, Bookkeeping, CheckType
      <3> QED BY <3>4, <3>5
    <2>3. CASE StoreFails(c)
      <3>1. TypeOK'
        <4>1. {"lost", "done"} \subseteq PC /\ Threw \in VerdictType
          BY VerdictsTyped DEF PC
        <4> QED BY <2>3, <4>1, CheckTyped DEF StoreFails, TypeOK, Stores
      <3>2. Bookkeeping'
        BY <2>3 DEF StoreFails, TypeOK, Bookkeeping, CheckType
      <3> QED BY <3>1, <3>2
    <2>4. CASE AnswerSpend(c)
      <3>1. ruling(check[c].base, check[c].fresh) \in VerdictType \cup {Pending}
        BY VerdictsTyped DEF TypeOK, CheckType, ruling, VerdictType, Unanswerable, Reason
      <3>2. TypeOK'
        <4>1. "done" \in PC /\ check[c].base \in BaseVerdict \cup {Pending}
          BY DEF PC, TypeOK, CheckType
        <4> QED BY <2>4, <3>1, <4>1, CheckTyped DEF AnswerSpend, Finish, TypeOK, Stores
      <3>3. Bookkeeping'
        BY <2>4, <3>1 DEF AnswerSpend, Finish, TypeOK, Bookkeeping, CheckType
      <3> QED BY <3>2, <3>3
    <2> QED BY <2>1, <2>2, <2>3, <2>4
  <1>6. CASE \E r \in Replica : Restart(r)
    <2>1. PICK r \in Replica : Restart(r)
      BY <1>6
    <2>2. life' \in [Replica -> 0..MaxRestarts]
      BY <2>1 DEF Restart, TypeOK
    <2>3. seen' \in [Stores -> [Nonce -> Nat \cup {Absent}]]
      <3>1. CASE Shared
        BY <2>1, <3>1 DEF Restart, TypeOK
      <3>2. CASE ~ Shared
        <4>1. [n \in Nonce |-> Absent] \in [Nonce -> Nat \cup {Absent}]
          OBVIOUS
        <4>2. seen' = [seen EXCEPT ![r] = [n \in Nonce |-> Absent]]
          BY <2>1, <3>2 DEF Restart
        <4> QED BY <4>1, <4>2, <3>2 DEF TypeOK, Stores
      <3> QED BY <3>1, <3>2
    <2>4. check' \in [Check -> CheckType]
      <3>1. \A c \in Check : /\ [check[c] EXCEPT !.orphan = TRUE] \in CheckType
                            /\ [check[c] EXCEPT !.pc = "lost"] \in CheckType
                            /\ check[c] \in CheckType
        <4>1. "lost" \in PC
          BY DEF PC
        <4> QED BY <4>1, CheckTyped DEF TypeOK
      <3> QED BY <2>1, <3>1 DEF Restart
    <2>5. TypeOK'
      BY <2>1, <2>2, <2>3, <2>4 DEF Restart, TypeOK
    <2>6. Bookkeeping'
      BY <2>1 DEF Restart, TypeOK, Bookkeeping, CheckType
    <2> QED BY <2>5, <2>6
  <1>7. CASE UNCHANGED vars
    BY <1>7 DEF vars, TypeOK, Bookkeeping, Stores
  <1> QED BY <1>1, <1>2, <1>3, <1>4, <1>5, <1>6, <1>7 DEF Next

\* Every field of every check, every record of every store and every counter keeps its
\* type: no ttl is ever negative, no clock reading ever lost.
THEOREM TypeCorrect == Spec => []TypeOK
  <1>1. Core => TypeOK
    BY DEF Core
  <1> QED BY CoreInit, CoreStep, <1>1, PTL DEF Spec

---------------------------------------------------------------------------
(* Single use.  NoReplayWhileAlive is not inductive: that a second spend   *)
(* is refused needs the record of the first to be still there, and that a  *)
(* record is there needs its ttl not to have been cut by the age of the    *)
(* reading it was computed from -- RecordOutlivesNonce and Bookkeeping.    *)

IInv == Core /\ RecordOutlivesNonce /\ NoReplayWhileAlive

\* A check marked fresh presents an issued challenge of ours, in a store that exists.
LEMMA FreshFacts ==
    ASSUME Core, NEW d \in Check, check[d].fresh
    PROVE  /\ check[d].transcript \in Nonce
           /\ expiresAt[check[d].transcript] \in Nat
           /\ StoreOf(check[d].home) \in Stores
           /\ seen[StoreOf(check[d].home)] \in [Nonce -> Nat \cup {Absent}]
  <1>1. check[d] \in CheckType
    BY DEF Core, TypeOK
  <1>2. check[d].transcript \in Nonce /\ check[d].home \in Replica
    BY <1>1 DEF Core, Bookkeeping, CheckType
  <1>3. expiresAt[check[d].transcript] # NotIssued
    BY <1>2 DEF Core, Bookkeeping
  <1>4. StoreOf(check[d].home) \in Stores
    BY <1>2 DEF StoreOf, Stores
  <1> QED BY <1>2, <1>3, <1>4 DEF Core, TypeOK

\* A step that records nothing, marks no check fresh and moves no stamp that is set
\* disturbs neither part, whatever time passes in it.
LEMMA QuietStep ==
    ASSUME IInv, clock' \in Nat, clock' >= clock, seen' = seen, life' = life,
           \A n \in Nonce : expiresAt[n] # NotIssued => expiresAt'[n] = expiresAt[n],
           \A d \in Check : check'[d].fresh =>
               /\ check[d].fresh
               /\ check'[d].transcript = check[d].transcript /\ check'[d].home = check[d].home
               /\ check'[d].life = check[d].life /\ check'[d].spentAt = check[d].spentAt
    PROVE  RecordOutlivesNonce' /\ NoReplayWhileAlive'
  <1>1. clock \in Nat
    BY DEF IInv, Core, TypeOK
  <1>2. \A d \in Check : check'[d].fresh =>
           expiresAt'[check'[d].transcript] = expiresAt[check[d].transcript]
    BY FreshFacts DEF IInv, NotIssued
  <1>3. ASSUME NEW d \in Check, check'[d].fresh, Shared \/ life'[check'[d].home] = check'[d].life,
               clock' <= expiresAt'[check'[d].transcript]
        PROVE  seen'[StoreOf(check'[d].home)][check'[d].transcript]
                  >= expiresAt'[check'[d].transcript]
    <2>1. expiresAt[check[d].transcript] \in Nat
      BY <1>3, FreshFacts DEF IInv
    <2>2. clock <= expiresAt[check[d].transcript]
      BY <1>1, <1>2, <1>3, <2>1
    <2> QED BY <1>2, <1>3, <2>2 DEF IInv, RecordOutlivesNonce
  <1>4. RecordOutlivesNonce'
    BY <1>3 DEF RecordOutlivesNonce, StoreOf
  <1>5. NoReplayWhileAlive'
    BY <1>2 DEF IInv, NoReplayWhileAlive, SameVisit, SameStore, OnTime
  <1> QED BY <1>4, <1>5

\* The spend itself, by a check that has not spent and whose store is the one its
\* process still uses.
LEMMA SpendStep ==
    ASSUME IInv, NEW c \in Check, NEW fresh \in BOOLEAN, spend(c, fresh),
           ~ check[c].fresh, check[c].transcript \in Nonce,
           check[c].now <= expiresAt[check[c].transcript],
           Shared \/ check[c].life = life[check[c].home],
           UNCHANGED <<clock, expiresAt, life>>,
           \A d \in Check \ {c} : check'[d] = check[d],
           check'[c].fresh = fresh, check'[c].spentAt = clock,
           check'[c].transcript = check[c].transcript,
           check'[c].home = check[c].home, check'[c].life = check[c].life
    PROVE  RecordOutlivesNonce' /\ NoReplayWhileAlive'
  <1> DEFINE s == StoreOf(check[c].home)
             n == check[c].transcript
  <1>1. /\ clock \in Nat /\ check[c].now \in Nat /\ check[c].now <= clock
        /\ expiresAt[n] \in Nat /\ s \in Stores
        /\ seen[s] \in [Nonce -> Nat \cup {Absent}]
    <2>1. check[c] \in CheckType /\ check[c].now <= clock /\ expiresAt[n] # NotIssued
      BY DEF IInv, Core, TypeOK, Bookkeeping
    <2>2. check[c].home \in Replica /\ check[c].now \in Nat
      BY <2>1 DEF CheckType
    <2>3. s \in Stores
      BY <2>2 DEF StoreOf, Stores
    <2>4. /\ clock \in Nat /\ expiresAt[n] \in Nat
          /\ seen[s] \in [Nonce -> Nat \cup {Absent}]
      BY <2>1, <2>3 DEF IInv, Core, TypeOK
    <2> QED BY <2>1, <2>2, <2>3, <2>4
  <1>2. fresh = ~ live(seen[s], n)
        /\ seen' = IF fresh THEN [seen EXCEPT ![s] = recorded(seen[s], n, ttlMs(c))] ELSE seen
    BY DEF spend
  <1>3. ttlMs(c) \in Nat /\ clock + ttlMs(c) >= expiresAt[n]
    BY <1>1 DEF ttlMs
  <1>4. /\ recorded(seen[s], n, ttlMs(c))[n] >= expiresAt[n]
        /\ \A m \in Nonce \ {n} : seen[s][m] # Absent /\ seen[s][m] >= clock
              => recorded(seen[s], n, ttlMs(c))[m] = seen[s][m]
    BY <1>1, <1>3, RecordedKeeps
  \* Another check that spent this challenge, in this store, while it is alive: its
  \* record is live, so this spend is not fresh.
  <1>5. ASSUME NEW d \in Check, check[d].fresh, check[d].transcript = n,
               StoreOf(check[d].home) = s, Shared \/ life[check[d].home] = check[d].life,
               clock <= expiresAt[n]
        PROVE  ~ fresh
    <2>1. seen[s][n] >= expiresAt[n]
      BY <1>5 DEF IInv, RecordOutlivesNonce
    <2>2. seen[s][n] \in Nat \cup {Absent}
      BY <1>1
    <2>3. seen[s][n] # Absent /\ seen[s][n] >= clock
      BY <1>1, <1>5, <2>1, <2>2 DEF Absent
    <2> QED BY <1>2, <2>3 DEF live
  <1>6. ASSUME NEW d \in Check, check'[d].fresh, Shared \/ life'[check'[d].home] = check'[d].life,
               clock' <= expiresAt'[check'[d].transcript]
        PROVE  seen'[StoreOf(check'[d].home)][check'[d].transcript]
                  >= expiresAt'[check'[d].transcript]
    <2>1. CASE d = c
      BY <1>1, <1>2, <1>4, <1>6, <2>1 DEF IInv, Core, TypeOK
    <2>2. CASE d # c
      <3> DEFINE t == StoreOf(check[d].home)
                 m == check[d].transcript
      <3>1. /\ check'[d] = check[d] /\ check[d].fresh /\ clock <= expiresAt[m]
            /\ Shared \/ life[check[d].home] = check[d].life
        BY <1>6, <2>2
      <3>2. m \in Nonce /\ expiresAt[m] \in Nat /\ t \in Stores
            /\ seen[t] \in [Nonce -> Nat \cup {Absent}]
        BY <3>1, FreshFacts DEF IInv
      <3>3. seen[t][m] >= expiresAt[m]
        BY <3>1 DEF IInv, RecordOutlivesNonce
      <3>4. seen[t][m] \in Nat \cup {Absent}
        BY <3>2
      <3>5. seen[t][m] # Absent /\ seen[t][m] >= clock
        BY <1>1, <3>1, <3>2, <3>3, <3>4 DEF Absent
      <3>6. seen'[t][m] = seen[t][m]
        <4>1. CASE ~ fresh
          BY <1>2, <4>1
        <4>2. CASE fresh /\ t # s
          BY <1>1, <1>2, <3>2, <4>2 DEF IInv, Core, TypeOK
        <4>3. CASE fresh /\ t = s
          <5>1. m # n
            BY <1>5, <3>1, <4>3
          <5>2. recorded(seen[s], n, ttlMs(c))[m] = seen[s][m]
            BY <1>4, <3>2, <3>5, <4>3, <5>1
          <5> QED BY <1>1, <1>2, <4>3, <5>2 DEF IInv, Core, TypeOK
        <4> QED BY <4>1, <4>2, <4>3
      <3> QED BY <3>1, <3>3, <3>6
    <2> QED BY <2>1, <2>2
  <1>7. RecordOutlivesNonce'
    BY <1>6 DEF RecordOutlivesNonce, StoreOf
  \* The other check spent first, so it was on time then and this one is refused.
  <1>8. ASSUME NEW d \in Check \ {c}, check[d].fresh, check[d].transcript = n,
               SameStore(c, d), fresh, clock <= expiresAt[n]
        PROVE  FALSE
    <2>1. StoreOf(check[d].home) = s /\ (Shared \/ life[check[d].home] = check[d].life)
      BY <1>8 DEF SameStore, StoreOf
    <2> QED BY <1>5, <1>8, <2>1
  <1>9. NoReplayWhileAlive'
    <2> SUFFICES ASSUME NEW a \in Check, NEW b \in Check, a # b, SameVisit(a, b)',
                        OnTime(a)', OnTime(b)'
                 PROVE  FALSE
      BY DEF NoReplayWhileAlive
    <2>1. CASE a # c /\ b # c
      BY <2>1 DEF IInv, NoReplayWhileAlive, SameVisit, SameStore, OnTime
    <2>2. CASE a = c
      BY <1>8, <2>2 DEF SameVisit, SameStore, OnTime
    <2>3. CASE b = c
      BY <1>8, <2>3 DEF SameVisit, SameStore, OnTime
    <2> QED BY <2>1, <2>2, <2>3
  <1> QED BY <1>7, <1>9

\* A restart takes an in-memory store away, and with it every claim about what that
\* process had recorded: its checks belong to an earlier life.
LEMMA RestartStep ==
    ASSUME IInv, NEW r \in Replica, Restart(r)
    PROVE  RecordOutlivesNonce' /\ NoReplayWhileAlive'
  <1>1. /\ UNCHANGED <<clock, expiresAt>> /\ life' = [life EXCEPT ![r] = @ + 1]
        /\ seen' = IF Shared THEN seen ELSE [seen EXCEPT ![r] = [n \in Nonce |-> Absent]]
    BY DEF Restart
  <1>2. \A d \in Check : check[d] \in CheckType /\ check[d].life <= life[check[d].home]
    BY DEF IInv, Core, TypeOK, Bookkeeping
  <1>3. \A d \in Check :
          /\ check'[d].fresh = check[d].fresh /\ check'[d].home = check[d].home
          /\ check'[d].transcript = check[d].transcript
          /\ check'[d].life = check[d].life /\ check'[d].spentAt = check[d].spentAt
    BY <1>2 DEF Restart, CheckType
  <1>4. ASSUME NEW d \in Check, check'[d].fresh, Shared \/ life'[check'[d].home] = check'[d].life,
               clock' <= expiresAt'[check'[d].transcript]
        PROVE  seen'[StoreOf(check'[d].home)][check'[d].transcript]
                  >= expiresAt'[check'[d].transcript]
    <2>1. CASE Shared
      BY <1>1, <1>3, <1>4, <2>1 DEF IInv, RecordOutlivesNonce, StoreOf
    <2>2. CASE ~ Shared
      <3>1. check[d].home \in Replica /\ check[d].life \in Nat
        BY <1>2 DEF CheckType
      <3>2. life'[r] = life[r] + 1 /\ life[r] \in Nat
        BY <1>1 DEF IInv, Core, TypeOK
      <3>3. check[d].home # r
        <4>1. life'[check[d].home] = check[d].life
          BY <1>3, <1>4, <2>2
        <4>2. check[d].life <= life[check[d].home]
          BY <1>2
        <4> QED BY <3>1, <3>2, <4>1, <4>2
      <3>4. life'[check[d].home] = life[check[d].home]
            /\ seen'[check[d].home] = seen[check[d].home]
        BY <1>1, <2>2, <3>1, <3>3 DEF IInv, Core, TypeOK, Stores
      <3> QED BY <1>1, <1>3, <1>4, <2>2, <3>4 DEF IInv, RecordOutlivesNonce, StoreOf
    <2> QED BY <2>1, <2>2
  <1>5. RecordOutlivesNonce'
    BY <1>4 DEF RecordOutlivesNonce, StoreOf
  <1>6. NoReplayWhileAlive'
    BY <1>1, <1>3 DEF IInv, NoReplayWhileAlive, SameVisit, SameStore, OnTime
  <1> QED BY <1>5, <1>6

LEMMA IInvInit == Init => IInv
  <1> SUFFICES ASSUME Init PROVE IInv
    OBVIOUS
  <1>1. \A c \in Check : ~ check[c].fresh
    BY DEF Init
  <1> QED BY <1>1, CoreInit DEF IInv, RecordOutlivesNonce, NoReplayWhileAlive, OnTime

LEMMA IInvStep == IInv /\ [Next]_vars => IInv'
  <1> SUFFICES ASSUME IInv, [Next]_vars PROVE RecordOutlivesNonce' /\ NoReplayWhileAlive'
    BY CoreStep DEF IInv
  <1>1. /\ clock \in Nat /\ check \in [Check -> CheckType]
        /\ \A c \in Check : check[c] \in CheckType
    BY DEF IInv, Core, TypeOK
  <1>2. CASE Tick
    BY <1>1, <1>2, QuietStep DEF Tick
  <1>3. CASE \E n \in Nonce : issueChallenge(n)
    BY <1>1, <1>3, QuietStep DEF issueChallenge, IInv, Core, TypeOK
  <1>4. CASE \E c \in Check, r \in Replica, t \in Nonce \cup {Foreign} : BeginCheck(c, r, t)
    <2>1. PICK c \in Check, r \in Replica, t \in Nonce \cup {Foreign} : BeginCheck(c, r, t)
      BY <1>4
    <2>2. ~ check[c].fresh
      BY <2>1 DEF BeginCheck, IInv, Core, Bookkeeping
    <2>3. ~ check'[c].fresh /\ \A d \in Check \ {c} : check'[d] = check[d]
      BY <1>1, <2>1, <2>2 DEF BeginCheck, CheckType, IInv, Core, TypeOK
    <2> QED BY <1>1, <2>1, <2>3, QuietStep DEF BeginCheck
  <1>5. CASE \E c \in Check : VerifyReturns(c)
    <2>1. PICK c \in Check, v \in BaseVerdict :
             PassThrough(c, v) \/ RefuseSession(c, v) \/ SpendInMemory(c, v) \/ SendSpend(c, v)
      BY <1>5 DEF VerifyReturns
    <2>2. check[c].pc = "verifying" /\ ~ check[c].fresh /\ check[c].life = life[check[c].home]
      BY <2>1 DEF PassThrough, RefuseSession, SpendInMemory, SendSpend, Verified,
                  IInv, Core, Bookkeeping
    <2>3. CASE PassThrough(c, v) \/ RefuseSession(c, v) \/ SendSpend(c, v)
      <3>1. ~ check'[c].fresh /\ \A d \in Check \ {c} : check'[d] = check[d]
        <4>1. CASE SendSpend(c, v)
          BY <1>1, <2>2, <4>1 DEF SendSpend, CheckType
        <4>2. CASE PassThrough(c, v) \/ RefuseSession(c, v)
          <5>1. PICK w : Finish(c, v, w)
            BY <4>2 DEF PassThrough, RefuseSession
          <5> QED BY <1>1, <2>2, <5>1 DEF Finish, CheckType
        <4> QED BY <2>3, <4>1, <4>2
      <3> QED BY <1>1, <2>3, <3>1, QuietStep DEF PassThrough, RefuseSession, SendSpend
    <2>4. CASE SpendInMemory(c, v)
      <3>1. PICK fresh \in BOOLEAN :
               /\ spend(c, fresh)
               /\ check' = [check EXCEPT ![c] =
                    [@ EXCEPT !.pc = "done", !.base = v, !.fresh = fresh, !.spentAt = clock,
                              !.verdict = ruling(v, fresh)]]
        BY <2>4 DEF SpendInMemory
      <3>2. check[c].transcript \in Nonce /\ ~ (check[c].now > expiresAt[check[c].transcript])
            /\ UNCHANGED <<clock, expiresAt, life>>
        BY <2>4 DEF SpendInMemory, answerable, recognized, expired
      <3>3. check[c].now <= expiresAt[check[c].transcript]
        BY <1>1, <3>2 DEF IInv, Core, TypeOK, CheckType, NotIssued
      <3>4. /\ check'[c].fresh = fresh /\ check'[c].spentAt = clock
            /\ check'[c].transcript = check[c].transcript
            /\ check'[c].home = check[c].home /\ check'[c].life = check[c].life
            /\ \A d \in Check \ {c} : check'[d] = check[d]
        BY <1>1, <3>1 DEF CheckType, IInv, Core, TypeOK
      <3> QED BY <2>2, <3>1, <3>2, <3>3, <3>4, SpendStep
    <2> QED BY <2>1, <2>3, <2>4
  <1>6. CASE \E c \in Check : StoreAnswers(c)
    <2>1. PICK c \in Check : StoreSpends(c) \/ StoreFails(c) \/ AnswerSpend(c)
      BY <1>6 DEF StoreAnswers
    <2>2. CASE StoreSpends(c)
      <3>1. PICK fresh \in BOOLEAN :
               /\ spend(c, fresh)
               /\ check' = [check EXCEPT ![c] =
                    [@ EXCEPT !.pc = IF check[c].orphan THEN "lost" ELSE "spent",
                              !.fresh = fresh, !.spentAt = clock]]
        BY <2>2 DEF StoreSpends
      <3>2. check[c].pc = "spending" /\ UNCHANGED <<clock, expiresAt, life>>
        BY <2>2 DEF StoreSpends
      <3>3. /\ ~ check[c].fresh /\ Shared /\ check[c].transcript \in Nonce
            /\ check[c].now <= expiresAt[check[c].transcript]
        BY <3>2 DEF IInv, Core, Bookkeeping
      <3>4. /\ check'[c].fresh = fresh /\ check'[c].spentAt = clock
            /\ check'[c].transcript = check[c].transcript
            /\ check'[c].home = check[c].home /\ check'[c].life = check[c].life
            /\ \A d \in Check \ {c} : check'[d] = check[d]
        BY <1>1, <3>1 DEF CheckType, IInv, Core, TypeOK
      <3> QED BY <3>1, <3>2, <3>3, <3>4, SpendStep
    <2>3. CASE StoreFails(c) \/ AnswerSpend(c)
      <3>1. /\ check'[c].fresh = check[c].fresh /\ check'[c].spentAt = check[c].spentAt
            /\ check'[c].transcript = check[c].transcript
            /\ check'[c].home = check[c].home /\ check'[c].life = check[c].life
            /\ \A d \in Check \ {c} : check'[d] = check[d]
        <4>1. CASE StoreFails(c)
          BY <1>1, <4>1 DEF StoreFails, CheckType
        <4>2. CASE AnswerSpend(c)
          <5>1. PICK v, w : Finish(c, v, w)
            BY <4>2 DEF AnswerSpend
          <5> QED BY <1>1, <5>1 DEF Finish, CheckType
        <4> QED BY <2>3, <4>1, <4>2
      <3> QED BY <1>1, <2>3, <3>1, QuietStep DEF StoreFails, AnswerSpend
    <2> QED BY <2>1, <2>2, <2>3
  <1>7. CASE \E r \in Replica : Restart(r)
    BY <1>7, RestartStep
  <1>8. CASE UNCHANGED vars
    BY <1>1, <1>8, QuietStep DEF vars
  <1> QED BY <1>2, <1>3, <1>4, <1>5, <1>6, <1>7, <1>8 DEF Next

\* Whatever the delays, losses and restarts, the store calls at most one spend of a
\* nonce fresh while that nonce is alive.
THEOREM SingleUseHolds == Spec => []NoReplayWhileAlive
  <1>1. IInv => NoReplayWhileAlive
    BY DEF IInv
  <1> QED BY IInvInit, IInvStep, <1>1, PTL DEF Spec

\* The record of a spend never runs out, and is never swept, before the nonce expires.
THEOREM RecordsLastLongEnough == Spec => []RecordOutlivesNonce
  <1>1. IInv => RecordOutlivesNonce
    BY DEF IInv
  <1> QED BY IInvInit, IInvStep, <1>1, PTL DEF Spec

---------------------------------------------------------------------------
(* What callers of check() are told: whose challenge is used up, who is    *)
(* called a replay, what the gate may turn a verdict into, how late an     *)
(* accept may come.                                                        *)

\* d used challenge n in store s, by a proof that verified, begun before n expired.
Recorded(s, n, d) ==
    /\ check[d].fresh /\ check[d].transcript = n
    /\ StoreOf(check[d].home) = s
    /\ Shared \/ check[d].life = life[check[d].home]
    /\ check[d].base = Fresh /\ check[d].now <= expiresAt[n]

RecordHasSpender ==
    \A s \in Stores, n \in Nonce : seen[s][n] # Absent => \E d \in Check : Recorded(s, n, d)

\* c was refused, whether or not its caller knows already; d is the use it met.
Refused(c) ==
    \/ check[c].pc = "spent" /\ ~ check[c].fresh
    \/ check[c].verdict.reason = "replay_detected"

UsedBefore(c, d) ==
    d # c /\ check[d].fresh /\ SameVisit(c, d) /\ check[d].spentAt <= check[c].spentAt

RefusalHasUse == \A c \in Check : Refused(c) => \E d \in Check : UsedBefore(c, d)

\* What a check holds at each point of its way.
Told(k) ==
    /\ k.pc # "done" => k.verdict = Pending
    /\ k.pc \in {"spending", "spent"} \/ k.fresh => k.base = Fresh
    /\ k.pc = "done" => (k.verdict.over = "no" <=> k.base.over = "no")
    /\ k.pc = "done" /\ k.verdict.over = "yes" => k.base = Fresh /\ k.fresh

Truthful == \A c \in Check : Told(check[c])

\* OnlyProvenSpends, ReplayHasFirstUse, OnlyDowngrades and AcceptedSoonAfterExpiry
\* are not inductive: a record must be traced to its spender, a refusal to the use it
\* met before anyone is told, and a verdict to what classify() said while it waits.
Answers == RecordHasSpender /\ RefusalHasUse /\ Truthful /\ AcceptedSoonAfterExpiry

AInv == IInv /\ Answers

---------------------------------------------------------------------------
(* What one step does to the checks: one of them spends, or nothing is     *)
(* spent and what has been spent stays as it was.                          *)

\* Check c spends now, and the store answers fresh or not.
Spends(c, fresh) ==
    /\ spend(c, fresh)
    /\ ~ check[c].fresh /\ check[c].transcript \in Nonce
    /\ check[c].now <= expiresAt[check[c].transcript]
    /\ Shared \/ check[c].life = life[check[c].home]
    /\ ~ Shared => clock <= check[c].now + RequestTimeout
    /\ UNCHANGED <<clock, expiresAt, life>>
    /\ \A d \in Check \ {c} : check'[d] = check[d]
    /\ check'[c].fresh = fresh /\ check'[c].spentAt = clock /\ check'[c].base = Fresh
    /\ check'[c].transcript = check[c].transcript /\ check'[c].now = check[c].now
    /\ check'[c].home = check[c].home /\ check'[c].life = check[c].life
    /\ fresh => check'[c].verdict \in {Pending, Fresh}

\* A step at which check d spends nothing.
Keeps(d) ==
    /\ check'[d].fresh = check[d].fresh /\ check'[d].spentAt = check[d].spentAt
    /\ check[d].pc # "idle" =>
          /\ check'[d].transcript = check[d].transcript /\ check'[d].now = check[d].now
          /\ check'[d].home = check[d].home /\ check'[d].life = check[d].life
    /\ check[d].fresh => check'[d].base = check[d].base
    /\ Refused(d)' => Refused(d)

Moves ==
    /\ clock' \in Nat /\ clock' >= clock
    /\ \A n \in Nonce : expiresAt[n] # NotIssued => expiresAt'[n] = expiresAt[n]
    /\ \A d \in Check : Keeps(d)

LEMMA Verdicts ==
    /\ Fresh.over = "yes" /\ Fresh.reason = "verified" /\ Fresh # Threw /\ Fresh # Pending
    /\ Pending.over = "null" /\ Pending.reason = "pending"
    /\ Threw.over = "null" /\ Threw.reason = "threw"
    /\ sessionRefusal.over = "null" /\ sessionRefusal.reason = "session_unknown"
    /\ ruling(Fresh, TRUE) = Fresh
    /\ ruling(Fresh, FALSE).over = "null"
    /\ ruling(Fresh, FALSE).reason = "replay_detected"
  <1>1. /\ Fresh.over = "yes" /\ Fresh.reason = "verified"
        /\ Pending.over = "null" /\ Pending.reason = "pending"
        /\ Threw.over = "null" /\ Threw.reason = "threw"
    BY DEF Fresh, Threw, Pending
  <1>2. sessionRefusal.over = "null" /\ sessionRefusal.reason = "session_unknown"
    BY DEF sessionRefusal, Unanswerable
  <1>3. /\ ruling(Fresh, TRUE) = Fresh
        /\ ruling(Fresh, FALSE).over = "null"
        /\ ruling(Fresh, FALSE).reason = "replay_detected"
    BY DEF ruling, Unanswerable
  <1>4. Fresh # Threw /\ Fresh # Pending
    BY <1>1
  <1> QED BY <1>1, <1>2, <1>3, <1>4

\* A verdict of classify() that is not the accept is not a "yes" and not a replay.
LEMMA BaseFacts ==
    ASSUME NEW v \in BaseVerdict
    PROVE  v.reason # "replay_detected" /\ (v # Fresh => v.over # "yes")
  BY BaseAssumption, Zenon

\* Every step of the service of checks, as one of the two kinds.
LEMMA StepKinds ==
    ASSUME IInv, Truthful, [Next]_vars
    PROVE  (\E c \in Check, fresh \in BOOLEAN : Spends(c, fresh))
           \/ (Moves /\ (UNCHANGED <<seen, life>> \/ \E r \in Replica : Restart(r)))
  <1>1. /\ clock \in Nat /\ check \in [Check -> CheckType]
        /\ expiresAt \in [Nonce -> Nat \cup {NotIssued}]
        /\ \A c \in Check : check[c] \in CheckType
    BY DEF IInv, Core, TypeOK
  <1>a. \A c \in Check : check[c].pc \in {"idle", "verifying", "spending"} => ~ check[c].fresh
    BY DEF IInv, Core, Bookkeeping
  <1>2. CASE Tick
    BY <1>1, <1>2 DEF Tick, Moves, Keeps, Refused
  <1>3. CASE \E n \in Nonce : issueChallenge(n)
    BY <1>1, <1>3 DEF issueChallenge, Moves, Keeps, Refused
  <1>4. CASE \E c \in Check, r \in Replica, t \in Nonce \cup {Foreign} : BeginCheck(c, r, t)
    <2>1. PICK c \in Check, r \in Replica, t \in Nonce \cup {Foreign} : BeginCheck(c, r, t)
      BY <1>4
    <2>2. /\ UNCHANGED <<clock, expiresAt, seen, life>> /\ check[c].pc = "idle"
          /\ \A d \in Check \ {c} : check'[d] = check[d]
          /\ check'[c].pc = "verifying"
          /\ check'[c].fresh = check[c].fresh /\ check'[c].spentAt = check[c].spentAt
          /\ check'[c].base = check[c].base /\ check'[c].verdict = check[c].verdict
      BY <1>1, <2>1 DEF BeginCheck, CheckType
    <2>3. Keeps(c)
      BY <2>2 DEF Keeps, Refused
    <2>4. \A d \in Check \ {c} : Keeps(d)
      BY <2>2 DEF Keeps, Refused
    <2> QED BY <1>1, <2>2, <2>3, <2>4 DEF Moves
  <1>5. CASE \E c \in Check : VerifyReturns(c)
    <2>1. PICK c \in Check, v \in BaseVerdict :
             PassThrough(c, v) \/ RefuseSession(c, v) \/ SpendInMemory(c, v) \/ SendSpend(c, v)
      BY <1>5 DEF VerifyReturns
    <2>2. check[c].pc = "verifying" /\ ~ check[c].fresh /\ check[c].verdict = Pending
      BY <1>a, <2>1 DEF PassThrough, RefuseSession, SpendInMemory, SendSpend, Verified,
                        Truthful, Told
    <2>3. CASE PassThrough(c, v) \/ RefuseSession(c, v) \/ SendSpend(c, v)
      <3>1. UNCHANGED <<clock, expiresAt, seen, life>>
        BY <2>3 DEF PassThrough, RefuseSession, SendSpend
      <3>2. /\ \A d \in Check \ {c} : check'[d] = check[d]
            /\ check'[c].fresh = check[c].fresh /\ check'[c].spentAt = check[c].spentAt
            /\ check'[c].transcript = check[c].transcript /\ check'[c].now = check[c].now
            /\ check'[c].home = check[c].home /\ check'[c].life = check[c].life
            /\ check'[c].pc # "spent" /\ check'[c].verdict.reason # "replay_detected"
        <4>1. CASE SendSpend(c, v)
          BY <1>1, <2>2, <4>1, Verdicts DEF SendSpend, CheckType
        <4>2. CASE PassThrough(c, v) \/ RefuseSession(c, v)
          <5>1. PICK w : Finish(c, v, w) /\ w.reason # "replay_detected"
            BY <4>2, Verdicts, BaseFacts DEF PassThrough, RefuseSession
          <5> QED BY <1>1, <2>2, <5>1 DEF Finish, CheckType
        <4> QED BY <2>3, <4>1, <4>2
      <3>3. Keeps(c)
        BY <2>2, <3>2 DEF Keeps, Refused
      <3>4. \A d \in Check \ {c} : Keeps(d)
        BY <3>2 DEF Keeps, Refused
      <3> QED BY <1>1, <3>1, <3>3, <3>4 DEF Moves
    <2>4. CASE SpendInMemory(c, v)
      <3>1. PICK fresh \in BOOLEAN :
               /\ spend(c, fresh)
               /\ check' = [check EXCEPT ![c] =
                    [@ EXCEPT !.pc = "done", !.base = v, !.fresh = fresh, !.spentAt = clock,
                              !.verdict = ruling(v, fresh)]]
        BY <2>4 DEF SpendInMemory
      <3>2. /\ check[c].transcript \in Nonce /\ v = Fresh /\ ~ Shared
            /\ ~ (check[c].now > expiresAt[check[c].transcript])
            /\ UNCHANGED <<clock, expiresAt, life>>
            /\ clock <= check[c].now + RequestTimeout
        BY <2>4 DEF SpendInMemory, Verified, answerable, recognized, expired, Fresh
      <3>3. check[c].now <= expiresAt[check[c].transcript] /\ check[c].life = life[check[c].home]
        BY <1>1, <2>2, <3>2 DEF IInv, Core, Bookkeeping, CheckType, NotIssued
      <3>4. /\ check'[c].fresh = fresh /\ check'[c].spentAt = clock /\ check'[c].base = v
            /\ check'[c].transcript = check[c].transcript /\ check'[c].now = check[c].now
            /\ check'[c].home = check[c].home /\ check'[c].life = check[c].life
            /\ check'[c].verdict = ruling(v, fresh)
            /\ \A d \in Check \ {c} : check'[d] = check[d]
        BY <1>1, <3>1 DEF CheckType
      <3>5. fresh => check'[c].verdict \in {Pending, Fresh}
        BY <3>2, <3>4 DEF ruling
      <3> QED BY <2>2, <3>1, <3>2, <3>3, <3>4, <3>5 DEF Spends
    <2> QED BY <2>1, <2>3, <2>4
  <1>6. CASE \E c \in Check : StoreAnswers(c)
    <2>1. PICK c \in Check : StoreSpends(c) \/ StoreFails(c) \/ AnswerSpend(c)
      BY <1>6 DEF StoreAnswers
    <2>2. CASE StoreSpends(c)
      <3>1. PICK fresh \in BOOLEAN :
               /\ spend(c, fresh)
               /\ check' = [check EXCEPT ![c] =
                    [@ EXCEPT !.pc = IF check[c].orphan THEN "lost" ELSE "spent",
                              !.fresh = fresh, !.spentAt = clock]]
        BY <2>2 DEF StoreSpends
      <3>2. check[c].pc = "spending" /\ UNCHANGED <<clock, expiresAt, life>>
        BY <2>2 DEF StoreSpends
      <3>3. /\ ~ check[c].fresh /\ Shared /\ check[c].transcript \in Nonce
            /\ check[c].now <= expiresAt[check[c].transcript]
            /\ check[c].verdict = Pending /\ check[c].base = Fresh
        BY <3>2 DEF IInv, Core, Bookkeeping, Truthful, Told
      <3>4. /\ check'[c].fresh = fresh /\ check'[c].spentAt = clock
            /\ check'[c].base = check[c].base /\ check'[c].verdict = check[c].verdict
            /\ check'[c].transcript = check[c].transcript /\ check'[c].now = check[c].now
            /\ check'[c].home = check[c].home /\ check'[c].life = check[c].life
            /\ \A d \in Check \ {c} : check'[d] = check[d]
        BY <1>1, <3>1 DEF CheckType
      <3> QED BY <3>1, <3>2, <3>3, <3>4 DEF Spends
    <2>3. CASE StoreFails(c) \/ AnswerSpend(c)
      <3>1. UNCHANGED <<clock, expiresAt, seen, life>> /\ check[c].pc \in {"spending", "spent"}
        BY <2>3 DEF StoreFails, AnswerSpend
      <3>2. /\ check'[c].fresh = check[c].fresh /\ check'[c].spentAt = check[c].spentAt
            /\ check'[c].transcript = check[c].transcript /\ check'[c].now = check[c].now
            /\ check'[c].home = check[c].home /\ check'[c].life = check[c].life
            /\ check'[c].base = check[c].base
            /\ \A d \in Check \ {c} : check'[d] = check[d]
            /\ check'[c].pc # "spent"
        <4>1. CASE StoreFails(c)
          BY <1>1, <4>1 DEF StoreFails, CheckType
        <4>2. CASE AnswerSpend(c)
          <5>1. PICK w : Finish(c, check[c].base, w)
            BY <4>2 DEF AnswerSpend
          <5> QED BY <1>1, <5>1 DEF Finish, CheckType
        <4> QED BY <2>3, <4>1, <4>2
      <3>3. check'[c].verdict.reason = "replay_detected" => Refused(c)
        <4>1. CASE StoreFails(c)
          BY <1>1, <4>1, Verdicts DEF StoreFails, CheckType, Refused
        <4>2. CASE AnswerSpend(c)
          <5>1. check[c].pc = "spent" /\ check[c].base = Fresh
            BY <4>2 DEF AnswerSpend, Truthful, Told
          <5>2. check'[c].verdict = ruling(check[c].base, check[c].fresh)
            BY <1>1, <4>2 DEF AnswerSpend, Finish, CheckType
          <5>3. check[c].fresh => check'[c].verdict = Fresh
            BY <5>1, <5>2 DEF ruling
          <5> QED BY <5>1, <5>3, Verdicts DEF Refused
        <4> QED BY <2>3, <4>1, <4>2
      <3>4. Keeps(c)
        BY <3>2, <3>3 DEF Keeps, Refused
      <3>5. \A d \in Check \ {c} : Keeps(d)
        BY <3>2 DEF Keeps, Refused
      <3> QED BY <1>1, <3>1, <3>4, <3>5 DEF Moves
    <2> QED BY <2>1, <2>2, <2>3
  <1>7. CASE \E r \in Replica : Restart(r)
    <2>1. PICK r \in Replica : Restart(r)
      BY <1>7
    <2>2. UNCHANGED <<clock, expiresAt>>
      BY <2>1 DEF Restart
    <2>3. \A d \in Check :
            /\ check'[d].fresh = check[d].fresh /\ check'[d].spentAt = check[d].spentAt
            /\ check'[d].transcript = check[d].transcript /\ check'[d].now = check[d].now
            /\ check'[d].home = check[d].home /\ check'[d].life = check[d].life
            /\ check'[d].base = check[d].base /\ check'[d].verdict = check[d].verdict
            /\ check'[d].pc \in {check[d].pc, "lost"}
      BY <1>1, <2>1 DEF Restart, CheckType
    <2>4. \A d \in Check : Keeps(d)
      BY <2>3 DEF Keeps, Refused
    <2> QED BY <1>1, <1>7, <2>2, <2>4 DEF Moves
  <1>8. CASE UNCHANGED vars
    BY <1>1, <1>8 DEF vars, Moves, Keeps, Refused
  <1> QED BY <1>2, <1>3, <1>4, <1>5, <1>6, <1>7, <1>8 DEF Next

---------------------------------------------------------------------------
(* The four parts of Answers, each through a step of either kind.          *)

\* The challenge of a check that spent is stamped for good.
LEMMA StampStays ==
    ASSUME IInv, Moves, NEW d \in Check, check[d].fresh
    PROVE  /\ expiresAt'[check[d].transcript] = expiresAt[check[d].transcript]
           /\ check'[d].fresh /\ check'[d].spentAt = check[d].spentAt
           /\ check'[d].base = check[d].base
           /\ check'[d].transcript = check[d].transcript /\ check'[d].now = check[d].now
           /\ check'[d].home = check[d].home /\ check'[d].life = check[d].life
  <1>1. check[d].transcript \in Nonce /\ expiresAt[check[d].transcript] # NotIssued
    BY FreshFacts DEF IInv, NotIssued
  <1>2. check[d].pc # "idle" /\ Keeps(d)
    BY DEF IInv, Core, Bookkeeping, Moves
  <1> QED BY <1>1, <1>2 DEF Moves, Keeps

\* A record that is there after a spend is the new one or was there before.
LEMMA RecordedFrom ==
    ASSUME NEW store \in [Nonce -> Nat \cup {Absent}], NEW n \in Nonce, NEW ttl,
           NEW m \in Nonce, recorded(store, n, ttl)[m] # Absent
    PROVE  m = n \/ store[m] # Absent
  <1> DEFINE put == [store EXCEPT ![n] = clock + ttl]
  <1>1. \A k \in Nonce : k # n => put[k] = store[k]
    OBVIOUS
  <1>2. recorded(store, n, ttl) = put
        \/ recorded(store, n, ttl) = [k \in Nonce |-> IF put[k] < clock THEN Absent ELSE put[k]]
    BY DEF recorded, swept
  <1> HIDE DEF put
  <1> QED BY <1>1, <1>2

LEMMA SpenderStep ==
    ASSUME AInv, [Next]_vars
    PROVE  RecordHasSpender'
  <1>1. /\ seen \in [Stores -> [Nonce -> Nat \cup {Absent}]]
        /\ life \in [Replica -> 0..MaxRestarts]
        /\ \A c \in Check : check[c] \in CheckType
    BY DEF AInv, IInv, Core, TypeOK
  <1> SUFFICES ASSUME NEW s \in Stores, NEW n \in Nonce, seen'[s][n] # Absent
               PROVE  \E d \in Check : Recorded(s, n, d)'
    BY DEF RecordHasSpender, Stores
  <1>2. ASSUME NEW c \in Check, NEW fresh \in BOOLEAN, Spends(c, fresh)
        PROVE  \E d \in Check : Recorded(s, n, d)'
    <2>1. CASE seen[s][n] # Absent
      <3>1. PICK d \in Check : Recorded(s, n, d)
        BY <2>1 DEF AInv, Answers, RecordHasSpender
      <3>2. check'[d] = check[d] /\ UNCHANGED <<expiresAt, life>>
        BY <1>2, <3>1 DEF Recorded, Spends
      <3>3. Recorded(s, n, d)'
        BY <3>1, <3>2 DEF Recorded, StoreOf
      <3> QED BY <3>3
    <2>2. CASE seen[s][n] = Absent
      <3>1. seen' = [seen EXCEPT ![StoreOf(check[c].home)] =
                        recorded(seen[StoreOf(check[c].home)], check[c].transcript, ttlMs(c))]
            /\ fresh
        BY <1>2, <2>2 DEF Spends, spend
      <3>2. s = StoreOf(check[c].home)
        BY <1>1, <2>2, <3>1
      <3>3. seen'[s] = recorded(seen[s], check[c].transcript, ttlMs(c))
        BY <1>1, <3>1, <3>2
      <3>4. seen[s] \in [Nonce -> Nat \cup {Absent}] /\ check[c].transcript \in Nonce
        BY <1>1, <1>2 DEF Spends
      <3>5. n = check[c].transcript
        BY <2>2, <3>3, <3>4, RecordedFrom
      <3>6. Recorded(s, n, c)'
        BY <1>2, <3>1, <3>2, <3>5 DEF Spends, Recorded, StoreOf
      <3> QED BY <3>6
    <2> QED BY <2>1, <2>2
  <1>3. ASSUME Moves, UNCHANGED <<seen, life>>
        PROVE  \E d \in Check : Recorded(s, n, d)'
    <2>1. PICK d \in Check : Recorded(s, n, d)
      BY <1>3 DEF AInv, Answers, RecordHasSpender
    <2>2. Recorded(s, n, d)'
      BY <1>3, <2>1, StampStays DEF Recorded, StoreOf, AInv
    <2> QED BY <2>2
  <1>4. ASSUME Moves, NEW r \in Replica, Restart(r)
        PROVE  \E d \in Check : Recorded(s, n, d)'
    <2>1. seen[s][n] # Absent /\ (Shared \/ s # r)
      BY <1>1, <1>4 DEF Restart, Stores
    <2>2. PICK d \in Check : Recorded(s, n, d)
      BY <2>1 DEF AInv, Answers, RecordHasSpender
    <2>3. Shared \/ life'[check[d].home] = life[check[d].home]
      BY <1>1, <1>4, <2>1, <2>2 DEF Recorded, StoreOf, Restart
    <2>4. Recorded(s, n, d)'
      BY <1>4, <2>2, <2>3, StampStays DEF Recorded, StoreOf, AInv
    <2> QED BY <2>4
  <1> QED BY <1>2, <1>3, <1>4, StepKinds DEF AInv, Answers

LEMMA RefusalStep ==
    ASSUME AInv, [Next]_vars
    PROVE  RefusalHasUse'
  <1>1. /\ seen \in [Stores -> [Nonce -> Nat \cup {Absent}]]
        /\ \A c \in Check : check[c] \in CheckType
    BY DEF AInv, IInv, Core, TypeOK
  <1> SUFFICES ASSUME NEW c \in Check, Refused(c)'
               PROVE  \E d \in Check : UsedBefore(c, d)'
    BY DEF RefusalHasUse
  <1>2. ASSUME NEW a \in Check, NEW fresh \in BOOLEAN, Spends(a, fresh)
        PROVE  \E d \in Check : UsedBefore(c, d)'
    <2>1. CASE c # a
      <3>1. check'[c] = check[c] /\ Refused(c)
        BY <1>2, <2>1 DEF Spends, Refused
      <3>2. PICK d \in Check : UsedBefore(c, d)
        BY <3>1 DEF AInv, Answers, RefusalHasUse
      <3>3. check'[d] = check[d]
        BY <1>2, <3>2 DEF Spends, UsedBefore
      <3>4. UsedBefore(c, d)'
        BY <3>1, <3>2, <3>3 DEF UsedBefore, SameVisit, SameStore
      <3> QED BY <3>4
    <2>2. CASE c = a
      <3> DEFINE s == StoreOf(check[c].home)
                 n == check[c].transcript
      <3>1. ~ fresh
        BY <1>2, <2>2, Verdicts DEF Spends, Refused
      <3>2. s \in Stores /\ n \in Nonce
        BY <1>1, <1>2, <2>2 DEF Spends, Stores, StoreOf, CheckType
      <3>3. seen[s][n] # Absent
        BY <1>2, <2>2, <3>1 DEF Spends, spend, live
      <3>4. PICK d \in Check : Recorded(s, n, d)
        BY <3>2, <3>3 DEF AInv, Answers, RecordHasSpender
      <3>5. d # c /\ check'[d] = check[d] /\ check[d].spentAt <= clock
        BY <1>2, <2>2, <3>4 DEF Spends, Recorded, AInv, IInv, Core, Bookkeeping
      <3>6. SameStore(c, d)
        BY <1>2, <2>2, <3>4 DEF Spends, Recorded, SameStore, StoreOf
      <3>7. UsedBefore(c, d)'
        BY <1>2, <2>2, <3>4, <3>5, <3>6 DEF Spends, Recorded, UsedBefore, SameVisit, SameStore
      <3> QED BY <3>7
    <2> QED BY <2>1, <2>2
  <1>3. ASSUME Moves
        PROVE  \E d \in Check : UsedBefore(c, d)'
    <2>1. Refused(c) /\ Keeps(c)
      BY <1>3 DEF Moves, Keeps
    <2>2. check[c].pc # "idle"
      BY <2>1, Verdicts DEF Refused, AInv, Answers, Truthful, Told
    <2>3. PICK d \in Check : UsedBefore(c, d)
      BY <2>1 DEF AInv, Answers, RefusalHasUse
    <2>4. UsedBefore(c, d)'
      BY <1>3, <2>1, <2>2, <2>3, StampStays
         DEF UsedBefore, SameVisit, SameStore, Keeps, AInv
    <2> QED BY <2>4
  <1> QED BY <1>2, <1>3, StepKinds DEF AInv, Answers

LEMMA AddTimeout ==
    ASSUME NEW t \in Nat, NEW now \in Nat, NEW e \in Int, now <= e, t <= now + RequestTimeout
    PROVE  t <= e + RequestTimeout
  <1>1. RequestTimeout \in Nat
    BY NumberAssumption
  <1> QED BY <1>1

LEMMA SoonStep ==
    ASSUME AInv, [Next]_vars
    PROVE  AcceptedSoonAfterExpiry'
  <1>1. /\ clock \in Nat /\ expiresAt \in [Nonce -> Nat \cup {NotIssued}]
        /\ \A c \in Check : check[c] \in CheckType
    BY DEF AInv, IInv, Core, TypeOK
  <1> SUFFICES ASSUME NEW c \in Check, ~ Shared, check'[c].fresh
               PROVE  check'[c].spentAt <= expiresAt'[check'[c].transcript] + RequestTimeout
    BY DEF AcceptedSoonAfterExpiry
  <1>2. check[c].fresh
        => check[c].spentAt <= expiresAt[check[c].transcript] + RequestTimeout
    BY DEF AInv, Answers, AcceptedSoonAfterExpiry
  <1>3. ASSUME NEW a \in Check, NEW fresh \in BOOLEAN, Spends(a, fresh)
        PROVE  check'[c].spentAt <= expiresAt'[check'[c].transcript] + RequestTimeout
    <2>1. CASE c # a
      BY <1>2, <1>3, <2>1 DEF Spends
    <2>2. CASE c = a
      <3>1. /\ check[c].now \in Nat /\ expiresAt[check[c].transcript] \in Nat \cup {NotIssued}
            /\ check[c].now <= expiresAt[check[c].transcript]
            /\ clock <= check[c].now + RequestTimeout
        BY <1>1, <1>3, <2>2 DEF Spends, CheckType
      <3>2. clock <= expiresAt[check[c].transcript] + RequestTimeout
        BY <1>1, <3>1, AddTimeout DEF NotIssued
      <3> QED BY <1>3, <2>2, <3>2 DEF Spends
    <2> QED BY <2>1, <2>2
  <1>4. ASSUME Moves
        PROVE  check'[c].spentAt <= expiresAt'[check'[c].transcript] + RequestTimeout
    BY <1>2, <1>4, StampStays DEF Moves, Keeps, AInv
  <1> QED BY <1>3, <1>4, StepKinds DEF AInv, Answers

\* A check is told the truth at each point of its way: one step changes at most the
\* check it is about, and that as classify() and the store said.
LEMMA TruthfulStep ==
    ASSUME IInv, Truthful, [Next]_vars
    PROVE  Truthful'
  <1>1. check \in [Check -> CheckType] /\ \A c \in Check : check[c] \in CheckType
    BY DEF IInv, Core, TypeOK
  <1>a. \A c \in Check : check[c].pc \in {"idle", "verifying", "spending"} => ~ check[c].fresh
    BY DEF IInv, Core, Bookkeeping
  <1>b. \A c \in Check : Told(check[c])
    BY DEF Truthful
  <1>2. ASSUME NEW c \in Check, Told(check'[c]), \A d \in Check \ {c} : check'[d] = check[d]
        PROVE  Truthful'
    BY <1>b, <1>2 DEF Truthful
  <1>3. CASE UNCHANGED check
    BY <1>b, <1>3 DEF Truthful
  <1>4. CASE \E c \in Check, r \in Replica, t \in Nonce \cup {Foreign} : BeginCheck(c, r, t)
    <2>1. PICK c \in Check, r \in Replica, t \in Nonce \cup {Foreign} : BeginCheck(c, r, t)
      BY <1>4
    <2>2. /\ check'[c].pc = "verifying" /\ ~ check'[c].fresh /\ check'[c].verdict = Pending
          /\ \A d \in Check \ {c} : check'[d] = check[d]
      BY <1>1, <1>a, <1>b, <2>1 DEF BeginCheck, CheckType, Told
    <2>3. Told(check'[c])
      BY <2>2 DEF Told
    <2> QED BY <1>2, <2>2, <2>3
  <1>5. CASE \E c \in Check : VerifyReturns(c)
    <2>1. PICK c \in Check, v \in BaseVerdict :
             PassThrough(c, v) \/ RefuseSession(c, v) \/ SpendInMemory(c, v) \/ SendSpend(c, v)
      BY <1>5 DEF VerifyReturns
    <2>2. ~ check[c].fresh /\ check[c].verdict = Pending
      BY <1>a, <1>b, <2>1 DEF PassThrough, RefuseSession, SpendInMemory, SendSpend, Verified, Told
    <2>3. CASE PassThrough(c, v)
      <3>1. /\ check'[c].pc = "done" /\ check'[c].base = v /\ check'[c].verdict = v
            /\ check'[c].fresh = check[c].fresh
            /\ \A d \in Check \ {c} : check'[d] = check[d]
        BY <1>1, <2>3 DEF PassThrough, Finish, CheckType
      <3>2. v.over # "yes"
        BY <2>3, BaseFacts DEF PassThrough
      <3>3. Told(check'[c])
        BY <2>2, <3>1, <3>2 DEF Told
      <3> QED BY <1>2, <3>1, <3>3
    <2>4. CASE RefuseSession(c, v)
      <3>1. /\ check'[c].pc = "done" /\ check'[c].base = Fresh
            /\ check'[c].verdict = sessionRefusal
            /\ check'[c].fresh = check[c].fresh
            /\ \A d \in Check \ {c} : check'[d] = check[d]
        BY <1>1, <2>4 DEF RefuseSession, Finish, CheckType
      <3>2. Told(check'[c])
        BY <2>2, <3>1, Verdicts DEF Told
      <3> QED BY <1>2, <3>1, <3>2
    <2>5. CASE SpendInMemory(c, v)
      <3>1. PICK fresh \in BOOLEAN :
               check' = [check EXCEPT ![c] =
                    [@ EXCEPT !.pc = "done", !.base = v, !.fresh = fresh, !.spentAt = clock,
                              !.verdict = ruling(v, fresh)]]
        BY <2>5 DEF SpendInMemory
      <3>2. /\ check'[c].pc = "done" /\ check'[c].base = Fresh /\ check'[c].fresh = fresh
            /\ check'[c].verdict = ruling(Fresh, fresh)
            /\ \A d \in Check \ {c} : check'[d] = check[d]
        BY <1>1, <2>5, <3>1 DEF SpendInMemory, CheckType
      <3>3. Told(check'[c])
        BY <3>2, Verdicts DEF Told
      <3> QED BY <1>2, <3>2, <3>3
    <2>6. CASE SendSpend(c, v)
      <3>1. /\ check'[c].pc = "spending" /\ check'[c].base = Fresh
            /\ check'[c].verdict = Pending
            /\ \A d \in Check \ {c} : check'[d] = check[d]
        BY <1>1, <2>2, <2>6 DEF SendSpend, CheckType
      <3>2. Told(check'[c])
        BY <3>1 DEF Told
      <3> QED BY <1>2, <3>1, <3>2
    <2> QED BY <2>1, <2>3, <2>4, <2>5, <2>6
  <1>6. CASE \E c \in Check : StoreAnswers(c)
    <2>1. PICK c \in Check : StoreSpends(c) \/ StoreFails(c) \/ AnswerSpend(c)
      BY <1>6 DEF StoreAnswers
    <2>2. check[c].base = Fresh /\ check[c].verdict = Pending
      BY <1>b, <2>1 DEF StoreSpends, StoreFails, AnswerSpend, Told
    <2>3. CASE StoreSpends(c)
      <3>1. PICK fresh \in BOOLEAN :
               check' = [check EXCEPT ![c] =
                    [@ EXCEPT !.pc = IF check[c].orphan THEN "lost" ELSE "spent",
                              !.fresh = fresh, !.spentAt = clock]]
        BY <2>3 DEF StoreSpends
      <3>2. /\ check'[c].pc # "done" /\ check'[c].base = Fresh /\ check'[c].verdict = Pending
            /\ \A d \in Check \ {c} : check'[d] = check[d]
        BY <1>1, <2>2, <3>1 DEF CheckType
      <3>3. Told(check'[c])
        BY <3>2 DEF Told
      <3> QED BY <1>2, <3>2, <3>3
    <2>4. CASE StoreFails(c)
      <3>1. /\ check'[c].base = Fresh
            /\ \/ check'[c].pc = "lost" /\ check'[c].verdict = Pending
               \/ check'[c].pc = "done" /\ check'[c].verdict = Threw
            /\ \A d \in Check \ {c} : check'[d] = check[d]
        BY <1>1, <2>2, <2>4 DEF StoreFails, CheckType
      <3>2. Told(check'[c])
        BY <3>1, Verdicts DEF Told
      <3> QED BY <1>2, <3>1, <3>2
    <2>5. CASE AnswerSpend(c)
      <3>1. /\ check'[c].pc = "done" /\ check'[c].base = Fresh
            /\ check'[c].verdict = ruling(Fresh, check[c].fresh)
            /\ check'[c].fresh = check[c].fresh
            /\ \A d \in Check \ {c} : check'[d] = check[d]
        BY <1>1, <2>2, <2>5 DEF AnswerSpend, Finish, CheckType
      <3>2. check[c].fresh \in BOOLEAN
        BY <1>1 DEF CheckType
      <3>3. Told(check'[c])
        BY <3>1, <3>2, Verdicts DEF Told
      <3> QED BY <1>2, <3>1, <3>3
    <2> QED BY <2>1, <2>3, <2>4, <2>5
  <1>7. CASE \E r \in Replica : Restart(r)
    <2>1. PICK r \in Replica : Restart(r)
      BY <1>7
    <2>2. ASSUME NEW d \in Check PROVE Told(check'[d])
      <3>1. /\ check'[d].fresh = check[d].fresh /\ check'[d].base = check[d].base
            /\ check'[d].verdict = check[d].verdict
            /\ \/ check'[d].pc = check[d].pc
               \/ check'[d].pc = "lost" /\ check[d].pc \notin {"idle", "done", "lost"}
        BY <1>1, <2>1 DEF Restart, CheckType
      <3> QED BY <1>b, <3>1 DEF Told
    <2> QED BY <2>2 DEF Truthful
  <1> QED BY <1>3, <1>4, <1>5, <1>6, <1>7 DEF Next, Tick, issueChallenge, vars

---------------------------------------------------------------------------
(* The theorems.                                                           *)

LEMMA AInvInit == Init => AInv
  <1> SUFFICES ASSUME Init PROVE Answers
    BY IInvInit DEF AInv
  <1>1. \A c \in Check : /\ check[c].pc = "idle" /\ ~ check[c].fresh
                        /\ check[c].verdict = Pending
    BY DEF Init
  <1>2. RecordHasSpender
    BY DEF Init, RecordHasSpender, Stores
  <1>3. RefusalHasUse
    BY <1>1, Verdicts DEF RefusalHasUse, Refused
  <1>4. Truthful
    BY <1>1 DEF Truthful, Told
  <1>5. AcceptedSoonAfterExpiry
    BY <1>1 DEF AcceptedSoonAfterExpiry
  <1> QED BY <1>2, <1>3, <1>4, <1>5 DEF Answers

LEMMA AInvStep == AInv /\ [Next]_vars => AInv'
  <1> SUFFICES ASSUME AInv, [Next]_vars PROVE AInv'
    OBVIOUS
  <1>1. IInv'
    BY IInvStep DEF AInv
  <1>2. RecordHasSpender' /\ RefusalHasUse' /\ AcceptedSoonAfterExpiry'
    BY SpenderStep, RefusalStep, SoonStep
  <1>3. Truthful'
    BY TruthfulStep DEF AInv, Answers
  <1> QED BY <1>1, <1>2, <1>3 DEF AInv, Answers

\* Every nonce that a store remembers was used up by a proof that verified, bound to it,
\* in a check begun before it expired: nothing else exhausts a visitor's challenge.
THEOREM OnlyProofsSpend == Spec => []OnlyProvenSpends
  <1>1. AInv => OnlyProvenSpends
    BY DEF AInv, Answers, RecordHasSpender, Recorded, OnlyProvenSpends
  <1> QED BY AInvInit, AInvStep, <1>1, PTL DEF Spec

\* Whoever is told "replay" met an earlier use of that nonce in the same store: a first
\* visit is never refused as a second one.
THEOREM ReplaysAreReplays == Spec => []ReplayHasFirstUse
  <1>1. AInv => ReplayHasFirstUse
    BY DEF AInv, Answers, RefusalHasUse, Refused, UsedBefore, ReplayHasFirstUse
  <1> QED BY AInvInit, AInvStep, <1>1, PTL DEF Spec

\* Single use only takes accepts away: it turns no verdict into a "no" or into a "yes",
\* and lets through only accepts that paid with a spend of their own.
THEOREM SingleUseOnlyDowngrades == Spec => []OnlyDowngrades
  <1>1. AInv => OnlyDowngrades
    BY DEF AInv, Answers, Truthful, Told, OnlyDowngrades
  <1> QED BY AInvInit, AInvStep, <1>1, PTL DEF Spec

\* In one process no accept comes later than a request timeout after its challenge
\* expired, although expiry is judged by the reading taken before the await.
THEOREM AcceptsAreOnTime == Spec => []AcceptedSoonAfterExpiry
  <1>1. AInv => AcceptedSoonAfterExpiry
    BY DEF AInv, Answers
  <1> QED BY AInvInit, AInvStep, <1>1, PTL DEF Spec

---------------------------------------------------------------------------
(* The ledger of visits.  It is one ledger only where all checks meet in   *)
(* one store: a remote one, or the memory of the only process there is,    *)
(* for as long as it runs.  Elsewhere each store is a ledger of its own,   *)
(* and SingleUseHolds says what holds in it.                               *)

OneStore == Shared \/ (MaxRestarts = 0 /\ \A r, q \in Replica : r = q)

LEMMA OneStoreMeets ==
    ASSUME OneStore, Core, NEW c \in Check, NEW d \in Check
    PROVE  SameStore(c, d)
  <1>1. CASE Shared
    BY <1>1 DEF SameStore
  <1>2. CASE ~ Shared
    <2>1. MaxRestarts = 0 /\ \A r, q \in Replica : r = q
      BY <1>2 DEF OneStore
    <2>2. \A e \in Check : check[e].home \in Replica /\ check[e].life \in Nat
                           /\ check[e].life <= life[check[e].home]
      BY DEF Core, TypeOK, CheckType, Bookkeeping
    <2>3. \A r \in Replica : life[r] = 0
      BY <2>1 DEF Core, TypeOK
    <2>4. check[c].life = 0 /\ check[d].life = 0
      BY <2>2, <2>3
    <2> QED BY <2>1, <2>2, <2>4 DEF SameStore
  <1> QED BY <1>1, <1>2

\* Only the store's answer to a check settles what it is told, once it has spent.
LEMMA VerdictStays ==
    ASSUME IInv, Truthful, [Next]_vars, NEW d \in Check, check[d].fresh, ~ AnswerSpend(d)
    PROVE  check'[d].verdict = Fresh <=> check[d].verdict = Fresh
  <1>1. check \in [Check -> CheckType] /\ \A c \in Check : check[c] \in CheckType
    BY DEF IInv, Core, TypeOK
  <1>2. check[d].pc \notin {"idle", "verifying", "spending"}
    BY DEF IInv, Core, Bookkeeping
  <1>3. CASE check'[d] = check[d]
    BY <1>3
  <1>4. CASE StoreFails(d)
    <2>1. check'[d].verdict \in {check[d].verdict, Threw} /\ check[d].pc \in {"spending", "spent"}
      BY <1>1, <1>4 DEF StoreFails, CheckType
    <2>2. check[d].verdict = Pending
      BY <2>1 DEF Truthful, Told
    <2> QED BY <2>1, <2>2, Verdicts
  <1>5. CASE \E r \in Replica : Restart(r)
    BY <1>1, <1>5 DEF Restart, CheckType
  <1>6. CASE \E c \in Check : VerifyReturns(c)
    <2>1. PICK c \in Check, v \in BaseVerdict :
             PassThrough(c, v) \/ RefuseSession(c, v) \/ SpendInMemory(c, v) \/ SendSpend(c, v)
      BY <1>6 DEF VerifyReturns
    <2>2. check[c].pc = "verifying"
      BY <2>1 DEF PassThrough, RefuseSession, SpendInMemory, SendSpend, Verified
    <2>3. d # c
      BY <1>2, <2>2
    <2>4. check'[d] = check[d]
      BY <1>1, <2>1, <2>3 DEF PassThrough, RefuseSession, SpendInMemory, SendSpend, Finish
    <2> QED BY <1>3, <2>4
  <1>7. CASE \E c \in Check : StoreAnswers(c)
    <2>1. PICK c \in Check : StoreSpends(c) \/ StoreFails(c) \/ AnswerSpend(c)
      BY <1>7 DEF StoreAnswers
    <2>2. CASE c = d
      BY <1>2, <1>4, <2>1, <2>2 DEF StoreSpends
    <2>3. CASE c # d
      BY <1>1, <1>3, <2>1, <2>3 DEF StoreSpends, StoreFails, AnswerSpend, Finish
    <2> QED BY <2>2, <2>3
  <1>8. CASE \E c \in Check, r \in Replica, t \in Nonce \cup {Foreign} : BeginCheck(c, r, t)
    BY <1>1, <1>2, <1>3, <1>8 DEF BeginCheck
  <1>9. CASE Tick \/ (\E n \in Nonce : issueChallenge(n)) \/ UNCHANGED vars
    BY <1>3, <1>9 DEF Tick, issueChallenge, vars
  <1> QED BY <1>5, <1>6, <1>7, <1>8, <1>9 DEF Next

\* A step at which nothing is spent admits nobody.
LEMMA MovesAdmitNobody ==
    ASSUME IInv, Moves
    PROVE  Admitted' = Admitted /\ \A d \in Check : OnTime(d)' <=> OnTime(d)
  <1>1. \A d \in Check : check'[d].fresh <=> check[d].fresh
    BY DEF Moves, Keeps
  <1>2. \A d \in Check : check[d].fresh =>
           /\ check'[d].spentAt = check[d].spentAt
           /\ check'[d].transcript = check[d].transcript
           /\ expiresAt'[check'[d].transcript] = expiresAt[check[d].transcript]
    BY StampStays
  <1>3. \A d \in Check : OnTime(d)' <=> OnTime(d)
    BY <1>1, <1>2 DEF OnTime
  <1>4. Admitted' = Admitted
    BY <1>2, <1>3 DEF Admitted, OnTime
  <1> QED BY <1>3, <1>4

LEMMA VisitsInit == Init => Visit!Init
  <1> SUFFICES ASSUME Init PROVE Visit!Init
    OBVIOUS
  <1>1. Opened = {}
    BY DEF Init, Opened
  <1>2. \A c \in Check : ~ OnTime(c)
    BY DEF Init, OnTime
  <1>3. Admitted = {} /\ Inside = {}
    BY <1>2 DEF Admitted, Inside
  <1> QED BY <1>1, <1>3 DEF Visit!Init

LEMMA VisitsStep ==
    ASSUME OneStore, AInv, AInv', [Next]_vars
    PROVE  [Visit!Next]_Visit!vars
  <1>1. CASE \E n \in Nonce : issueChallenge(n)
    <2>1. PICK n \in Nonce : issueChallenge(n)
      BY <1>1
    <2>2. UNCHANGED <<check, seen>> /\ \A d \in Check : check[d].fresh =>
             check[d].transcript # n
      BY <2>1, FreshFacts DEF issueChallenge, AInv, IInv, NotIssued
    <2>3. expiryOf(clock) # NotIssued /\ expiresAt \in [Nonce -> Nat \cup {NotIssued}]
      <3>1. clock \in Nat /\ Ttl \in Nat
        BY NumberAssumption DEF AInv, IInv, Core, TypeOK
      <3>2. clock + Ttl # NotIssued
        BY <3>1 DEF NotIssued
      <3> QED BY <3>2 DEF expiryOf, AInv, IInv, Core, TypeOK
    <2>4. n \notin Opened /\ Opened' = Opened \cup {n}
      BY <2>1, <2>3 DEF issueChallenge, Opened
    <2>5. \A d \in Check : OnTime(d)' <=> OnTime(d)
      <3>1. \A d \in Check : check[d].fresh => check[d].transcript \in Nonce
        BY FreshFacts DEF AInv, IInv
      <3> QED BY <2>1, <2>2, <2>3, <3>1 DEF OnTime, issueChallenge
    <2>6. Admitted' = Admitted /\ Inside' = Inside
      BY <2>2, <2>5 DEF Admitted, Inside
    <2>7. Visit!Open(n)
      BY <2>4, <2>6 DEF Visit!Open
    <2> QED BY <2>7 DEF Visit!Next
  <1>2. ASSUME NEW c \in Check, NEW fresh \in BOOLEAN, Spends(c, fresh)
        PROVE  [Visit!Next]_Visit!vars
    <2> DEFINE n == check[c].transcript
    <2>1. /\ \A d \in Check \ {c} : check'[d] = check[d] /\ (OnTime(d)' <=> OnTime(d))
          /\ ~ OnTime(c) /\ (OnTime(c)' <=> fresh /\ clock <= expiresAt[n])
          /\ Opened' = Opened /\ n \in Nonce /\ check'[c].transcript = n
      BY <1>2 DEF Spends, OnTime, Opened
    <2>2. CASE ~ OnTime(c)'
      <3>1. Admitted' = Admitted /\ Inside' = Inside
        BY <2>1, <2>2 DEF Admitted, Inside
      <3> QED BY <2>1, <3>1 DEF Visit!vars
    <2>3. CASE OnTime(c)'
      <3>1. Admitted' = Admitted \cup {<<n, c>>}
        BY <2>1, <2>3 DEF Admitted
      <3>2. n \in Opened
        BY <2>1 DEF Opened, AInv, IInv, Core, Bookkeeping
      <3>3. ASSUME NEW d \in Check, <<n, d>> \in Admitted PROVE FALSE
        <4>1. OnTime(d) /\ check[d].transcript = n
          BY <3>3 DEF Admitted
        <4>2. d # c /\ OnTime(d)' /\ check'[d].transcript = n
          BY <2>1, <4>1
        <4>3. SameStore(c, d)'
          <5>1. SameStore(c, d)
            BY OneStoreMeets DEF AInv, IInv
          <5> QED BY <1>2, <2>1, <4>2, <5>1 DEF SameStore, Spends
        <4> QED BY <2>1, <2>3, <4>2, <4>3 DEF AInv, IInv, NoReplayWhileAlive, SameVisit
      <3>4. Visit!Free(n)
        BY <3>3 DEF Visit!Free
      <3>5. c \notin Inside
        BY <2>1 DEF Inside
      <3>6. check'[c].verdict \in {Pending, Fresh}
        BY <1>2, <2>1, <2>3 DEF Spends
      <3>7. CASE check'[c].verdict = Pending
        <4>1. Inside' = Inside
          BY <2>1, <3>7, Verdicts DEF Inside
        <4>2. Visit!Admit(n, c)
          BY <2>1, <3>1, <3>2, <3>4, <4>1 DEF Visit!Admit
        <4> QED BY <2>1, <4>2 DEF Visit!Next
      <3>8. CASE check'[c].verdict = Fresh
        <4>1. Inside' = Inside \cup {c}
          BY <2>1, <2>3, <3>8 DEF Inside
        <4>2. Visit!AdmitAndLetIn(n, c)
          BY <2>1, <3>1, <3>2, <3>4, <3>5, <4>1 DEF Visit!AdmitAndLetIn
        <4> QED BY <2>1, <4>2 DEF Visit!Next
      <3> QED BY <3>6, <3>7, <3>8
    <2> QED BY <2>2, <2>3
  <1>3. ASSUME Moves, ~ \E n \in Nonce : issueChallenge(n)
        PROVE  [Visit!Next]_Visit!vars
    <2>1. Opened' = Opened
      BY <1>3 DEF Opened, Next, vars, Tick, BeginCheck, VerifyReturns, PassThrough,
                  RefuseSession, SpendInMemory, SendSpend, StoreAnswers, StoreSpends,
                  StoreFails, AnswerSpend, Restart
    <2>2. Admitted' = Admitted /\ \A d \in Check : OnTime(d)' <=> OnTime(d)
      BY <1>3, MovesAdmitNobody DEF AInv
    <2>3. CASE \E c \in Check : AnswerSpend(c) /\ OnTime(c)
      <3>1. PICK c \in Check : AnswerSpend(c) /\ OnTime(c)
        BY <2>3
      <3>2. /\ check[c].verdict = Pending /\ check[c].base = Fresh /\ check[c].fresh = TRUE
            /\ check[c] \in CheckType
        BY <3>1 DEF AnswerSpend, OnTime, AInv, IInv, Core, TypeOK, CheckType, Answers,
                    Truthful, Told
      <3>3. check'[c].verdict = Fresh /\ \A d \in Check \ {c} : check'[d] = check[d]
        BY <3>1, <3>2, Verdicts DEF AnswerSpend, Finish, CheckType, AInv, IInv, Core, TypeOK
      <3>4. c \notin Inside /\ Inside' = Inside \cup {c}
        BY <2>2, <3>1, <3>2, <3>3, Verdicts DEF Inside
      <3>5. check[c].transcript \in Nonce /\ <<check[c].transcript, c>> \in Admitted
        BY <3>1, FreshFacts DEF Admitted, OnTime, AInv, IInv
      <3>6. Visit!LetIn(check[c].transcript, c)
        BY <2>1, <2>2, <3>4, <3>5 DEF Visit!LetIn
      <3> QED BY <3>5, <3>6 DEF Visit!Next
    <2>4. CASE ~ \E c \in Check : AnswerSpend(c) /\ OnTime(c)
      <3>1. \A d \in Check : OnTime(d) =>
               (check'[d].verdict = Fresh <=> check[d].verdict = Fresh)
        BY <2>4, VerdictStays DEF OnTime, AInv, Answers
      <3>2. Inside' = Inside
        BY <2>2, <3>1 DEF Inside
      <3> QED BY <2>1, <2>2, <3>2 DEF Visit!vars
    <2> QED BY <2>3, <2>4
  <1> QED BY <1>1, <1>2, <1>3, StepKinds DEF AInv, Answers

\* Where all checks meet in one store, replay defence implements the ledger: a visit is
\* opened once, one presentation is admitted to it, and whoever is let in by a proof
\* spent in time was admitted first.
THEOREM LedgerOfVisits ==
    ASSUME OneStore
    PROVE  Spec => ImplementsVisits
  <1>1. AInv /\ AInv' /\ [Next]_vars => [Visit!Next]_Visit!vars
    BY VisitsStep
  <1> QED BY AInvInit, AInvStep, VisitsInit, <1>1, PTL DEF Spec, ImplementsVisits, Visit!Spec
=============================================================================
