------------------------- MODULE RateLimiter_proofs -------------------------
(***************************************************************************)
(* What the limiter in front of both routes guarantees, for any number of  *)
(* clients, limit, window, cap and times: a bounded table, at most twice   *)
(* the limit in any span of a window, no refusal that was not earned.      *)
(***************************************************************************)
EXTENDS RateLimiter, FiniteSetTheorems, SequenceTheorems, WellFoundedInduction, TLAPS

entry(h, k) == h[At(h, k)]

\* A Map has a key once.
Distinct(h) == \A i, j \in DOMAIN h : h[i].key = h[j].key => i = j

\* The grants of a key up to time t, in the order of time.
InTime(g, t) ==
    /\ \A i, j \in DOMAIN g : i <= j => g[i] <= g[j]
    /\ \A i \in DOMAIN g : g[i] <= t

\* The grants of O opened a window each: a window apart, later than everything before
\* them, and no stretch of Limit further grants without one.
Opened(g, O) ==
    /\ \A p \in O : \A i \in DOMAIN g : i < p => g[i] < g[p]
    /\ \A p, q \in O : p < q => g[p] + WindowMs <= g[q]
    /\ \A i \in DOMAIN g : i + Limit \in DOMAIN g => \E p \in O : i < p /\ p <= i + Limit

\* The window the table keeps for a key is the last of them, and counts its grants.
Current(g, O, e) ==
    LET first == Len(g) - e.count + 1
    IN  /\ e.count <= Limit /\ first \in O /\ g[first] + WindowMs = e.resetAt
        /\ \A p \in O : p <= first

\* With no window running at t, the last of them is over.
Over(g, O, t) ==
    /\ \A p \in O : g[p] + WindowMs <= t
    /\ \A i \in DOMAIN g : g[i] < t

WindowsOf(k) ==
    /\ InTime(granted[k], clock)
    /\ \E O \in SUBSET DOMAIN granted[k] :
          /\ Opened(granted[k], O)
          /\ counting(k) => Current(granted[k], O, entry(hits, k))
          /\ ~ counting(k) => Over(granted[k], O, clock)

Windows == \A k \in Key : WindowsOf(k)

IInv == TypeOK /\ Bounded /\ Windows /\ RefusedOnlyWhenSpent

---------------------------------------------------------------------------
(* The numbers of a finite set in increasing order.                        *)

LEMMA LeastNumber ==
    ASSUME NEW T, T \subseteq Nat, T # {}
    PROVE  \E i \in T : \A j \in T : i <= j
  <1>1. PICK i \in T : \A j \in T : ~ (<<j, i>> \in OpToRel(<, Nat))
    BY WFMin, NatLessThanWellFounded, Zenon
  <1>2. \A j \in T : ~ (j < i)
    BY <1>1 DEF OpToRel
  <1> QED BY <1>2

Increasing(f) == \A i, j \in DOMAIN f : i < j => f[i] < f[j]

\* By the least number of elements of a set that has none: it has a least element, and
\* the rest of it has an order.
LEMMA OrderExists ==
    ASSUME NEW R, R \subseteq Nat, IsFiniteSet(R)
    PROVE  \E f \in [1..Cardinality(R) -> R] : Increasing(f)
  <1> DEFINE Ordered(S) == \E f \in [1..Cardinality(S) -> S] : Increasing(f)
             Bad == {n \in Nat : \E S \in SUBSET R : Cardinality(S) = n /\ ~ Ordered(S)}
  <1>1. \A S \in SUBSET R : IsFiniteSet(S) /\ Cardinality(S) \in Nat
    BY FS_Subset, FS_CardinalityType
  <1>2. CASE Bad = {}
    BY <1>1, <1>2
  <1>3. CASE Bad # {}
    <2>1. PICK n \in Bad : \A m \in Bad : n <= m
      BY <1>3, LeastNumber
    <2>2. PICK S \in SUBSET R : Cardinality(S) = n /\ ~ Ordered(S)
      BY <2>1
    <2>3. IsFiniteSet(S) /\ n \in Nat
      BY <1>1, <2>2
    <2>4. S # {}
      <3> SUFFICES ASSUME S = {} PROVE FALSE
        OBVIOUS
      <3>1. n = 0
        BY <2>2, FS_EmptySet
      <3>2. [i \in 1..0 |-> 0] \in [1..0 -> {}] /\ Increasing([i \in 1..0 |-> 0])
        BY DEF Increasing
      <3> QED BY <2>2, <3>1, <3>2
    <2>5. PICK m \in S : \A j \in S : m <= j
      BY <2>4, LeastNumber
    <2>6. PICK T : T = S \ {m}
      OBVIOUS
    <2>7. T \in SUBSET R /\ Cardinality(T) = n - 1 /\ n - 1 \in Nat
      <3>1. Cardinality(T) = Cardinality(S) - 1 /\ T \in SUBSET R
        BY <2>3, <2>5, <2>6, FS_RemoveElement
      <3>2. Cardinality(T) \in Nat
        BY <1>1, <3>1
      <3> QED BY <2>2, <2>3, <3>1, <3>2
    <2>8. Ordered(T)
      <3> HIDE DEF Ordered
      <3> SUFFICES ASSUME ~ Ordered(T) PROVE FALSE
        OBVIOUS
      <3>1. n - 1 \in Bad
        BY <2>7
      <3>2. n <= n - 1
        BY <2>1, <3>1
      <3> QED BY <2>3, <3>2
    <2>9. PICK f \in [1..(n - 1) -> T] : Increasing(f)
      BY <2>7, <2>8
    <2>10. PICK g : g = [i \in 1..n |-> IF i = 1 THEN m ELSE f[i - 1]]
      OBVIOUS
    <2>11. g \in [1..n -> S]
      BY <2>3, <2>5, <2>6, <2>9, <2>10
    <2>12. Increasing(g)
      <3> SUFFICES ASSUME NEW i \in 1..n, NEW j \in 1..n, i < j PROVE g[i] < g[j]
        BY <2>10 DEF Increasing
      <3>1. j - 1 \in 1..(n - 1) /\ g[j] = f[j - 1] /\ f[j - 1] \in T
        BY <2>3, <2>9, <2>10
      <3>2. CASE i = 1
        <4>1. g[i] = m
          BY <2>10, <3>2
        <4>2. f[j - 1] \in Nat /\ m \in Nat /\ m <= f[j - 1] /\ f[j - 1] # m
          BY <2>5, <2>6, <3>1
        <4> QED BY <3>1, <4>1, <4>2
      <3>3. CASE i # 1
        <4>1. i - 1 \in 1..(n - 1) /\ g[i] = f[i - 1] /\ i - 1 < j - 1
          BY <2>3, <2>10, <3>3
        <4> QED BY <2>9, <3>1, <4>1 DEF Increasing
      <3> QED BY <3>2, <3>3
    <2> QED BY <2>2, <2>11, <2>12
  <1> QED BY <1>2, <1>3

LEMMA InOrder ==
    ASSUME NEW R, R \subseteq Nat, IsFiniteSet(R)
    PROVE  inOrder(R) \in [1..Cardinality(R) -> R] /\ Increasing(inOrder(R))
  BY OrderExists DEF inOrder, Increasing

\* Every one of them is in the enumeration.
LEMMA OrderIsOnto ==
    ASSUME NEW R, R \subseteq Nat, IsFiniteSet(R)
    PROVE  \A i \in R : \E n \in DOMAIN inOrder(R) : inOrder(R)[n] = i
  <1>1. PICK n \in Nat : n = Cardinality(R)
    BY FS_CardinalityType
  <1>2. PICK f \in [1..n -> R] : f = inOrder(R) /\ Increasing(f)
    BY <1>1, InOrder
  <1>3. ASSUME NEW i \in 1..n, NEW j \in 1..n, f[i] = f[j] PROVE i = j
    <2> SUFFICES ASSUME i # j PROVE FALSE
      OBVIOUS
    <2>1. i < j \/ j < i
      BY <1>1
    <2>2. f[i] < f[j] \/ f[j] < f[i]
      BY <1>2, <2>1 DEF Increasing
    <2>3. f[i] \in Nat /\ f[j] \in Nat
      BY <1>2
    <2> QED BY <1>3, <2>2, <2>3
  <1>4. f \in Injection(1..n, R)
    BY <1>2, <1>3 DEF Injection, IsInjective
  <1>5. Cardinality(1..n) = n
    BY <1>1, FS_Interval
  <1>6. f \in Surjection(1..n, R)
    BY <1>1, <1>4, <1>5, FS_Injection
  <1> QED BY <1>2, <1>6 DEF Surjection

---------------------------------------------------------------------------
(* The table.                                                              *)

\* Everything in m was in h.
From(m, h) == \A i \in DOMAIN m : \E j \in DOMAIN h : m[i] = h[j]

Table(h) == h \in Seq(Entry) /\ Distinct(h)

\* The sweep leaves a part of the table.
LEMMA SweptIs ==
    ASSUME NEW h, Table(h)
    PROVE  Table(swept(h)) /\ Len(swept(h)) <= Len(h) /\ From(swept(h), h)
  <1> DEFINE R == {i \in DOMAIN h : running(h[i])}
             at == inOrder(R)
             n == Cardinality(R)
  <1>1. h \in Seq(Entry) /\ Len(h) \in Nat /\ DOMAIN h = 1..Len(h) /\ Distinct(h)
    BY DEF Table
  <1>2. IsFiniteSet(R) /\ R \subseteq Nat /\ n \in Nat /\ n <= Len(h)
    <2>1. IsFiniteSet(1..Len(h)) /\ Cardinality(1..Len(h)) = Len(h)
      BY <1>1, FS_Interval
    <2>2. R \subseteq 1..Len(h)
      BY <1>1
    <2> HIDE DEF R
    <2>3. IsFiniteSet(R) /\ Cardinality(R) <= Len(h)
      BY <2>1, <2>2, FS_Subset
    <2>4. Cardinality(R) \in Nat
      BY <2>3, FS_CardinalityType
    <2> QED BY <2>2, <2>3, <2>4
  <1>3. at \in [1..n -> R] /\ Increasing(at)
    BY <1>2, InOrder
  <1>4. swept(h) = [i \in 1..n |-> h[at[i]]]
    BY <1>3 DEF swept
  <1>5. \A i \in 1..n : at[i] \in DOMAIN h /\ at[i] \in Nat /\ h[at[i]] \in Entry
    BY <1>1, <1>3
  <1>6. \A i, j \in 1..n : at[i] = at[j] => i = j
    <2> SUFFICES ASSUME NEW i \in 1..n, NEW j \in 1..n, at[i] = at[j], i # j PROVE FALSE
      OBVIOUS
    <2>1. i < j \/ j < i
      BY <1>2
    <2>2. at[i] < at[j] \/ at[j] < at[i]
      BY <1>3, <2>1 DEF Increasing
    <2> QED BY <1>5, <2>2
  <1> HIDE DEF R, at, n
  <1>7. swept(h) \in Seq(Entry) /\ Len(swept(h)) = n
    BY <1>2, <1>4, <1>5
  <1>8. Distinct(swept(h))
    BY <1>1, <1>4, <1>5, <1>6 DEF Distinct
  <1>9. From(swept(h), h)
    BY <1>4, <1>5 DEF From
  <1> QED BY <1>2, <1>7, <1>8, <1>9 DEF Table

\* Dropping entries from the front leaves a part of the table too.
LEMMA DroppedIs ==
    ASSUME NEW h, Table(h), NEW d \in Nat, d > 0, d <= Len(h)
    PROVE  LET m == SubSeq(h, d + 1, Len(h))
           IN  Table(m) /\ Len(m) = Len(h) - d /\ From(m, h)
  <1>1. h \in Seq(Entry) /\ Len(h) \in Nat /\ DOMAIN h = 1..Len(h)
    BY DEF Table
  <1>2. PICK m : m = SubSeq(h, d + 1, Len(h))
    OBVIOUS
  <1>3. /\ m \in Seq(Entry) /\ Len(m) = Len(h) - d /\ DOMAIN m = 1..(Len(h) - d)
        /\ \A i \in 1..(Len(h) - d) : m[i] = h[i + d] /\ i + d \in DOMAIN h
    <2>1. d + 1 \in 1..(Len(h) + 1) /\ Len(h) \in (d + 1) - 1..Len(h)
      BY <1>1
    <2>2. /\ m \in Seq(Entry) /\ Len(m) = Len(h) - (d + 1) + 1
          /\ \A i \in 1..(Len(h) - (d + 1) + 1) : m[i] = h[(d + 1) + i - 1]
      BY <1>1, <1>2, <2>1, SubSeqProperties, SMTT(30)
    <2>3. Len(h) - (d + 1) + 1 = Len(h) - d /\ \A i \in Nat : (d + 1) + i - 1 = i + d
      BY <1>1
    <2>4. DOMAIN m = 1..Len(m)
      BY <2>2
    <2>5. \A i \in 1..(Len(h) - d) : m[i] = h[i + d]
      BY <2>2, <2>3
    <2>6. \A i \in 1..(Len(h) - d) : i + d \in DOMAIN h
      BY <1>1
    <2> QED BY <2>2, <2>3, <2>4, <2>5, <2>6
  <1>4. Distinct(m)
    <2> SUFFICES ASSUME NEW i \in 1..(Len(h) - d), NEW j \in 1..(Len(h) - d), m[i].key = m[j].key
                 PROVE  i = j
      BY <1>3 DEF Distinct
    <2>1. i + d \in DOMAIN h /\ j + d \in DOMAIN h /\ h[i + d].key = h[j + d].key
      BY <1>3
    <2>2. i + d = j + d
      BY <2>1 DEF Table, Distinct
    <2> QED BY <2>2
  <1>5. From(m, h)
    BY <1>3 DEF From
  <1> QED BY <1>2, <1>3, <1>4, <1>5 DEF Table

LEMMA RoomMade ==
    ASSUME NEW h, Table(h), Len(h) <= HardCap
    PROVE  Table(makeRoom(h)) /\ Len(makeRoom(h)) < HardCap /\ From(makeRoom(h), h)
  <1>1. HardCap \in Nat /\ HardCap >= 2 /\ Len(h) \in Nat
    BY LimiterAssumption DEF Table
  <1>2. CASE Len(h) < HardCap
    <2>1. makeRoom(h) = h
      BY <1>2 DEF makeRoom
    <2> QED BY <1>2, <2>1 DEF From
  <1>3. CASE ~ (Len(h) < HardCap)
    <2>1. PICK kept : kept = swept(h)
      OBVIOUS
    <2>2. Table(kept) /\ Len(kept) <= Len(h) /\ From(kept, h) /\ Len(kept) \in Nat
      BY <2>1, SweptIs DEF Table
    <2>3. CASE Len(kept) < HardCap
      <3>1. makeRoom(h) = kept
        BY <1>3, <2>1, <2>3 DEF makeRoom
      <3> QED BY <2>2, <2>3, <3>1
    <2>4. CASE ~ (Len(kept) < HardCap)
      <3>1. PICK d : d = (Len(kept) + 1) \div 2
        OBVIOUS
      <3>2. d \in Nat /\ d > 0 /\ d <= Len(kept) /\ Len(kept) = HardCap
        BY <1>1, <2>2, <2>4, <3>1
      <3>3. makeRoom(h) = SubSeq(kept, d + 1, Len(kept))
        BY <1>3, <2>1, <2>4, <3>1 DEF makeRoom
      <3>4. Table(makeRoom(h)) /\ Len(makeRoom(h)) = Len(kept) - d /\ From(makeRoom(h), kept)
        BY <2>2, <3>2, <3>3, DroppedIs
      <3>5. From(makeRoom(h), h)
        BY <2>2, <3>4 DEF From
      <3> QED BY <1>1, <3>2, <3>4, <3>5
    <2> QED BY <2>3, <2>4
  <1> QED BY <1>2, <1>3

LEMMA EntryIs ==
    ASSUME NEW h, Table(h), NEW k
    PROVE  /\ Has(h, k) => /\ At(h, k) \in DOMAIN h /\ entry(h, k).key = k
                           /\ entry(h, k) \in Entry
           /\ \A i \in DOMAIN h : h[i].key = k => Has(h, k) /\ At(h, k) = i /\ entry(h, k) = h[i]
  <1>1. Has(h, k) => At(h, k) \in DOMAIN h /\ h[At(h, k)].key = k
    BY DEF Has, At
  <1>2. \A i \in DOMAIN h : h[i] \in Entry
    BY DEF Table
  <1>3. \A i \in DOMAIN h : h[i].key = k => Has(h, k) /\ At(h, k) = i
    BY <1>1 DEF Has, Table, Distinct
  <1> QED BY <1>1, <1>2, <1>3 DEF entry

\* What a new table means for each key: key k has entry e, and who else is there was there.
Renewed(m, h, k, e) ==
    /\ Table(m) /\ Has(m, k) /\ entry(m, k) = e
    /\ \A j \in Key : j # k /\ Has(m, j) => Has(h, j) /\ entry(m, j) = entry(h, j)

LEMMA RenewedIs ==
    ASSUME NEW m, NEW h, Table(h), Table(m), NEW k, NEW e \in Entry, e.key = k,
           \E i \in DOMAIN m : m[i] = e,
           \A i \in DOMAIN m : m[i].key # k => \E j \in DOMAIN h : m[i] = h[j]
    PROVE  Renewed(m, h, k, e)
  <1>1. Has(m, k) /\ entry(m, k) = e
    BY EntryIs
  <1>2. ASSUME NEW j \in Key, j # k, Has(m, j)
        PROVE  Has(h, j) /\ entry(m, j) = entry(h, j)
    <2>1. At(m, j) \in DOMAIN m /\ m[At(m, j)].key = j /\ entry(m, j) = m[At(m, j)]
      BY <1>2, EntryIs DEF entry
    <2>2. PICK i \in DOMAIN h : m[At(m, j)] = h[i]
      BY <1>2, <2>1
    <2> QED BY <2>1, <2>2, EntryIs
  <1> QED BY <1>1, <1>2 DEF Renewed

\* Counting one more in an entry that is there.
LEMMA CountedTable ==
    ASSUME NEW h, Table(h), Len(h) <= HardCap, NEW k, Has(h, k)
    PROVE  LET m == [h EXCEPT ![At(h, k)].count = @ + 1]
               e == [entry(h, k) EXCEPT !.count = @ + 1]
           IN  /\ Renewed(m, h, k, e) /\ Len(m) <= HardCap
               /\ e.count = entry(h, k).count + 1 /\ e.resetAt = entry(h, k).resetAt
  <1> DEFINE a == At(h, k)
  <1>1. PICK f : f = entry(h, k)
    OBVIOUS
  <1>2. a \in DOMAIN h /\ h[a] = f /\ f \in Entry /\ f.key = k
    BY <1>1, EntryIs DEF entry
  <1>3. PICK e : e = [f EXCEPT !.count = @ + 1]
    OBVIOUS
  <1>4. e \in Entry /\ e.key = k /\ e.count = f.count + 1 /\ e.resetAt = f.resetAt
    BY <1>2, <1>3 DEF Entry
  <1>5. PICK m : m = [h EXCEPT ![a].count = @ + 1]
    OBVIOUS
  <1> HIDE DEF a
  <1>6. h \in Seq(Entry) /\ Distinct(h)
    BY DEF Table
  <1>7. m = [h EXCEPT ![a] = e]
    BY <1>2, <1>3, <1>5
  <1>8. /\ m \in Seq(Entry) /\ Len(m) = Len(h) /\ DOMAIN m = DOMAIN h
        /\ m[a] = e /\ \A i \in DOMAIN h \ {a} : m[i] = h[i]
    BY <1>2, <1>4, <1>6, <1>7
  <1>9. Distinct(m)
    BY <1>2, <1>4, <1>6, <1>8 DEF Distinct
  <1>10. Renewed(m, h, k, e)
    <2>1. \E i \in DOMAIN m : m[i] = e
      BY <1>2, <1>8
    <2>2. \A i \in DOMAIN m : m[i].key # k => \E j \in DOMAIN h : m[i] = h[j]
      BY <1>4, <1>8
    <2> QED BY <1>4, <1>8, <1>9, <2>1, <2>2, RenewedIs DEF Table
  <1> QED BY <1>1, <1>3, <1>4, <1>5, <1>8, <1>10 DEF a

\* Opening a window, in a table that was made room in.
LEMMA PutTable ==
    ASSUME NEW h, Table(h), Len(h) <= HardCap, NEW e \in Entry
    PROVE  LET m == put(makeRoom(h), e)
           IN  Renewed(m, h, e.key, e) /\ Len(m) <= HardCap
  <1>1. PICK r : r = makeRoom(h)
    OBVIOUS
  <1>2. Table(r) /\ Len(r) < HardCap /\ From(r, h) /\ r \in Seq(Entry) /\ Distinct(r)
    BY <1>1, RoomMade DEF Table
  <1>3. PICK m : m = put(r, e)
    OBVIOUS
  <1>4. HardCap \in Nat /\ Len(r) \in Nat /\ DOMAIN r = 1..Len(r)
    BY <1>2, LimiterAssumption
  <1>5. CASE Has(r, e.key)
    <2>1. PICK a \in DOMAIN r : a = At(r, e.key) /\ r[a].key = e.key
      BY <1>2, <1>5, EntryIs DEF entry
    <2>2. m = [r EXCEPT ![a] = e]
      BY <1>3, <1>5, <2>1 DEF put
    <2>3. /\ m \in Seq(Entry) /\ Len(m) = Len(r) /\ DOMAIN m = DOMAIN r
          /\ m[a] = e /\ \A i \in DOMAIN r \ {a} : m[i] = r[i]
      BY <1>2, <2>1, <2>2
    <2>4. Distinct(m)
      BY <1>2, <2>1, <2>3 DEF Distinct
    <2>5. \E i \in DOMAIN m : m[i] = e
      BY <2>1, <2>3
    <2>6. \A i \in DOMAIN m : m[i].key # e.key => \E j \in DOMAIN h : m[i] = h[j]
      BY <1>2, <2>3 DEF From
    <2>7. Renewed(m, h, e.key, e)
      BY <2>3, <2>4, <2>5, <2>6, RenewedIs DEF Table
    <2> QED BY <1>1, <1>2, <1>3, <1>4, <2>3, <2>7
  <1>6. CASE ~ Has(r, e.key)
    <2>1. m = Append(r, e)
      BY <1>3, <1>6 DEF put
    <2>2. /\ m \in Seq(Entry) /\ Len(m) = Len(r) + 1 /\ DOMAIN m = 1..(Len(r) + 1)
          /\ m[Len(r) + 1] = e /\ \A i \in 1..Len(r) : m[i] = r[i]
      BY <1>2, <2>1
    <2>3. \A i \in 1..Len(r) : r[i].key # e.key
      BY <1>4, <1>6 DEF Has
    <2>4. Distinct(m)
      BY <1>2, <1>4, <2>2, <2>3 DEF Distinct
    <2>5. \E i \in DOMAIN m : m[i] = e
      BY <1>4, <2>2
    <2>6. \A i \in DOMAIN m : m[i].key # e.key => \E j \in DOMAIN h : m[i] = h[j]
      BY <1>2, <1>4, <2>2 DEF From
    <2>7. Renewed(m, h, e.key, e)
      BY <2>2, <2>4, <2>5, <2>6, RenewedIs DEF Table
    <2> QED BY <1>1, <1>2, <1>3, <1>4, <2>2, <2>7
  <1> QED BY <1>5, <1>6

---------------------------------------------------------------------------
(* The windows of one key.                                                 *)

LEMMA Counting ==
    ASSUME NEW n \in Int, NEW c \in Int, NEW l \in Int, NEW i \in Int, NEW first \in Int,
           first = n - c + 1
    PROVE  /\ (n + 1) - (c + 1) + 1 = first
           /\ i + l = n + 1 /\ c < l => i < first
           /\ i + l = n + 1 /\ c > 0 => first <= i + l
  OBVIOUS

LEMMA Appended ==
    ASSUME NEW g \in Seq(Int), NEW t \in Int, InTime(g, t)
    PROVE  LET a == Append(g, t)
           IN  /\ a \in Seq(Int) /\ Len(a) = Len(g) + 1 /\ DOMAIN a = 1..(Len(g) + 1)
               /\ DOMAIN g = 1..Len(g) /\ Len(g) \in Nat
               /\ a[Len(g) + 1] = t /\ \A i \in 1..Len(g) : a[i] = g[i] /\ g[i] \in Int
               /\ InTime(a, t)
  <1>1. PICK a : a = Append(g, t)
    OBVIOUS
  <1>2. /\ a \in Seq(Int) /\ Len(a) = Len(g) + 1 /\ DOMAIN a = 1..(Len(g) + 1)
        /\ DOMAIN g = 1..Len(g) /\ Len(g) \in Nat
        /\ a[Len(g) + 1] = t /\ \A i \in 1..Len(g) : a[i] = g[i] /\ g[i] \in Int
    BY <1>1
  <1>3. InTime(a, t)
    <2>1. ASSUME NEW i \in DOMAIN a PROVE a[i] <= t
      BY <1>2 DEF InTime
    <2>2. ASSUME NEW i \in DOMAIN a, NEW j \in DOMAIN a, i <= j PROVE a[i] <= a[j]
      <3>1. CASE j = Len(g) + 1
        BY <1>2, <2>1, <3>1
      <3>2. CASE j # Len(g) + 1
        <4>1. i \in 1..Len(g) /\ j \in 1..Len(g)
          BY <1>2, <2>2, <3>2
        <4> QED BY <1>2, <2>2, <4>1 DEF InTime
      <3> QED BY <3>1, <3>2
    <2> QED BY <2>1, <2>2 DEF InTime
  <1> QED BY <1>1, <1>2, <1>3

\* One more in the window that runs.
LEMMA CountedWindow ==
    ASSUME NEW g \in Seq(Int), NEW t \in Int, InTime(g, t), NEW O \in SUBSET DOMAIN g,
           NEW e \in Entry, NEW f \in Entry, Opened(g, O), Current(g, O, e), e.count < Limit,
           f.count = e.count + 1, f.resetAt = e.resetAt
    PROVE  LET a == Append(g, t)
           IN  O \in SUBSET DOMAIN a /\ Opened(a, O) /\ Current(a, O, f)
  <1>1. PICK a : a = Append(g, t)
    OBVIOUS
  <1>2. /\ a \in Seq(Int) /\ Len(a) = Len(g) + 1 /\ DOMAIN a = 1..(Len(g) + 1)
        /\ DOMAIN g = 1..Len(g) /\ Len(g) \in Nat
        /\ a[Len(g) + 1] = t /\ \A i \in 1..Len(g) : a[i] = g[i] /\ g[i] \in Int
    BY <1>1, Appended
  <1>3. Limit \in Nat /\ Limit > 0 /\ WindowMs \in Nat /\ e.count \in Nat
    BY LimiterAssumption DEF Entry
  <1>4. PICK first : first = Len(g) - e.count + 1
    OBVIOUS
  <1>5. /\ first \in O /\ first \in 1..Len(g) /\ g[first] + WindowMs = e.resetAt
        /\ \A p \in O : p <= first
    BY <1>2, <1>4 DEF Current
  <1>6. Opened(a, O)
    <2>1. ASSUME NEW p \in O, NEW i \in DOMAIN a, i < p PROVE a[i] < a[p]
      BY <1>2, <2>1 DEF Opened
    <2>2. ASSUME NEW p \in O, NEW q \in O, p < q PROVE a[p] + WindowMs <= a[q]
      BY <1>2, <2>2 DEF Opened
    <2>3. ASSUME NEW i \in DOMAIN a, i + Limit \in DOMAIN a
          PROVE  \E p \in O : i < p /\ p <= i + Limit
      <3>1. i \in DOMAIN g
        BY <1>2, <1>3, <2>3
      <3>2. CASE i + Limit \in DOMAIN g
        BY <3>1, <3>2 DEF Opened
      <3>3. CASE i + Limit = Len(g) + 1
        <4>1. i < first /\ first <= i + Limit
          <5>1. Len(g) \in Int /\ e.count \in Int /\ Limit \in Int /\ i \in Int /\ first \in Int
            BY <1>2, <1>3, <1>5, <3>1
          <5>2. e.count > 0
            BY DEF Entry
          <5> QED BY <1>4, <3>3, <5>1, <5>2, Counting
        <4> QED BY <1>5, <4>1
      <3> QED BY <1>2, <2>3, <3>2, <3>3
    <2> QED BY <2>1, <2>2, <2>3 DEF Opened
  <1>7. Current(a, O, f)
    <2>1. Len(a) - f.count + 1 = first
      <3>1. Len(g) \in Int /\ e.count \in Int /\ Limit \in Int /\ first \in Int
        BY <1>2, <1>3, <1>5
      <3>2. Len(a) = Len(g) + 1 /\ f.count = e.count + 1
        BY <1>2
      <3>3. (Len(g) + 1) - (e.count + 1) + 1 = first
        BY <1>4, <3>1, Counting
      <3> QED BY <3>2, <3>3
    <2>2. a[first] = g[first]
      BY <1>2, <1>5
    <2>3. f.count <= Limit
      BY <1>3
    <2> QED BY <1>5, <2>1, <2>2, <2>3 DEF Current
  <1> QED BY <1>1, <1>2, <1>6, <1>7

\* A window that opens, when the last one is over.
LEMMA OpenedWindow ==
    ASSUME NEW g \in Seq(Int), NEW t \in Int, InTime(g, t), NEW O \in SUBSET DOMAIN g,
           Opened(g, O), Over(g, O, t), NEW e \in Entry, e.count = 1, e.resetAt = t + WindowMs
    PROVE  LET a == Append(g, t)
           IN  \E Q \in SUBSET DOMAIN a : Opened(a, Q) /\ Current(a, Q, e)
  <1>1. PICK a : a = Append(g, t)
    OBVIOUS
  <1>2. /\ a \in Seq(Int) /\ Len(a) = Len(g) + 1 /\ DOMAIN a = 1..(Len(g) + 1)
        /\ DOMAIN g = 1..Len(g) /\ Len(g) \in Nat
        /\ a[Len(g) + 1] = t /\ \A i \in 1..Len(g) : a[i] = g[i] /\ g[i] \in Int
    BY <1>1, Appended
  <1>3. Limit \in Nat /\ Limit > 0 /\ WindowMs \in Nat
    BY LimiterAssumption
  <1>4. PICK n : n = Len(g) + 1
    OBVIOUS
  <1>5. PICK Q : Q = O \cup {n}
    OBVIOUS
  <1>6. Q \in SUBSET DOMAIN a /\ \A p \in O : p \in 1..Len(g) /\ p < n
    BY <1>2, <1>4, <1>5
  <1>7. Opened(a, Q)
    <2>1. ASSUME NEW p \in Q, NEW i \in DOMAIN a, i < p PROVE a[i] < a[p]
      <3>1. CASE p \in O
        BY <1>2, <1>6, <2>1, <3>1, SMTT(30) DEF Opened
      <3>2. CASE p = n
        BY <1>2, <1>4, <2>1, <3>2, SMTT(30) DEF Over
      <3> QED BY <1>5, <3>1, <3>2
    <2>2. ASSUME NEW p \in Q, NEW q \in Q, p < q PROVE a[p] + WindowMs <= a[q]
      <3>1. p \in O
        BY <1>2, <1>4, <1>5, <1>6, <2>2
      <3>2. CASE q \in O
        BY <1>2, <1>6, <2>2, <3>1, <3>2 DEF Opened
      <3>3. CASE q = n
        BY <1>2, <1>4, <1>6, <3>1, <3>3 DEF Over
      <3> QED BY <1>5, <3>2, <3>3
    <2>3. ASSUME NEW i \in DOMAIN a, i + Limit \in DOMAIN a
          PROVE  \E p \in Q : i < p /\ p <= i + Limit
      <3>1. i \in DOMAIN g
        BY <1>2, <1>3, <2>3
      <3>2. CASE i + Limit \in DOMAIN g
        BY <1>5, <3>1, <3>2 DEF Opened
      <3>3. CASE i + Limit = n
        BY <1>2, <1>4, <1>5, <3>1, <3>3
      <3> QED BY <1>2, <1>4, <2>3, <3>2, <3>3
    <2> QED BY <2>1, <2>2, <2>3 DEF Opened
  <1>8. Current(a, Q, e)
    <2>1. Len(a) - e.count + 1 = n
      BY <1>2, <1>4
    <2>2. a[n] + WindowMs = e.resetAt /\ e.count <= Limit /\ n \in Q
      BY <1>2, <1>3, <1>4, <1>5
    <2>3. \A p \in Q : p <= n
      BY <1>2, <1>4, <1>5, <1>6
    <2> QED BY <2>1, <2>2, <2>3 DEF Current
  <1> QED BY <1>1, <1>6, <1>7, <1>8

\* Time passes: what ran may be over now.
LEMMA PassedWindow ==
    ASSUME NEW g \in Seq(Int), NEW t \in Int, NEW u \in Int, InTime(g, t), t < u,
           NEW O \in SUBSET DOMAIN g, NEW e \in Entry, Current(g, O, e), e.resetAt <= u
    PROVE  Over(g, O, u)
  <1>1. PICK first : first = Len(g) - e.count + 1
    OBVIOUS
  <1>2. /\ first \in O /\ g[first] + WindowMs = e.resetAt /\ \A p \in O : p <= first
    BY <1>1 DEF Current
  <1>3. \A i \in DOMAIN g : g[i] \in Int /\ g[i] < u
    BY DEF InTime
  <1>4. ASSUME NEW p \in O PROVE g[p] + WindowMs <= u
    <2>1. g[p] <= g[first] /\ g[p] \in Int /\ g[first] \in Int
      BY <1>2, <1>3 DEF InTime
    <2> QED BY <1>2, <2>1, LimiterAssumption
  <1> QED BY <1>3, <1>4 DEF Over

---------------------------------------------------------------------------
(* The steps of the limiter.                                               *)

LEMMA Typed ==
    ASSUME IInv
    PROVE  /\ Table(hits) /\ Len(hits) <= HardCap /\ clock \in Nat
           /\ \A k \in Key : granted[k] \in Seq(0..MaxClock) /\ granted[k] \in Seq(Int)
           /\ DOMAIN granted = Key
  <1>1. MaxClock \in Nat
    BY LimiterAssumption
  <1> QED BY <1>1 DEF IInv, TypeOK, Bounded, Table, Distinct

LEMMA TickStep ==
    ASSUME IInv, Tick
    PROVE  IInv'
  <1>1. clock' = clock + 1 /\ UNCHANGED <<hits, granted, turnedAway>> /\ clock \in Nat
        /\ clock < MaxClock /\ MaxClock \in Nat
    BY LimiterAssumption, Typed DEF Tick
  <1>2. TypeOK' /\ Bounded' /\ RefusedOnlyWhenSpent'
    BY <1>1 DEF IInv, TypeOK, Bounded, RefusedOnlyWhenSpent
  <1>3. ASSUME NEW k \in Key PROVE WindowsOf(k)'
    <2>1. /\ granted'[k] = granted[k] /\ granted[k] \in Seq(Int)
          /\ InTime(granted[k], clock) /\ InTime(granted[k], clock')
      BY <1>1, Typed DEF IInv, Windows, WindowsOf, InTime
    <2>2. PICK O \in SUBSET DOMAIN granted[k] :
            /\ Opened(granted[k], O)
            /\ counting(k) => Current(granted[k], O, entry(hits, k))
            /\ ~ counting(k) => Over(granted[k], O, clock)
      BY DEF IInv, Windows, WindowsOf
    <2>3. counting(k)' => counting(k)
      <3>1. Has(hits, k) => entry(hits, k).resetAt \in Nat
        BY Typed, EntryIs DEF Entry
      <3> QED BY <1>1, <3>1 DEF counting, running, entry, Has, At
    <2>4. counting(k) /\ ~ counting(k)' => Over(granted[k], O, clock')
      <3> SUFFICES ASSUME counting(k), ~ counting(k)' PROVE Over(granted[k], O, clock')
        OBVIOUS
      <3>1. Has(hits, k) /\ entry(hits, k) \in Entry
        BY Typed, EntryIs DEF counting
      <3>2. entry(hits, k).resetAt <= clock'
        <4>1. entry(hits, k).resetAt \in Nat
          BY <3>1 DEF Entry
        <4>2. ~ (clock' < entry(hits, k).resetAt)
          BY <1>1, <3>1 DEF counting, running, entry, Has, At
        <4> QED BY <1>1, <4>1, <4>2
      <3> QED BY <1>1, <2>1, <2>2, <3>1, <3>2, PassedWindow
    <2>5. ~ counting(k) => Over(granted[k], O, clock')
      BY <1>1, <2>1, <2>2, LimiterAssumption DEF Over
    <2>6. counting(k)' => Current(granted[k], O, entry(hits, k))
      BY <2>2, <2>3
    <2>7. hits' = hits
      BY <1>1
    <2> QED BY <2>1, <2>2, <2>4, <2>5, <2>6, <2>7 DEF WindowsOf, entry, At
  <1> QED BY <1>2, <1>3 DEF IInv, Windows

\* The entry of k after a grant, and that nobody else's changed.
LEMMA GrantTable ==
    ASSUME IInv, NEW k \in Key, Grant(k)
    PROVE  /\ Table(hits') /\ Len(hits') <= HardCap
           /\ \E e \in Entry :
                /\ Renewed(hits', hits, k, e)
                /\ \/ /\ counting(k) /\ entry(hits, k).count < Limit
                      /\ e.count = entry(hits, k).count + 1 /\ e.resetAt = entry(hits, k).resetAt
                   \/ /\ ~ counting(k)
                      /\ e.count = 1 /\ e.resetAt = clock + WindowMs
  <1>1. Table(hits) /\ Len(hits) <= HardCap /\ clock \in Nat
    BY Typed
  <1>2. CASE counting(k) /\ ~ spent(hits[At(hits, k)])
               /\ hits' = [hits EXCEPT ![At(hits, k)].count = @ + 1]
    <2>1. PICK e : e = [entry(hits, k) EXCEPT !.count = @ + 1]
      OBVIOUS
    <2>2. Has(hits, k) /\ entry(hits, k) \in Entry
      BY <1>1, <1>2, EntryIs DEF counting
    <2>3. /\ Renewed(hits', hits, k, e) /\ Len(hits') <= HardCap
          /\ e.count = entry(hits, k).count + 1 /\ e.resetAt = entry(hits, k).resetAt
      BY <1>1, <1>2, <2>1, <2>2, CountedTable
    <2>4. e \in Entry
      BY <2>1, <2>2 DEF Entry
    <2>5. entry(hits, k).count < Limit
      <3>1. entry(hits, k).count \in Nat
        BY <2>2 DEF Entry
      <3> QED BY <1>2, <3>1, LimiterAssumption DEF spent, entry
    <2>6. Table(hits')
      BY <2>3 DEF Renewed
    <2> QED BY <1>2, <2>3, <2>4, <2>5, <2>6
  <1>3. CASE ~ counting(k) /\ hits' = put(makeRoom(hits), opened(k))
    <2>1. PICK e : e = opened(k)
      OBVIOUS
    <2>2. e \in Entry /\ e.key = k /\ e.count = 1 /\ e.resetAt = clock + WindowMs
      BY <1>1, <2>1, LimiterAssumption DEF opened, Entry
    <2>3. Renewed(hits', hits, k, e) /\ Len(hits') <= HardCap
      BY <1>1, <1>3, <2>1, <2>2, PutTable
    <2>4. Table(hits')
      BY <2>3 DEF Renewed
    <2> QED BY <1>3, <2>2, <2>3, <2>4
  <1> QED BY <1>2, <1>3 DEF Grant
\* The windows of the key that was let through.
LEMMA GrantWindows ==
    ASSUME IInv, NEW k \in Key, Grant(k), clock' = clock
    PROVE  WindowsOf(k)' /\ granted'[k] = Append(granted[k], clock)
  <1>1. PICK e \in Entry :
          /\ Renewed(hits', hits, k, e)
          /\ \/ /\ counting(k) /\ entry(hits, k).count < Limit
                /\ e.count = entry(hits, k).count + 1 /\ e.resetAt = entry(hits, k).resetAt
             \/ /\ ~ counting(k)
                /\ e.count = 1 /\ e.resetAt = clock + WindowMs
    BY GrantTable
  <1>2. Table(hits) /\ clock \in Nat /\ granted[k] \in Seq(Int) /\ InTime(granted[k], clock)
    BY Typed DEF IInv, Windows, WindowsOf
  <1>3. PICK O \in SUBSET DOMAIN granted[k] :
          /\ Opened(granted[k], O)
          /\ counting(k) => Current(granted[k], O, entry(hits, k))
          /\ ~ counting(k) => Over(granted[k], O, clock)
    BY DEF IInv, Windows, WindowsOf
  <1>4. Has(hits', k) /\ entry(hits', k) = e
    BY <1>1 DEF Renewed
  <1>5. granted'[k] = Append(granted[k], clock)
    BY DEF Grant
  <1>6. e.resetAt \in Nat /\ e.count \in Nat /\ WindowMs \in Nat /\ WindowMs > 0
    BY LimiterAssumption DEF Entry
  <1>7. clock < e.resetAt
    <2>1. CASE counting(k) /\ e.resetAt = entry(hits, k).resetAt
      BY <2>1 DEF counting, running, entry
    <2>2. CASE e.resetAt = clock + WindowMs
      BY <1>2, <1>6, <2>2
    <2> QED BY <1>1, <2>1, <2>2
  <1>8. counting(k)'
    BY <1>4, <1>7 DEF counting, running, entry, Has, At
  <1>9. PICK a : a = Append(granted[k], clock)
    OBVIOUS
  <1>10. \E Q \in SUBSET DOMAIN a : Opened(a, Q) /\ Current(a, Q, e)
    <2>1. CASE counting(k) /\ entry(hits, k).count < Limit
               /\ e.count = entry(hits, k).count + 1 /\ e.resetAt = entry(hits, k).resetAt
      <3>1. entry(hits, k) \in Entry
        BY <1>2, <2>1, EntryIs DEF counting
      <3>2. O \in SUBSET DOMAIN a /\ Opened(a, O) /\ Current(a, O, e)
        BY <1>2, <1>3, <1>9, <2>1, <3>1, CountedWindow
      <3> QED BY <3>2
    <2>2. CASE ~ counting(k) /\ e.count = 1 /\ e.resetAt = clock + WindowMs
      BY <1>2, <1>3, <1>9, <2>2, OpenedWindow
    <2> QED BY <1>1, <2>1, <2>2
  <1>11. InTime(a, clock)
    BY <1>2, <1>9, Appended
  <1>12. /\ InTime(granted'[k], clock')
         /\ \E Q \in SUBSET DOMAIN granted'[k] :
               /\ Opened(granted'[k], Q) /\ Current(granted'[k], Q, entry(hits', k))
    BY <1>4, <1>5, <1>9, <1>10, <1>11
  <1> QED BY <1>5, <1>8, <1>12 DEF WindowsOf, entry, At

\* The windows of another key: it was forgotten, or nothing happened to it.
LEMMA OtherWindows ==
    ASSUME IInv, NEW k \in Key, Grant(k), clock' = clock, NEW j \in Key, j # k
    PROVE  WindowsOf(j)'
  <1>1. Table(hits) /\ clock \in Nat /\ granted[j] \in Seq(Int) /\ InTime(granted[j], clock)
    BY Typed DEF IInv, Windows, WindowsOf
  <1>2. PICK O \in SUBSET DOMAIN granted[j] :
          /\ Opened(granted[j], O)
          /\ counting(j) => Current(granted[j], O, entry(hits, j))
          /\ ~ counting(j) => Over(granted[j], O, clock)
    BY DEF IInv, Windows, WindowsOf
  <1>3. Has(hits', j) => Has(hits, j) /\ entry(hits', j) = entry(hits, j)
    <2>1. PICK e \in Entry : Renewed(hits', hits, k, e)
      BY GrantTable
    <2> QED BY <2>1 DEF Renewed
  <1>4. granted'[j] = IF Forgotten(j) THEN <<>> ELSE granted[j]
    BY DEF Grant
  <1>5. counting(j)' <=> Has(hits', j) /\ counting(j)
    BY <1>3 DEF counting, running, entry, Has, At
  <1>6. CASE Forgotten(j)
    <2>1. granted'[j] = <<>> /\ DOMAIN granted'[j] = {}
      BY <1>4, <1>6
    <2>2. ~ counting(j)'
      BY <1>5, <1>6 DEF Forgotten
    <2>3. InTime(granted'[j], clock') /\ Opened(granted'[j], {}) /\ Over(granted'[j], {}, clock')
      BY <2>1 DEF InTime, Opened, Over
    <2>4. {} \in SUBSET DOMAIN granted'[j]
      OBVIOUS
    <2> QED BY <2>2, <2>3, <2>4 DEF WindowsOf
  <1>7. CASE ~ Forgotten(j)
    <2>1. granted'[j] = granted[j]
      BY <1>4, <1>7
    <2>2. counting(j)' <=> counting(j)
      BY <1>5, <1>7 DEF Forgotten
    <2>3. counting(j)' => Current(granted'[j], O, entry(hits', j))
      BY <1>2, <1>3, <1>5, <2>1
    <2>4. ~ counting(j)' => Over(granted'[j], O, clock')
      BY <1>2, <2>1, <2>2
    <2>5. O \in SUBSET DOMAIN granted'[j] /\ Opened(granted'[j], O) /\ InTime(granted'[j], clock')
      BY <1>1, <1>2, <2>1
    <2> QED BY <2>3, <2>4, <2>5 DEF WindowsOf, entry, At
  <1> QED BY <1>6, <1>7

LEMMA GrantStep ==
    ASSUME IInv, NEW k \in Key, Grant(k), clock' = clock
    PROVE  IInv'
  <1>1. /\ granted'[k] = Append(granted[k], clock)
        /\ \A j \in Key : WindowsOf(j)'
    BY GrantWindows, OtherWindows
  <1>2. Table(hits') /\ Len(hits') <= HardCap
    BY GrantTable
  <1>3. Bounded'
    BY <1>2 DEF Bounded, Table, Distinct
  <1>4. clock \in 0..MaxClock /\ turnedAway \in [Key -> {Never} \cup 0..MaxClock]
        /\ granted \in [Key -> Seq(0..MaxClock)]
    BY DEF IInv, TypeOK
  <1>5. \A j \in Key : turnedAway'[j] = IF Forgotten(j) THEN Never ELSE turnedAway[j]
    BY DEF Grant
  <1>6. TypeOK'
    <2>1. granted' \in [Key -> Seq(0..MaxClock)]
      <3>1. granted' = [j \in Key |-> IF j = k THEN Append(granted[k], clock)
                                      ELSE IF Forgotten(j) THEN <<>> ELSE granted[j]]
        BY DEF Grant
      <3>2. Append(granted[k], clock) \in Seq(0..MaxClock)
        BY <1>4
      <3>3. \A j \in Key : granted[j] \in Seq(0..MaxClock) /\ <<>> \in Seq(0..MaxClock)
        BY <1>4
      <3> QED BY <3>1, <3>2, <3>3, Zenon
    <2>2. turnedAway' \in [Key -> {Never} \cup 0..MaxClock]
      BY <1>4 DEF Grant
    <2>3. hits' \in Seq(Entry)
      BY <1>2 DEF Table
    <2> QED BY <1>4, <2>1, <2>2, <2>3 DEF TypeOK
  <1>7. RefusedOnlyWhenSpent'
    <2> SUFFICES ASSUME NEW j \in Key, turnedAway'[j] # Never
                 PROVE  \E i \in DOMAIN granted'[j] :
                          /\ granted'[j][i] > turnedAway'[j] - WindowMs
                          /\ granted'[j][i] <= turnedAway'[j]
                          /\ i + Limit - 1 \in DOMAIN granted'[j]
                          /\ granted'[j][i + Limit - 1] > turnedAway'[j] - WindowMs
                          /\ granted'[j][i + Limit - 1] <= turnedAway'[j]
      BY DEF RefusedOnlyWhenSpent
    <2>1. ~ Forgotten(j) /\ turnedAway'[j] = turnedAway[j]
      BY <1>5
    <2>2. PICK i \in DOMAIN granted[j] :
            /\ granted[j][i] > turnedAway[j] - WindowMs
            /\ granted[j][i] <= turnedAway[j]
            /\ i + Limit - 1 \in DOMAIN granted[j]
            /\ granted[j][i + Limit - 1] > turnedAway[j] - WindowMs
            /\ granted[j][i + Limit - 1] <= turnedAway[j]
      BY <2>1 DEF IInv, RefusedOnlyWhenSpent
    <2>3. \A n \in DOMAIN granted[j] : n \in DOMAIN granted'[j] /\ granted'[j][n] = granted[j][n]
      <3>1. CASE j = k
        <4>1. granted[k] \in Seq(Int) /\ InTime(granted[k], clock) /\ clock \in Int
          BY Typed DEF IInv, Windows, WindowsOf
        <4>2. PICK a : a = Append(granted[k], clock)
          OBVIOUS
        <4>3. DOMAIN a = 1..(Len(granted[k]) + 1) /\ DOMAIN granted[k] = 1..Len(granted[k])
              /\ Len(granted[k]) \in Nat /\ \A n \in 1..Len(granted[k]) : a[n] = granted[k][n]
          BY <4>1, <4>2, Appended
        <4>4. \A n \in DOMAIN granted[k] : n \in DOMAIN a /\ a[n] = granted[k][n]
          BY <4>3
        <4> QED BY <1>1, <3>1, <4>2, <4>4
      <3>2. CASE j # k
        BY <2>1, <3>2 DEF Grant
      <3> QED BY <3>1, <3>2
    <2> QED BY <2>1, <2>2, <2>3
  <1> QED BY <1>1, <1>3, <1>6, <1>7 DEF IInv, Windows

\* Who is turned away has the whole of the limit in the window that runs.
LEMMA RefuseStep ==
    ASSUME IInv, NEW k \in Key, Refuse(k), clock' = clock
    PROVE  IInv'
  <1>1. /\ hits' = hits /\ granted' = granted /\ turnedAway' = [turnedAway EXCEPT ![k] = clock]
        /\ counting(k) /\ spent(entry(hits, k))
    BY DEF Refuse, entry
  <1>2. clock \in 0..MaxClock /\ clock \in Nat
        /\ turnedAway \in [Key -> {Never} \cup 0..MaxClock]
    BY Typed DEF IInv, TypeOK
  <1>3. TypeOK' /\ Bounded'
    BY <1>1, <1>2 DEF IInv, TypeOK, Bounded
  <1>4. Windows'
    BY <1>1 DEF IInv, Windows, WindowsOf, counting, running, entry, Has, At
  <1>5. PICK g \in Seq(Int) : g = granted[k] /\ InTime(g, clock)
    BY Typed DEF IInv, Windows, WindowsOf
  <1>6. PICK e \in Entry : e = entry(hits, k) /\ clock < e.resetAt /\ e.count >= Limit
    BY <1>1, Typed, EntryIs DEF counting, running, spent, entry
  <1>7. PICK O \in SUBSET DOMAIN g : Current(g, O, e)
    BY <1>1, <1>5, <1>6 DEF IInv, Windows, WindowsOf
  <1>8. Limit \in Nat /\ Limit > 0 /\ WindowMs \in Nat /\ WindowMs > 0
        /\ Len(g) \in Nat /\ DOMAIN g = 1..Len(g) /\ e.count \in Nat
    BY LimiterAssumption DEF Entry
  <1>9. PICK first \in DOMAIN g : /\ first = Len(g) - Limit + 1 /\ g[first] + WindowMs = e.resetAt
    BY <1>6, <1>7, <1>8 DEF Current
  <1>10. first + Limit - 1 = Len(g) /\ Len(g) \in DOMAIN g
    BY <1>8, <1>9
  <1>11. /\ g[first] > clock - WindowMs /\ g[first] <= clock
         /\ g[Len(g)] > clock - WindowMs /\ g[Len(g)] <= clock
    <2>1. first <= Len(g)
      BY <1>8
    <2>2. g[first] <= g[Len(g)] /\ g[Len(g)] <= clock /\ g[first] <= clock
      BY <1>5, <1>10, <2>1, Zenon DEF InTime
    <2>3. g[first] \in Int /\ g[Len(g)] \in Int
      BY <1>9, <1>10
    <2> QED BY <1>2, <1>6, <1>8, <1>9, <2>2, <2>3
  <1>12. RefusedOnlyWhenSpent'
    <2> SUFFICES ASSUME NEW j \in Key, turnedAway'[j] # Never
                 PROVE  \E i \in DOMAIN granted'[j] :
                          /\ granted'[j][i] > turnedAway'[j] - WindowMs
                          /\ granted'[j][i] <= turnedAway'[j]
                          /\ i + Limit - 1 \in DOMAIN granted'[j]
                          /\ granted'[j][i + Limit - 1] > turnedAway'[j] - WindowMs
                          /\ granted'[j][i + Limit - 1] <= turnedAway'[j]
      BY DEF RefusedOnlyWhenSpent
    <2>1. CASE j = k
      BY <1>1, <1>2, <1>5, <1>9, <1>10, <1>11, <2>1
    <2>2. CASE j # k
      <3>1. granted'[j] = granted[j] /\ turnedAway'[j] = turnedAway[j]
        BY <1>1, <1>2, <2>2
      <3> QED BY <3>1 DEF IInv, RefusedOnlyWhenSpent
    <2> QED BY <2>1, <2>2
  <1> QED BY <1>3, <1>4, <1>12 DEF IInv

---------------------------------------------------------------------------
(* Where the table has room for every client, nobody is ever forgotten.    *)

EveryoneFits == IsFiniteSet(Key) /\ Cardinality(Key) <= HardCap

LEMMA RunningOnes ==
    ASSUME NEW h, Table(h), NEW R, R = {i \in DOMAIN h : running(h[i])}
    PROVE  IsFiniteSet(R) /\ R \subseteq Nat
  <1>1. Len(h) \in Nat /\ DOMAIN h = 1..Len(h)
    BY DEF Table
  <1>2. IsFiniteSet(1..Len(h)) /\ R \in SUBSET (1..Len(h))
    BY <1>1, FS_Interval
  <1>3. R \subseteq Nat
    BY <1>1, <1>2
  <1> QED BY <1>2, <1>3, FS_Subset

\* The sweep spares whoever's window runs.
LEMMA SweepSpares ==
    ASSUME NEW h, Table(h), NEW j, Has(h, j), running(entry(h, j))
    PROVE  Has(swept(h), j)
  <1>1. PICK R : R = {i \in DOMAIN h : running(h[i])}
    OBVIOUS
  <1>2. PICK at : at = inOrder(R)
    OBVIOUS
  <1>3. IsFiniteSet(R) /\ R \subseteq Nat
    BY <1>1, RunningOnes
  <1>4. PICK i \in R : h[i].key = j
    BY <1>1, EntryIs DEF entry
  <1>5. PICK n \in DOMAIN at : at[n] = i
    BY <1>2, <1>3, OrderIsOnto
  <1>6. swept(h) = [m \in DOMAIN at |-> h[at[m]]]
    BY <1>1, <1>2 DEF swept
  <1> QED BY <1>4, <1>5, <1>6 DEF Has

\* A full table has every client in it.
LEMMA FullHasAll ==
    ASSUME EveryoneFits, NEW h, Table(h), Len(h) >= HardCap
    PROVE  \A k \in Key : Has(h, k)
  <1>1. PICK n \in Nat : n = Len(h) /\ DOMAIN h = 1..n /\ h \in Seq(Entry) /\ Distinct(h)
    BY DEF Table
  <1>2. PICK f : f = [i \in 1..n |-> h[i].key]
    OBVIOUS
  <1>3. ASSUME NEW i \in 1..n PROVE h[i].key \in Key
    <2>1. h[i] \in Entry
      BY <1>1
    <2> QED BY <2>1 DEF Entry
  <1>4. f \in Injection(1..n, Key)
    BY <1>1, <1>2, <1>3 DEF Injection, IsInjective, Distinct
  <1>5. Cardinality(1..n) = n /\ Cardinality(Key) \in Nat
    BY FS_Interval, FS_CardinalityType DEF EveryoneFits
  <1>6. n <= Cardinality(Key) /\ (n = Cardinality(Key) => f \in Surjection(1..n, Key))
    BY <1>4, <1>5, FS_Injection DEF EveryoneFits
  <1>7. f \in Surjection(1..n, Key)
    BY <1>1, <1>5, <1>6, LimiterAssumption DEF EveryoneFits
  <1> QED BY <1>1, <1>2, <1>7 DEF Surjection, Has

\* The sweep takes whoever's window is over.
LEMMA SweepTakes ==
    ASSUME NEW h, Table(h), NEW k, Has(h, k), ~ running(entry(h, k))
    PROVE  ~ Has(swept(h), k)
  <1>1. PICK R : R = {i \in DOMAIN h : running(h[i])}
    OBVIOUS
  <1>2. IsFiniteSet(R) /\ R \subseteq Nat
    BY <1>1, RunningOnes
  <1>3. PICK at : at = inOrder(R) /\ \A m \in DOMAIN at : at[m] \in R
    BY <1>2, InOrder
  <1>4. swept(h) = [m \in DOMAIN at |-> h[at[m]]]
    BY <1>1, <1>3 DEF swept
  <1>5. \A m \in DOMAIN at : h[at[m]].key # k
    BY <1>1, <1>3, EntryIs
  <1> QED BY <1>4, <1>5 DEF Has

\* Room is made, for a client without a running window, at no other's expense.
LEMMA RoomSpares ==
    ASSUME EveryoneFits, NEW h, Table(h), Len(h) <= HardCap,
           NEW k \in Key, ~ (Has(h, k) /\ running(entry(h, k))),
           NEW j, Has(h, j), running(entry(h, j))
    PROVE  Has(makeRoom(h), j)
  <1>1. Len(h) \in Nat /\ HardCap \in Nat
    BY LimiterAssumption DEF Table
  <1>2. CASE Len(h) < HardCap
    BY <1>2 DEF makeRoom
  <1>3. CASE Len(h) >= HardCap
    <2>1. PICK m : m = swept(h)
      OBVIOUS
    <2>2. Table(m) /\ Len(m) <= Len(h) /\ Len(m) \in Nat
      BY <2>1, SweptIs DEF Table
    <2>3. ~ Has(m, k)
      BY <1>3, <2>1, FullHasAll, SweepTakes
    <2>4. Len(m) < HardCap
      BY <1>1, <2>2, <2>3, FullHasAll
    <2>5. makeRoom(h) = m
      BY <1>1, <1>3, <2>1, <2>4 DEF makeRoom
    <2> QED BY <2>1, <2>5, SweepSpares
  <1> QED BY <1>1, <1>2, <1>3

LEMMA PutSpares ==
    ASSUME NEW m, Table(m), NEW e \in Entry, NEW j, Has(m, j)
    PROVE  Has(put(m, e), j)
  <1>1. PICK i \in DOMAIN m : m[i].key = j
    BY DEF Has
  <1>2. m \in Seq(Entry)
    BY DEF Table
  <1>3. CASE Has(m, e.key)
    <2>1. PICK a \in DOMAIN m : a = At(m, e.key) /\ m[a].key = e.key
      BY <1>3, EntryIs DEF entry
    <2>2. put(m, e) = [m EXCEPT ![a] = e]
      BY <1>3, <2>1 DEF put
    <2> QED BY <1>1, <2>1, <2>2 DEF Has
  <1>4. CASE ~ Has(m, e.key)
    <2>1. put(m, e) = Append(m, e)
      BY <1>4 DEF put
    <2>2. i \in DOMAIN Append(m, e) /\ Append(m, e)[i] = m[i]
      BY <1>1, <1>2
    <2> QED BY <1>1, <2>1, <2>2 DEF Has
  <1> QED BY <1>3, <1>4

LEMMA NobodyForgotten ==
    ASSUME EveryoneFits, IInv, NEW k \in Key, Grant(k)
    PROVE  /\ \A j \in Key : ~ Forgotten(j)
           /\ DOMAIN granted' = Key /\ granted'[k] = Append(granted[k], clock)
           /\ \A j \in Key \ {k} : granted'[j] = granted[j]
  <1>1. Table(hits) /\ Len(hits) <= HardCap /\ clock \in Nat
    BY Typed
  <1>2. ASSUME NEW j \in Key, counting(j) PROVE Has(hits', j)
    <2>1. Has(hits, j) /\ running(entry(hits, j))
      BY <1>2 DEF counting, entry
    <2>2. CASE counting(k) /\ hits' = [hits EXCEPT ![At(hits, k)].count = @ + 1]
      <3>1. PICK i \in DOMAIN hits : hits[i].key = j
        BY <2>1 DEF Has
      <3>2. PICK a \in DOMAIN hits : a = At(hits, k) /\ hits[a] \in Entry
        BY <1>1, <2>2, EntryIs DEF counting, entry
      <3>3. hits' = [hits EXCEPT ![a] = [hits[a] EXCEPT !.count = hits[a].count + 1]]
        BY <2>2, <3>2
      <3>4. i \in DOMAIN hits' /\ hits'[i].key = hits[i].key
        BY <3>1, <3>2, <3>3 DEF Entry
      <3> QED BY <3>1, <3>4 DEF Has
    <2>3. CASE ~ counting(k) /\ hits' = put(makeRoom(hits), opened(k))
      <3>1. opened(k) \in Entry
        BY <1>1, LimiterAssumption DEF opened, Entry
      <3>2. Table(makeRoom(hits))
        BY <1>1, RoomMade
      <3>3. ~ (Has(hits, k) /\ running(entry(hits, k)))
        BY <2>3 DEF counting, entry
      <3>4. Has(makeRoom(hits), j)
        BY <1>1, <2>1, <3>3, RoomSpares
      <3> QED BY <2>3, <3>1, <3>2, <3>4, PutSpares
    <2> QED BY <2>2, <2>3 DEF Grant
  <1>3. \A j \in Key : ~ Forgotten(j)
    BY <1>2 DEF Forgotten
  <1> QED BY <1>3 DEF Grant

---------------------------------------------------------------------------
LEMMA IInvInit == Init => IInv
  <1> SUFFICES ASSUME Init PROVE IInv
    OBVIOUS
  <1>1. TypeOK
    BY LimiterAssumption DEF Init, TypeOK
  <1>2. Bounded
    BY LimiterAssumption DEF Init, Bounded
  <1>3. RefusedOnlyWhenSpent
    BY DEF Init, RefusedOnlyWhenSpent
  <1>4. ASSUME NEW k \in Key PROVE WindowsOf(k)
    <2>1. granted[k] = <<>> /\ DOMAIN granted[k] = {} /\ ~ counting(k)
      BY DEF Init, counting, Has
    <2>2. InTime(granted[k], clock) /\ Opened(granted[k], {}) /\ Over(granted[k], {}, clock)
      BY <2>1 DEF InTime, Opened, Over
    <2>3. {} \in SUBSET DOMAIN granted[k]
      OBVIOUS
    <2> QED BY <2>1, <2>2, <2>3 DEF WindowsOf
  <1> QED BY <1>1, <1>2, <1>3, <1>4 DEF IInv, Windows

LEMMA IInvStep == IInv /\ [Next]_vars => IInv'
  <1> SUFFICES ASSUME IInv, [Next]_vars PROVE IInv'
    OBVIOUS
  <1>1. CASE Tick
    BY <1>1, TickStep
  <1>2. ASSUME NEW k \in Key, allow(k) PROVE IInv'
    BY <1>2, GrantStep, RefuseStep DEF allow
  <1>3. CASE UNCHANGED vars
    BY <1>3 DEF vars, IInv, TypeOK, Bounded, Windows, WindowsOf, RefusedOnlyWhenSpent,
                counting, running, entry, Has, At
  <1> QED BY <1>1, <1>2, <1>3 DEF Next

LEMMA Invariance == Spec => []IInv
  BY IInvInit, IInvStep, PTL DEF Spec

LEMMA GrantsInTime ==
    ASSUME IInv
    PROVE  /\ DOMAIN granted = Key /\ clock \in Nat
           /\ \A k \in Key :
                /\ granted[k] \in Seq(Int) /\ DOMAIN granted[k] = 1..Len(granted[k])
                /\ Len(granted[k]) \in Nat
                /\ \A i, j \in DOMAIN granted[k] : i <= j => granted[k][i] <= granted[k][j]
  <1>1. ASSUME NEW k \in Key
        PROVE  \A i, j \in DOMAIN granted[k] : i <= j => granted[k][i] <= granted[k][j]
    BY DEF IInv, Windows, WindowsOf, InTime
  <1>2. \A k \in Key : granted[k] \in Seq(Int)
    BY Typed
  <1>3. ASSUME NEW k \in Key PROVE DOMAIN granted[k] = 1..Len(granted[k]) /\ Len(granted[k]) \in Nat
    BY <1>2
  <1> QED BY <1>1, <1>2, <1>3, Typed

\* The table holds no more than the cap and no key twice, whatever the flood: the
\* sweep and the eviction of createRateLimiter make room before an entry is added.
THEOREM TableBounded == Spec => []Bounded
  <1>1. IInv => Bounded
    BY DEF IInv
  <1> QED BY <1>1, Invariance, PTL

\* Nobody is turned away who has not used up the limit within the last window: what
\* the limiter does to the entries of others never costs a client a grant.
THEOREM RefusalsEarned == Spec => []RefusedOnlyWhenSpent
  <1>1. IInv => RefusedOnlyWhenSpent
    BY DEF IInv
  <1> QED BY <1>1, Invariance, PTL

\* Among the grants after the first, two windows were opened, the first before both.
LEMMA TwiceAtMost ==
    ASSUME IInv
    PROVE  TwoWindowsAtMost
  <1> SUFFICES ASSUME NEW k \in Key, NEW i \in DOMAIN granted[k],
                      i + 2 * Limit \in DOMAIN granted[k]
               PROVE  granted[k][i + 2 * Limit] - granted[k][i] > WindowMs
    BY DEF TwoWindowsAtMost
  <1>1. PICK g \in Seq(Int) : g = granted[k] /\ InTime(g, clock)
    BY Typed DEF IInv, Windows, WindowsOf
  <1>2. PICK O \in SUBSET DOMAIN g : Opened(g, O)
    BY <1>1 DEF IInv, Windows, WindowsOf
  <1>3. Limit \in Nat /\ Limit > 0 /\ WindowMs \in Nat /\ Len(g) \in Nat
        /\ DOMAIN g = 1..Len(g) /\ i \in Nat
    BY <1>1, LimiterAssumption
  <1>4. PICK l \in Nat : l = i + Limit
    BY <1>3
  <1>5. l + Limit = i + 2 * Limit /\ l + Limit \in DOMAIN g /\ l \in DOMAIN g
    BY <1>1, <1>3, <1>4
  <1>6. PICK p \in O : i < p /\ p <= l
    BY <1>1, <1>2, <1>4, <1>5 DEF Opened
  <1>7. PICK q \in O : l < q /\ q <= l + Limit
    BY <1>2, <1>5 DEF Opened
  <1>8. p \in Nat /\ q \in Nat /\ p < q /\ p \in DOMAIN g /\ q \in DOMAIN g
    BY <1>3, <1>6, <1>7
  <1>9. g[i] < g[p] /\ g[p] + WindowMs <= g[q] /\ g[q] <= g[l + Limit]
    BY <1>1, <1>2, <1>5, <1>6, <1>7, <1>8 DEF Opened, InTime
  <1>10. g[i] \in Int /\ g[p] \in Int /\ g[q] \in Int /\ g[l + Limit] \in Int
    BY <1>1, <1>5, <1>8
  <1>11. g[l + Limit] - g[i] > WindowMs
    BY <1>3, <1>9, <1>10
  <1> QED BY <1>1, <1>5, <1>11

\* However requests straddle the windows' edges, 2 * Limit + 1 grants of a key span
\* more than a window, as long as the table has not forgotten it.
THEOREM AtMostTwice == Spec => []TwoWindowsAtMost
  <1>1. IInv => TwoWindowsAtMost
    BY TwiceAtMost
  <1> QED BY <1>1, Invariance, PTL
=============================================================================
