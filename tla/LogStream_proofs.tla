-------------------------- MODULE LogStream_proofs --------------------------
(***************************************************************************)
(* That lines survive the pipe, for every text, in chunks of any sizes, as *)
(* long as one pipe feeds the residual.                                    *)
(***************************************************************************)
EXTENDS LogStream, FiniteSetTheorems, SequenceTheorems, TLAPS

\* The count of a number among the numbers of a set, in increasing order.
place(R, i) == Cardinality({j \in R : j <= i})

---------------------------------------------------------------------------
(* The n-th number of a finite set.                                        *)

LEMMA PlaceIs ==
    ASSUME NEW R, \A i \in R : i \in Nat, IsFiniteSet(R)
    PROVE  /\ \A i \in R : place(R, i) \in 1..Cardinality(R)
           /\ \A i, k \in R : i < k => place(R, i) < place(R, k)
  <1> DEFINE below(i) == {j \in R : j <= i}
  <1>1. ASSUME NEW i \in R
        PROVE  /\ IsFiniteSet(below(i)) /\ place(R, i) \in Nat /\ Cardinality(R) \in Nat
               /\ place(R, i) <= Cardinality(R) /\ place(R, i) # 0
    <2>1. IsFiniteSet(below(i)) /\ Cardinality(below(i)) <= Cardinality(R)
      BY FS_Subset
    <2>2. i \in below(i)
      BY <1>1
    <2>3. Cardinality(below(i)) # 0
      BY <2>1, <2>2, FS_EmptySet
    <2> QED BY <2>1, <2>3, FS_CardinalityType DEF place
  <1>2. ASSUME NEW i \in R, NEW k \in R, i < k
        PROVE  place(R, i) < place(R, k)
    <2>1. below(i) \in SUBSET below(k)
      <3>1. ASSUME NEW j \in R, j <= i PROVE j <= k
        <4>1. j \in Nat /\ i \in Nat /\ k \in Nat
          OBVIOUS
        <4> QED BY <1>2, <3>1, <4>1
      <3> QED BY <3>1
    <2>2. k \in below(k) /\ k \notin below(i)
      <3>1. i \in Nat /\ k \in Nat
        OBVIOUS
      <3> QED BY <1>2, <3>1
    <2>3. /\ Cardinality(below(i)) <= Cardinality(below(k))
          /\ Cardinality(below(k)) # Cardinality(below(i))
      BY <1>1, <2>1, <2>2, FS_Subset
    <2> QED BY <1>1, <2>3 DEF place
  <1>3. ASSUME NEW i \in R PROVE place(R, i) \in 1..Cardinality(R)
    <2> HIDE DEF below
    <2>1. /\ place(R, i) \in Nat /\ Cardinality(R) \in Nat
          /\ place(R, i) <= Cardinality(R) /\ place(R, i) # 0
      BY <1>1
    <2> QED BY <2>1
  <1> HIDE DEF below
  <1> QED BY <1>2, <1>3

LEMMA NthIs ==
    ASSUME NEW R, \A i \in R : i \in Nat, IsFiniteSet(R)
    PROVE  /\ \A n \in 1..Cardinality(R) : nth(R, n) \in R /\ place(R, nth(R, n)) = n
           /\ \A i \in R : nth(R, place(R, i)) = i
  <1>1. PICK c \in Nat : c = Cardinality(R)
    BY FS_CardinalityType
  <1>2. PICK f : f = [i \in R |-> place(R, i)]
    OBVIOUS
  <1>3. \A i, k \in R : place(R, i) = place(R, k) => i = k
    <2> SUFFICES ASSUME NEW i \in R, NEW k \in R, place(R, i) = place(R, k), i # k
                 PROVE  FALSE
      OBVIOUS
    <2>1. i \in Nat /\ k \in Nat
      OBVIOUS
    <2>2. place(R, i) \in 1..c /\ (i < k => place(R, i) < place(R, k))
          /\ (k < i => place(R, k) < place(R, i))
      BY <1>1, PlaceIs
    <2> QED BY <1>1, <2>1, <2>2
  <1>4. f \in Injection(R, 1..c)
    BY <1>1, <1>2, <1>3, PlaceIs DEF Injection, IsInjective
  <1>5. IsFiniteSet(1..c) /\ Cardinality(1..c) = c
    BY FS_Interval
  <1>6. f \in Surjection(R, 1..c)
    BY <1>1, <1>4, <1>5, FS_Injection
  <1>7. ASSUME NEW n \in 1..c PROVE nth(R, n) \in R /\ place(R, nth(R, n)) = n
    <2>1. \E i \in R : place(R, i) = n
      BY <1>2, <1>6, <1>7 DEF Surjection
    <2> QED BY <2>1 DEF nth, place
  <1>8. ASSUME NEW i \in R PROVE nth(R, place(R, i)) = i
    BY <1>1, <1>3, <1>7, PlaceIs
  <1> QED BY <1>1, <1>7, <1>8

\* They come in their order, and there is none between one and the next.
LEMMA NthInOrder ==
    ASSUME NEW R, \A i \in R : i \in Nat, IsFiniteSet(R)
    PROVE  /\ \A m, n \in 1..Cardinality(R) : m < n => nth(R, m) < nth(R, n)
           /\ \A n \in 1..Cardinality(R), i \in R :
                 i < nth(R, n) => n > 1 /\ i <= nth(R, n - 1)
           /\ \A i \in R : Cardinality(R) > 0 /\ i <= nth(R, Cardinality(R))
  <1>1. PICK c \in Nat : c = Cardinality(R)
    BY FS_CardinalityType
  <1>2. ASSUME NEW m \in 1..c, NEW n \in 1..c, m < n
        PROVE  nth(R, m) < nth(R, n)
    <2>1. /\ nth(R, m) \in R /\ nth(R, n) \in R
          /\ place(R, nth(R, m)) = m /\ place(R, nth(R, n)) = n
      BY <1>1, NthIs
    <2>2. nth(R, n) < nth(R, m) => n < m
      BY <2>1, PlaceIs
    <2>3. nth(R, n) # nth(R, m)
      BY <1>2, <2>1
    <2>4. nth(R, n) \in Nat /\ nth(R, m) \in Nat
      BY <2>1
    <2> QED BY <1>1, <1>2, <2>2, <2>3, <2>4
  <1>3. ASSUME NEW i \in R
        PROVE  c > 0 /\ place(R, i) \in 1..c /\ nth(R, place(R, i)) = i
    <2>1. place(R, i) \in 1..c /\ nth(R, place(R, i)) = i
      BY <1>1, NthIs, PlaceIs
    <2> QED BY <1>1, <2>1
  <1>4. ASSUME NEW n \in 1..c, NEW i \in R, i < nth(R, n)
        PROVE  n > 1 /\ i <= nth(R, n - 1)
    <2>1. nth(R, n) \in R /\ place(R, nth(R, n)) = n
      BY <1>1, NthIs
    <2>2. place(R, i) < n
      BY <1>4, <2>1, PlaceIs
    <2>3. n - 1 \in 1..c /\ n > 1 /\ place(R, i) <= n - 1
      BY <1>3, <2>2
    <2>4. i <= nth(R, n - 1)
      <3>1. CASE place(R, i) = n - 1
        <4>1. i \in Nat /\ nth(R, n - 1) = i
          BY <1>3, <3>1
        <4> QED BY <4>1
      <3>2. CASE place(R, i) < n - 1
        <4>1. nth(R, place(R, i)) < nth(R, n - 1)
          BY <1>2, <1>3, <2>3, <3>2
        <4>2. nth(R, n - 1) \in R
          BY <1>1, <2>3, NthIs
        <4>3. i \in Nat /\ nth(R, n - 1) \in Nat /\ nth(R, place(R, i)) = i
          BY <1>3, <4>2
        <4> QED BY <4>1, <4>3
      <3>3. place(R, i) \in Nat /\ n \in Nat
        BY <1>1, <1>3
      <3> QED BY <2>3, <3>1, <3>2, <3>3
    <2> QED BY <2>3, <2>4
  <1>5. ASSUME NEW i \in R PROVE i <= nth(R, c)
    <2>1. nth(R, c) \in R
      BY <1>1, <1>3, NthIs
    <2>2. nth(R, c) \in Nat /\ i \in Nat
      BY <2>1
    <2>3. CASE place(R, i) = c
      BY <1>3, <2>2, <2>3
    <2>4. CASE place(R, i) < c
      <3>1. nth(R, place(R, i)) < nth(R, c)
        BY <1>2, <1>3, <2>4
      <3> QED BY <1>3, <2>2, <3>1
    <2> QED BY <1>1, <1>3, <2>3, <2>4
  <1> QED BY <1>1, <1>2, <1>3, <1>4, <1>5

---------------------------------------------------------------------------
(* What one cut makes of a text.                                           *)

\* A part lies between two newlines, or the start and the first of them.
LEMMA PartsBetween ==
    ASSUME NEW chars \in Seq(Char), NEW c, c = Cardinality(Newlines(chars))
    PROVE  /\ c \in Nat /\ endOf(chars, 0) = 0
           /\ \A n \in 0..c : endOf(chars, n) \in 0..Len(chars)
           /\ \A m, n \in 0..c : m < n => endOf(chars, m) < endOf(chars, n)
           /\ \A n \in 1..c :
                 /\ endOf(chars, n) \in 1..Len(chars)
                 /\ chars[endOf(chars, n)] = Newline
                 /\ \A i \in (endOf(chars, n - 1) + 1)..(endOf(chars, n) - 1) : chars[i] # Newline
           /\ \A i \in (endOf(chars, c) + 1)..Len(chars) : chars[i] # Newline
           /\ \A i \in 1..Len(chars) :
                 chars[i] = Newline => \E n \in 1..c : endOf(chars, n) = i
  <1>1. PICK R : R = Newlines(chars)
    OBVIOUS
  <1>2. R \subseteq 1..Len(chars) /\ Len(chars) \in Nat /\ DOMAIN chars = 1..Len(chars)
    BY <1>1 DEF Newlines
  <1>3. (\A i \in R : i \in Nat) /\ IsFiniteSet(R) /\ c \in Nat /\ c = Cardinality(R)
    <2>1. IsFiniteSet(1..Len(chars))
      BY <1>2, FS_Interval
    <2>2. IsFiniteSet(R)
      BY <1>2, <2>1, FS_Subset
    <2> QED BY <1>1, <1>2, <2>2, FS_CardinalityType
  <1>4. endOf(chars, 0) = 0 /\ \A n \in 1..c : endOf(chars, n) = nth(R, n)
    BY <1>1, <1>3 DEF endOf
  <1>5. \A n \in 1..c : nth(R, n) \in R
    BY <1>3, NthIs
  <1>6. \A n \in 1..c : endOf(chars, n) \in 1..Len(chars) /\ chars[endOf(chars, n)] = Newline
    BY <1>1, <1>2, <1>4, <1>5 DEF Newlines
  <1>7. \A n \in 0..c : endOf(chars, n) \in 0..Len(chars)
    BY <1>2, <1>3, <1>4, <1>6
  <1>8. ASSUME NEW n \in 1..c
        PROVE  /\ endOf(chars, n - 1) < endOf(chars, n)
               /\ \A i \in (endOf(chars, n - 1) + 1)..(endOf(chars, n) - 1) : chars[i] # Newline
    <2>1. CASE n = 1
      <3>1. endOf(chars, n - 1) = 0 /\ endOf(chars, n) = nth(R, n)
        BY <1>4, <2>1
      <3>2. ASSUME NEW i \in 1..(nth(R, n) - 1), chars[i] = Newline PROVE FALSE
        <4>0. nth(R, n) \in 1..Len(chars)
          BY <1>2, <1>5
        <4>1. i \in 1..Len(chars) /\ i < nth(R, n)
          BY <1>2, <3>2, <4>0
        <4>2. i \in R
          BY <1>1, <1>2, <3>2, <4>1 DEF Newlines
        <4>3. n > 1
          BY <1>3, <4>1, <4>2, NthInOrder
        <4> QED BY <2>1, <4>3
      <3> QED BY <1>6, <1>8, <3>1, <3>2
    <2>2. CASE n > 1
      <3>1. n - 1 \in 1..c
        BY <1>3, <1>8, <2>2
      <3>2. endOf(chars, n - 1) = nth(R, n - 1) /\ endOf(chars, n) = nth(R, n)
        BY <1>4, <1>8, <3>1
      <3>3. nth(R, n - 1) < nth(R, n)
        BY <1>3, <1>8, <3>1, NthInOrder
      <3>4. ASSUME NEW i \in (nth(R, n - 1) + 1)..(nth(R, n) - 1), chars[i] = Newline PROVE FALSE
        <4>0. nth(R, n) \in 1..Len(chars) /\ nth(R, n - 1) \in 1..Len(chars)
          BY <1>2, <1>5, <3>1
        <4>1. i \in 1..Len(chars) /\ i < nth(R, n) /\ i > nth(R, n - 1)
          BY <1>2, <3>4, <4>0
        <4>2. i \in R
          BY <1>1, <1>2, <3>4, <4>1 DEF Newlines
        <4>3. i <= nth(R, n - 1)
          BY <1>3, <4>1, <4>2, NthInOrder
        <4> QED BY <4>0, <4>1, <4>3
      <3> QED BY <3>2, <3>3, <3>4
    <2> QED BY <1>3, <1>8, <2>1, <2>2
  <1>9. ASSUME NEW i \in (endOf(chars, c) + 1)..Len(chars), chars[i] = Newline PROVE FALSE
    <2>0. endOf(chars, c) \in 0..Len(chars)
      BY <1>3, <1>7
    <2>1. i \in 1..Len(chars) /\ i > endOf(chars, c)
      BY <1>2, <1>9, <2>0
    <2>2. i \in R
      BY <1>1, <1>2, <1>9, <2>1 DEF Newlines
    <2>3. c > 0 /\ i <= nth(R, c)
      BY <1>3, <2>2, NthInOrder
    <2>4. endOf(chars, c) = nth(R, c)
      BY <1>3, <1>4, <2>3
    <2> QED BY <1>2, <2>0, <2>1, <2>3, <2>4
  <1>10. ASSUME NEW i \in 1..Len(chars), chars[i] = Newline
         PROVE  \E n \in 1..c : endOf(chars, n) = i
    <2>1. i \in R
      BY <1>1, <1>2, <1>10 DEF Newlines
    <2>2. place(R, i) \in 1..c /\ nth(R, place(R, i)) = i
      BY <1>3, <2>1, PlaceIs, NthIs
    <2> QED BY <1>4, <2>2
  <1>11. ASSUME NEW m \in 0..c, NEW n \in 0..c, m < n
         PROVE  endOf(chars, m) < endOf(chars, n)
    <2>1. n \in 1..c
      BY <1>3, <1>11
    <2>2. CASE m = 0
      BY <1>4, <1>6, <2>1, <2>2
    <2>3. CASE m \in 1..c
      BY <1>3, <1>4, <1>11, <2>1, <2>3, NthInOrder
    <2> QED BY <1>3, <2>2, <2>3
  <1> QED BY <1>3, <1>4, <1>6, <1>7, <1>8, <1>9, <1>10, <1>11

LEMMA SubSeqIs ==
    ASSUME NEW t \in Seq(Char), NEW a \in Nat, NEW b \in Int, a <= b, b <= Len(t)
    PROVE  /\ SubSeq(t, a + 1, b) \in Seq(Char)
           /\ Len(SubSeq(t, a + 1, b)) = b - a
           /\ DOMAIN SubSeq(t, a + 1, b) = 1..(b - a)
           /\ \A i \in 1..(b - a) : SubSeq(t, a + 1, b)[i] = t[a + i]
  <1>1. \A i \in (a + 1)..b : t[i] \in Char
    BY ElementOfSeq
  <1>2. PICK u : u = SubSeq(t, a + 1, b)
    OBVIOUS
  <1>3. /\ u \in Seq(Char) /\ Len(u) = IF a + 1 <= b THEN b - (a + 1) + 1 ELSE 0
        /\ \A i \in 1..(b - (a + 1) + 1) : u[i] = t[(a + 1) + i - 1]
    BY <1>1, <1>2, SubSeqProperties
  <1>4. Len(u) = b - a
    BY <1>3
  <1>5. DOMAIN u = 1..(b - a)
    BY <1>3, <1>4, LenProperties
  <1>6. ASSUME NEW i \in 1..(b - a) PROVE u[i] = t[a + i]
    <2>1. i \in 1..(b - (a + 1) + 1) /\ (a + 1) + i - 1 = a + i
      OBVIOUS
    <2> QED BY <1>3, <2>1
  <1> QED BY <1>2, <1>3, <1>4, <1>5, <1>6

\* Out of a cut come the lines that lie whole in the text, each once and in order.
\* The k lines of out lie at the places at, which are those of W, in order.
Places(chars, out, k, at, W) ==
    /\ at \in [1..k -> W]
    /\ \A w \in W : \E n \in 1..k : at[n] = w
    /\ \A n \in 1..k : out[n] = SubSeq(chars, at[n].from + 1, at[n].to - 1)
    /\ \A m, n \in 1..k : m < n => at[m].to < at[n].to

LEMMA CutKeepsWhole ==
    ASSUME NEW chars \in Seq(Char), NEW out, out = kept(cut(chars).lines)
    PROVE  /\ out \in Seq(Seq(Char)) /\ Len(out) \in Nat
           /\ \E at : Places(chars, out, Len(out), at, Whole(chars))
  <1>1. PICK c : c = Cardinality(Newlines(chars))
    OBVIOUS
  <1>2. PICK e : e = [n \in 0..c |-> endOf(chars, n)]
    OBVIOUS
  <1>3. PICK top \in Nat : top = Len(chars) /\ DOMAIN chars = 1..top
    BY LenProperties
  <1>4. c \in Nat
    BY <1>1, PartsBetween
  <1>5. \A n \in 1..c : n - 1 \in 0..c /\ n \in 0..c /\ n - 1 < n
    BY <1>4
  <1>6. /\ e[0] = 0 /\ e \in [0..c -> 0..top]
        /\ \A m, n \in 0..c : m < n => e[m] < e[n]
        /\ \A n \in 1..c : e[n] \in 1..top /\ chars[e[n]] = Newline
        /\ \A i \in 1..top : chars[i] = Newline => \E n \in 1..c : e[n] = i
    BY <1>1, <1>2, <1>3, <1>4, <1>5, PartsBetween
  <1>7. \A n \in 1..c : \A i \in (e[n - 1] + 1)..(e[n] - 1) : chars[i] # Newline
    BY <1>1, <1>2, <1>5, PartsBetween
  <1>8. PICK parts : parts = cut(chars).lines
    OBVIOUS
  <1>9. parts = [n \in 1..c |-> SubSeq(chars, e[n - 1] + 1, e[n] - 1)]
    BY <1>1, <1>2, <1>5, <1>8, Zenon DEF cut
  <1>10. ASSUME NEW n \in 1..c
         PROVE  notBlank(parts[n]) <=> \E i \in (e[n - 1] + 1)..(e[n] - 1) : chars[i] # Space
    <2>1. PICK a \in Nat, b \in Int : a = e[n - 1] /\ b = e[n] - 1 /\ a <= b /\ b <= top
      <3>1. n - 1 \in 0..c /\ n \in 0..c /\ n - 1 < n
        BY <1>5
      <3>2. e[n - 1] \in 0..top /\ e[n] \in 1..top /\ e[n - 1] < e[n]
        BY <1>6, <3>1
      <3> QED BY <3>2
    <2>2. PICK u : u = parts[n]
      OBVIOUS
    <2>3. DOMAIN u = 1..(b - a) /\ \A i \in 1..(b - a) : u[i] = chars[a + i]
      BY <1>3, <1>9, <2>1, <2>2, SubSeqIs
    <2>4. \A i \in (a + 1)..b : chars[i] # Newline
      BY <1>7, <2>1
    <2>5. ASSUME NEW i \in 1..(b - a), u[i] # Space
          PROVE  \E j \in (a + 1)..b : chars[j] # Space
      <3>1. a + i \in (a + 1)..b
        OBVIOUS
      <3> QED BY <2>3, <2>5, <3>1
    <2>6. ASSUME NEW j \in (a + 1)..b, chars[j] # Space
          PROVE  \E i \in 1..(b - a) : u[i] # Space /\ u[i] # Newline
      <3>1. j - a \in 1..(b - a) /\ a + (j - a) = j
        OBVIOUS
      <3>2. u[j - a] = chars[j]
        BY <2>3, <3>1
      <3> QED BY <2>4, <2>6, <3>1, <3>2
    <2> QED BY <2>1, <2>2, <2>3, <2>5, <2>6 DEF notBlank
  <1>11. PICK K : K = {n \in DOMAIN parts : notBlank(parts[n])}
    OBVIOUS
  <1>12. K \subseteq 1..c /\ (\A n \in K : n \in Nat) /\ IsFiniteSet(K)
    <2>1. K \subseteq 1..c /\ \A n \in K : n \in Nat
      BY <1>9, <1>11
    <2>2. IsFiniteSet(1..c)
      BY <1>4, FS_Interval
    <2> QED BY <2>1, <2>2, FS_Subset
  <1>13. PICK k \in Nat : k = Cardinality(K)
    BY <1>12, FS_CardinalityType
  <1>14. out = [n \in 1..k |-> parts[nth(K, n)]]
    BY <1>8, <1>11, <1>13 DEF kept
  <1>15. PICK p : p = [n \in 1..k |-> nth(K, n)]
    OBVIOUS
  <1>16. /\ p \in [1..k -> K] /\ \A m, n \in 1..k : m < n => p[m] < p[n]
         /\ \A i \in K : \E n \in 1..k : p[n] = i
    BY <1>12, <1>13, <1>15, NthIs, NthInOrder, PlaceIs
  <1>17. PICK at : at = [n \in 1..k |-> [from |-> e[p[n] - 1], to |-> e[p[n]]]]
    OBVIOUS
  <1>18. ASSUME NEW i \in K
         PROVE  [from |-> e[i - 1], to |-> e[i]] \in Whole(chars)
    <2>1. i \in 1..c /\ i - 1 \in 0..c /\ i \in 0..c /\ i - 1 < i /\ notBlank(parts[i])
      BY <1>5, <1>11, <1>12
    <2>2. e[i - 1] \in 0..top /\ e[i] \in 1..top /\ e[i - 1] < e[i] /\ chars[e[i]] = Newline
      BY <1>6, <2>1
    <2>3. e[i - 1] > 0 => chars[e[i - 1]] = Newline
      <3>1. CASE i = 1
        BY <1>6, <3>1
      <3>2. CASE i # 1
        <4>1. i - 1 \in 1..c
          BY <1>4, <2>1, <3>2
        <4> QED BY <1>6, <4>1
      <3> QED BY <3>1, <3>2
    <2>4. \A j \in (e[i - 1] + 1)..(e[i] - 1) : chars[j] # Newline
      BY <1>7, <2>1
    <2>5. \E j \in (e[i - 1] + 1)..(e[i] - 1) : chars[j] # Space
      BY <1>10, <2>1
    <2> QED BY <1>3, <2>2, <2>3, <2>4, <2>5 DEF Whole
  <1>19. at \in [1..k -> Whole(chars)]
    BY <1>16, <1>17, <1>18
  <1>20. ASSUME NEW w \in Whole(chars) PROVE \E n \in 1..k : at[n] = w
    <2>0. w \in [from : 0..top, to : 1..top]
      BY <1>3, <1>20 DEF Whole
    <2>1. /\ w = [from |-> w.from, to |-> w.to]
          /\ w.from \in 0..top /\ w.to \in 1..top /\ w.from < w.to /\ chars[w.to] = Newline
          /\ w.from > 0 => chars[w.from] = Newline
          /\ \A i \in (w.from + 1)..(w.to - 1) : chars[i] # Newline
          /\ \E i \in (w.from + 1)..(w.to - 1) : chars[i] # Space
      BY <2>0, <1>20 DEF Whole
    <2>2. PICK i \in 1..c : e[i] = w.to
      BY <1>6, <2>1
    <2>3. i - 1 \in 0..c /\ e[i - 1] \in 0..top /\ e[i - 1] < e[i]
      BY <1>5, <1>6
    <2>4. e[i - 1] <= w.from
      <3> SUFFICES ASSUME w.from < e[i - 1] PROVE FALSE
        BY <2>1, <2>3
      <3>1. e[i - 1] \in (w.from + 1)..(w.to - 1)
        BY <2>1, <2>2, <2>3
      <3>2. i - 1 \in 1..c
        <4>1. i # 1
          BY <1>6, <2>1
        <4> QED BY <1>4, <4>1
      <3> QED BY <1>6, <2>1, <3>1, <3>2
    <2>5. w.from <= e[i - 1]
      <3> SUFFICES ASSUME e[i - 1] < w.from PROVE FALSE
        BY <2>1, <2>3
      <3>1. w.from \in (e[i - 1] + 1)..(e[i] - 1) /\ w.from > 0
        BY <2>1, <2>2, <2>3
      <3> QED BY <1>7, <2>1, <3>1
    <2>6. e[i - 1] = w.from
      BY <2>1, <2>3, <2>4, <2>5
    <2>7. i \in K
      BY <1>9, <1>10, <1>11, <2>1, <2>2, <2>6
    <2>8. PICK n \in 1..k : p[n] = i
      BY <1>16, <2>7
    <2> QED BY <1>17, <2>1, <2>2, <2>6, <2>8
  <1>21. ASSUME NEW n \in 1..k
         PROVE  out[n] = SubSeq(chars, at[n].from + 1, at[n].to - 1)
    <2>1. p[n] \in 1..c
      BY <1>12, <1>16
    <2> QED BY <1>9, <1>14, <1>15, <1>17, <2>1
  <1>22. ASSUME NEW m \in 1..k, NEW n \in 1..k, m < n
         PROVE  at[m].to < at[n].to
    <2>1. p[m] \in 0..c /\ p[n] \in 0..c /\ p[m] < p[n]
      BY <1>5, <1>12, <1>16, <1>22
    <2> QED BY <1>6, <1>17, <2>1
  <1>23. out \in Seq(Seq(Char)) /\ Len(out) = k
    <2>1. ASSUME NEW n \in 1..k PROVE out[n] \in Seq(Char)
      <3>1. p[n] \in 1..c /\ p[n] \in 0..c /\ p[n] - 1 \in 0..c /\ p[n] - 1 < p[n]
        BY <1>5, <1>12, <1>16
      <3>2. PICK a \in Nat, b \in Int :
                  a = e[p[n] - 1] /\ b = e[p[n]] - 1 /\ a <= b /\ b <= top
        <4>1. e[p[n] - 1] \in 0..top /\ e[p[n]] \in 1..top /\ e[p[n] - 1] < e[p[n]]
          BY <1>6, <3>1
        <4> QED BY <4>1
      <3>3. out[n] = SubSeq(chars, a + 1, b)
        BY <1>9, <1>14, <1>15, <3>1, <3>2
      <3>4. b <= Len(chars)
        BY <1>3, <3>2
      <3>5. SubSeq(chars, a + 1, b) \in Seq(Char)
        BY <3>2, <3>4, SubSeqIs
      <3> QED BY <3>3, <3>5
    <2>2. out = [n \in 1..k |-> out[n]]
      BY <1>14
    <2> QED BY <2>1, <2>2
  <1>24. Places(chars, out, k, at, Whole(chars))
    BY <1>19, <1>20, <1>21, <1>22 DEF Places
  <1> QED BY <1>14, <1>23, <1>24

---------------------------------------------------------------------------
(* One 'data' event.                                                       *)

\* What was read since the last newline is the residual.
CarriedFrom(s, e) ==
    /\ e \in 0..read[s] /\ (e > 0 => text[s][e] = Newline)
    /\ \A i \in (e + 1)..read[s] : text[s][i] # Newline
    /\ residual = SubSeq(text[s], e + 1, read[s])

Carried == \A s \in Stream : \E e \in Nat : CarriedFrom(s, e)

Typed ==
    /\ text \in [Stream -> Seq(Char)] /\ read \in [Stream -> Nat]
    /\ \A s \in Stream : read[s] <= Len(text[s])
    /\ lines \in Seq(Seq(Char))

\* LinesSurvive says nothing of the line that has begun to arrive: Carried does.
IInv == Typed /\ Carried /\ LinesSurvive

\* Both pipes of the child feed one residual: two interleaved can glue their lines.
OnePipe == \A s, t \in Stream : s = t

\* A place in what follows the first e characters, as a place in the whole text.
later(w, e) == [from |-> e + w.from, to |-> e + w.to]

\* A line that is not blank lies between a and b.
Lies(chars, a, b) ==
    /\ a \in 0..Len(chars) /\ b \in 1..Len(chars) /\ a < b
    /\ chars[b] = Newline /\ (a > 0 => chars[a] = Newline)
    /\ \A i \in (a + 1)..(b - 1) : chars[i] # Newline
    /\ \E i \in (a + 1)..(b - 1) : chars[i] # Space

\* A line lies in what was read before (old), in the rest, or in neither.
LiesOn(old, now, rest, e) ==
    /\ \A a, b : Lies(old, a, b) => Lies(now, a, b) /\ b <= e
    /\ \A a, b : Lies(rest, a, b) => Lies(now, e + a, e + b) /\ e + b > e
    /\ \A a, b : Lies(now, a, b) => Lies(old, a, b) \/ (a >= e /\ Lies(rest, a - e, b - e))

LEMMA WholeLies ==
    ASSUME NEW chars
    PROVE  /\ \A a, b : Lies(chars, a, b) => [from |-> a, to |-> b] \in Whole(chars)
           /\ \A w \in Whole(chars) :
                 w = [from |-> w.from, to |-> w.to] /\ Lies(chars, w.from, w.to)
  <1>1. ASSUME NEW a, NEW b, Lies(chars, a, b) PROVE [from |-> a, to |-> b] \in Whole(chars)
    <2>1. PICK w : w = [from |-> a, to |-> b]
      OBVIOUS
    <2>2. w \in [from : 0..Len(chars), to : 1..Len(chars)] /\ w.from = a /\ w.to = b
      BY <1>1, <2>1 DEF Lies
    <2> QED BY <1>1, <2>1, <2>2 DEF Lies, Whole
  <1>2. ASSUME NEW w \in Whole(chars)
        PROVE  w = [from |-> w.from, to |-> w.to] /\ Lies(chars, w.from, w.to)
    <2>1. w \in [from : 0..Len(chars), to : 1..Len(chars)]
      BY <1>2 DEF Whole
    <2> QED BY <1>2, <2>1 DEF Lies, Whole
  <1> QED BY <1>1, <1>2

\* Whatever lies whole in what was read up to r + n lay whole up to r or does so in what
\* was carried over with the new chunk.
LEMMA LiesGrow ==
    ASSUME NEW t \in Seq(Char), NEW r \in Nat, NEW n \in Nat, r + n <= Len(t),
           NEW e \in 0..r, e > 0 => t[e] = Newline,
           \A i \in (e + 1)..r : t[i] # Newline,
           NEW old, old = SubSeq(t, 1, r), NEW now, now = SubSeq(t, 1, r + n),
           NEW rest, rest = SubSeq(t, e + 1, r + n)
    PROVE  LiesOn(old, now, rest, e)
  <1>1. /\ Len(old) = r /\ \A i \in 1..r : old[i] = t[i]
        /\ Len(now) = r + n /\ \A i \in 1..(r + n) : now[i] = t[i]
    BY SubSeqIs
  <1>2. PICK m \in Nat : m = r + n - e
    OBVIOUS
  <1>3. Len(rest) = m /\ \A i \in 1..m : rest[i] = t[e + i]
    BY <1>2, SubSeqIs
  <1>4. \A i \in 1..r : old[i] = now[i]
    BY <1>1
  <1>5. ASSUME NEW i \in 1..m PROVE e + i \in 1..(r + n) /\ now[e + i] = rest[i]
    <2>1. e + i \in 1..(r + n)
      BY <1>2
    <2> QED BY <1>1, <1>3, <2>1
  <1>6. ASSUME NEW a, NEW b, Lies(old, a, b) PROVE Lies(now, a, b) /\ b <= e
    <2>1. /\ a \in 0..r /\ b \in 1..r /\ a < b /\ a \in 0..(r + n) /\ b \in 1..(r + n)
          /\ \A i \in (a + 1)..(b - 1) : i \in 1..r
      <3>1. a \in 0..r /\ b \in 1..r /\ a < b
        BY <1>1, <1>6 DEF Lies
      <3> QED BY <3>1
    <2>2. b <= e
      <3> SUFFICES ASSUME b > e PROVE FALSE
        BY <2>1
      <3>1. b \in (e + 1)..r
        BY <2>1
      <3> QED BY <1>1, <1>6, <2>1, <3>1 DEF Lies
    <2>3. now[b] = Newline /\ (a > 0 => now[a] = Newline)
      BY <1>4, <1>6, <2>1 DEF Lies
    <2>4. /\ \A i \in (a + 1)..(b - 1) : now[i] # Newline
          /\ \E i \in (a + 1)..(b - 1) : now[i] # Space
      BY <1>4, <1>6, <2>1 DEF Lies
    <2> QED BY <1>1, <2>1, <2>2, <2>3, <2>4 DEF Lies
  <1>7. ASSUME NEW a, NEW b, Lies(rest, a, b)
        PROVE  Lies(now, e + a, e + b) /\ e + b > e
    <2>1. a \in 0..m /\ b \in 1..m /\ a < b
      BY <1>3, <1>7 DEF Lies
    <2>2. PICK f \in 0..(r + n), g \in 1..(r + n) : f = e + a /\ g = e + b /\ f < g /\ g > e
      BY <1>2, <2>1
    <2>3. now[g] = Newline
      BY <1>5, <1>7, <2>1, <2>2 DEF Lies
    <2>4. ASSUME f > 0 PROVE now[f] = Newline
      <3>1. CASE a = 0
        <4>1. f = e /\ f \in 1..(r + n)
          BY <2>1, <2>2, <2>4, <3>1
        <4> QED BY <1>1, <2>4, <4>1
      <3>2. CASE a \in 1..m
        <4>1. rest[a] = Newline
          BY <1>7, <3>2 DEF Lies
        <4> QED BY <1>5, <2>2, <3>2, <4>1
      <3>3. a = 0 \/ a \in 1..m
        BY <2>1
      <3> QED BY <3>1, <3>2, <3>3
    <2>5. ASSUME NEW i \in (f + 1)..(g - 1) PROVE now[i] # Newline
      <3>1. PICK j \in (a + 1)..(b - 1) : j \in 1..m /\ i = e + j
        <4>1. i - e \in (a + 1)..(b - 1) /\ i - e \in 1..m /\ i = e + (i - e)
          BY <2>1, <2>2
        <4> QED BY <4>1
      <3>2. rest[j] # Newline
        BY <1>7 DEF Lies
      <3> QED BY <1>5, <3>1, <3>2
    <2>6. \E i \in (f + 1)..(g - 1) : now[i] # Space
      <3>1. PICK j \in (a + 1)..(b - 1) : rest[j] # Space
        BY <1>7 DEF Lies
      <3>2. e + j \in (f + 1)..(g - 1) /\ j \in 1..m
        BY <2>1, <2>2
      <3> QED BY <1>5, <3>1, <3>2
    <2> QED BY <1>1, <2>2, <2>3, <2>4, <2>5, <2>6 DEF Lies
  <1>8. ASSUME NEW a, NEW b, Lies(now, a, b)
        PROVE  Lies(old, a, b) \/ (a >= e /\ Lies(rest, a - e, b - e))
    <2>1. a \in 0..(r + n) /\ b \in 1..(r + n) /\ a < b
      BY <1>1, <1>8 DEF Lies
    <2>2. CASE b <= r
      <3>1. a \in 0..r /\ b \in 1..r /\ \A i \in (a + 1)..(b - 1) : i \in 1..r
        BY <2>1, <2>2
      <3>2. old[b] = Newline /\ (a > 0 => old[a] = Newline)
        BY <1>4, <1>8, <3>1 DEF Lies
      <3>3. /\ \A i \in (a + 1)..(b - 1) : old[i] # Newline
            /\ \E i \in (a + 1)..(b - 1) : old[i] # Space
        BY <1>4, <1>8, <3>1 DEF Lies
      <3>4. Lies(old, a, b)
        BY <1>1, <2>1, <3>1, <3>2, <3>3 DEF Lies
      <3> QED BY <3>4
    <2>3. CASE b > r
      <3>1. a >= e
        <4> SUFFICES ASSUME a < e PROVE FALSE
          BY <2>1
        <4>1. e \in (a + 1)..(b - 1) /\ e > 0 /\ e \in 1..(r + n)
          BY <2>1, <2>3
        <4>2. now[e] # Newline
          BY <1>8, <4>1 DEF Lies
        <4> QED BY <1>1, <4>1, <4>2
      <3>2. PICK f \in 0..m, g \in 1..m : f = a - e /\ g = b - e /\ a = e + f /\ b = e + g /\ f < g
        BY <1>2, <2>1, <2>3, <3>1
      <3>3. rest[g] = Newline
        BY <1>5, <1>8, <3>2 DEF Lies
      <3>4. ASSUME f > 0 PROVE rest[f] = Newline
        <4>1. f \in 1..m /\ a > 0
          BY <3>2, <3>4
        <4> QED BY <1>5, <1>8, <3>2, <4>1 DEF Lies
      <3>5. ASSUME NEW i \in (f + 1)..(g - 1) PROVE rest[i] # Newline
        <4>1. e + i \in (a + 1)..(b - 1) /\ i \in 1..m
          BY <3>2
        <4>2. now[e + i] # Newline
          BY <1>8, <4>1 DEF Lies
        <4> QED BY <1>5, <4>1, <4>2
      <3>6. \E i \in (f + 1)..(g - 1) : rest[i] # Space
        <4>1. PICK i \in (a + 1)..(b - 1) : now[i] # Space
          BY <1>8 DEF Lies
        <4>2. PICK j \in (f + 1)..(g - 1) : i = e + j /\ j \in 1..m
          <5>1. i - e \in (f + 1)..(g - 1) /\ i - e \in 1..m /\ i = e + (i - e)
            BY <3>2
          <5> QED BY <5>1
        <4> QED BY <1>5, <4>1, <4>2
      <3>7. Lies(rest, f, g)
        BY <1>3, <3>2, <3>3, <3>4, <3>5, <3>6 DEF Lies
      <3> QED BY <3>1, <3>2, <3>7
    <2> QED BY <2>1, <2>2, <2>3
  <1> QED BY <1>6, <1>7, <1>8 DEF LiesOn


LEMMA SubSeqTwice ==
    ASSUME NEW t \in Seq(Char), NEW e \in Nat, NEW b \in Nat, e <= b, b <= Len(t),
           NEW a \in Nat, NEW c \in Int, a <= c, c <= b - e
    PROVE  SubSeq(SubSeq(t, e + 1, b), a + 1, c) = SubSeq(t, e + a + 1, e + c)
  <1>1. PICK u : u = SubSeq(t, e + 1, b)
    OBVIOUS
  <1>2. u \in Seq(Char) /\ Len(u) = b - e /\ \A i \in 1..(b - e) : u[i] = t[e + i]
    BY <1>1, SubSeqIs
  <1>3. PICK v : v = SubSeq(u, a + 1, c)
    OBVIOUS
  <1>4. v \in Seq(Char) /\ Len(v) = c - a /\ \A i \in 1..(c - a) : v[i] = u[a + i]
    BY <1>2, <1>3, SubSeqIs
  <1>5. PICK d \in Nat, g \in Int : d = e + a /\ g = e + c /\ d <= g /\ g <= Len(t) /\ g - d = c - a
    <2>1. Len(t) \in Nat
      BY LenProperties
    <2> QED BY <2>1
  <1>6. PICK w : w = SubSeq(t, d + 1, g)
    OBVIOUS
  <1>7. w \in Seq(Char) /\ Len(w) = c - a /\ \A i \in 1..(c - a) : w[i] = t[d + i]
    BY <1>5, <1>6, SubSeqIs
  <1>8. ASSUME NEW i \in 1..(c - a) PROVE v[i] = w[i]
    <2>1. a + i \in 1..(b - e) /\ e + (a + i) = d + i
      BY <1>5
    <2> QED BY <1>2, <1>4, <1>7, <2>1
  <1>9. v = w
    BY <1>4, <1>7, <1>8, SeqEqual
  <1>10. e + a + 1 = d + 1
    BY <1>5
  <1> QED BY <1>1, <1>3, <1>5, <1>6, <1>9, <1>10

\* What is whole once n more have been read: what was, and what is whole in the rest.
Grows(t, old, now, rest, e) ==
    /\ \A w \in Whole(old) : w \in Whole(now) /\ w.to \in Nat /\ w.to <= e
    /\ \A w \in Whole(rest) :
          /\ later(w, e) \in Whole(now) /\ later(w, e).to > e /\ w.to \in Nat
          /\ SubSeq(rest, w.from + 1, w.to - 1)
                = SubSeq(t, later(w, e).from + 1, later(w, e).to - 1)
    /\ \A w \in Whole(now) : w \in Whole(old) \/ \E v \in Whole(rest) : w = later(v, e)

LEMMA WholeGrows ==
    ASSUME NEW t \in Seq(Char), NEW r \in Nat, NEW n \in Nat, r + n <= Len(t),
           NEW e \in 0..r, e > 0 => t[e] = Newline,
           \A i \in (e + 1)..r : t[i] # Newline,
           NEW old, old = SubSeq(t, 1, r), NEW now, now = SubSeq(t, 1, r + n),
           NEW rest, rest = SubSeq(t, e + 1, r + n)
    PROVE  Grows(t, old, now, rest, e)
  <1>1. /\ \A a, b : Lies(old, a, b) => Lies(now, a, b) /\ b <= e
        /\ \A a, b : Lies(rest, a, b) => Lies(now, e + a, e + b) /\ e + b > e
        /\ \A a, b : Lies(now, a, b) =>
              Lies(old, a, b) \/ (a >= e /\ Lies(rest, a - e, b - e))
    <2>1. LiesOn(old, now, rest, e)
      BY LiesGrow
    <2> QED BY <2>1 DEF LiesOn
  <1>2. Len(old) = r /\ Len(now) = r + n /\ Len(rest) = r + n - e
    BY SubSeqIs
  <1>3. ASSUME NEW w \in Whole(old) PROVE w \in Whole(now) /\ w.to \in Nat /\ w.to <= e
    <2>1. w = [from |-> w.from, to |-> w.to] /\ Lies(old, w.from, w.to)
      BY WholeLies
    <2>2. Lies(now, w.from, w.to) /\ w.to <= e
      BY <1>1, <2>1
    <2>3. w.to \in Nat
      BY <1>2, <2>1 DEF Lies
    <2> QED BY <2>1, <2>2, <2>3, WholeLies
  <1>4. ASSUME NEW w \in Whole(rest)
        PROVE  /\ later(w, e) \in Whole(now) /\ later(w, e).to > e /\ w.to \in Nat
               /\ SubSeq(rest, w.from + 1, w.to - 1)
                     = SubSeq(t, later(w, e).from + 1, later(w, e).to - 1)
    <2>1. Lies(rest, w.from, w.to)
      BY WholeLies
    <2>2. PICK a \in Nat, b \in Nat : a = w.from /\ b = w.to /\ a < b /\ b <= r + n - e
      BY <1>2, <2>1 DEF Lies
    <2>3. Lies(now, e + a, e + b) /\ e + b > e
      BY <1>1, <2>1, <2>2
    <2>4. later(w, e) = [from |-> e + a, to |-> e + b]
      BY <2>2 DEF later
    <2>5. SubSeq(rest, a + 1, b - 1) = SubSeq(t, e + a + 1, e + (b - 1))
      <3>1. PICK top \in Nat : top = r + n /\ top <= Len(t) /\ e <= top
        OBVIOUS
      <3>2. e \in Nat /\ b - 1 \in Int /\ a <= b - 1 /\ b - 1 <= top - e
        <4>1. a < b /\ b <= r + n - e
          BY <2>2
        <4> QED BY <3>1, <4>1
      <3>3. rest = SubSeq(t, e + 1, top)
        BY <3>1
      <3>4. SubSeq(SubSeq(t, e + 1, top), a + 1, b - 1) = SubSeq(t, e + a + 1, e + (b - 1))
        BY <3>1, <3>2, SubSeqTwice
      <3> QED BY <3>3, <3>4
    <2>6. later(w, e).from = e + a /\ later(w, e).to = e + b /\ e + (b - 1) = e + b - 1
      BY <2>2, <2>4
    <2>7. later(w, e) \in Whole(now)
      BY <2>3, <2>4, WholeLies
    <2>8. /\ SubSeq(rest, w.from + 1, w.to - 1) = SubSeq(rest, a + 1, b - 1)
          /\ SubSeq(t, later(w, e).from + 1, later(w, e).to - 1) = SubSeq(t, e + a + 1, e + (b - 1))
      <3>1. w.from + 1 = a + 1 /\ w.to - 1 = b - 1
        BY <2>2
      <3>2. later(w, e).from + 1 = e + a + 1 /\ later(w, e).to - 1 = e + (b - 1)
        <4>1. e \in Nat /\ e + b - 1 = e + (b - 1)
          OBVIOUS
        <4> QED BY <2>6, <4>1
      <3> QED BY <3>1, <3>2, Zenon
    <2> QED BY <2>2, <2>3, <2>5, <2>6, <2>7, <2>8
  <1>5. ASSUME NEW w \in Whole(now)
        PROVE  w \in Whole(old) \/ \E v \in Whole(rest) : w = later(v, e)
    <2>1. w = [from |-> w.from, to |-> w.to] /\ Lies(now, w.from, w.to)
      BY WholeLies
    <2>2. CASE Lies(old, w.from, w.to)
      BY <2>1, <2>2, WholeLies
    <2>3. CASE Lies(rest, w.from - e, w.to - e)
      <3>1. PICK v : v = [from |-> w.from - e, to |-> w.to - e]
        OBVIOUS
      <3>2. v \in Whole(rest)
        BY <2>3, <3>1, WholeLies
      <3>3. w.from \in Nat /\ w.to \in Nat
        BY <1>2, <2>1 DEF Lies
      <3>4. e + (w.from - e) = w.from /\ e + (w.to - e) = w.to
        BY <3>3
      <3>5. w = later(v, e)
        BY <2>1, <3>1, <3>4 DEF later
      <3> QED BY <3>2, <3>5
    <2> QED BY <1>1, <2>1, <2>2, <2>3
  <1> QED BY <1>3, <1>4, <1>5 DEF Grows

\* Where the pipe is one, a line that arrived is known by its place.
LEMMA OnePipeArrived ==
    ASSUME NEW s \in Stream, OnePipe
    PROVE  Stream = {s} /\ Arrived = {s} \X Whole(Delivered(s))
  BY DEF OnePipe, Arrived

LEMMA IInvInit == Init => IInv
  <1> SUFFICES ASSUME Init PROVE IInv
    OBVIOUS
  <1>1. text \in [Stream -> Seq(Char)]
    <2>1. \A m \in 0..MaxText : [1..m -> Char] \subseteq Seq(Char)
      BY LogAssumption
    <2>2. UNION {[1..m -> Char] : m \in 0..MaxText} \subseteq Seq(Char)
      BY <2>1
    <2> QED BY <2>2 DEF Init
  <1>2. Typed
    <2>1. \A s \in Stream : read[s] = 0 /\ Len(text[s]) \in Nat
      BY <1>1 DEF Init
    <2> QED BY <1>1, <2>1 DEF Init, Typed
  <1>3. ASSUME NEW s \in Stream PROVE CarriedFrom(s, 0)
    <2>1. text[s] \in Seq(Char) /\ read[s] = 0
      BY <1>1 DEF Init
    <2>2. SubSeq(text[s], 0 + 1, 0) = <<>>
      BY SubSeqEmpty
    <2> QED BY <2>1, <2>2 DEF CarriedFrom, Init
  <1>4. Arrived = {}
    <2> SUFFICES ASSUME NEW s \in Stream, NEW w \in Whole(Delivered(s)) PROVE FALSE
      BY DEF Arrived
    <2>1. Delivered(s) = <<>>
      BY SubSeqEmpty DEF Delivered, Init
    <2>2. w.to \in 1..0
      BY <2>1 DEF Whole
    <2> QED BY <2>2
  <1>5. LinesSurvive
    <2>1. DOMAIN lines = {}
      BY DEF Init
    <2>2. [n \in {} |-> n] \in [DOMAIN lines -> Arrived]
      BY <2>1
    <2> QED BY <1>4, <2>1, <2>2 DEF LinesSurvive
  <1> QED BY <1>2, <1>3, <1>5 DEF IInv, Carried

LEMMA DataStep ==
    ASSUME IInv, OnePipe, NEW s \in Stream, NEW n \in 1..MaxText, Data(s, n)
    PROVE  IInv'
  <1>1. PICK t \in Seq(Char), r \in Nat : t = text[s] /\ r = read[s] /\ r <= Len(t)
    BY DEF IInv, Typed
  <1>2. PICK e \in 0..r : /\ e > 0 => t[e] = Newline
                          /\ \A i \in (e + 1)..r : t[i] # Newline
                          /\ residual = SubSeq(t, e + 1, r)
    BY <1>1 DEF IInv, Carried, CarriedFrom
  <1>3. PICK top \in Nat : top = r + n /\ top <= Len(t) /\ r < top
    BY <1>1, LogAssumption DEF Data
  <1>4. PICK rest : rest = SubSeq(t, e + 1, top)
    OBVIOUS
  <1>5. residual \o SubSeq(t, r + 1, top) = rest
    <2>1. /\ e + 1 \in 1..(Len(t) + 1) /\ r \in ((e + 1) - 1)..Len(t) /\ top \in r..Len(t)
      BY <1>1, <1>3, LenProperties
    <2> QED BY <1>2, <1>4, <2>1, ConcatAdjacentSubSeq
  <1>6. PICK m \in Nat : m = top - e
    BY <1>3
  <1>7. rest \in Seq(Char) /\ Len(rest) = m /\ \A i \in 1..m : rest[i] = t[e + i]
    BY <1>3, <1>4, <1>6, SubSeqIs
  <1>8. PICK out : out = kept(cut(rest).lines)
    OBVIOUS
  <1>9. /\ residual' = cut(rest).residual /\ lines' = lines \o out
        /\ text' = text /\ read' = [read EXCEPT ![s] = top]
    BY <1>1, <1>3, <1>5, <1>8 DEF Data, splitLines
  <1>10. Stream = {s} /\ text'[s] = t /\ read'[s] = top
    BY <1>1, <1>9, OnePipeArrived DEF IInv, Typed
  <1>11. PICK k \in Nat : out \in Seq(Seq(Char)) /\ Len(out) = k
    BY <1>7, <1>8, CutKeepsWhole
  <1>12. PICK pos : Places(rest, out, k, pos, Whole(rest))
    BY <1>7, <1>8, <1>11, CutKeepsWhole
  <1>13. /\ out \in Seq(Seq(Char)) /\ Len(out) = k
         /\ pos \in [1..k -> Whole(rest)]
         /\ \A w \in Whole(rest) : \E i \in 1..k : pos[i] = w
         /\ \A i \in 1..k : out[i] = SubSeq(rest, pos[i].from + 1, pos[i].to - 1)
         /\ \A i, j \in 1..k : i < j => pos[i].to < pos[j].to
    BY <1>11, <1>12 DEF Places
  <1>14. Typed'
    <2>1. lines \o out \in Seq(Seq(Char))
      BY <1>13, ConcatProperties DEF IInv, Typed
    <2> QED BY <1>1, <1>3, <1>9, <1>10, <2>1 DEF IInv, Typed
  <1>15. Carried'
    <2>1. PICK c : c = Cardinality(Newlines(rest))
      OBVIOUS
    <2>2. PICK z : z = endOf(rest, c)
      OBVIOUS
    <2>3. /\ c \in Nat /\ z \in 0..m
          /\ z > 0 => rest[z] = Newline
          /\ \A i \in (z + 1)..m : rest[i] # Newline
      <3>1. c \in Nat /\ z \in 0..m /\ (\A i \in (z + 1)..m : rest[i] # Newline)
        <4>1. c \in Nat /\ endOf(rest, c) \in 0..Len(rest)
          BY <1>7, <2>1, PartsBetween
        <4>2. \A i \in (endOf(rest, c) + 1)..Len(rest) : rest[i] # Newline
          BY <1>7, <2>1, PartsBetween
        <4> QED BY <1>7, <2>2, <4>1, <4>2
      <3>2. CASE c = 0
        <4>1. endOf(rest, 0) = 0
          BY DEF endOf
        <4> QED BY <2>2, <3>1, <3>2, <4>1
      <3>3. CASE c # 0
        <4>1. c \in 1..c
          BY <3>1, <3>3
        <4>2. rest[endOf(rest, c)] = Newline
          BY <1>7, <2>1, <4>1, PartsBetween
        <4> QED BY <2>2, <3>1, <4>2
      <3> QED BY <3>2, <3>3
    <2>4. residual' = SubSeq(rest, z + 1, m)
      BY <1>7, <1>9, <2>1, <2>2, Zenon DEF cut
    <2>5. PICK f \in 0..top : f = e + z
      BY <1>6, <2>3
    <2>6. residual' = SubSeq(t, f + 1, top)
      <3>1. e \in Nat /\ e <= top /\ z \in Nat /\ m \in Int /\ z <= m /\ m <= top - e
        BY <1>3, <1>6, <2>3
      <3>2. SubSeq(SubSeq(t, e + 1, top), z + 1, m) = SubSeq(t, e + z + 1, e + m)
        BY <1>3, <3>1, SubSeqTwice
      <3>3. e + m = top
        BY <1>6
      <3> QED BY <1>4, <2>4, <2>5, <3>2, <3>3
    <2>7. ASSUME f > 0 PROVE t[f] = Newline
      <3>1. CASE z = 0
        BY <1>2, <2>5, <2>7, <3>1
      <3>2. CASE z \in 1..m
        BY <1>7, <2>3, <2>5, <3>2
      <3> QED BY <2>3, <3>1, <3>2
    <2>8. ASSUME NEW i \in (f + 1)..top PROVE t[i] # Newline
      <3>1. PICK j \in (z + 1)..m : i = e + j /\ j \in 1..m
        <4>1. i - e \in (z + 1)..m /\ i - e \in 1..m /\ i = e + (i - e)
          BY <1>6, <2>3, <2>5
        <4> QED BY <4>1
      <3> QED BY <1>7, <2>3, <3>1
    <2>9. CarriedFrom(s, f)'
      BY <1>10, <2>5, <2>6, <2>7, <2>8 DEF CarriedFrom
    <2>10. \A u \in Stream : \E g \in Nat : CarriedFrom(u, g)'
      BY <1>10, <2>5, <2>9
    <2> QED BY <2>10 DEF Carried
  <1>16. LinesSurvive'
    <2>1. PICK old, now : old = Delivered(s) /\ now = Delivered(s)'
      OBVIOUS
    <2>2. old = SubSeq(t, 1, r) /\ now = SubSeq(t, 1, r + n) /\ rest = SubSeq(t, e + 1, r + n)
      BY <1>1, <1>3, <1>4, <1>10, <2>1 DEF Delivered
    <2>3. /\ \A w \in Whole(old) : w \in Whole(now) /\ w.to \in Nat /\ w.to <= e
          /\ \A w \in Whole(rest) :
                /\ later(w, e) \in Whole(now) /\ later(w, e).to > e /\ w.to \in Nat
                /\ SubSeq(rest, w.from + 1, w.to - 1)
                      = SubSeq(t, later(w, e).from + 1, later(w, e).to - 1)
          /\ \A w \in Whole(now) : w \in Whole(old) \/ \E v \in Whole(rest) : w = later(v, e)
      <3>1. n \in Nat /\ r + n <= Len(t)
        BY <1>3, LogAssumption
      <3>2. Grows(t, old, now, rest, e)
        BY <1>2, <2>2, <3>1, WholeGrows
      <3> QED BY <3>2 DEF Grows
    <2>4. Arrived = {s} \X Whole(old) /\ Arrived' = {s} \X Whole(now)
      <3>1. Arrived = {s} \X Whole(Delivered(s))
        BY OnePipeArrived
      <3>2. Arrived' = {s} \X Whole(Delivered(s)')
        BY <1>10 DEF Arrived
      <3> QED BY <2>1, <3>1, <3>2
    <2>5. PICK at \in [DOMAIN lines -> Arrived] :
             /\ \A a \in Arrived : \E i \in DOMAIN lines : at[i] = a
             /\ \A i \in DOMAIN lines : lines[i] = LineAt(at[i][1], at[i][2])
             /\ \A i, j \in DOMAIN lines :
                   i < j /\ at[i][1] = at[j][1] => at[i][2].to < at[j][2].to
      BY DEF IInv, LinesSurvive
    <2>6. PICK l \in Nat : l = Len(lines) /\ DOMAIN lines = 1..l /\ lines \in Seq(Seq(Char))
      BY LenProperties DEF IInv, Typed
    <2>7. PICK h : h = [i \in 1..l |-> at[i][2]]
      OBVIOUS
    <2>8. /\ h \in [1..l -> Whole(old)]
          /\ \A w \in Whole(old) : \E i \in 1..l : h[i] = w
          /\ \A i \in 1..l : lines[i] = SubSeq(t, h[i].from + 1, h[i].to - 1)
          /\ \A i, j \in 1..l : i < j => h[i].to < h[j].to
      <3>1. ASSUME NEW i \in 1..l
            PROVE  at[i] = <<s, h[i]>> /\ at[i][1] = s /\ at[i][2] = h[i] /\ h[i] \in Whole(old)
        <4>1. at[i] \in {s} \X Whole(old)
          BY <2>4, <2>5, <2>6
        <4>2. h[i] = at[i][2]
          BY <2>7
        <4> QED BY <4>1, <4>2
      <3>2. ASSUME NEW w \in Whole(old) PROVE \E i \in 1..l : h[i] = w
        <4>1. <<s, w>> \in Arrived
          BY <2>4
        <4>2. PICK i \in 1..l : at[i] = <<s, w>>
          BY <2>5, <2>6, <4>1
        <4> QED BY <2>7, <4>2
      <3>3. \A i \in 1..l : lines[i] = SubSeq(t, h[i].from + 1, h[i].to - 1)
        <4>1. \A i \in 1..l : lines[i] = LineAt(s, h[i])
          BY <2>5, <2>6, <3>1, Zenon
        <4>2. \A w : LineAt(s, w) = SubSeq(t, w.from + 1, w.to - 1)
          BY <1>1 DEF LineAt
        <4> QED BY <4>1, <4>2, Zenon
      <3>4. ASSUME NEW i \in 1..l, NEW j \in 1..l, i < j PROVE h[i].to < h[j].to
        <4>1. at[i][1] = at[j][1] /\ at[i][2] = h[i] /\ at[j][2] = h[j]
          BY <3>1
        <4>2. at[i][2].to < at[j][2].to
          BY <2>5, <2>6, <3>4, <4>1
        <4> QED BY <4>1, <4>2
      <3> QED BY <2>7, <3>1, <3>2, <3>3, <3>4
    <2>9. PICK g : g = [i \in 1..(l + k) |-> IF i <= l THEN h[i] ELSE later(pos[i - l], e)]
      OBVIOUS
    <2>10. /\ \A i \in 1..l : g[i] = h[i] /\ i \in 1..(l + k)
           /\ \A i \in 1..k : g[l + i] = later(pos[i], e) /\ l + i \in 1..(l + k)
           /\ \A i \in 1..(l + k) : i \in 1..l \/ (i - l \in 1..k /\ i = l + (i - l))
      <3>1. \A i \in 1..l : i \in 1..(l + k)
        BY <2>6
      <3>2. ASSUME NEW i \in 1..k PROVE g[l + i] = later(pos[i], e) /\ l + i \in 1..(l + k)
        <4>1. l + i \in 1..(l + k) /\ ~ (l + i <= l) /\ (l + i) - l = i
          OBVIOUS
        <4> QED BY <2>9, <4>1
      <3>3. \A i \in 1..(l + k) : i \in 1..l \/ (i - l \in 1..k /\ i = l + (i - l))
        OBVIOUS
      <3> QED BY <2>9, <3>1, <3>2, <3>3
    <2>11. ASSUME NEW i \in 1..(l + k)
           PROVE  g[i] \in Whole(now) /\ lines'[i] = SubSeq(t, g[i].from + 1, g[i].to - 1)
      <3>1. CASE i \in 1..l
        <4>1. lines'[i] = lines[i]
          BY <1>9, <1>13, <2>6, <3>1, ConcatProperties
        <4> QED BY <2>3, <2>8, <2>10, <3>1, <4>1
      <3>2. ASSUME NEW j \in 1..k, i = l + j
            PROVE  g[i] \in Whole(now) /\ lines'[i] = SubSeq(t, g[i].from + 1, g[i].to - 1)
        <4>1. lines'[i] = out[j]
          <5>1. (lines \o out)[i] = IF i <= l THEN lines[i] ELSE out[i - l]
            BY <1>13, <2>6, ConcatProperties
          <5>2. ~ (i <= l) /\ i - l = j
            BY <3>2
          <5> QED BY <1>9, <5>1, <5>2
        <4>2. pos[j] \in Whole(rest) /\ g[i] = later(pos[j], e)
          BY <1>13, <2>10, <3>2
        <4> QED BY <1>13, <2>3, <4>1, <4>2
      <3> QED BY <2>10, <3>1, <3>2
    <2>12. ASSUME NEW w \in Whole(now) PROVE \E i \in 1..(l + k) : g[i] = w
      <3>1. CASE w \in Whole(old)
        BY <2>8, <2>10, <3>1
      <3>2. ASSUME NEW v \in Whole(rest), w = later(v, e) PROVE \E i \in 1..(l + k) : g[i] = w
        <4>1. PICK i \in 1..k : pos[i] = v
          BY <1>13
        <4> QED BY <2>10, <3>2, <4>1
      <3> QED BY <2>3, <3>1, <3>2
    <2>13. ASSUME NEW i \in 1..(l + k), NEW j \in 1..(l + k), i < j
           PROVE  g[i].to < g[j].to
      <3>1. CASE j \in 1..l
        <4>1. i \in 1..l
          BY <2>13, <3>1
        <4> QED BY <2>8, <2>10, <2>13, <3>1, <4>1
      <3>2. CASE i \in 1..l /\ j - l \in 1..k
        <4>1. g[i] = h[i] /\ h[i] \in Whole(old) /\ h[i].to \in Nat /\ h[i].to <= e
          BY <2>3, <2>8, <2>10, <3>2
        <4>2. g[j] = later(pos[j - l], e) /\ pos[j - l] \in Whole(rest)
          BY <1>13, <2>9, <3>2
        <4>3. pos[j - l].to \in Nat /\ g[j].to > e /\ g[j].to = e + pos[j - l].to
          BY <2>3, <4>2 DEF later
        <4> QED BY <4>1, <4>3
      <3>3. CASE i - l \in 1..k /\ j - l \in 1..k
        <4>1. PICK p \in 1..k, q \in 1..k : i = l + p /\ j = l + q /\ p < q
          <5>1. i = l + (i - l) /\ j = l + (j - l) /\ i - l < j - l
            BY <2>13
          <5> QED BY <3>3, <5>1
        <4>2. g[i] = later(pos[p], e) /\ g[j] = later(pos[q], e)
          BY <2>10, <4>1
        <4>3. pos[p].to \in Nat /\ pos[q].to \in Nat /\ pos[p].to < pos[q].to
          BY <1>13, <2>3, <4>1
        <4>4. g[i].to = e + pos[p].to /\ g[j].to = e + pos[q].to
          BY <4>2 DEF later
        <4> QED BY <4>3, <4>4
      <3> QED BY <2>10, <3>1, <3>2, <3>3
    <2>14. PICK at2 : at2 = [i \in 1..(l + k) |-> <<s, g[i]>>]
      OBVIOUS
    <2>15. DOMAIN lines' = 1..(l + k)
      <3>1. lines \o out \in Seq(Seq(Char)) /\ Len(lines \o out) = l + k
        BY <1>13, <2>6, ConcatProperties
      <3> QED BY <1>9, <3>1, LenProperties
    <2>16. at2 \in [DOMAIN lines' -> Arrived']
      BY <2>4, <2>11, <2>14, <2>15
    <2>17. ASSUME NEW a \in Arrived' PROVE \E i \in DOMAIN lines' : at2[i] = a
      <3>1. PICK w \in Whole(now) : a = <<s, w>>
        BY <2>4
      <3> QED BY <2>12, <2>14, <2>15, <3>1
    <2>18. ASSUME NEW i \in DOMAIN lines'
           PROVE  lines'[i] = LineAt(at2[i][1], at2[i][2])'
      <3>1. at2[i] = <<s, g[i]>> /\ i \in 1..(l + k)
        BY <2>14, <2>15
      <3> QED BY <1>10, <2>11, <3>1 DEF LineAt
    <2>19. ASSUME NEW i \in DOMAIN lines', NEW j \in DOMAIN lines', i < j
           PROVE  at2[i][2].to < at2[j][2].to
      BY <2>13, <2>14, <2>15, <2>19
    <2> QED BY <2>16, <2>17, <2>18, <2>19 DEF LinesSurvive
  <1> QED BY <1>14, <1>15, <1>16 DEF IInv

LEMMA IInvStep == OnePipe /\ IInv /\ [Next]_vars => IInv'
  <1> SUFFICES ASSUME OnePipe, IInv, [Next]_vars PROVE IInv'
    OBVIOUS
  <1>1. CASE Next
    BY <1>1, DataStep DEF Next
  <1>2. CASE UNCHANGED vars
    <2>1. text' = text /\ read' = read /\ residual' = residual /\ lines' = lines
      BY <1>2 DEF vars
    <2>2. Typed'
      BY <2>1 DEF IInv, Typed
    <2>3. Carried'
      BY <2>1 DEF IInv, Carried, CarriedFrom
    <2>4. Arrived' = Arrived
      BY <2>1 DEF Arrived, Delivered
    <2>5. \A s, w : LineAt(s, w)' = LineAt(s, w)
      BY <2>1 DEF LineAt
    <2>6. LinesSurvive'
      BY <2>1, <2>4, <2>5 DEF IInv, LinesSurvive
    <2> QED BY <2>2, <2>3, <2>6 DEF IInv
  <1> QED BY <1>1, <1>2

---------------------------------------------------------------------------
\* While one pipe feeds the residual, the lines absorbed are exactly the lines that
\* arrived whole, each once and in order, wherever the chunks end (service.js:60-74,
\* test/service.test.js:29), for a text of any length in any characters.
THEOREM LinesSurviveOnePipe ==
    ASSUME OnePipe
    PROVE  Spec => []LinesSurvive
  <1>1. Init => IInv
    BY IInvInit
  <1>2. IInv /\ [Next]_vars => IInv'
    BY IInvStep
  <1>3. IInv => LinesSurvive
    BY DEF IInv
  <1> QED BY <1>1, <1>2, <1>3, PTL DEF Spec
=============================================================================
