---------------------------- MODULE SublistProofs ----------------------------
(***************************************************************************)
(* What a picked part of a sequence is made of: the elements at the picked *)
(* positions, each once and in their order.                                *)
(***************************************************************************)
EXTENDS Sublist, Integers, SequencesExt, FunctionTheorems, FiniteSetTheorems, SequenceTheorems, TLAPS

\* Counting the members of a set of naturals up to one of them numbers the set, in its
\* order.
LEMMA Ranks ==
  ASSUME NEW L \in Nat, NEW T \in SUBSET (1..L)
  PROVE  /\ IsFiniteSet(T) /\ Cardinality(T) \in Nat
         /\ \A i \in T : Cardinality({j \in T : j <= i}) \in 1..Cardinality(T)
         /\ \A i, k \in T : i < k =>
              Cardinality({j \in T : j <= i}) < Cardinality({j \in T : j <= k})
         /\ \A n \in 1..Cardinality(T) :
              \E i \in T : Cardinality({j \in T : j <= i}) = n
<1>1. IsFiniteSet(1..L)
  BY FS_Interval
<1>2. IsFiniteSet(T) /\ Cardinality(T) \in Nat
  BY <1>1, FS_Subset, FS_CardinalityType
<1> DEFINE upTo(i) == {j \in T : j <= i}
           rank == [i \in T |-> Cardinality(upTo(i))]
           N == 1..Cardinality(T)
<1>3. \A i \in T : rank[i] \in N
  <2>. TAKE i \in T
  <2>1. IsFiniteSet(upTo(i)) /\ Cardinality(upTo(i)) <= Cardinality(T)
    BY <1>2, FS_Subset
  <2>2. Cardinality(upTo(i)) \in Nat
    BY <2>1, FS_CardinalityType
  <2>3. Cardinality(upTo(i)) # 0
    <3>1. i \in upTo(i)
      OBVIOUS
    <3>. QED BY <2>1, <3>1, FS_EmptySet
  <2>. QED BY <1>2, <2>1, <2>2, <2>3
<1>4. \A i, k \in T : i < k => rank[i] < rank[k]
  <2>1. ASSUME NEW i \in T, NEW k \in T, i < k
        PROVE  rank[i] < rank[k]
    <3>1. upTo(i) \in SUBSET upTo(k) /\ upTo(i) # upTo(k)
      <4>1. T \subseteq Int
        OBVIOUS
      <4>2. k \in upTo(k) /\ k \notin upTo(i)
        BY <2>1, <4>1
      <4>3. \A j \in T : j <= i => j <= k
        BY <2>1, <4>1
      <4>. QED BY <4>2, <4>3
    <3>2. IsFiniteSet(upTo(k))
      BY <1>2, FS_Subset
    <3>3. Cardinality(upTo(i)) <= Cardinality(upTo(k)) /\ Cardinality(upTo(i)) # Cardinality(upTo(k))
      BY <3>1, <3>2, FS_Subset
    <3>4. rank[i] = Cardinality(upTo(i)) /\ rank[k] = Cardinality(upTo(k)) /\ rank[i] \in N /\ rank[k] \in N
      BY <1>3
    <3> HIDE DEF upTo, rank
    <3>. QED BY <1>2, <3>3, <3>4
  <2>. QED BY <2>1
<1>5. rank \in Injection(T, N)
  <2>1. ASSUME NEW i \in T, NEW k \in T, rank[i] = rank[k]
        PROVE  i = k
    <3>1. i \in Int /\ k \in Int /\ rank[i] \in Int
      BY <1>2, <1>3
    <3> HIDE DEF rank
    <3>. QED BY <1>4, <2>1, <3>1
  <2>. QED BY <1>3, <2>1, Fun_IsInj
<1>6. IsFiniteSet(N) /\ Cardinality(N) = Cardinality(T)
  BY <1>2, FS_Interval
<1>7. rank \in Surjection(T, N)
  BY <1>5, <1>6, FS_Injection
<1>8. \A n \in N : \E i \in T : rank[i] = n
  BY <1>7 DEF Surjection
<1>. QED BY <1>2, <1>3, <1>4, <1>8

\* h numbers the positions T of q in their order, and p is what q holds there
Picks(h, p, q, T) ==
    /\ h \in [1..Len(p) -> T]
    /\ \A i \in 1..Len(p) : p[i] = q[h[i]]
    /\ \A i, j \in 1..Len(p) : i < j => h[i] < h[j]
    /\ \A k \in T : \E i \in 1..Len(p) : h[i] = k

\* Where the elements of a picked part come from.
LEMMA PickedFacts ==
  ASSUME NEW S, NEW q \in Seq(S), NEW T \in SUBSET (1..Len(q))
  PROVE  /\ Picked(q, T) \in Seq(S) /\ Len(Picked(q, T)) \in Nat
         /\ \E h : Picks(h, Picked(q, T), q, T)
<1> DEFINE rank(i) == Cardinality({j \in T : j <= i})
           nth(n) == CHOOSE i \in T : rank(i) = n
           N == Cardinality(T)
           p == Picked(q, T)
<1>1. Len(q) \in Nat /\ \A i \in 1..Len(q) : q[i] \in S
  BY LenProperties, ElementOfSeq
<1>2. /\ N \in Nat
      /\ \A i \in T : rank(i) \in 1..N
      /\ \A i, k \in T : i < k => rank(i) < rank(k)
      /\ \A n \in 1..N : \E i \in T : rank(i) = n
  BY <1>1, Ranks
<1>3. \A n \in 1..N : nth(n) \in T /\ rank(nth(n)) = n
  <2> HIDE DEF rank
  <2>. QED BY <1>2
<1>4. p = [n \in 1..N |-> q[nth(n)]]
  BY DEF Picked
<1> HIDE DEF nth, rank, N, p
<1>5. \A n \in 1..N : q[nth(n)] \in S
  BY <1>1, <1>3
<1>6. p \in Seq(S) /\ Len(p) = N
  BY <1>2, <1>4, <1>5
<1> DEFINE h == [n \in 1..N |-> nth(n)]
<1>7. h \in [1..N -> T] /\ \A n \in 1..N : h[n] \in T /\ rank(h[n]) = n /\ p[n] = q[h[n]]
  BY <1>3, <1>4
<1>8. T \subseteq Int
  BY <1>1
<1> HIDE DEF h
<1>9. ASSUME NEW i \in 1..N, NEW j \in 1..N, i < j
      PROVE  h[i] < h[j]
  <2>1. h[i] \in T /\ h[j] \in T /\ rank(h[i]) = i /\ rank(h[j]) = j
    BY <1>7
  <2>2. PICK x \in T, y \in T : x = h[i] /\ y = h[j] /\ rank(x) = i /\ rank(y) = j
    BY <2>1
  <2>3. y < x => rank(y) < rank(x)
    BY <1>2
  <2>4. x # y
    BY <1>9, <2>2
  <2>5. x \in Int /\ y \in Int /\ i \in Int /\ j \in Int
    BY <1>2, <1>8
  <2>6. x < y
    BY <1>9, <2>2, <2>3, <2>4, <2>5
  <2>. QED BY <2>2, <2>6
<1>10. ASSUME NEW k \in T
       PROVE  h[rank(k)] = k /\ rank(k) \in 1..N
  <2>1. rank(k) \in 1..N
    BY <1>2
  <2>2. h[rank(k)] \in T /\ rank(h[rank(k)]) = rank(k)
    BY <1>7, <2>1
  <2>3. PICK y \in T : y = h[rank(k)] /\ rank(y) = rank(k)
    BY <2>2
  <2>4. y < k => rank(y) < rank(k)
    BY <1>2
  <2>5. k < y => rank(k) < rank(y)
    BY <1>2
  <2>6. rank(k) \in Int /\ y \in Int /\ k \in Int
    BY <1>2, <1>8, <2>1
  <2>7. y = k
    BY <2>3, <2>4, <2>5, <2>6
  <2>. QED BY <2>1, <2>3, <2>7
<1>11. /\ h \in [1..N -> T]
       /\ \A i \in 1..N : p[i] = q[h[i]]
       /\ \A i, j \in 1..N : i < j => h[i] < h[j]
       /\ \A k \in T : \E i \in 1..N : h[i] = k
  BY <1>7, <1>9, <1>10
<1>12. Picks(h, p, q, T)
  BY <1>6, <1>11 DEF Picks
<1>. QED BY <1>2, <1>6, <1>12 DEF p

\* A picked part has one element per position picked.
LEMMA PickedLength ==
  ASSUME NEW L \in Nat, NEW T \in SUBSET (1..L), NEW q
  PROVE  Len(Picked(q, T)) = Cardinality(T)
BY Ranks DEF Picked

\* h gives the positions in s of what d keeps of it: all that is not in S
Thins(h, d, s, S) ==
    /\ h \in [1..Len(d) -> 1..Len(s)]
    /\ \A i \in 1..Len(d) : d[i] = s[h[i]] /\ s[h[i]] \notin S
    /\ \A i, j \in 1..Len(d) : i < j => h[i] < h[j]
    /\ \A k \in 1..Len(s) : s[k] \notin S => \E i \in 1..Len(d) : h[i] = k

\* Dropping keeps the other elements, each where it was among them.
LEMMA DroppedFacts ==
  ASSUME NEW E, NEW s \in Seq(E), NEW S
  PROVE  /\ Dropped(s, S) \in Seq(E) /\ Len(Dropped(s, S)) \in Nat
         /\ \E h : Thins(h, Dropped(s, S), s, S)
<1>1. DOMAIN s = 1..Len(s)
  BY LenProperties
<1>2. PICK T \in SUBSET (1..Len(s)) : T = {i \in DOMAIN s : s[i] \notin S}
  BY <1>1
<1>3. /\ Dropped(s, S) = Picked(s, T)
      /\ \A k \in 1..Len(s) : s[k] \notin S <=> k \in T
  BY <1>1, <1>2 DEF Dropped
<1> DEFINE d == Dropped(s, S)
<1>4. /\ Picked(s, T) \in Seq(E) /\ Len(Picked(s, T)) \in Nat
      /\ \E h : Picks(h, Picked(s, T), s, T)
  BY PickedFacts
<1>5. d \in Seq(E) /\ Len(d) \in Nat /\ \E h : Picks(h, d, s, T)
  BY <1>3, <1>4
<1> HIDE DEF d
<1>6. PICK h : Picks(h, d, s, T)
  BY <1>5
<1>7. /\ h \in [1..Len(d) -> T] /\ \A i \in 1..Len(d) : d[i] = s[h[i]]
      /\ \A i, j \in 1..Len(d) : i < j => h[i] < h[j]
      /\ \A k \in T : \E i \in 1..Len(d) : h[i] = k
  BY <1>6 DEF Picks
<1>8. h \in [1..Len(d) -> 1..Len(s)]
  BY <1>7
<1>9. \A i \in 1..Len(d) : s[h[i]] \notin S
  BY <1>3, <1>7
<1>10. \A k \in 1..Len(s) : s[k] \notin S => \E i \in 1..Len(d) : h[i] = k
  BY <1>3, <1>7
<1>11. Thins(h, d, s, S)
  BY <1>7, <1>8, <1>9, <1>10 DEF Thins
<1>. QED BY <1>5, <1>11 DEF d

\* The sequence s holds nothing twice
Distinct(s) == \A m, n \in 1..Len(s) : s[m] = s[n] => m = n

\* The members of a sequence are what it holds at its positions.
LEMMA InSequence ==
  ASSUME NEW E, NEW s \in Seq(E)
  PROVE  /\ Len(s) \in Nat /\ DOMAIN s = 1..Len(s)
         /\ ToSet(s) = {s[i] : i \in 1..Len(s)} /\ ToSet(s) \subseteq E
         /\ \A i \in 1..Len(s) : s[i] \in E /\ s[i] \in ToSet(s)
         /\ \A x : x \in ToSet(s) <=> \E i \in 1..Len(s) : s[i] = x
BY LenProperties, ElementOfSeq DEF ToSet

\* Dropping takes away just what it is told to, and doubles nothing.
LEMMA DroppedSet ==
  ASSUME NEW E, NEW s \in Seq(E), NEW S
  PROVE  /\ Dropped(s, S) \in Seq(E) /\ ToSet(Dropped(s, S)) = ToSet(s) \ S
         /\ Distinct(s) => Distinct(Dropped(s, S))
<1> DEFINE d == Dropped(s, S)
<1>1. d \in Seq(E) /\ Len(d) \in Nat /\ Len(s) \in Nat
  BY DroppedFacts, LenProperties
<1>a. PICK h : Thins(h, d, s, S)
  BY DroppedFacts
<1> HIDE DEF d
<1>2. /\ h \in [1..Len(d) -> 1..Len(s)]
      /\ \A i \in 1..Len(d) : d[i] = s[h[i]] /\ s[h[i]] \notin S
      /\ \A i, j \in 1..Len(d) : i < j => h[i] < h[j]
      /\ \A k \in 1..Len(s) : s[k] \notin S => \E i \in 1..Len(d) : h[i] = k
  BY <1>a DEF Thins
<1>3. \A i \in 1..Len(d) : h[i] \in 1..Len(s) /\ d[i] = s[h[i]] /\ s[h[i]] \notin S
  BY <1>2
<1>4. ToSet(d) = {d[i] : i \in 1..Len(d)} /\ ToSet(s) = {s[i] : i \in 1..Len(s)}
  BY <1>1, InSequence
<1>5. ToSet(d) = ToSet(s) \ S
  <2>1. ToSet(d) \subseteq ToSet(s) \ S
    BY <1>3, <1>4
  <2>2. ASSUME NEW k \in 1..Len(s), s[k] \notin S
        PROVE  s[k] \in ToSet(d)
    BY <1>2, <1>4, <2>2, SMTT(30)
  <2>. QED BY <1>4, <2>1, <2>2
<1>6. ASSUME Distinct(s), NEW m \in 1..Len(d), NEW n \in 1..Len(d), d[m] = d[n]
      PROVE  m = n
  <2>1. h[m] = h[n] /\ h[m] \in Int
    BY SMTT(30), <1>1, <1>3, <1>6 DEF Distinct
  <2>2. ~ (m < n) /\ ~ (n < m)
    BY <1>2, <2>1
  <2>. QED BY <1>1, <2>2
<1>. QED BY <1>1, <1>5, <1>6 DEF d, Distinct

\* Dropping does not make a sequence longer, and shorter when it loses an element.
LEMMA DroppedShorter ==
  ASSUME NEW E, NEW s \in Seq(E), NEW S
  PROVE  /\ Len(Dropped(s, S)) <= Len(s)
         /\ \A k \in 1..Len(s) : s[k] \in S => Len(Dropped(s, S)) < Len(s)
<1> DEFINE T == {i \in DOMAIN s : s[i] \notin S}
<1>1. Len(s) \in Nat /\ DOMAIN s = 1..Len(s)
  BY LenProperties
<1>2. /\ T \subseteq 1..Len(s) /\ Dropped(s, S) = Picked(s, T)
      /\ \A k \in 1..Len(s) : s[k] \in S => k \notin T
  BY <1>1 DEF Dropped
<1> HIDE DEF T
<1>3. Len(Picked(s, T)) = Cardinality(T)
  BY <1>1, <1>2, PickedLength
<1>4. IsFiniteSet(1..Len(s)) /\ Cardinality(1..Len(s)) = Len(s)
  BY SMTT(30), <1>1, FS_Interval
<1>5. Cardinality(T) <= Len(s) /\ (Cardinality(T) = Len(s) => T = 1..Len(s))
  BY <1>2, <1>4, FS_Subset
<1>6. Cardinality(T) \in Nat
  BY <1>2, <1>4, FS_Subset, FS_CardinalityType
<1>. QED BY <1>1, <1>2, <1>3, <1>5, <1>6
=============================================================================
