--------------------------- MODULE JobQueueProofs ---------------------------
(***************************************************************************)
(* That the scheduler never starts more than the batch and the cache hold, *)
(* never holds a job twice, and lets nothing start past a job that has     *)
(* been skipped often enough, for any jobs, sizes and settings.            *)
(*                                                                         *)
(* The inductive invariant says how the walk of iterate_start_jobs stands  *)
(* to the queue it copied: what is left of the copy is still pending, in   *)
(* the queue's order, and every other pending job has been skipped.        *)
(***************************************************************************)
EXTENDS JobQueue, SublistProofs

-----------------------------------------------------------------------------
(* The invariant.                                                           *)

Jobs ==
  [ pages : Nat \ {0}, width : Nat \ {0}, prompt : Nat, tokens : Nat \ {0},
    segment : Nat, maxSkips : Nat, left : Nat, skips : Nat ]

Shaped ==
  /\ pending \in Seq(Job) /\ active \in Seq(Job) /\ queue \in Seq(Job)
  /\ job \in [Job -> Jobs]
  /\ cooldown \in 0 .. Cooldown /\ rotation \in 0 .. Turns - 1
  /\ pc \in {"idle", "start", "generate"}
  /\ skipped \subseteq Job

\* No job is in the queues twice.
Once == Distinct(pending) /\ Distinct(active) /\ Pending \cap Active = {}

\* One element for each of the w[j] units of each job in A
Units(A, w) == UNION {{j} \X (1 .. w[j]) : j \in A}

\* What each of the jobs b takes of the cache, and of the batch
PagesOf(b) == [j \in Job |-> b[j].pages]
WidthOf(b) == [j \in Job |-> b[j].width]

\* The active jobs fit into the cache and the batch.
Fitting(A, b) ==
  /\ IsFiniteSet(Units(A, PagesOf(b))) /\ Cardinality(Units(A, PagesOf(b))) <= MaxPages
  /\ IsFiniteSet(Units(A, WidthOf(b))) /\ Cardinality(Units(A, WidthOf(b))) <= MaxBatch

\* What is left of the copied queue is pending, in the queue's order, and the other
\* pending jobs have been skipped.
Walk ==
  /\ pc # "start" => queue = <<>>
  /\ queue # <<>> =>
       /\ Pending \subseteq skipped \cup ToSet(queue)
       /\ ToSet(queue) \subseteq Pending \ skipped
       /\ \A m, n \in 1 .. Len(queue) : m < n => Ahead(queue[m], queue[n])

JobInv == Shaped /\ Once /\ Fitting(Active, job) /\ Walk

-----------------------------------------------------------------------------
(* The operators on queues.                                                 *)

\* What stays keeps its order.
LEMMA DroppedOrder ==
  ASSUME NEW E, NEW s \in Seq(E), NEW S,
         NEW m \in 1 .. Len(s), NEW n \in 1 .. Len(s), m < n, s[m] \notin S, s[n] \notin S
  PROVE  \E i, j \in DOMAIN Dropped(s, S) :
           i < j /\ Dropped(s, S)[i] = s[m] /\ Dropped(s, S)[j] = s[n]
<1> DEFINE d == Dropped(s, S)
<1>1. d \in Seq(E) /\ Len(d) \in Nat /\ DOMAIN d = 1 .. Len(d) /\ Len(s) \in Nat
  BY DroppedFacts, LenProperties
<1>a. PICK h : Thins(h, d, s, S)
  BY DroppedFacts
<1> HIDE DEF d
<1>2. /\ h \in [1 .. Len(d) -> 1 .. Len(s)]
      /\ \A i \in 1 .. Len(d) : d[i] = s[h[i]] /\ s[h[i]] \notin S
      /\ \A i, j \in 1 .. Len(d) : i < j => h[i] < h[j]
      /\ \A k \in 1 .. Len(s) : s[k] \notin S => \E i \in 1 .. Len(d) : h[i] = k
  BY <1>a DEF Thins
<1>3. PICK i \in 1 .. Len(d), j \in 1 .. Len(d) : h[i] = m /\ h[j] = n
  BY <1>2
<1>4. i # j /\ ~ (j < i)
  <2>1. j < i => n < m
    BY <1>2, <1>3
  <2>. QED BY <1>1, <1>3, <2>1
<1>5. i < j /\ d[i] = s[m] /\ d[j] = s[n]
  BY <1>1, <1>2, <1>3, <1>4
<1>. QED BY <1>1, <1>3, <1>5 DEF d

\* The elements of s in R, before those of t in the reverse order.
LEMMA FrontFacts ==
  ASSUME NEW E, NEW s \in Seq(E), NEW t \in Seq(E), NEW R
  PROVE  LET f == Reverse(Picked(s, {i \in DOMAIN s : s[i] \in R})) \o t
         IN  /\ f \in Seq(E) /\ ToSet(f) = (ToSet(s) \cap R) \cup ToSet(t)
             /\ Distinct(s) /\ Distinct(t) /\ ToSet(s) \cap ToSet(t) = {} => Distinct(f)
<1> DEFINE T == {i \in DOMAIN s : s[i] \in R}
           p == Picked(s, T)
           flip(i) == (Len(p) - i) + 1
           r == Reverse(p)
           f == r \o t
<1>1. /\ Len(s) \in Nat /\ DOMAIN s = 1 .. Len(s) /\ Len(t) \in Nat
      /\ ToSet(s) = {s[i] : i \in 1 .. Len(s)} /\ ToSet(t) = {t[i] : i \in 1 .. Len(t)}
      /\ \A i \in 1 .. Len(t) : t[i] \in ToSet(t)
  <2>1. /\ Len(s) \in Nat /\ DOMAIN s = 1 .. Len(s) /\ ToSet(s) = {s[i] : i \in 1 .. Len(s)}
    BY InSequence
  <2>2. Len(t) \in Nat /\ ToSet(t) = {t[i] : i \in 1 .. Len(t)}
    BY InSequence
  <2>. QED BY <2>1, <2>2
<1>2. /\ T \in SUBSET (1 .. Len(s))
      /\ \A k \in 1 .. Len(s) : k \in T <=> s[k] \in R
  BY <1>1
<1> HIDE DEF T
<1>3. p \in Seq(E) /\ Len(p) \in Nat
  BY <1>2, PickedFacts
<1>a. PICK h : Picks(h, p, s, T)
  BY <1>2, PickedFacts
<1> HIDE DEF p
<1>4. /\ h \in [1 .. Len(p) -> T] /\ \A i \in 1 .. Len(p) : p[i] = s[h[i]]
      /\ \A i, j \in 1 .. Len(p) : i < j => h[i] < h[j]
      /\ \A k \in T : \E i \in 1 .. Len(p) : h[i] = k
  BY <1>a DEF Picks
<1>5. \A i \in 1 .. Len(p) : /\ h[i] \in T /\ h[i] \in 1 .. Len(s) /\ h[i] \in Int
                             /\ p[i] = s[h[i]] /\ p[i] \in ToSet(s) \cap R /\ p[i] \in E
  <2>1. \A i \in 1 .. Len(p) : h[i] \in T
    BY <1>4
  <2>2. \A k \in T : k \in 1 .. Len(s) /\ k \in Int /\ s[k] \in ToSet(s) \cap R /\ s[k] \in E
    BY <1>1, <1>2, InSequence
  <2>. QED BY <1>4, <2>1, <2>2
<1>6. r = [i \in 1 .. Len(p) |-> p[(Len(p) - i) + 1]]
  BY DEF Reverse
<1>7. /\ \A i \in 1 .. Len(p) : flip(i) \in 1 .. Len(p) /\ flip(flip(i)) = i
      /\ \A i, j \in 1 .. Len(p) : flip(i) = flip(j) => i = j
  BY <1>3
<1>8. /\ r \in Seq(E) /\ Len(r) = Len(p)
      /\ \A i \in 1 .. Len(p) : r[i] = p[flip(i)]
  <2>1. \A i \in 1 .. Len(p) : p[flip(i)] \in E
    BY <1>5, <1>7
  <2>. QED BY <1>3, <1>6, <2>1
<1> HIDE DEF r, flip
<1>9. /\ f \in Seq(E) /\ Len(f) = Len(p) + Len(t)
      /\ \A i \in 1 .. Len(p) : f[i] = r[i]
      /\ \A i \in 1 .. Len(t) : Len(p) + i \in 1 .. Len(f) /\ f[Len(p) + i] = t[i]
      /\ \A i \in 1 .. Len(f) : i \in 1 .. Len(p) \/ i - Len(p) \in 1 .. Len(t)
      /\ \A i \in 1 .. Len(f) : i \notin 1 .. Len(p) => f[i] = t[i - Len(p)]
  <2>1. f \in Seq(E) /\ Len(f) = Len(p) + Len(t)
        /\ \A i \in 1 .. Len(f) : f[i] = IF i <= Len(p) THEN r[i] ELSE t[i - Len(p)]
    <3>1. /\ f \in Seq(E) /\ Len(f) = Len(r) + Len(t)
          /\ \A i \in 1 .. Len(r) + Len(t) : f[i] = IF i <= Len(r) THEN r[i] ELSE t[i - Len(r)]
      BY <1>8, ConcatProperties
    <3>. QED BY <1>8, <3>1
  <2> HIDE DEF f
  <2>2. \A i \in 1 .. Len(t) : Len(p) + i \in 1 .. Len(f) /\ ~ (Len(p) + i <= Len(p))
                               /\ (Len(p) + i) - Len(p) = i
    BY <1>1, <1>3, <2>1
  <2>3. \A i \in 1 .. Len(f) : i \in 1 .. Len(p) \/ (~ (i <= Len(p)) /\ i - Len(p) \in 1 .. Len(t))
    BY <1>1, <1>3, <2>1
  <2>4. \A i \in 1 .. Len(p) : i \in 1 .. Len(f) /\ i <= Len(p)
    BY <1>1, <1>3, <2>1
  <2>. QED BY <1>3, <2>1, <2>2, <2>3, <2>4
<1> HIDE DEF f
<1>10. \A i \in 1 .. Len(p) : i \in 1 .. Len(f) /\ f[i] \in ToSet(s) \cap R
                              /\ f[i] = s[h[flip(i)]]
  <2>1. \A i \in 1 .. Len(p) : i \in 1 .. Len(f)
    BY <1>1, <1>3, <1>9
  <2>2. ASSUME NEW i \in 1 .. Len(p)
        PROVE  f[i] \in ToSet(s) \cap R /\ f[i] = s[h[flip(i)]]
    <3>1. flip(i) \in 1 .. Len(p) /\ f[i] = p[flip(i)]
      BY <1>7, <1>8, <1>9
    <3>. QED BY <1>5, <3>1
  <2>. QED BY <2>1, <2>2
<1>11. ToSet(f) = (ToSet(s) \cap R) \cup ToSet(t)
  <2>1. ToSet(f) = {f[i] : i \in 1 .. Len(f)}
    BY <1>9, InSequence, ZenonT(30)
  <2>2. ASSUME NEW i \in 1 .. Len(f) PROVE f[i] \in (ToSet(s) \cap R) \cup ToSet(t)
    BY <1>1, <1>9, <1>10
  <2>3. ASSUME NEW k \in 1 .. Len(s), s[k] \in R PROVE s[k] \in ToSet(f)
    <3>1. PICK i \in 1 .. Len(p) : p[i] = s[k]
      BY <1>2, <1>4, <2>3
    <3>2. PICK m \in 1 .. Len(p) : flip(m) = i
      BY <1>7
    <3>3. f[m] = s[k] /\ m \in 1 .. Len(f)
      BY <1>8, <1>9, <1>10, <3>1, <3>2
    <3>. QED BY <2>1, <3>3
  <2>4. ASSUME NEW k \in 1 .. Len(t) PROVE t[k] \in ToSet(f)
    BY <1>9, <2>1
  <2>. QED BY ZenonT(30), <1>1, <2>1, <2>2, <2>3, <2>4
<1>12. ASSUME Distinct(s), Distinct(t), ToSet(s) \cap ToSet(t) = {},
              NEW m \in 1 .. Len(f), NEW n \in 1 .. Len(f), f[m] = f[n]
       PROVE  m = n
  <2>1. CASE m \in 1 .. Len(p) /\ n \in 1 .. Len(p)
    <3>1. PICK x \in 1 .. Len(p), y \in 1 .. Len(p) : x = flip(m) /\ y = flip(n)
      BY <1>7, <2>1
    <3>2. s[h[x]] = s[h[y]]
      BY <1>10, <1>12, <2>1, <3>1
    <3>3. h[x] = h[y] /\ h[x] \in Int
      BY <1>5, <1>12, <3>2 DEF Distinct
    <3>4. ~ (x < y) /\ ~ (y < x)
      BY <1>4, <3>3
    <3>5. x = y
      BY <1>3, <3>4
    <3>. QED BY <1>7, <2>1, <3>1, <3>5
  <2>2. CASE m \notin 1 .. Len(p) /\ n \notin 1 .. Len(p)
    <3>1. m - Len(p) = n - Len(p)
      BY <1>9, <1>12, <2>2, SMTT(30) DEF Distinct
    <3>. QED BY <1>1, <1>3, <1>9, <3>1
  <2>3. ASSUME NEW i \in 1 .. Len(f), NEW k \in 1 .. Len(f), i \in 1 .. Len(p), k \notin 1 .. Len(p)
        PROVE  f[i] # f[k]
    <3>1. f[i] \in ToSet(s) /\ f[k] \in ToSet(t)
      BY <1>1, <1>9, <1>10, <2>3
    <3>. QED BY <1>12, <3>1
  <2>. QED BY <1>12, <2>1, <2>2, <2>3
<1>. QED BY <1>9, <1>11, <1>12 DEF Distinct, f, r, p, T

-----------------------------------------------------------------------------
(* The batch and the cache.                                                 *)

\* Another job takes at most its own units more.
LEMMA UnitsAdded ==
  ASSUME NEW A, NEW w, NEW j, w[j] \in Nat, IsFiniteSet(Units(A, w))
  PROVE  /\ IsFiniteSet(Units(A \cup {j}, w)) /\ Cardinality(Units(A, w)) \in Nat
         /\ Cardinality(Units(A \cup {j}, w)) <= Cardinality(Units(A, w)) + w[j]
<1> DEFINE U == Units(A, w)
           V == {j} \X (1 .. w[j])
<1>1. Units(A \cup {j}, w) = U \cup V
  BY DEF Units
<1>2. IsFiniteSet({j}) /\ Cardinality({j}) = 1
  BY FS_Singleton
<1>3. IsFiniteSet(1 .. w[j]) /\ Cardinality(1 .. w[j]) = w[j]
  BY FS_Interval, SMTT(30)
<1>4. IsFiniteSet(V) /\ Cardinality(V) = Cardinality({j}) * Cardinality(1 .. w[j])
  BY <1>2, <1>3, FS_Product
<1>5. Cardinality(V) = w[j]
  BY <1>2, <1>3, <1>4
<1> HIDE DEF U, V
<1>6. IsFiniteSet(U) /\ Cardinality(U) \in Nat
  BY FS_CardinalityType DEF U
<1>7. U \cap V \in SUBSET U
  OBVIOUS
<1>8. IsFiniteSet(U \cap V)
  BY <1>6, <1>7, FS_Subset
<1>9. Cardinality(U \cap V) \in Nat
  BY <1>8, FS_CardinalityType
<1>10. /\ IsFiniteSet(U \cup V)
       /\ Cardinality(U \cup V) = Cardinality(U) + Cardinality(V) - Cardinality(U \cap V)
  BY <1>4, <1>6, FS_Union
<1>11. Cardinality(U \cup V) = Cardinality(U) + w[j] - Cardinality(U \cap V)
  BY <1>5, <1>10
<1>12. Cardinality(U \cup V) <= Cardinality(U) + w[j]
  BY <1>6, <1>9, <1>11
<1>13. /\ IsFiniteSet(Units(A \cup {j}, w)) /\ Cardinality(U) \in Nat
       /\ Cardinality(Units(A \cup {j}, w)) <= Cardinality(U) + w[j]
  BY <1>1, <1>6, <1>10, <1>12
<1>. QED BY <1>13 DEF U

\* Fewer jobs of the same sizes take no more.
LEMMA UnitsKept ==
  ASSUME NEW A, NEW B, NEW v, NEW w, B \subseteq A, \A j \in B : v[j] = w[j],
         IsFiniteSet(Units(A, w))
  PROVE  /\ IsFiniteSet(Units(B, v)) /\ Cardinality(Units(B, v)) \in Nat
         /\ Cardinality(Units(A, w)) \in Nat
         /\ Cardinality(Units(B, v)) <= Cardinality(Units(A, w))
<1>1. Units(B, v) \in SUBSET Units(A, w)
  BY DEF Units
<1>. QED BY <1>1, FS_Subset, FS_CardinalityType

\* A batch that loses jobs still fits.
LEMMA FittingKept ==
  ASSUME NEW A \in SUBSET Job, NEW B, NEW b, NEW c, Fitting(A, b), B \subseteq A,
         \A j \in B : c[j].pages = b[j].pages /\ c[j].width = b[j].width
  PROVE  Fitting(B, c)
<1>1. \A j \in B : PagesOf(c)[j] = PagesOf(b)[j] /\ WidthOf(c)[j] = WidthOf(b)[j]
  BY DEF PagesOf, WidthOf
<1>2. /\ IsFiniteSet(Units(B, PagesOf(c))) /\ Cardinality(Units(B, PagesOf(c))) \in Nat
      /\ Cardinality(Units(A, PagesOf(b))) \in Nat
      /\ Cardinality(Units(B, PagesOf(c))) <= Cardinality(Units(A, PagesOf(b)))
  BY <1>1, UnitsKept DEF Fitting
<1>3. /\ IsFiniteSet(Units(B, WidthOf(c))) /\ Cardinality(Units(B, WidthOf(c))) \in Nat
      /\ Cardinality(Units(A, WidthOf(b))) \in Nat
      /\ Cardinality(Units(B, WidthOf(c))) <= Cardinality(Units(A, WidthOf(b)))
  BY <1>1, UnitsKept DEF Fitting
<1>4. MaxPages \in Nat /\ MaxBatch \in Nat
  BY SizesAssumption
<1>. QED BY <1>2, <1>3, <1>4 DEF Fitting

\* The numbers the scheduler compares are those of the invariant.
LEMMA Sizes ==
  ASSUME Shaped
  PROVE  /\ Active \subseteq Job /\ Pending \subseteq Job
         /\ PagesUsed = Cardinality(Units(Active, PagesOf(job)))
         /\ BatchSize = Cardinality(Units(Active, WidthOf(job)))
<1>1. Active \subseteq Job /\ Pending \subseteq Job
  BY InSequence DEF Shaped, Active, Pending
<1>2. \A j \in Active : PagesOf(job)[j] = job[j].pages /\ WidthOf(job)[j] = job[j].width
  BY <1>1 DEF PagesOf, WidthOf
<1>3. UNION {{j} \X (1 .. job[j].pages) : j \in Active} = Units(Active, PagesOf(job))
  BY <1>2 DEF Units
<1>4. UNION {{j} \X (1 .. job[j].width) : j \in Active} = Units(Active, WidthOf(job))
  BY <1>2 DEF Units
<1>. QED BY <1>1, <1>3, <1>4 DEF PagesUsed, BatchSize

\* A batch with room for a job still fits with it.
LEMMA FittingGrown ==
  ASSUME Shaped, Fitting(Active, job), NEW j \in Job, Fits(j),
         NEW c, \A i \in Active \cup {j} : c[i].pages = job[i].pages /\ c[i].width = job[i].width
  PROVE  Fitting(Active \cup {j}, c)
<1> DEFINE v == PagesOf(job)
           w == WidthOf(job)
<1>1. /\ PagesUsed = Cardinality(Units(Active, v)) /\ BatchSize = Cardinality(Units(Active, w))
      /\ Active \subseteq Job
  BY Sizes
<1>2. v[j] = job[j].pages /\ w[j] = job[j].width /\ v[j] \in Nat /\ w[j] \in Nat
  BY DEF Shaped, Jobs, PagesOf, WidthOf
<1>3. job[j].width + BatchSize <= MaxBatch /\ job[j].pages <= MaxPages - PagesUsed
  BY DEF Fits
<1> HIDE DEF v, w
<1>4. /\ IsFiniteSet(Units(Active \cup {j}, v)) /\ Cardinality(Units(Active, v)) \in Nat
      /\ Cardinality(Units(Active \cup {j}, v)) <= Cardinality(Units(Active, v)) + v[j]
  BY <1>2, UnitsAdded DEF Fitting, v
<1>5. /\ IsFiniteSet(Units(Active \cup {j}, w)) /\ Cardinality(Units(Active, w)) \in Nat
      /\ Cardinality(Units(Active \cup {j}, w)) <= Cardinality(Units(Active, w)) + w[j]
  BY <1>2, UnitsAdded DEF Fitting, w
<1>6. /\ Cardinality(Units(Active \cup {j}, v)) \in Nat /\ Cardinality(Units(Active \cup {j}, w)) \in Nat
      /\ MaxPages \in Nat /\ MaxBatch \in Nat
  BY <1>4, <1>5, FS_CardinalityType, SizesAssumption
<1>7. /\ Cardinality(Units(Active \cup {j}, v)) <= MaxPages
      /\ Cardinality(Units(Active \cup {j}, w)) <= MaxBatch
  BY <1>1, <1>2, <1>3, <1>4, <1>5, <1>6
<1>8. Fitting(Active \cup {j}, job)
  BY <1>4, <1>5, <1>7 DEF Fitting, v, w
<1>. QED BY <1>1, <1>8, FittingKept

-----------------------------------------------------------------------------
(* The actions.                                                             *)

\* DroppedSet for a queue that becomes what is left of it.
LEMMA DroppedAway ==
  ASSUME NEW S
  PROVE  /\ pending \in Seq(Job) /\ Distinct(pending) /\ pending' = Dropped(pending, S) =>
              pending' \in Seq(Job) /\ Pending' = Pending \ S /\ Distinct(pending)'
         /\ active \in Seq(Job) /\ Distinct(active) /\ active' = Dropped(active, S) =>
              active' \in Seq(Job) /\ Active' = Active \ S /\ Distinct(active)'
<1>1. ASSUME pending \in Seq(Job), Distinct(pending), pending' = Dropped(pending, S)
      PROVE  pending' \in Seq(Job) /\ Pending' = Pending \ S /\ Distinct(pending)'
  <2>1. Distinct(Dropped(pending, S)) /\ pending' \in Seq(Job)
        /\ ToSet(pending') = ToSet(pending) \ S
    BY <1>1, DroppedSet
  <2>. QED BY <1>1, <2>1 DEF Pending, Distinct
<1>2. ASSUME active \in Seq(Job), Distinct(active), active' = Dropped(active, S)
      PROVE  active' \in Seq(Job) /\ Active' = Active \ S /\ Distinct(active)'
  <2>1. Distinct(Dropped(active, S)) /\ active' \in Seq(Job)
        /\ ToSet(active') = ToSet(active) \ S
    BY <1>2, DroppedSet
  <2>. QED BY <1>2, <2>1 DEF Active, Distinct
<1>. QED BY <1>1, <1>2

\* A step of a caller, or of the end of an iteration: nothing starts, and no walk is
\* under way after it.
LEMMA NothingStarts ==
  ASSUME JobInv, queue' = <<>>, job' \in [Job -> Jobs],
         pending' \in Seq(Job), active' \in Seq(Job), Distinct(pending)', Distinct(active)',
         Pending' \cap Active' = {}, Active' \subseteq Active,
         \A j \in Active' : job'[j].pages = job[j].pages /\ job'[j].width = job[j].width,
         cooldown' \in 0 .. Cooldown, rotation' \in 0 .. Turns - 1,
         pc' \in {"idle", "start", "generate"}, skipped' \subseteq Job
  PROVE  JobInv'
<1>1. Shaped'
  <2>1. queue' \in Seq(Job)
    OBVIOUS
  <2>. QED BY <2>1 DEF Shaped
<1>2. Once'
  BY DEF Once
<1>3. Fitting(Active, job)'
  <2>1. Active \in SUBSET Job /\ Fitting(Active, job)
    BY Sizes DEF JobInv
  <2>2. Fitting(Active', job')
    BY <2>1, FittingKept
  <2>. QED BY <2>2 DEF Fitting, Units, PagesOf, WidthOf
<1>4. Walk'
  BY DEF Walk
<1>. QED BY <1>1, <1>2, <1>3, <1>4 DEF JobInv

\* A slot with no job, and a job as a caller submits it, are well formed.
LEMMA JobsMade ==
  /\ Fresh \in Jobs
  /\ \A kind \in Kinds : Submitted(kind) \in Jobs
<1>1. Fresh \in Jobs
  BY DEF Fresh, Jobs
<1>2. ASSUME NEW kind \in Kinds PROVE Submitted(kind) \in Jobs
  <2>1. kind \in Kind
    BY KindsAssumption
  <2>. QED BY <2>1 DEF Submitted, Fresh, Jobs, Kind
<1>. QED BY <1>1, <1>2

\* A job stays well formed when its prompt shrinks, or one skips it.
LEMMA JobChanged ==
  ASSUME NEW J \in Jobs, NEW n \in Nat
  PROVE  /\ [J EXCEPT !.prompt = n] \in Jobs /\ [J EXCEPT !.skips = n] \in Jobs
         /\ [J EXCEPT !.prompt = n].pages = J.pages /\ [J EXCEPT !.prompt = n].width = J.width
         /\ [J EXCEPT !.skips = n].pages = J.pages /\ [J EXCEPT !.skips = n].width = J.width
         /\ J.prompt \in Nat /\ J.skips \in Nat
BY DEF Jobs

\* It does when a token is generated, unless it was the last, and when it requeues.
LEMMA JobServed ==
  ASSUME NEW J \in Jobs, J.tokens # 1, NEW replayed \in {0, 1}
  PROVE  /\ Requeued(J, replayed) \in Jobs
         /\ [J EXCEPT !.tokens = @ - 1, !.left = IF @ = 0 THEN 0 ELSE @ - 1] \in Jobs
<1> DEFINE t == J.tokens - 1
           l == IF J.left = 0 THEN 0 ELSE J.left - 1
           p == IF J.pages < MaxPages THEN J.pages + 1 ELSE J.pages
<1>1. t \in Nat \ {0} /\ l \in Nat /\ p \in Nat \ {0} /\ J.segment \in Nat /\ replayed \in Nat
      /\ DefaultSkips \in Nat
  <2>1. /\ J.tokens \in Nat \ {0} /\ J.left \in Nat /\ J.pages \in Nat \ {0} /\ J.segment \in Nat
    BY DEF Jobs
  <2>2. t \in Nat \ {0}
    BY <2>1
  <2>3. l \in Nat
    BY <2>1
  <2>4. p \in Nat \ {0}
    BY <2>1
  <2>. QED BY <2>1, <2>2, <2>3, <2>4, ChunksAssumption
<1>2. /\ Requeued(J, replayed) =
           [J EXCEPT !.prompt = replayed, !.tokens = t, !.left = J.segment, !.pages = p,
                     !.maxSkips = DefaultSkips, !.skips = 0]
      /\ [J EXCEPT !.tokens = @ - 1, !.left = IF @ = 0 THEN 0 ELSE @ - 1]
           = [J EXCEPT !.tokens = t, !.left = l]
  BY DEF Requeued
<1> HIDE DEF t, l, p
<1>3. [J EXCEPT !.prompt = replayed, !.tokens = t, !.left = J.segment, !.pages = p,
                !.maxSkips = DefaultSkips, !.skips = 0] \in Jobs
  BY <1>1 DEF Jobs
<1>4. [J EXCEPT !.tokens = t, !.left = l] \in Jobs
  BY <1>1 DEF Jobs
<1>. QED BY <1>2, <1>3, <1>4

\* enqueue(), cancel() and clear_queue().
LEMMA CallsKeep ==
  ASSUME JobInv, Calls
  PROVE  JobInv'
<1>1. Shaped /\ Once /\ queue = <<>>
  BY DEF JobInv, Walk, Calls, ClearQueue, Enqueue, Cancel
<1>2. /\ pending \in Seq(Job) /\ active \in Seq(Job) /\ Active \subseteq Job
      /\ job \in [Job -> Jobs]
  BY <1>1, Sizes DEF Shaped
<1>3. ASSUME NEW j \in Job, Enqueue(j)
      PROVE  JobInv'
  <2>1. PICK kind \in Kinds : job' = [job EXCEPT ![j] = Submitted(kind)]
    BY <1>3 DEF Enqueue
  <2>2. /\ j \notin Pending \cup Active /\ pending' = Append(pending, j) /\ pc = "idle"
        /\ UNCHANGED <<active, cooldown, rotation, pc, queue, skipped>>
    BY <1>3 DEF Enqueue
  <2>3. /\ pending' \in Seq(Job) /\ Len(pending') = Len(pending) + 1 /\ Len(pending) \in Nat
        /\ \A i \in 1 .. Len(pending) : pending'[i] = pending[i]
        /\ pending'[Len(pending) + 1] = j
    BY <1>2, <2>2, AppendProperties, LenProperties
  <2>4. \A i \in 1 .. Len(pending') : i \in 1 .. Len(pending) \/ i = Len(pending) + 1
    BY <2>3
  <2>5. \A i \in 1 .. Len(pending) : pending[i] \in Pending
    BY <1>2, InSequence DEF Pending
  <2>6. Distinct(pending)'
    <3>1. \A m, n \in 1 .. Len(pending') : pending'[m] = pending'[n] => m = n
      BY <1>1, <2>2, <2>3, <2>4, <2>5 DEF Once, Distinct
    <3>. QED BY <3>1 DEF Distinct
  <2>7. \A x \in Pending' : x \in Pending \/ x = j
    BY <2>3, <2>4, <2>5, InSequence, SMTT(30) DEF Pending
  <2>8. Active' = Active /\ Distinct(active)'
    BY <1>1, <2>2 DEF Active, Once, Distinct
  <2>9. Pending' \cap Active' = {}
    BY <1>1, <2>2, <2>7, <2>8 DEF Once
  <2>10. job' \in [Job -> Jobs] /\ \A i \in Active : job'[i] = job[i]
    BY <1>2, <2>1, <2>2, JobsMade
  <2>. QED BY <1>1, <1>2, <2>2, <2>3, <2>6, <2>8, <2>9, <2>10, NothingStarts DEF Shaped
<1>4. ASSUME NEW j \in Job, Cancel(j)
      PROVE  JobInv'
  <2>1. /\ pending' = Dropped(pending, {j}) /\ active' = Dropped(active, {j})
        /\ job' = [job EXCEPT ![j] = Fresh]
        /\ UNCHANGED <<cooldown, rotation, pc, queue, skipped>>
    BY <1>4 DEF Cancel
  <2>2. /\ pending' \in Seq(Job) /\ Pending' = Pending \ {j} /\ Distinct(pending)'
        /\ active' \in Seq(Job) /\ Active' = Active \ {j} /\ Distinct(active)'
    BY <1>1, <1>2, <2>1, DroppedAway DEF Pending, Active, Once
  <2>3. Pending' \cap Active' = {}
    BY <1>1, <2>2 DEF Once
  <2>4. job' \in [Job -> Jobs] /\ \A i \in Active' : job'[i] = job[i]
    BY <1>2, <2>1, <2>2, JobsMade
  <2>. QED BY <1>1, <2>1, <2>2, <2>3, <2>4, NothingStarts DEF Shaped
<1>5. CASE ClearQueue
  <2>1. /\ pending' = <<>> /\ active' = <<>> /\ job' = [j \in Job |-> Fresh]
        /\ UNCHANGED <<cooldown, rotation, pc, queue, skipped>>
    BY <1>5 DEF ClearQueue
  <2>2. /\ pending' \in Seq(Job) /\ active' \in Seq(Job) /\ Len(pending') = 0 /\ Len(active') = 0
    BY <2>1, EmptySeq
  <2>3. Active' = {} /\ Pending' = {}
    <3>1. ToSet(pending') = {} /\ ToSet(active') = {}
      <4>1. \A i : i \notin 1 .. 0
        OBVIOUS
      <4>2. /\ \A x : x \in ToSet(pending') <=> \E i \in 1 .. Len(pending') : pending'[i] = x
            /\ \A x : x \in ToSet(active') <=> \E i \in 1 .. Len(active') : active'[i] = x
        BY ZenonT(30), <2>2, InSequence
      <4>. QED BY <2>2, <4>1, <4>2
    <3>. QED BY <3>1 DEF Active, Pending
  <2>5. Distinct(pending)' /\ Distinct(active)'
    BY <2>2 DEF Distinct
  <2>6. Pending' \cap Active' = {} /\ Active' \subseteq Active
        /\ \A j \in Active' : job'[j].pages = job[j].pages /\ job'[j].width = job[j].width
    BY <2>3
  <2>4. job' \in [Job -> Jobs]
    BY <2>1, JobsMade
  <2>. QED BY <1>1, <2>1, <2>2, <2>4, <2>5, <2>6, NothingStarts DEF Shaped
<1>. QED BY <1>3, <1>4, <1>5 DEF Calls

\* The copy of the queue is in the queue's order.
LEMMA IterateKeeps ==
  ASSUME JobInv, Iterate
  PROVE  JobInv'
<1>1. /\ Shaped /\ Once /\ Fitting(Active, job) /\ pc = "idle"
      /\ skipped' = {} /\ pc' = "start" /\ queue' \in {pending, <<>>}
      /\ UNCHANGED <<pending, active, job, cooldown, rotation>>
  BY DEF JobInv, Iterate
<1>2. Shaped'
  <2>1. queue' \in Seq(Job)
    <3>1. pending \in Seq(Job) /\ <<>> \in Seq(Job)
      BY <1>1, EmptySeq DEF Shaped
    <3>. QED BY <1>1, <3>1
  <2>2. pc' \in {"idle", "start", "generate"} /\ skipped' \subseteq Job
    BY <1>1
  <2>. QED BY <1>1, <2>1, <2>2 DEF Shaped
<1>3. Once' /\ Pending' = Pending /\ Active' = Active
  BY <1>1 DEF Once, Distinct, Pending, Active
<1>4. Fitting(Active, job)'
  BY <1>1, <1>3 DEF Fitting, Units, PagesOf, WidthOf
<1>5. Walk'
  <2>1. ASSUME queue' = pending
        PROVE  /\ Pending' \subseteq skipped' \cup ToSet(queue')
               /\ ToSet(queue') \subseteq Pending' \ skipped'
    BY <1>1, <1>3, <2>1 DEF Pending
  <2>2. ASSUME queue' = pending, NEW m \in 1 .. Len(queue'), NEW n \in 1 .. Len(queue'), m < n
        PROVE  Ahead(queue[m], queue[n])'
    <3>1. m \in DOMAIN pending' /\ n \in DOMAIN pending'
      BY <1>1, <2>2, InSequence DEF Shaped
    <3>. QED BY <1>1, <2>2, <3>1 DEF Ahead
  <2>. QED BY <1>1, <2>1, <2>2 DEF Walk
<1>. QED BY <1>2, <1>3, <1>4, <1>5 DEF JobInv

\* What the walk still has to look at when it moves on: all but the head, none of it the
\* head again.
LEMMA WalkOn ==
  ASSUME Shaped, Once, Walk, queue # <<>>
  PROVE  /\ Head(queue) \in Job /\ Head(queue) \in Pending \ skipped
         /\ Head(queue) = queue[1] /\ 1 \in 1 .. Len(queue)
         /\ Tail(queue) \in Seq(Job) /\ Len(queue) \in Nat
         /\ ToSet(queue) = ToSet(Tail(queue)) \cup {Head(queue)}
         /\ Head(queue) \notin ToSet(Tail(queue))
         /\ \A m, n \in 1 .. Len(Tail(queue)) :
              m < n => Ahead(Tail(queue)[m], Tail(queue)[n])
<1> DEFINE t == Tail(queue)
<1>1. queue \in Seq(Job) /\ pending \in Seq(Job)
  BY DEF Shaped
<1>2. /\ Head(queue) = queue[1] /\ Head(queue) \in Job /\ t \in Seq(Job)
      /\ Len(t) = Len(queue) - 1 /\ Len(queue) \in Nat /\ Len(t) \in Nat
      /\ \A i \in 1 .. Len(t) : t[i] = queue[i + 1]
  BY <1>1, HeadTailProperties, LenProperties
<1> HIDE DEF t
<1>3. /\ 1 \in 1 .. Len(queue)
      /\ \A i \in 1 .. Len(t) : i + 1 \in 1 .. Len(queue) /\ i + 1 # 1
      /\ \A i \in 1 .. Len(queue) : i = 1 \/ (i - 1 \in 1 .. Len(t) /\ (i - 1) + 1 = i)
  BY <1>2
<1>4. /\ ToSet(queue) = {queue[i] : i \in 1 .. Len(queue)}
      /\ ToSet(t) = {t[i] : i \in 1 .. Len(t)}
  BY <1>1, <1>2, InSequence
<1>5. ToSet(queue) = ToSet(t) \cup {Head(queue)}
  <2>1. ASSUME NEW i \in 1 .. Len(queue) PROVE queue[i] \in ToSet(t) \cup {Head(queue)}
    <3>1. CASE i = 1
      BY <1>2, <3>1
    <3>2. CASE i - 1 \in 1 .. Len(t) /\ (i - 1) + 1 = i
      BY <1>2, <1>4, <3>2
    <3>. QED BY <1>3, <3>1, <3>2
  <2>2. ASSUME NEW i \in 1 .. Len(t) PROVE t[i] \in ToSet(queue)
    BY <1>2, <1>3, <1>4
  <2>. QED BY <1>2, <1>3, <1>4, <2>1, <2>2, SMTT(30)
<1>6. ASSUME NEW m \in 1 .. Len(t), NEW n \in 1 .. Len(t), m < n
      PROVE  Ahead(t[m], t[n])
  <2>1. m + 1 \in 1 .. Len(queue) /\ n + 1 \in 1 .. Len(queue) /\ m + 1 < n + 1
    BY <1>2, <1>3, <1>6
  <2>2. Ahead(queue[m + 1], queue[n + 1])
    BY <2>1 DEF Walk
  <2>. QED BY <1>2, <2>2
<1>7. ASSUME NEW i \in 1 .. Len(t) PROVE t[i] # Head(queue)
  <2>1. 1 < i + 1 /\ i + 1 \in 1 .. Len(queue)
    BY <1>2, <1>3
  <2>2. Ahead(queue[1], queue[i + 1])
    BY <1>3, <2>1 DEF Walk
  <2>3. PICK m, n \in DOMAIN pending : m < n /\ pending[m] = queue[1] /\ pending[n] = queue[i + 1]
    BY <2>2 DEF Ahead
  <2>4. m \in 1 .. Len(pending) /\ n \in 1 .. Len(pending) /\ m # n
    BY <1>1, <2>3, InSequence, SMTT(30)
  <2>. QED BY <1>2, <2>3, <2>4 DEF Once, Distinct
<1>8. Head(queue) \notin ToSet(t)
  BY <1>4, <1>7
<1>9. Head(queue) \in Pending \ skipped
  BY <1>5 DEF Walk
<1>. QED BY <1>2, <1>3, <1>5, <1>6, <1>8, <1>9 DEF t

\* A skipped job is remembered.
LEMMA SkipKeeps ==
  ASSUME JobInv, Skip
  PROVE  JobInv'
<1>1. /\ Shaped /\ Once /\ Fitting(Active, job) /\ Walk /\ queue # <<>>
      /\ pc = "start" /\ skipped' = skipped \cup {Head(queue)} /\ queue' = Tail(queue)
      /\ UNCHANGED <<pending, active, job, cooldown, rotation, pc>>
  BY DEF JobInv, Skip
<1>2. /\ Head(queue) \in Job /\ queue' \in Seq(Job)
      /\ ToSet(queue) = ToSet(queue') \cup {Head(queue)} /\ Head(queue) \notin ToSet(queue')
      /\ \A m, n \in 1 .. Len(queue') : m < n => Ahead(queue'[m], queue'[n])
  BY <1>1, WalkOn
<1>3. Shaped'
  BY <1>1, <1>2 DEF Shaped
<1>4. Once' /\ Pending' = Pending /\ Active' = Active
  BY <1>1 DEF Once, Distinct, Pending, Active
<1>5. Fitting(Active, job)'
  BY <1>1, <1>4 DEF Fitting, Units, PagesOf, WidthOf
<1>6. Walk'
  <2>1. /\ Pending \subseteq skipped \cup ToSet(queue)
        /\ ToSet(queue) \subseteq Pending \ skipped
    BY <1>1 DEF Walk
  <2>2. /\ Pending' \subseteq skipped' \cup ToSet(queue')
        /\ ToSet(queue') \subseteq Pending' \ skipped'
    BY <1>1, <1>2, <1>4, <2>1
  <2>3. \A m, n \in 1 .. Len(queue') : m < n => Ahead(queue[m], queue[n])'
    BY <1>1, <1>2 DEF Ahead
  <2>. QED BY <1>1, <2>2, <2>3 DEF Walk
<1>. QED BY <1>3, <1>4, <1>5, <1>6 DEF JobInv

\* A walk that stops has nothing left to look at.
LEMMA StallKeeps ==
  ASSUME JobInv, Stall
  PROVE  JobInv'
<1>1. /\ Shaped /\ Once /\ Fitting(Active, job) /\ queue' = <<>>
      /\ UNCHANGED <<pending, active, job, cooldown, rotation, pc, skipped>>
  BY DEF JobInv, Stall
<1>2. Shaped'
  BY <1>1 DEF Shaped
<1>3. Once' /\ Active' = Active
  BY <1>1 DEF Once, Distinct, Pending, Active
<1>4. Fitting(Active, job)'
  BY <1>1, <1>3 DEF Fitting, Units, PagesOf, WidthOf
<1>5. Walk'
  BY <1>1 DEF Walk
<1>. QED BY <1>2, <1>3, <1>4, <1>5 DEF JobInv

\* The job that starts leaves the pending queue, and the others keep their order.
LEMMA StartJobKeeps ==
  ASSUME JobInv, StartJob
  PROVE  JobInv'
<1> DEFINE h == Head(queue)
<1>1. /\ Shaped /\ Once /\ Fitting(Active, job) /\ Walk /\ queue # <<>>
      /\ pc = "start" /\ Fits(h) /\ pending' = Dropped(pending, {h}) /\ queue' = Tail(queue)
      /\ UNCHANGED <<cooldown, rotation, pc, skipped>>
  BY DEF JobInv, StartJob
<1>2. \/ active' = Append(active, h) /\ job' = Overtaken
      \/ active' = active /\ job' = [Overtaken EXCEPT ![h] = Fresh]
  BY DEF StartJob
<1>3. /\ h \in Job /\ h \in Pending \ skipped /\ queue' \in Seq(Job)
      /\ ToSet(queue) = ToSet(queue') \cup {h} /\ h \notin ToSet(queue')
      /\ \A m, n \in 1 .. Len(queue') : m < n => Ahead(queue'[m], queue'[n])
  BY <1>1, WalkOn
<1> HIDE DEF h
<1>4. /\ pending \in Seq(Job) /\ active \in Seq(Job) /\ job \in [Job -> Jobs]
      /\ Distinct(pending) /\ Distinct(active) /\ Pending \cap Active = {}
      /\ Active \subseteq Job
  BY <1>1, Sizes DEF Shaped, Once
<1>5. pending' \in Seq(Job) /\ Pending' = Pending \ {h} /\ Distinct(pending)'
  BY <1>1, <1>4, DroppedAway
<1>6. /\ Overtaken \in [Job -> Jobs]
      /\ \A i \in Job : Overtaken[i].pages = job[i].pages /\ Overtaken[i].width = job[i].width
  <2>1. ASSUME NEW i \in Job
        PROVE  /\ [job[i] EXCEPT !.skips = @ + 1] \in Jobs /\ job[i] \in Jobs
               /\ [job[i] EXCEPT !.skips = @ + 1].pages = job[i].pages
               /\ [job[i] EXCEPT !.skips = @ + 1].width = job[i].width
    <3>1. job[i] \in Jobs
      BY <1>4
    <3>2. job[i].skips \in Nat
      BY <3>1, JobChanged
    <3>3. job[i].skips + 1 \in Nat
      BY <3>2
    <3>. QED BY <3>1, <3>3, JobChanged
  <2>. QED BY <2>1 DEF Overtaken
<1>7. /\ active' \in Seq(Job) /\ Distinct(active)' /\ Active' \subseteq Active \cup {h}
      /\ job' \in [Job -> Jobs] /\ Fitting(Active', job')
  <2>1. CASE active' = Append(active, h) /\ job' = Overtaken
    <3>1. /\ active' \in Seq(Job) /\ Len(active') = Len(active) + 1 /\ Len(active) \in Nat
          /\ \A i \in 1 .. Len(active) : active'[i] = active[i]
          /\ active'[Len(active) + 1] = h
      BY <1>3, <1>4, <2>1, AppendProperties, LenProperties
    <3>2. /\ \A i \in 1 .. Len(active') : i \in 1 .. Len(active) \/ i = Len(active) + 1
          /\ \A i \in 1 .. Len(active) : i \in 1 .. Len(active')
          /\ Len(active) + 1 \in 1 .. Len(active')
      BY <3>1
    <3>3. \A i \in 1 .. Len(active) : active[i] \in Active /\ active[i] # h
      BY <1>3, <1>4, InSequence DEF Active
    <3>4. \A m, n \in 1 .. Len(active') : active'[m] = active'[n] => m = n
      BY <1>4, <3>1, <3>2, <3>3 DEF Distinct
    <3>5. Active' = Active \cup {h}
      <4>1. /\ \A x : x \in ToSet(active') <=> \E i \in 1 .. Len(active') : active'[i] = x
            /\ \A x : x \in ToSet(active) <=> \E i \in 1 .. Len(active) : active[i] = x
        BY <1>4, <3>1, InSequence
      <4>2. ASSUME NEW x \in ToSet(active') PROVE x \in ToSet(active) \cup {h}
        BY <3>1, <3>2, <4>1
      <4>3. ASSUME NEW x \in ToSet(active) PROVE x \in ToSet(active')
        BY <3>1, <3>2, <4>1
      <4>4. h \in ToSet(active')
        BY <3>1, <3>2, <4>1
      <4>. QED BY <4>2, <4>3, <4>4 DEF Active
    <3>6. Fitting(Active', job')
      <4>1. \A i \in Active \cup {h} :
              job'[i].pages = job[i].pages /\ job'[i].width = job[i].width
        BY <1>3, <1>4, <1>6, <2>1
      <4>2. Fitting(Active \cup {h}, job')
        BY <1>1, <1>3, <4>1, FittingGrown
      <4>. QED BY <3>5, <4>2
    <3>7. Distinct(active)'
      BY <3>4 DEF Distinct
    <3>. QED BY <1>6, <2>1, <3>1, <3>5, <3>6, <3>7
  <2>2. CASE active' = active /\ job' = [Overtaken EXCEPT ![h] = Fresh]
    <3>1. Active' = Active /\ Distinct(active)' /\ active' \in Seq(Job)
      BY <1>4, <2>2 DEF Active, Distinct
    <3>2. job' \in [Job -> Jobs]
      BY <1>6, <2>2, JobsMade
    <3>3. \A i \in Active : job'[i].pages = job[i].pages /\ job'[i].width = job[i].width
      BY <1>3, <1>4, <1>6, <2>2
    <3>4. Fitting(Active, job')
      BY <1>1, <1>4, <3>3, FittingKept
    <3>. QED BY <3>1, <3>2, <3>4
  <2>. QED BY <1>2, <2>1, <2>2
<1>8. Shaped'
  BY <1>1, <1>3, <1>5, <1>7 DEF Shaped
<1>9. Once'
  <2>1. Pending' \cap Active' = {}
    BY <1>4, <1>5, <1>7
  <2>. QED BY <1>5, <1>7, <2>1 DEF Once
<1>10. Fitting(Active, job)'
  BY <1>7 DEF Fitting, Units, PagesOf, WidthOf
<1>11. Walk'
  <2>1. /\ Pending \subseteq skipped \cup ToSet(queue)
        /\ ToSet(queue) \subseteq Pending \ skipped
    BY <1>1 DEF Walk
  <2>2. /\ Pending' \subseteq skipped' \cup ToSet(queue')
        /\ ToSet(queue') \subseteq Pending' \ skipped'
    BY <1>1, <1>3, <1>5, <2>1
  <2>3. ASSUME NEW m \in 1 .. Len(queue'), NEW n \in 1 .. Len(queue'), m < n
        PROVE  Ahead(queue[m], queue[n])'
    <3>1. Ahead(queue'[m], queue'[n])
      BY <1>3, <2>3
    <3>2. PICK a, b \in DOMAIN pending :
            a < b /\ pending[a] = queue'[m] /\ pending[b] = queue'[n]
      BY <3>1 DEF Ahead
    <3>3. queue'[m] \in ToSet(queue') /\ queue'[n] \in ToSet(queue')
      BY <1>3, InSequence
    <3>4. /\ a \in 1 .. Len(pending) /\ b \in 1 .. Len(pending)
          /\ pending[a] \notin {h} /\ pending[b] \notin {h}
      BY <1>3, <1>4, <3>2, <3>3, InSequence, SMTT(30)
    <3>5. ASSUME NEW S, S = {h}
          PROVE  \E i, j \in DOMAIN Dropped(pending, S) :
                   i < j /\ Dropped(pending, S)[i] = pending[a]
                         /\ Dropped(pending, S)[j] = pending[b]
      <4>1. pending[a] \notin S /\ pending[b] \notin S
        BY <3>4, <3>5
      <4>. QED BY <1>4, <3>2, <3>4, <4>1, DroppedOrder
    <3>. QED BY <1>1, <3>2, <3>5, ZenonT(30) DEF Ahead
  <2>. QED BY <1>1, <2>2, <2>3 DEF Walk
<1>. QED BY <1>8, <1>9, <1>10, <1>11 DEF JobInv

\* The prefill round: jobs may only leave, by failing.
LEMMA PrefillRoundKeeps ==
  ASSUME JobInv, PrefillRound
  PROVE  JobInv'
<1>1. /\ Shaped /\ Once /\ queue' = <<>> /\ pc' = "generate" /\ skipped' = {}
      /\ cooldown' = CooldownNext /\ pending' = pending
      /\ rotation' = IF Contended /\ cooldown = 0 THEN (rotation + 1) % Turns ELSE rotation
  BY DEF JobInv, PrefillRound
<1>2. PICK failed \in SUBSET Served :
        /\ active' = Dropped(active, failed)
        /\ job' = [j \in Job |->
             IF j \in failed THEN Fresh
             ELSE IF j \in Served
                  THEN [job[j] EXCEPT !.prompt = IF @ > Chunk THEN @ - Chunk ELSE 0]
                  ELSE job[j]]
  BY DEF PrefillRound
<1>3. /\ pending \in Seq(Job) /\ active \in Seq(Job) /\ job \in [Job -> Jobs]
      /\ cooldown \in 0 .. Cooldown /\ rotation \in 0 .. Turns - 1
      /\ Distinct(pending) /\ Distinct(active) /\ Pending \cap Active = {}
      /\ Active \subseteq Job
  BY <1>1, Sizes DEF Shaped, Once
<1>4. active' \in Seq(Job) /\ Active' = Active \ failed /\ Distinct(active)'
  BY <1>2, <1>3, DroppedAway
<1>5. Pending' = Pending /\ Distinct(pending)'
  BY <1>1, <1>3 DEF Pending, Distinct
<1>6. Pending' \cap Active' = {} /\ Active' \subseteq Active
  BY <1>3, <1>4, <1>5
<1>7. Chunk \in Nat
  BY ChunksAssumption DEF Chunk
<1>8. \A j \in Job : /\ [job[j] EXCEPT !.prompt = IF @ > Chunk THEN @ - Chunk ELSE 0] \in Jobs
                     /\ [job[j] EXCEPT !.prompt = IF @ > Chunk THEN @ - Chunk ELSE 0].pages
                          = job[j].pages
                     /\ [job[j] EXCEPT !.prompt = IF @ > Chunk THEN @ - Chunk ELSE 0].width
                          = job[j].width
  <2>1. ASSUME NEW j \in Job, NEW n,
               n = IF job[j].prompt > Chunk THEN job[j].prompt - Chunk ELSE 0
        PROVE  /\ [job[j] EXCEPT !.prompt = n] \in Jobs
               /\ [job[j] EXCEPT !.prompt = n].pages = job[j].pages
               /\ [job[j] EXCEPT !.prompt = n].width = job[j].width
    <3>1. job[j] \in Jobs
      BY <1>3
    <3>2. job[j].prompt \in Nat
      BY <3>1, JobChanged
    <3>3. n \in Nat
      BY <1>7, <2>1, <3>2
    <3>. QED BY <3>1, <3>3, JobChanged
  <2>. QED BY <2>1
<1>9. job' \in [Job -> Jobs]
  BY <1>2, <1>3, <1>8, JobsMade
<1>10. \A j \in Active' : job'[j].pages = job[j].pages /\ job'[j].width = job[j].width
  <2>1. ASSUME NEW j \in Active'
        PROVE  job'[j].pages = job[j].pages /\ job'[j].width = job[j].width
    <3>1. j \in Job /\ j \notin failed /\ job[j] \in Jobs
      BY <1>3, <1>4
    <3>2. \/ job'[j] = job[j]
          \/ job'[j] = [job[j] EXCEPT !.prompt = IF @ > Chunk THEN @ - Chunk ELSE 0]
      BY <1>2, <3>1
    <3>. QED BY <1>8, <3>1, <3>2
  <2>. QED BY <2>1
<1>11. cooldown' \in 0 .. Cooldown
  BY <1>1, <1>3, ChunksAssumption DEF CooldownNext
<1>12. rotation' \in 0 .. Turns - 1
  <2>1. rotation + 1 \in Int /\ Turns \in Nat \ {0}
    BY <1>3, TurnsAssumption
  <2>2. (rotation + 1) % Turns \in 0 .. Turns - 1
    BY <2>1
  <2>. QED BY <1>1, <1>3, <2>2
<1>. QED BY <1>1, <1>3, <1>4, <1>5, <1>6, <1>9, <1>10, <1>11, <1>12, NothingStarts

\* iterate_gen: the requeued jobs move from the batch to the front of the queue.
LEMMA GenerateKeeps ==
  ASSUME JobInv, Generate
  PROVE  JobInv'
<1>1. /\ Shaped /\ Once /\ Walk /\ pc = "generate" /\ pc' = "idle"
      /\ UNCHANGED <<cooldown, rotation, queue, skipped>>
  BY DEF JobInv, Generate
<1>2. PICK ended \in SUBSET Ready :
        /\ {j \in Ready : job[j].tokens = 1} \subseteq ended
        /\ LET requeued == SegmentDone \ ended IN
           \E replay \in [requeued -> {0, 1}] :
             /\ active' = Dropped(active, EndedOrRequeued(ended, requeued))
             /\ pending' = AtFront(Picked(active, {i \in DOMAIN active : active[i] \in requeued}))
             /\ job' = [j \in Job |->
                  CASE j \in ended    -> Fresh
                    [] j \in requeued -> Requeued(job[j], replay[j])
                    [] j \in Ready \ (ended \cup requeued) ->
                         [job[j] EXCEPT !.tokens = @ - 1, !.left = IF @ = 0 THEN 0 ELSE @ - 1]
                    [] OTHER -> job[j]]
  BY DEF Generate
<1> DEFINE R == SegmentDone \ ended
<1>3. PICK replay \in [R -> {0, 1}] :
        /\ active' = Dropped(active, ended \cup R)
        /\ pending' = Reverse(Picked(active, {i \in DOMAIN active : active[i] \in R})) \o pending
        /\ job' = [j \in Job |->
             CASE j \in ended    -> Fresh
               [] j \in R -> Requeued(job[j], replay[j])
               [] j \in Ready \ (ended \cup R) ->
                    [job[j] EXCEPT !.tokens = @ - 1, !.left = IF @ = 0 THEN 0 ELSE @ - 1]
               [] OTHER -> job[j]]
  BY <1>2 DEF EndedOrRequeued, AtFront
<1>4. /\ pending \in Seq(Job) /\ active \in Seq(Job) /\ job \in [Job -> Jobs]
      /\ Distinct(pending) /\ Distinct(active) /\ Pending \cap Active = {}
      /\ Active \subseteq Job /\ queue = <<>>
  BY <1>1, Sizes DEF Shaped, Once, Walk
<1>5. ended \subseteq Active /\ R \cap ended = {} /\ R \subseteq Active /\ R \subseteq Ready /\ Ready \subseteq Active
  BY DEF Ready, SegmentDone
<1>6. \A j \in Ready \ ended : job[j].tokens # 1 /\ j \in Job
  BY <1>2, <1>4, <1>5
<1> HIDE DEF R
<1>7. active' \in Seq(Job) /\ Active' = Active \ (ended \cup R) /\ Distinct(active)'
  BY <1>3, <1>4, DroppedAway
<1>8. pending' \in Seq(Job) /\ Pending' = R \cup Pending /\ Distinct(pending)'
  <2>1. /\ pending' \in Seq(Job) /\ ToSet(pending') = (ToSet(active) \cap R) \cup ToSet(pending)
        /\ Distinct(active) /\ Distinct(pending) /\ ToSet(active) \cap ToSet(pending) = {}
             => Distinct(pending')
    <3>1. LET f == Reverse(Picked(active, {i \in DOMAIN active : active[i] \in R})) \o pending
          IN  /\ f \in Seq(Job) /\ ToSet(f) = (ToSet(active) \cap R) \cup ToSet(pending)
              /\ Distinct(active) /\ Distinct(pending) /\ ToSet(active) \cap ToSet(pending) = {}
                   => Distinct(f)
      BY <1>4, FrontFacts, SMTT(30)
    <3>. QED BY <1>3, <3>1
  <2>2. ToSet(active) \cap R = R /\ ToSet(active) \cap ToSet(pending) = {}
    BY <1>4, <1>5 DEF Active, Pending
  <2>3. Distinct(pending')
    BY <1>4, <2>1, <2>2
  <2>. QED BY <2>1, <2>2, <2>3 DEF Pending, Distinct
<1>9. Pending' \cap Active' = {} /\ Active' \subseteq Active
  BY <1>4, <1>7, <1>8
<1>11. job' \in [Job -> Jobs]
  <2>1. ASSUME NEW j \in Job PROVE job'[j] \in Jobs
    <3>1. CASE j \in ended
      <4>1. job'[j] = Fresh
        BY <1>3, <1>5, <3>1
      <4>. QED BY <4>1, JobsMade
    <3>2. CASE j \in R /\ j \notin ended
      <4>1. job'[j] = Requeued(job[j], replay[j])
        BY <1>3, <3>2
      <4>2. job[j] \in Jobs /\ job[j].tokens # 1 /\ replay[j] \in {0, 1}
        BY <1>4, <1>5, <1>6, <3>2
      <4>. QED BY JobServed, <4>1, <4>2
    <3>3. CASE j \in Ready \ (ended \cup R)
      <4>1. job'[j] = [job[j] EXCEPT !.tokens = @ - 1, !.left = IF @ = 0 THEN 0 ELSE @ - 1]
        BY <1>3, <3>3
      <4>2. job[j] \in Jobs /\ job[j].tokens # 1
        BY <1>4, <1>6, <3>3
      <4>. QED BY JobServed, <4>1, <4>2
    <3>4. CASE j \notin ended /\ j \notin R /\ j \notin Ready
      BY <1>3, <1>4, <3>4
    <3>. QED BY <3>1, <3>2, <3>3, <3>4
  <2>. QED BY <1>3, <2>1
<1>12. ASSUME NEW j \in Active'
       PROVE  job'[j].pages = job[j].pages /\ job'[j].width = job[j].width
  <2>1. j \in Job /\ j \notin ended /\ j \notin R /\ job[j] \in Jobs
    BY <1>4, <1>7
  <2>2. \/ job'[j] = job[j]
        \/ job'[j] = [job[j] EXCEPT !.tokens = @ - 1, !.left = IF @ = 0 THEN 0 ELSE @ - 1]
    BY <1>3, <2>1
  <2>. QED BY <2>1, <2>2 DEF Jobs
<1>13. cooldown' \in 0 .. Cooldown /\ rotation' \in 0 .. Turns - 1 /\ skipped' \subseteq Job
  BY <1>1 DEF Shaped
<1>14. queue' = <<>> /\ pc' \in {"idle", "start", "generate"}
  BY <1>1, <1>4
<1>. QED BY <1>7, <1>8, <1>9, <1>11, <1>12, <1>13, <1>14, NothingStarts

-----------------------------------------------------------------------------
(* The theorems.                                                            *)

\* The queues start empty.
LEMMA JobsInitially == Init => JobInv
<1> SUFFICES ASSUME Init PROVE JobInv
  OBVIOUS
<1>1. /\ pending = <<>> /\ active = <<>> /\ queue = <<>> /\ pc = "idle" /\ skipped = {}
      /\ job = [j \in Job |-> Fresh] /\ cooldown = 0 /\ rotation = 0
  BY DEF Init
<1>2. Shaped
  <2>1. job \in [Job -> Jobs]
    BY <1>1, JobsMade
  <2>2. cooldown \in 0 .. Cooldown /\ rotation \in 0 .. Turns - 1
    BY <1>1, ChunksAssumption, TurnsAssumption
  <2>. QED BY <1>1, <2>1, <2>2 DEF Shaped
<1>3. Pending = {} /\ Active = {}
  <2>1. ToSet(<<>>) = {}
    BY DEF ToSet
  <2>. QED BY <1>1, <2>1 DEF Pending, Active
<1>4. Once
  BY <1>1, <1>3 DEF Once, Distinct
<1>5. Fitting(Active, job)
  <2>1. Units(Active, PagesOf(job)) = {} /\ Units(Active, WidthOf(job)) = {}
    BY <1>3 DEF Units
  <2>2. IsFiniteSet({}) /\ Cardinality({}) = 0
    BY FS_EmptySet
  <2>. QED BY <2>1, <2>2, SizesAssumption DEF Fitting
<1>6. Walk
  BY <1>1 DEF Walk
<1>. QED BY <1>2, <1>4, <1>5, <1>6 DEF JobInv

\* Every step keeps the invariant.
LEMMA JobsStep == JobInv /\ [Next]_vars => JobInv'
<1> SUFFICES ASSUME JobInv, [Next]_vars PROVE JobInv'
  OBVIOUS
<1>1. CASE Calls
  BY <1>1, CallsKeep
<1>2. CASE Step
  BY <1>2, IterateKeeps, SkipKeeps, StallKeeps, StartJobKeeps, PrefillRoundKeeps,
     GenerateKeeps DEF Step
<1>3. CASE UNCHANGED vars
  BY <1>3 DEF vars, JobInv, Shaped, Once, Distinct, Fitting, Units, PagesOf, WidthOf, Walk,
     Ahead, Pending, Active
<1>. QED BY <1>1, <1>2, <1>3 DEF Next

\* In every behaviour of the queues no job is held twice, the batch fits, and the walk of
\* iterate_start_jobs agrees with the queue it copied.
THEOREM JobInvariant == Spec => []JobInv
<1>. QED BY JobsInitially, JobsStep, PTL DEF Spec

\* The queues hold jobs, none of them twice: not after a requeue, a failed start or a
\* cancel.
THEOREM JobsTyped == Spec => []TypeOK
<1>1. ASSUME JobInv PROVE TypeOK
  <2>1. /\ pending \in Seq(Job) /\ active \in Seq(Job) /\ job \in [Job -> Jobs]
        /\ Distinct(pending) /\ Distinct(active) /\ Pending \cap Active = {}
    BY <1>1 DEF JobInv, Shaped, Once
  <2> DEFINE f == pending \o active
  <2>2. /\ f \in Seq(Job) /\ Len(f) = Len(pending) + Len(active)
        /\ \A i \in 1 .. Len(pending) + Len(active) :
             f[i] = IF i <= Len(pending) THEN pending[i] ELSE active[i - Len(pending)]
    BY <2>1, ConcatProperties
  <2> HIDE DEF f
  <2>3. Len(pending) \in Nat /\ Len(active) \in Nat /\ DOMAIN f = 1 .. Len(f)
    BY <2>1, <2>2, LenProperties
  <2>4. \A i \in DOMAIN f :
          \/ i \in 1 .. Len(pending) /\ f[i] = pending[i] /\ pending[i] \in Pending
          \/ /\ i \notin 1 .. Len(pending) /\ i - Len(pending) \in 1 .. Len(active)
             /\ f[i] = active[i - Len(pending)] /\ active[i - Len(pending)] \in Active
    <3>1. ASSUME NEW i \in DOMAIN f
          PROVE  \/ i \in 1 .. Len(pending) /\ f[i] = pending[i]
                 \/ /\ i \notin 1 .. Len(pending) /\ i - Len(pending) \in 1 .. Len(active)
                    /\ f[i] = active[i - Len(pending)]
      BY <2>2, <2>3
    <3>2. /\ \A i \in 1 .. Len(pending) : pending[i] \in Pending
          /\ \A i \in 1 .. Len(active) : active[i] \in Active
      BY <2>1, InSequence DEF Pending, Active
    <3>. QED BY <3>1, <3>2
  <2>5. ASSUME NEW m \in DOMAIN f, NEW n \in DOMAIN f, f[m] = f[n]
        PROVE  m = n
    <3>1. CASE m \in 1 .. Len(pending) /\ n \in 1 .. Len(pending)
      BY <2>1, <2>4, <2>5, <3>1 DEF Distinct
    <3>2. CASE m \notin 1 .. Len(pending) /\ n \notin 1 .. Len(pending)
      <4>1. m - Len(pending) = n - Len(pending)
        BY <2>1, <2>4, <2>5, <3>2 DEF Distinct
      <4>. QED BY <2>3, <4>1
    <3>3. CASE m \in 1 .. Len(pending) /\ n \notin 1 .. Len(pending)
      BY <2>1, <2>4, <2>5, <3>3
    <3>4. CASE m \notin 1 .. Len(pending) /\ n \in 1 .. Len(pending)
      BY <2>1, <2>4, <2>5, <3>4
    <3>. QED BY <3>1, <3>2, <3>3, <3>4
  <2>6. IsInjective(f)
    BY <2>5 DEF IsInjective
  <2>. QED BY <1>1, <2>6 DEF f, TypeOK, JobInv, Shaped, Jobs
<1>. QED BY <1>1, JobInvariant, PTL

\* The started jobs fit the batch and the cache, whichever start, fail or requeue.
THEOREM BatchFits == Spec => []WithinCapacity
<1>1. ASSUME JobInv PROVE WithinCapacity
  BY <1>1, Sizes DEF JobInv, Fitting, WithinCapacity
<1>. QED BY <1>1, JobInvariant, PTL

\* A job starts before a pending one that has been skipped max_skips times only if it is
\* ahead of it in the queue.
THEOREM NoneOvertaken == Spec => NotOvertaken
<1> DEFINE Orderly ==
      \A i, j \in Job :
        i \in Active' \ Active /\ j \in Pending /\ job[j].skips >= job[j].maxSkips
          => i = j \/ Ahead(i, j)
<1>1. ASSUME JobInv, StartJob, NEW i \in Job, NEW j \in Job,
             i \in Active' \ Active, j \in Pending, job[j].skips >= job[j].maxSkips
      PROVE  i = j \/ Ahead(i, j)
  <2>1. /\ Shaped /\ Once /\ Walk /\ queue # <<>> /\ ~ Stalled(skipped)
        /\ active' = Append(active, Head(queue)) \/ active' = active
    BY <1>1 DEF JobInv, StartJob
  <2>2. Head(queue) = queue[1] /\ 1 \in 1 .. Len(queue) /\ Len(queue) \in Nat
        /\ Head(queue) \in Job
    BY <2>1, WalkOn
  <2>3. i = Head(queue)
    <3>1. active \in Seq(Job)
      BY <2>1 DEF Shaped
    <3>2. active' = Append(active, Head(queue))
      BY <1>1, <2>1 DEF Active
    <3>3. /\ active' \in Seq(Job) /\ Len(active') = Len(active) + 1 /\ Len(active) \in Nat
          /\ \A k \in 1 .. Len(active) : active'[k] = active[k]
          /\ active'[Len(active) + 1] = Head(queue)
      BY <2>2, <3>1, <3>2, AppendProperties, LenProperties
    <3>4. PICK k \in 1 .. Len(active') : active'[k] = i
      BY <1>1, <3>3, InSequence DEF Active
    <3>5. k \notin 1 .. Len(active)
      BY <1>1, <3>1, <3>3, <3>4, InSequence DEF Active
    <3>6. k = Len(active) + 1
      BY <3>3, <3>5
    <3>. QED BY <3>3, <3>4, <3>6
  <2>4. j \notin skipped
    BY <1>1, <2>1 DEF Stalled
  <2>5. j \in ToSet(queue)
    BY <1>1, <2>1, <2>4 DEF Walk
  <2>6. PICK n \in 1 .. Len(queue) : queue[n] = j
    BY <2>1, <2>5, InSequence DEF Shaped
  <2>7. n = 1 \/ 1 < n
    BY <2>2
  <2>. QED BY <2>1, <2>2, <2>3, <2>6, <2>7 DEF Walk
<1>2. ASSUME JobInv, [Next]_vars, ~ StartJob
      PROVE  Active' \subseteq Active
  <2>1. active \in Seq(Job) /\ Distinct(active)
    BY <1>2 DEF JobInv, Shaped, Once
  <2>2. ASSUME NEW S, active' = Dropped(active, S) PROVE Active' \subseteq Active
    BY <2>1, <2>2, DroppedAway
  <2>3. CASE active' = active
    BY <2>3 DEF Active
  <2>4. CASE active' = <<>>
    <3>1. ToSet(<<>>) = {}
      BY DEF ToSet
    <3>. QED BY <2>4, <3>1 DEF Active
  <2>5. CASE Calls
    BY <2>2, <2>3, <2>4, <2>5 DEF Calls, ClearQueue, Enqueue, Cancel
  <2>6. CASE Step
    <3>1. CASE PrefillRound
      BY <2>2, <3>1 DEF PrefillRound
    <3>2. CASE Generate
      BY <2>2, <3>2 DEF Generate
    <3>3. CASE Iterate \/ Skip \/ Stall
      BY <2>3, <3>3 DEF Iterate, Skip, Stall
    <3>. QED BY <1>2, <2>6, <3>1, <3>2, <3>3 DEF Step
  <2>7. CASE UNCHANGED vars
    BY <2>3, <2>7 DEF vars
  <2>. QED BY <1>2, <2>5, <2>6, <2>7 DEF Next
<1>3. JobInv /\ [Next]_vars => [Orderly]_vars
  BY <1>1, <1>2
<1>. QED BY <1>3, JobInvariant, PTL DEF Spec, NotOvertaken, Orderly
=============================================================================
