-------------------------- MODULE PagedCacheProofs --------------------------
(***************************************************************************)
(* What is proved of PagedJobs, second part: the K/V cache is sound.       *)
(*  - The steps that hash pages and those that start, resume, prefill and  *)
(*    forward jobs keep CacheInv too: CacheKept.                           *)
(*  - So no job reads K/V of another context, content hashes name what     *)
(*    their pages hold, a sequence writes at its own frontier, held pages  *)
(*    stay unpublished, and every variable keeps its type.                 *)
(*  - Eviction loses no page, and an admitted job never runs out of them.  *)
(* Provided that prompts begin with a token that occurs nowhere else, that *)
(* banned strings do not begin at page boundaries, and that a prefill pass *)
(* that raises has written nothing (PromptsOpen, HoldsInside,              *)
(* RaisesUnwritten); what happens otherwise are the findings.              *)
(***************************************************************************)
EXTENDS PagedJobsProofs

-----------------------------------------------------------------------------
(* Giving way to a page with the same contents, and the steps that hash.   *)

\* A referenced page has the hash: it takes the page's place.
LEMMA GivesWay ==
  ASSUME CacheInv, cur \in Job, NEW J, J.pages = job[cur].pages,
         NEW i, NEW row, HashReady(table, cache, J, i, row), NEW h, h = FinalHash(table, J, i),
         Holds(table, table.referenced, h), Hashable(table, J, i)
  PROVE  LET after == GiveWay(table, J, i, h) IN Refiled(after.table, after.job, J, i, row)
<1>. DEFINE own == PageOf(J, i)
            released == SubRef(table, own)
            twin == Lookup(released, released.referenced, h)
            J2 == [J EXCEPT !.pages[i + 1] = twin]
            w == AddRef(released, twin, table.page[own].serial)
            u == LinkNext(w, J2, i, h)
<1>1. /\ PagesTyped(table) /\ Sound(table) /\ BasesApart(table, BlockTables)
      /\ PagesTrue(table, cache) /\ CountsMatch(table, BlockTables)
      /\ BlockTables \in [Job -> Seq(Page)] /\ job \in [Job -> JobState]
  BY BlockTablesType DEF CacheInv, Typed, BooksInv, Sound, PagesTyped
<1>2. /\ own \in Page /\ table.page[own].phash.base # 0 /\ table.page[own].kv = PageSize
      /\ SolePlace(BlockTables, own, cur, i + 1) /\ Placing(BlockTables)
      /\ table.page[own].refs = 1
      /\ \A n \in Index(J) : n # i => PageOf(J, n) # own
      /\ \A n \in Index(J) : n > i => table.page[PageOf(J, n)].phash.base # 0
  BY HashSite
<1>3. FinalFor(table, J, i, h) /\ h \in Hash
  <2>1. FinalFor(table, J, i, h)
    BY <1>1, FinalHashFacts
  <2>. QED BY <2>1 DEF FinalFor
<1>4. J \in JobState /\ i \in Nat /\ i \in Index(J) /\ i + 1 \in DOMAIN J.pages
      /\ J.pages \in Seq(Page)
  BY PagesIndexed, JobFields DEF HashReady
<1>5. GiveWay(table, J, i, h) = [table |-> u, job |-> J2]
  BY DEF GiveWay, PageOf
<1>6. \E q \in released.referenced : released.page[q].phash = h /\ Complete(released, q)
  BY DEF Hashable, PageOf
<1>. HIDE DEF own
<1>7. /\ PagesTyped(released) /\ Sound(released) /\ Uncounts(table, released, own)
      /\ \A q \in Page \ {own} : released.page[q] = table.page[q]
      /\ \A c : TruePage(table.page[own], c) => TruePage(released.page[own], c)
  <2>1. PagesTyped(table) /\ Sound(table) /\ own \in Page /\ table.page[own].refs > 0
    BY <1>1, <1>2
  <2>2. /\ PagesTyped(released)
        /\ \A q \in Page \ {own} : released.page[q] = table.page[q]
        /\ \A c : TruePage(table.page[own], c) => TruePage(released.page[own], c)
    BY ONLY <2>1, SubRefPages
  <2>3. Sound(released) /\ Uncounts(table, released, own)
    BY ONLY <2>1, SubRefSound
  <2>. QED BY <2>2, <2>3
<1>8. twin \in released.referenced /\ released.page[twin].phash = h /\ Complete(released, twin)
  <2>. HIDE DEF released
  <2>1. PICK q \in released.referenced : released.page[q].phash = h /\ Complete(released, q)
    BY <1>6
  <2>2. twin \in released.referenced /\ released.page[twin].phash = h
    BY <2>1 DEF Lookup
  <2>3. twin = q
    <3>. HIDE DEF twin
    <3>. QED BY <1>7, <2>1, <2>2 DEF Sound, PagesFiled, HashesUnique
  <2>. QED BY <2>1, <2>2, <2>3
<1>. HIDE DEF twin, released
<1>9. /\ twin \in Page /\ twin # own /\ table.page[twin].phash = h
      /\ table.page[twin].kv = PageSize /\ table.page[twin].refs > 0
      /\ released.page[twin] = table.page[twin]
  <2>1. twin \in Page /\ released.page[twin].refs > 0
    BY <1>7, <1>8 DEF Sound, PagesFiled
  <2>2. twin # own
    BY <1>2, <1>7, <2>1 DEF Uncounts
  <2>. QED BY <1>7, <1>8, <2>1, <2>2 DEF Complete
<1>10. h.base = 0
  <2>0. PICK l \in Job : \E m \in DOMAIN BlockTables[l] : BlockTables[l][m] = twin
    BY <1>1, <1>9, Placed
  <2>1. PICK m \in DOMAIN BlockTables[l] : BlockTables[l][m] = twin
    BY <2>0
  <2>2. h.base # 0 => Len(h.toks) < Len(h.toks)
    BY <1>3, <1>9, <2>1, FinalApart
  <2>3. Len(h.toks) \in Nat
    BY <1>3 DEF Hash
  <2>. QED BY <2>2, <2>3
<1>11. \A s \in Slot : /\ cache[twin][s] = SubSeq(row, 1, i * PageSize + s + 1)
                       /\ table.page[twin].toks[s] = row[i * PageSize + s + 1]
  <2>. DEFINE r == table.page[twin]
  <2>1. Truth(h, r.prev, PageSize, r.toks, cache[twin])
    BY <1>1, <1>9 DEF PagesTrue, TruePage
  <2>. HIDE DEF r
  <2>2. /\ row \in Seq(Token) /\ (i + 1) * PageSize <= Len(row)
        /\ h.toks = SubSeq(row, 1, (i + 1) * PageSize)
    BY <1>3, <1>10 DEF HashReady, FinalFor
  <2>3. \A s \in Slot : /\ cache[twin][s] = SubSeq(row, 1, i * PageSize + s + 1)
                        /\ r.toks[s] = row[i * PageSize + s + 1]
    BY ONLY <1>4, <1>10, <2>1, <2>2, NamedPage
  <2>. QED BY <2>3 DEF r
<1>12. /\ J2 \in JobState /\ J2 = [J EXCEPT !.pages = J2.pages]
       /\ J2.pages = [J.pages EXCEPT ![i + 1] = twin] /\ Len(J2.pages) = Len(J.pages)
       /\ J2.ids = J.ids /\ PrefillDone(J2)
  <2>. DEFINE y == [J.pages EXCEPT ![i + 1] = twin]
  <2>1. y \in Seq(Page) /\ Len(y) = Len(J.pages)
    <3>. DEFINE x == J.pages
                n == i + 1
    <3>1. x \in Seq(Page) /\ n \in DOMAIN x
      BY <1>4
    <3>. HIDE DEF x, n
    <3>2. [x EXCEPT ![n] = twin] \in Seq(Page) /\ Len([x EXCEPT ![n] = twin]) = Len(x)
      BY ONLY <1>9, <3>1
    <3>. QED BY <3>2 DEF x, n
  <2>2. J2 = [J EXCEPT !.pages = y]
    BY <1>4 DEF JobState
  <2>. HIDE DEF y, J2
  <2>3. J2 \in JobState /\ J2.pages = y /\ J2.ids = J.ids /\ J2.pos = J.pos
    BY <1>4, <2>1, <2>2 DEF JobState
  <2>. QED BY <2>1, <2>2, <2>3 DEF y, PrefillDone, HashReady
<1>. HIDE DEF J2
<1>13. /\ Index(J2) = Index(J) /\ PageOf(J2, i) = twin
       /\ \A n \in Index(J) : n # i => PageOf(J2, n) = PageOf(J, n)
  <2>1. \A n \in Index(J) : n \in Nat /\ n + 1 \in DOMAIN J.pages
    BY <1>4, PagesIndexed
  <2>2. Index(J2) = Index(J)
    BY <1>12 DEF Index
  <2>3. PageOf(J2, i) = twin
    BY <1>4, <1>12 DEF PageOf
  <2>4. ASSUME NEW n \in Index(J), n # i PROVE PageOf(J2, n) = PageOf(J, n)
    <3>1. n + 1 # i + 1 /\ n + 1 \in DOMAIN J.pages
      <4>1. n \in Nat /\ n + 1 \in DOMAIN J.pages
        BY <2>1
      <4>. QED BY ONLY <1>4, <2>4, <4>1
    <3>. QED BY <1>12, <3>1 DEF PageOf
  <2>. QED BY <2>2, <2>3, <2>4
<1>14. /\ PagesTyped(w)
       /\ SamePage(table.page[twin], w.page[twin]) /\ w.page[twin].saved = None
       /\ \A q \in Page \ {twin} : w.page[q] = released.page[q]
  <2>1. table.page[own].serial \in Nat
    BY <1>1, <1>2, RecordFields
  <2>. QED BY <1>7, <1>9, <2>1, AddRefPages
<1>. HIDE DEF w
<1>15. /\ PagesTyped(u)
       /\ \A q \in Page :
            /\ SameButLink(w.page[q], u.page[q])
            /\ IF i + 1 \in Index(J) /\ q = PageOf(J, i + 1)
               THEN u.page[q].prev = h /\ u.page[q].saved = None
               ELSE u.page[q].prev = w.page[q].prev /\ u.page[q].saved = w.page[q].saved
  <2>1. /\ PagesTyped(u)
        /\ \A q \in Page :
             /\ SameButLink(w.page[q], u.page[q])
             /\ IF i + 1 \in Index(J2) /\ q = PageOf(J2, i + 1)
                THEN u.page[q].prev = h /\ u.page[q].saved = None
                ELSE u.page[q].prev = w.page[q].prev /\ u.page[q].saved = w.page[q].saved
    BY <1>3, <1>4, <1>12, <1>14, LinkNextPages
  <2>2. i + 1 # i
    BY <1>4
  <2>. HIDE DEF u
  <2>. QED BY <1>13, <2>1, <2>2
<1>. HIDE DEF u
<1>16. \A n \in Index(J) : PageOf(J, n) \in Page
  BY <1>4, PagesIndexed
<1>17. i + 1 \in Index(J) => /\ PageOf(J, i + 1) # own /\ PageOf(J, i + 1) \in Page
                             /\ PageOf(J, i + 1) # twin
                             /\ w.page[PageOf(J, i + 1)] = table.page[PageOf(J, i + 1)]
                             /\ table.page[PageOf(J, i + 1)].phash.base # 0
  <2>. SUFFICES ASSUME i + 1 \in Index(J)
                PROVE /\ PageOf(J, i + 1) # own /\ PageOf(J, i + 1) \in Page
                      /\ PageOf(J, i + 1) # twin
                      /\ w.page[PageOf(J, i + 1)] = table.page[PageOf(J, i + 1)]
                      /\ table.page[PageOf(J, i + 1)].phash.base # 0
    OBVIOUS
  <2>1. i + 1 # i /\ i + 1 > i
    BY <1>4
  <2>2. /\ PageOf(J, i + 1) # own /\ PageOf(J, i + 1) \in Page
        /\ table.page[PageOf(J, i + 1)].phash.base # 0
    BY <1>2, <1>16, <2>1
  <2>. QED BY <1>7, <1>9, <1>10, <1>14, <2>2
<1>18. \A q \in Page \ {own} :
         \/ i + 1 \in Index(J) /\ q = PageOf(J, i + 1)
         \/ /\ SamePage(table.page[q], u.page[q])
            /\ u.page[q].saved = table.page[q].saved \/ u.page[q].saved = None
  BY <1>7, <1>9, <1>14, <1>15 DEF SameButLink, SamePage
<1>19. i + 1 \in Index(J) =>
         LET q == PageOf(J, i + 1) IN
         /\ SameButLink(table.page[q], u.page[q]) /\ u.page[q].prev = h
         /\ u.page[q].saved = None
  BY <1>15, <1>17
<1>20. SamePage(table.page[twin], u.page[twin])
  BY <1>9, <1>17, <1>18
<1>21. PagesTrue(u, cache)
  <2>. SUFFICES ASSUME NEW q \in Page PROVE TruePage(u.page[q], cache[q])
    BY DEF PagesTrue
  <2>1. CASE q = own
    <3>1. /\ SamePage(released.page[own], u.page[own])
          /\ u.page[own].saved = released.page[own].saved
      BY <1>2, <1>9, <1>14, <1>15, <1>17 DEF SameButLink, SamePage
    <3>2. TruePage(released.page[own], cache[own])
      BY <1>1, <1>2, <1>7 DEF PagesTrue
    <3>. QED BY <2>1, <3>1, <3>2, TruePageFrame
  <2>2. CASE i + 1 \in Index(J) /\ q = PageOf(J, i + 1)
    BY <1>3, <1>19, <2>2, NextPageTrue
  <2>3. CASE /\ SamePage(table.page[q], u.page[q])
             /\ u.page[q].saved = table.page[q].saved \/ u.page[q].saved = None
    BY <1>1, <2>3, TruePageFrame DEF PagesTrue
  <2>. QED BY <1>18, <2>1, <2>2, <2>3
<1>22. HashDone(u, cache, J2, i, row)
  <2>1. HashedPage(u, cache, J2, i, row, h)
    BY <1>9, <1>11, <1>13, <1>20 DEF HashedPage, SamePage
  <2>2. HashedRest(table, u, J, J2, i, h)
    <3>1. ASSUME NEW n \in Index(J), n # i
          PROVE  /\ SameButLink(table.page[PageOf(J, n)], u.page[PageOf(J, n)])
                 /\ u.page[PageOf(J, n)].prev = IF n = i + 1 THEN h ELSE table.page[PageOf(J, n)].prev
      <4>1. PageOf(J, n) # own /\ PageOf(J, n) \in Page
        BY <1>2, <1>16, <3>1
      <4>2. CASE n = i + 1
        BY <1>19, <4>2
      <4>3. CASE n # i + 1
        <5>1. i + 1 \in Index(J) => PageOf(J, n) # PageOf(J, i + 1)
          <6>1. SUFFICES ASSUME i + 1 \in Index(J), PageOf(J, n) = PageOf(J, i + 1) PROVE FALSE
            BY SMTT(30)
          <6>2. /\ i + 1 \in Index(job[cur]) /\ n \in Index(job[cur])
                /\ PageOf(job[cur], n) = PageOf(job[cur], i + 1)
                /\ table.page[PageOf(job[cur], i + 1)].phash.base # 0
            BY <1>17, <6>1 DEF Index, PageOf
          <6>. QED BY SMTT(30), <1>1, <4>3, <6>2, Exclusive DEF PagesTyped
        <5>2. SamePage(table.page[PageOf(J, n)], u.page[PageOf(J, n)])
          BY <1>18, <4>1, <5>1
        <5>. QED BY <4>3, <5>2 DEF SamePage, SameButLink
      <4>. QED BY <4>2, <4>3
    <3>. QED BY <1>12, <1>13, <3>1 DEF HashedRest
  <2>. QED BY <1>3, <2>1, <2>2, HashedServed
<1>23. \A q \in Page :
         \/ SamePage(table.page[q], u.page[q])
         \/ \E n \in Index(J) : PageOf(J, n) = q /\ table.page[q].phash.base # 0
  BY <1>2, <1>4, <1>17, <1>18 DEF own
<1>24. BasesApart(u, [BlockTables EXCEPT ![cur] = J2.pages])
  <2>. DEFINE f == BlockTables
              g == [BlockTables EXCEPT ![cur] = J2.pages]
  <2>1. ASSUME NEW l \in Job, NEW m \in DOMAIN g[l]
        PROVE  \/ u.page[g[l][m]].phash.base = 0
               \/ m \in DOMAIN f[l] /\ u.page[g[l][m]].phash = table.page[f[l][m]].phash
    <3>1. CASE l = cur /\ m = i + 1
      <4>1. g[l][m] = twin
        BY <1>1, <1>4, <1>12, <3>1
      <4>. QED BY <1>9, <1>10, <1>20, <4>1 DEF SamePage
    <3>2. CASE ~ (l = cur /\ m = i + 1)
      <4>1. m \in DOMAIN f[l] /\ g[l][m] = f[l][m]
        <5>1. f[cur] = J.pages
          BY DEF BlockTables
        <5>2. CASE l = cur
          <6>1. g[l] = [J.pages EXCEPT ![i + 1] = twin]
            BY <1>1, <1>12, <5>2
          <6>. QED BY <2>1, <3>2, <5>1, <5>2, <6>1
        <5>3. CASE l # cur
          BY <1>1, <2>1, <5>3
        <5>. QED BY <5>2, <5>3
      <4>2. f[l][m] \in Page \ {own}
        BY <1>2, <3>2, <4>1 DEF SolePlace, Placing
      <4>3. u.page[f[l][m]].phash = table.page[f[l][m]].phash
        BY <1>18, <1>19, <4>2 DEF SamePage, SameButLink
      <4>. QED BY <4>1, <4>3
    <3>. QED BY <3>1, <3>2
  <2>2. BasesApart(table, f)
    BY <1>1
  <2>. HIDE DEF f, g
  <2>3. BasesApart(u, g)
    BY <2>1, <2>2, FewerApart
  <2>. QED BY <2>3 DEF g
<1>25. Refiled(u, J2, J, i, row)
  BY <1>12, <1>15, <1>21, <1>22, <1>23, <1>24 DEF Refiled
<1>. QED BY <1>5, <1>25

LEMMA HashedRefiles ==
  ASSUME CacheInv, cur \in Job, NEW J, J.pages = job[cur].pages,
         NEW i, NEW row, HashReady(table, cache, J, i, row), Hashable(table, J, i)
  PROVE  LET after == Hashed(table, J, i) IN Refiled(after.table, after.job, J, i, row)
<1>. DEFINE h == FinalHash(table, J, i)
<1>1. CASE Holds(table, table.referenced, h)
  BY <1>1, GivesWay DEF Hashed
<1>2. CASE ~ Holds(table, table.referenced, h)
  <2>1. Hashed(table, J, i) = Publish(table, J, i, h)
    BY <1>2 DEF Hashed
  <2>2. Publish(table, J, i, h).job = J
    BY DEF Publish
  <2>3. Refiled(Publish(table, J, i, h).table, J, J, i, row)
    BY <1>2, Publishes
  <2>. QED BY <2>1, <2>2, <2>3
<1>. QED BY <1>1, <1>2

\* A step that hashes a page of the job in hand keeps the invariant.
LEMMA RefiledStep ==
  ASSUME CacheInv, BooksInv', cur \in Job, pc \in Sampling, NEW ph \in {"judge", "flush"},
         pc' = ph, cur' = cur, todo' = todo, k' = k, cache' = cache, serial' = serial,
         NEW J, J.pages = job[cur].pages, NEW i, NEW row, NEW K,
         Refiled(table', K, J, i, row), job' = [job EXCEPT ![cur] = K],
         Fine(K, ph, k), K.fate # "rewound", PrefillDone(K),
         LowAs(K, ph) = i + 1, RowAs(K, ph, k, FALSE) = row
  PROVE  CacheInv'
<1>1. /\ k \in Nat /\ pc' \in Sampling /\ k' \in Nat
      /\ job \in [Job -> JobState] /\ Typed
      /\ PagesTyped(table') /\ PagesTrue(table', cache) /\ HashDone(table', cache, K, i, row)
      /\ K \in JobState /\ BasesApart(table', [BlockTables EXCEPT ![cur] = K.pages])
  BY DEF CacheInv, Typed, Sampling, Refiled
<1>2. Served(table', cache, K, ph, k, FALSE)
  <2>1. MarksTrue(table', K, ph, k, row)
    BY <1>1 DEF MarksTrue, HashDone
  <2>. QED BY <1>1, <2>1 DEF Served, HashDone
<1>3. Fine(K, pc', k') /\ Owed(table', cache, K, pc', k', FALSE)
  <2>1. Fine(K, ph, k) /\ Owed(table', cache, K, ph, k, FALSE)
    BY <1>2 DEF Owed
  <2>2. pc' = ph /\ k' = k
    OBVIOUS
  <2>. QED BY ONLY <2>1, <2>2
<1>4. BasesApart(table, BlockTables)'
  <2>1. BlockTables' = [BlockTables EXCEPT ![cur] = K.pages]
    BY <1>1 DEF BlockTables
  <2>2. BasesApart(table', BlockTables')
    BY <1>1, <2>1
  <2>. QED BY <2>2 DEF BasesApart
<1>5. \A l \in Job \ {cur} : Undisturbed(l)
  <2>1. \A q \in Page :
          \/ SamePage(table.page[q], table'.page[q]) /\ cache'[q] = cache[q]
          \/ table.page[q].refs = 0
          \/ \E n \in Index(job[cur]) :
               /\ PageOf(job[cur], n) = q
               /\ table.page[q].phash.base # 0 \/ ~ table.page[q].refs > 1
    BY DEF Refiled, Index, PageOf
  <2>. QED BY <2>1, OthersUndisturbed
<1>6. K.fate = "rewound" => pc' \in {"rewind", "verify", "reject"}
  OBVIOUS
<1>. QED BY <1>1, <1>3, <1>4, <1>5, <1>6, HandStep

\* A page hashed before its end is part of what the job has generated.
LEMMA HashStart ==
  ASSUME NEW t, NEW c, NEW J \in JobState, PrefillDone(J), NEW i \in Nat, NEW row,
         NamesTrue(t, J, i), LinksTrue(t, J, i), ContentTrue(t, c, J, row),
         FilledTo(t, J, Len(row)), row \in Seq(Token), Len(row) \in Nat,
         J.pos <= Len(row), (i + 1) * PageSize <= J.pos,
         \A m \in 0 .. J.pos : SubSeq(row, 1, m) = SubSeq(J.ids, 1, m)
  PROVE  HashReady(t, c, J, i, row)
<1>1. J.pos \in Nat /\ J.pos + 1 = Len(J.ids) /\ Len(J.pages) \in Nat
  BY JobFields DEF PrefillDone
<1>2. /\ i * PageSize \in Nat /\ (i + 1) * PageSize = i * PageSize + PageSize
      /\ PageSize \in Nat \ {0}
  BY Multiples, PageSizeAssumption
<1>. DEFINE e == (i + 1) * PageSize
            r == Len(J.pages) * PageSize
<1>3. e \in 0 .. J.pos /\ e <= Len(row) /\ e <= Len(J.ids)
  <2>. HIDE DEF r
  <2>. QED BY <1>1, <1>2
<1>4. i \in Index(J)
  <2>1. r \in Nat /\ Len(row) <= r
    BY <1>1, Multiples DEF ContentTrue
  <2>2. ~ Len(J.pages) <= i
    <3>1. SUFFICES ASSUME Len(J.pages) <= i PROVE FALSE
      OBVIOUS
    <3>2. r <= i * PageSize
      <4>1. CASE Len(J.pages) = i
        BY <1>2, <4>1
      <4>2. CASE Len(J.pages) < i
        <5>1. r + PageSize <= i * PageSize
          BY <1>1, <4>2, Monotone
        <5>. HIDE DEF r
        <5>. QED BY <1>2, <2>1, <5>1
      <4>. QED BY <1>1, <3>1, <4>1, <4>2
    <3>. HIDE DEF r
    <3>. QED BY <1>1, <1>2, <1>3, <2>1, <3>2
  <2>. QED BY <1>1, <2>2, PagesIndexed
<1>5. SubSeq(row, 1, e) = SubSeq(J.ids, 1, e)
  BY <1>3
<1>. QED BY <1>3, <1>4, <1>5 DEF HashReady

LEMMA HashCompletedStep ==
  ASSUME CacheInv, BooksInv', HashCompleted
  PROVE  CacheInv'
<1>. DEFINE J == job[cur]
            i == DonePage(J)
            row == RowAs(J, "complete", k, FALSE)
            K == Hashed(table, J, i).job
<1>1. /\ cur \in Job /\ pc = "complete" /\ pc \in Sampling /\ "complete" \in Sampling
      /\ pc' = "judge" /\ Hashable(table, J, i)
      /\ table' = Hashed(table, J, i).table /\ job' = [job EXCEPT ![cur] = K]
      /\ k' = k /\ UNCHANGED <<cache, serial>> /\ cur' = cur /\ todo' = todo
  BY DEF CacheInv, BooksInv, JobInHand, HashCompleted, Sampling
<1>2. /\ J \in JobState /\ k \in Nat /\ Fine(J, "complete", k)
      /\ Served(table, cache, J, "complete", k, FALSE)
      /\ JobOK(J, "complete") /\ HandOK(J, "complete", k) /\ WaitOK(J)
      /\ PrefillDone(J) /\ J.pos + 1 = Len(J.ids) /\ J.stage = "active"
  <2>1. LiveAs(J, pc)
    <3>1. /\ J \in JobState /\ Fine(J, pc, k)
      BY <1>1, HandHas
    <3>. QED BY <1>1, <3>1, LiveInHand
  <2>. QED BY <1>1, <2>1, HandServed
<1>3. /\ ~ Holding(J) /\ J.deferred = <<>> /\ J.fate = "go" /\ J.pos % PageSize = 0 /\ J.pos > 0
      /\ NewTokens(J) >= 1 /\ k <= Len(J.draft) /\ Deferrals(J)
  BY <1>1, <1>2 DEF JobOK, HandOK
<1>4. i \in Nat /\ PageAt(J.pos) = i + 1 /\ (i + 1) * PageSize = J.pos
      /\ LowAs(J, "complete") = i
  <2>. HIDE DEF J
  <2>1. J.pos \in Nat
    BY <1>2, JobFields
  <2>2. PageAt(J.pos) \in Nat /\ J.pos = PageAt(J.pos) * PageSize
    BY <1>3, <2>1, Located, PageBoundary
  <2>3. PageAt(J.pos) # 0
    <3>1. 0 * PageSize = 0
      BY PageSizeAssumption
    <3>. QED BY <1>3, <2>1, <2>2, <3>1
  <2>4. i = PageAt(J.pos) - 1
    BY DEF DonePage
  <2>5. LowAs(J, "complete") = PageAt(J.pos) - 1
    BY <1>2 DEF LowAs
  <2>6. i \in Nat /\ i + 1 = PageAt(J.pos)
    <3>. HIDE DEF i
    <3>. QED BY <2>2, <2>3, <2>4
  <2>. QED BY <2>2, <2>4, <2>5, <2>6
<1>. HIDE DEF J, i
<1>5. /\ row \in Seq(Token) /\ Len(row) \in Nat /\ J.pos <= Len(row)
      /\ \A m \in 0 .. J.pos : SubSeq(row, 1, m) = SubSeq(J.ids, 1, m)
  <2>1. J.pos < Len(J.ids)
    BY <1>2, JobFields
  <2>. HIDE DEF row
  <2>. QED BY <1>2, <2>1, RowFacts DEF row
<1>6. HashReady(table, cache, J, i, row)
  <2>1. /\ NamesTrue(table, J, i) /\ LinksTrue(table, J, i) /\ ContentTrue(table, cache, J, row)
        /\ FilledTo(table, J, Len(row))
    BY <1>2, <1>4 DEF Served, MarksTrue
  <2>2. (i + 1) * PageSize <= J.pos
    <3>1. J.pos \in Nat
      BY <1>2, JobFields
    <3>. QED BY <1>4, <3>1
  <2>. HIDE DEF row
  <2>. QED BY <1>2, <1>4, <1>5, <2>1, <2>2, HashStart
<1>7. Refiled(table', K, J, i, row)
  <2>1. J.pages = job[cur].pages
    BY DEF J
  <2>2. CacheInv /\ cur \in Job /\ Hashable(table, J, i) /\ HashReady(table, cache, J, i, row)
    BY <1>1, <1>6
  <2>3. LET after == Hashed(table, J, i) IN Refiled(after.table, after.job, J, i, row)
    <3>. HIDE DEF row
    <3>. QED BY ONLY <2>1, <2>2, HashedRefiles
  <2>. QED BY <1>1, <2>3
<1>. HIDE DEF K
<1>8. K \in JobState /\ K = [J EXCEPT !.pages = K.pages] /\ Len(K.pages) = Len(J.pages)
  BY <1>7 DEF Refiled
<1>9. /\ K.stage = J.stage /\ K.ids = J.ids /\ K.plen = J.plen /\ K.limit = J.limit
      /\ K.pos = J.pos /\ K.deferred = J.deferred /\ K.draft = J.draft /\ K.fate = J.fate
      /\ K.offset = J.offset
  BY <1>2, <1>8 DEF JobState
<1>10. /\ PrefillDone(K) /\ NewTokens(K) = NewTokens(J) /\ ~ Holding(K) /\ Deferrals(K)
       /\ LowAs(K, "judge") = i + 1 /\ RowAs(K, "judge", k, FALSE) = row
  <2>1. /\ PrefillDone(K) /\ NewTokens(K) = NewTokens(J) /\ ~ Holding(K) /\ Deferrals(K)
    BY <1>2, <1>3, <1>9 DEF PrefillDone, NewTokens, Holding, Deferrals
  <2>2. LowAs(K, "judge") = PageAt(J.pos) - Len(<<>>)
    BY <1>3, <1>9, <2>1 DEF LowAs
  <2>3. RowAs(K, "judge", k, FALSE) = row
    BY <1>9 DEF RowAs, Settled, Rest, row
  <2>4. PageAt(J.pos) - Len(<<>>) = i + 1
    BY <1>4
  <2>. QED BY <2>1, <2>2, <2>3, <2>4
<1>11. Fine(K, "judge", k)
  <2>1. JobOK(K, "judge")
    BY <1>2, <1>3, <1>8, <1>9, <1>10 DEF JobOK
  <2>2. HandOK(K, "judge", k) /\ WaitOK(K)
    BY <1>2, <1>3, <1>9, <1>10 DEF HandOK, WaitOK
  <2>. QED BY <2>1, <2>2 DEF Fine
<1>12. J.pages = job[cur].pages /\ K.fate # "rewound"
  BY <1>3, <1>9 DEF J
<1>. HIDE DEF row
<1>13. /\ CacheInv /\ BooksInv' /\ cur \in Job /\ pc \in Sampling /\ pc' = "judge" /\ cur' = cur
       /\ todo' = todo /\ k' = k /\ cache' = cache /\ serial' = serial
       /\ job' = [job EXCEPT ![cur] = K]
  BY <1>1
<1>. QED BY ONLY <1>7, <1>10, <1>11, <1>12, <1>13, RefiledStep

\* Without its first page the list of deferred pages begins with the next one.
LEMMA OneLessDeferred ==
  ASSUME NEW L \in JobState, Deferrals(L), L.deferred # <<>>,
         NEW J \in JobState, J.pos = L.pos, J.deferred = Tail(L.deferred)
  PROVE  /\ Deferrals(J) /\ Len(J.deferred) = Len(L.deferred) - 1
         /\ Head(L.deferred) = PageAt(L.pos) - Len(L.deferred)
         /\ Head(L.deferred) \in Nat /\ Head(L.deferred) + 1 <= PageAt(L.pos)
         /\ PageAt(L.pos) \in Nat /\ Len(L.deferred) \in Nat
<1>. DEFINE x == L.deferred
            y == J.deferred
            n == PageAt(L.pos)
<1>1. /\ x \in Seq(Nat) /\ x # <<>> /\ y = Tail(x) /\ n \in Nat /\ J.pos = L.pos
  BY JobFields, Located
<1>2. Len(x) <= n /\ \A m \in DOMAIN x : x[m] = n - Len(x) + m - 1
  BY DEF Deferrals
<1>3. Len(y) <= n /\ (\A m \in DOMAIN y : y[m] = n - Len(y) + m - 1) => Deferrals(J)
  BY DEF Deferrals
<1>. HIDE DEF x, y, n
<1>4. /\ Len(x) \in Nat /\ Len(x) >= 1 /\ Len(y) = Len(x) - 1 /\ 1 \in DOMAIN x /\ Head(x) = x[1]
      /\ \A m \in DOMAIN y : m \in Nat /\ m + 1 \in DOMAIN x /\ y[m] = x[m + 1]
  BY ONLY <1>1
<1>5. Head(x) = n - Len(x)
  <2>1. x[1] = n - Len(x) + 1 - 1
    BY <1>2, <1>4
  <2>. QED BY <1>1, <1>4, <2>1
<1>6. \A m \in DOMAIN y : y[m] = n - Len(y) + m - 1
  <2>. SUFFICES ASSUME NEW m \in DOMAIN y PROVE y[m] = n - Len(y) + m - 1
    OBVIOUS
  <2>1. m \in Nat /\ y[m] = x[m + 1] /\ x[m + 1] = n - Len(x) + (m + 1) - 1
    BY <1>2, <1>4
  <2>. QED BY ONLY <1>1, <1>4, <2>1
<1>7. Len(y) <= n /\ Head(x) \in Nat /\ Head(x) + 1 <= n
  BY ONLY <1>1, <1>2, <1>4, <1>5
<1>. QED BY <1>1, <1>3, <1>4, <1>5, <1>6, <1>7 DEF x, y, n

LEMMA FlushDeferredStep ==
  ASSUME CacheInv, BooksInv', FlushDeferred
  PROVE  CacheInv'
<1>. DEFINE L == job[cur]
            J == [L EXCEPT !.deferred = Tail(@)]
            i == Head(L.deferred)
            row == RowAs(L, "flush", k, FALSE)
            K == Hashed(table, J, i).job
<1>1. /\ cur \in Job /\ pc = "flush" /\ pc \in Sampling /\ "flush" \in Sampling
      /\ pc' = "flush" /\ L.deferred # <<>> /\ Hashable(table, J, i)
      /\ table' = Hashed(table, J, i).table /\ job' = [job EXCEPT ![cur] = K]
      /\ k' = k /\ UNCHANGED <<cache, serial>> /\ cur' = cur /\ todo' = todo
  BY DEF CacheInv, BooksInv, JobInHand, FlushDeferred, Sampling
<1>2. /\ L \in JobState /\ k \in Nat /\ Fine(L, "flush", k)
      /\ Served(table, cache, L, "flush", k, FALSE) /\ LiveAs(L, "flush")
      /\ JobOK(L, "flush") /\ HandOK(L, "flush", k) /\ WaitOK(L)
      /\ PrefillDone(L) /\ L.pos + 1 = Len(L.ids) /\ L.stage = "active"
  <2>1. LiveAs(L, pc)
    <3>1. /\ L \in JobState /\ Fine(L, pc, k)
      BY <1>1, HandHas
    <3>. QED BY <1>1, <3>1, LiveInHand
  <2>. QED BY <1>1, <2>1, HandServed
<1>3. /\ Holding(L) /\ L.fate \in {"go", "eos", "requeue"} /\ k <= Len(L.draft) /\ Deferrals(L)
      /\ L.fate = "go" => Fits(L)
  BY <1>1, <1>2, JobFields DEF JobOK, HandOK
<1>. HIDE DEF L
<1>4. /\ J \in JobState /\ J.stage = L.stage /\ J.ids = L.ids /\ J.plen = L.plen
      /\ J.limit = L.limit /\ J.pos = L.pos /\ J.pages = L.pages /\ J.draft = L.draft
      /\ J.fate = L.fate /\ J.offset = L.offset /\ J.deferred = Tail(L.deferred)
  <2>1. Tail(L.deferred) \in Seq(Nat)
    <3>. DEFINE x == L.deferred
    <3>1. x \in Seq(Nat) /\ x # <<>>
      BY <1>1, <1>2, JobFields
    <3>. HIDE DEF x
    <3>2. Tail(x) \in Seq(Nat)
      BY ONLY <3>1
    <3>. QED BY <3>2 DEF x
  <2>. QED BY <1>2, <2>1 DEF JobState
<1>. HIDE DEF J
<1>5. /\ Deferrals(J) /\ Len(J.deferred) = Len(L.deferred) - 1
      /\ i = PageAt(L.pos) - Len(L.deferred)
      /\ i \in Nat /\ i + 1 <= PageAt(L.pos)
      /\ PageAt(L.pos) \in Nat /\ Len(L.deferred) \in Nat
  BY <1>1, <1>2, <1>3, <1>4, OneLessDeferred
<1>. HIDE DEF i
<1>6. (i + 1) * PageSize <= J.pos /\ LowAs(L, "flush") = i
  <2>1. L.pos \in Nat /\ i + 1 \in Nat
    BY <1>2, <1>5, JobFields
  <2>2. (i + 1) * PageSize <= L.pos
    BY <1>5, <2>1, PageBounds
  <2>3. LowAs(L, "flush") = PageAt(L.pos) - Len(L.deferred)
    BY <1>2 DEF LowAs
  <2>. QED BY <1>4, <1>5, <2>2, <2>3
<1>7. /\ row \in Seq(Token) /\ Len(row) \in Nat /\ J.pos <= Len(row) /\ PrefillDone(J)
      /\ \A m \in 0 .. J.pos : SubSeq(row, 1, m) = SubSeq(J.ids, 1, m)
  <2>1. L.pos < Len(L.ids)
    BY <1>2, JobFields
  <2>. HIDE DEF row
  <2>2. /\ row \in Seq(Token) /\ Len(row) \in Nat /\ L.pos <= Len(row)
        /\ \A m \in 0 .. L.pos : SubSeq(row, 1, m) = SubSeq(L.ids, 1, m)
    BY <1>2, <2>1, RowFacts DEF row
  <2>. QED BY <1>2, <1>4, <2>2 DEF PrefillDone
<1>8. HashReady(table, cache, J, i, row)
  <2>1. /\ NamesTrue(table, L, i) /\ LinksTrue(table, L, i) /\ ContentTrue(table, cache, L, row)
        /\ FilledTo(table, L, Len(row))
    BY <1>2, <1>6 DEF Served, MarksTrue
  <2>2. SameStart(L, J, i)
    BY <1>4, SameStartItself
  <2>. HIDE DEF row
  <2>3. /\ NamesTrue(table, J, i) /\ LinksTrue(table, J, i)
    BY <1>2, <1>4, <1>5, <1>7, <2>1, <2>2, NamesMoved
  <2>4. /\ ContentTrue(table, cache, J, row) /\ FilledTo(table, J, Len(row))
    BY <1>4, <2>1, ContentMoved
  <2>. QED BY <1>4, <1>5, <1>6, <1>7, <2>3, <2>4, HashStart
<1>9. Refiled(table', K, J, i, row)
  <2>1. J.pages = job[cur].pages
    BY <1>4 DEF L
  <2>2. CacheInv /\ cur \in Job /\ Hashable(table, J, i) /\ HashReady(table, cache, J, i, row)
    BY <1>1, <1>8
  <2>3. LET after == Hashed(table, J, i) IN Refiled(after.table, after.job, J, i, row)
    <3>. HIDE DEF row
    <3>. QED BY ONLY <2>1, <2>2, HashedRefiles
  <2>. QED BY <1>1, <2>3
<1>. HIDE DEF K
<1>10. K \in JobState /\ K = [J EXCEPT !.pages = K.pages] /\ Len(K.pages) = Len(J.pages)
  BY <1>9 DEF Refiled
<1>11. /\ K.stage = L.stage /\ K.ids = L.ids /\ K.plen = L.plen /\ K.limit = L.limit
       /\ K.pos = L.pos /\ K.deferred = J.deferred /\ K.draft = L.draft /\ K.fate = L.fate
       /\ K.offset = L.offset /\ Len(K.pages) = Len(L.pages)
  <2>1. /\ K.stage = J.stage /\ K.ids = J.ids /\ K.plen = J.plen /\ K.limit = J.limit
        /\ K.pos = J.pos /\ K.deferred = J.deferred /\ K.draft = J.draft /\ K.fate = J.fate
        /\ K.offset = J.offset
    BY <1>4, <1>10 DEF JobState
  <2>. QED BY <1>4, <1>10, <2>1
<1>12. /\ PrefillDone(K) /\ NewTokens(K) = NewTokens(L) /\ Holding(K) /\ Deferrals(K)
       /\ LowAs(K, "flush") = i + 1 /\ RowAs(K, "flush", k, FALSE) = row
       /\ (Fits(L) => Fits(K))
  <2>1. /\ PrefillDone(K) /\ NewTokens(K) = NewTokens(L) /\ Holding(K)
        /\ (Fits(L) => Fits(K))
    BY <1>2, <1>3, <1>11 DEF PrefillDone, NewTokens, Holding, Fits
  <2>2. LowAs(K, "flush") = PageAt(L.pos) - Len(J.deferred)
    BY <1>11, <2>1 DEF LowAs
  <2>3. RowAs(K, "flush", k, FALSE) = row
    BY <1>11 DEF RowAs, Settled, Rest, row
  <2>4. PageAt(L.pos) - Len(J.deferred) = i + 1
    BY <1>5
  <2>5. Deferrals(K)
    BY <1>4, <1>5, <1>11 DEF Deferrals
  <2>. QED BY <2>1, <2>2, <2>3, <2>4, <2>5
<1>13. Fine(K, "flush", k)
  <2>1. JobOK(K, "flush")
    <3>1. K.fate = "go" => Fits(K)
      BY <1>3, <1>11, <1>12
    <3>2. K.fate # "rewound"
      BY <1>3, <1>11
    <3>3. /\ Opens(Bos, K.ids) /\ K.plen \in 1 .. Len(K.ids)
          /\ Len(K.pages) = TotalPages(K.plen, K.limit)
      BY <1>2, <1>11 DEF JobOK
    <3>. QED BY <1>12, <3>1, <3>2, <3>3 DEF JobOK
  <2>2. HandOK(K, "flush", k)
    BY <1>2, <1>3, <1>11, <1>12 DEF HandOK
  <2>3. WaitOK(K)
    BY <1>2, <1>11, <1>12 DEF WaitOK
  <2>. QED BY <2>1, <2>2, <2>3 DEF Fine
<1>14. J.pages = job[cur].pages /\ K.fate # "rewound"
  BY <1>3, <1>4, <1>11 DEF L
<1>. HIDE DEF row
<1>15. /\ CacheInv /\ BooksInv' /\ cur \in Job /\ pc \in Sampling /\ pc' = "flush" /\ cur' = cur
       /\ todo' = todo /\ k' = k /\ cache' = cache /\ serial' = serial
       /\ job' = [job EXCEPT ![cur] = K]
  BY <1>1
<1>. QED BY ONLY <1>9, <1>12, <1>13, <1>14, <1>15, RefiledStep

-----------------------------------------------------------------------------
(* The forward pass.                                                       *)

\* In u and d, page n of J continues, from the job's position on, with the row.
Written(t, c, u, d, J, n, row) ==
  LET q == PageOf(J, n) IN
  /\ u.page[q].phash = t.page[q].phash /\ u.page[q].prev = t.page[q].prev
  /\ u.page[q].saved = None
  /\ u.page[q].kv = FillMark(Len(row), n)
  /\ \A s \in Slot :
       IF J.pos <= n * PageSize + s /\ n * PageSize + s < Len(row)
       THEN /\ d[q][s] = SubSeq(row, 1, n * PageSize + s + 1)
            /\ u.page[q].toks[s] = row[n * PageSize + s + 1]
       ELSE d[q][s] = c[q][s] /\ u.page[q].toks[s] = t.page[q].toks[s]

\* A job the pass has still to serve.
LEMMA AwaitsForward ==
  ASSUME CacheInv, pc = "forward", NEW j \in todo
  PROVE  /\ j \in Job /\ job[j] \in JobState /\ job[j].stage = "active" /\ job[j].fate = "go"
         /\ PrefillDone(job[j]) /\ job[j].pos + 1 = Len(job[j].ids)
         /\ Fine(job[j], "none", 0) /\ JobOK(job[j], "none") /\ Fits(job[j])
         /\ Served(table, cache, job[j], "none", 0, FALSE)
         /\ k \in 0 .. MaxDraft
<1>. DEFINE J == job[j]
<1>1. /\ j \in Job /\ J \in JobState /\ J.stage = "active" /\ J.fate = "go" /\ PrefillDone(J)
      /\ k \in 0 .. MaxDraft
  BY JobsAssumption DEF CacheInv, Typed, Turns
<1>2. Phase(j) = "none" /\ Turn(j) = 0 /\ Drafted(j) = FALSE
  BY DEF Phase, Turn, Drafted, Sampling
<1>3. Fine(J, "none", 0) /\ Owed(table, cache, J, "none", 0, FALSE)
  <2>1. JobFine(j) /\ JobServed(j)
    BY <1>1 DEF CacheInv
  <2>2. Fine(J, Phase(j), Turn(j)) /\ Owed(table, cache, J, Phase(j), Turn(j), Drafted(j))
    BY <2>1 DEF JobFine, JobServed
  <2>. QED BY ONLY <1>2, <2>2
<1>4. LiveAs(J, "none")
  BY <1>1 DEF LiveAs
<1>5. J.pos + 1 = Len(J.ids)
  BY <1>1 DEF PrefillDone
<1>. QED BY <1>1, <1>3, <1>4, <1>5 DEF Fine, Owed, JobOK

\* The pages it will write to are the job's own.
LEMMA WindowPages ==
  ASSUME CacheInv, pc = "forward", NEW j \in todo
  PROVE  LET J == job[j] IN
         /\ LowAs(J, "none") \in Nat /\ LowAs(J, "none") <= PageAt(J.pos)
         /\ PageAt(J.pos) \in Nat /\ PageAt(J.pos + k) \in Nat
         /\ J.pos + k + 1 <= Len(J.pages) * PageSize
         /\ \A i \in Window(J) : /\ i \in Index(J) /\ i >= LowAs(J, "none")
                                 /\ table.page[PageOf(J, i)].phash.base # 0
         /\ \A i \in Window(J), m \in Index(J) : PageOf(J, i) = PageOf(J, m) => i = m
<1>. DEFINE J == job[j]
            low == LowAs(J, "none")
<1>1. /\ j \in Job /\ J \in JobState /\ J.stage = "active" /\ J.fate = "go"
      /\ PrefillDone(J) /\ J.pos + 1 = Len(J.ids)
      /\ Fine(J, "none", 0) /\ JobOK(J, "none") /\ Fits(J)
      /\ Served(table, cache, J, "none", 0, FALSE)
      /\ k \in 0 .. MaxDraft /\ MaxDraft \in Nat /\ J.pos \in Nat /\ Len(J.pages) \in Nat
  BY AwaitsForward, JobsAssumption, JobFields
<1>2. low \in Nat /\ low <= PageAt(J.pos)
  <2>1. HandOK(J, "none", 0)
    BY <1>1 DEF Fine
  <2>. QED BY <1>1, <2>1, LowBounds
<1>3. J.pos + 1 + MaxDraft <= Len(J.pages) * PageSize /\ Len(J.pages) * PageSize \in Nat
  BY <1>1, WindowFits
<1>4. J.pos + k + 1 <= Len(J.pages) * PageSize /\ J.pos + k \in Nat
      /\ J.pos + k < Len(J.pages) * PageSize
  <2>. DEFINE r == Len(J.pages) * PageSize
  <2>1. r \in Nat /\ J.pos + 1 + MaxDraft <= r
    BY <1>3
  <2>. HIDE DEF r, J
  <2>2. J.pos + k + 1 <= r /\ J.pos + k \in Nat /\ J.pos + k < r
    BY <1>1, <2>1
  <2>. QED BY <2>2 DEF r
<1>5. PageAt(J.pos) \in Nat /\ PageAt(J.pos + k) \in Nat /\ PageAt(J.pos + k) < Len(J.pages)
  BY <1>1, <1>4, Located, PageBounds
<1>6. NamesTrue(table, J, low)
  BY <1>1 DEF Served
<1>7. table.page \in [Page -> CachePage] /\ job \in [Job -> JobState]
      /\ BasesApart(table, BlockTables)
  BY DEF CacheInv, Typed
<1>. HIDE DEF J
<1>8. \A i \in Window(J) : i \in Nat /\ i >= low /\ i < Len(J.pages)
  <2>. HIDE DEF low
  <2>. QED BY <1>1, <1>2, <1>5 DEF Window
<1>. HIDE DEF low
<1>9. \A i \in Window(J) : i \in Index(J) /\ i >= low /\ table.page[PageOf(J, i)].phash.base # 0
  <2>. SUFFICES ASSUME NEW i \in Window(J)
                PROVE  i \in Index(J) /\ i >= low /\ table.page[PageOf(J, i)].phash.base # 0
    OBVIOUS
  <2>1. i \in Index(J) /\ i >= low
    BY <1>1, <1>8, PagesIndexed
  <2>. QED BY <1>6, <2>1 DEF NamesTrue
<1>10. \A i \in Window(J), m \in Index(J) : PageOf(J, i) = PageOf(J, m) => i = m
  <2>. SUFFICES ASSUME NEW i \in Window(J), NEW m \in Index(J), PageOf(J, i) = PageOf(J, m)
                PROVE  i = m
    OBVIOUS
  <2>1. i \in Index(J) /\ table.page[PageOf(J, i)].phash.base # 0
    BY <1>9
  <2>. QED BY <1>1, <1>7, <2>1, Exclusive DEF J
<1>. QED BY <1>2, <1>4, <1>5, <1>9, <1>10 DEF J, low

\* What it does to the job and its pages.
ForwardTo(j, draft) ==
  LET J == job[j] IN
  /\ job' = [job EXCEPT ![j].draft = draft]
  /\ table'.page \in [Page -> CachePage]
  /\ cache' \in [Page -> [Slot -> Seq(Token)]]
  /\ \A i \in Window(J) : Written(table, cache, table', cache', J, i, J.ids \o draft)
  /\ \A q \in Page : (\A i \in Window(J) : PageOf(J, i) # q) =>
       table'.page[q] = table.page[q] /\ cache'[q] = cache[q]

LEMMA DraftJoined ==
  ASSUME NEW J \in JobState, J.pos + 1 = Len(J.ids), NEW n \in Nat, NEW draft \in [1 .. n -> Sampled]
  PROVE  /\ draft \in Seq(Sampled) /\ draft \in Seq(Token) /\ Len(draft) = n
         /\ J.ids \o draft \in Seq(Token) /\ Len(J.ids \o draft) = J.pos + n + 1
<1>1. draft \in Seq(Sampled) /\ Len(draft) = n
  OBVIOUS
<1>2. draft \in Seq(Token)
  BY <1>1, JobsAssumption
<1>. DEFINE x == J.ids
<1>3. x \in Seq(Token) /\ Len(x) \in Nat /\ J.pos \in Nat
  BY JobFields
<1>4. J.pos + 1 = Len(x)
  OBVIOUS
<1>. HIDE DEF x
<1>5. x \o draft \in Seq(Token) /\ Len(x \o draft) = Len(x) + Len(draft)
  BY ONLY <1>2, <1>3
<1>6. Len(x \o draft) = J.pos + n + 1
  <2>. DEFINE z == x \o draft
  <2>. HIDE DEF z
  <2>. QED BY SMTT(30), <1>1, <1>3, <1>4, <1>5 DEF z
<1>. QED BY <1>1, <1>2, <1>5, <1>6 DEF x

LEMMA ForwardWrites ==
  ASSUME CacheInv, NEW j \in Job, Forward(j)
  PROVE  \E draft \in [1 .. k -> Sampled] : ForwardTo(j, draft)
<1>. DEFINE J == job[j]
            final == J.pos + k + 1
            mine == {J.pages[i + 1] : i \in Window(J)}
            At(p) == CHOOSE i \in Window(J) : J.pages[i + 1] = p
            Newly(p, s) == p \in mine /\ At(p) * PageSize + s \in J.pos .. final - 1
<1>1. PICK draft \in [1 .. k -> Sampled] :
        LET row == J.ids \o draft IN
        /\ table' = [table EXCEPT !.page = [p \in Page |->
                 IF p \in mine
                 THEN [table.page[p] EXCEPT
                        !.kv = Smaller(PageSize, final - At(p) * PageSize),
                        !.toks = [s \in Slot |-> IF Newly(p, s)
                                    THEN row[At(p) * PageSize + s + 1] ELSE @[s]],
                        !.saved = None]
                 ELSE table.page[p]]]
        /\ cache' = [p \in Page |-> [s \in Slot |->
                 IF Newly(p, s) THEN SubSeq(row, 1, At(p) * PageSize + s + 1)
                 ELSE cache[p][s]]]
        /\ job' = [job EXCEPT ![j].draft = draft]
  BY ZenonT(30) DEF Forward
<1>. DEFINE row == J.ids \o draft
<1>2. j \in todo /\ pc = "forward"
  BY DEF Forward
<1>3. /\ J \in JobState /\ J.pos + 1 = Len(J.ids) /\ k \in Nat /\ J.pos \in Nat
  <2>1. J \in JobState /\ J.pos + 1 = Len(J.ids) /\ k \in 0 .. MaxDraft
    BY <1>2, AwaitsForward
  <2>. HIDE DEF J
  <2>. QED BY <2>1, JobFields, JobsAssumption
<1>4. /\ row \in Seq(Token) /\ Len(row) = final /\ final \in Nat
  <2>. HIDE DEF J
  <2>1. J.ids \o draft \in Seq(Token) /\ Len(J.ids \o draft) = J.pos + k + 1
    BY SMTT(30), <1>3, DraftJoined
  <2>. QED BY <1>3, <2>1
<1>a. /\ table' = [table EXCEPT !.page = [p \in Page |->
                 IF p \in mine
                 THEN [table.page[p] EXCEPT
                        !.kv = Smaller(PageSize, final - At(p) * PageSize),
                        !.toks = [s \in Slot |-> IF Newly(p, s)
                                    THEN row[At(p) * PageSize + s + 1] ELSE @[s]],
                        !.saved = None]
                 ELSE table.page[p]]]
      /\ cache' = [p \in Page |-> [s \in Slot |->
                 IF Newly(p, s) THEN SubSeq(row, 1, At(p) * PageSize + s + 1)
                 ELSE cache[p][s]]]
  BY <1>1
<1>5. /\ PageAt(J.pos) \in Nat /\ PageAt(J.pos + k) \in Nat
      /\ \A i \in Window(J) : i \in Index(J)
      /\ \A i \in Window(J), m \in Index(J) : PageOf(J, i) = PageOf(J, m) => i = m
  BY <1>2, WindowPages
<1>6. /\ table.page \in [Page -> CachePage] /\ cache \in [Page -> [Slot -> Seq(Token)]]
      /\ IsTable(table)
  BY DEF CacheInv, Typed, BooksInv, Sound
<1>. HIDE DEF J
<1>7. \A i \in Window(J) : i \in Nat /\ i * PageSize \in Nat /\ i * PageSize < final
  <2>. SUFFICES ASSUME NEW i \in Window(J)
                PROVE  i \in Nat /\ i * PageSize \in Nat /\ i * PageSize < final
    OBVIOUS
  <2>1. i \in Nat /\ i <= PageAt(J.pos + k) /\ J.pos + k \in Nat
    BY <1>3, <1>5 DEF Window
  <2>2. i * PageSize \in Nat /\ i * PageSize <= J.pos + k
    BY <2>1, Multiples, PageBounds
  <2>. DEFINE d == i * PageSize
  <2>. HIDE DEF d
  <2>. QED BY <1>3, <2>1, <2>2 DEF d
<1>. DEFINE Kv(i) == Smaller(PageSize, final - i * PageSize)
            Toks(i, p) == [s \in Slot |-> IF i * PageSize + s \in J.pos .. final - 1
                                          THEN row[i * PageSize + s + 1] ELSE table.page[p].toks[s]]
            Cells(i, p) == [s \in Slot |-> IF i * PageSize + s \in J.pos .. final - 1
                                           THEN SubSeq(row, 1, i * PageSize + s + 1)
                                           ELSE cache[p][s]]
            New(i, p) == [table.page[p] EXCEPT !.kv = Kv(i), !.toks = Toks(i, p), !.saved = None]
<1>8. \A i \in Window(J) : PageOf(J, i) \in mine /\ At(PageOf(J, i)) = i
  <2>. SUFFICES ASSUME NEW i \in Window(J) PROVE PageOf(J, i) \in mine /\ At(PageOf(J, i)) = i
    OBVIOUS
  <2>1. J.pages[i + 1] = PageOf(J, i)
    BY DEF PageOf
  <2>2. At(PageOf(J, i)) \in Window(J) /\ J.pages[At(PageOf(J, i)) + 1] = PageOf(J, i)
    BY <2>1
  <2>3. At(PageOf(J, i)) \in Index(J) /\ PageOf(J, i) = PageOf(J, At(PageOf(J, i)))
    BY <1>5, <2>2 DEF PageOf
  <2>4. i = At(PageOf(J, i))
    <3>. HIDE DEF At
    <3>. QED BY <1>5, <2>3
  <2>. QED BY <2>1, <2>4
<1>9. \A p \in Page : p \in mine => \E i \in Window(J) : PageOf(J, i) = p
  BY DEF PageOf
<1>10. \A i \in Window(J) : PageOf(J, i) \in Page
  BY <1>3, <1>5, PagesIndexed
<1>11. \A i \in Window(J) : /\ table'.page[PageOf(J, i)] = New(i, PageOf(J, i))
                            /\ cache'[PageOf(J, i)] = Cells(i, PageOf(J, i))
  <2>. SUFFICES ASSUME NEW i \in Window(J), NEW p, p = PageOf(J, i)
                PROVE  table'.page[p] = New(i, p) /\ cache'[p] = Cells(i, p)
    OBVIOUS
  <2>1. p \in Page /\ p \in mine /\ At(p) = i
    BY <1>8, <1>10
  <2>2. table'.page[p] = [table.page[p] EXCEPT
                        !.kv = Smaller(PageSize, final - At(p) * PageSize),
                        !.toks = [s \in Slot |-> IF Newly(p, s)
                                    THEN row[At(p) * PageSize + s + 1] ELSE @[s]],
                        !.saved = None]
    <3>. HIDE DEF At, row, final, mine, Newly
    <3>. QED BY ZenonT(30), <1>a, <1>6, <2>1 DEF IsTable
  <2>3. cache'[p] = [s \in Slot |->
                 IF Newly(p, s) THEN SubSeq(row, 1, At(p) * PageSize + s + 1)
                 ELSE cache[p][s]]
    <3>. HIDE DEF At, row, final, mine, Newly
    <3>. QED BY <1>a, <2>1
  <2>4. \A s : Newly(p, s) <=> i * PageSize + s \in J.pos .. final - 1
    <3>. HIDE DEF At, final, mine
    <3>. QED BY <2>1
  <2>. HIDE DEF Newly, At, final, row
  <2>. QED BY ZenonT(30), <2>1, <2>2, <2>3, <2>4
<1>12. \A q \in Page : (\A i \in Window(J) : PageOf(J, i) # q) =>
         table'.page[q] = table.page[q] /\ cache'[q] = cache[q]
  <2>. SUFFICES ASSUME NEW q \in Page, \A i \in Window(J) : PageOf(J, i) # q
                PROVE  table'.page[q] = table.page[q] /\ cache'[q] = cache[q]
    OBVIOUS
  <2>1. q \notin mine
    BY <1>9
  <2>2. table'.page[q] = table.page[q]
    <3>. HIDE DEF At, row, final, mine, Newly
    <3>. QED BY <1>a, <1>6, <2>1 DEF IsTable
  <2>3. cache'[q] = [s \in Slot |-> cache[q][s]]
    <3>1. \A s : ~ Newly(q, s)
      BY <2>1
    <3>. HIDE DEF At, row, final, mine, Newly
    <3>. QED BY <1>a, <2>1, <3>1
  <2>. QED BY <1>6, <2>2, <2>3
<1>. HIDE DEF At, Newly, mine
<1>13. \A i \in Window(J), p \in Page :
         /\ Kv(i) = FillMark(final, i) /\ Kv(i) \in 0 .. PageSize
         /\ Toks(i, p) \in [Slot -> Token \cup {None}]
         /\ Cells(i, p) \in [Slot -> Seq(Token)]
  <2>. SUFFICES ASSUME NEW i \in Window(J), NEW p \in Page
                PROVE  /\ Kv(i) = FillMark(final, i) /\ Kv(i) \in 0 .. PageSize
                       /\ Toks(i, p) \in [Slot -> Token \cup {None}]
                       /\ Cells(i, p) \in [Slot -> Seq(Token)]
    OBVIOUS
  <2>. DEFINE d == i * PageSize
  <2>1. d \in Nat /\ d < final /\ i \in Nat
    BY <1>7
  <2>2. Kv(i) = Smaller(PageSize, final - d) /\ FillMark(final, i) = Smaller(Minus(final, d), PageSize)
    BY DEF FillMark
  <2>3. FillMark(final, i) \in 0 .. PageSize
    BY <1>4, <2>1, FillMarks
  <2>4. \A s \in Slot : s \in Nat
    BY PageSizeAssumption DEF Slot
  <2>5. table.page[p].toks \in [Slot -> Token \cup {None}] /\ cache[p] \in [Slot -> Seq(Token)]
    BY <1>6 DEF CachePage, Slot
  <2>. HIDE DEF d, final, row
  <2>6. Kv(i) = FillMark(final, i)
    <3>. HIDE DEF Kv
    <3>. QED BY <1>4, <2>1, <2>2, PageSizeAssumption DEF Smaller, Minus
  <2>7. ASSUME NEW s \in Slot, d + s \in J.pos .. final - 1
        PROVE  row[d + s + 1] \in Token /\ SubSeq(row, 1, d + s + 1) \in Seq(Token)
    <3>1. d + s + 1 \in 1 .. Len(row)
      BY <1>3, <1>4, <2>1, <2>4, <2>7
    <3>. QED BY <1>4, <3>1
  <2>8. Toks(i, p) \in [Slot -> Token \cup {None}]
    <3>1. Toks(i, p) = [s \in Slot |-> IF d + s \in J.pos .. final - 1
                                       THEN row[d + s + 1] ELSE table.page[p].toks[s]]
      BY DEF d
    <3>. HIDE DEF Toks
    <3>. QED BY <2>5, <2>7, <3>1
  <2>9. Cells(i, p) \in [Slot -> Seq(Token)]
    <3>1. Cells(i, p) = [s \in Slot |-> IF d + s \in J.pos .. final - 1
                                        THEN SubSeq(row, 1, d + s + 1) ELSE cache[p][s]]
      BY DEF d
    <3>. HIDE DEF Cells
    <3>. QED BY <2>5, <2>7, <3>1
  <2>. QED BY <2>3, <2>6, <2>8, <2>9
<1>14. \A i \in Window(J), p \in Page :
         /\ New(i, p) \in CachePage
         /\ New(i, p).phash = table.page[p].phash /\ New(i, p).prev = table.page[p].prev
         /\ New(i, p).saved = None /\ New(i, p).kv = Kv(i) /\ New(i, p).toks = Toks(i, p)
  <2>. HIDE DEF Kv, Toks
  <2>1. \A i \in Window(J), p \in Page :
          /\ table.page[p] \in CachePage /\ Kv(i) \in 0 .. PageSize
          /\ Toks(i, p) \in [0 .. PageSize - 1 -> Token \cup {None}]
    BY <1>6, <1>13 DEF Slot
  <2>. QED BY ZenonT(30), <2>1 DEF CachePage
<1>. HIDE DEF New
<1>15. table'.page \in [Page -> CachePage]
  <2>1. \A p \in Page : table'.page[p] \in CachePage
    <3>. SUFFICES ASSUME NEW p \in Page PROVE table'.page[p] \in CachePage
      OBVIOUS
    <3>1. CASE \A i \in Window(J) : PageOf(J, i) # p
      BY <1>6, <1>12, <3>1
    <3>2. CASE \E i \in Window(J) : PageOf(J, i) = p
      <4>1. PICK i \in Window(J) : PageOf(J, i) = p
        BY <3>2
      <4>. QED BY <1>11, <1>14, <4>1
    <3>. QED BY <3>1, <3>2
  <2>2. \E F : table'.page = [p \in Page |-> F[p]]
    <3>1. \E P : table' = [table EXCEPT !.page = [p \in Page |-> P[p]]]
      <4>. DEFINE P == [p \in Page |->
                 IF p \in mine
                 THEN [table.page[p] EXCEPT
                        !.kv = Smaller(PageSize, final - At(p) * PageSize),
                        !.toks = [s \in Slot |-> IF Newly(p, s)
                                    THEN row[At(p) * PageSize + s + 1] ELSE @[s]],
                        !.saved = None]
                 ELSE table.page[p]]
      <4>1. table' = [table EXCEPT !.page = P]
        BY <1>a
      <4>2. P = [p \in Page |-> P[p]]
        OBVIOUS
      <4>. HIDE DEF P
      <4>. QED BY <4>1, <4>2
    <3>. QED BY <1>6, <3>1 DEF IsTable
  <2>. QED BY <2>1, <2>2
<1>16. cache' \in [Page -> [Slot -> Seq(Token)]]
  <2>1. \A p \in Page : cache'[p] \in [Slot -> Seq(Token)]
    <3>. SUFFICES ASSUME NEW p \in Page PROVE cache'[p] \in [Slot -> Seq(Token)]
      OBVIOUS
    <3>1. CASE \A i \in Window(J) : PageOf(J, i) # p
      BY <1>6, <1>12, <3>1
    <3>2. CASE \E i \in Window(J) : PageOf(J, i) = p
      <4>1. PICK i \in Window(J) : PageOf(J, i) = p
        BY <3>2
      <4>. HIDE DEF Cells, Toks, Kv
      <4>. QED BY <1>11, <1>13, <4>1
    <3>. QED BY <3>1, <3>2
  <2>2. \E C : cache' = [p \in Page |-> C[p]]
    <3>. DEFINE C == cache'
    <3>1. cache' = [p \in Page |-> cache'[p]]
      BY <1>1
    <3>. QED BY SMTT(30), <3>1
  <2>. QED BY <2>1, <2>2
<1>17. \A i \in Window(J) : Written(table, cache, table', cache', J, i, row)
  <2>. SUFFICES ASSUME NEW i \in Window(J), NEW q, q = PageOf(J, i)
                PROVE  Written(table, cache, table', cache', J, i, row)
    OBVIOUS
  <2>1. /\ q \in Page /\ table'.page[q] = New(i, q) /\ cache'[q] = Cells(i, q)
        /\ i * PageSize \in Nat
    BY <1>7, <1>10, <1>11
  <2>2. /\ table'.page[q].phash = table.page[q].phash /\ table'.page[q].prev = table.page[q].prev
        /\ table'.page[q].saved = None /\ table'.page[q].kv = Kv(i)
        /\ table'.page[q].toks = Toks(i, q)
    <3>. HIDE DEF Kv, Toks
    <3>. QED BY <1>14, <2>1
  <2>3. Kv(i) = FillMark(Len(row), i)
    BY <1>4, <1>13, <2>1
  <2>4. \A s \in Slot : i * PageSize + s \in J.pos .. final - 1 <=>
          J.pos <= i * PageSize + s /\ i * PageSize + s < Len(row)
    <3>. DEFINE d == i * PageSize
    <3>1. d \in Nat /\ \A s \in Slot : s \in Nat
      BY <2>1, PageSizeAssumption DEF Slot
    <3>. HIDE DEF d, row, final
    <3>2. \A s \in Slot : d + s \in J.pos .. final - 1 <=> J.pos <= d + s /\ d + s < Len(row)
      BY <1>3, <1>4, <3>1
    <3>. QED BY <3>2 DEF d
  <2>5. \A s \in Slot : IF i * PageSize + s \in J.pos .. final - 1
          THEN Cells(i, q)[s] = SubSeq(row, 1, i * PageSize + s + 1)
               /\ Toks(i, q)[s] = row[i * PageSize + s + 1]
          ELSE Cells(i, q)[s] = cache[q][s] /\ Toks(i, q)[s] = table.page[q].toks[s]
    <3>. HIDE DEF row, final
    <3>. QED BY SMTT(30)
  <2>. HIDE DEF Kv, Toks, Cells, row, final
  <2>. QED BY <2>1, <2>2, <2>3, <2>4, <2>5 DEF Written
<1>18. job' = [job EXCEPT ![j].draft = draft]
  BY <1>1
<1>. QED BY <1>12, <1>15, <1>16, <1>17, <1>18 DEF ForwardTo, J

\* The job's pages, in the window and outside it.
Extends(t, c, u, d, J, n, row) ==
  \A i \in Index(J) :
    IF i \in PageAt(J.pos) .. PageAt(J.pos + n)
    THEN Written(t, c, u, d, J, i, row)
    ELSE u.page[PageOf(J, i)] = t.page[PageOf(J, i)] /\ d[PageOf(J, i)] = c[PageOf(J, i)]

LEMMA ExtendedRow ==
  ASSUME NEW J \in JobState, J.pos + 1 = Len(J.ids), NEW n \in Nat,
         NEW row \in Seq(Token), Text(row), Len(row) = J.pos + n + 1,
         Len(row) <= Len(J.pages) * PageSize,
         SubSeq(row, 1, J.pos) = Settled(J),
         NEW t, NEW c, NEW u, NEW d, ContentTrue(t, c, J, Settled(J)), FilledTo(t, J, J.pos),
         Extends(t, c, u, d, J, n, row)
  PROVE  ContentTrue(u, d, J, row) /\ FilledTo(u, J, Len(row))
<1>. DEFINE p == J.pos
            final == Len(row)
            old == Settled(J)
<1>1. p \in Nat /\ final \in Nat /\ final = p + n + 1 /\ p + n \in Nat /\ J.ids \in Seq(Token)
      /\ p <= Len(J.ids)
  BY JobFields
<1>2. old \in Seq(Token) /\ Len(old) = p
  <2>1. p \in 0 .. Len(J.ids)
    BY <1>1, JobFields
  <2>. QED BY <1>1, <2>1, Prefix DEF Settled
<1>3. \A e \in 1 .. p : SubSeq(old, 1, e) = SubSeq(row, 1, e) /\ old[e] = row[e]
  <2>. HIDE DEF p, old, final
  <2>1. p \in 0 .. Len(row) /\ p <= Len(old) /\ p \in 0 .. Len(old)
    BY <1>1, <1>2 DEF final
  <2>2. SubSeq(row, 1, p) = SubSeq(old, 1, p)
    <3>1. SubSeq(row, 1, p) = old
      BY DEF old, p
    <3>. QED BY <1>2, <3>1, WholePrefix
  <2>3. /\ \A m \in 0 .. p : SubSeq(row, 1, m) = SubSeq(old, 1, m)
        /\ \A i \in 1 .. p : row[i] = old[i]
    BY ONLY <1>2, <2>1, <2>2, row \in Seq(Token), ShorterPrefix
  <2>. QED BY <1>1, <2>3
<1>4. PageAt(p) \in Nat /\ PageAt(p + n) \in Nat
  BY <1>1, Located
<1>5. \A i \in Index(J) : i \in Nat /\ i * PageSize \in Nat
                          /\ (i + 1) * PageSize = i * PageSize + PageSize
  BY PagesIndexed, Multiples
<1>6. \A i \in Index(J) : i < PageAt(p) => (i + 1) * PageSize <= p
  <2>. SUFFICES ASSUME NEW i \in Index(J), i < PageAt(p) PROVE (i + 1) * PageSize <= p
    OBVIOUS
  <2>1. i + 1 \in Nat /\ i + 1 <= PageAt(p)
    BY <1>4, <1>5
  <2>. QED BY <1>1, <2>1, PageBounds
<1>7. \A i \in Index(J) : PageAt(p + n) < i => final <= i * PageSize
  <2>. SUFFICES ASSUME NEW i \in Index(J), PageAt(p + n) < i PROVE final <= i * PageSize
    OBVIOUS
  <2>1. p + n < i * PageSize
    BY <1>1, <1>5, PageBounds
  <2>. DEFINE e == i * PageSize
  <2>2. e \in Nat /\ p + n < e
    BY <1>5, <2>1
  <2>. HIDE DEF e, final
  <2>3. final <= e
    BY <1>1, <2>2
  <2>. QED BY <2>3 DEF e
<1>8. \A i \in Index(J) : \/ i \in PageAt(p) .. PageAt(p + n)
                          \/ i < PageAt(p) /\ i \notin PageAt(p) .. PageAt(p + n)
                          \/ PageAt(p + n) < i /\ i \notin PageAt(p) .. PageAt(p + n)
  BY <1>4, <1>5
<1>9. ASSUME NEW i \in Index(J), NEW s \in Slot, i * PageSize + s < final
      PROVE  /\ d[PageOf(J, i)][s] = SubSeq(row, 1, i * PageSize + s + 1)
             /\ u.page[PageOf(J, i)].toks[s] = row[i * PageSize + s + 1]
  <2>. DEFINE b == i * PageSize
              q == PageOf(J, i)
  <2>1. b \in Nat /\ s \in Nat /\ s < PageSize /\ PageSize \in Nat /\ b + s < final
    BY <1>5, <1>9, PageSizeAssumption DEF Slot
  <2>2. b + s < p => /\ c[q][s] = SubSeq(row, 1, b + s + 1)
                     /\ t.page[q].toks[s] = row[b + s + 1]
    <3>. SUFFICES ASSUME b + s < p
                  PROVE  /\ c[q][s] = SubSeq(row, 1, b + s + 1)
                         /\ t.page[q].toks[s] = row[b + s + 1]
      OBVIOUS
    <3>1. c[q][s] = SubSeq(old, 1, b + s + 1) /\ t.page[q].toks[s] = old[b + s + 1]
      <4>. HIDE DEF p, old
      <4>. QED BY <1>2 DEF ContentTrue, old
    <3>2. b + s + 1 \in 1 .. p
      <4>. HIDE DEF b, p
      <4>. QED BY <1>1, <2>1
    <3>. QED BY <1>3, <3>1, <3>2
  <2>3. CASE i \in PageAt(p) .. PageAt(p + n)
    <3>1. Written(t, c, u, d, J, i, row)
      BY <2>3 DEF Extends
    <3>2. IF p <= b + s /\ b + s < final
          THEN d[q][s] = SubSeq(row, 1, b + s + 1) /\ u.page[q].toks[s] = row[b + s + 1]
          ELSE d[q][s] = c[q][s] /\ u.page[q].toks[s] = t.page[q].toks[s]
      BY <3>1 DEF Written
    <3>3. b + s < p \/ p <= b + s
      <4>. HIDE DEF b, p
      <4>. QED BY <1>1, <2>1
    <3>. HIDE DEF b, q, p, final
    <3>4. /\ d[q][s] = SubSeq(row, 1, b + s + 1) /\ u.page[q].toks[s] = row[b + s + 1]
      BY ONLY <2>1, <2>2, <3>2, <3>3
    <3>. QED BY <3>4 DEF b, q
  <2>4. CASE i < PageAt(p) /\ i \notin PageAt(p) .. PageAt(p + n)
    <3>1. b + PageSize <= p
      BY <1>5, <1>6, <2>4
    <3>2. b + s < p
      <4>. HIDE DEF b, p
      <4>. QED BY <1>1, <2>1, <3>1
    <3>3. u.page[q] = t.page[q] /\ d[q] = c[q]
      BY <2>4 DEF Extends
    <3>. QED BY <2>2, <3>2, <3>3
  <2>5. CASE PageAt(p + n) < i /\ i \notin PageAt(p) .. PageAt(p + n)
    <3>1. final <= b
      BY <1>7, <2>5
    <3>. HIDE DEF b, final
    <3>. QED BY <1>1, <2>1, <3>1
  <2>. HIDE DEF b, q
  <2>. QED BY <1>8, <2>3, <2>4, <2>5
<1>10. ASSUME NEW i \in Index(J) PROVE u.page[PageOf(J, i)].kv = FillMark(final, i)
  <2>1. CASE i \in PageAt(p) .. PageAt(p + n)
    BY <2>1 DEF Extends, Written
  <2>2. CASE i \notin PageAt(p) .. PageAt(p + n)
    <3>1. u.page[PageOf(J, i)].kv = FillMark(p, i)
      BY <2>2 DEF Extends, FilledTo
    <3>2. CASE i < PageAt(p)
      <4>1. (i + 1) * PageSize <= p /\ (i + 1) * PageSize <= final
        <5>. DEFINE e == (i + 1) * PageSize
        <5>1. e <= p /\ e \in Nat
          BY <1>5, <1>6, <3>2, PageSizeAssumption
        <5>. HIDE DEF e, p, final
        <5>2. e <= p /\ e <= final
          BY <1>1, <5>1
        <5>. QED BY <5>2 DEF e
      <4>2. FillMark(p, i) = PageSize /\ FillMark(final, i) = PageSize
        BY <1>1, <1>5, <4>1, FillMarks
      <4>. QED BY <3>1, <4>2
    <3>3. CASE PageAt(p + n) < i
      <4>1. final <= i * PageSize /\ p <= i * PageSize
        <5>. DEFINE e == i * PageSize
        <5>1. final <= e /\ e \in Nat
          BY <1>5, <1>7, <3>3
        <5>. HIDE DEF e, p, final
        <5>2. final <= e /\ p <= e
          BY <1>1, <5>1
        <5>. QED BY <5>2 DEF e
      <4>2. FillMark(p, i) = 0 /\ FillMark(final, i) = 0
        BY <1>1, <1>5, <4>1, FillMarks
      <4>. QED BY <3>1, <4>2
    <3>. QED BY <1>8, <2>2, <3>2, <3>3
  <2>. QED BY <2>1, <2>2
<1>. QED BY <1>9, <1>10 DEF ContentTrue, FilledTo

LEMMA ForwardStep ==
  ASSUME PromptsOpen, CacheInv, BooksInv', NEW j \in Job, Forward(j)
  PROVE  CacheInv'
<1>1. /\ pc = "forward" /\ j \in todo /\ todo' = todo \ {j}
      /\ UNCHANGED <<serial, pc, cur, k>>
  BY DEF Forward
<1>2. PICK draft \in [1 .. k -> Sampled] : ForwardTo(j, draft)
  BY ForwardWrites
<1>. DEFINE J == job[j]
            K == [J EXCEPT !.draft = draft]
            row == J.ids \o draft
            low == LowAs(J, "none")
            final == J.pos + k + 1
<1>3. /\ J \in JobState /\ J.stage = "active" /\ J.fate = "go"
      /\ PrefillDone(J) /\ J.pos + 1 = Len(J.ids)
      /\ Fine(J, "none", 0) /\ JobOK(J, "none") /\ Fits(J)
      /\ Served(table, cache, J, "none", 0, FALSE)
      /\ k \in Nat /\ J.pos \in Nat /\ J.ids \in Seq(Token)
  <2>1. /\ J \in JobState /\ J.stage = "active" /\ J.fate = "go"
        /\ PrefillDone(J) /\ J.pos + 1 = Len(J.ids)
        /\ Fine(J, "none", 0) /\ JobOK(J, "none") /\ Fits(J)
        /\ Served(table, cache, J, "none", 0, FALSE) /\ k \in 0 .. MaxDraft
    BY <1>1, AwaitsForward
  <2>. HIDE DEF J
  <2>2. J.pos \in Nat /\ J.ids \in Seq(Token)
    BY <2>1, JobFields
  <2>3. k \in Nat
    BY <2>1, JobsAssumption
  <2>. QED BY <2>1, <2>2, <2>3
<1>4. /\ low \in Nat /\ low <= PageAt(J.pos) /\ PageAt(J.pos) \in Nat
      /\ final <= Len(J.pages) * PageSize
      /\ \A i \in Window(J) : /\ i \in Index(J) /\ i >= low
                              /\ table.page[PageOf(J, i)].phash.base # 0
      /\ \A i \in Window(J), m \in Index(J) : PageOf(J, i) = PageOf(J, m) => i = m
  BY <1>1, WindowPages
<1>5. /\ job' = [job EXCEPT ![j].draft = draft]
      /\ table'.page \in [Page -> CachePage] /\ cache' \in [Page -> [Slot -> Seq(Token)]]
      /\ \A i \in Window(J) : Written(table, cache, table', cache', J, i, row)
      /\ \A q \in Page : (\A i \in Window(J) : PageOf(J, i) # q) =>
           table'.page[q] = table.page[q] /\ cache'[q] = cache[q]
  BY <1>2 DEF ForwardTo
<1>6. job \in [Job -> JobState] /\ table.page \in [Page -> CachePage]
      /\ PagesTrue(table, cache) /\ BasesApart(table, BlockTables)
  BY DEF CacheInv, Typed
<1>7. job' = [job EXCEPT ![j] = K]
  BY <1>5, <1>6
<1>. HIDE DEF J
<1>8. /\ draft \in Seq(Sampled) /\ draft \in Seq(Token) /\ row \in Seq(Token) /\ Len(row) = final
  BY <1>3, DraftJoined
<1>9. /\ K \in JobState /\ K.ids = J.ids /\ K.draft = draft /\ K.pages = J.pages /\ K.pos = J.pos
      /\ K.stage = J.stage /\ K.fate = J.fate /\ K.plen = J.plen /\ K.limit = J.limit
      /\ K.offset = J.offset /\ K.deferred = J.deferred
  BY <1>3, <1>8 DEF JobState
<1>. HIDE DEF K
<1>10. Text(row)
  <2>1. Opens(Bos, J.ids)
    BY <1>3 DEF JobOK
  <2>2. Opens(Bos, row)
    BY <1>3, <1>8, <2>1, OpensJoined
  <2>. HIDE DEF row
  <2>. QED BY <1>8, <2>2, OpensText
<1>11. \A m \in 0 .. Len(J.ids) : SubSeq(row, 1, m) = SubSeq(J.ids, 1, m)
  BY <1>3, <1>8, PrefixOfJoined
<1>12. /\ NamesTrue(table, J, low) /\ LinksTrue(table, J, low)
       /\ ContentTrue(table, cache, J, Settled(J)) /\ FilledTo(table, J, J.pos)
  <2>1. RowAs(J, "none", 0, FALSE) = Settled(J)
    BY DEF RowAs
  <2>2. Len(Settled(J)) = J.pos
    <3>1. J.pos \in 0 .. Len(J.ids)
      BY <1>3
    <3>. QED BY <1>3, <3>1, Prefix DEF Settled
  <2>. QED BY <1>3, <2>1, <2>2 DEF Served, MarksTrue
<1>13. Extends(table, cache, table', cache', J, k, row)
  <2>. SUFFICES ASSUME NEW i \in Index(J)
                PROVE IF i \in PageAt(J.pos) .. PageAt(J.pos + k)
                      THEN Written(table, cache, table', cache', J, i, row)
                      ELSE /\ table'.page[PageOf(J, i)] = table.page[PageOf(J, i)]
                           /\ cache'[PageOf(J, i)] = cache[PageOf(J, i)]
    BY DEF Extends
  <2>1. PageOf(J, i) \in Page
    BY <1>3, PagesIndexed
  <2>2. i \notin Window(J) => \A m \in Window(J) : PageOf(J, m) # PageOf(J, i)
    BY <1>4
  <2>. QED BY <1>5, <2>1, <2>2 DEF Window
<1>14. ContentTrue(table', cache', J, row) /\ FilledTo(table', J, Len(row))
  <2>1. SubSeq(row, 1, J.pos) = Settled(J)
    <3>1. J.pos \in 0 .. Len(J.ids)
      BY <1>3
    <3>. QED BY <1>11, <3>1 DEF Settled
  <2>2. Len(row) = J.pos + k + 1 /\ Len(row) <= Len(J.pages) * PageSize /\ row \in Seq(Token)
    BY <1>4, <1>8
  <2>. HIDE DEF row
  <2>. QED BY ONLY <1>3, <1>10, <1>12, <1>13, <2>1, <2>2, ExtendedRow
<1>. HIDE DEF final
<1>15. \A q \in Page : /\ table'.page[q].phash = table.page[q].phash
                       /\ table'.page[q].prev = table.page[q].prev
  <2>. SUFFICES ASSUME NEW q \in Page
                PROVE  /\ table'.page[q].phash = table.page[q].phash
                       /\ table'.page[q].prev = table.page[q].prev
    OBVIOUS
  <2>1. CASE \A i \in Window(J) : PageOf(J, i) # q
    BY <1>5, <2>1
  <2>2. CASE \E i \in Window(J) : PageOf(J, i) = q
    BY <1>5, <2>2 DEF Written
  <2>. QED BY <2>1, <2>2
<1>16. NamesTrue(table', J, low) /\ LinksTrue(table', J, low)
  <2>1. \A i \in Index(J) : PageOf(J, i) \in Page /\ (i > 0 => i - 1 \in Index(J))
    BY <1>3, PagesIndexed, JobFields DEF Index
  <2>2. \A i \in Index(J) : /\ table'.page[PageOf(J, i)].phash = table.page[PageOf(J, i)].phash
                            /\ table'.page[PageOf(J, i)].prev = table.page[PageOf(J, i)].prev
    BY <1>15, <2>1
  <2>3. \A i \in Index(J) : i > 0 =>
          table'.page[PageOf(J, i - 1)].phash = table.page[PageOf(J, i - 1)].phash
    BY <2>1, <2>2
  <2>4. NamesTrue(table', J, low)
    BY ONLY <1>12, <2>2, <2>3 DEF NamesTrue
  <2>5. LinksTrue(table', J, low)
    BY ONLY <1>12, <2>2 DEF LinksTrue
  <2>. QED BY <2>4, <2>5
<1>17. Served(table', cache', K, "none", 0, TRUE)
  <2>1. PrefillDone(K) /\ LowAs(K, "none") = low /\ RowAs(K, "none", 0, TRUE) = row
    BY <1>3, <1>9 DEF PrefillDone, LowAs, RowAs, low
  <2>2. SameStart(J, K, low)
    BY <1>9, SameStartItself
  <2>. HIDE DEF low, row
  <2>3. NamesTrue(table', K, low) /\ LinksTrue(table', K, low)
    BY <1>3, <1>4, <1>9, <1>16, <2>1, <2>2, NamesMoved
  <2>4. ContentTrue(table', cache', K, row) /\ FilledTo(table', K, Len(row))
    BY <1>9, <1>14, ContentMoved
  <2>5. MarksTrue(table', K, "none", 0, row)
    BY <2>1, <2>4 DEF MarksTrue
  <2>. QED BY <2>1, <2>3, <2>4, <2>5 DEF Served
<1>18. Fine(K, "none", 0)
  <2>1. /\ PrefillDone(K) /\ NewTokens(K) = NewTokens(J) /\ (Holding(K) <=> Holding(J))
        /\ (Deferrals(K) <=> Deferrals(J)) /\ (Fits(K) <=> Fits(J))
        /\ (Untouched(K) <=> Untouched(J)) /\ \A b : Reaches(K, b) <=> Reaches(J, b)
    BY <1>3, <1>9 DEF PrefillDone, NewTokens, Holding, Deferrals, Fits, Untouched, Reaches
  <2>2. JobOK(K, "none")
    BY <1>3, <1>9, <2>1 DEF JobOK
  <2>3. HandOK(K, "none", 0)
    BY DEF HandOK, Sampling
  <2>4. WaitOK(J)
    BY <1>3 DEF Fine
  <2>5. WaitOK(K)
    BY <1>3, <1>9, <2>4 DEF WaitOK
  <2>. QED BY <2>2, <2>3, <2>5 DEF Fine
<1>. HIDE DEF row, low
<1>19. PagesTrue(table', cache')
  <2>. SUFFICES ASSUME NEW q \in Page PROVE TruePage(table'.page[q], cache'[q])
    BY DEF PagesTrue
  <2>1. CASE \A i \in Window(J) : PageOf(J, i) # q
    BY <1>5, <1>6, <2>1 DEF PagesTrue
  <2>2. CASE \E i \in Window(J) : PageOf(J, i) = q
    <3>1. PICK i \in Window(J) : PageOf(J, i) = q
      BY <2>2
    <3>2. /\ i \in Index(J) /\ i >= low /\ i \in Nat /\ table'.page[q].phash.base # 0
          /\ table'.page[q].saved = None
      BY ZenonT(30), <1>3, <1>4, <1>5, <1>15, <3>1, PagesIndexed DEF Written
    <3>3. table'.page[q].kv = FillMark(Len(row), i) /\ Len(row) \in Nat /\ Len(row) <= Len(row)
      BY <1>8, <1>14, <3>1, <3>2 DEF FilledTo
    <3>4. LET prev == table'.page[q].prev IN
          prev.base = 0 /\ prev # Root => prev.toks = SubSeq(row, 1, i * PageSize)
      <4>1. SUFFICES ASSUME table'.page[q].prev.base = 0, table'.page[q].prev # Root
                     PROVE  table'.page[q].prev.toks = SubSeq(row, 1, i * PageSize)
        OBVIOUS
      <4>2. i = low /\ table'.page[q].prev.toks = SubSeq(J.ids, 1, i * PageSize)
        BY <1>16, <3>1, <3>2, <4>1 DEF LinksTrue
      <4>3. i * PageSize \in Nat /\ i * PageSize <= J.pos
        BY <1>3, <1>4, <3>2, <4>2, Multiples, PageBounds
      <4>4. i * PageSize \in 0 .. Len(J.ids)
        <5>. DEFINE e == i * PageSize
        <5>1. e \in Nat /\ e <= J.pos
          BY <4>3
        <5>. HIDE DEF e
        <5>2. e \in 0 .. Len(J.ids)
          BY <1>3, <5>1
        <5>. QED BY <5>2 DEF e
      <4>. QED BY <1>11, <4>2, <4>4
    <3>5. Truth(table'.page[q].phash, table'.page[q].prev, table'.page[q].kv,
                table'.page[q].toks, cache'[q])
      <4>. DEFINE h == table'.page[q].phash
                  prev == table'.page[q].prev
                  t == table'
                  c == cache'
                  m == Len(row)
      <4>1. /\ ContentTrue(t, c, J, row) /\ t.page[PageOf(J, i)].kv = FillMark(m, i)
            /\ m \in Nat /\ m <= Len(row) /\ Len(row) \in Nat /\ i \in Index(J) /\ J \in JobState
            /\ (prev.base = 0 /\ prev # Root /\ i * PageSize < m =>
                  prev.toks = SubSeq(row, 1, i * PageSize))
            /\ (h.base = 0 /\ (i + 1) * PageSize <= m => h.toks = SubSeq(row, 1, (i + 1) * PageSize))
        BY <1>3, <1>14, <3>1, <3>2, <3>3, <3>4
      <4>. HIDE DEF h, prev, t, c, m
      <4>2. Truth(h, prev, t.page[PageOf(J, i)].kv, t.page[PageOf(J, i)].toks, c[PageOf(J, i)])
        BY ONLY <4>1, RowTruth
      <4>. QED BY <3>1, <4>2 DEF h, prev, t, c
    <3>6. table'.page[q].phash # Root
      BY <3>2, NotRoot
    <3>. QED BY <3>2, <3>5, <3>6 DEF TruePage, Identified
  <2>. QED BY <2>1, <2>2
<1>20. \A l \in Job : job'[l].pages = job[l].pages
  BY <1>6, <1>7, <1>9 DEF J
<1>21. BasesApart(table, BlockTables)'
  BY <1>15, <1>20, SameHashesApart
<1>22. \A l \in Job \ {j} : Undisturbed(l)
  <2>1. \A q \in Page :
          \/ SamePage(table.page[q], table'.page[q]) /\ cache'[q] = cache[q]
          \/ \E i \in Index(job[j]) : PageOf(job[j], i) = q /\ table.page[q].phash.base # 0
    BY <1>4, <1>5 DEF SamePage, J
  <2>. QED BY <2>1, OthersUndisturbed
<1>23. Typed'
  <2>1. job' \in [Job -> JobState]
    BY <1>6, <1>7, <1>9
  <2>. QED BY <1>1, <1>5, <2>1 DEF CacheInv, Typed
<1>24. \A l \in Job : /\ job'[l].stage = job[l].stage /\ job'[l].fate = job[l].fate
                      /\ (PrefillDone(job'[l]) <=> PrefillDone(job[l]))
  <2>. SUFFICES ASSUME NEW l \in Job
                PROVE  /\ job'[l].stage = job[l].stage /\ job'[l].fate = job[l].fate
                       /\ (PrefillDone(job'[l]) <=> PrefillDone(job[l]))
    OBVIOUS
  <2>1. CASE l = j
    BY <1>6, <1>7, <1>9, <2>1 DEF J, PrefillDone
  <2>2. CASE l # j
    BY <1>6, <1>7, <2>2
  <2>. QED BY <2>1, <2>2
<1>25. Turns'
  <2>1. Turns
    BY DEF CacheInv
  <2>2. todo' \subseteq todo /\ todo \subseteq Job
    BY <1>1 DEF CacheInv, Typed
  <2>3. \A l \in Job : job[l].stage = "active" => job[l].fate = "go"
    BY <1>1, <2>1 DEF Turns, Active
  <2>. QED BY <1>1, <1>24, <2>1, <2>2, <2>3 DEF Turns, Active, Sampling
<1>26. \A l \in Job : Phase(l) = "none" /\ Phase(l)' = "none" /\ Turn(l) = 0 /\ Turn(l)' = 0
  BY <1>1 DEF Phase, Turn, Sampling
<1>27. \A l \in Job \ {j} : Stays(l)
  <2>. SUFFICES ASSUME NEW l \in Job \ {j} PROVE Stays(l)
    OBVIOUS
  <2>1. job'[l] = job[l] /\ (l \in todo' <=> l \in todo)
    BY <1>1, <1>6, <1>7
  <2>2. Drafted(l)' = Drafted(l)
    BY <1>1, <2>1 DEF Drafted, Sampling, PrefillDone
  <2>. QED BY <1>26, <2>1, <2>2 DEF Stays
<1>28. JobFine(j)' /\ JobServed(j)'
  <2>1. job'[j] = K
    BY <1>6, <1>7
  <2>2. PrefillDone(K)
    BY <1>3, <1>9 DEF PrefillDone
  <2>3. Drafted(j)' = TRUE
    BY <1>1, <2>1, <2>2 DEF Drafted, PrefillDone
  <2>4. /\ JobFine(j)' <=> Fine(job'[j], Phase(j)', Turn(j)')
        /\ JobServed(j)' <=> Owed(table', cache', job'[j], Phase(j)', Turn(j)', Drafted(j)')
    BY DEF JobFine, JobServed
  <2>5. Fine(K, "none", 0) /\ Owed(table', cache', K, "none", 0, TRUE)
    BY <1>17, <1>18 DEF Owed
  <2>6. Phase(j)' = "none" /\ Turn(j)' = 0
    BY <1>26
  <2>. QED BY ONLY <2>1, <2>3, <2>4, <2>5, <2>6
<1>. DEFINE M == {j}
<1>29. \A l \in Job \ M : Stays(l) /\ Undisturbed(l)
  BY <1>22, <1>27
<1>30. \A l \in M : JobFine(l)' /\ JobServed(l)'
  BY <1>28
<1>31. PagesTrue(table, cache)'
  BY <1>19 DEF PagesTrue
<1>. HIDE DEF M
<1>. QED BY <1>21, <1>23, <1>25, <1>29, <1>30, <1>31, StepKeeps

-----------------------------------------------------------------------------
(* Starting a job.                                                         *)

\* A page claimed as page i of a job: for its prompt it has the prompt's hash, for its
\* output it is a placeholder, and empty.
Allot(r, J, i) ==
  /\ i < ContextPages(J.plen) =>
       r.phash.base = 0 /\ r.phash.toks = SubSeq(J.ids, 1, (i + 1) * PageSize)
  /\ i >= ContextPages(J.plen) =>
       /\ r.phash.base # 0 /\ r.phash.toks = <<>> /\ r.kv = 0
       /\ r.prev.base = 0 /\ r.prev # Root =>
            i = ContextPages(J.plen) /\ r.prev.toks = SubSeq(J.ids, 1, i * PageSize)

Allotted(t, J) == \A i \in Index(J) : Allot(t.page[PageOf(J, i)], J, i)

LEMMA AllottedServed ==
  ASSUME NEW J \in JobState, J.pos = 0, J.deferred = <<>>, Len(J.ids) >= 1,
         J.plen = Len(J.ids), NEW t, NEW c, NEW n
  PROVE  Served(t, c, J, "alloc", n, FALSE) <=> Allotted(t, J)
<1>. DEFINE low == ContextPages(J.plen)
            row == RowAs(J, "alloc", n, FALSE)
<1>1. /\ J.ids \in Seq(Token) /\ Len(J.ids) \in Nat /\ Len(J.pages) \in Nat
      /\ low \in Nat /\ (PrefillDone(J) => low = 0)
  <2>1. /\ J.ids \in Seq(Token) /\ Len(J.ids) \in Nat /\ Len(J.pages) \in Nat
        /\ J.limit \in Nat
    BY JobFields
  <2>2. low \in Nat
    <3>1. J.plen \in Nat \ {0}
      BY <2>1
    <3>. QED BY <2>1, <3>1, Room
  <2>3. PrefillDone(J) => low = 0
    <3>1. PrefillDone(J) => J.plen - 1 = 0
      BY <2>1 DEF PrefillDone
    <3>2. 0 \div PageSize = 0
      BY PageSizeAssumption
    <3>. QED BY <3>1, <3>2 DEF ContextPages
  <2>. QED BY <2>1, <2>2, <2>3
<1>2. PageAt(0) = 0
  BY PageSizeAssumption DEF PageAt
<1>3. LowAs(J, "alloc") = low
  <2>1. CASE ~ PrefillDone(J)
    BY <2>1 DEF LowAs
  <2>2. CASE PrefillDone(J)
    <3>1. LowAs(J, "alloc") = PageAt(0) - Len(<<>>)
      BY <2>2 DEF LowAs
    <3>. QED BY <1>1, <1>2, <2>2, <3>1
  <2>. QED BY <2>1, <2>2
<1>4. row = <<>>
  BY <1>1, EmptyPrefix DEF RowAs, Settled
<1>5. \A i \in Index(J) : i \in Nat /\ (i > 0 => i - 1 \in Index(J))
  BY <1>1 DEF Index
<1>. HIDE DEF low, row
<1>6. ContentTrue(t, c, J, row)
  <2>. DEFINE r == Len(J.pages) * PageSize
  <2>1. r \in Nat /\ Len(row) = 0 /\ row \in Seq(Token)
    BY <1>1, <1>4, Multiples
  <2>2. Text(row) /\ Len(row) <= r
    <3>. HIDE DEF r
    <3>. QED BY <2>1 DEF Text
  <2>3. ASSUME NEW i \in Index(J), NEW s \in Slot PROVE ~ (i * PageSize + s < Len(row))
    <3>1. i * PageSize + s \in Nat
      BY <1>5, Locating
    <3>. QED BY <2>1, <3>1
  <2>. QED BY <2>2, <2>3 DEF ContentTrue
<1>7. MarksTrue(t, J, "alloc", n, row) <=>
        \A i \in Index(J) : i >= low => t.page[PageOf(J, i)].kv = 0
  <2>1. CASE ~ PrefillDone(J)
    <3>1. \A i \in Index(J) : ~ (i < PageAt(J.pos))
      BY <1>2, <1>5
    <3>. QED BY <2>1, <3>1 DEF MarksTrue, low
  <2>2. CASE PrefillDone(J)
    <3>1. \A i \in Index(J) : i >= low /\ FillMark(0, i) = 0
      <4>. SUFFICES ASSUME NEW i \in Index(J) PROVE i >= low /\ FillMark(0, i) = 0
        OBVIOUS
      <4>1. i \in Nat /\ 0 <= i * PageSize
        <5>1. i \in Nat /\ i * PageSize \in Nat
          BY <1>5, Multiples
        <5>. QED BY <5>1
      <4>. QED BY <1>1, <2>2, <4>1, FillMarks
    <3>2. Len(row) = 0
      BY <1>4
    <3>3. MarksTrue(t, J, "alloc", n, row) <=> FilledTo(t, J, Len(row))
      BY <2>2 DEF MarksTrue
    <3>. QED BY <3>1, <3>2, <3>3 DEF FilledTo
  <2>. QED BY <2>1, <2>2
<1>8. NamesTrue(t, J, low) <=>
        \A i \in Index(J) :
          LET h == t.page[PageOf(J, i)].phash IN
          /\ i < low => h.base = 0 /\ h.toks = SubSeq(J.ids, 1, (i + 1) * PageSize)
          /\ i >= low => h.base # 0 /\ h.toks = <<>>
  <2>1. ASSUME NamesTrue(t, J, low), NEW i \in Index(J)
        PROVE  LET h == t.page[PageOf(J, i)].phash IN
               /\ i < low => h.base = 0 /\ h.toks = SubSeq(J.ids, 1, (i + 1) * PageSize)
               /\ i >= low => h.base # 0 /\ h.toks = <<>>
    <3>1. i < low => ~ PrefillDone(J)
      <4>1. i \in Nat
        BY <1>5
      <4>. QED BY ONLY <1>1, <4>1
    <3>. QED BY <2>1, <3>1 DEF NamesTrue
  <2>2. ASSUME \A i \in Index(J) :
                 LET h == t.page[PageOf(J, i)].phash IN
                 /\ i < low => h.base = 0 /\ h.toks = SubSeq(J.ids, 1, (i + 1) * PageSize)
                 /\ i >= low => h.base # 0 /\ h.toks = <<>>
        PROVE  NamesTrue(t, J, low)
    <3>1. \A i \in Index(J) : i < low /\ i > 0 => i - 1 \in Index(J) /\ i - 1 < low
      BY <1>1, <1>5
    <3>. QED BY <2>2, <3>1 DEF NamesTrue
  <2>. QED BY <2>1, <2>2
<1>9. Served(t, c, J, "alloc", n, FALSE) <=>
        NamesTrue(t, J, low) /\ LinksTrue(t, J, low) /\ MarksTrue(t, J, "alloc", n, row)
  BY <1>3, <1>6 DEF Served, row
<1>. QED BY <1>7, <1>8, <1>9 DEF LinksTrue, Allotted, Allot, low

\* The job in hand while its pages are claimed.
LEMMA InAlloc ==
  ASSUME CacheInv, cur \in Job, pc = "alloc"
  PROVE  LET J == job[cur] IN
         /\ J \in JobState /\ k \in Nat /\ J.stage = "active" /\ J.fate = "go"
         /\ JobOK(J, "alloc") /\ Fits(J) /\ Untouched(J)
         /\ J.pos = 0 /\ J.plen = Len(J.ids) /\ Len(J.ids) >= 1 /\ J.deferred = <<>>
         /\ J.ids \in Seq(Token) /\ Len(J.ids) \in Nat
         /\ Len(J.pages) <= TotalPages(J.plen, J.limit)
         /\ Allotted(table, J)
<1>. DEFINE J == job[cur]
<1>1. /\ J \in JobState /\ k \in Nat /\ Fine(J, "alloc", k)
      /\ Owed(table, cache, J, "alloc", k, FALSE)
  BY HandHas
<1>. HIDE DEF J
<1>2. J.stage = "active" /\ J.fate = "go" /\ LiveAs(J, "alloc")
  BY <1>1 DEF Fine, HandOK, LiveAs
<1>3. /\ JobOK(J, "alloc") /\ Served(table, cache, J, "alloc", k, FALSE)
  BY <1>1, <1>2 DEF Fine, Owed
<1>4. /\ Fits(J) /\ Untouched(J) /\ J.pos = 0 /\ J.plen = Len(J.ids) /\ Len(J.ids) >= 1
      /\ J.deferred = <<>> /\ Len(J.pages) <= TotalPages(J.plen, J.limit)
  BY <1>2, <1>3 DEF JobOK, Untouched, Opens
<1>. QED BY <1>1, <1>2, <1>3, <1>4, AllottedServed, JobFields DEF J

LEMMA StartJobStep ==
  ASSUME CacheInv, BooksInv', NEW j \in Job, StartJob(j)
  PROVE  CacheInv'
<1>. DEFINE J == job[j]
            K == [J EXCEPT !.stage = "active"]
<1>1. /\ pc = "start" /\ pc' = "alloc" /\ J.stage = "pending" /\ cur' = j
      /\ UNCHANGED <<table, serial, cache, todo, k>>
  BY DEF StartJob
<1>2. /\ job \in [Job -> JobState] /\ J \in JobState /\ job' = [job EXCEPT ![j] = K]
      /\ k \in Nat
  BY DEF StartJob, CacheInv, Typed
<1>3. \A l \in Job : /\ Phase(l) = "none" /\ Turn(l) = 0
                     /\ Phase(l)' = (IF l = j THEN "alloc" ELSE "none")
                     /\ Turn(l)' = (IF l = j THEN k ELSE 0)
  BY <1>1 DEF Phase, Turn, Sampling
<1>4. WaitOK(J)
  BY DEF CacheInv, JobFine, Fine
<1>5. /\ Opens(Bos, J.ids) /\ Untouched(J) /\ J.pos = 0 /\ J.pages = <<>> /\ J.limit >= 1
      /\ J.plen = Len(J.ids) /\ J.fate = "go" /\ J.offset = None /\ J.deferred = <<>>
      /\ J.limit \in Nat /\ Len(J.ids) \in Nat /\ Len(J.ids) >= 1
  <2>1. /\ Opens(Bos, J.ids) /\ Untouched(J) /\ J.pos = 0 /\ J.pages = <<>> /\ J.limit >= 1
        /\ J.limit \in Nat /\ Len(J.ids) \in Nat
    BY <1>1, <1>2, <1>4, JobFields DEF WaitOK
  <2>. QED BY <2>1 DEF Untouched, Opens
<1>. HIDE DEF J
<1>6. /\ K \in JobState /\ K.stage = "active" /\ K.ids = J.ids /\ K.plen = J.plen
      /\ K.limit = J.limit /\ K.pos = 0 /\ K.pages = <<>> /\ K.offset = None
      /\ K.deferred = <<>> /\ K.fate = "go"
  BY <1>2, <1>5 DEF JobState
<1>. HIDE DEF K
<1>7. Fits(K)
  <2>1. NewTokens(K) = 0
    BY <1>5, <1>6 DEF NewTokens
  <2>2. RqMargin <= Budget(K.plen, K.limit) /\ RqMargin \in Nat
    <3>1. MaxDraft \in Nat /\ RqTokens \in Nat
      BY JobsAssumption
    <3>2. CASE RqTokens = 0
      <4>1. Budget(K.plen, K.limit) = K.limit + 1 + MaxDraft /\ RqMargin = MaxDraft
        BY <3>2 DEF Budget, RqMargin
      <4>. QED BY <1>5, <1>6, <3>1, <4>1
    <3>3. CASE RqTokens # 0
      <4>1. Budget(K.plen, K.limit) \in Nat
        BY <1>5, <1>6, BudgetType
      <4>. QED BY <3>3, <4>1 DEF RqMargin
    <3>. QED BY <3>2, <3>3
  <2>. QED BY <1>5, <1>6, <2>1, <2>2 DEF Fits
<1>8. JobOK(K, "alloc")
  <2>1. Untouched(K)
    BY <1>5, <1>6 DEF Untouched
  <2>2. ~ Holding(K)
    BY <1>6 DEF Holding
  <2>3. Deferrals(K)
    <3>1. PageAt(0) \in Nat
      BY Located
    <3>. QED BY <1>6, <3>1 DEF Deferrals
  <2>4. TotalPages(K.plen, K.limit) \in Nat
    <3>1. K.plen \in Nat \ {0} /\ K.limit \in Nat
      BY <1>5, <1>6
    <3>. QED BY <3>1, Room
  <2>. QED BY <1>5, <1>6, <1>7, <2>1, <2>2, <2>3, <2>4 DEF JobOK
<1>9. Fine(K, "alloc", k)
  BY <1>6, <1>8 DEF Fine, HandOK, WaitOK, Sampling
<1>10. Owed(table, cache, K, "alloc", k, FALSE)
  <2>1. Index(K) = {}
    BY <1>6 DEF Index
  <2>2. Allotted(table, K)
    BY <2>1 DEF Allotted
  <2>3. K \in JobState /\ K.pos = 0 /\ K.deferred = <<>> /\ Len(K.ids) >= 1 /\ K.plen = Len(K.ids)
    BY <1>5, <1>6
  <2>4. Served(table, cache, K, "alloc", k, FALSE)
    BY <2>2, <2>3, AllottedServed
  <2>. QED BY <2>4 DEF Owed
<1>11. /\ job'[j] = K /\ \A l \in Job \ {j} : job'[l] = job[l]
       /\ job' \in [Job -> JobState] /\ todo' \subseteq Job /\ k' \in Nat
  BY <1>1, <1>2, <1>6 DEF CacheInv, Typed
<1>12. \A l \in Job : job'[l].pages = job[l].pages
  BY <1>5, <1>6, <1>11 DEF J
<1>13. Turns'
  <2>1. \A l \in Job : job'[l].stage = "active" => job'[l].fate = "go"
    BY <1>1, <1>6, <1>11 DEF CacheInv, Turns, Active
  <2>. QED BY <1>1, <2>1 DEF Turns, Active, Sampling
<1>14. \A l \in Job \ {j} : Stays(l)
  BY <1>1, <1>3, <1>11 DEF Stays, Drafted, Sampling
<1>15. JobFine(j)' /\ JobServed(j)'
  <2>1. Drafted(j)' = FALSE
    BY <1>1 DEF Drafted, Sampling
  <2>2. /\ JobFine(j)' <=> Fine(job'[j], Phase(j)', Turn(j)')
        /\ JobServed(j)' <=> Owed(table', cache', job'[j], Phase(j)', Turn(j)', Drafted(j)')
    BY DEF JobFine, JobServed
  <2>3. Phase(j)' = "alloc" /\ Turn(j)' = k /\ job'[j] = K /\ table' = table /\ cache' = cache
    BY <1>1, <1>3, <1>11
  <2>. QED BY ONLY <1>9, <1>10, <2>1, <2>2, <2>3
<1>. DEFINE M == {j}
<1>16. /\ \A l \in Job \ M : Stays(l)
       /\ \A l \in M : JobFine(l)' /\ JobServed(l)'
  BY <1>14, <1>15
<1>. HIDE DEF M
<1>. QED BY <1>1, <1>11, <1>12, <1>13, <1>16, QuietStep

\* A page claimed: the step keeps the invariant if the claimed page is what it should be.
LEMMA ClaimedStep ==
  ASSUME CacheInv, BooksInv', cur \in Job, pc = "alloc", ~ AllocDone,
         NEW p \in Page, Claim(p), serial' \in Nat,
         UNCHANGED <<cache, pc, cur, todo, k>>, PagesTyped(table'),
         \A q \in Page \ {p} : table'.page[q] = table.page[q],
         SamePage(table.page[p], table'.page[p]) \/ table.page[p].refs = 0,
         TruePage(table'.page[p], cache[p]),
         Allot(table'.page[p], job[cur], AllocIndex),
         \/ table'.page[p].phash.base = 0
         \/ table.page[p].refs = 0 /\ table'.page[p].phash.base \notin Bases(table)
  PROVE  CacheInv'
<1>. DEFINE J == job[cur]
            n == Len(J.pages)
            K == [J EXCEPT !.pages = Append(@, p)]
<1>1. /\ J \in JobState /\ k \in Nat /\ J.stage = "active" /\ J.fate = "go"
      /\ JobOK(J, "alloc") /\ Fits(J) /\ Untouched(J)
      /\ J.pos = 0 /\ J.plen = Len(J.ids) /\ Len(J.ids) >= 1 /\ J.deferred = <<>>
      /\ J.ids \in Seq(Token) /\ Len(J.ids) \in Nat
      /\ Len(J.pages) <= TotalPages(J.plen, J.limit)
      /\ Allotted(table, J)
  BY InAlloc
<1>2. job \in [Job -> JobState] /\ job' = [job EXCEPT ![cur] = K] /\ AllocIndex = n
      /\ n # TotalPages(J.plen, J.limit)
  BY DEF Claim, CacheInv, Typed, AllocIndex, AllocDone
<1>3. /\ PagesTyped(table) /\ Sound(table) /\ BasesApart(table, BlockTables)
      /\ PagesTrue(table, cache) /\ CountsMatch(table, BlockTables)
      /\ BlockTables \in [Job -> Seq(Page)] /\ job \in [Job -> JobState]
  BY BlockTablesType DEF CacheInv, Typed, BooksInv, Sound, PagesTyped
<1>. HIDE DEF J
<1>4. n \in Nat /\ J.pages \in Seq(Page)
  BY <1>1, JobFields
<1>5. /\ K \in JobState /\ K.pages = Append(J.pages, p) /\ K.ids = J.ids /\ K.plen = J.plen
      /\ K.limit = J.limit /\ K.pos = 0 /\ K.stage = "active" /\ K.fate = "go"
      /\ K.offset = J.offset /\ K.deferred = <<>>
  <2>1. Append(J.pages, p) \in Seq(Page)
    BY <1>4
  <2>. QED BY <1>1, <2>1 DEF JobState
<1>. HIDE DEF K
<1>6. /\ Len(K.pages) = n + 1 /\ K.pages[n + 1] = p
      /\ \A i \in 1 .. n : K.pages[i] = J.pages[i]
      /\ DOMAIN J.pages = 1 .. n /\ DOMAIN K.pages = 1 .. n + 1
  <2>. DEFINE x == J.pages
              y == K.pages
  <2>1. x \in Seq(Page) /\ y = Append(x, p) /\ n = Len(x)
    BY <1>4, <1>5
  <2>. HIDE DEF x, y, n
  <2>2. /\ Len(y) = n + 1 /\ y[n + 1] = p /\ \A i \in 1 .. n : y[i] = x[i]
        /\ DOMAIN x = 1 .. n /\ DOMAIN y = 1 .. n + 1
    BY ONLY <2>1
  <2>. QED BY <2>2 DEF x, y
<1>7. /\ n \in Index(K) /\ PageOf(K, n) = p
      /\ \A i \in Index(K) : i # n => i \in Index(J) /\ PageOf(K, i) = PageOf(J, i)
  <2>1. n \in Index(K) /\ PageOf(K, n) = p
    BY <1>4, <1>6 DEF Index, PageOf
  <2>2. ASSUME NEW i \in Index(K), i # n PROVE i \in Index(J) /\ PageOf(K, i) = PageOf(J, i)
    <3>1. i \in Nat /\ i < n + 1 /\ i \in Index(J) /\ i + 1 \in 1 .. n
      <4>. HIDE DEF n
      <4>1. Index(J) = 0 .. n - 1 /\ Index(K) = 0 .. (n + 1) - 1
        BY <1>6 DEF Index, n
      <4>. QED BY <1>4, <2>2, <4>1
    <3>. QED BY <1>6, <3>1 DEF PageOf
  <2>. QED BY <2>1, <2>2
<1>8. JobOK(K, "alloc")
  <2>1. n + 1 <= TotalPages(K.plen, K.limit)
    <3>1. TotalPages(J.plen, J.limit) \in Nat
      <4>1. J.plen \in Nat \ {0} /\ J.limit \in Nat
        BY <1>1, JobFields
      <4>. QED BY <4>1, Room
    <3>2. n <= TotalPages(J.plen, J.limit)
      BY <1>1
    <3>. HIDE DEF n
    <3>. QED BY <1>2, <1>4, <1>5, <3>1, <3>2
  <2>2. Untouched(K) /\ Fits(K) /\ (Holding(K) <=> Holding(J)) /\ Deferrals(K)
        /\ Opens(Bos, K.ids) /\ ~ Holding(J)
    <3>1. Deferrals(K)
      <4>1. PageAt(0) \in Nat
        BY Located
      <4>. QED BY <1>5, <4>1 DEF Deferrals
    <3>. QED BY <1>1, <1>5, <3>1 DEF Untouched, Fits, NewTokens, Holding, JobOK
  <2>. QED BY <1>1, <1>5, <1>6, <2>1, <2>2 DEF JobOK
<1>9. Fine(K, "alloc", k)
  BY <1>5, <1>8 DEF Fine, HandOK, WaitOK, Sampling
<1>10. \A i \in Index(J) : SamePage(table.page[PageOf(J, i)], table'.page[PageOf(J, i)])
  <2>. SUFFICES ASSUME NEW i \in Index(J)
                PROVE  SamePage(table.page[PageOf(J, i)], table'.page[PageOf(J, i)])
    OBVIOUS
  <2>1. PageOf(J, i) \in Page /\ i + 1 \in DOMAIN J.pages
    BY <1>1, PagesIndexed
  <2>2. CASE PageOf(J, i) # p
    BY <2>1, <2>2 DEF SamePage
  <2>3. CASE PageOf(J, i) = p
    <3>. DEFINE f == BlockTables
    <3>1. f \in [Job -> Seq(Page)] /\ CountsMatch(table, f) /\ i + 1 \in DOMAIN f[cur]
          /\ f[cur][i + 1] = p
      BY <1>3, <2>1, <2>3 DEF BlockTables, J, PageOf
    <3>. HIDE DEF f
    <3>2. table.page[p].refs > 0
      BY <3>1, PlacedReferenced
    <3>. QED BY <2>3, <3>2
  <2>. QED BY <2>2, <2>3
<1>11. Allotted(table', K)
  <2>. SUFFICES ASSUME NEW i \in Index(K) PROVE Allot(table'.page[PageOf(K, i)], K, i)
    BY SMTT(30) DEF Allotted
  <2>1. CASE i = n
    <3>1. Allot(table'.page[p], J, n)
      BY SMTT(30), <1>2 DEF J
    <3>. QED BY <1>5, <1>7, <2>1, <3>1 DEF Allot
  <2>2. CASE i # n
    <3>1. i \in Index(J) /\ PageOf(K, i) = PageOf(J, i)
      BY <1>7, <2>2
    <3>2. Allot(table.page[PageOf(J, i)], J, i)
      BY <1>1, <3>1 DEF Allotted
    <3>3. SamePage(table.page[PageOf(J, i)], table'.page[PageOf(J, i)])
      BY <1>10, <3>1
    <3>. QED BY ZenonT(30), <1>5, <3>1, <3>2, <3>3 DEF Allot, SamePage
  <2>. QED BY <2>1, <2>2
<1>12. Owed(table', cache', K, "alloc", k, FALSE)
  <2>1. K \in JobState /\ K.pos = 0 /\ K.deferred = <<>> /\ Len(K.ids) >= 1 /\ K.plen = Len(K.ids)
    BY <1>1, <1>5
  <2>2. Served(table', cache', K, "alloc", k, FALSE)
    BY <1>11, <2>1, AllottedServed
  <2>. QED BY <2>2 DEF Owed
<1>13. PagesTrue(table, cache)'
  <2>1. PagesTrue(table', cache)
    BY <1>3 DEF PagesTrue
  <2>. QED BY <2>1 DEF PagesTrue
<1>14. BasesApart(table, BlockTables)'
  <2>. DEFINE f == BlockTables
              g == [BlockTables EXCEPT ![cur] = K.pages]
  <2>1. BlockTables' = g
    BY <1>2, <1>5 DEF BlockTables
  <2>2. /\ f \in [Job -> Seq(Page)] /\ CountsMatch(table, f) /\ BasesApart(table, f)
        /\ f[cur] = J.pages /\ g[cur] = K.pages /\ DOMAIN f[cur] = 1 .. n /\ DOMAIN g[cur] = 1 .. n + 1
        /\ \A l \in Job \ {cur} : g[l] = f[l]
    BY <1>3, <1>6 DEF BlockTables, J
  <2>. HIDE DEF f, g
  <2>3. \A l \in Job : \A m \in DOMAIN g[l] :
          \/ l = cur /\ m = n + 1 /\ g[l][m] = p
          \/ m \in DOMAIN f[l] /\ f[l][m] = g[l][m] /\ f[l][m] \in Page
    <3>. SUFFICES ASSUME NEW l \in Job, NEW m \in DOMAIN g[l]
                  PROVE  \/ l = cur /\ m = n + 1 /\ g[l][m] = p
                         \/ m \in DOMAIN f[l] /\ f[l][m] = g[l][m] /\ f[l][m] \in Page
      OBVIOUS
    <3>1. CASE l # cur
      BY <2>2, <3>1
    <3>2. CASE l = cur /\ m = n + 1
      BY <1>6, <2>2, <3>2
    <3>3. CASE l = cur /\ m # n + 1
      <4>1. m \in 1 .. n
        <5>. HIDE DEF n
        <5>. QED BY <1>4, <2>2, <3>3
      <4>. QED BY <1>6, <2>2, <3>3, <4>1
    <3>. QED BY <3>1, <3>2, <3>3
  <2>4. \A l \in Job : \A m \in DOMAIN f[l] : table.page[f[l][m]].refs > 0
    BY <2>2, PlacedReferenced
  <2>5. \A l \in Job : \A m \in DOMAIN f[l] :
          f[l][m] \in Page => table'.page[f[l][m]].phash = table.page[f[l][m]].phash
    BY SMTT(30), <2>4 DEF SamePage
  <2>6. CASE table'.page[p].phash.base = 0
    <3>1. \A l \in Job : \A m \in DOMAIN g[l] :
            \/ table'.page[g[l][m]].phash.base = 0
            \/ m \in DOMAIN f[l] /\ table'.page[g[l][m]].phash = table.page[f[l][m]].phash
      BY <2>3, <2>5, <2>6
    <3>2. BasesApart(table', g)
      BY SMTT(30), <2>2, <3>1, FewerApart
    <3>. QED BY SMTT(30), <2>1, <3>2 DEF BasesApart
  <2>7. CASE table.page[p].refs = 0 /\ table'.page[p].phash.base \notin Bases(table)
    <3>1. \A l \in Job : \A m \in DOMAIN g[l] : g[l][m] # p =>
            /\ m \in DOMAIN f[l] /\ f[l][m] = g[l][m]
            /\ table'.page[g[l][m]].phash = table.page[g[l][m]].phash
            /\ table'.page[g[l][m]].phash.base # table'.page[p].phash.base
      <4>. SUFFICES ASSUME NEW l \in Job, NEW m \in DOMAIN g[l], g[l][m] # p
                    PROVE /\ m \in DOMAIN f[l] /\ f[l][m] = g[l][m]
                          /\ table'.page[g[l][m]].phash = table.page[g[l][m]].phash
                          /\ table'.page[g[l][m]].phash.base # table'.page[p].phash.base
        OBVIOUS
      <4>1. m \in DOMAIN f[l] /\ f[l][m] = g[l][m] /\ f[l][m] \in Page
        BY <2>3
      <4>2. table'.page[f[l][m]].phash = table.page[f[l][m]].phash
        BY <2>5, <4>1
      <4>3. table.page[f[l][m]].phash.base \in Bases(table)
        <5>1. \A q \in Page : table.page[q].phash.base \in BasesOf(table.page[q])
          BY DEF BasesOf
        <5>2. \A q \in Page : table.page[q].phash.base \in Bases(table)
          BY ONLY <5>1 DEF Bases
        <5>. QED BY <4>1, <5>2
      <4>. QED BY <2>7, <4>1, <4>2, <4>3
    <3>2. \A l \in Job : \A m \in DOMAIN g[l] : g[l][m] = p => l = cur /\ m = n + 1
      BY <2>3, <2>4, <2>7
    <3>3. \A l, o \in Job : \A i \in DOMAIN g[l], m \in DOMAIN g[o] :
            g[l][i] = p /\ g[o][m] = p => l = o /\ i = m
      BY <3>2
    <3>4. \A l \in Job : DOMAIN g[l] \subseteq Int
      <4>1. DOMAIN g[cur] \subseteq Int
        BY <2>2
      <4>2. \A l \in Job \ {cur} : DOMAIN g[l] \subseteq Int
        BY <2>2
      <4>. QED BY <4>1, <4>2
    <3>5. BasesApart(table', g)
      <4>1. BasesApart(table, f)
        BY <2>2
      <4>. QED BY ONLY <3>1, <3>3, <3>4, <4>1, FreshBaseApart
    <3>. QED BY SMTT(30), <2>1, <3>5 DEF BasesApart
  <2>. QED BY <2>6, <2>7
<1>15. \A l \in Job \ {cur} : Undisturbed(l)
  <2>1. \A q \in Page :
          \/ SamePage(table.page[q], table'.page[q]) /\ cache'[q] = cache[q]
          \/ table.page[q].refs = 0
    BY DEF SamePage
  <2>. QED BY <2>1, OthersUndisturbed
<1>16. Typed'
  <2>1. job' \in [Job -> JobState]
    BY <1>2, <1>5
  <2>. QED BY <2>1 DEF CacheInv, Typed, PagesTyped
<1>17. /\ Turns'
       /\ \A l \in Job \ {cur} : Stays(l)
       /\ JobFine(cur)' /\ JobServed(cur)'
  <2>1. /\ pc' = "alloc" /\ k' = k /\ Fine(K, "alloc", k) /\ Owed(table', cache', K, "alloc", k, FALSE)
    BY <1>9, <1>12
  <2>2. Fine(K, pc', k') /\ Owed(table', cache', K, pc', k', FALSE)
    BY ONLY <2>1
  <2>3. K.fate = "go" /\ pc \in {"alloc"} \cup Sampling /\ pc' \in {"alloc"} \cup Sampling
        /\ (pc = "alloc" <=> pc' = "alloc") /\ cur' = cur /\ todo' = todo
        /\ (K.fate = "rewound" => pc' \in {"rewind", "verify", "reject"})
    BY <1>5
  <2>. QED BY <1>2, <2>2, <2>3, HandMoves
<1>. DEFINE M == {cur}
<1>18. /\ \A l \in Job \ M : Stays(l) /\ Undisturbed(l)
       /\ \A l \in M : JobFine(l)' /\ JobServed(l)'
  <2>1. \A l \in Job \ M : Stays(l) /\ Undisturbed(l)
    BY <1>15, <1>17
  <2>2. ASSUME NEW l \in {cur} PROVE JobFine(l)' /\ JobServed(l)'
    <3>1. l = cur /\ cur' = cur
      OBVIOUS
    <3>. QED BY <1>17, <3>1 DEF JobFine, JobServed, Phase, Turn, Drafted
  <2>. QED BY <2>1, <2>2
<1>. HIDE DEF M
<1>. QED BY <1>13, <1>14, <1>16, <1>17, <1>18, StepKeeps

\* The hash a prompt page is looked up by is that of the prompt so far.
LEMMA AllocHash ==
  ASSUME CacheInv, cur \in Job, pc = "alloc", AllocIndex < ContextPages(job[cur].plen)
  PROVE  LET h == PromptHash(job[cur], AllocIndex) IN
         /\ h \in Hash /\ h.base = 0 /\ h # Root
         /\ h.toks = SubSeq(job[cur].ids, 1, (AllocIndex + 1) * PageSize)
         /\ AllocIndex \in Nat
<1>. DEFINE J == job[cur]
            n == Len(J.pages)
            e == (n + 1) * PageSize
<1>1. /\ J \in JobState /\ J.plen = Len(J.ids) /\ Len(J.ids) >= 1 /\ J.ids \in Seq(Token)
      /\ Len(J.ids) \in Nat
  BY InAlloc
<1>2. AllocIndex = n /\ PromptHash(J, n) = Chain(Root, SubSeq(J.ids, 1, e))
      /\ n < ContextPages(J.plen)
  BY DEF AllocIndex, PromptHash
<1>. HIDE DEF J
<1>3. n \in Nat
  BY <1>1, JobFields
<1>. HIDE DEF n
<1>4. e \in 1 .. Len(J.ids)
  <2>1. Len(J.ids) - 1 \in Nat /\ n + 1 \in Nat
    BY <1>1, <1>3
  <2>2. n + 1 <= PageAt(Len(J.ids) - 1)
    <3>1. PageAt(Len(J.ids) - 1) \in Nat
      BY <2>1, Located
    <3>2. n < PageAt(Len(J.ids) - 1)
      BY <1>1, <1>2 DEF ContextPages, PageAt
    <3>. QED BY <1>3, <3>1, <3>2
  <2>3. e <= Len(J.ids) - 1
    BY <2>1, <2>2, PageBounds
  <2>4. e \in Nat /\ n * PageSize \in Nat /\ e = n * PageSize + PageSize
    BY <1>3, <2>1, Multiples
  <2>. HIDE DEF e
  <2>. QED BY <1>1, <2>3, <2>4, PageSizeAssumption
<1>. HIDE DEF e
<1>5. SubSeq(J.ids, 1, e) \in Seq(Token) /\ Len(SubSeq(J.ids, 1, e)) = e
  <2>1. e \in 0 .. Len(J.ids)
    BY <1>1, <1>4
  <2>. QED BY <1>1, <2>1, Prefix
<1>6. Len(SubSeq(J.ids, 1, e)) > 0
  BY <1>4, <1>5
<1>. DEFINE y == SubSeq(J.ids, 1, e)
            h == Chain(Root, y)
<1>7. /\ h \in Hash /\ h.base = Root.base /\ h.toks = Root.toks \o y
      /\ h # Root
  <2>. HIDE DEF y
  <2>1. /\ h \in Hash /\ h.base = Root.base /\ h.toks = Root.toks \o y
        /\ h.toks # <<>>
    BY <1>5, <1>6, RootType, ChainedHash DEF y
  <2>. QED BY <2>1, NotRoot
<1>8. h.base = 0 /\ h.toks = y
  <2>. HIDE DEF y, h
  <2>1. <<>> \o y = y
    BY <1>5 DEF y
  <2>. QED BY <1>7, <2>1, RootType
<1>. QED BY <1>2, <1>3, <1>7, <1>8 DEF J, e

\* ClaimHit: the page has the prompt's hash already.
LEMMA ClaimHitStep ==
  ASSUME CacheInv, BooksInv', ClaimHit
  PROVE  CacheInv'
<1>. DEFINE h == PromptHash(job[cur], AllocIndex)
<1>1. /\ pc = "alloc" /\ ~ AllocDone /\ AllocIndex < ContextPages(job[cur].plen)
      /\ serial' = serial + 1 /\ UNCHANGED <<cache, pc, cur, todo, k>>
  BY DEF ClaimHit
<1>2. PICK p \in Page : /\ table.page[p].phash = h
                        /\ table' = AddRef(table, p, serial + 1)
                        /\ Claim(p)
  BY DEF ClaimHit
<1>3. /\ PagesTyped(table) /\ Sound(table) /\ serial + 1 \in Nat /\ cur \in Job
      /\ TruePage(table.page[p], cache[p])
  BY <1>1 DEF CacheInv, Typed, BooksInv, Sound, PagesTyped, PagesTrue, JobInHand
<1>4. /\ PagesTyped(table')
      /\ SamePage(table.page[p], table'.page[p]) /\ table'.page[p].saved = None
      /\ \A q \in Page \ {p} : table'.page[q] = table.page[q]
  BY <1>2, <1>3, AddRefPages
<1>5. TruePage(table'.page[p], cache[p])
  BY <1>3, <1>4, TruePageFrame
<1>6. /\ h \in Hash /\ h.base = 0
      /\ h.toks = SubSeq(job[cur].ids, 1, (AllocIndex + 1) * PageSize) /\ AllocIndex \in Nat
  BY <1>1, <1>3, AllocHash
<1>. HIDE DEF h
<1>7. table'.page[p].phash = h
  BY <1>2, <1>4 DEF SamePage
<1>8. Allot(table'.page[p], job[cur], AllocIndex)
  <2>1. ~ AllocIndex >= ContextPages(job[cur].plen)
    <3>1. ContextPages(job[cur].plen) \in Nat
      <4>1. job[cur].plen = Len(job[cur].ids) /\ Len(job[cur].ids) >= 1
            /\ Len(job[cur].ids) \in Nat /\ job[cur].limit \in Nat
        BY <1>1, <1>3, InAlloc, JobFields
      <4>2. job[cur].plen \in Nat \ {0}
        BY <4>1
      <4>. QED BY <4>1, <4>2, Room
    <3>. QED BY <1>1, <1>6, <3>1
  <2>. QED BY <1>1, <1>6, <1>7, <2>1 DEF Allot
<1>9. table'.page[p].phash.base = 0 /\ serial' \in Nat
  BY <1>1, <1>3, <1>6, <1>7
<1>. QED BY <1>1, <1>2, <1>3, <1>4, <1>5, <1>8, <1>9, ClaimedStep

\* ClaimMiss: an evicted page takes the prompt's hash, with nothing in it.
LEMMA ClaimMissStep ==
  ASSUME CacheInv, BooksInv', ClaimMiss
  PROVE  CacheInv'
<1>. DEFINE h == PromptHash(job[cur], AllocIndex)
<1>1. /\ pc = "alloc" /\ ~ AllocDone /\ AllocIndex < ContextPages(job[cur].plen)
      /\ serial' = serial + 1 /\ UNCHANGED <<cache, pc, cur, todo, k>>
      /\ ~ Holds(table, Page, h)
  BY DEF ClaimMiss
<1>2. PICK p \in Page : /\ NextEvictable(AvailablePages, p)
                        /\ table' = AddRefClear(table, p, serial + 1, h)
                        /\ Claim(p)
  BY DEF ClaimMiss
<1>3. /\ PagesTyped(table) /\ Sound(table) /\ serial + 1 \in Nat /\ cur \in Job
      /\ table.page[p].refs = 0
  <2>1. table.page[p].refs = 0
    BY <1>2 DEF NextEvictable
  <2>. QED BY <1>1, <2>1 DEF CacheInv, Typed, BooksInv, Sound, PagesTyped, JobInHand
<1>4. /\ h \in Hash /\ h.base = 0 /\ h # Root
      /\ h.toks = SubSeq(job[cur].ids, 1, (AllocIndex + 1) * PageSize) /\ AllocIndex \in Nat
  BY <1>1, <1>3, AllocHash
<1>. HIDE DEF h
<1>5. /\ PagesTyped(table')
      /\ table'.page[p].phash = h /\ table'.page[p].kv = 0 /\ table'.page[p].saved = None
      /\ \A q \in Page \ {p} : table'.page[q] = table.page[q]
  BY <1>1, <1>2, <1>3, <1>4, AddRefClearPages
<1>6. TruePage(table'.page[p], cache[p])
  BY <1>4, <1>5, TruthOfNothing DEF TruePage, Identified
<1>7. Allot(table'.page[p], job[cur], AllocIndex)
  <2>1. ~ AllocIndex >= ContextPages(job[cur].plen)
    <3>1. ContextPages(job[cur].plen) \in Nat
      <4>1. job[cur].plen = Len(job[cur].ids) /\ Len(job[cur].ids) >= 1
            /\ Len(job[cur].ids) \in Nat /\ job[cur].limit \in Nat
        BY <1>1, <1>3, InAlloc, JobFields
      <4>2. job[cur].plen \in Nat \ {0}
        BY <4>1
      <4>. QED BY <4>1, <4>2, Room
    <3>. QED BY <1>1, <1>4, <3>1
  <2>. QED BY <1>1, <1>4, <1>5, <2>1 DEF Allot
<1>8. table'.page[p].phash.base = 0 /\ serial' \in Nat
  BY SMTT(30), <1>1, <1>3, <1>4, <1>5
<1>. QED BY <1>1, <1>2, <1>3, <1>5, <1>6, <1>7, <1>8, ClaimedStep

\* ClaimUnique: a placeholder for output, with nothing in it, that follows the page
\* before it if that is complete.
LEMMA ClaimUniqueStep ==
  ASSUME CacheInv, BooksInv', ClaimUnique
  PROVE  CacheInv'
<1>. DEFINE J == job[cur]
            n == AllocIndex
<1>1. /\ pc = "alloc" /\ ~ AllocDone /\ AllocIndex >= ContextPages(job[cur].plen)
      /\ serial' = serial + 1 /\ UNCHANGED <<cache, pc, cur, todo, k>>
  BY DEF ClaimUnique
<1>2. PICK p \in Page :
        /\ NextEvictable(AvailablePages, p)
        /\ LET u == AddRefUnique(table, p, serial + 1)
               last == IF AllocIndex = 0 THEN p ELSE job[cur].pages[AllocIndex]
           IN table' = IF AllocIndex > 0 /\ Complete(u, last)
                       THEN [u EXCEPT !.page[p].prev = u.page[last].phash]
                       ELSE u
        /\ Claim(p)
  BY DEF ClaimUnique
<1>. DEFINE t == AddRefUnique(table, p, serial + 1)
<1>3. /\ PagesTyped(table) /\ Sound(table) /\ serial + 1 \in Nat /\ cur \in Job
      /\ table.page[p].refs = 0 /\ TruePage(table.page[p], cache[p])
  <2>1. table.page[p].refs = 0
    BY <1>2 DEF NextEvictable
  <2>. QED BY <1>1, <2>1 DEF CacheInv, Typed, BooksInv, Sound, PagesTyped, PagesTrue, JobInHand
<1>4. /\ J \in JobState /\ Len(J.ids) >= 1 /\ J.plen = Len(J.ids) /\ Allotted(table, J)
      /\ Len(J.ids) \in Nat /\ J.limit \in Nat /\ n \in Nat /\ n = Len(J.pages)
  <2>1. J \in JobState /\ Len(J.ids) >= 1 /\ J.plen = Len(J.ids) /\ Allotted(table, J)
    BY <1>1, <1>3, InAlloc
  <2>. QED BY <2>1, JobFields DEF AllocIndex
<1>5. ContextPages(J.plen) \in Nat
  <2>. HIDE DEF J
  <2>1. J.plen \in Nat \ {0}
    BY <1>4
  <2>. QED BY <1>4, <2>1, Room
<1>6. /\ PagesTyped(t)
      /\ t.page[p].phash = FreshHash(table) /\ t.page[p].kv = 0 /\ t.page[p].prev = Root
      /\ t.page[p].toks = table.page[p].toks
      /\ t.page[p].saved = [phash |-> table.page[p].phash, prev |-> table.page[p].prev,
                            serial |-> table.page[p].serial, kv |-> table.page[p].kv]
      /\ \A q \in Page \ {p} : t.page[q] = table.page[q]
  BY <1>3, AddRefUniquePages
<1>7. /\ IsTable(t)
      /\ \/ table' = t
         \/ n > 0 /\ table' = [t EXCEPT !.page[p].prev = t.page[J.pages[n]].phash]
  <2>1. \/ table' = t
        \/ n > 0 /\ table' = [t EXCEPT !.page[p].prev = t.page[J.pages[n]].phash]
    BY <1>2, <1>4
  <2>. QED BY SMTT(30), <1>6, <2>1 DEF PagesTyped
<1>. HIDE DEF t, n, J
<1>8. n > 0 =>
        /\ n - 1 \in Index(J) /\ PageOf(J, n - 1) = J.pages[n] /\ J.pages[n] \in Page
        /\ t.page[J.pages[n]] = table.page[J.pages[n]]
  <2>. SUFFICES ASSUME n > 0
                PROVE  /\ n - 1 \in Index(J) /\ PageOf(J, n - 1) = J.pages[n] /\ J.pages[n] \in Page
                       /\ t.page[J.pages[n]] = table.page[J.pages[n]]
    OBVIOUS
  <2>1. n - 1 \in Nat /\ n - 1 < Len(J.pages) /\ (n - 1) + 1 = n
    BY <1>4
  <2>2. n - 1 \in Index(J) /\ PageOf(J, n - 1) = J.pages[n] /\ J.pages[n] \in Page
        /\ n \in DOMAIN J.pages
    BY <1>4, <2>1, PagesIndexed DEF PageOf
  <2>3. table.page[J.pages[n]].refs > 0
    <3>. DEFINE f == BlockTables
    <3>1. f \in [Job -> Seq(Page)] /\ CountsMatch(table, f) /\ n \in DOMAIN f[cur]
          /\ f[cur][n] = J.pages[n]
      BY <1>3, <2>2, BlockTablesType DEF BlockTables, J, CacheInv, BooksInv
    <3>. HIDE DEF f
    <3>2. table.page[f[cur][n]].refs > 0
      BY <1>3, <3>1, PlacedReferenced
    <3>. QED BY <3>1, <3>2
  <2>. QED BY <1>3, <1>6, <2>2, <2>3
<1>9. /\ PagesTyped(table')
      /\ \A q \in Page \ {p} : table'.page[q] = table.page[q]
      /\ table'.page[p].phash = FreshHash(table) /\ table'.page[p].kv = 0
      /\ table'.page[p].toks = table.page[p].toks
      /\ table'.page[p].saved = [phash |-> table.page[p].phash, prev |-> table.page[p].prev,
                                 serial |-> table.page[p].serial, kv |-> table.page[p].kv]
      /\ \/ table'.page[p].prev = Root
         \/ n > 0 /\ table'.page[p].prev = table.page[PageOf(J, n - 1)].phash
  <2>1. CASE table' = t
    BY SMTT(30), <1>6, <2>1
  <2>2. CASE n > 0 /\ table' = [t EXCEPT !.page[p].prev = t.page[J.pages[n]].phash]
    <3>. DEFINE g == t.page[J.pages[n]].phash
                rec == [t.page[p] EXCEPT !.prev = g]
    <3>1. g \in Hash /\ g = table.page[PageOf(J, n - 1)].phash
      BY <1>3, <1>8, <2>2, RecordFields
    <3>2. table' = [t EXCEPT !.page[p].prev = g]
      BY <2>2
    <3>. HIDE DEF g
    <3>3. t.page[p] \in CachePage
      BY <1>6, RecordFields
    <3>4. /\ rec \in CachePage /\ rec.prev = g /\ rec.phash = t.page[p].phash
          /\ rec.kv = t.page[p].kv /\ rec.toks = t.page[p].toks /\ rec.saved = t.page[p].saved
      BY <3>1, <3>3 DEF CachePage
    <3>5. table' = [t EXCEPT !.page[p] = rec]
      BY <3>2, <3>3 DEF CachePage
    <3>. HIDE DEF rec
    <3>6. Replaced(t, table', p, rec)
      <4>1. IsTable(table')
        BY DEF BooksInv, Sound
      <4>2. table'.page = [t.page EXCEPT ![p] = rec]
        BY ONLY <1>7, <3>5 DEF IsTable
      <4>. QED BY <4>1, <4>2 DEF Replaced
    <3>7. PagesTyped(table') /\ table'.page[p] = rec
          /\ \A q \in Page \ {p} : table'.page[q] = t.page[q]
      BY <1>6, <3>4, <3>6, OneRecord
    <3>. QED BY <1>6, <2>2, <3>1, <3>4, <3>7
  <2>. QED BY <1>7, <2>1, <2>2
<1>10. TruePage(table'.page[p], cache[p])
  <2>. DEFINE r == table'.page[p]
              o == table.page[p]
  <2>1. Truth(r.phash, r.prev, r.kv, r.toks, cache[p])
    BY <1>9, TruthOfNothing
  <2>2. /\ r.saved.phash = o.phash /\ r.saved.prev = o.prev /\ r.saved.kv = o.kv
        /\ r.toks = o.toks
    BY <1>9
  <2>3. Truth(o.phash, o.prev, o.kv, o.toks, cache[p]) /\ o.phash # Root
    BY <1>3 DEF TruePage, Identified
  <2>6. r.phash # Root
    BY <1>9, FreshHashType, NotRoot
  <2>. HIDE DEF r, o
  <2>4. Truth(r.saved.phash, r.saved.prev, r.saved.kv, r.toks, cache[p])
    BY <2>2, <2>3
  <2>5. TruePage(r, cache[p])
    BY <2>1, <2>2, <2>3, <2>4, <2>6 DEF TruePage, Identified
  <2>. QED BY <2>5 DEF r
<1>11. Allot(table'.page[p], J, n)
  <2>1. n >= ContextPages(J.plen) /\ ~ n < ContextPages(J.plen)
    BY <1>1, <1>4, <1>5 DEF n, J
  <2>2. table'.page[p].phash.base # 0 /\ table'.page[p].phash.toks = <<>> /\ table'.page[p].kv = 0
    BY <1>9, FreshHashType
  <2>3. ASSUME table'.page[p].prev.base = 0, table'.page[p].prev # Root
        PROVE  n = ContextPages(J.plen) /\ table'.page[p].prev.toks = SubSeq(J.ids, 1, n * PageSize)
    <3>1. n > 0 /\ table'.page[p].prev = table.page[PageOf(J, n - 1)].phash
      BY <1>9, <2>3
    <3>2. Allot(table.page[PageOf(J, n - 1)], J, n - 1)
      BY <1>4, <1>8, <3>1 DEF Allotted
    <3>3. n - 1 < ContextPages(J.plen)
      BY <1>4, <1>5, <2>3, <3>1, <3>2 DEF Allot
    <3>4. (n - 1) + 1 = n
      BY <1>4
    <3>5. table.page[PageOf(J, n - 1)].phash.toks = SubSeq(J.ids, 1, n * PageSize)
      BY <3>2, <3>3, <3>4 DEF Allot
    <3>. QED BY <1>4, <1>5, <2>1, <3>1, <3>3, <3>5
  <2>. QED BY <2>1, <2>2, <2>3 DEF Allot
<1>12. table'.page[p].phash.base \notin Bases(table) /\ serial' \in Nat
  BY <1>1, <1>3, <1>9, FreshHashType
<1>. QED
  BY <1>1, <1>2, <1>3, <1>9, <1>10, <1>11, <1>12, ClaimedStep DEF J, n

-----------------------------------------------------------------------------
(* Resuming a job after its leading complete pages.                        *)

\* A complete page with the prompt's hash holds the prompt.
LEMMA PromptPage ==
  ASSUME NEW t, NEW c, PagesTrue(t, c), NEW J \in JobState, NEW i \in Index(J),
         Complete(t, PageOf(J, i)), (i + 1) * PageSize <= Len(J.ids),
         t.page[PageOf(J, i)].phash.base = 0,
         t.page[PageOf(J, i)].phash.toks = SubSeq(J.ids, 1, (i + 1) * PageSize)
  PROVE  \A s \in Slot :
           /\ c[PageOf(J, i)][s] = SubSeq(J.ids, 1, i * PageSize + s + 1)
           /\ t.page[PageOf(J, i)].toks[s] = J.ids[i * PageSize + s + 1]
<1>. DEFINE p == PageOf(J, i)
            r == t.page[p]
<1>1. p \in Page /\ i \in Nat /\ J.ids \in Seq(Token)
  BY PagesIndexed, JobFields
<1>2. Truth(r.phash, r.prev, r.kv, r.toks, c[p])
  BY <1>1 DEF PagesTrue, TruePage
<1>3. r.kv = PageSize
  BY DEF Complete
<1>4. r.phash.base = 0 /\ r.phash.toks = SubSeq(J.ids, 1, (i + 1) * PageSize)
  OBVIOUS
<1>. HIDE DEF p, r
<1>5. Truth(r.phash, r.prev, PageSize, r.toks, c[p])
  BY <1>2, <1>3
<1>6. \A s \in Slot : /\ c[p][s] = SubSeq(J.ids, 1, i * PageSize + s + 1)
                      /\ r.toks[s] = J.ids[i * PageSize + s + 1]
  BY <1>1, <1>4, <1>5, NamedPage
<1>. QED BY <1>6 DEF p, r

\* A job with all its pages, none of its output begun.
Allocated(t, J) ==
  /\ J \in JobState /\ J.stage = "active" /\ J.fate = "go"
  /\ Opens(Bos, J.ids) /\ J.plen = Len(J.ids)
  /\ J.offset = None /\ J.deferred = <<>>
  /\ Len(J.pages) = TotalPages(J.plen, J.limit) /\ Fits(J)
  /\ Allotted(t, J)

\* The page its output begins in is one of them.
LEMMA AllocatedRoom ==
  ASSUME NEW t, NEW J, Allocated(t, J)
  PROVE  /\ J.ids \in Seq(Token) /\ Len(J.ids) \in Nat /\ Len(J.ids) >= 1
         /\ Len(J.ids) - 1 \in Nat /\ Len(J.pages) \in Nat
         /\ ContextPages(J.plen) \in Nat /\ ContextPages(J.plen) \in Index(J)
         /\ ContextPages(J.plen) = PageAt(Len(J.ids) - 1)
         /\ ContextPages(J.plen) * PageSize <= Len(J.ids) - 1
         /\ Len(J.ids) <= Len(J.pages) * PageSize
<1>1. /\ J \in JobState /\ J.ids \in Seq(Token) /\ Len(J.ids) \in Nat /\ Len(J.ids) >= 1
      /\ J.plen = Len(J.ids) /\ J.limit \in Nat /\ Len(J.pages) \in Nat /\ Fits(J)
      /\ Len(J.pages) = TotalPages(J.plen, J.limit)
  BY JobFields DEF Allocated, Opens
<1>2. J.plen \in Nat \ {0} /\ Len(J.ids) - 1 \in Nat
  BY <1>1
<1>3. /\ ContextPages(J.plen) \in Nat /\ ContextPages(J.plen) = PageAt(J.plen - 1)
      /\ ContextPages(J.plen) < TotalPages(J.plen, J.limit)
      /\ \A n \in Nat : n < J.limit /\ n + RqMargin <= Budget(J.plen, J.limit) =>
           J.plen + n + MaxDraft <= TotalPages(J.plen, J.limit) * PageSize
  BY <1>1, <1>2, Room
<1>4. ContextPages(J.plen) \in Index(J)
  BY <1>1, <1>3, PagesIndexed
<1>5. ContextPages(J.plen) * PageSize <= Len(J.ids) - 1
  BY <1>1, <1>2, <1>3, PageBounds
<1>6. J.plen + 0 + MaxDraft <= Len(J.pages) * PageSize
  <2>1. NewTokens(J) = 0
    BY <1>1 DEF NewTokens
  <2>2. 0 < J.limit /\ 0 + RqMargin <= Budget(J.plen, J.limit)
    BY <1>1, <2>1 DEF Fits
  <2>. QED BY <1>1, <1>3, <2>2
<1>7. MaxDraft \in Nat /\ Len(J.pages) * PageSize \in Nat
  BY <1>1, JobsAssumption, Multiples
<1>8. Len(J.ids) <= Len(J.pages) * PageSize
  BY <1>1, <1>6, <1>7
<1>. QED BY <1>1, <1>2, <1>3, <1>4, <1>5, <1>8

\* What it is to leave such a job at a page boundary, or with its prompt done.
LEMMA AllocatedFine ==
  ASSUME NEW t, NEW J, Allocated(t, J), J.pos < Len(J.ids),
         PrefillDone(J) \/ J.pos % PageSize = 0
  PROVE  Fine(J, "none", 0)
<1>1. /\ J \in JobState /\ Len(J.ids) \in Nat /\ Len(J.ids) >= 1 /\ J.plen = Len(J.ids)
      /\ J.pos \in Nat
  BY JobFields DEF Allocated, Opens
<1>2. J.stage = "active" /\ J.fate = "go" /\ J.offset = None /\ J.deferred = <<>>
  BY DEF Allocated
<1>3. WaitOK(J) /\ HandOK(J, "none", 0)
  BY <1>2 DEF WaitOK, HandOK, Sampling
<1>4. ~ Holding(J)
  BY <1>2 DEF Holding
<1>5. Deferrals(J)
  <2>1. Len(J.deferred) = 0 /\ DOMAIN J.deferred = {}
    BY <1>2
  <2>2. 0 <= PageAt(J.pos)
    <3>1. PageAt(J.pos) \in Nat
      BY <1>1, Located
    <3>. QED BY ONLY <3>1
  <2>. QED BY <2>1, <2>2 DEF Deferrals
<1>6. ~ PrefillDone(J) => Untouched(J)
  BY <1>1, <1>2 DEF Untouched
<1>7. JobOK(J, "none")
  <2>1. /\ Opens(Bos, J.ids) /\ J.plen \in 1 .. Len(J.ids)
        /\ Len(J.pages) = TotalPages(J.plen, J.limit) /\ Fits(J)
    BY <1>1 DEF Allocated
  <2>. QED BY <1>2, <1>4, <1>5, <1>6, <2>1 DEF JobOK
<1>. QED BY <1>3, <1>7 DEF Fine

\* The job resumes with what it is owed.
LEMMA Resumed ==
  ASSUME NEW t, PagesTyped(t), NEW c, PagesTrue(t, c), NEW J, Allocated(t, J),
         NEW n \in Nat, J.pos = n * PageSize, n <= Len(J.pages),
         \A i \in Index(J) : i < n => Complete(t, PageOf(J, i))
  PROVE  /\ n <= ContextPages(J.plen)
         /\ J.pos < Len(J.ids)
         /\ Fine(J, "none", 0)
         /\ Served(t, c, J, "none", 0, FALSE)
<1>. DEFINE low == ContextPages(J.plen)
            row == Settled(J)
<1>1. /\ J.ids \in Seq(Token) /\ Len(J.ids) \in Nat /\ Len(J.ids) >= 1
      /\ Len(J.ids) - 1 \in Nat /\ Len(J.pages) \in Nat /\ low \in Nat /\ low \in Index(J)
      /\ low = PageAt(Len(J.ids) - 1) /\ low * PageSize <= Len(J.ids) - 1
      /\ Len(J.ids) <= Len(J.pages) * PageSize
  BY AllocatedRoom
<1>2. /\ J \in JobState /\ Allotted(t, J) /\ J.deferred = <<>> /\ Opens(Bos, J.ids)
      /\ J.plen = Len(J.ids) /\ J.pos \in Nat
  BY JobFields DEF Allocated
<1>3. \A i \in Index(J) :
        /\ i \in Nat /\ PageOf(J, i) \in Page /\ Allot(t.page[PageOf(J, i)], J, i)
  BY <1>2, PagesIndexed DEF Allotted
<1>4. n <= low
  <2>. SUFFICES ASSUME low < n PROVE FALSE
    BY <1>1
  <2>1. Complete(t, PageOf(J, low)) /\ Allot(t.page[PageOf(J, low)], J, low)
    BY <1>1, <1>3
  <2>2. t.page[PageOf(J, low)].kv = 0 /\ t.page[PageOf(J, low)].kv = PageSize
    BY <1>1, <2>1 DEF Allot, Complete
  <2>. QED BY <2>2, PageSizeAssumption
<1>5. n * PageSize <= Len(J.ids) - 1
  <2>1. n <= PageAt(Len(J.ids) - 1)
    BY <1>1, <1>4
  <2>. QED BY <1>1, <2>1, PageBounds
<1>6. J.pos < Len(J.ids)
  BY <1>1, <1>2, <1>5
<1>7. PageAt(J.pos) = n /\ J.pos % PageSize = 0
  BY <1>2, PageBoundary
<1>8. PrefillDone(J) => n = low
  BY <1>1, <1>2, <1>7 DEF PrefillDone
<1>9. LowAs(J, "none") = low
  <2>1. Len(J.deferred) = 0
    BY <1>2
  <2>. QED BY <1>7, <1>8, <2>1 DEF LowAs
<1>. HIDE DEF low
<1>10. RowAs(J, "none", 0, FALSE) = row /\ row \in Seq(Token) /\ Len(row) = J.pos /\ Text(row)
       /\ row = SubSeq(J.ids, 1, J.pos)
  <2>1. J.pos \in 0 .. Len(J.ids)
    BY <1>1, <1>2, <1>6
  <2>. QED BY <1>1, <1>2, <2>1, Prefix, OpensText, TextPrefix DEF RowAs, Settled
<1>11. NamesTrue(t, J, low)
  <2>. SUFFICES ASSUME NEW i \in Index(J)
                PROVE  LET h == t.page[PageOf(J, i)].phash IN
                       /\ i < low =>
                            /\ h.base = 0 => h.toks = SubSeq(J.ids, 1, (i + 1) * PageSize)
                            /\ h.base = 0 /\ i > 0 => t.page[PageOf(J, i - 1)].phash.base = 0
                            /\ ~ PrefillDone(J) => h.base = 0
                       /\ i >= low => h.base # 0 /\ h.toks = <<>>
    BY DEF NamesTrue
  <2>1. Allot(t.page[PageOf(J, i)], J, i) /\ i \in Nat
    BY <1>3
  <2>2. ASSUME i < low, i > 0 PROVE t.page[PageOf(J, i - 1)].phash.base = 0
    <3>1. i - 1 \in Index(J) /\ i - 1 < low
      BY <1>1, <2>1, <2>2 DEF Index
    <3>2. Allot(t.page[PageOf(J, i - 1)], J, i - 1)
      BY <1>3, <3>1
    <3>. QED BY <3>1, <3>2 DEF Allot, low
  <2>. QED BY <2>1, <2>2 DEF Allot, low
<1>12. LinksTrue(t, J, low)
  BY <1>3 DEF LinksTrue, Allot, low
<1>13. ContentTrue(t, c, J, row)
  <2>1. Len(row) <= Len(J.pages) * PageSize
    <3>1. Len(J.pages) * PageSize \in Nat
      BY <1>1, Multiples
    <3>. QED BY <1>1, <1>2, <1>6, <1>10, <3>1
  <2>2. ASSUME NEW i \in Index(J), NEW s \in Slot, i * PageSize + s < Len(row)
        PROVE  /\ c[PageOf(J, i)][s] = SubSeq(row, 1, i * PageSize + s + 1)
               /\ t.page[PageOf(J, i)].toks[s] = row[i * PageSize + s + 1]
    <3>. DEFINE q == i * PageSize + s
    <3>1. i \in Nat /\ q \in Nat /\ PageAt(q) = i
      BY <1>3, Locating
    <3>2. q < J.pos
      BY <1>10, <2>2
    <3>3. i < n
      <4>1. q < n * PageSize
        BY <3>2
      <4>2. PageAt(q) < n
        BY <3>1, <4>1, PageBounds
      <4>. QED BY <3>1, <4>2
    <3>4. Complete(t, PageOf(J, i)) /\ i < low /\ Allot(t.page[PageOf(J, i)], J, i)
      BY <1>1, <1>3, <1>4, <3>1, <3>3
    <3>5. (i + 1) * PageSize <= Len(J.ids)
      <4>1. i * PageSize + PageSize <= n * PageSize /\ (i + 1) * PageSize = i * PageSize + PageSize
        BY <3>1, <3>3, Monotone, Multiples
      <4>2. i * PageSize \in Nat /\ n * PageSize \in Nat /\ PageSize \in Nat
        BY <3>1, Multiples, PageSizeAssumption
      <4>. DEFINE a == i * PageSize
                  b == n * PageSize
                  e == (i + 1) * PageSize
      <4>3. a \in Nat /\ b \in Nat /\ PageSize \in Nat /\ a + PageSize <= b /\ e = a + PageSize
            /\ b <= Len(J.ids) - 1 /\ Len(J.ids) \in Nat
        BY <1>1, <1>5, <4>1, <4>2
      <4>. HIDE DEF a, b, e
      <4>4. e <= Len(J.ids)
        BY ONLY <4>3
      <4>. QED BY <4>4 DEF e
    <3>. HIDE DEF q
    <3>6. /\ c[PageOf(J, i)][s] = SubSeq(J.ids, 1, i * PageSize + s + 1)
          /\ t.page[PageOf(J, i)].toks[s] = J.ids[i * PageSize + s + 1]
      BY <1>2, <3>4, <3>5, PromptPage DEF Allot, low
    <3>7. q + 1 \in 0 .. J.pos /\ J.pos \in 0 .. Len(J.ids) /\ q + 1 \in 1 .. J.pos
      BY <1>1, <1>2, <1>6, <3>1, <3>2
    <3>8. SubSeq(row, 1, q + 1) = SubSeq(J.ids, 1, q + 1) /\ row[q + 1] = J.ids[q + 1]
      BY <1>1, <1>10, <3>7, PrefixOfPrefix, Prefix
    <3>. QED BY <3>6, <3>8 DEF q
  <2>. QED BY <1>10, <2>1, <2>2 DEF ContentTrue
<1>14. MarksTrue(t, J, "none", 0, row)
  <2>1. \A i \in Index(J) : i >= low => t.page[PageOf(J, i)].kv = 0
    BY <1>3 DEF Allot, low
  <2>2. CASE ~ PrefillDone(J)
    BY <1>7, <2>1, <2>2 DEF MarksTrue, low
  <2>3. CASE PrefillDone(J)
    <3>1. FilledTo(t, J, Len(row))
      <4>. SUFFICES ASSUME NEW i \in Index(J)
                    PROVE  t.page[PageOf(J, i)].kv = FillMark(Len(row), i)
        BY DEF FilledTo
      <4>1. i \in Nat /\ Len(row) = n * PageSize /\ n * PageSize \in Nat /\ i * PageSize \in Nat
        BY <1>3, <1>10, Multiples
      <4>2. CASE i < n
        <5>1. i * PageSize + PageSize <= n * PageSize /\ (i + 1) * PageSize = i * PageSize + PageSize
          BY <4>1, <4>2, Monotone, Multiples
        <5>2. FillMark(n * PageSize, i) = PageSize
          BY <4>1, <5>1, FillMarks
        <5>. QED BY <4>1, <4>2, <5>2 DEF Complete
      <4>3. CASE i >= n
        <5>1. n * PageSize <= i * PageSize
          <6>1. i = n \/ n < i
            BY <4>1, <4>3
          <6>2. n < i => n * PageSize + PageSize <= i * PageSize
            BY <4>1, Monotone
          <6>. QED BY <4>1, <6>1, <6>2, PageSizeAssumption
        <5>2. FillMark(n * PageSize, i) = 0
          BY <4>1, <5>1, FillMarks
        <5>. QED BY <1>8, <2>1, <2>3, <4>1, <4>3, <5>2
      <4>. QED BY <4>1, <4>2, <4>3
    <3>. QED BY <2>3, <3>1 DEF MarksTrue
  <2>. QED BY <2>2, <2>3
<1>15. Served(t, c, J, "none", 0, FALSE)
  BY <1>9, <1>10, <1>11, <1>12, <1>13, <1>14 DEF Served
<1>16. Fine(J, "none", 0)
  BY <1>6, <1>7, AllocatedFine
<1>. QED BY <1>4, <1>6, <1>15, <1>16 DEF low

\* AllocFinish: the job resumes after its leading complete pages.
LEMMA AllocFinishStep ==
  ASSUME CacheInv, BooksInv', AllocFinish
  PROVE  CacheInv'
<1>. DEFINE J == job[cur]
            N == Len(J.pages)
            T == {m \in 0 .. N : m < N => ~ Complete(table, J.pages[m + 1])}
<1>1. /\ pc = "alloc" /\ AllocDone /\ pc' = "start" /\ cur' = NoJob
      /\ UNCHANGED <<table, serial, cache, todo, k>> /\ cur \in Job
  BY DEF AllocFinish, CacheInv, BooksInv, JobInHand
<1>2. /\ J \in JobState /\ k \in Nat /\ J.stage = "active" /\ J.fate = "go"
      /\ JobOK(J, "alloc") /\ Fits(J) /\ Untouched(J)
      /\ J.pos = 0 /\ J.plen = Len(J.ids) /\ Len(J.ids) >= 1 /\ J.deferred = <<>>
      /\ J.ids \in Seq(Token) /\ Len(J.ids) \in Nat
      /\ Allotted(table, J)
  BY <1>1, InAlloc
<1>3. J.pages \in Seq(Page) /\ N \in Nat /\ N = TotalPages(J.plen, J.limit)
  BY <1>1, <1>2, JobFields DEF AllocDone, AllocIndex
<1>4. /\ PagesTyped(table) /\ PagesTrue(table, cache) /\ job \in [Job -> JobState]
      /\ todo \subseteq Job /\ NoJob \notin Job
  BY NoJobAssumption DEF CacheInv, Typed, BooksInv, Sound, PagesTyped
<1>5. PICK n \in 0 .. N :
        /\ \A i \in 1 .. n : Complete(table, J.pages[i])
        /\ job' = [job EXCEPT ![cur].pos = n * PageSize]
  <2>. DEFINE P(n) == /\ \A i \in 1 .. n : Complete(table, J.pages[i])
                      /\ n < Len(J.pages) => ~ Complete(table, J.pages[n + 1])
              cached == CHOOSE n \in 0 .. Len(J.pages) : P(n)
  <2>1. job' = [job EXCEPT ![cur].pos = cached * PageSize]
    BY DEF AllocFinish
  <2>2. \E n \in 0 .. Len(J.pages) : P(n)
    <3>. HIDE DEF J
    <3>1. N \in T
      BY <1>3
    <3>2. T \in SUBSET Nat /\ T # {}
      BY <1>3, <3>1
    <3>3. PICK n \in T : \A y \in T : n <= y
      <4>. HIDE DEF T
      <4>. QED BY <3>2, LeastNatural
    <3>4. n \in 0 .. N /\ (n < N => ~ Complete(table, J.pages[n + 1]))
      OBVIOUS
    <3>5. ASSUME NEW i \in 1 .. n PROVE Complete(table, J.pages[i])
      <4>1. i - 1 \in 0 .. N /\ i - 1 < N /\ i - 1 < n /\ (i - 1) + 1 = i
        BY <1>3, <3>4
      <4>2. i - 1 \notin T
        <5>. HIDE DEF T, N
        <5>. QED BY <1>3, <3>3, <3>4, <4>1
      <4>. QED BY <4>1, <4>2
    <3>. QED BY <1>3, <3>4, <3>5
  <2>3. cached \in 0 .. Len(J.pages) /\ P(cached)
    <3>. HIDE DEF P
    <3>. QED BY <2>2
  <2>. HIDE DEF cached
  <2>. QED BY <2>1, <2>3
<1>. DEFINE K == [J EXCEPT !.pos = n * PageSize]
<1>. HIDE DEF J, T
<1>6. n \in Nat /\ n <= N /\ n * PageSize \in Nat
  BY <1>3, <1>5, Multiples
<1>7. /\ K \in JobState /\ K.pos = n * PageSize /\ K.pages = J.pages /\ K.ids = J.ids
      /\ K.plen = J.plen /\ K.limit = J.limit /\ K.stage = "active" /\ K.fate = "go"
      /\ K.offset = J.offset /\ K.deferred = <<>>
  BY <1>2, <1>6 DEF JobState
<1>8. job' = [job EXCEPT ![cur] = K]
  BY <1>4, <1>5 DEF J, JobState
<1>. HIDE DEF K
<1>9. Allocated(table, K)
  <2>1. Allotted(table, K)
    <3>1. Index(K) = Index(J) /\ \A i : PageOf(K, i) = PageOf(J, i)
      BY <1>7 DEF Index, PageOf
    <3>2. \A r, i : Allot(r, K, i) <=> Allot(r, J, i)
      BY <1>7 DEF Allot
    <3>. QED BY <1>2, <3>1, <3>2 DEF Allotted
  <2>2. Fits(K) /\ Opens(Bos, K.ids) /\ K.offset = None
    BY <1>2, <1>7 DEF Fits, NewTokens, JobOK, Untouched
  <2>. QED BY <1>2, <1>3, <1>7, <2>1, <2>2 DEF Allocated
<1>10. \A i \in Index(K) : i < n => Complete(table, PageOf(K, i))
  <2>. SUFFICES ASSUME NEW i \in Index(K), i < n PROVE Complete(table, PageOf(K, i))
    OBVIOUS
  <2>1. i \in Nat /\ i + 1 \in 1 .. n
    BY <1>6, <1>7, PagesIndexed
  <2>. QED BY <1>5, <1>7, <2>1 DEF PageOf
<1>11. Fine(K, "none", 0) /\ Served(table, cache, K, "none", 0, FALSE)
  <2>1. n <= Len(K.pages)
    BY <1>6, <1>7
  <2>. QED BY <1>4, <1>6, <1>7, <1>9, <1>10, <2>1, Resumed
<1>. DEFINE M == {cur}
<1>12. \A l \in Job : /\ Phase(l)' = "none" /\ Turn(l)' = 0 /\ Drafted(l)' = FALSE
                      /\ Drafted(l) = FALSE
  BY <1>1 DEF Phase, Turn, Drafted, Sampling
<1>13. \A l \in Job \ M : Stays(l)
  <2>. SUFFICES ASSUME NEW l \in Job \ M PROVE Stays(l)
    OBVIOUS
  <2>1. Phase(l) = "none" /\ Turn(l) = 0 /\ job'[l] = job[l]
    BY <1>4, <1>8, OtherPhase
  <2>. QED BY <1>12, <2>1 DEF Stays
<1>14. \A l \in M : JobFine(l)' /\ JobServed(l)'
  <2>. SUFFICES ASSUME NEW l \in {cur} PROVE JobFine(l)' /\ JobServed(l)'
    OBVIOUS
  <2>1. job'[l] = K
    BY <1>1, <1>4, <1>8
  <2>2. Phase(l)' = "none" /\ Turn(l)' = 0 /\ Drafted(l)' = FALSE /\ table' = table /\ cache' = cache
    BY <1>1, <1>12
  <2>3. Fine(job'[l], Phase(l)', Turn(l)')
        /\ Owed(table', cache', job'[l], Phase(l)', Turn(l)', Drafted(l)')
    BY ONLY <1>11, <2>1, <2>2 DEF Owed
  <2>. QED BY <2>3 DEF JobFine, JobServed
<1>15. /\ job' \in [Job -> JobState]
       /\ \A l \in Job : job'[l].pages = job[l].pages
  BY <1>1, <1>4, <1>7, <1>8 DEF J
<1>16. Turns'
  <2>1. \A l \in Job : job'[l].stage = job[l].stage /\ job'[l].fate = job[l].fate
    BY <1>1, <1>2, <1>4, <1>7, <1>8 DEF J
  <2>2. \A l \in Active : job[l].fate = "go"
    BY <1>1 DEF CacheInv, Turns
  <2>3. \A l \in Active' : job'[l].fate = "go"
    BY <2>1, <2>2 DEF Active
  <2>. QED BY <1>1, <2>3 DEF Turns, Sampling
<1>. HIDE DEF M
<1>. QED BY <1>1, <1>2, <1>4, <1>13, <1>14, <1>15, <1>16, QuietStep

-----------------------------------------------------------------------------
(* Prefill.                                                                *)

\* A job with prompt left has all its pages, and those before its position complete.
LEMMA WithPrompt ==
  ASSUME CacheInv, pc = "prefill", NEW j \in Job, job[j].stage = "active", job[j].fate = "go",
         ~ PrefillDone(job[j])
  PROVE  LET J == job[j] IN
         /\ J \in JobState /\ Allocated(table, J)
         /\ J.pos = PageAt(J.pos) * PageSize /\ J.pos < Len(J.ids) /\ J.pos \in Nat
         /\ PageAt(J.pos) \in Nat
         /\ \A i \in Index(J) : i < PageAt(J.pos) => Complete(table, PageOf(J, i))
<1>. DEFINE J == job[j]
            low == ContextPages(J.plen)
<1>1. J \in JobState
  BY DEF CacheInv, Typed
<1>2. Phase(j) = "none" /\ Turn(j) = 0 /\ Drafted(j) = FALSE
  BY DEF Phase, Turn, Drafted, Sampling
<1>3. Fine(J, "none", 0) /\ Owed(table, cache, J, "none", 0, FALSE)
  <2>1. Fine(J, Phase(j), Turn(j)) /\ Owed(table, cache, J, Phase(j), Turn(j), Drafted(j))
    BY DEF CacheInv, JobFine, JobServed
  <2>. QED BY ONLY <1>2, <2>1
<1>4. LiveAs(J, "none")
  BY DEF LiveAs
<1>5. JobOK(J, "none") /\ Served(table, cache, J, "none", 0, FALSE)
  BY <1>3, <1>4 DEF Fine, Owed
<1>6. /\ J.stage = "active" /\ J.fate = "go" /\ ~ PrefillDone(J)
      /\ Untouched(J) /\ Fits(J) /\ Opens(Bos, J.ids)
      /\ Len(J.pages) = TotalPages(J.plen, J.limit)
  BY <1>5 DEF JobOK
<1>7. LowAs(J, "none") = low
  BY <1>6 DEF LowAs
<1>8. NamesTrue(table, J, low) /\ LinksTrue(table, J, low)
      /\ MarksTrue(table, J, "none", 0, RowAs(J, "none", 0, FALSE))
  BY <1>5, <1>7 DEF Served
<1>9. \A i \in Index(J) : /\ i < PageAt(J.pos) => Complete(table, PageOf(J, i))
                          /\ i >= low => table.page[PageOf(J, i)].kv = 0
  BY <1>6, <1>8 DEF MarksTrue
<1>. HIDE DEF J
<1>10. Allotted(table, J)
  BY <1>6, <1>8, <1>9 DEF Allotted, Allot, NamesTrue, LinksTrue
<1>11. Allocated(table, J)
  BY <1>1, <1>6, <1>10 DEF Allocated, Untouched
<1>12. J.pos \in Nat /\ J.pos < Len(J.ids) /\ J.pos % PageSize = 0
  BY <1>1, <1>6, JobFields DEF Untouched
<1>13. J.pos = PageAt(J.pos) * PageSize /\ PageAt(J.pos) \in Nat
  BY <1>12, PageBoundary, Located
<1>. QED BY <1>1, <1>9, <1>11, <1>12, <1>13 DEF J

\* The span of a call: from the first page that is not complete, over pages that are
\* not, up to a page boundary or the last token but one.
Spanned(t, J, skip, span) ==
  /\ skip \in Nat /\ PageAt(J.pos) <= skip /\ skip <= Len(J.pages)
  /\ span.start = skip * PageSize /\ span.end \in Nat
  /\ \A i \in Index(J) : i < skip => Complete(t, PageOf(J, i))
  /\ span.end > span.start =>
       /\ span.end <= Len(J.ids) - 1
       /\ span.end % PageSize = 0 \/ span.end = Len(J.ids) - 1
       /\ \A i \in Index(J) : skip <= i /\ i * PageSize < span.end => ~ Complete(t, PageOf(J, i))

LEMMA SpanFacts ==
  ASSUME NEW t, NEW J, Allocated(t, J), J.pos = PageAt(J.pos) * PageSize, J.pos < Len(J.ids),
         \A i \in Index(J) : i < PageAt(J.pos) => Complete(t, PageOf(J, i)),
         NEW chunk \in Nat
  PROVE  /\ \E skip \in Nat : Spanned(t, J, skip, PrefillSpan(t, J, chunk))
         /\ PrefillSpan(t, J, chunk).start \div PageSize \in Nat
<1>. DEFINE len == Len(J.ids)
            far == ((J.pos + MaxChunk) \div PageSize) * PageSize
            whole == Smaller(far, Len(J.ids) - 1)
            p0 == J.pos \div PageSize
            p1 == CeilDiv(whole, PageSize)
            Done(i) == Complete(t, J.pages[i + 1])
            skip == CHOOSE i \in p0 .. Larger(p0, p1) :
                      /\ \A m \in p0 .. i - 1 : Done(m)
                      /\ i >= p1 \/ ~ Done(i)
            start == IF skip = p0 THEN J.pos ELSE skip * PageSize
            hits == {i \in start \div PageSize .. Minus(p1, 1) : i < p1 /\ Done(i)}
            least == CHOOSE i \in hits : \A m \in hits : i <= m
            until == IF hits = {} THEN whole ELSE least * PageSize
            cut == ((start + chunk) \div PageSize) * PageSize
            end == IF chunk = MaxChunk THEN until ELSE Smaller(until, cut)
            span == PrefillSpan(t, J, chunk)
<1>1. span.start = start /\ span.end = end
  BY DEF PrefillSpan
<1>2. /\ len \in Nat /\ len - 1 \in Nat /\ Len(J.pages) \in Nat /\ J.pos \in Nat
      /\ J \in JobState /\ len <= Len(J.pages) * PageSize /\ Len(J.pages) * PageSize \in Nat
      /\ MaxChunk \in Nat
  BY AllocatedRoom, JobFields, JobsAssumption, Multiples DEF Allocated
<1>. HIDE DEF span
<1>3. p0 = PageAt(J.pos) /\ p0 \in Nat /\ p0 * PageSize = J.pos
  BY <1>2, Located DEF PageAt
<1>4. far \in Nat /\ far % PageSize = 0 /\ J.pos <= far
  <2>. DEFINE a == PageAt(J.pos + MaxChunk)
  <2>1. J.pos + MaxChunk \in Nat /\ J.pos <= J.pos + MaxChunk
    BY <1>2
  <2>2. a \in Nat /\ far = a * PageSize /\ PageAt(J.pos) <= a
    BY <1>2, <2>1, Located, PageAtMonotone DEF PageAt
  <2>. HIDE DEF a
  <2>3. far \in Nat /\ PageAt(far) = a
    BY <2>2, Multiples, PageBoundary
  <2>4. PageAt(J.pos) * PageSize <= far
    BY <1>3, <2>2, <2>3, PageBounds
  <2>. QED BY <1>3, <2>2, <2>3, <2>4, PageBoundary
<1>. HIDE DEF far
<1>5. /\ whole \in Nat /\ whole <= len - 1 /\ J.pos <= whole
      /\ whole % PageSize = 0 \/ whole = len - 1
  <2>1. J.pos <= len - 1
    BY <1>2
  <2>. HIDE DEF len
  <2>. QED BY <1>2, <1>4, <2>1 DEF Smaller, len
<1>. HIDE DEF whole, len
<1>6. /\ p1 \in Nat /\ whole <= p1 * PageSize
      /\ \A i \in Nat : i < p1 <=> i * PageSize < whole
  BY <1>5, Ceiling
<1>. HIDE DEF p0, p1
<1>7. p0 <= p1 /\ p1 <= Len(J.pages)
  <2>1. ~ p1 < p0
    <3>. SUFFICES ASSUME p1 < p0 PROVE FALSE
      OBVIOUS
    <3>. DEFINE a == p1 * PageSize
                b == p0 * PageSize
    <3>1. a + PageSize <= b /\ a \in Nat /\ b \in Nat
      BY <1>3, <1>6, Monotone, Multiples
    <3>2. whole <= a /\ b <= whole
      BY <1>3, <1>5, <1>6
    <3>. HIDE DEF a, b
    <3>. QED BY <1>5, <3>1, <3>2, PageSizeAssumption
  <2>2. ~ Len(J.pages) < p1
    <3>. SUFFICES ASSUME Len(J.pages) < p1 PROVE FALSE
      OBVIOUS
    <3>. DEFINE a == Len(J.pages) * PageSize
    <3>1. a < whole /\ a \in Nat /\ len <= a
      BY <1>2, <1>6
    <3>. HIDE DEF a
    <3>. QED BY <1>2, <1>5, <3>1
  <2>. QED BY <1>2, <1>3, <1>6, <2>1, <2>2
<1>8. skip \in p0 .. p1 /\ (\A m \in p0 .. skip - 1 : Done(m))
  <2>. DEFINE P(i) == (\A m \in p0 .. i - 1 : Done(m)) /\ (i >= p1 \/ ~ Done(i))
              T == {i \in p0 .. p1 : i >= p1 \/ ~ Done(i)}
  <2>1. Larger(p0, p1) = p1
    BY <1>3, <1>6, <1>7 DEF Larger
  <2>2. \E i \in p0 .. p1 : P(i)
    <3>. HIDE DEF Done
    <3>1. p1 \in T
      BY <1>3, <1>6, <1>7
    <3>2. T \in SUBSET Nat /\ T # {}
      BY <1>3, <3>1
    <3>3. PICK i \in T : \A y \in T : i <= y
      <4>. HIDE DEF T
      <4>. QED BY <3>2, LeastNatural
    <3>4. ASSUME NEW m \in p0 .. i - 1 PROVE Done(m)
      <4>1. m \in p0 .. p1 /\ ~ i <= m /\ ~ m >= p1
        BY <1>3, <1>6, <3>3
      <4>2. m \notin T
        BY <3>3, <4>1
      <4>. QED BY <4>1, <4>2
    <3>. QED BY <3>3, <3>4
  <2>3. skip = CHOOSE i \in p0 .. p1 : P(i)
    BY <2>1
  <2>. HIDE DEF P, skip
  <2>4. skip \in p0 .. p1 /\ P(skip)
    BY <2>2, <2>3
  <2>. QED BY <2>4 DEF P
<1>. HIDE DEF skip
<1>9. skip \in Nat /\ skip <= Len(J.pages) /\ p0 <= skip
  BY <1>2, <1>3, <1>6, <1>7, <1>8
<1>10. start = skip * PageSize /\ start \in Nat /\ start \div PageSize = skip
  <2>1. start = skip * PageSize
    BY <1>3
  <2>2. skip * PageSize \in Nat
    BY <1>9, Multiples
  <2>. HIDE DEF start
  <2>3. PageAt(start) = skip
    BY <1>9, <2>1, <2>2, PageBoundary
  <2>. QED BY <2>1, <2>2, <2>3 DEF PageAt
<1>. HIDE DEF start, Done
<1>11. \A i \in Index(J) : i < skip => Complete(t, PageOf(J, i))
  <2>. SUFFICES ASSUME NEW i \in Index(J), i < skip PROVE Complete(t, PageOf(J, i))
    OBVIOUS
  <2>1. i \in Nat
    BY <1>2, PagesIndexed
  <2>2. CASE i < p0
    BY <1>3, <2>2
  <2>3. CASE ~ i < p0
    <3>1. i \in p0 .. skip - 1
      BY <1>3, <1>9, <2>1, <2>3
    <3>. QED BY <1>8, <3>1 DEF Done, PageOf
  <2>. QED BY <2>2, <2>3
<1>12. \A i \in Nat : i \in hits <=> skip <= i /\ i < p1 /\ Done(i)
  <2>. SUFFICES ASSUME NEW i \in Nat PROVE i \in hits <=> skip <= i /\ i < p1 /\ Done(i)
    OBVIOUS
  <2>1. i < p1 => i <= Minus(p1, 1) /\ Minus(p1, 1) \in Nat
    BY <1>6 DEF Minus
  <2>2. i \in hits <=> i \in skip .. Minus(p1, 1) /\ i < p1 /\ Done(i)
    BY <1>10
  <2>. HIDE DEF hits
  <2>. QED BY <1>9, <2>1, <2>2
<1>13. hits \in SUBSET Nat
  <2>1. Minus(p1, 1) \in Nat
    BY <1>6 DEF Minus
  <2>. QED BY <1>9, <1>10, <2>1
<1>. HIDE DEF hits
<1>14. hits # {} => least \in hits /\ \A m \in hits : least <= m
  <2>. SUFFICES ASSUME hits # {} PROVE least \in hits /\ \A m \in hits : least <= m
    OBVIOUS
  <2>1. \E m \in hits : \A y \in hits : m <= y
    BY <1>13, LeastNatural
  <2>. QED BY <2>1
<1>. HIDE DEF least
<1>15. /\ until \in Nat /\ until <= whole
       /\ until % PageSize = 0 \/ until = len - 1
  <2>1. CASE hits = {}
    BY <1>5, <2>1
  <2>2. CASE hits # {}
    <3>1. least \in Nat /\ least < p1 /\ until = least * PageSize
      BY <1>12, <1>13, <1>14, <2>2
    <3>2. until \in Nat /\ until < whole
      BY <1>6, <3>1, Multiples
    <3>3. until % PageSize = 0
      BY <3>1, <3>2, PageBoundary
    <3>. HIDE DEF until
    <3>. QED BY <1>5, <3>2, <3>3
  <2>. QED BY <2>1, <2>2
<1>16. \A i \in Nat : skip <= i /\ i * PageSize < until => ~ Done(i)
  <2>. SUFFICES ASSUME NEW i \in Nat, skip <= i, i * PageSize < until, Done(i) PROVE FALSE
    OBVIOUS
  <2>. DEFINE a == i * PageSize
  <2>1. a \in Nat /\ a < whole
    <3>1. a \in Nat /\ a < until
      BY Multiples
    <3>. HIDE DEF a, until
    <3>. QED BY <1>5, <1>15, <3>1
  <2>2. i \in hits
    BY <1>6, <1>12, <2>1
  <2>3. least \in Nat /\ least <= i /\ until = least * PageSize
    BY <1>13, <1>14, <2>2
  <2>. DEFINE b == least * PageSize
  <2>4. b <= a
    <3>1. least = i \/ least < i
      BY <2>3
    <3>2. least < i => b + PageSize <= a
      BY <2>3, Monotone
    <3>3. b \in Nat /\ (least = i => b = a)
      BY <2>3, Multiples
    <3>. HIDE DEF a, b
    <3>. QED BY <2>1, <3>1, <3>2, <3>3, PageSizeAssumption
  <2>5. a < b
    BY <2>3
  <2>. HIDE DEF a, b
  <2>. QED BY <1>15, <2>1, <2>3, <2>4, <2>5 DEF b
<1>. HIDE DEF until
<1>17. cut \in Nat /\ cut % PageSize = 0
  <2>. DEFINE a == PageAt(start + chunk)
  <2>1. a \in Nat /\ cut = a * PageSize
    <3>1. start + chunk \in Nat
      BY <1>10
    <3>. QED BY <3>1, Located DEF PageAt
  <2>. HIDE DEF a, cut
  <2>2. cut \in Nat
    BY <2>1, Multiples
  <2>. QED BY <2>1, <2>2, PageBoundary
<1>. HIDE DEF cut
<1>18. /\ end \in Nat /\ end <= until
       /\ end % PageSize = 0 \/ end = len - 1
  BY <1>15, <1>17 DEF Smaller
<1>. HIDE DEF end
<1>19. end <= len - 1
  BY <1>2, <1>5, <1>15, <1>18
<1>20. \A i \in Index(J) : skip <= i /\ i * PageSize < end => ~ Complete(t, PageOf(J, i))
  <2>. SUFFICES ASSUME NEW i \in Index(J), skip <= i, i * PageSize < end
                PROVE  ~ Complete(t, PageOf(J, i))
    OBVIOUS
  <2>. DEFINE a == i * PageSize
  <2>1. i \in Nat /\ a \in Nat /\ a < end
    BY <1>2, PagesIndexed, Multiples
  <2>2. a < until
    <3>. HIDE DEF a
    <3>. QED BY <1>15, <1>18, <2>1
  <2>. QED BY <1>16, <2>1, <2>2 DEF Done, PageOf
<1>21. Spanned(t, J, skip, span)
  BY <1>1, <1>3, <1>9, <1>10, <1>11, <1>18, <1>19, <1>20 DEF Spanned, len
<1>. QED BY <1>1, <1>9, <1>10, <1>21 DEF span

\* What Match counts.
LEMMA MatchFacts ==
  ASSUME NEW t, NEW J, NEW q, NEW span, t.page[q].kv \in 0 .. PageSize,
         span.start \in Nat, span.end \in Nat, span.start <= span.end
  PROVE  LET n == Match(t, J, q, span) IN
         /\ n \in Nat /\ n <= t.page[q].kv /\ span.start + n <= span.end
         /\ \A s \in 0 .. n - 1 : t.page[q].toks[s] = J.ids[span.start + s + 1]
<1>. DEFINE Same(i) == t.page[q].toks[i] = J.ids[span.start + i + 1]
            longest == Smaller(t.page[q].kv, span.end - span.start)
            P(n) == (\A i \in 0 .. n - 1 : Same(i)) /\ (n < longest => ~ Same(n))
            T == {n \in 0 .. longest : n < longest => ~ Same(n)}
            n == CHOOSE n \in 0 .. longest : P(n)
<1>1. Match(t, J, q, span) = n
  BY DEF Match
<1>2. longest \in Nat /\ longest <= t.page[q].kv /\ longest <= span.end - span.start
      /\ t.page[q].kv \in Nat
  BY PageSizeAssumption DEF Smaller
<1>. HIDE DEF longest
<1>3. \E m \in 0 .. longest : P(m)
  <2>. HIDE DEF Same
  <2>1. T \in SUBSET Nat /\ longest \in T
    BY <1>2
  <2>2. PICK m \in T : \A y \in T : m <= y
    <3>. HIDE DEF T
    <3>. QED BY <2>1, LeastNatural
  <2>3. ASSUME NEW i \in 0 .. m - 1 PROVE Same(i)
    <3>1. i \in 0 .. longest /\ ~ m <= i /\ i < longest
      BY <1>2, <2>2
    <3>2. i \notin T
      BY <2>2, <3>1
    <3>. QED BY <3>1, <3>2
  <2>. QED BY <2>2, <2>3
<1>4. n \in 0 .. longest /\ P(n)
  <2>. HIDE DEF P
  <2>. QED BY <1>3
<1>. HIDE DEF n
<1>5. n \in Nat /\ n <= t.page[q].kv /\ span.start + n <= span.end
  BY <1>2, <1>4
<1>. QED BY <1>1, <1>4, <1>5

\* A page that follows the same prefix, or none, and begins with the same tokens holds
\* their K/V.
LEMMA CopyHolds ==
  ASSUME NEW t, PagesTyped(t), NEW c, PagesTrue(t, c), NEW J, Allocated(t, J),
         NEW skip \in Index(J), skip <= ContextPages(J.plen), NEW q \in Page,
         t.page[q].prev = LastHash(t, J, skip), NEW n \in Nat, n > 0, n <= t.page[q].kv,
         skip * PageSize + n <= Len(J.ids),
         \A s \in 0 .. n - 1 : t.page[q].toks[s] = J.ids[skip * PageSize + s + 1]
  PROVE  \A s \in 0 .. n - 1 : c[q][s] = SubSeq(J.ids, 1, skip * PageSize + s + 1)
<1>. DEFINE r == t.page[q]
            d == skip * PageSize
            y == J.ids
<1>1. /\ J \in JobState /\ y \in Seq(Token) /\ Len(y) \in Nat /\ Opens(Bos, y) /\ Allotted(t, J)
  BY AllocatedRoom DEF Allocated
<1>2. skip \in Nat /\ d \in Nat /\ d + n <= Len(y)
  BY <1>1, PagesIndexed, Multiples
<1>3. r.kv \in 1 .. PageSize /\ r.kv \in Nat
  <2>1. r.kv \in 0 .. PageSize
    BY RecordFields
  <2>. HIDE DEF r
  <2>2. n <= r.kv
    BY DEF r
  <2>. QED BY <2>1, <2>2, PageSizeAssumption
<1>4. Truth(r.phash, r.prev, r.kv, r.toks, c[q])
  BY DEF PagesTrue, TruePage
<1>5. PICK x, m : HeldOf(x, m, r.phash, r.prev, r.kv, r.toks, c[q])
  <2>. HIDE DEF r
  <2>. QED BY <1>3, <1>4, TruthHeld
<1>. HIDE DEF r, d, y
<1>6. /\ Text(x) /\ x \in Seq(Token) /\ m \in Nat /\ Len(x) \in Nat /\ m + r.kv = Len(x)
      /\ r.prev.base = 0 /\ r.prev # Root => r.prev.toks = SubSeq(x, 1, m)
      /\ \A s \in 0 .. r.kv - 1 : /\ c[q][s] = SubSeq(x, 1, m + s + 1)
                                  /\ r.toks[s] = x[m + s + 1]
  BY <1>3, <1>5 DEF HeldOf, Text
<1>7. m = d /\ \A i \in 1 .. d : x[i] = y[i]
  <2>1. CASE skip = 0
    <3>1. d = 0
      BY <1>2, <2>1, PageSizeAssumption DEF d
    <3>2. 0 \in 0 .. n - 1 /\ 0 \in 0 .. r.kv - 1
      BY <1>3
    <3>3. r.toks[0] = J.ids[skip * PageSize + 0 + 1]
      BY <3>2 DEF r
    <3>4. r.toks[0] = y[1] /\ r.toks[0] = x[m + 1]
      <4>1. skip * PageSize + 0 + 1 = 1
        BY <3>1 DEF d
      <4>2. r.toks[0] = x[m + 0 + 1] /\ m + 0 + 1 = m + 1
        BY <1>6, <3>2
      <4>. QED BY <3>3, <4>1, <4>2 DEF y
    <3>5. y[1] = Bos
      BY <1>1 DEF Opens
    <3>6. ~ m + 1 \in 2 .. Len(x)
      BY <1>6, <3>4, <3>5 DEF Text
    <3>7. m = 0
      BY <1>3, <1>6, <3>6
    <3>. QED BY <3>1, <3>7
  <2>2. CASE skip # 0
    <3>. DEFINE g == t.page[PageOf(J, skip - 1)].phash
    <3>1. skip - 1 \in Index(J) /\ skip - 1 < ContextPages(J.plen) /\ (skip - 1) + 1 = skip
          /\ skip > 0
      <4>1. skip - 1 \in Nat /\ skip < Len(J.pages) /\ Len(J.pages) \in Nat
            /\ ContextPages(J.plen) \in Nat
        BY <1>1, <1>2, <2>2, PagesIndexed, JobFields, AllocatedRoom
      <4>2. skip - 1 < Len(J.pages) /\ skip - 1 < ContextPages(J.plen) /\ (skip - 1) + 1 = skip
        BY <1>2, <2>2, <4>1
      <4>. QED BY <1>1, <1>2, <2>2, <4>1, <4>2, PagesIndexed
    <3>2. r.prev = g
      BY <2>2, <3>1 DEF LastHash, PageOf, r
    <3>3. Allot(t.page[PageOf(J, skip - 1)], J, skip - 1)
      BY <1>1, <3>1 DEF Allotted
    <3>4. g.base = 0 /\ g.toks = SubSeq(y, 1, d)
      BY <3>1, <3>3 DEF Allot, y, d
    <3>5. d \in 0 .. Len(y) /\ d >= 1
      <4>1. d >= 1
        <5>1. 0 * PageSize + PageSize <= d /\ 0 * PageSize = 0
          BY <1>2, <3>1, Monotone, PageSizeAssumption DEF d
        <5>. QED BY <1>2, <5>1, PageSizeAssumption
      <4>. QED BY <1>1, <1>2, <4>1
    <3>. HIDE DEF g
    <3>6. Len(SubSeq(y, 1, d)) = d /\ SubSeq(y, 1, d) # <<>>
      <4>1. Len(SubSeq(y, 1, d)) = d
        BY <1>1, <3>5, Prefix
      <4>. QED BY <3>5, <4>1
    <3>7. g # Root
      BY <3>4, <3>6, RootType
    <3>8. SubSeq(x, 1, m) = SubSeq(y, 1, d)
      BY <1>6, <3>2, <3>4, <3>7
    <3>9. m \in 0 .. Len(x)
      BY <1>3, <1>6
    <3>10. m = d
      <4>1. Len(SubSeq(x, 1, m)) = m
        BY <1>6, <3>9, Prefix
      <4>. QED BY <3>6, <3>8, <4>1
    <3>. QED BY <1>1, <1>6, <3>5, <3>8, <3>9, <3>10, Prefix
  <2>. QED BY <2>1, <2>2
<1>8. ASSUME NEW s \in 0 .. n - 1
      PROVE  c[q][s] = SubSeq(y, 1, d + s + 1)
  <2>. DEFINE e == d + s + 1
  <2>1. s \in Nat /\ e \in Nat /\ e <= Len(x) /\ e <= Len(y) /\ s \in 0 .. r.kv - 1 /\ n <= r.kv
    <3>1. n <= r.kv
      BY DEF r
    <3>. QED BY SMTT(30), <1>2, <1>3, <1>6, <1>7, <3>1
  <2>2. c[q][s] = SubSeq(x, 1, e)
    BY <1>6, <1>7, <2>1
  <2>3. \A i \in 1 .. e : x[i] = y[i]
    <3>. SUFFICES ASSUME NEW i \in 1 .. e PROVE x[i] = y[i]
      OBVIOUS
    <3>1. CASE i <= d
      BY <1>2, <1>7, <3>1
    <3>2. CASE i > d
      <4>1. i - d - 1 \in 0 .. n - 1 /\ i - d - 1 \in 0 .. r.kv - 1 /\ d + (i - d - 1) + 1 = i
        BY <1>2, <1>3, <2>1, <3>2
      <4>2. r.toks[i - d - 1] = y[d + (i - d - 1) + 1]
        BY <4>1 DEF r, y, d
      <4>3. r.toks[i - d - 1] = x[d + (i - d - 1) + 1]
        BY <1>6, <1>7, <4>1
      <4>. QED BY <4>1, <4>2, <4>3
    <3>. QED BY <1>2, <3>1, <3>2
  <2>. HIDE DEF e
  <2>4. SubSeq(x, 1, e) = SubSeq(y, 1, e)
    <3>1. e \in 0 .. Len(x)
      BY <1>6, <2>1
    <3>. QED BY <1>1, <1>6, <2>1, <2>3, <3>1, SamePrefix
  <2>. QED BY <2>2, <2>4 DEF e
<1>. QED BY <1>8 DEF y, d

\* What a call has copied into the first page of its span: the n tokens it shares with
\* page src, the K/V of which is that of the job's own.
Copied(t, c, u, J, skip, n, src) ==
  /\ n \in 0 .. PageSize
  /\ u.page \in [Page -> CachePage]
  /\ \A q \in Page : q # PageOf(J, skip) \/ n = 0 => u.page[q] = t.page[q]
  /\ n > 0 =>
       LET r == u.page[PageOf(J, skip)] IN
       /\ src \in Page
       /\ r.phash = t.page[PageOf(J, skip)].phash /\ r.prev = LastHash(t, J, skip)
       /\ r.kv = n /\ r.saved = None
       /\ \A s \in 0 .. n - 1 : /\ r.toks[s] = J.ids[skip * PageSize + s + 1]
                                /\ c[src][s] = SubSeq(J.ids, 1, skip * PageSize + s + 1)

CopyFrom(t, own, src, n) ==
  [t EXCEPT !.page[own].prev = t.page[src].prev,
            !.page[own].toks = [s \in Slot |-> IF s < n THEN t.page[src].toks[s] ELSE @[s]],
            !.page[own].kv = n,
            !.page[own].saved = None]

LEMMA CopiedFacts ==
  ASSUME NEW t, PagesTyped(t), NEW c, PagesTrue(t, c), NEW J, Allocated(t, J),
         NEW skip \in Index(J), skip <= ContextPages(J.plen),
         NEW span, span.start = skip * PageSize, span.end \in Nat,
         span.start < span.end, span.end <= Len(J.ids) - 1,
         NEW sources, sources = CopySource(t, J, span), NEW src, src = CHOOSE q \in sources : TRUE,
         NEW n, n = IF sources = {} THEN 0 ELSE Match(t, J, src, span),
         NEW own, own = PageOf(J, skip), NEW u,
         u = IF n = 0 THEN t ELSE CopyFrom(t, own, src, n)
  PROVE  Copied(t, c, u, J, skip, n, src) /\ skip * PageSize + n <= span.end
<1>1. /\ J \in JobState /\ J.ids \in Seq(Token) /\ Len(J.ids) \in Nat
  BY AllocatedRoom DEF Allocated
<1>2. skip \in Nat /\ own \in Page /\ skip * PageSize \in Nat /\ t.page[own] \in CachePage
  BY <1>1, PagesIndexed, Multiples, RecordFields
<1>3. span.start \div PageSize = skip
  <2>1. span.start \in Nat /\ span.start = skip * PageSize
    BY <1>2
  <2>. QED BY <1>2, <2>1, PageBoundary DEF PageAt
<1>4. CASE n = 0
  <2>1. u = t /\ t.page \in [Page -> CachePage]
    BY <1>4 DEF PagesTyped
  <2>2. 0 \in 0 .. PageSize
    BY PageSizeAssumption
  <2>3. Copied(t, c, u, J, skip, n, src)
    BY ONLY <1>4, <2>1, <2>2 DEF Copied
  <2>4. skip * PageSize + 0 <= span.end
    BY <1>2
  <2>. QED BY <1>4, <2>3, <2>4
<1>5. CASE n # 0
  <2>1. src \in sources /\ n = Match(t, J, src, span)
    BY SMTT(30), <1>5
  <2>2. src \in Page /\ t.page[src].prev = LastHash(t, J, skip)
    BY <1>3, <2>1 DEF CopySource
  <2>3. /\ t.page[src] \in CachePage /\ t.page[src].kv \in 0 .. PageSize
        /\ t.page[src].prev \in Hash /\ t.page[src].toks \in [Slot -> Token \cup {None}]
    BY <2>2, RecordFields DEF Slot
  <2>4. /\ n \in Nat /\ n <= t.page[src].kv /\ span.start + n <= span.end
        /\ \A s \in 0 .. n - 1 : t.page[src].toks[s] = J.ids[span.start + s + 1]
    <3>1. span.start \in Nat /\ span.start <= span.end
      BY <1>2
    <3>2. LET m == Match(t, J, src, span) IN
          /\ m \in Nat /\ m <= t.page[src].kv /\ span.start + m <= span.end
          /\ \A s \in 0 .. m - 1 : t.page[src].toks[s] = J.ids[span.start + s + 1]
      <4>1. span.end \in Nat
        OBVIOUS
      <4>. QED BY ONLY <2>3, <3>1, <4>1, MatchFacts
    <3>. QED BY ONLY <2>1, <3>2
  <2>. DEFINE d == skip * PageSize
  <2>5. \A s \in 0 .. n - 1 : t.page[src].toks[s] = J.ids[d + s + 1]
    BY <2>4
  <2>6. n > 0 /\ n \in 0 .. PageSize /\ d + n <= span.end /\ d + n <= Len(J.ids)
    <3>. HIDE DEF d
    <3>1. span.start = d /\ d \in Nat
      BY <1>2 DEF d
    <3>. QED BY SMTT(30), <1>1, <1>5, <2>3, <2>4, <3>1, PageSizeAssumption
  <2>7. \A s \in 0 .. n - 1 : c[src][s] = SubSeq(J.ids, 1, d + s + 1)
    <3>1. PagesTyped(t) /\ PagesTrue(t, c) /\ Allocated(t, J)
          /\ skip \in Index(J) /\ skip <= ContextPages(J.plen)
      OBVIOUS
    <3>. QED BY ONLY <2>2, <2>4, <2>5, <2>6, <3>1, CopyHolds
  <2>. HIDE DEF d
  <2>. DEFINE x == [s \in Slot |-> IF s < n THEN t.page[src].toks[s] ELSE t.page[own].toks[s]]
              rec == [t.page[own] EXCEPT !.prev = t.page[src].prev, !.toks = x, !.kv = n,
                                         !.saved = None]
  <2>8. x \in [Slot -> Token \cup {None}]
    <3>1. t.page[own].toks \in [Slot -> Token \cup {None}]
      BY SMTT(30), <1>2, RecordFields DEF Slot
    <3>. QED BY <2>3, <3>1
  <2>9. u = [t EXCEPT !.page = [t.page EXCEPT ![own] = rec]]
    <3>1. u = CopyFrom(t, own, src, n)
      BY <1>5
    <3>2. IsTable(t) /\ t.page \in [Page -> CachePage]
      BY DEF PagesTyped
    <3>3. /\ DOMAIN t = {"page", "referenced", "unreferenced"} /\ DOMAIN t.page = Page
          /\ own \in Page /\ t.page[own] \in CachePage
      BY ONLY <1>2, <3>2 DEF IsTable
    <3>4. DOMAIN t.page[own] = {"phash", "prev", "refs", "serial", "kv", "toks", "saved"}
      BY ONLY <3>3 DEF CachePage
    <3>. DEFINE b == [s \in Slot |-> IF s < n THEN t.page[src].toks[s]
                                     ELSE t.page[own].toks[s]]
                v == t.page[src].prev
    <3>. HIDE DEF b, v
    <3>5. [t EXCEPT !.page[own].prev = v, !.page[own].toks = b,
                    !.page[own].kv = n, !.page[own].saved = None]
            = [t EXCEPT !.page = [t.page EXCEPT ![own] =
                 [t.page[own] EXCEPT !.prev = v, !.toks = b, !.kv = n, !.saved = None]]]
      BY ONLY ZenonT(30), <3>3, <3>4
    <3>6. u = [t EXCEPT !.page[own].prev = v, !.page[own].toks = b,
                        !.page[own].kv = n, !.page[own].saved = None]
      BY ONLY <3>1, <3>3, <3>4 DEF CopyFrom, b, v
    <3>. QED BY ONLY <3>5, <3>6 DEF b, v
  <2>. HIDE DEF x
  <2>10. /\ rec \in CachePage /\ rec.phash = t.page[own].phash /\ rec.prev = t.page[src].prev
         /\ rec.toks = x /\ rec.kv = n /\ rec.saved = None
    BY <1>2, <2>3, <2>6, <2>8 DEF CachePage, Slot
  <2>. HIDE DEF rec
  <2>11. /\ u.page \in [Page -> CachePage] /\ u.page[own] = rec
         /\ \A q \in Page : q # own => u.page[q] = t.page[q]
    <3>1. IsTable(t) /\ t.page \in [Page -> CachePage]
      BY DEF PagesTyped
    <3>. QED BY ONLY <1>2, <2>9, <2>10, <3>1 DEF IsTable
  <2>12. \A s \in 0 .. n - 1 : x[s] = J.ids[d + s + 1]
    <3>. SUFFICES ASSUME NEW s \in 0 .. n - 1 PROVE x[s] = J.ids[d + s + 1]
      OBVIOUS
    <3>1. s \in Slot /\ s < n
      BY SMTT(30), <2>4, <2>6, PageSizeAssumption DEF Slot
    <3>. QED BY <2>5, <3>1 DEF x
  <2>13. Copied(t, c, u, J, skip, n, src)
    <3>1. \A q \in Page : q # PageOf(J, skip) \/ n = 0 => u.page[q] = t.page[q]
      BY <1>5, <2>11
    <3>2. LET r == u.page[PageOf(J, skip)] IN
          /\ src \in Page
          /\ r.phash = t.page[PageOf(J, skip)].phash /\ r.prev = LastHash(t, J, skip)
          /\ r.kv = n /\ r.saved = None
          /\ \A s \in 0 .. n - 1 : /\ r.toks[s] = J.ids[skip * PageSize + s + 1]
                                   /\ c[src][s] = SubSeq(J.ids, 1, skip * PageSize + s + 1)
      BY <2>2, <2>7, <2>10, <2>11, <2>12 DEF d
    <3>. QED BY <2>6, <2>11, <3>1, <3>2 DEF Copied
  <2>. QED BY <2>6, <2>13 DEF d
<1>. QED BY <1>4, <1>5

\* The pages of J are all different.
Distinct(J) == \A i, m \in Index(J) : PageOf(J, i) = PageOf(J, m) => i = m

\* The K/V after a call: n tokens of page src in the first page of the span, and the
\* pass over positions a to b - 1 if it wrote.
CellsOf(c, J, skip, own, src, n, wrote, a, b) ==
  [p \in Page |-> [s \in Slot |->
     IF p = own /\ s < n THEN c[src][s]
     ELSE IF wrote /\ \E i \in skip .. Len(J.pages) - 1 :
               J.pages[i + 1] = p /\ i * PageSize + s \in a .. b - 1
          THEN Context(J, (CHOOSE i \in skip .. Len(J.pages) - 1 :
                             J.pages[i + 1] = p) * PageSize + s)
          ELSE c[p][s]]]

\* The K/V it leaves: of page src before slot n, and of the pass in what it wrote.
CellsTo(c, d, J, skip, src, n, wrote, a, b) ==
  /\ d \in [Page -> [Slot -> Seq(Token)]]
  /\ \A i \in Index(J), s \in Slot : skip <= i =>
       d[PageOf(J, i)][s] =
         IF i = skip /\ s < n THEN c[src][s]
         ELSE IF wrote /\ i * PageSize + s \in a .. b - 1
              THEN SubSeq(J.ids, 1, i * PageSize + s + 1)
              ELSE c[PageOf(J, i)][s]
  /\ \A q \in Page : (\A i \in Index(J) : skip <= i => PageOf(J, i) # q) => d[q] = c[q]

LEMMA CellsAfter ==
  ASSUME NEW J \in JobState, Distinct(J), NEW c \in [Page -> [Slot -> Seq(Token)]],
         NEW skip \in Index(J), NEW n \in Nat, NEW src, n > 0 => src \in Page,
         NEW wrote \in BOOLEAN, NEW a \in Nat, NEW b \in Nat, b <= Len(J.ids)
  PROVE  CellsTo(c, CellsOf(c, J, skip, PageOf(J, skip), src, n, wrote, a, b),
                 J, skip, src, n, wrote, a, b)
<1>. DEFINE own == PageOf(J, skip)
            R == skip .. Len(J.pages) - 1
            d == CellsOf(c, J, skip, own, src, n, wrote, a, b)
            In(p, s) == \E i \in R : J.pages[i + 1] = p /\ i * PageSize + s \in a .. b - 1
            At(p) == CHOOSE i \in R : J.pages[i + 1] = p
<1>1. /\ J.ids \in Seq(Token) /\ Len(J.ids) \in Nat /\ Len(J.pages) \in Nat
      /\ skip \in Nat /\ own \in Page
  BY JobFields, PagesIndexed
<1>2. d = [p \in Page |-> [s \in Slot |->
             IF p = own /\ s < n THEN c[src][s]
             ELSE IF wrote /\ In(p, s) THEN Context(J, At(p) * PageSize + s) ELSE c[p][s]]]
  BY DEF CellsOf
<1>. HIDE DEF d
<1>3. \A i : i \in R <=> i \in Index(J) /\ skip <= i
  BY <1>1 DEF Index
<1>. HIDE DEF R
<1>4. \A i \in R : At(PageOf(J, i)) = i
  <2>. SUFFICES ASSUME NEW i \in R PROVE At(PageOf(J, i)) = i
    OBVIOUS
  <2>. DEFINE m == At(PageOf(J, i))
  <2>1. m \in R /\ J.pages[m + 1] = PageOf(J, i)
    BY DEF PageOf
  <2>. HIDE DEF m
  <2>2. m \in Index(J) /\ i \in Index(J) /\ PageOf(J, m) = PageOf(J, i)
    BY <1>3, <2>1 DEF PageOf
  <2>3. m = i
    BY <2>2 DEF Distinct
  <2>. QED BY <2>3 DEF m
<1>5. \A i \in R : \A s : In(PageOf(J, i), s) <=> i * PageSize + s \in a .. b - 1
  <2>. SUFFICES ASSUME NEW i \in R, NEW s
                PROVE  In(PageOf(J, i), s) <=> i * PageSize + s \in a .. b - 1
    OBVIOUS
  <2>1. ASSUME NEW m \in R, J.pages[m + 1] = PageOf(J, i) PROVE m = i
    <3>1. m \in Index(J) /\ i \in Index(J) /\ PageOf(J, m) = PageOf(J, i)
      BY <1>3, <2>1 DEF PageOf
    <3>. QED BY <3>1 DEF Distinct
  <2>2. J.pages[i + 1] = PageOf(J, i)
    BY DEF PageOf
  <2>. QED BY <2>1, <2>2
<1>. HIDE DEF At, In
<1>6. \A i \in Index(J), s \in Slot : skip <= i =>
        d[PageOf(J, i)][s] =
          IF i = skip /\ s < n THEN c[src][s]
          ELSE IF wrote /\ i * PageSize + s \in a .. b - 1
               THEN SubSeq(J.ids, 1, i * PageSize + s + 1)
               ELSE c[PageOf(J, i)][s]
  <2>. SUFFICES ASSUME NEW i \in Index(J), NEW s \in Slot, skip <= i
                PROVE  d[PageOf(J, i)][s] =
                         IF i = skip /\ s < n THEN c[src][s]
                         ELSE IF wrote /\ i * PageSize + s \in a .. b - 1
                              THEN SubSeq(J.ids, 1, i * PageSize + s + 1)
                              ELSE c[PageOf(J, i)][s]
    OBVIOUS
  <2>1. PageOf(J, i) \in Page /\ i \in R
    BY <1>3, PagesIndexed
  <2>2. PageOf(J, i) = own <=> i = skip
    BY DEF Distinct
  <2>3. d[PageOf(J, i)][s] =
          IF PageOf(J, i) = own /\ s < n THEN c[src][s]
          ELSE IF wrote /\ In(PageOf(J, i), s)
               THEN Context(J, At(PageOf(J, i)) * PageSize + s) ELSE c[PageOf(J, i)][s]
    <3>. HIDE DEF own
    <3>. QED BY <1>2, <2>1
  <2>4. /\ At(PageOf(J, i)) = i
        /\ In(PageOf(J, i), s) <=> i * PageSize + s \in a .. b - 1
    BY <1>4, <1>5, <2>1
  <2>. HIDE DEF own
  <2>. QED BY ONLY <2>2, <2>3, <2>4 DEF Context
<1>7. \A q \in Page : (\A i \in Index(J) : skip <= i => PageOf(J, i) # q) => d[q] = c[q]
  <2>. SUFFICES ASSUME NEW q \in Page, \A i \in Index(J) : skip <= i => PageOf(J, i) # q
                PROVE  d[q] = c[q]
    OBVIOUS
  <2>1. q # own
    BY <1>1
  <2>2. \A s : ~ In(q, s)
    BY <1>3 DEF In, PageOf
  <2>3. d[q] = [s \in Slot |-> c[q][s]]
    BY <1>2, <2>1, <2>2
  <2>. QED BY <2>3
<1>8. d \in [Page -> [Slot -> Seq(Token)]]
  <2>1. d = [p \in Page |-> d[p]] /\ \A p \in Page : d[p] = [s \in Slot |-> d[p][s]]
    BY <1>2
  <2>2. ASSUME NEW p \in Page, NEW s \in Slot PROVE d[p][s] \in Seq(Token)
    <3>1. CASE \A i \in Index(J) : skip <= i => PageOf(J, i) # p
      BY <1>7, <3>1
    <3>2. CASE \E i \in Index(J) : skip <= i /\ PageOf(J, i) = p
      <4>1. PICK i \in Index(J) : skip <= i /\ PageOf(J, i) = p
        BY <3>2
      <4>. DEFINE e == i * PageSize + s
      <4>2. d[p][s] = IF i = skip /\ s < n THEN c[src][s]
                      ELSE IF wrote /\ e \in a .. b - 1 THEN SubSeq(J.ids, 1, e + 1)
                           ELSE c[p][s]
        BY <1>6, <4>1
      <4>3. e \in Nat
        <5>1. i \in Nat
          BY PagesIndexed
        <5>. QED BY <5>1, Locating
      <4>. HIDE DEF e
      <4>4. n > 0 => c[src][s] \in Seq(Token)
        OBVIOUS
      <4>5. CASE i = skip /\ s < n
        <5>1. n > 0
          BY <4>5, PageSizeAssumption DEF Slot
        <5>. QED BY <4>2, <4>4, <4>5, <5>1
      <4>6. CASE ~ (i = skip /\ s < n) /\ wrote /\ e \in a .. b - 1
        <5>1. e + 1 \in 0 .. Len(J.ids)
          BY <1>1, <4>3, <4>6
        <5>2. SubSeq(J.ids, 1, e + 1) \in Seq(Token)
          BY <1>1, <5>1, Prefix
        <5>. QED BY <4>2, <4>6, <5>2
      <4>7. CASE ~ (i = skip /\ s < n) /\ ~ (wrote /\ e \in a .. b - 1)
        <5>1. d[p][s] = c[p][s]
          BY <4>2, <4>7
        <5>. QED BY <5>1
      <4>. QED BY <4>5, <4>6, <4>7
    <3>. QED BY <3>1, <3>2
  <2>3. \A p \in Page : d[p] \in [Slot -> Seq(Token)]
    BY ONLY <2>1, <2>2
  <2>. QED BY ONLY <2>1, <2>3
<1>9. CellsTo(c, d, J, skip, src, n, wrote, a, b)
  BY <1>6, <1>7, <1>8 DEF CellsTo
<1>. QED BY <1>9 DEF d, own

\* The page metadata after a pass over positions a to e - 1.
PassTo(t, u, J, skip, a, e) ==
  /\ u.page \in [Page -> CachePage]
  /\ \A i \in Index(J) : skip <= i /\ i <= PageAt(e) =>
       LET r == u.page[PageOf(J, i)] IN
       /\ r.phash = t.page[PageOf(J, i)].phash /\ r.prev = LastHash(t, J, i)
       /\ r.kv = FillMark(e, i) /\ r.saved = None
       /\ \A s \in Slot :
            r.toks[s] = IF a <= i * PageSize + s /\ i * PageSize + s < e
                        THEN J.ids[i * PageSize + s + 1]
                        ELSE t.page[PageOf(J, i)].toks[s]
  /\ \A q \in Page :
       (\A i \in Index(J) : skip <= i /\ i <= PageAt(e) => PageOf(J, i) # q) =>
          u.page[q] = t.page[q]

LEMMA IngestedPages ==
  ASSUME NEW t, PagesTyped(t), NEW J \in JobState, Distinct(J), NEW skip \in Index(J),
         NEW rest, rest.start \in Nat, rest.end \in Nat, rest.end <= Len(J.ids)
  PROVE  PassTo(t, Ingested(t, J, skip, rest), J, skip, rest.start, rest.end)
<1>. DEFINE u == Ingested(t, J, skip, rest)
            R == skip .. Smaller(rest.end \div PageSize + 1, Len(J.pages)) - 1
            At(p) == CHOOSE i \in R : J.pages[i + 1] = p
            In(p) == \E i \in R : J.pages[i + 1] = p
            Toks(i, p) == [s \in Slot |->
                             IF rest.start <= i * PageSize + s /\ i * PageSize + s < rest.end
                             THEN J.ids[i * PageSize + s + 1] ELSE t.page[p].toks[s]]
            New(i, p) == [t.page[p] EXCEPT !.kv = FillMark(rest.end, i),
                                           !.prev = LastHash(t, J, i),
                                           !.toks = Toks(i, p), !.saved = None]
<1>1. /\ J.ids \in Seq(Token) /\ Len(J.ids) \in Nat /\ Len(J.pages) \in Nat /\ skip \in Nat
      /\ PageAt(rest.end) \in Nat /\ t.page \in [Page -> CachePage] /\ IsTable(t)
  BY JobFields, PagesIndexed, Located DEF PagesTyped
<1>2. u.page = [p \in Page |-> IF In(p) THEN New(At(p), p) ELSE t.page[p]]
  <2>1. u = [t EXCEPT !.page = [p \in Page |-> IF In(p) THEN New(At(p), p) ELSE t.page[p]]]
    BY DEF Ingested
  <2>. HIDE DEF u, In, New, At
  <2>. QED BY <1>1, <2>1 DEF IsTable
<1>. HIDE DEF u
<1>3. \A i : i \in R <=> i \in Index(J) /\ skip <= i /\ i <= PageAt(rest.end)
  <2>. DEFINE e == PageAt(rest.end)
              N == Len(J.pages)
  <2>1. R = skip .. Smaller(e + 1, N) - 1 /\ Index(J) = 0 .. N - 1
    BY DEF PageAt, Index
  <2>2. e \in Nat /\ N \in Nat /\ skip \in Nat
    BY <1>1
  <2>. HIDE DEF R, e, N
  <2>3. \A i : i \in R <=> i \in Index(J) /\ skip <= i /\ i <= e
    BY ONLY <2>1, <2>2 DEF Smaller
  <2>. QED BY <2>3 DEF e
<1>. HIDE DEF R
<1>4. \A i \in R : /\ In(PageOf(J, i)) /\ At(PageOf(J, i)) = i /\ i \in Nat
                   /\ PageOf(J, i) \in Page
  <2>. SUFFICES ASSUME NEW i \in R
                PROVE  /\ In(PageOf(J, i)) /\ At(PageOf(J, i)) = i /\ i \in Nat
                       /\ PageOf(J, i) \in Page
    OBVIOUS
  <2>. DEFINE m == At(PageOf(J, i))
  <2>1. m \in R /\ J.pages[m + 1] = PageOf(J, i) /\ In(PageOf(J, i))
    BY DEF PageOf
  <2>. HIDE DEF m
  <2>2. m \in Index(J) /\ i \in Index(J) /\ PageOf(J, m) = PageOf(J, i)
    BY <1>3, <2>1 DEF PageOf
  <2>3. m = i
    BY <2>2 DEF Distinct
  <2>. QED BY <2>1, <2>2, <2>3, PagesIndexed DEF m
<1>5. \A q \in Page :
        (\A i \in Index(J) : skip <= i /\ i <= PageAt(rest.end) => PageOf(J, i) # q) =>
           ~ In(q)
  BY <1>3 DEF PageOf
<1>6. \A i \in R, p \in Page :
        /\ New(i, p) \in CachePage /\ New(i, p).phash = t.page[p].phash
        /\ New(i, p).prev = LastHash(t, J, i) /\ New(i, p).kv = FillMark(rest.end, i)
        /\ New(i, p).saved = None /\ New(i, p).toks = Toks(i, p)
  <2>. SUFFICES ASSUME NEW i \in R, NEW p \in Page
                PROVE  /\ New(i, p) \in CachePage /\ New(i, p).phash = t.page[p].phash
                       /\ New(i, p).prev = LastHash(t, J, i) /\ New(i, p).kv = FillMark(rest.end, i)
                       /\ New(i, p).saved = None /\ New(i, p).toks = Toks(i, p)
    OBVIOUS
  <2>1. i \in Nat /\ i \in Index(J) /\ t.page[p] \in CachePage
        /\ t.page[p].toks \in [Slot -> Token \cup {None}]
    BY <1>1, <1>3, <1>4, RecordFields DEF Slot
  <2>2. LastHash(t, J, i) \in Hash
    <3>1. CASE i = 0
      BY <3>1, RootType DEF LastHash
    <3>2. CASE i # 0
      <4>1. i - 1 \in Nat /\ i - 1 < Len(J.pages) /\ (i - 1) + 1 = i
        BY <1>1, <2>1, <3>2, PagesIndexed
      <4>2. PageOf(J, i - 1) \in Page /\ J.pages[i] = PageOf(J, i - 1)
        BY <4>1, PagesIndexed DEF PageOf
      <4>. QED BY <3>2, <4>2, RecordFields DEF LastHash
    <3>. QED BY <3>1, <3>2
  <2>3. FillMark(rest.end, i) \in 0 .. PageSize
    BY <2>1, FillMarks
  <2>4. Toks(i, p) \in [Slot -> Token \cup {None}]
    <3>1. ASSUME NEW s \in Slot, i * PageSize + s < rest.end
          PROVE  J.ids[i * PageSize + s + 1] \in Token
      <4>. DEFINE e == i * PageSize + s
      <4>1. e \in Nat /\ e < rest.end
        BY <2>1, <3>1, Locating
      <4>. HIDE DEF e
      <4>2. e + 1 \in 1 .. Len(J.ids)
        BY <1>1, <4>1
      <4>3. J.ids[e + 1] \in Token
        BY <1>1, <4>2
      <4>. QED BY <4>3 DEF e
    <3>. QED BY <2>1, <3>1
  <2>. HIDE DEF Toks
  <2>. QED BY ONLY <2>1, <2>2, <2>3, <2>4 DEF CachePage, Slot
<1>7. \A q \in Page : In(q) => At(q) \in R
  BY DEF In, At
<1>8. u.page \in [Page -> CachePage]
  <2>. HIDE DEF In, At, New
  <2>1. \A p \in Page : In(p) => New(At(p), p) \in CachePage
    BY <1>6, <1>7
  <2>2. \A p \in Page : t.page[p] \in CachePage
    BY <1>1
  <2>. QED BY ONLY <1>2, <2>1, <2>2
<1>9. \A q \in Page :
        (\A i \in Index(J) : skip <= i /\ i <= PageAt(rest.end) => PageOf(J, i) # q) =>
          u.page[q] = t.page[q]
  <2>. HIDE DEF In, At, New
  <2>. QED BY <1>2, <1>5
<1>10. ASSUME NEW i \in Index(J), skip <= i, i <= PageAt(rest.end)
       PROVE  LET r == u.page[PageOf(J, i)] IN
              /\ r.phash = t.page[PageOf(J, i)].phash /\ r.prev = LastHash(t, J, i)
              /\ r.kv = FillMark(rest.end, i) /\ r.saved = None
              /\ \A s \in Slot :
                   r.toks[s] = IF rest.start <= i * PageSize + s /\ i * PageSize + s < rest.end
                               THEN J.ids[i * PageSize + s + 1]
                               ELSE t.page[PageOf(J, i)].toks[s]
  <2>. DEFINE p == PageOf(J, i)
  <2>1. i \in R /\ p \in Page /\ In(p) /\ At(p) = i
    <3>1. i \in R
      BY <1>3, <1>10
    <3>. HIDE DEF In, At
    <3>. QED BY <1>4, <3>1
  <2>. HIDE DEF p
  <2>2. u.page[p] = New(i, p)
    <3>. HIDE DEF In, At, New
    <3>. QED BY <1>2, <2>1
  <2>3. /\ u.page[p].phash = t.page[p].phash
        /\ u.page[p].prev = LastHash(t, J, i) /\ u.page[p].kv = FillMark(rest.end, i)
        /\ u.page[p].saved = None /\ u.page[p].toks = Toks(i, p)
    <3>. HIDE DEF New, Toks
    <3>. QED BY <1>6, <2>1, <2>2
  <2>4. \A s \in Slot : Toks(i, p)[s] =
          IF rest.start <= i * PageSize + s /\ i * PageSize + s < rest.end
          THEN J.ids[i * PageSize + s + 1] ELSE t.page[p].toks[s]
    OBVIOUS
  <2>. QED BY <2>3, <2>4 DEF p
<1>11. PassTo(t, u, J, skip, rest.start, rest.end)
  BY <1>8, <1>9, <1>10 DEF PassTo
<1>. QED BY <1>11 DEF u

\* Page i of J holds its part of the job's first e tokens.
Computed(t, u, d, J, i, e) ==
  LET q == PageOf(J, i) IN
  /\ u.page[q].phash = t.page[q].phash /\ u.page[q].prev = LastHash(t, J, i)
  /\ u.page[q].kv = FillMark(e, i) /\ u.page[q].saved = None
  /\ \A s \in Slot : i * PageSize + s < e =>
       /\ d[q][s] = SubSeq(J.ids, 1, i * PageSize + s + 1)
       /\ u.page[q].toks[s] = J.ids[i * PageSize + s + 1]

\* A call of prefill has brought the job's pages, from page skip on, to e tokens.
PrefillTo(t, c, u, d, J, skip, e) ==
  /\ u.page \in [Page -> CachePage]
  /\ d \in [Page -> [Slot -> Seq(Token)]]
  /\ \A i \in Index(J) : skip <= i /\ i * PageSize < e => Computed(t, u, d, J, i, e)
  /\ \A q \in Page :
       \/ u.page[q] = t.page[q] /\ d[q] = c[q]
       \/ \E i \in Index(J) : /\ PageOf(J, i) = q /\ skip <= i /\ i * PageSize <= e
                              /\ Computed(t, u, d, J, i, e)

\* A call that only copies.
LEMMA CopyOnly ==
  ASSUME NEW t, NEW c \in [Page -> [Slot -> Seq(Token)]], NEW J \in JobState, Distinct(J),
         NEW skip \in Index(J), NEW u, NEW n, NEW src, Copied(t, c, u, J, skip, n, src),
         NEW d, NEW wrote, NEW a \in Nat, NEW b \in Nat, ~ wrote \/ b <= a,
         CellsTo(c, d, J, skip, src, n, wrote, a, b)
  PROVE  PrefillTo(t, c, u, d, J, skip, skip * PageSize + n)
<1>. DEFINE own == PageOf(J, skip)
            z == skip * PageSize
            e == z + n
<1>1. skip \in Nat /\ own \in Page /\ z \in Nat /\ n \in Nat /\ n <= PageSize /\ e \in Nat
  BY PagesIndexed, Multiples, PageSizeAssumption DEF Copied
<1>2. \A i \in Index(J), s \in Slot : skip <= i =>
        d[PageOf(J, i)][s] = IF i = skip /\ s < n THEN c[src][s] ELSE c[PageOf(J, i)][s]
  BY DEF CellsTo
<1>3. \A q \in Page : q # own => d[q] = c[q]
  <2>. SUFFICES ASSUME NEW q \in Page, q # own PROVE d[q] = c[q]
    OBVIOUS
  <2>1. CASE \A i \in Index(J) : skip <= i => PageOf(J, i) # q
    BY <2>1 DEF CellsTo
  <2>2. CASE \E i \in Index(J) : skip <= i /\ PageOf(J, i) = q
    <3>1. PICK i \in Index(J) : skip <= i /\ PageOf(J, i) = q
      BY <2>2
    <3>2. i # skip
      BY <3>1
    <3>3. \A s \in Slot : d[q][s] = c[q][s]
      BY <1>2, <3>1, <3>2
    <3>4. d[q] \in [Slot -> Seq(Token)] /\ c[q] \in [Slot -> Seq(Token)]
      BY DEF CellsTo
    <3>. QED BY <3>3, <3>4
  <2>. QED BY <2>1, <2>2
<1>4. n = 0 => d[own] = c[own]
  <2>. SUFFICES ASSUME n = 0 PROVE d[own] = c[own]
    OBVIOUS
  <2>1. \A s \in Slot : ~ s < n
    BY PageSizeAssumption DEF Slot
  <2>2. \A s \in Slot : d[own][s] = c[own][s]
    BY <1>1, <1>2, <2>1
  <2>3. d[own] \in [Slot -> Seq(Token)] /\ c[own] \in [Slot -> Seq(Token)]
    BY <1>1 DEF CellsTo
  <2>. QED BY <2>2, <2>3
<1>5. \A q \in Page : q # own \/ n = 0 => u.page[q] = t.page[q] /\ d[q] = c[q]
  BY <1>3, <1>4 DEF Copied
<1>6. n > 0 => Computed(t, u, d, J, skip, e)
  <2>. SUFFICES ASSUME n > 0 PROVE Computed(t, u, d, J, skip, e)
    OBVIOUS
  <2>1. /\ u.page[own].phash = t.page[own].phash /\ u.page[own].prev = LastHash(t, J, skip)
        /\ u.page[own].kv = n /\ u.page[own].saved = None
        /\ \A s \in 0 .. n - 1 : /\ u.page[own].toks[s] = J.ids[z + s + 1]
                                 /\ c[src][s] = SubSeq(J.ids, 1, z + s + 1)
    BY DEF Copied
  <2>2. FillMark(e, skip) = n
    <3>1. Minus(e, z) = n
      BY <1>1 DEF Minus
    <3>. QED BY <1>1, <3>1, PageSizeAssumption DEF FillMark, Smaller
  <2>3. ASSUME NEW s \in Slot, z + s < e
        PROVE  d[own][s] = SubSeq(J.ids, 1, z + s + 1) /\ u.page[own].toks[s] = J.ids[z + s + 1]
    <3>1. s \in 0 .. n - 1 /\ s < n
      <4>. HIDE DEF z
      <4>. QED BY <1>1, <2>3, PageSizeAssumption DEF Slot
    <3>2. d[own][s] = c[src][s]
      BY <1>1, <1>2, <3>1
    <3>. QED BY <2>1, <3>1, <3>2
  <2>. QED BY <2>1, <2>2, <2>3 DEF Computed
<1>7. \A i \in Index(J) : skip <= i /\ i * PageSize < e => i = skip /\ n > 0
  <2>. SUFFICES ASSUME NEW i \in Index(J), skip <= i, i * PageSize < e PROVE i = skip /\ n > 0
    OBVIOUS
  <2>. DEFINE y == i * PageSize
  <2>1. i \in Nat /\ y \in Nat /\ y < e /\ (skip < i => z + PageSize <= y) /\ (i = skip => y = z)
    BY <1>1, PagesIndexed, Multiples, Monotone
  <2>. HIDE DEF y, z
  <2>. QED BY <1>1, <2>1, PageSizeAssumption
<1>8. u.page \in [Page -> CachePage] /\ d \in [Page -> [Slot -> Seq(Token)]]
  BY DEF Copied, CellsTo
<1>9. ASSUME NEW q \in Page
      PROVE  \/ u.page[q] = t.page[q] /\ d[q] = c[q]
             \/ \E i \in Index(J) : /\ PageOf(J, i) = q /\ skip <= i /\ i * PageSize <= e
                                    /\ Computed(t, u, d, J, i, e)
  <2>1. CASE q # own \/ n = 0
    BY <1>5, <2>1
  <2>2. CASE q = own /\ n # 0
    <3>1. n > 0 /\ skip <= skip /\ z <= e
      <4>. HIDE DEF z
      <4>. QED BY <1>1, <2>2
    <3>. QED BY <1>6, <2>2, <3>1
  <2>. QED BY <2>1, <2>2
<1>. HIDE DEF e
<1>10. PrefillTo(t, c, u, d, J, skip, e)
  BY <1>6, <1>7, <1>8, <1>9 DEF PrefillTo
<1>. QED BY <1>10 DEF e

\* A call that copies, or not, and then computes.
LEMMA CopyAndPass ==
  ASSUME NEW t, NEW c \in [Page -> [Slot -> Seq(Token)]], NEW J \in JobState, Distinct(J),
         NEW skip \in Index(J), NEW u, NEW n, NEW src, Copied(t, c, u, J, skip, n, src),
         NEW a, a = skip * PageSize + n, NEW e \in Nat, a < e,
         NEW d, CellsTo(c, d, J, skip, src, n, TRUE, a, e),
         NEW v, PassTo(u, v, J, skip, a, e)
  PROVE  PrefillTo(t, c, v, d, J, skip, e)
<1>. DEFINE own == PageOf(J, skip)
            z == skip * PageSize
<1>1. skip \in Nat /\ own \in Page /\ z \in Nat /\ n \in Nat /\ n <= PageSize /\ a = z + n
      /\ a \in Nat /\ PageAt(e) \in Nat
  <2>1. skip \in Nat /\ own \in Page /\ z \in Nat
    BY PagesIndexed, Multiples
  <2>2. n \in Nat /\ n <= PageSize
    BY PageSizeAssumption DEF Copied
  <2>3. a = z + n
    OBVIOUS
  <2>4. a \in Nat
    <3>. HIDE DEF z
    <3>. QED BY <2>1, <2>2, <2>3
  <2>5. PageAt(e) \in Nat
    BY Located
  <2>. QED BY <2>1, <2>2, <2>3, <2>4, <2>5
<1>2. \A i \in Index(J) : /\ i \in Nat /\ PageOf(J, i) \in Page
                          /\ u.page[PageOf(J, i)].phash = t.page[PageOf(J, i)].phash
                          /\ LastHash(u, J, i) = LastHash(t, J, i)
  <2>1. \A i \in Index(J) : i \in Nat /\ PageOf(J, i) \in Page
                            /\ (i > 0 => i - 1 \in Index(J) /\ J.pages[i] = PageOf(J, i - 1))
    <3>. SUFFICES ASSUME NEW i \in Index(J)
                  PROVE  i \in Nat /\ PageOf(J, i) \in Page
                         /\ (i > 0 => i - 1 \in Index(J) /\ J.pages[i] = PageOf(J, i - 1))
      OBVIOUS
    <3>1. i \in Nat /\ PageOf(J, i) \in Page /\ i < Len(J.pages) /\ Len(J.pages) \in Nat
      BY PagesIndexed, JobFields
    <3>2. i > 0 => i - 1 \in Nat /\ i - 1 < Len(J.pages) /\ (i - 1) + 1 = i
      BY <3>1
    <3>. QED BY <3>1, <3>2, PagesIndexed DEF PageOf
  <2>2. \A q \in Page : u.page[q].phash = t.page[q].phash
    <3>. SUFFICES ASSUME NEW q \in Page PROVE u.page[q].phash = t.page[q].phash
      OBVIOUS
    <3>1. CASE q # own \/ n = 0
      BY <3>1 DEF Copied
    <3>2. CASE q = own /\ n > 0
      BY <3>2 DEF Copied
    <3>. QED BY <1>1, <3>1, <3>2
  <2>. QED BY <2>1, <2>2 DEF LastHash
<1>3. ASSUME NEW i \in Index(J), skip <= i, i <= PageAt(e)
      PROVE  Computed(t, v, d, J, i, e)
  <2>. DEFINE q == PageOf(J, i)
              y == i * PageSize
  <2>1. /\ v.page[q].phash = t.page[q].phash /\ v.page[q].prev = LastHash(t, J, i)
        /\ v.page[q].kv = FillMark(e, i) /\ v.page[q].saved = None
        /\ \A s \in Slot :
             v.page[q].toks[s] = IF a <= y + s /\ y + s < e
                                 THEN J.ids[y + s + 1] ELSE u.page[q].toks[s]
    BY <1>2, <1>3 DEF PassTo
  <2>2. \A s \in Slot :
          d[q][s] = IF i = skip /\ s < n THEN c[src][s]
                    ELSE IF y + s \in a .. e - 1 THEN SubSeq(J.ids, 1, y + s + 1)
                         ELSE c[q][s]
    BY <1>3 DEF CellsTo
  <2>3. /\ i \in Nat /\ y \in Nat /\ (i = skip => y = z) /\ (skip < i => z + PageSize <= y)
    BY <1>1, <1>2, Multiples, Monotone
  <2>4. ASSUME NEW s \in Slot, y + s < e
        PROVE  d[q][s] = SubSeq(J.ids, 1, y + s + 1) /\ v.page[q].toks[s] = J.ids[y + s + 1]
    <3>. HIDE DEF q, y, z
    <3>1. s \in Nat
      BY PageSizeAssumption DEF Slot
    <3>2. CASE i = skip /\ s < n
      <4>1. s \in 0 .. n - 1 /\ n > 0 /\ ~ a <= y + s /\ y = z /\ q = own
        BY <1>1, <2>3, <3>1, <3>2 DEF q
      <4>2. /\ u.page[own].toks[s] = J.ids[z + s + 1]
            /\ c[src][s] = SubSeq(J.ids, 1, z + s + 1)
        BY <4>1 DEF Copied, z
      <4>. QED BY <2>1, <2>2, <3>2, <4>1, <4>2
    <3>3. CASE ~ (i = skip /\ s < n)
      <4>1. a <= y + s
        <5>1. CASE i = skip
          BY <1>1, <2>3, <3>1, <3>3, <5>1
        <5>2. CASE i # skip
          BY <1>1, <1>3, <2>3, <3>1, <5>2, PageSizeAssumption
        <5>. QED BY <5>1, <5>2
      <4>2. y + s \in a .. e - 1
        BY <1>1, <2>3, <2>4, <3>1, <4>1
      <4>. QED BY <2>1, <2>2, <2>4, <3>3, <4>1, <4>2
    <3>. QED BY <3>2, <3>3
  <2>. QED BY <2>1, <2>4 DEF Computed
<1>4. \A i \in Index(J) : i <= PageAt(e) <=> i * PageSize <= e
  BY <1>2, PageBounds
<1>5. \A i \in Index(J) : skip <= i /\ i * PageSize < e => Computed(t, v, d, J, i, e)
  <2>. SUFFICES ASSUME NEW i \in Index(J), skip <= i, i * PageSize < e
                PROVE  Computed(t, v, d, J, i, e)
    OBVIOUS
  <2>1. i * PageSize <= e
    <3>. DEFINE y == i * PageSize
    <3>1. y \in Nat /\ y < e
      BY <1>2, Multiples
    <3>. HIDE DEF y
    <3>2. y <= e
      BY <3>1
    <3>. QED BY <3>2 DEF y
  <2>. QED BY <1>3, <1>4, <2>1
<1>6. ASSUME NEW q \in Page
      PROVE  \/ v.page[q] = t.page[q] /\ d[q] = c[q]
             \/ \E i \in Index(J) : /\ PageOf(J, i) = q /\ skip <= i /\ i * PageSize <= e
                                    /\ Computed(t, v, d, J, i, e)
  <2>1. CASE \E i \in Index(J) : PageOf(J, i) = q /\ skip <= i /\ i <= PageAt(e)
    BY <1>3, <1>4, <2>1
  <2>2. CASE \A i \in Index(J) : skip <= i /\ i <= PageAt(e) => PageOf(J, i) # q
    <3>1. v.page[q] = u.page[q]
      BY <2>2 DEF PassTo
    <3>2. skip \in Index(J) /\ skip <= PageAt(e)
      <4>1. z <= e
        <5>. HIDE DEF z
        <5>. QED BY <1>1
      <4>. QED BY <1>1, <4>1, PageBounds
    <3>3. q # own
      BY <1>1, <2>2, <3>2
    <3>4. u.page[q] = t.page[q]
      BY <3>3 DEF Copied
    <3>5. d[q] = c[q]
      <4>1. CASE \A i \in Index(J) : skip <= i => PageOf(J, i) # q
        BY <4>1 DEF CellsTo
      <4>2. CASE \E i \in Index(J) : skip <= i /\ PageOf(J, i) = q
        <5>1. PICK i \in Index(J) : skip <= i /\ PageOf(J, i) = q
          BY <4>2
        <5>. DEFINE y == i * PageSize
        <5>2. i \in Nat /\ ~ y <= e /\ y \in Nat /\ i # skip
          BY <1>2, <1>4, <2>2, <3>3, <5>1, Multiples
        <5>3. \A s \in Slot : ~ y + s \in a .. e - 1
          <6>. HIDE DEF y
          <6>. QED BY <1>1, <5>2, PageSizeAssumption DEF Slot
        <5>4. \A s \in Slot : d[q][s] = c[q][s]
          BY <5>1, <5>2, <5>3 DEF CellsTo
        <5>5. d[q] \in [Slot -> Seq(Token)] /\ c[q] \in [Slot -> Seq(Token)]
          BY DEF CellsTo
        <5>. QED BY <5>4, <5>5
      <4>. QED BY <4>1, <4>2
    <3>. QED BY <3>1, <3>4, <3>5
  <2>. QED BY <2>1, <2>2
<1>7. v.page \in [Page -> CachePage] /\ d \in [Page -> [Slot -> Seq(Token)]]
  BY DEF PassTo, CellsTo
<1>. QED BY <1>5, <1>6, <1>7 DEF PrefillTo

\* What a call does to the job: it moves past the span, or is given up.
LEMMA AwaitsPrefill ==
  ASSUME CacheInv, NEW j \in Job, Prefill(j)
  PROVE  LET J == job[j] IN
         /\ J \in JobState /\ J.stage = "active" /\ J.fate = "go" /\ ~ PrefillDone(J)
         /\ Allocated(table, J) /\ Distinct(J) /\ k \in Nat
         /\ J.pos = PageAt(J.pos) * PageSize /\ J.pos < Len(J.ids)
         /\ \A i \in Index(J) : i < PageAt(J.pos) => Complete(table, PageOf(J, i))
         /\ Named(table, J, ContextPages(J.plen))
<1>. DEFINE J == job[j]
            low == ContextPages(J.plen)
<1>1. pc = "prefill" /\ j \in todo
  BY DEF Prefill
<1>2. J.stage = "active" /\ J.fate = "go" /\ ~ PrefillDone(J) /\ k \in Nat
  BY <1>1 DEF CacheInv, Turns, Typed
<1>3. /\ J \in JobState /\ Allocated(table, J)
      /\ J.pos = PageAt(J.pos) * PageSize /\ J.pos < Len(J.ids)
      /\ \A i \in Index(J) : i < PageAt(J.pos) => Complete(table, PageOf(J, i))
  BY <1>1, <1>2, WithPrompt
<1>4. Distinct(J) /\ Named(table, J, low)
  <2>1. /\ table.page \in [Page -> CachePage] /\ job \in [Job -> JobState]
        /\ BasesApart(table, BlockTables)
    BY DEF CacheInv, Typed
  <2>2. Named(table, J, low)
    <3>. HIDE DEF J
    <3>1. low \in Nat /\ low * PageSize <= Len(J.ids) - 1 /\ Len(J.ids) \in Nat
      BY <1>3, AllocatedRoom
    <3>2. low * PageSize < Len(J.ids)
      <4>1. low * PageSize \in Nat
        BY <3>1, Multiples
      <4>. QED BY <3>1, <4>1
    <3>3. NamesTrue(table, J, low)
      <4>1. \A i \in Index(J) : Allot(table.page[PageOf(J, i)], J, i)
        BY <1>3 DEF Allocated, Allotted
      <4>2. \A i \in Index(J) : i \in Nat /\ i < Len(J.pages)
                               /\ (i > 0 /\ i < low => i - 1 \in Index(J) /\ i - 1 < low)
        <5>. SUFFICES ASSUME NEW i \in Index(J)
                      PROVE  i \in Nat /\ i < Len(J.pages)
                             /\ (i > 0 /\ i < low => i - 1 \in Index(J) /\ i - 1 < low)
          OBVIOUS
        <5>1. i \in Nat /\ i < Len(J.pages) /\ Len(J.pages) \in Nat
          BY <1>3, PagesIndexed, JobFields
        <5>2. i > 0 /\ i < low => i - 1 \in Nat /\ i - 1 < low /\ i - 1 < Len(J.pages)
          BY <3>1, <5>1
        <5>. QED BY <1>3, <5>1, <5>2, PagesIndexed
      <4>3. \A i \in Index(J) : i < low \/ i >= low
        BY <3>1, <4>2
      <4>. HIDE DEF low
      <4>4. \A i \in Index(J) :
              /\ i < low => table.page[PageOf(J, i)].phash.base = 0
                            /\ table.page[PageOf(J, i)].phash.toks
                                 = SubSeq(J.ids, 1, (i + 1) * PageSize)
              /\ i >= low => table.page[PageOf(J, i)].phash.base # 0
                             /\ table.page[PageOf(J, i)].phash.toks = <<>>
        BY <4>1 DEF Allot, low
      <4>. QED BY ONLY <4>2, <4>4 DEF NamesTrue
    <3>. QED BY <1>3, <3>1, <3>2, <3>3 DEF Named
  <2>. QED BY <2>1, <2>2, PagesDistinct DEF Distinct
<1>. QED BY SMTT(30), <1>2, <1>3, <1>4

Wrote(skip, span, j, e) ==
  /\ span.end > span.start
  /\ skip \in Index(job[j]) /\ skip <= ContextPages(job[j].plen)
  /\ e \in Nat /\ skip * PageSize <= e /\ e <= span.end
  /\ PrefillTo(table, cache, table', cache', job[j], skip, e)
  /\ \/ e = span.end /\ job' = [job EXCEPT ![j].pos = span.end]
     \/ job' = [job EXCEPT ![j].fate = "cancelled"]

Skipped(skip, span, j) ==
  /\ span.end <= span.start
  /\ table' = table /\ cache' = cache
  /\ job' = [job EXCEPT ![j].pos = skip * PageSize]

\* All pages before the span are complete, and it lies within the prompt.
LEMMA SpanWithin ==
  ASSUME NEW t, NEW J, Allocated(t, J), NEW skip \in Nat, NEW span, Spanned(t, J, skip, span),
         span.end > span.start
  PROVE  skip \in Index(J) /\ skip <= ContextPages(J.plen)
<1>1. /\ Len(J.ids) - 1 \in Nat /\ Len(J.pages) \in Nat /\ J \in JobState
      /\ ContextPages(J.plen) \in Index(J) /\ ContextPages(J.plen) = PageAt(Len(J.ids) - 1)
      /\ ContextPages(J.plen) \in Nat
  BY AllocatedRoom DEF Allocated
<1>. DEFINE z == skip * PageSize
<1>2. z \in Nat /\ span.end \in Nat /\ z < span.end /\ span.end <= Len(J.ids) - 1
  <2>1. span.start = skip * PageSize
    BY DEF Spanned
  <2>2. z \in Nat
    BY Multiples
  <2>3. span.end \in Nat /\ span.end <= Len(J.ids) - 1
    BY DEF Spanned
  <2>. QED BY <2>1, <2>2, <2>3
<1>3. z <= Len(J.ids) - 1
  <2>. HIDE DEF z
  <2>. QED BY <1>1, <1>2
<1>4. skip <= ContextPages(J.plen)
  BY <1>1, <1>3, PageBounds
<1>5. skip < Len(J.pages)
  BY <1>1, <1>4, PagesIndexed
<1>. QED BY <1>1, <1>4, <1>5, PagesIndexed

LEMMA PrefillWrites ==
  ASSUME CacheInv, RaisesUnwritten, NEW j \in Job, Prefill(j)
  PROVE  LET span == PrefillSpan(table, job[j], k) IN
         \E skip \in Nat :
           /\ Spanned(table, job[j], skip, span)
           /\ Skipped(skip, span, j) \/ \E e \in Nat : Wrote(skip, span, j, e)
<1>. DEFINE J == job[j]
            span == PrefillSpan(table, J, k)
            first == span.start \div PageSize
            own == J.pages[first + 1]
            sources == CopySource(table, J, span)
            src == CHOOSE q \in sources : TRUE
            n == IF sources = {} THEN 0 ELSE Match(table, J, src, span)
            rest == [span EXCEPT !.start = @ + n]
            copied == IF n = 0 THEN table ELSE CopyFrom(table, own, src, n)
<1>1. /\ J \in JobState /\ Allocated(table, J) /\ Distinct(J) /\ k \in Nat
      /\ J.pos = PageAt(J.pos) * PageSize /\ J.pos < Len(J.ids)
      /\ \A i \in Index(J) : i < PageAt(J.pos) => Complete(table, PageOf(J, i))
  BY AwaitsPrefill
<1>2. PagesTyped(table) /\ PagesTrue(table, cache) /\ cache \in [Page -> [Slot -> Seq(Token)]]
  BY DEF CacheInv, Typed, PagesTyped, BooksInv, Sound
<1>3. \E skip \in Nat : Spanned(table, J, skip, span)
  <2>. HIDE DEF J
  <2>. QED BY <1>1, SpanFacts
<1>4. PICK skip \in Nat : Spanned(table, J, skip, span)
  BY <1>3
<1>5. span.start = skip * PageSize /\ span.end \in Nat /\ span.start \in Nat /\ first = skip
  <2>. HIDE DEF J
  <2>1. span.start = skip * PageSize /\ span.end \in Nat
    BY <1>4 DEF Spanned
  <2>2. span.start \in Nat
    BY <2>1, Multiples
  <2>. HIDE DEF span
  <2>3. PageAt(span.start) = skip
    BY <2>1, <2>2, PageBoundary
  <2>. QED BY <2>1, <2>2, <2>3 DEF PageAt
<1>6. CASE span.end <= span.start
  <2>1. table' = table /\ cache' = cache /\ job' = [job EXCEPT ![j].pos = span.start]
    BY <1>6 DEF Prefill
  <2>. HIDE DEF span, J
  <2>2. Skipped(skip, span, j)
    BY ONLY <1>5, <1>6, <2>1 DEF Skipped
  <2>. QED BY SMTT(30), <1>4, <2>2 DEF span, J
<1>7. CASE ~ span.end <= span.start
  <2>1. PICK outcome \in Outcomes :
          /\ outcome.done \/ rest.end > rest.start
          /\ table' = IF outcome.done /\ rest.end > rest.start
                      THEN Ingested(copied, J, first, rest) ELSE copied
          /\ cache' = CellsOf(cache, J, first, own, src, n, outcome.written,
                              rest.start, rest.end)
          /\ job' = IF outcome.done THEN [job EXCEPT ![j].pos = span.end]
                    ELSE [job EXCEPT ![j].fate = "cancelled"]
    BY <1>7 DEF Prefill, CellsOf, CopyFrom
  <2>2. outcome.done \in BOOLEAN /\ outcome.written \in BOOLEAN
        /\ (outcome.done <=> outcome.written)
    BY DEF Outcomes, RaisesUnwritten
  <2>3. rest.start = span.start + n /\ rest.end = span.end
    <3>. HIDE DEF J, first, own, sources, src, n, copied
    <3>1. \E a, b : span = [start |-> a, end |-> b]
      BY ONLY ZenonT(30) DEF span, PrefillSpan
    <3>. HIDE DEF span
    <3>. QED BY ONLY <3>1 DEF rest
  <2>. HIDE DEF J, rest, sources, src, n, span, copied
  <2>4. own = PageOf(J, skip)
    BY <1>5 DEF PageOf
  <2>. HIDE DEF first, own
  <2>5. span.start < span.end
    BY <1>5, <1>7
  <2>6. skip \in Index(J) /\ skip <= ContextPages(J.plen) /\ span.end <= Len(J.ids) - 1
    BY <1>1, <1>4, <2>5, SpanWithin DEF Spanned
  <2>7. Copied(table, cache, copied, J, skip, n, src) /\ skip * PageSize + n <= span.end
    <3>1. /\ sources = CopySource(table, J, span) /\ src = CHOOSE q \in sources : TRUE
          /\ n = IF sources = {} THEN 0 ELSE Match(table, J, src, span)
          /\ copied = IF n = 0 THEN table ELSE CopyFrom(table, own, src, n)
      BY ONLY DEF sources, src, n, copied
    <3>. QED BY ONLY ZenonT(30), <1>1, <1>2, <1>5, <2>4, <2>5, <2>6, <3>1, CopiedFacts
  <2>. DEFINE z == skip * PageSize
              a == rest.start
              e == span.end
  <2>8. /\ n \in Nat /\ z \in Nat /\ a = z + n /\ a \in Nat /\ a <= e /\ e \in Nat /\ z <= a
        /\ rest.end = e /\ e <= Len(J.ids) /\ Len(J.ids) \in Nat
        /\ (n > 0 => src \in Page)
    <3>1. n \in Nat /\ (n > 0 => src \in Page)
      BY <2>7, PageSizeAssumption DEF Copied
    <3>2. z \in Nat /\ z = span.start /\ z + n <= e /\ a = z + n
      BY <1>5, <2>3, <2>7
    <3>3. Len(J.ids) \in Nat
      BY <1>1, JobFields
    <3>4. e \in Nat /\ rest.end = e /\ e <= Len(J.ids) - 1
      BY <1>5, <2>3, <2>6
    <3>. HIDE DEF z, a, e
    <3>. QED BY ONLY <3>1, <3>2, <3>3, <3>4
  <2>9. CellsTo(cache, cache', J, skip, src, n, outcome.written, a, e)
    <3>1. cache' = CellsOf(cache, J, skip, PageOf(J, skip), src, n, outcome.written, a, e)
      BY <1>5, <2>1, <2>4, <2>8
    <3>. HIDE DEF z, a, e
    <3>2. /\ J \in JobState /\ Distinct(J) /\ cache \in [Page -> [Slot -> Seq(Token)]]
          /\ skip \in Index(J) /\ n \in Nat /\ (n > 0 => src \in Page)
          /\ outcome.written \in BOOLEAN /\ a \in Nat /\ e \in Nat /\ e <= Len(J.ids)
      BY <1>1, <1>2, <2>2, <2>6, <2>8
    <3>3. CellsTo(cache, CellsOf(cache, J, skip, PageOf(J, skip), src, n, outcome.written, a, e),
                  J, skip, src, n, outcome.written, a, e)
      BY ONLY <3>2, CellsAfter
    <3>. QED BY ONLY <3>1, <3>3
  <2>10. table' = copied => ~ outcome.written \/ e <= a
             \/ table' = Ingested(copied, J, skip, rest)
    BY ONLY <1>5, <2>1, <2>2, <2>3, <2>8
  <2>11. \/ table' = copied /\ (~ outcome.done \/ e <= a)
         \/ table' = Ingested(copied, J, skip, rest) /\ outcome.done /\ a < e
    BY ONLY <1>5, <2>1, <2>2, <2>3, <2>8
  <2>12. CASE table' = copied /\ (~ outcome.done \/ e <= a)
    <3>1. PrefillTo(table, cache, table', cache', J, skip, a)
      <4>1. PrefillTo(table, cache, table', cache', J, skip, z + n)
        <5>. HIDE DEF z, a, e
        <5>1. ~ outcome.written \/ e <= a
          BY <2>2, <2>12
        <5>2. Copied(table, cache, table', J, skip, n, src)
          BY <2>7, <2>12
        <5>. QED BY ONLY <1>1, <1>2, <2>6, <2>8, <2>9, <5>1, <5>2, CopyOnly DEF z
      <4>. QED BY ONLY <2>8, <4>1
    <3>2. \/ a = e /\ job' = [job EXCEPT ![j].pos = e]
          \/ job' = [job EXCEPT ![j].fate = "cancelled"]
      <4>1. CASE outcome.done
        <5>1. e <= a
          BY <2>12, <4>1
        <5>2. a = e
          <6>. HIDE DEF a, e, z
          <6>. QED BY ONLY <2>8, <5>1
        <5>. QED BY <2>1, <4>1, <5>2
      <4>2. CASE ~ outcome.done
        BY <2>1, <4>2
      <4>. QED BY <4>1, <4>2
    <3>3. Wrote(skip, span, j, a)
      <4>1. z <= a /\ a <= e /\ a \in Nat /\ span.end > span.start
        BY <2>5, <2>8
      <4>. QED BY ONLY <2>6, <3>1, <3>2, <4>1 DEF Wrote, J, z, e
    <3>. QED BY <1>4, <2>8, <3>3 DEF J, span
  <2>13. CASE table' = Ingested(copied, J, skip, rest) /\ outcome.done /\ a < e
    <3>1. PassTo(copied, table', J, skip, a, e)
      <4>1. PagesTyped(copied)
        <5>1. copied.page \in [Page -> CachePage]
          BY <2>7 DEF Copied
        <5>2. DOMAIN copied = {"page", "referenced", "unreferenced"}
          BY <1>2 DEF copied, CopyFrom, PagesTyped, IsTable
        <5>3. IsTable(copied)
          BY <5>1, <5>2 DEF IsTable, IsCachePage, CachePage
        <5>. QED BY <5>1, <5>3 DEF PagesTyped
      <4>2. rest.start = a /\ rest.end = e /\ rest.start \in Nat /\ rest.end \in Nat
            /\ rest.end <= Len(J.ids)
        BY <2>8
      <4>. HIDE DEF z, a, e
      <4>. QED BY ONLY <1>1, <2>6, <2>13, <4>1, <4>2, IngestedPages
    <3>2. PrefillTo(table, cache, table', cache', J, skip, e)
      <4>1. CellsTo(cache, cache', J, skip, src, n, TRUE, a, e)
        <5>1. outcome.written = TRUE
          BY <2>2, <2>13
        <5>. QED BY ONLY <2>9, <5>1
      <4>2. a = skip * PageSize + n /\ a < e /\ e \in Nat
        BY <2>8, <2>13
      <4>. HIDE DEF z, a, e
      <4>. QED BY ONLY <1>1, <1>2, <2>6, <2>7, <3>1, <4>1, <4>2, CopyAndPass
    <3>3. job' = [job EXCEPT ![j].pos = e]
      BY <2>1, <2>13
    <3>4. Wrote(skip, span, j, e)
      <4>1. z <= e /\ e <= e /\ e \in Nat /\ span.end > span.start
        <5>1. span.end > span.start
          BY <2>5
        <5>. HIDE DEF z, a, e
        <5>. QED BY <2>8, <5>1
      <4>. QED BY ONLY <2>6, <3>2, <3>3, <4>1 DEF Wrote, J, z, e
    <3>. QED BY <1>4, <2>8, <3>4 DEF J, span
  <2>. QED BY SMTT(30), <2>11, <2>12, <2>13
<1>. QED BY <1>6, <1>7

\* What a page of the prompt follows: the sequence before it.
LEMMA PromptLink ==
  ASSUME NEW t, NEW J, Allocated(t, J), NEW i \in Index(J), i <= ContextPages(J.plen)
  PROVE  LET h == LastHash(t, J, i) IN
         h.base = 0 /\ h # Root => h.toks = SubSeq(J.ids, 1, i * PageSize)
<1>1. /\ J \in JobState /\ Allotted(t, J) /\ ContextPages(J.plen) \in Nat
      /\ Len(J.pages) \in Nat
  BY AllocatedRoom DEF Allocated
<1>2. CASE i = 0
  BY <1>2 DEF LastHash
<1>3. CASE i # 0
  <2>1. i \in Nat /\ i < Len(J.pages)
    BY <1>1, PagesIndexed
  <2>2. i - 1 \in Nat /\ i - 1 < Len(J.pages) /\ i - 1 < ContextPages(J.plen) /\ (i - 1) + 1 = i
    BY <1>1, <1>3, <2>1
  <2>3. i - 1 \in Index(J)
    BY <1>1, <2>2, PagesIndexed
  <2>4. Allot(t.page[PageOf(J, i - 1)], J, i - 1) /\ LastHash(t, J, i) = t.page[PageOf(J, i - 1)].phash
    BY <1>1, <1>3, <2>2, <2>3 DEF Allotted, LastHash, PageOf
  <2>. QED BY <2>2, <2>4 DEF Allot
<1>. QED BY <1>2, <1>3

\* The pages a call computes are within the prompt.
LEMMA ComputedWithin ==
  ASSUME NEW J, NEW t, Allocated(t, J), NEW e \in Nat, e <= Len(J.ids) - 1,
         NEW i \in Index(J), i * PageSize <= e
  PROVE  i <= ContextPages(J.plen) /\ i \in Nat
<1>1. /\ J \in JobState /\ Len(J.ids) - 1 \in Nat
      /\ ContextPages(J.plen) = PageAt(Len(J.ids) - 1)
  BY AllocatedRoom DEF Allocated
<1>2. i \in Nat /\ i * PageSize \in Nat
  BY <1>1, PagesIndexed, Multiples
<1>3. i * PageSize <= Len(J.ids) - 1
  <2>. DEFINE y == i * PageSize
  <2>1. y \in Nat /\ y <= e
    BY <1>2
  <2>. HIDE DEF y
  <2>2. y <= Len(J.ids) - 1
    BY <1>1, <2>1
  <2>. QED BY <2>2 DEF y
<1>. QED BY <1>1, <1>2, <1>3, PageBounds

\* A page a call has computed holds its part of the prompt.
LEMMA ComputedTrue ==
  ASSUME NEW t, PagesTyped(t), NEW u, NEW d, NEW J, Allocated(t, J),
         NEW e \in Nat, e <= Len(J.ids) - 1,
         NEW i \in Index(J), i * PageSize <= e, Computed(t, u, d, J, i, e),
         Identified(t.page[PageOf(J, i)])
  PROVE  TruePage(u.page[PageOf(J, i)], d[PageOf(J, i)])
<1>. DEFINE q == PageOf(J, i)
            r == u.page[q]
            row == J.ids
            z == i * PageSize
<1>1. /\ J \in JobState /\ row \in Seq(Token) /\ Len(row) \in Nat /\ Opens(Bos, row)
      /\ Allotted(t, J) /\ ContextPages(J.plen) \in Nat
  BY AllocatedRoom DEF Allocated
<1>2. i <= ContextPages(J.plen) /\ i \in Nat /\ z \in Nat /\ q \in Page
  BY <1>1, ComputedWithin, PagesIndexed, Multiples
<1>3. Text(row)
  BY <1>1, OpensText
<1>4. r.kv \in 0 .. PageSize /\ (\A s \in Slot : s < r.kv <=> z + s < e)
  BY <1>2, FillMarks DEF Computed
<1>5. r.kv > 0 => z + r.kv <= Len(row)
  <2>. SUFFICES ASSUME r.kv > 0 PROVE z + r.kv <= Len(row)
    OBVIOUS
  <2>. DEFINE s == r.kv - 1
  <2>1. s \in Slot /\ s < r.kv /\ s \in Nat
    <3>. HIDE DEF r
    <3>. QED BY <1>4, PageSizeAssumption DEF Slot
  <2>2. z + s < e
    BY <1>4, <2>1
  <2>. HIDE DEF r, z
  <2>. QED BY SMTT(30), <1>1, <1>2, <1>4, <2>2, PageSizeAssumption
<1>6. \A s \in Slot : s < r.kv => /\ d[q][s] = SubSeq(row, 1, z + s + 1)
                                  /\ r.toks[s] = row[z + s + 1]
  BY <1>4 DEF Computed
<1>7. r.prev.base = 0 /\ r.prev # Root /\ r.kv > 0 => r.prev.toks = SubSeq(row, 1, z)
  <2>1. r.prev = LastHash(t, J, i)
    BY DEF Computed
  <2>. HIDE DEF r
  <2>. QED BY <1>2, <2>1, PromptLink
<1>8. r.kv = PageSize /\ r.phash.base = 0 => r.phash.toks = SubSeq(row, 1, (i + 1) * PageSize)
  <2>1. r.phash = t.page[q].phash /\ Allot(t.page[q], J, i)
    BY <1>1 DEF Computed, Allotted
  <2>2. i < ContextPages(J.plen) \/ i >= ContextPages(J.plen)
    BY <1>1, <1>2
  <2>. HIDE DEF r, row
  <2>. QED BY <2>1, <2>2 DEF Allot, row
<1>9. r.saved = None /\ r.phash # Root
  BY DEF Computed, Identified
<1>. HIDE DEF r, row
<1>10. Truth(r.phash, r.prev, r.kv, r.toks, d[q])
  BY ZenonT(30), <1>2, <1>3, <1>4, <1>5, <1>6, <1>7, <1>8, TruthBuilt
<1>11. TruePage(r, d[q])
  BY ONLY <1>9, <1>10 DEF TruePage, Identified
<1>. QED BY <1>11 DEF r, q

LEMMA PrefilledTrue ==
  ASSUME NEW t, PagesTyped(t), NEW c, PagesTrue(t, c), NEW u, NEW d, NEW J, Allocated(t, J),
         NEW skip, NEW e \in Nat, e <= Len(J.ids) - 1, PrefillTo(t, c, u, d, J, skip, e)
  PROVE  PagesTrue(u, d) /\ \A q \in Page : u.page[q].phash = t.page[q].phash
<1>. SUFFICES ASSUME NEW q \in Page
              PROVE  TruePage(u.page[q], d[q]) /\ u.page[q].phash = t.page[q].phash
  BY DEF PagesTrue
<1>1. CASE u.page[q] = t.page[q] /\ d[q] = c[q]
  BY <1>1 DEF PagesTrue
<1>2. CASE \E i \in Index(J) : /\ PageOf(J, i) = q /\ skip <= i /\ i * PageSize <= e
                               /\ Computed(t, u, d, J, i, e)
  <2>1. PICK i \in Index(J) : /\ PageOf(J, i) = q /\ i * PageSize <= e
                              /\ Computed(t, u, d, J, i, e)
    BY <1>2
  <2>2. TruePage(u.page[q], d[q])
    <3>1. Identified(t.page[PageOf(J, i)])
      BY <2>1 DEF PagesTrue, TruePage
    <3>. QED BY <2>1, <3>1, ComputedTrue
  <2>. QED BY <2>1, <2>2 DEF Computed
<1>. QED BY <1>1, <1>2 DEF PrefillTo

\* The page before index i is the same in both.
SameBefore(J, L, i) ==
  i > 0 => /\ i - 1 \in Index(J) /\ i - 1 \in Index(L)
           /\ PageOf(J, i - 1) = PageOf(L, i - 1)

\* A page two jobs name has one index in both, and the same page before it.
LEMMA SharedTogether ==
  ASSUME CacheInv, NEW j \in Job, NEW l \in Job, l # j,
         NEW low, Named(table, job[j], low), NEW deep, Named(table, job[l], deep),
         NEW i \in Index(job[j]), NEW m \in Index(job[l]),
         PageOf(job[j], i) = PageOf(job[l], m)
  PROVE  i = m /\ i < deep /\ SameBefore(job[j], job[l], i)
<1>. DEFINE J == job[j]
            L == job[l]
            h == table.page[PageOf(J, i)].phash
<1>1. /\ table.page \in [Page -> CachePage] /\ job \in [Job -> JobState]
      /\ BasesApart(table, BlockTables) /\ HashesUnique(table)
  BY DEF CacheInv, Typed, BooksInv, Sound
<1>2. h.base = 0
  BY <1>1, Exclusive
<1>3. /\ i = m /\ i < low /\ i < deep
      /\ SameUpTo(J, L, i)
  BY <1>2, SharedNames
<1>4. /\ J \in JobState /\ J.ids \in Seq(Token) /\ Len(J.ids) \in Nat /\ low \in Nat
      /\ L \in JobState /\ L.ids \in Seq(Token) /\ Len(L.ids) \in Nat /\ deep \in Nat
      /\ low * PageSize < Len(J.ids) /\ deep * PageSize < Len(L.ids)
      /\ NamesTrue(table, J, low) /\ NamesTrue(table, L, deep) /\ i \in Nat
      /\ Len(J.pages) \in Nat /\ Len(L.pages) \in Nat /\ i < Len(J.pages) /\ i < Len(L.pages)
  BY <1>1, <1>3, JobFields, PagesIndexed DEF Named
<1>. HIDE DEF J, L
<1>5. ASSUME i > 0
      PROVE  /\ i - 1 \in Index(J) /\ i - 1 \in Index(L)
             /\ PageOf(J, i - 1) = PageOf(L, i - 1)
  <2>. DEFINE a == PageOf(J, i - 1)
              b == PageOf(L, i - 1)
  <2>1. /\ i - 1 \in Nat /\ i - 1 < Len(J.pages) /\ i - 1 < Len(L.pages) /\ (i - 1) + 1 = i
        /\ i - 1 < low /\ i - 1 < deep
    BY <1>3, <1>4, <1>5
  <2>2. i - 1 \in Index(J) /\ i - 1 \in Index(L) /\ a \in Page /\ b \in Page
    BY <1>4, <2>1, PagesIndexed
  <2>3. table.page[a].phash.base = 0 /\ table.page[b].phash.base = 0
    <3>1. i \in Index(J) /\ i \in Index(L) /\ PageOf(J, i) = PageOf(L, i)
      BY <1>3 DEF J, L
    <3>. QED BY <1>2, <1>3, <1>4, <1>5, <3>1 DEF NamesTrue
  <2>4. /\ table.page[a].phash.toks = SubSeq(J.ids, 1, i * PageSize)
        /\ table.page[b].phash.toks = SubSeq(L.ids, 1, i * PageSize)
    BY <1>4, <2>1, <2>2, <2>3 DEF NamesTrue
  <2>5. SubSeq(J.ids, 1, i * PageSize) = SubSeq(L.ids, 1, i * PageSize)
    <3>. DEFINE x == i * PageSize
                y == (i + 1) * PageSize
    <3>1. /\ x \in Nat /\ y \in Nat /\ y = x + PageSize /\ PageSize \in Nat
          /\ low * PageSize \in Nat /\ deep * PageSize \in Nat
          /\ y <= low * PageSize /\ y <= deep * PageSize
      <4>1. /\ x \in Nat /\ y = x + PageSize /\ PageSize \in Nat
            /\ low * PageSize \in Nat /\ deep * PageSize \in Nat
        BY <1>4, Multiples, PageSizeAssumption
      <4>2. x + PageSize <= low * PageSize /\ x + PageSize <= deep * PageSize
        BY <1>3, <1>4, Monotone
      <4>. HIDE DEF x, y
      <4>. QED BY <4>1, <4>2
    <3>. HIDE DEF x, y
    <3>2. y \in 0 .. Len(J.ids) /\ y <= Len(L.ids) /\ x \in 0 .. y
      BY <1>4, <3>1
    <3>3. SubSeq(J.ids, 1, y) = SubSeq(L.ids, 1, y)
      BY <1>3 DEF y, SameUpTo
    <3>4. SubSeq(J.ids, 1, x) = SubSeq(L.ids, 1, x)
      BY <1>4, <3>2, <3>3, ShorterPrefix
    <3>. QED BY <3>4 DEF x
  <2>6. table.page[a].phash = table.page[b].phash
    <3>. DEFINE g == table.page[a].phash
                f == table.page[b].phash
    <3>1. g \in Hash /\ f \in Hash
      BY <1>1, <2>2 DEF CachePage
    <3>2. g.base = f.base /\ g.toks = f.toks
      BY <2>3, <2>4, <2>5
    <3>. HIDE DEF f, g
    <3>3. f = g
      BY ONLY <3>1, <3>2 DEF Hash
    <3>. QED BY <3>3 DEF f, g
  <2>. QED BY <1>1, <2>2, <2>6 DEF HashesUnique
<1>. QED BY <1>3, <1>5 DEF J, L, SameBefore

\* What the other jobs of a prefill round have.
LEMMA InPrefill ==
  ASSUME CacheInv, pc = "prefill", Leaving = {}, NEW l \in Job, job[l].stage = "active"
  PROVE  LET L == job[l]
             deep == LowAs(L, "none")
         IN /\ L \in JobState /\ L.fate = "go" /\ Phase(l) = "none" /\ Named(table, L, deep)
            /\ PrefillDone(L) => /\ FilledTo(table, L, L.pos)
                                 /\ L.pos \in Nat /\ deep * PageSize <= L.pos
            /\ ~ PrefillDone(L) => deep = ContextPages(L.plen)
<1>. DEFINE L == job[l]
            deep == LowAs(L, "none")
            row == RowAs(L, "none", 0, FALSE)
<1>1. L \in JobState /\ L.fate = "go"
  BY DEF CacheInv, Typed, Leaving, Active
<1>2. Phase(l) = "none" /\ Turn(l) = 0 /\ Drafted(l) = FALSE
  BY DEF Phase, Turn, Drafted, Sampling
<1>3. Fine(L, "none", 0) /\ Owed(table, cache, L, "none", 0, FALSE)
  <2>1. Fine(L, Phase(l), Turn(l)) /\ Owed(table, cache, L, Phase(l), Turn(l), Drafted(l))
    BY DEF CacheInv, JobFine, JobServed
  <2>. QED BY ONLY <1>2, <2>1
<1>4. LiveAs(L, "none")
  BY <1>1 DEF LiveAs
<1>5. JobOK(L, "none") /\ HandOK(L, "none", 0) /\ Served(table, cache, L, "none", 0, FALSE)
  BY <1>3, <1>4 DEF Fine, Owed
<1>6. /\ deep \in Nat /\ deep * PageSize \in Nat /\ deep * PageSize < Len(L.ids)
      /\ PrefillDone(L) => deep <= PageAt(L.pos)
      /\ L.pos < Len(L.ids)
  BY <1>1, <1>5, LowBounds
<1>7. NamesTrue(table, L, deep) /\ MarksTrue(table, L, "none", 0, row)
  BY <1>5 DEF Served
<1>8. Named(table, L, deep)
  BY <1>1, <1>6, <1>7 DEF Named
<1>9. L.pos \in Nat /\ Len(L.ids) \in Nat
  BY <1>1, JobFields
<1>10. PrefillDone(L) => FilledTo(table, L, L.pos)
  <2>1. row = SubSeq(L.ids, 1, L.pos)
    BY DEF RowAs, Settled
  <2>2. L.ids \in Seq(Token) /\ L.pos \in 0 .. Len(L.ids)
    BY <1>1, <1>6, <1>9, JobFields
  <2>. HIDE DEF L, row
  <2>3. Len(row) = L.pos
    BY <2>1, <2>2, Prefix
  <2>4. PrefillDone(L) => FilledTo(table, L, Len(row))
    BY <1>7 DEF MarksTrue
  <2>. QED BY ONLY <2>3, <2>4
<1>11. PrefillDone(L) => deep * PageSize <= L.pos
  <2>. HIDE DEF L
  <2>. QED BY <1>6, <1>9, PageBounds
<1>12. ~ PrefillDone(L) => deep = ContextPages(L.plen)
  BY DEF LowAs
<1>. QED BY <1>1, <1>2, <1>8, <1>9, <1>10, <1>11, <1>12

\* A job does not name a page a call touches, unless it has it still to compute.
LEMMA TouchedElsewhere ==
  ASSUME CacheInv, NEW j \in Job, Prefill(j), NEW skip \in Index(job[j]),
         NEW end, NEW e \in Nat, end \in Nat, skip * PageSize < end, e <= end,
         \A i \in Index(job[j]) : skip <= i /\ i * PageSize < end =>
                                    ~ Complete(table, PageOf(job[j], i)),
         NEW l \in Job, l # j, job[l].stage = "active",
         NEW i \in Index(job[j]), skip <= i, i * PageSize <= e,
         NEW m \in Index(job[l]), PageOf(job[j], i) = PageOf(job[l], m)
  PROVE  /\ m < LowAs(job[l], "none")
         /\ \/ ~ Complete(table, PageOf(job[l], m))
            \/ m > 0 /\ m - 1 \in Index(job[l]) /\ ~ Complete(table, PageOf(job[l], m - 1))
<1>. DEFINE J == job[j]
            L == job[l]
            deep == LowAs(L, "none")
            y == i * PageSize
            z == skip * PageSize
<1>1. pc = "prefill" /\ Leaving = {}
  BY DEF Prefill
<1>2. /\ J \in JobState /\ Named(table, J, ContextPages(J.plen)) /\ L \in JobState
      /\ Named(table, L, deep)
  BY <1>1, AwaitsPrefill, InPrefill
<1>3. i = m /\ i < deep /\ SameBefore(J, L, i)
  BY ZenonT(30), <1>2, SharedTogether
<1>4. i \in Nat /\ skip \in Nat /\ y \in Nat /\ z \in Nat /\ y <= e /\ z < end
      /\ (i >= 1 => (i - 1) * PageSize = y - PageSize)
  BY <1>2, PagesIndexed, Multiples
<1>5. CASE y < end
  BY <1>3, <1>5
<1>6. CASE ~ y < end
  <2>1. y = end
    <3>. HIDE DEF y, z
    <3>. QED BY <1>4, <1>6
  <2>2. i # skip
    BY <1>4, <1>6
  <2>3. i > 0 /\ skip <= i - 1 /\ i - 1 \in Nat
    BY <1>4, <2>2
  <2>4. (i - 1) * PageSize < end
    <3>1. (i - 1) * PageSize = y - PageSize
      BY <1>4, <2>3
    <3>. HIDE DEF y
    <3>. QED BY <1>4, <2>1, <3>1, PageSizeAssumption
  <2>5. ~ Complete(table, PageOf(J, i - 1))
    BY <1>3, <2>3, <2>4 DEF SameBefore
  <2>. QED BY <1>3, <2>3, <2>5 DEF SameBefore
<1>. QED BY SMTT(30), <1>5, <1>6

\* What a call leaves of the pages of another job.
LEMMA OtherPages ==
  ASSUME CacheInv, NEW j \in Job, Prefill(j), NEW skip \in Nat, NEW span,
         Spanned(table, job[j], skip, span), NEW e \in Nat, Wrote(skip, span, j, e),
         NEW l \in Job, l # j, job[l].stage = "active", NEW m \in Index(job[l])
  PROVE  LET L == job[l]
             q == PageOf(L, m)
         IN \/ table'.page[q] = table.page[q] /\ cache'[q] = cache[q]
            \/ /\ m < LowAs(L, "none") /\ table'.page[q].phash = table.page[q].phash
               /\ \/ ~ Complete(table, q)
                  \/ /\ m > 0 /\ m - 1 \in Index(L)
                     /\ ~ Complete(table, PageOf(L, m - 1))
<1>. DEFINE J == job[j]
            L == job[l]
            q == PageOf(L, m)
            end == span.end
<1>1. pc = "prefill" /\ Leaving = {}
  BY DEF Prefill
<1>2. L \in JobState /\ J \in JobState
  BY <1>1, AwaitsPrefill, InPrefill
<1>3. q \in Page
  BY <1>2, PagesIndexed
<1>4. /\ skip \in Index(J) /\ end \in Nat /\ e <= end
      /\ PrefillTo(table, cache, table', cache', J, skip, e)
      /\ end > span.start /\ span.start = skip * PageSize
  BY DEF Wrote, Spanned
<1>5. \A i \in Index(J) : skip <= i /\ i * PageSize < end => ~ Complete(table, PageOf(J, i))
  BY <1>4 DEF Spanned
<1>6. skip * PageSize < end
  <2>1. skip * PageSize \in Nat
    BY Multiples
  <2>. HIDE DEF end
  <2>. QED BY <1>4, <2>1
<1>7. CASE table'.page[q] = table.page[q] /\ cache'[q] = cache[q]
  BY <1>7
<1>8. CASE \E i \in Index(J) : /\ PageOf(J, i) = q /\ skip <= i /\ i * PageSize <= e
                               /\ Computed(table, table', cache', J, i, e)
  <2>1. PICK i \in Index(J) : /\ PageOf(J, i) = q /\ skip <= i /\ i * PageSize <= e
                              /\ Computed(table, table', cache', J, i, e)
    BY <1>8
  <2>2. table'.page[q].phash = table.page[q].phash
    BY <2>1 DEF Computed
  <2>3. /\ m < LowAs(L, "none")
        /\ \/ ~ Complete(table, q)
           \/ m > 0 /\ m - 1 \in Index(L) /\ ~ Complete(table, PageOf(L, m - 1))
    <3>1. /\ CacheInv /\ j \in Job /\ Prefill(j) /\ skip \in Index(job[j])
          /\ l \in Job /\ l # j /\ job[l].stage = "active"
          /\ i \in Index(job[j]) /\ m \in Index(job[l]) /\ PageOf(job[j], i) = PageOf(job[l], m)
      BY <1>4, <2>1
    <3>. HIDE DEF end
    <3>. QED BY ONLY <1>4, <1>5, <1>6, <2>1, <3>1, TouchedElsewhere, e \in Nat
  <2>. QED BY <2>2, <2>3
<1>. QED BY SMTT(30), <1>3, <1>4, <1>7, <1>8 DEF PrefillTo

\* A job that generates keeps its pages.
LEMMA GeneratesOn ==
  ASSUME CacheInv, NEW j \in Job, Prefill(j), NEW skip \in Nat, NEW span,
         Spanned(table, job[j], skip, span), NEW e \in Nat, Wrote(skip, span, j, e),
         NEW l \in Job, l # j, job[l].stage = "active", PrefillDone(job[l])
  PROVE  Undisturbed(l)
<1>. DEFINE L == job[l]
            deep == LowAs(L, "none")
<1>1. pc = "prefill" /\ Leaving = {}
  BY DEF Prefill
<1>2. /\ L \in JobState /\ FilledTo(table, L, L.pos) /\ L.pos \in Nat
      /\ deep * PageSize <= L.pos /\ deep \in Nat
  BY <1>1, InPrefill DEF Named
<1>3. ASSUME NEW m \in Index(L), m < deep PROVE Complete(table, PageOf(L, m))
  <2>1. m \in Nat
    BY <1>2, PagesIndexed
  <2>. HIDE DEF L, deep
  <2>2. (m + 1) * PageSize <= L.pos
    <3>. DEFINE a == (m + 1) * PageSize
                b == deep * PageSize
    <3>1. a = m * PageSize + PageSize /\ m * PageSize + PageSize <= b
          /\ m * PageSize \in Nat /\ b \in Nat /\ b <= L.pos
      BY <1>2, <1>3, <2>1, Monotone, Multiples
    <3>. HIDE DEF a, b
    <3>2. a <= L.pos
      BY <1>2, <3>1, PageSizeAssumption
    <3>. QED BY <3>2 DEF a
  <2>3. FillMark(L.pos, m) = PageSize
    BY <1>2, <2>1, <2>2, FillMarks
  <2>. QED BY <1>2, <2>3 DEF FilledTo, Complete
<1>4. ASSUME NEW m \in Index(L)
      PROVE  table'.page[PageOf(L, m)] = table.page[PageOf(L, m)]
             /\ cache'[PageOf(L, m)] = cache[PageOf(L, m)]
  <2>1. \/ table'.page[PageOf(L, m)] = table.page[PageOf(L, m)]
           /\ cache'[PageOf(L, m)] = cache[PageOf(L, m)]
        \/ /\ m < deep
           /\ \/ ~ Complete(table, PageOf(L, m))
              \/ /\ m > 0 /\ m - 1 \in Index(L)
                 /\ ~ Complete(table, PageOf(L, m - 1))
    BY OtherPages
  <2>2. m < deep => m - 1 < deep
    BY <1>2, PagesIndexed
  <2>. QED BY <1>3, <2>1, <2>2
<1>. QED BY SMTT(30), <1>4 DEF Undisturbed, SameContents, SamePage

\* A job with prompt left is served as before.
LEMMA PrefillsOn ==
  ASSUME CacheInv, PagesTyped(table'), PagesTrue(table', cache'), NEW j \in Job, Prefill(j),
         NEW skip \in Nat, NEW span,
         Spanned(table, job[j], skip, span), NEW e \in Nat, Wrote(skip, span, j, e),
         NEW l \in Job, l # j, job[l].stage = "active", ~ PrefillDone(job[l])
  PROVE  Fine(job[l], "none", 0) /\ Served(table', cache', job[l], "none", 0, FALSE)
<1>. DEFINE L == job[l]
            deep == LowAs(L, "none")
            p == PageAt(L.pos)
<1>1. pc = "prefill" /\ Leaving = {}
  BY DEF Prefill
<1>2. /\ L \in JobState /\ L.fate = "go" /\ deep = ContextPages(L.plen)
  BY <1>1, InPrefill
<1>3. /\ Allocated(table, L) /\ L.pos = p * PageSize /\ L.pos < Len(L.ids) /\ L.pos \in Nat
      /\ p \in Nat /\ \A i \in Index(L) : i < p => Complete(table, PageOf(L, i))
  BY <1>1, <1>2, WithPrompt
<1>4. /\ deep \in Nat /\ deep \in Index(L) /\ Len(L.pages) \in Nat
      /\ p <= Len(L.pages)
  <2>. HIDE DEF L, deep, p
  <2>1. /\ deep \in Nat /\ deep \in Index(L) /\ Len(L.pages) \in Nat /\ Len(L.ids) - 1 \in Nat
        /\ deep = PageAt(Len(L.ids) - 1) /\ Len(L.ids) \in Nat
    BY <1>2, <1>3, AllocatedRoom
  <2>2. p <= deep
    <3>1. L.pos <= Len(L.ids) - 1
      BY <1>3, <2>1
    <3>. QED BY <1>3, <2>1, <3>1, PageAtMonotone DEF p
  <2>3. deep < Len(L.pages)
    BY <1>2, <2>1, PagesIndexed
  <2>. QED BY <1>3, <2>1, <2>2, <2>3
<1>5. \A m \in Index(L) :
        \/ table'.page[PageOf(L, m)] = table.page[PageOf(L, m)]
           /\ cache'[PageOf(L, m)] = cache[PageOf(L, m)]
        \/ /\ m < deep /\ table'.page[PageOf(L, m)].phash = table.page[PageOf(L, m)].phash
           /\ \/ ~ Complete(table, PageOf(L, m))
              \/ /\ m > 0 /\ m - 1 \in Index(L)
                 /\ ~ Complete(table, PageOf(L, m - 1))
  BY OtherPages
<1>6. \A m \in Index(L) : m \in Nat /\ (m < p => m - 1 < p) /\ (m < deep => ~ m >= deep)
  <2>. SUFFICES ASSUME NEW m \in Index(L)
                PROVE  m \in Nat /\ (m < p => m - 1 < p) /\ (m < deep => ~ m >= deep)
    OBVIOUS
  <2>1. m \in Nat /\ p \in Nat /\ deep \in Nat
    BY <1>2, <1>3, <1>4, PagesIndexed
  <2>. HIDE DEF L, deep, p
  <2>. QED BY ONLY <2>1
<1>. HIDE DEF L, deep, p
<1>7. \A m \in Index(L) : m < p => Complete(table', PageOf(L, m))
  <2>. SUFFICES ASSUME NEW m \in Index(L), m < p PROVE Complete(table', PageOf(L, m))
    OBVIOUS
  <2>1. table'.page[PageOf(L, m)] = table.page[PageOf(L, m)]
    BY <1>3, <1>5, <1>6
  <2>2. Complete(table, PageOf(L, m))
    BY <1>3
  <2>. QED BY <2>1, <2>2 DEF Complete
<1>8. Allotted(table', L)
  <2>. SUFFICES ASSUME NEW m \in Index(L) PROVE Allot(table'.page[PageOf(L, m)], L, m)
    BY DEF Allotted
  <2>1. Allot(table.page[PageOf(L, m)], L, m)
    BY <1>3 DEF Allocated, Allotted
  <2>2. CASE table'.page[PageOf(L, m)] = table.page[PageOf(L, m)]
    BY <2>1, <2>2
  <2>3. CASE m < deep /\ table'.page[PageOf(L, m)].phash = table.page[PageOf(L, m)].phash
    BY <1>2, <1>6, <2>1, <2>3 DEF Allot
  <2>. QED BY <1>5, <2>2, <2>3
<1>9. Allocated(table', L)
  BY <1>3, <1>8 DEF Allocated
<1>10. Fine(L, "none", 0) /\ Served(table', cache', L, "none", 0, FALSE)
  <2>1. PagesTyped(table') /\ PagesTrue(table', cache')
    OBVIOUS
  <2>. QED BY ONLY <1>3, <1>4, <1>7, <1>9, <2>1, Resumed
<1>. QED BY <1>10 DEF L

\* What becomes of page i of the job itself: before the span it is left alone.
OwnPage(t, c, u, d, J, skip, e, i) ==
  \/ /\ u.page[PageOf(J, i)] = t.page[PageOf(J, i)] /\ d[PageOf(J, i)] = c[PageOf(J, i)]
     /\ ~ (skip <= i /\ i * PageSize < e)
  \/ skip <= i /\ i * PageSize <= e /\ Computed(t, u, d, J, i, e)

LEMMA OwnPages ==
  ASSUME NEW t, NEW c, NEW u, NEW d, NEW J \in JobState, Distinct(J), NEW skip \in Nat,
         NEW e \in Nat, PrefillTo(t, c, u, d, J, skip, e), NEW i \in Index(J)
  PROVE  OwnPage(t, c, u, d, J, skip, e, i)
<1>. DEFINE q == PageOf(J, i)
<1>1. q \in Page
  BY PagesIndexed
<1>2. CASE skip <= i /\ i * PageSize < e
  <2>1. Computed(t, u, d, J, i, e)
    BY <1>2 DEF PrefillTo
  <2>2. i * PageSize <= e
    <3>. DEFINE y == i * PageSize
    <3>1. y \in Nat /\ y < e
      BY <1>2, PagesIndexed, Multiples
    <3>. HIDE DEF y
    <3>2. y <= e
      BY <3>1
    <3>. QED BY <3>2 DEF y
  <2>. QED BY <1>2, <2>1, <2>2 DEF OwnPage
<1>3. CASE \E m \in Index(J) : /\ PageOf(J, m) = q /\ skip <= m /\ m * PageSize <= e
                               /\ Computed(t, u, d, J, m, e)
  <2>1. PICK m \in Index(J) : /\ PageOf(J, m) = q /\ skip <= m /\ m * PageSize <= e
                              /\ Computed(t, u, d, J, m, e)
    BY <1>3
  <2>2. m = i
    BY <2>1 DEF Distinct
  <2>. QED BY <2>1, <2>2 DEF OwnPage
<1>4. CASE ~ (skip <= i /\ i * PageSize < e) /\ u.page[q] = t.page[q] /\ d[q] = c[q]
  BY <1>4 DEF OwnPage
<1>. QED BY <1>1, <1>2, <1>3, <1>4 DEF PrefillTo

\* Moving on leaves a job allocated.
LEMMA MovedOn ==
  ASSUME NEW t, NEW J, Allocated(t, J), NEW e \in Nat
  PROVE  LET K == [J EXCEPT !.pos = e] IN
         /\ K \in JobState /\ K.pos = e /\ K.ids = J.ids /\ K.pages = J.pages /\ K.plen = J.plen
         /\ K.stage = "active" /\ K.fate = "go" /\ K.deferred = <<>> /\ Index(K) = Index(J)
         /\ \A i : PageOf(K, i) = PageOf(J, i)
         /\ \A u : Allotted(u, J) => Allocated(u, K)
<1>. DEFINE K == [J EXCEPT !.pos = e]
<1>1. /\ J \in JobState /\ J.stage = "active" /\ J.fate = "go"
      /\ Opens(Bos, J.ids) /\ J.plen = Len(J.ids)
      /\ J.offset = None /\ J.deferred = <<>>
      /\ Len(J.pages) = TotalPages(J.plen, J.limit) /\ Fits(J)
  BY DEF Allocated
<1>2. /\ K \in JobState /\ K.pos = e /\ K.ids = J.ids /\ K.pages = J.pages /\ K.plen = J.plen
      /\ K.stage = J.stage /\ K.fate = J.fate /\ K.deferred = J.deferred
      /\ K.limit = J.limit /\ K.offset = J.offset
  BY <1>1 DEF JobState
<1>. HIDE DEF K
<1>3. Index(K) = Index(J) /\ \A i : PageOf(K, i) = PageOf(J, i)
  BY <1>2 DEF Index, PageOf
<1>4. Fits(K)
  BY <1>1, <1>2 DEF Fits, NewTokens
<1>5. ASSUME NEW u, Allotted(u, J) PROVE Allotted(u, K)
  BY <1>2, <1>3, <1>5 DEF Allotted, Allot
<1>6. ASSUME NEW u, Allotted(u, J) PROVE Allocated(u, K)
  BY <1>1, <1>2, <1>4, <1>5, <1>6 DEF Allocated
<1>. QED BY <1>1, <1>2, <1>3, <1>6 DEF K

\* A call that ends at a page boundary.
LEMMA AlignedAfter ==
  ASSUME NEW t, NEW c, NEW u, PagesTyped(u), NEW d, PagesTrue(u, d),
         \A q \in Page : u.page[q].phash = t.page[q].phash,
         NEW J, Allocated(t, J), Distinct(J), NEW skip \in Nat,
         \A i \in Index(J) : i < skip => Complete(t, PageOf(J, i)),
         NEW e \in Nat, e <= Len(J.ids) - 1, e % PageSize = 0,
         PrefillTo(t, c, u, d, J, skip, e)
  PROVE  LET K == [J EXCEPT !.pos = e] IN
         Fine(K, "none", 0) /\ Served(u, d, K, "none", 0, FALSE)
<1>. DEFINE K == [J EXCEPT !.pos = e]
            n == PageAt(e)
            deep == ContextPages(J.plen)
<1>1. /\ J \in JobState /\ Allotted(t, J)
      /\ deep \in Nat /\ deep \in Index(J) /\ Len(J.pages) \in Nat
      /\ Len(J.ids) - 1 \in Nat /\ deep = PageAt(Len(J.ids) - 1)
  BY AllocatedRoom DEF Allocated
<1>2. n \in Nat /\ e = n * PageSize /\ n <= deep /\ n <= Len(J.pages)
  <2>1. n \in Nat /\ e = n * PageSize
    BY Located, PageBoundary
  <2>. HIDE DEF deep
  <2>2. n <= deep
    BY <1>1, PageAtMonotone
  <2>3. deep < Len(J.pages)
    BY <1>1, PagesIndexed
  <2>. HIDE DEF n
  <2>. QED BY <1>1, <2>1, <2>2, <2>3
<1>. HIDE DEF n, deep
<1>3. \A i \in Index(J) :
        \/ u.page[PageOf(J, i)] = t.page[PageOf(J, i)] /\ ~ (skip <= i /\ i * PageSize < e)
        \/ i * PageSize <= e /\ Computed(t, u, d, J, i, e)
  <2>1. \A i \in Index(J) : OwnPage(t, c, u, d, J, skip, e, i)
    BY <1>1, OwnPages
  <2>. QED BY <2>1 DEF OwnPage
<1>4. ASSUME NEW i \in Index(J), i < n PROVE Complete(u, PageOf(J, i))
  <2>1. i \in Nat
    BY <1>1, PagesIndexed
  <2>2. i * PageSize < e /\ FillMark(e, i) = PageSize
    <3>. DEFINE y == i * PageSize
                z == n * PageSize
    <3>1. y \in Nat /\ y + PageSize <= z /\ (i + 1) * PageSize = y + PageSize /\ z = e
      BY <1>2, <1>4, <2>1, Multiples, Monotone
    <3>2. FillMark(e, i) = PageSize
      BY <2>1, <3>1, FillMarks
    <3>. HIDE DEF y, z
    <3>3. y < e
      BY <3>1, PageSizeAssumption
    <3>. QED BY <3>2, <3>3 DEF y
  <2>3. CASE Computed(t, u, d, J, i, e)
    BY <2>2, <2>3 DEF Computed, Complete
  <2>4. CASE u.page[PageOf(J, i)] = t.page[PageOf(J, i)] /\ ~ (skip <= i /\ i * PageSize < e)
    <3>1. i < skip
      BY <2>1, <2>2, <2>4
    <3>. QED BY <2>4, <3>1 DEF Complete
  <2>. QED BY <1>3, <2>3, <2>4
<1>5. Allotted(u, J)
  <2>. SUFFICES ASSUME NEW i \in Index(J) PROVE Allot(u.page[PageOf(J, i)], J, i)
    BY DEF Allotted
  <2>1. Allot(t.page[PageOf(J, i)], J, i) /\ i \in Nat /\ PageOf(J, i) \in Page
    BY <1>1, PagesIndexed DEF Allotted
  <2>2. u.page[PageOf(J, i)].phash = t.page[PageOf(J, i)].phash
    BY <2>1
  <2>3. CASE u.page[PageOf(J, i)] = t.page[PageOf(J, i)]
    BY <2>1, <2>3
  <2>4. CASE i * PageSize <= e /\ Computed(t, u, d, J, i, e) /\ i < deep
    <3>1. ~ i >= deep
      BY SMTT(30), <1>1, <2>1, <2>4
    <3>. QED BY <2>1, <2>2, <3>1 DEF Allot, deep
  <2>5. CASE i * PageSize <= e /\ Computed(t, u, d, J, i, e) /\ ~ i < deep
    <3>1. i <= deep
      BY <2>5, ComputedWithin DEF deep
    <3>2. i = deep /\ n <= i
      BY <1>1, <1>2, <2>1, <2>5, <3>1
    <3>3. e <= i * PageSize
      <4>1. n = i \/ n < i
        BY <1>2, <2>1, <3>2
      <4>2. n < i => n * PageSize + PageSize <= i * PageSize
        BY <1>2, <2>1, Monotone
      <4>3. i * PageSize \in Nat
        BY <2>1, Multiples
      <4>. DEFINE y == i * PageSize
      <4>4. y \in Nat /\ (e = y \/ e + PageSize <= y)
        BY <1>2, <4>1, <4>2, <4>3
      <4>. HIDE DEF y
      <4>5. e <= y
        BY <4>4, PageSizeAssumption
      <4>. QED BY <4>5 DEF y
    <3>4. u.page[PageOf(J, i)].kv = 0
      BY <2>1, <2>5, <3>3, FillMarks DEF Computed
    <3>5. u.page[PageOf(J, i)].prev = LastHash(t, J, i)
      BY <2>5 DEF Computed
    <3>6. LastHash(t, J, i).base = 0 /\ LastHash(t, J, i) # Root =>
            LastHash(t, J, i).toks = SubSeq(J.ids, 1, i * PageSize)
      BY <3>1, PromptLink DEF deep
    <3>. QED BY <2>1, <2>2, <2>5, <3>2, <3>4, <3>5, <3>6 DEF Allot, deep
  <2>. QED BY <1>3, <2>3, <2>4, <2>5
<1>6. /\ K \in JobState /\ K.pos = e /\ Index(K) = Index(J) /\ K.pages = J.pages
      /\ (\A i : PageOf(K, i) = PageOf(J, i)) /\ Allocated(u, K)
  BY <1>5, MovedOn
<1>. HIDE DEF K
<1>7. K.pos = n * PageSize /\ n <= Len(K.pages)
      /\ \A i \in Index(K) : i < n => Complete(u, PageOf(K, i))
  BY <1>2, <1>4, <1>6
<1>8. Fine(K, "none", 0) /\ Served(u, d, K, "none", 0, FALSE)
  <2>1. PagesTyped(u) /\ PagesTrue(u, d) /\ n \in Nat
    BY <1>2
  <2>. QED BY ONLY <1>6, <1>7, <2>1, Resumed
<1>. QED BY <1>8 DEF K

\* A call that ends before the last token of the prompt.
LEMMA LastAfter ==
  ASSUME NEW t, NEW c, PagesTrue(t, c), NEW u, NEW d,
         \A q \in Page : u.page[q].phash = t.page[q].phash,
         NEW J, Allocated(t, J), Distinct(J), Named(t, J, ContextPages(J.plen)),
         NEW skip \in Nat, skip <= ContextPages(J.plen), NEW e, e = Len(J.ids) - 1, skip * PageSize <= e,
         \A i \in Index(J) : i < skip => Complete(t, PageOf(J, i)),
         PrefillTo(t, c, u, d, J, skip, e)
  PROVE  LET K == [J EXCEPT !.pos = e] IN
         Fine(K, "none", 0) /\ Served(u, d, K, "none", 0, FALSE)
<1>. DEFINE K == [J EXCEPT !.pos = e]
            low == ContextPages(J.plen)
            row == SubSeq(J.ids, 1, e)
<1>1. /\ J \in JobState /\ Allotted(t, J) /\ J.ids \in Seq(Token) /\ Len(J.ids) \in Nat
      /\ low \in Nat /\ low \in Index(J) /\ Len(J.pages) \in Nat
      /\ e \in Nat /\ low = PageAt(e) /\ low * PageSize <= e
      /\ Len(J.ids) <= Len(J.pages) * PageSize /\ Opens(Bos, J.ids)
  BY AllocatedRoom DEF Allocated
<1>2. \A i \in Index(J) : OwnPage(t, c, u, d, J, skip, e, i)
  BY <1>1, OwnPages
<1>3. \A i \in Index(J) :
        /\ i \in Nat /\ PageOf(J, i) \in Page /\ Allot(t.page[PageOf(J, i)], J, i)
        /\ u.page[PageOf(J, i)].phash = t.page[PageOf(J, i)].phash
  BY <1>1, PagesIndexed DEF Allotted
<1>4. /\ K \in JobState /\ K.pos = e /\ K.ids = J.ids /\ K.plen = J.plen /\ Index(K) = Index(J)
      /\ K.pages = J.pages /\ K.deferred = <<>>
      /\ (\A i : PageOf(K, i) = PageOf(J, i)) /\ Allocated(t, K)
  <2>1. e \in Nat /\ Allocated(t, J) /\ Allotted(t, J)
    BY <1>1
  <2>. QED BY ONLY <2>1, MovedOn
<1>. HIDE DEF K, low
<1>5. PrefillDone(K) /\ K.pos < Len(K.ids)
  <2>1. e + 1 = Len(J.ids) /\ e < Len(J.ids)
    BY <1>1
  <2>. QED BY <1>4, <2>1 DEF PrefillDone
<1>6. LowAs(K, "none") = low
  <2>1. Len(K.deferred) = 0 /\ low - 0 = low
    BY <1>1, <1>4
  <2>. QED BY <1>1, <1>4, <1>5, <2>1 DEF LowAs
<1>7. RowAs(K, "none", 0, FALSE) = row /\ row \in Seq(Token) /\ Len(row) = e /\ Text(row)
  <2>1. e \in 0 .. Len(J.ids)
    BY <1>1
  <2>2. RowAs(K, "none", 0, FALSE) = SubSeq(K.ids, 1, K.pos)
    BY DEF RowAs, Settled
  <2>. QED BY <1>1, <1>4, <2>1, <2>2, Prefix, OpensText, TextPrefix
<1>8. NamesTrue(u, K, low)
  <2>1. NamesTrue(t, J, low)
    BY DEF Named, low
  <2>2. NamesTrue(u, J, low)
    <3>1. \A i \in Index(J) : i > 0 => u.page[PageOf(J, i - 1)].phash = t.page[PageOf(J, i - 1)].phash
      <4>. SUFFICES ASSUME NEW i \in Index(J), i > 0
                    PROVE  u.page[PageOf(J, i - 1)].phash = t.page[PageOf(J, i - 1)].phash
        OBVIOUS
      <4>1. i \in Nat /\ i < Len(J.pages)
        BY <1>1, PagesIndexed
      <4>2. i - 1 \in Nat /\ i - 1 < Len(J.pages)
        BY <1>1, <4>1
      <4>. QED BY <1>1, <1>3, <4>2, PagesIndexed
    <3>. QED BY <1>3, <2>1, <3>1 DEF NamesTrue
  <2>. QED BY <1>4, <1>5, <2>2 DEF NamesTrue
<1>9. LinksTrue(u, K, low)
  <2>. SUFFICES ASSUME NEW i \in Index(J), i >= low, u.page[PageOf(J, i)].prev.base = 0,
                       u.page[PageOf(J, i)].prev # Root
                PROVE  i = low /\ u.page[PageOf(J, i)].prev.toks = SubSeq(J.ids, 1, i * PageSize)
    BY <1>4 DEF LinksTrue
  <2>1. CASE u.page[PageOf(J, i)] = t.page[PageOf(J, i)]
    BY <1>3, <2>1 DEF Allot, low
  <2>2. CASE i * PageSize <= e /\ Computed(t, u, d, J, i, e)
    <3>1. i <= low
      <4>1. e <= Len(J.ids) - 1
        BY <1>1
      <4>. QED BY <1>1, <2>2, <4>1, ComputedWithin DEF low
    <3>2. u.page[PageOf(J, i)].prev = LastHash(t, J, i)
      BY <2>2 DEF Computed
    <3>3. LastHash(t, J, i).base = 0 /\ LastHash(t, J, i) # Root =>
            LastHash(t, J, i).toks = SubSeq(J.ids, 1, i * PageSize)
      BY <3>1, PromptLink DEF low
    <3>4. i = low
      BY <1>1, <1>3, <3>1
    <3>. QED BY <3>2, <3>3, <3>4
  <2>. QED BY <1>2, <2>1, <2>2 DEF OwnPage
<1>10. ASSUME NEW i \in Index(J), i < skip
       PROVE  (i + 1) * PageSize <= e /\ i < low
  <2>. DEFINE a == (i + 1) * PageSize
              z == skip * PageSize
  <2>1. i \in Nat /\ z \in Nat /\ z <= e /\ i < low
    BY <1>1, <1>3, <1>10, Multiples DEF low
  <2>2. a = i * PageSize + PageSize /\ i * PageSize + PageSize <= z /\ i * PageSize \in Nat
    BY <1>10, <2>1, Multiples, Monotone
  <2>. HIDE DEF a, z
  <2>3. a <= e
    BY <1>1, <2>1, <2>2, PageSizeAssumption
  <2>. QED BY <2>1, <2>3 DEF a
<1>11. ContentTrue(u, d, K, row)
  <2>1. Len(row) <= Len(K.pages) * PageSize
    <3>1. Len(J.pages) * PageSize \in Nat
      BY <1>1, Multiples
    <3>2. e <= Len(J.pages) * PageSize
      BY <1>1, <3>1
    <3>. QED BY <1>4, <1>7, <3>2
  <2>2. ASSUME NEW i \in Index(J), NEW s \in Slot, i * PageSize + s < e
        PROVE  /\ d[PageOf(J, i)][s] = SubSeq(row, 1, i * PageSize + s + 1)
               /\ u.page[PageOf(J, i)].toks[s] = row[i * PageSize + s + 1]
    <3>. DEFINE x == i * PageSize + s
                y == i * PageSize
    <3>1. x \in Nat /\ y \in Nat /\ x = y + s /\ x < e /\ y < e
      <4>1. y \in Nat /\ x = y + s /\ x < e
        BY <1>3, <2>2, Multiples
      <4>. HIDE DEF x, y
      <4>. QED BY SMTT(30), <1>1, <4>1, PageSizeAssumption DEF Slot
    <3>2. x + 1 \in 0 .. e /\ e \in 0 .. Len(J.ids) /\ x + 1 \in 1 .. e
      <4>. HIDE DEF x
      <4>. QED BY SMTT(30), <1>1, <3>1
    <3>3. SubSeq(row, 1, x + 1) = SubSeq(J.ids, 1, x + 1) /\ row[x + 1] = J.ids[x + 1]
      <4>. HIDE DEF x
      <4>. QED BY <1>1, <3>2, PrefixOfPrefix, Prefix
    <3>4. d[PageOf(J, i)][s] = SubSeq(J.ids, 1, x + 1) /\ u.page[PageOf(J, i)].toks[s] = J.ids[x + 1]
      <4>1. CASE Computed(t, u, d, J, i, e)
        BY <2>2, <4>1 DEF Computed
      <4>2. CASE /\ u.page[PageOf(J, i)] = t.page[PageOf(J, i)]
                 /\ d[PageOf(J, i)] = c[PageOf(J, i)]
                 /\ ~ (skip <= i /\ i * PageSize < e)
        <5>1. i < skip
          BY <1>3, <3>1, <4>2
        <5>2. Complete(t, PageOf(J, i)) /\ (i + 1) * PageSize <= Len(J.ids) /\ i < low
          <6>1. Complete(t, PageOf(J, i)) /\ (i + 1) * PageSize <= e /\ i < low
            BY <1>10, <5>1
          <6>. DEFINE a == (i + 1) * PageSize
          <6>2. a \in Nat /\ a <= e
            BY <1>3, <6>1, Multiples
          <6>. HIDE DEF a
          <6>3. a <= Len(J.ids)
            BY <1>1, <6>2
          <6>. QED BY <6>1, <6>3 DEF a
        <5>3. /\ c[PageOf(J, i)][s] = SubSeq(J.ids, 1, i * PageSize + s + 1)
              /\ t.page[PageOf(J, i)].toks[s] = J.ids[i * PageSize + s + 1]
          BY SMTT(30), <1>1, <1>3, <5>2, PromptPage DEF Allot, low
        <5>. QED BY <4>2, <5>3
      <4>. QED BY <1>2, <4>1, <4>2 DEF OwnPage
    <3>. QED BY <3>3, <3>4
  <2>. QED BY ZenonT(30), <1>4, <1>7, <2>1, <2>2 DEF ContentTrue
<1>12. MarksTrue(u, K, "none", 0, row)
  <2>. SUFFICES ASSUME NEW i \in Index(J) PROVE u.page[PageOf(J, i)].kv = FillMark(e, i)
    BY <1>4, <1>5, <1>7 DEF MarksTrue, FilledTo
  <2>1. CASE Computed(t, u, d, J, i, e)
    BY <2>1 DEF Computed
  <2>2. CASE i < skip /\ u.page[PageOf(J, i)] = t.page[PageOf(J, i)]
    <3>1. Complete(t, PageOf(J, i)) /\ (i + 1) * PageSize <= e
      BY <1>10, <2>2
    <3>2. FillMark(e, i) = PageSize
      BY <1>1, <1>3, <3>1, FillMarks
    <3>. QED BY <2>2, <3>1, <3>2 DEF Complete
  <2>3. CASE ~ i * PageSize < e /\ u.page[PageOf(J, i)] = t.page[PageOf(J, i)]
    <3>. DEFINE y == i * PageSize
    <3>1. y \in Nat /\ i \in Nat /\ ~ y < e
      BY <1>3, <2>3, Multiples
    <3>2. e <= y
      <4>. HIDE DEF y
      <4>. QED BY <1>1, <3>1
    <3>3. FillMark(e, i) = 0
      BY <1>1, <3>1, <3>2, FillMarks
    <3>4. i >= low
      <4>1. ~ i < low
        <5>. SUFFICES ASSUME i < low PROVE FALSE
          OBVIOUS
        <5>. DEFINE z == low * PageSize
        <5>1. y + PageSize <= z /\ z \in Nat /\ z <= e
          BY <1>1, <3>1, Monotone, Multiples
        <5>. HIDE DEF y, z
        <5>. QED BY <1>1, <3>1, <3>2, <5>1, PageSizeAssumption
      <4>. QED BY <1>1, <3>1, <4>1
    <3>. QED BY <1>3, <2>3, <3>3, <3>4 DEF Allot, low
  <2>4. i < skip \/ skip <= i
    BY <1>3
  <2>. QED BY <1>2, <2>1, <2>2, <2>3, <2>4 DEF OwnPage
<1>13. Served(u, d, K, "none", 0, FALSE)
  BY <1>6, <1>7, <1>8, <1>9, <1>11, <1>12 DEF Served
<1>14. Fine(K, "none", 0)
  BY <1>4, <1>5, AllocatedFine
<1>. QED BY <1>13, <1>14 DEF K

\* The job itself after a call that was not given up.
LEMMA OwnAfter ==
  ASSUME CacheInv, NEW j \in Job, Prefill(j), PagesTyped(table'), PagesTrue(table', cache'),
         \A q \in Page : table'.page[q].phash = table.page[q].phash,
         NEW skip \in Nat, NEW span, Spanned(table, job[j], skip, span),
         NEW e \in Nat, Wrote(skip, span, j, e), e = span.end
  PROVE  LET K == [job[j] EXCEPT !.pos = e] IN
         Fine(K, "none", 0) /\ Served(table', cache', K, "none", 0, FALSE)
<1>. DEFINE J == job[j]
<1>1. /\ J \in JobState /\ Allocated(table, J) /\ Distinct(J)
      /\ Named(table, J, ContextPages(J.plen)) /\ PagesTrue(table, cache)
  BY AwaitsPrefill DEF CacheInv
<1>2. /\ e <= Len(J.ids) - 1 /\ (e % PageSize = 0 \/ e = Len(J.ids) - 1)
      /\ skip <= ContextPages(J.plen) /\ skip * PageSize <= e
      /\ PrefillTo(table, cache, table', cache', J, skip, e)
      /\ \A i \in Index(J) : i < skip => Complete(table, PageOf(J, i))
  BY DEF Wrote, Spanned
<1>3. PagesTyped(table') /\ PagesTrue(table', cache') /\ skip \in Nat /\ e \in Nat
      /\ \A q \in Page : table'.page[q].phash = table.page[q].phash
  OBVIOUS
<1>. HIDE DEF J
<1>4. CASE e % PageSize = 0
  BY ONLY <1>1, <1>2, <1>3, <1>4, AlignedAfter DEF J
<1>5. CASE e = Len(J.ids) - 1
  BY ONLY <1>1, <1>2, <1>3, <1>5, LastAfter DEF J
<1>. QED BY <1>2, <1>4, <1>5

LEMMA PrefillTurns ==
  ASSUME CacheInv, NEW j \in Job, Prefill(j), NEW K,
         job' = [job EXCEPT ![j] = K], K.stage = "active", K.fate \in {"go", "cancelled"}
  PROVE  Turns' /\ todo' \subseteq Job /\ job'[j] = K /\ \A l \in Job \ {j} : job'[l] = job[l]
<1>1. pc = "prefill" /\ pc' = "prefill" /\ todo' = todo \ {j} /\ k' = k /\ Turns
      /\ todo \subseteq Job /\ job \in [Job -> JobState] /\ Leaving = {}
  BY DEF Prefill, CacheInv, Typed
<1>2. job'[j] = K /\ \A l \in Job \ {j} : job'[l] = job[l]
  BY <1>1
<1>3. \A l \in Job : job[l].stage = "active" => job[l].fate = "go"
  BY <1>1 DEF Leaving, Active
<1>4. \A l \in Job : job'[l].stage = "active" => job'[l].fate # "rewound"
  BY <1>2, <1>3
<1>5. \A l \in todo' : job'[l].stage = "active" /\ job'[l].fate = "go" /\ ~ PrefillDone(job'[l])
  BY <1>1, <1>2 DEF Turns
<1>. QED BY SMTT(30), <1>1, <1>2, <1>4, <1>5 DEF Turns, Active, Sampling

LEMMA PrefillStep ==
  ASSUME CacheInv, RaisesUnwritten, BooksInv', NEW j \in Job, Prefill(j)
  PROVE  CacheInv'
<1>. DEFINE J == job[j]
            span == PrefillSpan(table, job[j], k)
<1>1. PICK skip \in Nat : /\ Spanned(table, job[j], skip, span)
                          /\ Skipped(skip, span, j) \/ \E e \in Nat : Wrote(skip, span, j, e)
  <2>1. \E skip \in Nat : /\ Spanned(table, job[j], skip, span)
                          /\ Skipped(skip, span, j) \/ \E e \in Nat : Wrote(skip, span, j, e)
    BY SMTT(30), PrefillWrites
  <2>. QED BY <2>1
<1>. HIDE DEF span
<1>2. /\ pc = "prefill" /\ pc' = "prefill" /\ Leaving = {} /\ k' = k /\ k \in Nat
      /\ serial' = serial /\ job \in [Job -> JobState] /\ serial' \in Nat
  BY DEF Prefill, CacheInv, Typed
<1>3. /\ J \in JobState /\ J.stage = "active" /\ J.fate = "go" /\ Allocated(table, J) /\ Distinct(J)
      /\ PagesTyped(table) /\ PagesTrue(table, cache)
  BY AwaitsPrefill DEF CacheInv, Typed, PagesTyped, BooksInv, Sound
<1>4. CASE Skipped(skip, span, j)
  <2>. DEFINE z == skip * PageSize
              K == [J EXCEPT !.pos = z]
  <2>1. table' = table /\ cache' = cache /\ job' = [job EXCEPT ![j].pos = z] /\ z \in Nat
    BY <1>4, Multiples DEF Skipped
  <2>2. /\ skip <= Len(J.pages) /\ \A i \in Index(J) : i < skip => Complete(table, PageOf(J, i))
    BY <1>1 DEF Spanned
  <2>3. Allotted(table, J)
    BY <1>3 DEF Allocated
  <2>. HIDE DEF z, J
  <2>4. /\ K \in JobState /\ K.pos = z /\ K.stage = "active" /\ K.fate = "go"
        /\ K.pages = J.pages /\ Index(K) = Index(J) /\ (\A i : PageOf(K, i) = PageOf(J, i))
        /\ Allocated(table, K)
    BY <1>3, <2>1, <2>3, MovedOn
  <2>5. job' = [job EXCEPT ![j] = K]
    BY <1>2, <2>1 DEF J
  <2>. HIDE DEF K
  <2>6. Fine(K, "none", 0) /\ Served(table, cache, K, "none", 0, FALSE)
    <3>1. /\ K.pos = skip * PageSize /\ skip <= Len(K.pages) /\ skip \in Nat
          /\ \A i \in Index(K) : i < skip => Complete(table, PageOf(K, i))
      BY <2>2, <2>4 DEF z
    <3>. QED BY ONLY <1>3, <2>4, <3>1, Resumed
  <2>7. Turns' /\ todo' \subseteq Job /\ job'[j] = K /\ \A l \in Job \ {j} : job'[l] = job[l]
    BY <2>4, <2>5, PrefillTurns
  <2>8. job' \in [Job -> JobState] /\ \A l \in Job : job'[l].pages = job[l].pages
    BY <1>2, <2>4, <2>5, <2>7 DEF J
  <2>. DEFINE M == {j}
  <2>9. /\ \A l \in Job \ M : job'[l] = job[l]
        /\ \A l \in M : /\ Fine(job'[l], "none", 0)
                        /\ Owed(table, cache, job'[l], "none", 0, FALSE)
    BY <2>6, <2>7 DEF Owed
  <2>. HIDE DEF M
  <2>. QED BY ZenonT(30), <1>2, <2>1, <2>7, <2>8, <2>9, OutsideStep
<1>5. ASSUME NEW e \in Nat, Wrote(skip, span, j, e) PROVE CacheInv'
  <2>1. /\ PrefillTo(table, cache, table', cache', J, skip, e) /\ e <= Len(J.ids) - 1
        /\ \/ e = span.end /\ job' = [job EXCEPT ![j].pos = e]
           \/ job' = [job EXCEPT ![j].fate = "cancelled"]
    <3>1. /\ PrefillTo(table, cache, table', cache', J, skip, e) /\ e <= span.end
          /\ span.end \in Nat /\ span.end <= Len(J.ids) - 1
          /\ \/ e = span.end /\ job' = [job EXCEPT ![j].pos = e]
             \/ job' = [job EXCEPT ![j].fate = "cancelled"]
      BY <1>1, <1>5 DEF Wrote, Spanned
    <3>2. Len(J.ids) \in Nat
      BY <1>3, JobFields
    <3>3. e <= Len(J.ids) - 1
      BY ONLY <3>1, <3>2, e \in Nat
    <3>. QED BY <3>1, <3>3
  <2>2. PagesTyped(table') /\ cache' \in [Page -> [Slot -> Seq(Token)]]
    BY <2>1 DEF PrefillTo, PagesTyped, BooksInv, Sound
  <2>3. PagesTrue(table', cache') /\ \A q \in Page : table'.page[q].phash = table.page[q].phash
    <3>. HIDE DEF J
    <3>1. e \in Nat
      OBVIOUS
    <3>. QED BY ONLY <1>3, <2>1, <3>1, PrefilledTrue
  <2>4. PICK K \in JobState :
          /\ job' = [job EXCEPT ![j] = K] /\ K.stage = "active" /\ K.fate \in {"go", "cancelled"}
          /\ K.pages = J.pages
          /\ Fine(K, "none", 0) /\ Owed(table', cache', K, "none", 0, FALSE)
    <3>1. CASE e = span.end /\ job' = [job EXCEPT ![j].pos = e]
      <4>. DEFINE K == [J EXCEPT !.pos = e]
      <4>1. Fine(K, "none", 0) /\ Served(table', cache', K, "none", 0, FALSE)
        BY <1>1, <1>5, <2>2, <2>3, <3>1, OwnAfter
      <4>2. K \in JobState /\ K.stage = "active" /\ K.fate = "go" /\ K.pages = J.pages
        BY <1>3, MovedOn
      <4>3. job' = [job EXCEPT ![j] = K]
        BY <1>2, <3>1
      <4>. HIDE DEF K
      <4>4. Owed(table', cache', K, "none", 0, FALSE)
        BY <4>1 DEF Owed
      <4>. QED BY <4>1, <4>2, <4>3, <4>4
    <3>2. CASE job' = [job EXCEPT ![j].fate = "cancelled"]
      <4>. DEFINE K == [J EXCEPT !.fate = "cancelled"]
      <4>1. K \in JobState /\ K.stage = "active" /\ K.fate = "cancelled" /\ K.pages = J.pages
        BY <1>3 DEF JobState
      <4>2. job' = [job EXCEPT ![j] = K]
        BY <1>2, <3>2
      <4>. HIDE DEF K
      <4>3. Fine(K, "none", 0) /\ Owed(table', cache', K, "none", 0, FALSE)
        BY <4>1, OverFine
      <4>. QED BY <4>1, <4>2, <4>3
    <3>. QED BY <2>1, <3>1, <3>2
  <2>5. Turns' /\ todo' \subseteq Job /\ job'[j] = K /\ \A l \in Job \ {j} : job'[l] = job[l]
    BY <2>4, PrefillTurns
  <2>6. job' \in [Job -> JobState] /\ \A l \in Job : job'[l].pages = job[l].pages
    BY <1>2, <2>4, <2>5
  <2>7. Typed'
    BY <1>2, <2>2, <2>5, <2>6 DEF Typed, PagesTyped
  <2>8. BasesApart(table, BlockTables)'
    BY <2>3, <2>6, SameHashesApart
  <2>9. \A l : /\ Phase(l) = "none" /\ Turn(l) = 0 /\ Drafted(l) = FALSE
               /\ Phase(l)' = "none" /\ Turn(l)' = 0 /\ Drafted(l)' = FALSE
    BY <1>2 DEF Phase, Turn, Drafted, Sampling
  <2>. DEFINE M == {j} \cup {l \in Job : job[l].stage = "active" /\ ~ PrefillDone(job[l])}
  <2>10. \A l \in Job \ M : Stays(l) /\ Undisturbed(l)
    <3>. SUFFICES ASSUME NEW l \in Job \ M PROVE Stays(l) /\ Undisturbed(l)
      OBVIOUS
    <3>1. l \in Job /\ l # j /\ (job[l].stage = "active" => PrefillDone(job[l]))
      OBVIOUS
    <3>2. Stays(l)
      BY <2>5, <2>9, <3>1 DEF Stays
    <3>3. CASE job[l].stage # "active"
      BY <3>2, <3>3 DEF Undisturbed, LiveAs
    <3>4. CASE job[l].stage = "active"
      BY <1>1, <1>5, <3>1, <3>4, GeneratesOn, <3>2
    <3>. QED BY <3>2, <3>3, <3>4
  <2>11. \A l \in M : JobFine(l)' /\ JobServed(l)'
    <3>. SUFFICES ASSUME NEW l \in M PROVE JobFine(l)' /\ JobServed(l)'
      OBVIOUS
    <3>1. Fine(job'[l], "none", 0) /\ Owed(table', cache', job'[l], "none", 0, FALSE)
      <4>1. CASE l = j
        BY <2>4, <2>5, <4>1
      <4>2. CASE l # j
        <5>1. l \in Job /\ job[l].stage = "active" /\ ~ PrefillDone(job[l]) /\ job'[l] = job[l]
          BY <2>5, <4>2
        <5>2. Fine(job[l], "none", 0) /\ Served(table', cache', job[l], "none", 0, FALSE)
          BY <1>1, <1>5, <2>2, <2>3, <4>2, <5>1, PrefillsOn
        <5>. QED BY <5>1, <5>2 DEF Owed
      <4>. QED BY <4>1, <4>2
    <3>2. Phase(l)' = "none" /\ Turn(l)' = 0 /\ Drafted(l)' = FALSE
      BY <2>9
    <3>3. Fine(job'[l], Phase(l)', Turn(l)')
          /\ Owed(table', cache', job'[l], Phase(l)', Turn(l)', Drafted(l)')
      BY ONLY <3>1, <3>2
    <3>. QED BY <3>3 DEF JobFine, JobServed
  <2>12. PagesTrue(table, cache)'
    BY <2>3 DEF PagesTrue
  <2>. HIDE DEF M
  <2>. QED BY <2>5, <2>7, <2>8, <2>10, <2>11, <2>12, StepKeeps
<1>. QED BY <1>1, <1>4, <1>5

-----------------------------------------------------------------------------
(* The invariant.                                                          *)

LEMMA InitCache ==
  ASSUME Init
  PROVE  CacheInv
<1>1. BooksInv
  BY InitBooks
<1>2. /\ table = EmptyTable /\ cache = [p \in Page |-> [i \in Slot |-> <<>>]]
      /\ job = [j \in Job |-> Fresh] /\ pc = "idle" /\ todo = {} /\ k = 0 /\ serial = NumPages
  BY DEF Init
<1>3. \A j \in Job : job[j] = Fresh /\ job[j].stage = "new" /\ job[j].pages = <<>>
  BY <1>2 DEF Fresh
<1>4. Typed
  <2>1. table.page \in [Page -> CachePage]
    <3>1. \A p \in Page : Placeholder(p + 1) \in Hash
      BY DEF Placeholder, Hash, Page
    <3>2. Root \in Hash /\ 0 \in 0 .. PageSize
      BY RootType, PageSizeAssumption
    <3>3. [i \in 0 .. PageSize - 1 |-> None] \in [0 .. PageSize - 1 -> Token \cup {None}]
      OBVIOUS
    <3>4. \A p \in Page : p \in Nat
      BY DEF Page
    <3>. QED BY <1>2, <3>1, <3>2, <3>3, <3>4 DEF EmptyTable, CachePage
  <2>2. cache \in [Page -> [Slot -> Seq(Token)]]
    <3>1. <<>> \in Seq(Token)
      OBVIOUS
    <3>. QED BY ONLY <1>2, <3>1
  <2>3. job \in [Job -> JobState]
    <3>1. Fresh \in JobState
      BY DEF Fresh, JobState
    <3>. QED BY <1>2, <3>1
  <2>4. serial \in Nat /\ k \in Nat /\ todo \subseteq Job
    BY <1>2, NumPagesAssumption
  <2>. QED BY <2>1, <2>2, <2>3, <2>4 DEF Typed
<1>5. Turns
  <2>1. Active = {}
    BY <1>3 DEF Active
  <2>. QED BY <1>2, <2>1 DEF Turns, Sampling
<1>6. \A j \in Job : JobFine(j) /\ JobServed(j)
  <2>. SUFFICES ASSUME NEW j \in Job PROVE JobFine(j) /\ JobServed(j)
    OBVIOUS
  <2>1. Phase(j) = "none" /\ Turn(j) = 0
    BY <1>2 DEF Phase, Turn, Sampling
  <2>2. Fine(job[j], "none", 0) /\ \A t, c, d : Owed(t, c, job[j], "none", 0, d)
    BY <1>3, OverFine
  <2>. QED BY <2>1, <2>2 DEF JobFine, JobServed
<1>7. PagesTrue(table, cache)
  <2>. SUFFICES ASSUME NEW p \in Page PROVE TruePage(table.page[p], cache[p])
    BY DEF PagesTrue
  <2>1. table.page[p].kv = 0 /\ table.page[p].saved = None
    BY <1>2 DEF EmptyTable
  <2>2. table.page[p].phash # Root
    <3>1. p + 1 # 0
      BY DEF Page
    <3>. QED BY <1>2, <3>1 DEF EmptyTable, Placeholder, Root
  <2>. QED BY <2>1, <2>2, TruthOfNothing DEF TruePage, Identified
<1>8. BasesApart(table, BlockTables)
  <2>1. \A j \in Job : BlockTables[j] = <<>>
    BY <1>3 DEF BlockTables
  <2>. QED BY <2>1 DEF BasesApart
<1>. QED BY <1>1, <1>4, <1>5, <1>6, <1>7, <1>8 DEF CacheInv

LEMMA StutterCache ==
  ASSUME CacheInv, BooksInv', UNCHANGED vars
  PROVE  CacheInv'
<1>1. /\ table' = table /\ cache' = cache /\ serial' = serial /\ job' = job /\ todo' = todo
      /\ k' = k /\ pc' = pc /\ cur' = cur
  BY DEF vars
<1>2. job' \in [Job -> JobState] /\ todo' \subseteq Job /\ k' \in Nat
  BY <1>1 DEF CacheInv, Typed
<1>3. \A l : Phase(l)' = Phase(l)
  BY <1>1 DEF Phase
<1>4. \A l : Turn(l)' = Turn(l)
  BY <1>1, <1>3 DEF Turn
<1>5. Turns'
  <2>1. Turns
    BY DEF CacheInv
  <2>. QED BY <1>1, <1>3, <2>1 DEF Turns, Active
<1>6. \A l \in Job : Stays(l)
  BY <1>1, <1>3, <1>4 DEF Stays, Drafted
<1>. DEFINE M == {}
<1>7. (\A l \in Job \ M : Stays(l)) /\ (\A l \in M : JobFine(l)' /\ JobServed(l)')
  BY <1>6
<1>8. \A l \in Job : job'[l].pages = job[l].pages
  BY <1>1
<1>. HIDE DEF M
<1>. QED BY <1>1, <1>2, <1>5, <1>7, <1>8, QuietStep

LEMMA NextCache ==
  ASSUME PromptsOpen, HoldsInside, RaisesUnwritten, CacheInv, [Next]_vars, ~ HashRaises
  PROVE  CacheInv'
<1>. BooksInv'
  BY NextBooks DEF CacheInv
<1>1. ASSUME AllServed \/ Raised \/ UNCHANGED vars PROVE CacheInv'
  BY <1>1, StutterCache DEF AllServed, Raised
<1>2. ASSUME Calling PROVE CacheInv'
  BY <1>2, ClearQueueStep, EnqueueStep, CancelPendingStep, CancelActiveStep DEF Calling
<1>3. ASSUME Iterate PROVE CacheInv'
  BY <1>3, OutsideSteps
<1>4. ASSUME Starting PROVE CacheInv'
  BY <1>4, StartJobStep, ClaimHitStep, ClaimMissStep, ClaimUniqueStep, AllocFinishStep,
     OutsideSteps DEF Starting
<1>5. ASSUME Ingesting PROVE CacheInv'
  BY <1>5, RoundSteps, PrefillStep DEF Ingesting
<1>6. ASSUME Generating PROVE CacheInv'
  BY <1>6, ForwardStep, NextRowStep, RoundSteps, AcceptStep, HashCompletedStep, JudgeSteps,
     JudgeHoldStep, JudgeMatchStep, RewindPageStep, RewindDoneStep, FlushDeferredStep,
     FlushDoneStep, VerifiedStep, UnverifiedStep, RejectPageStep, RejectDoneStep DEF Generating
<1>7. ASSUME Releasing PROVE CacheInv'
  BY <1>7, ReleasePageStep, ReleaseDoneStep, OutsideSteps DEF Releasing
<1>. QED BY <1>1, <1>2, <1>3, <1>4, <1>5, <1>6, <1>7 DEF Next

\* What the page table and the cache satisfy, raised or not.
TableInv == Sound(table) /\ Typed /\ PagesTrue(table, cache)

LEMMA CacheTable == CacheInv => TableInv /\ cur \in Job \cup {NoJob}
BY DEF CacheInv, BooksInv, JobInHand, TableInv

\* A raise in hash_completed_page leaves every page what it says it is.
LEMMA RaisesTrue ==
  ASSUME CacheInv, HashRaises
  PROVE  TableInv'
<1>1. Sound(table) /\ PagesTyped(table) /\ PagesTrue(table, cache)
  BY DEF CacheInv, BooksInv, Sound, Typed, PagesTyped
<1>2. UNCHANGED <<serial, cache, job, cur, todo, order, k>>
  BY RaisesRelease DEF CacheInv
<1>3. Sound(table')
  BY RaisesSound DEF CacheInv
<1>4. PagesTyped(table') /\ PagesTrue(table', cache)
  <2>1. CASE table' = table
    BY <1>1, <2>1
  <2>2. ASSUME NEW p \in Page, table.page[p].refs > 0, table' = SubRef(table, p)
        PROVE  PagesTyped(table') /\ PagesTrue(table', cache)
    <3>1. /\ PagesTyped(table')
          /\ \A q \in Page \ {p} : table'.page[q] = table.page[q]
          /\ \A c : TruePage(table.page[p], c) => TruePage(table'.page[p], c)
      BY ZenonT(30), <1>1, <2>2, SubRefPages
    <3>. QED BY <1>1, <3>1 DEF PagesTrue
  <2>. QED BY <2>1, <2>2, RaisesRelease DEF CacheInv
<1>5. Typed'
  BY <1>2, <1>4 DEF CacheInv, Typed, PagesTyped
<1>6. PagesTrue(table, cache)' <=> PagesTrue(table', cache')
  BY DEF PagesTrue
<1>7. Sound(table)' <=> Sound(table')
  BY DEF Sound, IsTable, PagesFiled, HashesUnique
<1>. QED BY <1>2, <1>3, <1>4, <1>5, <1>6, <1>7 DEF TableInv

\* CacheInv, until hash_completed_page raises.
CacheHolds == TableInv /\ cur \in Job \cup {NoJob} /\ (pc # "raised" => CacheInv)

LEMMA NextHolds ==
  ASSUME PromptsOpen, HoldsInside, RaisesUnwritten, CacheHolds, [Next]_vars
  PROVE  CacheHolds'
<1>1. CASE pc = "raised"
  <2>1. /\ table' = table /\ cache' = cache /\ serial' = serial /\ job' = job /\ todo' = todo
        /\ k' = k /\ pc' = "raised" /\ cur' = cur
    BY <1>1, RaisedStays DEF vars
  <2>. QED BY <2>1 DEF CacheHolds, TableInv, Typed
<1>2. CASE pc # "raised" /\ HashRaises
  <2>1. CacheInv
    BY <1>2 DEF CacheHolds
  <2>2. TableInv' /\ pc' = "raised" /\ cur' = cur
    BY <1>2, <2>1, RaisesTrue, RaisesRelease DEF CacheInv
  <2>. QED BY <2>2 DEF CacheHolds
<1>3. CASE pc # "raised" /\ ~ HashRaises
  <2>1. CacheInv'
    BY <1>3, NextCache DEF CacheHolds
  <2>2. TableInv' /\ (cur \in Job \cup {NoJob})'
    BY <2>1 DEF CacheInv, BooksInv, JobInHand, TableInv
  <2>. QED BY <2>1, <2>2 DEF CacheHolds
<1>. QED BY <1>1, <1>2, <1>3

\* The cache is in order in every state that iterate() passes through (CacheInv): pages
\* hold the K/V their records, hashes and backups name, and each job's counters and
\* pages are what its phase demands, whatever is enqueued, drafted, held, cancelled.  If
\* iterate() ends in an AssertionError (an incomplete twin in hash_completed_page), that
\* is its last step, and pages still hold what their records say.
THEOREM CacheKept ==
  ASSUME PromptsOpen, HoldsInside, RaisesUnwritten
  PROVE  Spec => []CacheHolds
<1>1. Init => CacheHolds
  BY InitCache, CacheTable DEF CacheHolds
<1>2. CacheHolds /\ [Next]_vars => CacheHolds'
  BY NextHolds
<1>. QED BY <1>1, <1>2, PTL DEF Spec

-----------------------------------------------------------------------------
(* What a job may count on.                                                *)

LEMMA Alive ==
  ASSUME CacheInv, NEW j \in Job, LiveAs(job[j], Phase(j))
  PROVE  /\ job[j] \in JobState
         /\ Turn(j) \in Nat
         /\ JobOK(job[j], Phase(j)) /\ HandOK(job[j], Phase(j), Turn(j))
         /\ Served(table, cache, job[j], Phase(j), Turn(j), Drafted(j))
         /\ LowAs(job[j], Phase(j)) \in Nat
         /\ job[j].pos \in Nat /\ job[j].pos < Len(job[j].ids)
         /\ PrefillDone(job[j]) => LowAs(job[j], Phase(j)) <= PageAt(job[j].pos)
<1>1. job[j] \in JobState /\ Turn(j) \in Nat
  BY DEF CacheInv, Typed, Turn
<1>2. JobFine(j) /\ JobServed(j)
  BY DEF CacheInv
<1>3. /\ JobOK(job[j], Phase(j)) /\ HandOK(job[j], Phase(j), Turn(j))
      /\ Served(table, cache, job[j], Phase(j), Turn(j), Drafted(j))
  BY <1>2 DEF JobFine, JobServed, Fine, Owed
<1>. QED BY <1>1, <1>3, LowBounds, JobFields

LEMMA ReaderAlive ==
  ASSUME NEW j \in Readers
  PROVE  /\ j \in Job /\ pc # "raised"
         /\ LiveAs(job[j], Phase(j))
         /\ Phase(j) # "alloc"
BY DEF Readers, Active, LiveAs, Phase

\* Below its position, the pages of a job hold the K/V and the tokens of its sequence.
LEMMA HeldBelow ==
  ASSUME NEW t, NEW c, NEW J \in JobState, NEW row \in Seq(Token), ContentTrue(t, c, J, row),
         J.pos <= Len(row), J.pos < Len(J.ids),
         \A m \in 0 .. J.pos : SubSeq(row, 1, m) = SubSeq(J.ids, 1, m),
         \A m \in 1 .. J.pos : row[m] = J.ids[m],
         NEW i \in 0 .. J.pos - 1
  PROVE  LET p == J.pages[PageAt(i) + 1] IN
         /\ c[p][i % PageSize] = Context(J, i)
         /\ t.page[p].toks[i % PageSize] = J.ids[i + 1]
<1>. DEFINE a == PageAt(i)
            s == i % PageSize
<1>1. i \in Nat /\ i < J.pos /\ i + 1 \in 0 .. J.pos /\ i + 1 \in 1 .. J.pos
  BY JobFields
<1>2. a \in Nat /\ s \in Slot /\ i = (a * PageSize) + s
  BY <1>1, Located
<1>3. Len(J.pages) \in Nat /\ Len(row) \in Nat /\ J.pos \in Nat
  BY JobFields
<1>4. a < Len(J.pages)
  <2>1. Len(J.pages) * PageSize \in Nat /\ Len(row) <= Len(J.pages) * PageSize
    BY <1>3, Multiples DEF ContentTrue
  <2>2. i < Len(J.pages) * PageSize
    BY <1>1, <1>3, <2>1
  <2>. QED BY <1>1, <1>3, <2>2, PageBounds
<1>5. a \in Index(J)
  BY <1>2, <1>4, PagesIndexed
<1>6. i < Len(row)
  BY <1>1, <1>3
<1>. HIDE DEF a, s
<1>7. /\ c[PageOf(J, a)][s] = SubSeq(row, 1, i + 1)
      /\ t.page[PageOf(J, a)].toks[s] = row[i + 1]
  BY <1>2, <1>5, <1>6 DEF ContentTrue
<1>. QED BY <1>1, <1>7 DEF Context, PageOf, a, s

\* No job ever attends to K/V of another context (OwnContext): whatever jobs share,
\* hold, rewind, reject or copy, the slots below a job's position hold the K/V of its
\* own tokens.
THEOREM ContextsNeverMix ==
  ASSUME PromptsOpen, HoldsInside, RaisesUnwritten
  PROVE  Spec => []OwnContext
<1>1. CacheHolds => OwnContext
  <2>. SUFFICES ASSUME CacheHolds, NEW j \in Readers, NEW i \in 0 .. job[j].pos - 1
                PROVE  LET p == job[j].pages[PageAt(i) + 1] IN
                       /\ cache[p][i % PageSize] = Context(job[j], i)
                       /\ table.page[p].toks[i % PageSize] = job[j].ids[i + 1]
    BY DEF OwnContext
  <2>. DEFINE J == job[j]
              row == RowAs(J, Phase(j), Turn(j), Drafted(j))
  <2>1. CacheInv /\ j \in Job /\ LiveAs(J, Phase(j))
    BY ReaderAlive DEF CacheHolds
  <2>2. /\ J \in JobState /\ Turn(j) \in Nat /\ J.pos < Len(J.ids)
        /\ Served(table, cache, J, Phase(j), Turn(j), Drafted(j))
    BY <2>1, Alive
  <2>3. Drafted(j) \in BOOLEAN /\ (Drafted(j) => PrefillDone(J))
    BY DEF Drafted
  <2>4. /\ row \in Seq(Token)
        /\ J.pos <= Len(row)
        /\ \A m \in 0 .. J.pos : SubSeq(row, 1, m) = SubSeq(J.ids, 1, m)
        /\ \A m \in 1 .. J.pos : row[m] = J.ids[m]
    BY ZenonT(30), <2>2, <2>3, RowFacts
  <2>5. ContentTrue(table, cache, J, row)
    BY <2>2 DEF Served
  <2>6. i \in 0 .. J.pos - 1
    OBVIOUS
  <2>. HIDE DEF row, J
  <2>7. LET p == J.pages[PageAt(i) + 1] IN
        /\ cache[p][i % PageSize] = Context(J, i)
        /\ table.page[p].toks[i % PageSize] = J.ids[i + 1]
    BY <2>2, <2>4, <2>5, <2>6, HeldBelow
  <2>. QED BY <2>7 DEF J
<1>. QED BY <1>1, CacheKept, PTL

-----------------------------------------------------------------------------
(* What the page cache says of its pages.                                  *)

LEMMA PublishedTrue ==
  ASSUME NEW h, NEW prev, NEW toks, NEW cells, Truth(h, prev, PageSize, toks, cells), h.base = 0
  PROVE  /\ Len(h.toks) % PageSize = 0
         /\ \A s \in Slot :
              LET n == Len(h.toks) - PageSize + s + 1 IN
              cells[s] = SubSeq(h.toks, 1, n) /\ toks[s] = h.toks[n]
<1>1. PICK x, m : HeldOf(x, m, h, prev, PageSize, toks, cells)
  BY TruthHeld, PageSizeAssumption
<1>2. /\ h.toks = x /\ m \in Nat /\ m % PageSize = 0 /\ Len(x) = m + PageSize
      /\ \A s \in 0 .. PageSize - 1 : cells[s] = SubSeq(x, 1, m + s + 1) /\ toks[s] = x[m + s + 1]
  BY <1>1 DEF HeldOf
<1>3. (m + PageSize) % PageSize = 0
  <2>1. m = PageAt(m) * PageSize /\ PageAt(m) \in Nat
    BY <1>2, PageBoundary, Located
  <2>2. m + PageSize = (PageAt(m) + 1) * PageSize
    BY <2>1, Multiples
  <2>3. m + PageSize \in Nat /\ PageAt(m) + 1 \in Nat
    BY <1>2, <2>1, PageSizeAssumption
  <2>4. PageAt(m + PageSize) = PageAt(m) + 1
    BY <2>2, <2>3, PageBoundary
  <2>. QED BY <2>2, <2>3, <2>4, PageBoundary
<1>4. ASSUME NEW s \in Slot
      PROVE  Len(h.toks) - PageSize + s + 1 = m + s + 1
  BY <1>2, PageSizeAssumption DEF Slot
<1>5. ASSUME NEW s \in Slot
      PROVE  cells[s] = SubSeq(h.toks, 1, m + s + 1) /\ toks[s] = h.toks[m + s + 1]
  BY <1>2 DEF Slot
<1>. QED BY <1>2, <1>3, <1>4, <1>5

\* A beginning of x and the elements that follow it are a longer beginning of x.
LEMMA Continued ==
  ASSUME NEW x \in Seq(Token), NEW y \in Seq(Token), NEW m \in Nat, NEW n \in Nat,
         n = m + Len(y), n <= Len(x), \A i \in 1 .. Len(y) : y[i] = x[m + i]
  PROVE  SubSeq(x, 1, m) \o y = SubSeq(x, 1, n)
<1>. DEFINE z == SubSeq(x, m + 1, n)
<1>1. Len(x) \in Nat /\ Len(y) \in Nat
  OBVIOUS
<1>2. z \in Seq(Token) /\ Len(z) = Len(y) /\ \A i \in 1 .. Len(y) : z[i] = x[m + i]
  BY <1>1
<1>3. z = y
  <2>. HIDE DEF z
  <2>1. \A i \in 1 .. Len(z) : z[i] = y[i]
    BY <1>2
  <2>. QED BY <1>2, <2>1, SameSequence
<1>4. m \in 0 .. Len(x) /\ n \in m .. Len(x)
  BY <1>1
<1>5. SubSeq(x, 1, m) \o z = SubSeq(x, 1, n)
  BY <1>4, PrefixAndSlice
<1>. QED BY <1>3, <1>5

\* The context of slot s of a page with tokens toks, if the page follows prev.
ContextAfter(prev, toks, s) == prev.toks \o [i \in 1 .. s + 1 |-> toks[i - 1]]

LEMMA LinkedTrue ==
  ASSUME NEW h, NEW prev, NEW kv \in 1 .. PageSize, NEW toks, NEW cells,
         Truth(h, prev, kv, toks, cells), prev.base = 0, prev # Root,
         NEW s \in 0 .. kv - 1
  PROVE  cells[s] = ContextAfter(prev, toks, s)
<1>1. PICK x, m : HeldOf(x, m, h, prev, kv, toks, cells)
  BY TruthHeld
<1>2. /\ x \in Seq(Token) /\ m \in Nat /\ Len(x) = m + kv
      /\ prev.toks = SubSeq(x, 1, m)
      /\ \A r \in 0 .. kv - 1 : cells[r] = SubSeq(x, 1, m + r + 1) /\ toks[r] = x[m + r + 1]
  BY <1>1 DEF HeldOf, Text
<1>. DEFINE y == [i \in 1 .. s + 1 |-> toks[i - 1]]
<1>3. s \in Nat /\ s + 1 <= kv /\ kv \in Nat
  BY PageSizeAssumption
<1>4. ASSUME NEW i \in 1 .. s + 1
      PROVE  y[i] = x[m + i] /\ m + i \in 1 .. Len(x)
  <2>1. i - 1 \in 0 .. kv - 1 /\ m + (i - 1) + 1 = m + i /\ m + i \in 1 .. Len(x)
    BY <1>2, <1>3
  <2>2. toks[i - 1] = x[m + i]
    BY <1>2, <2>1
  <2>. QED BY <2>1, <2>2
<1>5. y \in Seq(Token) /\ Len(y) = s + 1
  <2>1. \A i \in 1 .. s + 1 : y[i] \in Token
    BY <1>2, <1>4
  <2>2. y \in [1 .. s + 1 -> Token]
    BY <2>1
  <2>. HIDE DEF y
  <2>. QED BY <1>3, <2>2
<1>6. m + s + 1 \in Nat /\ m + s + 1 = m + (s + 1) /\ m + s + 1 <= Len(x)
  BY <1>2, <1>3
<1>7. \A i \in 1 .. s + 1 : y[i] = x[m + i]
  BY <1>4
<1>. HIDE DEF y
<1>8. SubSeq(x, 1, m) \o y = SubSeq(x, 1, m + s + 1)
  <2>. DEFINE n == m + s + 1
  <2>1. n \in Nat /\ n = m + Len(y) /\ n <= Len(x)
    BY <1>5, <1>6
  <2>2. \A i \in 1 .. Len(y) : y[i] = x[m + i]
    BY <1>5, <1>7
  <2>. HIDE DEF n
  <2>3. SubSeq(x, 1, m) \o y = SubSeq(x, 1, n)
    BY ONLY ZenonT(30), <1>2, <1>5, <2>1, <2>2, Continued
  <2>. QED BY <2>3 DEF n
<1>. QED BY <1>2, <1>8 DEF y, ContextAfter

\* The page cache never lies (CacheSound): a complete page under a content hash holds
\* what the hash names, and a page that follows one holds a continuation of it.
THEOREM CacheNeverLies ==
  ASSUME PromptsOpen, HoldsInside, RaisesUnwritten
  PROVE  Spec => []CacheSound
<1>1. CacheHolds => CacheSound
  <2>. SUFFICES ASSUME CacheHolds PROVE CacheSound
    OBVIOUS
  <2>1. ASSUME NEW p \in Page
        PROVE  /\ table.page[p] \in CachePage /\ table.page[p].kv \in 0 .. PageSize
               /\ Truth(table.page[p].phash, table.page[p].prev, table.page[p].kv,
                        table.page[p].toks, cache[p])
    BY DEF CacheHolds, TableInv, Typed, PagesTrue, TruePage, CachePage
  <2>2. PublishedSound
    <3>. SUFFICES ASSUME NEW p \in Page, Complete(table, p), table.page[p].phash.base = 0
                  PROVE  LET rec == table.page[p] IN
                    /\ Len(rec.phash.toks) % PageSize = 0
                    /\ \A s \in Slot :
                         LET n == Len(rec.phash.toks) - PageSize + s + 1 IN
                         cache[p][s] = SubSeq(rec.phash.toks, 1, n) /\ rec.toks[s] = rec.phash.toks[n]
      BY DEF PublishedSound
    <3>. DEFINE rec == table.page[p]
    <3>1. Truth(rec.phash, rec.prev, PageSize, rec.toks, cache[p])
      BY <2>1 DEF Complete
    <3>. QED BY <3>1, PublishedTrue
  <2>3. LinkedPagesValid
    <3>. SUFFICES ASSUME NEW p \in Page, table.page[p].prev.base = 0, table.page[p].prev # Root,
                         NEW s \in 0 .. table.page[p].kv - 1
                  PROVE  cache[p][s] = ContextAfter(table.page[p].prev, table.page[p].toks, s)
      BY DEF LinkedPagesValid, ValidAssuming, ContextAfter
    <3>1. table.page[p].kv \in 1 .. PageSize
      BY <2>1, PageSizeAssumption
    <3>2. Truth(table.page[p].phash, table.page[p].prev, table.page[p].kv,
                table.page[p].toks, cache[p])
      BY <2>1
    <3>. QED BY SMTT(30), <3>1, <3>2, LinkedTrue
  <2>. QED BY <2>2, <2>3 DEF CacheSound
<1>. QED BY <1>1, CacheKept, PTL

-----------------------------------------------------------------------------
(* Where jobs write, and what they share.                                  *)

\* The pages a job's window falls in are marked up to its position.
LEMMA FrontierMark ==
  ASSUME NEW q \in Nat, NEW i \in Nat, i >= PageAt(q)
  PROVE  FillMark(q, i) = Minus(q, i * PageSize)
<1>. DEFINE d == i * PageSize
<1>1. d \in Nat /\ (i + 1) * PageSize = d + PageSize
  BY Multiples
<1>2. q < (i + 1) * PageSize
  <2>1. PageAt(q) \in Nat /\ PageAt(q) < i + 1
    BY Located
  <2>. QED BY <2>1, PageBounds
<1>3. q < d + PageSize
  BY <1>1, <1>2
<1>. HIDE DEF d
<1>4. Smaller(Minus(q, d), PageSize) = Minus(q, d)
  BY <1>1, <1>3, PageSizeAssumption DEF Smaller, Minus
<1>. QED BY <1>4 DEF FillMark, d

LEMMA WritesAtFrontier ==
  ASSUME CacheInv, pc = "forward", NEW j \in todo
  PROVE  AtFrontier(job[j]) /\ WindowOwned(job[j])
<1>. DEFINE J == job[j]
<1>1. /\ j \in Job /\ J \in JobState /\ PrefillDone(J) /\ J.pos + 1 = Len(J.ids) /\ J.fate = "go"
      /\ Served(table, cache, J, "none", 0, FALSE)
      /\ J.pos \in Nat /\ J.ids \in Seq(Token)
  BY AwaitsForward, JobFields
<1>2. /\ PageAt(J.pos) \in Nat /\ PageAt(J.pos + k) \in Nat
      /\ \A i \in Window(J) : i \in Index(J) /\ table.page[PageOf(J, i)].phash.base # 0
  BY WindowPages
<1>3. FilledTo(table, J, J.pos)
  <2>1. RowAs(J, "none", 0, FALSE) = Settled(J)
    BY DEF RowAs
  <2>2. Len(Settled(J)) = J.pos
    BY <1>1, Prefix DEF Settled
  <2>. QED BY <1>1, <2>1, <2>2 DEF Served, MarksTrue
<1>4. AtFrontier(J)
  <2>. SUFFICES ASSUME NEW i \in Window(J)
                PROVE  /\ i < Len(J.pages)
                       /\ table.page[J.pages[i + 1]].kv = Minus(J.pos, i * PageSize)
    BY DEF AtFrontier
  <2>1. i \in Nat /\ i >= PageAt(J.pos)
    <3>. HIDE DEF J
    <3>. QED BY <1>2 DEF Window
  <2>2. i \in Index(J)
    BY <1>2
  <2>. HIDE DEF J
  <2>3. i < Len(J.pages) /\ table.page[J.pages[i + 1]].kv = FillMark(J.pos, i)
    BY <1>1, <1>3, <2>2, PagesIndexed DEF FilledTo, PageOf
  <2>. QED BY <1>1, <2>1, <2>3, FrontierMark
<1>5. WindowOwned(J)
  <2>. SUFFICES ASSUME NEW i \in Window(J), i < Len(J.pages)
                PROVE  table.page[J.pages[i + 1]].refs = 1
    BY DEF WindowOwned
  <2>1. i \in Index(J) /\ table.page[PageOf(J, i)].phash.base # 0
    BY <1>2
  <2>2. SolePlace(BlockTables, PageOf(J, i), j, i + 1)
    BY <1>1, <2>1, OwnPlace
  <2>3. BlockTables \in [Job -> Seq(Page)] /\ BlockTables[j] = J.pages
        /\ CountsMatch(table, BlockTables)
    BY <1>1, BlockTablesType DEF CacheInv, BooksInv, BlockTables
  <2>4. i + 1 \in DOMAIN BlockTables[j]
    BY <1>1, <2>1, <2>3, PagesIndexed
  <2>. HIDE DEF J
  <2>5. PageOf(J, i) = BlockTables[j][i + 1]
    BY <2>3 DEF PageOf
  <2>. QED BY <1>1, <2>2, <2>3, <2>4, <2>5, OneReference
<1>. QED BY <1>4, <1>5

\* A sequence generates into pages of its own: the assertion "page.ref_count == 1" of
\* iterate_gen and get_input_ids_list holds.
THEOREM WritesNeverShared ==
  ASSUME PromptsOpen, HoldsInside, RaisesUnwritten
  PROVE  Spec => []WritesUnshared
<1>1. CacheHolds => WritesUnshared
  BY WritesAtFrontier DEF CacheHolds, WritesUnshared
<1>. QED BY <1>1, CacheKept, PTL

LEMMA RejectsWritten ==
  ASSUME CacheInv, pc = "reject", k > 0
  PROVE  table.page[RejectedFrom(job[cur])].kv > 0
<1>. DEFINE J == job[cur]
            i == PageAt(J.pos + k - 1)
<1>1. cur \in Job /\ pc \in Sampling
  BY DEF CacheInv, BooksInv, JobInHand, Sampling
<1>2. /\ J \in JobState /\ k \in Nat /\ PrefillDone(J)
      /\ Served(table, cache, J, "reject", k, FALSE)
  <2>1. J \in JobState /\ k \in Nat /\ Fine(J, pc, k)
    BY <1>1, HandHas
  <2>2. J.fate \in {"go", "requeue"}
    <3>1. HandOK(J, pc, k) /\ J.fate \in {"go", "eos", "requeue", "rewound", "cancelled"}
      BY <2>1, JobFields DEF Fine
    <3>. QED BY <1>1, <3>1 DEF HandOK, Sampling
  <2>3. LiveAs(J, pc)
    BY <1>1, <2>1, <2>2, LiveInHand
  <2>. QED BY <1>1, <2>1, <2>2, <2>3, HandServed
<1>3. J.pos + k <= Len(J.pages) * PageSize /\ FilledTo(table, J, J.pos + k)
  BY <1>2 DEF Served, MarksTrue
<1>4. J.pos \in Nat /\ Len(J.pages) \in Nat /\ Len(J.pages) * PageSize \in Nat
  BY <1>2, JobFields, Multiples
<1>. HIDE DEF J
<1>. DEFINE b == J.pos + k - 1
<1>5. b \in Nat /\ b < Len(J.pages) * PageSize /\ J.pos + k = b + 1 /\ J.pos + k \in Nat
  BY ONLY <1>2, <1>3, <1>4, k > 0
<1>6. i = PageAt(b)
  OBVIOUS
<1>. HIDE DEF b, i
<1>7. /\ i \in Nat /\ i < Len(J.pages) /\ i * PageSize <= b /\ i * PageSize \in Nat
  BY <1>4, <1>5, <1>6, Located, PageBounds
<1>8. table.page[PageOf(J, i)].kv = FillMark(J.pos + k, i)
  BY <1>2, <1>3, <1>7, PagesIndexed DEF FilledTo
<1>9. FillMark(J.pos + k, i) \in 0 .. PageSize /\ FillMark(J.pos + k, i) # 0
  <2>1. ~ (J.pos + k <= i * PageSize)
    BY ONLY <1>5, <1>7
  <2>. QED BY <1>5, <1>7, <2>1, FillMarks
<1>. QED BY <1>8, <1>9, PageSizeAssumption DEF RejectedFrom, PageOf, J, i

\* A sequence writes where its own pages end, and takes back only what it wrote
\* (NeverOffFrontier).
THEOREM FrontierKept ==
  ASSUME PromptsOpen, HoldsInside, RaisesUnwritten
  PROVE  Spec => []NeverOffFrontier
<1>1. CacheHolds => NeverOffFrontier
  BY WritesAtFrontier, RejectsWritten DEF CacheHolds, NeverOffFrontier
<1>. QED BY <1>1, CacheKept, PTL

-----------------------------------------------------------------------------
(* What is complete, and what is held.                                     *)

LEMMA CompleteBelow ==
  ASSUME NEW t, NEW c, NEW J \in JobState, NEW ph, NEW n \in Nat, NEW d \in BOOLEAN,
         d => PrefillDone(J), J.pos < Len(J.ids), Served(t, c, J, ph, n, d),
         NEW i \in 0 .. PageAt(J.pos) - 1
  PROVE  i < Len(J.pages) /\ Complete(t, PageOf(J, i))
<1>. DEFINE row == RowAs(J, ph, n, d)
<1>1. Len(row) \in Nat /\ J.pos <= Len(row)
  BY RowFacts
<1>2. ContentTrue(t, c, J, row) /\ MarksTrue(t, J, ph, n, row)
  BY DEF Served
<1>3. J.pos \in Nat /\ Len(J.pages) \in Nat /\ PageAt(J.pos) \in Nat
  BY JobFields, Located
<1>4. i \in Nat /\ i + 1 \in Nat /\ i + 1 <= PageAt(J.pos) /\ i < PageAt(J.pos)
  BY <1>3
<1>5. (i + 1) * PageSize <= J.pos
  BY <1>3, <1>4, PageBounds
<1>6. i < Len(J.pages) /\ i \in Index(J)
  <2>. HIDE DEF row
  <2>1. Len(row) <= Len(J.pages) * PageSize /\ Len(J.pages) * PageSize \in Nat
    BY <1>2, <1>3, Multiples DEF ContentTrue
  <2>2. J.pos <= Len(J.pages) * PageSize
    BY <1>1, <1>3, <2>1
  <2>3. i * PageSize < J.pos /\ i * PageSize \in Nat
    BY <1>3, <1>4, <1>5, Multiples, PageSizeAssumption
  <2>4. i < CeilDiv(J.pos, PageSize) /\ ~ (Len(J.pages) < CeilDiv(J.pos, PageSize))
        /\ CeilDiv(J.pos, PageSize) \in Nat
    <3>1. ~ (Len(J.pages) * PageSize < J.pos)
      BY <1>3, <2>1, <2>2
    <3>. QED BY <1>3, <1>4, <2>3, <3>1, Ceiling
  <2>5. i < Len(J.pages)
    BY <1>3, <1>4, <2>4
  <2>. QED BY <1>4, <2>5, PagesIndexed
<1>7. ASSUME NEW m \in Nat, J.pos <= m PROVE FillMark(m, i) = PageSize
  <2>1. (i + 1) * PageSize \in Nat
    BY <1>4, Multiples
  <2>2. (i + 1) * PageSize <= m
    BY <1>3, <1>5, <1>7, <2>1
  <2>. QED BY <1>4, <2>2, FillMarks
<1>. HIDE DEF row
<1>8. CASE ~ PrefillDone(J)
  BY <1>2, <1>4, <1>6, <1>8 DEF MarksTrue
<1>9. CASE PrefillDone(J) /\ ph = "rewind"
  <2>1. PICK m \in Nat :
          /\ J.pos <= m
          /\ \A l \in Index(J) :
               t.page[PageOf(J, l)].kv = FillMark(IF l < n THEN J.pos ELSE m, l)
    BY <1>2, <1>9 DEF MarksTrue
  <2>2. FillMark(J.pos, i) = PageSize /\ FillMark(m, i) = PageSize
    BY <1>3, <1>7, <2>1
  <2>3. t.page[PageOf(J, i)].kv = FillMark(IF i < n THEN J.pos ELSE m, i)
    BY <1>6, <2>1
  <2>. QED BY <1>6, <2>2, <2>3 DEF Complete
<1>10. CASE PrefillDone(J) /\ ph = "reject"
  <2>1. FilledTo(t, J, J.pos + n)
    BY <1>2, <1>10 DEF MarksTrue
  <2>2. J.pos + n \in Nat /\ J.pos <= J.pos + n
    BY <1>3
  <2>. QED BY <1>6, <1>7, <2>1, <2>2 DEF FilledTo, Complete
<1>11. CASE PrefillDone(J) /\ ph # "rewind" /\ ph # "reject"
  <2>1. FilledTo(t, J, Len(row))
    BY <1>2, <1>11 DEF MarksTrue
  <2>. QED BY <1>1, <1>6, <1>7, <2>1 DEF FilledTo, Complete
<1>. QED BY <1>8, <1>9, <1>10, <1>11

\* A page that a job's position has passed stays complete for as long as the job may
\* read it (CompleteKept), whatever the jobs it shares the page with do.
THEOREM PassedPagesComplete ==
  ASSUME PromptsOpen, HoldsInside, RaisesUnwritten
  PROVE  Spec => []CompleteKept
<1>1. CacheHolds => CompleteKept
  <2>. SUFFICES ASSUME CacheHolds, NEW j \in Readers, NEW i \in 0 .. PageAt(job[j].pos) - 1
                PROVE  Complete(table, job[j].pages[i + 1])
    BY DEF CompleteKept
  <2>. DEFINE J == job[j]
  <2>1. CacheInv /\ j \in Job /\ LiveAs(J, Phase(j))
    BY ReaderAlive DEF CacheHolds
  <2>2. /\ J \in JobState /\ Turn(j) \in Nat /\ J.pos < Len(J.ids)
        /\ Served(table, cache, J, Phase(j), Turn(j), Drafted(j))
    BY <2>1, Alive
  <2>3. Drafted(j) \in BOOLEAN /\ (Drafted(j) => PrefillDone(J))
    BY DEF Drafted
  <2>4. i \in 0 .. PageAt(J.pos) - 1
    OBVIOUS
  <2>. HIDE DEF J
  <2>5. Complete(table, PageOf(J, i))
    BY <2>2, <2>3, <2>4, CompleteBelow
  <2>. QED BY <2>5 DEF J, PageOf
<1>. QED BY <1>1, CacheKept, PTL

LEMMA HeldFromLow ==
  ASSUME NEW J \in JobState, NEW ph, NEW n, JobOK(J, ph), HandOK(J, ph, n), Holding(J),
         J.fate = "go", ph # "flush",
         NEW i \in PageAt(J.pos - J.offset) .. PageAt(J.pos - 1)
  PROVE  /\ i \in Nat /\ i >= LowAs(J, ph)
         /\ J.pos >= 1 /\ i <= PageAt(J.pos - 1)
<1>1. /\ J.offset \in Nat \ {0} /\ J.plen \in Nat /\ Len(J.ids) \in Nat /\ J.pos \in Nat
      /\ Len(J.deferred) \in Nat
  BY JobFields, HoldingOffset
<1>2. PrefillDone(J) /\ ph # "alloc" /\ J.pos + 1 = Len(J.ids)
  BY <1>1, NoneAssumption DEF JobOK, Untouched, PrefillDone
<1>3. ph # "rewind" /\ ph # "complete"
  BY DEF HandOK, Sampling
<1>4. J.plen \in 1 .. Len(J.ids)
  BY DEF JobOK
<1>5. Reaches(J, J.offset)
  <2>1. Reaches(J, IF ph = "judge" THEN J.offset + 1 ELSE J.offset)
    BY <1>3 DEF JobOK
  <2>2. CASE ph = "judge"
    <3>1. Reaches(J, J.offset + 1) /\ J.offset \in 0 .. J.offset + 1 /\ J.offset + 1 \in Nat
      BY <1>1, <2>1, <2>2
    <3>. DEFINE back == J.offset + 1
    <3>. HIDE DEF back
    <3>2. Reaches(J, back) /\ J.offset \in 0 .. back /\ back \in Nat
      BY <3>1 DEF back
    <3>. QED BY ONLY J \in JobState, <1>2, <1>4, <3>2, ReachesLess
  <2>. QED BY <2>1, <2>2
<1>6. /\ J.offset <= J.pos /\ J.pos - J.offset \in Nat /\ J.pos - 1 \in Nat /\ J.pos >= 1
      /\ J.pos - J.offset <= J.pos - 1
  <2>1. J.offset <= Len(J.ids) - J.plen
    BY <1>5 DEF Reaches, NewTokens
  <2>. DEFINE off == J.offset
              plen == J.plen
              pos == J.pos
              all == Len(J.ids)
  <2>2. off <= all - plen /\ off \in Nat /\ off # 0 /\ plen \in Nat /\ plen >= 1
        /\ all \in Nat /\ pos \in Nat /\ pos + 1 = all
    BY ONLY <1>1, <1>2, <1>4, <2>1
  <2>. HIDE DEF off, plen, pos, all
  <2>3. off <= pos /\ pos - off \in Nat /\ pos - 1 \in Nat /\ pos >= 1 /\ pos - off <= pos - 1
    BY ONLY <2>2
  <2>. QED BY ONLY <2>3 DEF off, pos
<1>7. LowAs(J, ph) = PageAt(J.pos) - Len(J.deferred)
  BY <1>2, <1>3 DEF LowAs
<1>8. PageAt(J.pos) - Len(J.deferred) <= PageAt(J.pos - J.offset)
  BY <1>5 DEF Reaches
<1>9. PageAt(J.pos - J.offset) \in Nat /\ PageAt(J.pos - 1) \in Nat /\ PageAt(J.pos) \in Nat
  BY <1>1, <1>6, Located
<1>. DEFINE a == PageAt(J.pos - J.offset)
            b == PageAt(J.pos - 1)
            e == PageAt(J.pos)
<1>10. i \in a .. b
  OBVIOUS
<1>. HIDE DEF a, b, e
<1>11. a \in Nat /\ b \in Nat /\ e \in Nat /\ LowAs(J, ph) = e - Len(J.deferred)
       /\ e - Len(J.deferred) <= a
  BY <1>7, <1>8, <1>9 DEF a, b, e
<1>12. i \in Nat /\ i >= LowAs(J, ph) /\ i <= b
  BY ONLY SMTT(30), <1>1, <1>10, <1>11
<1>. QED BY <1>6, <1>12 DEF b

\* While tokens are held, no page that a rewind of the hold would truncate is filed
\* under a content hash (HeldUnpublished): no other job can come to share it.
THEOREM HoldsStayUnpublished ==
  ASSUME PromptsOpen, HoldsInside, RaisesUnwritten
  PROVE  Spec => []HeldUnpublished
<1>1. CacheHolds => HeldUnpublished
  <2>. SUFFICES ASSUME CacheHolds, NEW j \in Readers, job[j].offset \notin {0, None},
                       job[j].fate = "go", ~ (pc = "flush" /\ j = cur),
                       NEW i \in PageAt(job[j].pos - job[j].offset) .. PageAt(job[j].pos - 1)
                PROVE  table.page[job[j].pages[i + 1]].phash.base # 0
    BY DEF HeldUnpublished
  <2>. DEFINE J == job[j]
  <2>1. CacheInv /\ j \in Job /\ LiveAs(J, Phase(j)) /\ Phase(j) # "flush"
    BY ReaderAlive DEF CacheHolds, Phase
  <2>2. /\ J \in JobState /\ Turn(j) \in Nat /\ J.pos < Len(J.ids)
        /\ JobOK(J, Phase(j)) /\ HandOK(J, Phase(j), Turn(j))
        /\ Served(table, cache, J, Phase(j), Turn(j), Drafted(j))
    BY <2>1, Alive
  <2>3. Drafted(j) \in BOOLEAN /\ (Drafted(j) => PrefillDone(J))
    BY DEF Drafted
  <2>4. /\ i \in PageAt(J.pos - J.offset) .. PageAt(J.pos - 1)
        /\ Holding(J) /\ J.fate = "go"
    BY DEF Holding
  <2>. HIDE DEF J
  <2>5. i \in Nat /\ i >= LowAs(J, Phase(j)) /\ J.pos >= 1 /\ i <= PageAt(J.pos - 1)
    BY <2>1, <2>2, <2>4, HeldFromLow
  <2>6. i \in Index(J)
    <3>. DEFINE row == RowAs(J, Phase(j), Turn(j), Drafted(j))
                b == J.pos - 1
    <3>1. Len(row) \in Nat /\ J.pos <= Len(row) /\ J.pos \in Nat /\ Len(J.pages) \in Nat
      BY <2>2, <2>3, RowFacts, JobFields
    <3>2. Len(row) <= Len(J.pages) * PageSize /\ Len(J.pages) * PageSize \in Nat
      BY <2>2, <3>1, Multiples DEF Served, ContentTrue
    <3>. HIDE DEF row
    <3>3. b \in Nat /\ b < Len(J.pages) * PageSize
      BY ONLY <2>5, <3>1, <3>2
    <3>4. PageAt(b) \in Nat /\ PageAt(b) < Len(J.pages) /\ i <= PageAt(b)
      <4>1. i <= PageAt(b)
        BY <2>5
      <4>. HIDE DEF b
      <4>. QED BY <3>1, <3>3, <4>1, Located, PageBounds
    <3>5. i < Len(J.pages)
      BY <2>5, <3>1, <3>4
    <3>. QED BY <2>2, <2>5, <3>5, PagesIndexed
  <2>7. table.page[PageOf(J, i)].phash.base # 0
    BY <2>2, <2>5, <2>6 DEF Served, NamesTrue
  <2>. QED BY <2>7 DEF J, PageOf
<1>. QED BY <1>1, CacheKept, PTL

-----------------------------------------------------------------------------
(* The eviction order.                                                     *)

LEMMA EvictionAll ==
  ASSUME TableInv, NEW protected
  PROVE  ListsAll(BuildEvictionOrder(table, protected), table.unreferenced)
<1>1. PagesTyped(table) /\ PagesFiled(table) /\ HashesUnique(table) /\ PagesTrue(table, cache)
  BY DEF TableInv, Typed, Sound, PagesTyped
<1>2. Aged(table)
  BY <1>1, RecordFields DEF Aged
<1>3. NoneRoot(table)
  BY <1>1 DEF PagesTrue, TruePage, Identified, NoneRoot
<1>4. \A p \in Page : table.page[p].refs \in Nat
  BY <1>1, RecordFields
<1>. QED BY <1>1, <1>2, <1>3, <1>4, EvictionListed

\* The eviction order has every unreferenced page once and nothing else (EvictionComplete):
\* build_eviction_order loses no page and gives none out twice.
THEOREM NothingLostToEviction ==
  ASSUME PromptsOpen, HoldsInside, RaisesUnwritten
  PROVE  Spec => []EvictionComplete
<1>1. TableInv => EvictionComplete
  <2>. SUFFICES ASSUME TableInv PROVE EvictionComplete
    OBVIOUS
  <2>. DEFINE s == BuildEvictionOrder(table, {})
  <2>1. ListsAll(s, table.unreferenced)
    BY EvictionAll
  <2>. HIDE DEF s
  <2>2. Range(s) = table.unreferenced /\ Len(s) = Cardinality(table.unreferenced)
    BY <2>1, ListedOnce DEF ListsAll
  <2>. QED BY <2>2 DEF EvictionComplete, s
<1>2. CacheHolds => TableInv
  BY DEF CacheHolds
<1>. QED BY <1>1, <1>2, CacheKept, PTL

-----------------------------------------------------------------------------
(* Allocation finds the pages admission counted on.                        *)

\* The hashes of the prompt's pages from n on that no referenced page has.
Missing(t, J, n) ==
  {h \in {PromptHash(J, i) : i \in n .. ContextPages(J.plen) - 1} :
     ~ Holds(t, t.referenced, h)}

\* The unreferenced pages J has still to claim, with n pages claimed.
Wanted(t, J, n) ==
  Cardinality(Missing(t, J, n)) + TotalPages(J.plen, J.limit) - Larger(n, ContextPages(J.plen))

\* During an allocation the pages it still wants are there, and in the order it takes
\* them from, if that was built.
AllocInv ==
  /\ order = None \/ order \in Seq(Page)
  /\ pc = "alloc" =>
       /\ Wanted(table, job[cur], Len(job[cur].pages)) <= Cardinality(table.unreferenced)
       /\ order # None => table.unreferenced \subseteq Range(order)

LEMMA MissingFinite ==
  ASSUME NEW t, NEW J, NEW n \in Nat, ContextPages(J.plen) \in Nat
  PROVE  IsFiniteSet(Missing(t, J, n)) /\ Cardinality(Missing(t, J, n)) \in Nat
<1>. DEFINE S == n .. ContextPages(J.plen) - 1
            f == [i \in S |-> PromptHash(J, i)]
            H == {f[i] : i \in S}
<1>1. IsFiniteSet(S)
  BY FS_Interval
<1>. HIDE DEF S
<1>2. IsFiniteSet(H)
  <2>1. f \in Surjection(S, H)
    BY DEF Surjection
  <2>. HIDE DEF f, H
  <2>. QED BY <1>1, <2>1, FS_Surjection
<1>3. Missing(t, J, n) \subseteq H
  BY DEF Missing, S
<1>. HIDE DEF H
<1>4. IsFiniteSet(Missing(t, J, n))
  BY <1>2, <1>3, FS_Subset
<1>. QED BY <1>4, FS_CardinalityType

\* A page joins the referenced ones, or was one of them.
LEMMA UnreferencedLess ==
  ASSUME NEW t, Sound(t), NEW u, Sound(u), NEW p \in Page, Counts(t, u, p, 1),
         \A q \in Page : t.page[q].refs \in Nat
  PROVE  /\ u.unreferenced = t.unreferenced \ {p}
         /\ t.page[p].refs = 0 =>
              Cardinality(u.unreferenced) = Cardinality(t.unreferenced) - 1
         /\ t.page[p].refs # 0 => u.unreferenced = t.unreferenced
         /\ Cardinality(t.unreferenced) \in Nat /\ Cardinality(u.unreferenced) \in Nat
<1>1. /\ t.unreferenced = {q \in Page : t.page[q].refs = 0}
      /\ u.unreferenced = {q \in Page : u.page[q].refs = 0}
  BY DEF Sound, PagesFiled
<1>2. u.unreferenced = t.unreferenced \ {p}
  BY <1>1 DEF Counts
<1>3. IsFiniteSet(t.unreferenced) /\ IsFiniteSet(u.unreferenced)
  BY <1>1, PagesFinite
<1>4. p \in t.unreferenced <=> t.page[p].refs = 0
  BY <1>1
<1>5. p \in t.unreferenced => Cardinality(t.unreferenced \ {p}) = Cardinality(t.unreferenced) - 1
  BY <1>3, FS_RemoveElement
<1>. QED BY <1>2, <1>3, <1>4, <1>5, FS_CardinalityType

\* Claiming a page for the n-th prompt hash leaves one less wanted, if it was unreferenced.
LEMMA PromptClaimed ==
  ASSUME NEW t, Sound(t), NEW u, Sound(u), NEW p \in Page, Counts(t, u, p, 1),
         \A q \in Page : t.page[q].refs \in Nat,
         NEW J, NEW n \in Nat, ContextPages(J.plen) \in Nat, n < ContextPages(J.plen),
         TotalPages(J.plen, J.limit) \in Nat,
         \A q \in Page : t.page[q].refs > 0 => u.page[q].phash = t.page[q].phash,
         u.page[p].phash = PromptHash(J, n),
         t.page[p].refs = 0 => ~ Holds(t, t.referenced, PromptHash(J, n)),
         Wanted(t, J, n) <= Cardinality(t.unreferenced)
  PROVE  Wanted(u, J, n + 1) <= Cardinality(u.unreferenced)
<1>. DEFINE A == Missing(t, J, n)
            B == Missing(u, J, n + 1)
            h == PromptHash(J, n)
            c == ContextPages(J.plen)
<1>1. /\ t.referenced = {q \in Page : t.page[q].refs > 0}
      /\ u.referenced = {q \in Page : u.page[q].refs > 0}
      /\ \A q \in Page : t.page[q].refs > 0 => u.page[q].refs > 0
      /\ u.page[p].refs > 0
  BY DEF Sound, PagesFiled, Counts
<1>2. IsFiniteSet(A) /\ Cardinality(A) \in Nat /\ Cardinality(B) \in Nat
  BY MissingFinite
<1>3. \A g : Holds(t, t.referenced, g) => Holds(u, u.referenced, g)
  BY <1>1 DEF Holds
<1>4. Holds(u, u.referenced, h)
  BY <1>1 DEF Holds
<1>5. B \subseteq A /\ h \notin B
  <2>1. n + 1 .. c - 1 \subseteq n .. c - 1
    OBVIOUS
  <2>2. B \subseteq A
    BY <1>3, <2>1 DEF Missing
  <2>. QED BY <1>4, <2>2 DEF Missing
<1>6. t.page[p].refs = 0 => h \in A
  <2>1. n \in n .. c - 1
    OBVIOUS
  <2>. QED BY <2>1 DEF Missing
<1>7. Larger(n, c) = c /\ Larger(n + 1, c) = c
  BY DEF Larger
<1>8. /\ Wanted(t, J, n) = Cardinality(A) + TotalPages(J.plen, J.limit) - c
      /\ Wanted(u, J, n + 1) = Cardinality(B) + TotalPages(J.plen, J.limit) - c
  BY <1>7 DEF Wanted
<1>. HIDE DEF A, B, h, c
<1>9. CASE t.page[p].refs = 0
  <2>1. B \subseteq A \ {h} /\ IsFiniteSet(A \ {h}) /\ Cardinality(A \ {h}) = Cardinality(A) - 1
    BY <1>2, <1>5, <1>6, <1>9, FS_RemoveElement
  <2>2. Cardinality(B) <= Cardinality(A) - 1
    BY <2>1, FS_Subset
  <2>3. Cardinality(u.unreferenced) = Cardinality(t.unreferenced) - 1
    BY <1>9, UnreferencedLess
  <2>4. Cardinality(t.unreferenced) \in Nat /\ c \in Nat
    BY UnreferencedLess DEF c
  <2>. QED BY <1>2, <1>8, <2>2, <2>3, <2>4
<1>10. CASE t.page[p].refs # 0
  <2>1. Cardinality(B) <= Cardinality(A)
    BY <1>2, <1>5, FS_Subset
  <2>2. u.unreferenced = t.unreferenced /\ Cardinality(t.unreferenced) \in Nat /\ c \in Nat
    BY <1>10, UnreferencedLess DEF c
  <2>. QED BY <1>2, <1>8, <2>1, <2>2
<1>. QED BY <1>9, <1>10

\* Past the prompt every page is an unreferenced one.
LEMMA OutputClaimed ==
  ASSUME NEW t, Sound(t), NEW u, Sound(u), NEW p \in Page, Counts(t, u, p, 1),
         \A q \in Page : t.page[q].refs \in Nat, t.page[p].refs = 0,
         NEW J, NEW n \in Nat, ContextPages(J.plen) \in Nat, n >= ContextPages(J.plen),
         TotalPages(J.plen, J.limit) \in Nat,
         Wanted(t, J, n) <= Cardinality(t.unreferenced)
  PROVE  Wanted(u, J, n + 1) <= Cardinality(u.unreferenced)
<1>. DEFINE c == ContextPages(J.plen)
<1>1. n .. c - 1 = {} /\ n + 1 .. c - 1 = {}
  OBVIOUS
<1>2. Missing(t, J, n) = {} /\ Missing(u, J, n + 1) = {}
  BY <1>1 DEF Missing
<1>3. Larger(n, c) = n /\ Larger(n + 1, c) = n + 1
  BY DEF Larger
<1>4. /\ Wanted(t, J, n) = 0 + TotalPages(J.plen, J.limit) - n
      /\ Wanted(u, J, n + 1) = 0 + TotalPages(J.plen, J.limit) - (n + 1)
  BY <1>2, <1>3, FS_EmptySet DEF Wanted
<1>5. /\ Cardinality(u.unreferenced) = Cardinality(t.unreferenced) - 1
      /\ Cardinality(t.unreferenced) \in Nat
  BY UnreferencedLess
<1>. QED BY <1>4, <1>5

LEMMA InBooks ==
  ASSUME TableInv
  PROVE  /\ PagesTyped(table) /\ Sound(table)
         /\ \A q \in Page : table.page[q].refs \in Nat
         /\ IsFiniteSet(table.unreferenced)
         /\ Cardinality(table.unreferenced) \in Nat
         /\ table.unreferenced = {q \in Page : table.page[q].refs = 0}
         /\ table.referenced = {q \in Page : table.page[q].refs > 0}
<1>1. PagesTyped(table) /\ Sound(table)
  BY DEF TableInv, Typed, Sound, PagesTyped
<1>2. \A q \in Page : table.page[q].refs \in Nat
  BY <1>1, RecordFields
<1>3. /\ table.unreferenced = {q \in Page : table.page[q].refs = 0}
      /\ table.referenced = {q \in Page : table.page[q].refs > 0}
  BY <1>1 DEF Sound, PagesFiled
<1>4. IsFiniteSet(table.unreferenced)
  BY <1>3, PagesFinite
<1>. QED BY <1>1, <1>2, <1>3, <1>4, FS_CardinalityType

\* The job whose pages are claimed.
LEMMA Claimant ==
  ASSUME CacheInv, pc = "alloc"
  PROVE  LET J == job[cur] IN
         /\ cur \in Job /\ job \in [Job -> JobState] /\ J \in JobState
         /\ AllocIndex \in Nat /\ AllocIndex = Len(J.pages) /\ J.pages \in Seq(Page)
         /\ ContextPages(J.plen) \in Nat /\ TotalPages(J.plen, J.limit) \in Nat
         /\ ContextPages(J.plen) < TotalPages(J.plen, J.limit)
         /\ AllocIndex <= TotalPages(J.plen, J.limit)
<1>. DEFINE J == job[cur]
<1>1. cur \in Job /\ job \in [Job -> JobState]
  BY DEF CacheInv, BooksInv, JobInHand, Typed
<1>2. /\ J \in JobState /\ J.plen = Len(J.ids) /\ Len(J.ids) >= 1 /\ Len(J.ids) \in Nat
      /\ Len(J.pages) <= TotalPages(J.plen, J.limit)
  BY <1>1, InAlloc
<1>3. J.limit \in Nat /\ J.pages \in Seq(Page) /\ Len(J.pages) \in Nat
  BY <1>2, JobFields
<1>4. AllocIndex = Len(J.pages)
  BY DEF AllocIndex
<1>. HIDE DEF J
<1>5. J.plen \in Nat \ {0}
  BY <1>2
<1>6. /\ ContextPages(J.plen) \in Nat /\ TotalPages(J.plen, J.limit) \in Nat
      /\ ContextPages(J.plen) < TotalPages(J.plen, J.limit)
  BY <1>3, <1>5, Room
<1>. QED BY <1>1, <1>2, <1>3, <1>4, <1>6 DEF J

\* What the allocation takes pages from has all that are not referenced.
LEMMA Available ==
  ASSUME CacheInv, AllocInv, pc = "alloc"
  PROVE  AvailablePages \in Seq(Page) /\ table.unreferenced \subseteq Range(AvailablePages)
<1>1. CASE order = None
  <2>. DEFINE s == BuildEvictionOrder(table, PromptHashes(job[cur]))
  <2>1. ListsAll(s, table.unreferenced)
    BY EvictionAll, CacheTable
  <2>2. AvailablePages = s
    BY <1>1 DEF AvailablePages
  <2>. HIDE DEF s
  <2>3. s \in Seq(table.unreferenced) /\ Range(s) = table.unreferenced
    BY <2>1 DEF ListsAll, Lists
  <2>4. table.unreferenced \subseteq Page
    BY InBooks, CacheTable
  <2>. QED BY <2>2, <2>3, <2>4
<1>2. CASE order # None
  BY <1>2 DEF AllocInv, AvailablePages
<1>. QED BY <1>1, <1>2

\* It still has them when p was taken from it.
LEMMA OrderAfter ==
  ASSUME CacheInv, AllocInv, pc = "alloc", NEW p, NextEvictable(AvailablePages, p),
         NEW u, u.unreferenced = table.unreferenced \ {p}
  PROVE  order' \in Seq(Page) /\ u.unreferenced \subseteq Range(order')
<1>. DEFINE s == AvailablePages
<1>1. s \in Seq(Page) /\ table.unreferenced \subseteq Range(s)
  BY Available
<1>2. PICK i \in DOMAIN s : /\ p = s[i]
                            /\ \A m \in 1 .. i - 1 : table.page[s[m]].refs > 0
                            /\ order' = SubSeq(s, i + 1, Len(s))
  BY DEF NextEvictable
<1>. HIDE DEF s
<1>3. order' \in Seq(Page)
  BY <1>1, <1>2
<1>4. ASSUME NEW q \in u.unreferenced PROVE q \in Range(order')
  <2>1. q \in table.unreferenced /\ q # p /\ table.page[q].refs = 0
    BY <1>4, InBooks, CacheTable
  <2>2. PICK m \in DOMAIN s : s[m] = q
    BY <1>1, <2>1 DEF Range
  <2>3. i \in 1 .. Len(s) /\ m \in 1 .. Len(s) /\ Len(s) \in Nat
    BY <1>1
  <2>4. m # i /\ m \notin 1 .. i - 1
    BY <1>2, <2>1, <2>2
  <2>5. m > i /\ m - i \in 1 .. Len(s) - i
    BY <2>3, <2>4
  <2>6. Len(order') = Len(s) - i /\ order'[m - i] = s[m]
    <3>1. SubSeq(s, i + 1, Len(s)) = [x \in 1 .. Len(s) - i |-> s[x + i]]
      BY <1>1, <2>3
    <3>2. Len(SubSeq(s, i + 1, Len(s))) = Len(s) - i
      BY <1>1, <2>3
    <3>3. (m - i) + i = m
      BY <2>3
    <3>. QED BY <1>2, <2>5, <3>1, <3>2, <3>3
  <2>7. m - i \in DOMAIN order'
    BY <1>3, <2>5, <2>6
  <2>. QED BY <2>2, <2>6, <2>7 DEF Range
<1>. QED BY <1>3, <1>4

\* K still wants the pages that J wants.
SameWants(J, K) == \A t, n : Wanted(t, K, n) = Wanted(t, J, n)

\* The claimant has one page more, and the prompt it had.
LEMMA ClaimedOne ==
  ASSUME CacheInv, pc = "alloc", NEW p \in Page, Claim(p)
  PROVE  Len(job'[cur].pages) = AllocIndex + 1 /\ SameWants(job[cur], job'[cur])
<1>. DEFINE J == job[cur]
            K == job'[cur]
<1>1. cur \in Job /\ job \in [Job -> JobState] /\ J \in JobState /\ J.pages \in Seq(Page)
      /\ AllocIndex = Len(J.pages)
  BY Claimant
<1>2. K = [J EXCEPT !.pages = Append(J.pages, p)]
  BY <1>1 DEF Claim
<1>. HIDE DEF J, K
<1>3. K.ids = J.ids /\ K.plen = J.plen /\ K.limit = J.limit /\ K.pages = Append(J.pages, p)
  BY <1>1, <1>2 DEF JobState
<1>4. Len(K.pages) = AllocIndex + 1
  BY <1>1, <1>3
<1>5. \A i : PromptHash(K, i) = PromptHash(J, i)
  BY <1>3 DEF PromptHash
<1>6. \A t, n : Missing(t, K, n) = Missing(t, J, n)
  BY <1>3, <1>5 DEF Missing
<1>7. \A t, n : Wanted(t, K, n) = Wanted(t, J, n)
  BY <1>3, <1>6 DEF Wanted
<1>. QED BY <1>4, <1>7 DEF J, K, SameWants

\* One page is claimed: what is left is there, in the order.
LEMMA AllocClaimed ==
  ASSUME CacheInv, CacheInv', AllocInv, pc = "alloc", NEW p \in Page, Claim(p), cur' = cur,
         Counts(table, table', p, 1),
         Wanted(table', job[cur], AllocIndex + 1) <= Cardinality(table'.unreferenced),
         \/ order' = order
         \/ order' \in Seq(Page) /\ table'.unreferenced \subseteq Range(order')
  PROVE  AllocInv'
<1>1. Len(job'[cur].pages) = AllocIndex + 1 /\ SameWants(job[cur], job'[cur])
  BY ClaimedOne
<1>2. Wanted(table', job'[cur], AllocIndex + 1) = Wanted(table', job[cur], AllocIndex + 1)
  BY <1>1 DEF SameWants
<1>3. Wanted(table', job'[cur'], Len(job'[cur'].pages)) <= Cardinality(table'.unreferenced)
  BY <1>1, <1>2
<1>4. Sound(table) /\ Sound(table)' /\ \A q \in Page : table.page[q].refs \in Nat
  BY InBooks, CacheTable DEF CacheInv, BooksInv
<1>5. table'.unreferenced = table.unreferenced \ {p}
  BY <1>4, UnreferencedLess
<1>6. \/ order' = order
      \/ order' \in Seq(Page) /\ table'.unreferenced \subseteq Range(order')
  OBVIOUS
<1>7. /\ order' = None \/ order' \in Seq(Page)
      /\ order' # None => table'.unreferenced \subseteq Range(order')
  BY <1>5, <1>6 DEF AllocInv
<1>. QED BY <1>3, <1>7 DEF AllocInv

LEMMA ClaimHitAlloc ==
  ASSUME CacheInv, CacheInv', AllocInv, ClaimHit
  PROVE  AllocInv'
<1>. DEFINE n == AllocIndex
            J == job[cur]
            h == PromptHash(J, n)
<1>1. pc = "alloc" /\ n < ContextPages(J.plen) /\ cur' = cur /\ order' = order
  BY DEF ClaimHit
<1>2. PICK p \in Page : /\ table.page[p].phash = h
                        /\ table' = AddRef(table, p, serial + 1)
                        /\ Claim(p)
  BY DEF ClaimHit
<1>3. /\ Sound(table) /\ Sound(table)' /\ \A q \in Page : table.page[q].refs \in Nat
  BY InBooks, CacheTable DEF CacheInv, BooksInv
<1>4. Counts(table, table', p, 1) /\ SameHashes(table, table')
  BY <1>2, <1>3, AddRefSound
<1>5. table.page[p].refs = 0 => ~ Holds(table, table.referenced, h)
  <2>. SUFFICES ASSUME table.page[p].refs = 0, Holds(table, table.referenced, h) PROVE FALSE
    OBVIOUS
  <2>1. PICK q \in table.referenced : table.page[q].phash = h
    BY DEF Holds
  <2>2. q \in Page /\ table.page[q].refs > 0
    BY InBooks, CacheTable
  <2>3. q = p
    BY <1>2, <1>3, <2>1, <2>2 DEF Sound, HashesUnique
  <2>. QED BY <2>2, <2>3
<1>6. /\ n \in Nat /\ ContextPages(J.plen) \in Nat /\ TotalPages(J.plen, J.limit) \in Nat
      /\ Wanted(table, J, n) <= Cardinality(table.unreferenced)
  BY <1>1, Claimant DEF AllocInv
<1>7. /\ table'.page[p].phash = PromptHash(J, n)
      /\ \A q \in Page : table.page[q].refs > 0 => table'.page[q].phash = table.page[q].phash
  BY <1>2, <1>4 DEF SameHashes
<1>. HIDE DEF n, J
<1>8. Wanted(table', J, n + 1) <= Cardinality(table'.unreferenced)
  BY <1>1, <1>3, <1>4, <1>5, <1>6, <1>7, PromptClaimed DEF h
<1>. QED BY <1>1, <1>2, <1>4, <1>8, AllocClaimed DEF J, n

LEMMA ClaimMissAlloc ==
  ASSUME CacheInv, CacheInv', AllocInv, ClaimMiss
  PROVE  AllocInv'
<1>. DEFINE n == AllocIndex
            J == job[cur]
            h == PromptHash(J, n)
<1>1. /\ pc = "alloc" /\ n < ContextPages(J.plen) /\ cur' = cur
      /\ ~ Holds(table, Page, h) /\ serial \in Nat
  BY DEF ClaimMiss, CacheInv, Typed
<1>2. PICK p \in Page : /\ NextEvictable(AvailablePages, p)
                        /\ table' = AddRefClear(table, p, serial + 1, h)
                        /\ Claim(p)
  BY DEF ClaimMiss
<1>3. /\ Sound(table) /\ Sound(table)' /\ PagesTyped(table)
      /\ \A q \in Page : table.page[q].refs \in Nat
  BY InBooks, CacheTable DEF CacheInv, BooksInv
<1>4. table.page[p].refs = 0
  BY <1>2 DEF NextEvictable
<1>5. Counts(table, table', p, 1)
  BY <1>1, <1>2, <1>3, <1>4, AddRefClearSound
<1>6. h \in Hash
  BY <1>1, Claimant, AllocHash
<1>7. table'.page[p].phash = h /\ \A q \in Page \ {p} : table'.page[q] = table.page[q]
  BY <1>1, <1>2, <1>3, <1>4, <1>6, AddRefClearPages
<1>8. ~ Holds(table, table.referenced, h)
  <2>1. table.referenced \subseteq Page
    BY InBooks, CacheTable
  <2>. QED BY <1>1, <2>1 DEF Holds
<1>9. /\ n \in Nat /\ ContextPages(J.plen) \in Nat /\ TotalPages(J.plen, J.limit) \in Nat
      /\ Wanted(table, J, n) <= Cardinality(table.unreferenced)
  BY <1>1, Claimant DEF AllocInv
<1>10. table'.unreferenced = table.unreferenced \ {p}
  BY <1>3, <1>5, UnreferencedLess
<1>11. order' \in Seq(Page) /\ table'.unreferenced \subseteq Range(order')
  BY <1>1, <1>2, <1>10, OrderAfter
<1>. HIDE DEF n, J
<1>12. \A q \in Page : table.page[q].refs > 0 => table'.page[q].phash = table.page[q].phash
  BY <1>4, <1>7
<1>13. Wanted(table', J, n + 1) <= Cardinality(table'.unreferenced)
  BY <1>1, <1>3, <1>5, <1>7, <1>8, <1>9, <1>12, PromptClaimed DEF h
<1>. QED BY <1>1, <1>2, <1>5, <1>11, <1>13, AllocClaimed DEF J, n

LEMMA ClaimUniqueAlloc ==
  ASSUME CacheInv, CacheInv', AllocInv, ClaimUnique
  PROVE  AllocInv'
<1>. DEFINE n == AllocIndex
            J == job[cur]
<1>1. pc = "alloc" /\ n >= ContextPages(J.plen) /\ cur' = cur /\ ~ AllocDone
  BY DEF ClaimUnique
<1>2. PICK p \in Page :
        /\ NextEvictable(AvailablePages, p)
        /\ LET t == AddRefUnique(table, p, serial + 1)
               last == IF AllocIndex = 0 THEN p ELSE job[cur].pages[AllocIndex]
           IN table' = IF AllocIndex > 0 /\ Complete(t, last)
                       THEN [t EXCEPT !.page[p].prev = t.page[last].phash]
                       ELSE t
        /\ Claim(p)
  BY DEF ClaimUnique
<1>. DEFINE t == AddRefUnique(table, p, serial + 1)
<1>3. /\ Sound(table) /\ Sound(table)' /\ \A q \in Page : table.page[q].refs \in Nat
  BY InBooks, CacheTable DEF CacheInv, BooksInv
<1>4. table.page[p].refs = 0
  BY <1>2 DEF NextEvictable
<1>5. Sound(t) /\ Counts(table, t, p, 1)
  BY <1>3, <1>4, AddRefUniqueSound
<1>6. \A q \in Page : table'.page[q].refs = t.page[q].refs
  <2>1. CASE table' = t
    BY <2>1
  <2>2. CASE \E g : table' = [t EXCEPT !.page[p].prev = g]
    <3>1. PICK g : table' = [t EXCEPT !.page[p].prev = g]
      BY <2>2
    <3>. HIDE DEF t
    <3>2. IsCachePage(t.page[p]) /\ DOMAIN t.page = Page /\ "page" \in DOMAIN t
      BY <1>5 DEF Sound, IsTable
    <3>. QED BY <3>1, <3>2 DEF IsCachePage
  <2>. HIDE DEF t
  <2>. QED BY <1>2, <2>1, <2>2 DEF t
<1>. HIDE DEF t
<1>7. Counts(table, table', p, 1)
  BY <1>5, <1>6 DEF Counts
<1>8. table'.unreferenced = table.unreferenced \ {p}
  BY <1>3, <1>7, UnreferencedLess
<1>9. order' \in Seq(Page) /\ table'.unreferenced \subseteq Range(order')
  BY <1>1, <1>2, <1>8, OrderAfter
<1>10. /\ n \in Nat /\ ContextPages(J.plen) \in Nat /\ TotalPages(J.plen, J.limit) \in Nat
       /\ Wanted(table, J, n) <= Cardinality(table.unreferenced)
  BY <1>1, Claimant DEF AllocInv
<1>. HIDE DEF n, J
<1>11. Wanted(table', J, n + 1) <= Cardinality(table'.unreferenced)
  BY <1>1, <1>3, <1>4, <1>7, <1>10, OutputClaimed
<1>. QED BY <1>1, <1>2, <1>7, <1>9, <1>11, AllocClaimed DEF J, n

LEMMA StartJobAlloc ==
  ASSUME CacheInv, AllocInv, NEW j \in Job, StartJob(j)
  PROVE  AllocInv'
<1>. DEFINE J == job[j]
            K == [J EXCEPT !.stage = "active"]
<1>1. /\ pc' = "alloc" /\ cur' = j /\ order' = None /\ table' = table /\ J.stage = "pending"
      /\ NewPagesRequired(J) <= Cardinality(table.unreferenced)
      /\ job' = [job EXCEPT ![j] = K]
  BY DEF StartJob
<1>2. job \in [Job -> JobState] /\ J \in JobState /\ WaitOK(J)
  BY DEF CacheInv, Typed, JobFine, Fine
<1>3. J.pages = <<>> /\ J.plen = Len(J.ids) /\ Len(J.ids) >= 1 /\ Len(J.ids) \in Nat
      /\ J.limit \in Nat
  BY <1>1, <1>2, JobFields DEF WaitOK, Untouched, Opens
<1>4. /\ job'[j] = K /\ K.pages = <<>> /\ K.plen = J.plen /\ K.limit = J.limit
      /\ K.ids = J.ids
  BY <1>1, <1>2, <1>3 DEF JobState
<1>. HIDE DEF J, K
<1>5. ContextPages(J.plen) \in Nat
  <2>1. J.plen \in Nat \ {0}
    BY <1>3
  <2>. QED BY <1>3, <2>1, Room
<1>6. {PromptHash(K, i) : i \in 0 .. ContextPages(K.plen) - 1} = PromptHashes(J)
  <2>1. \A i : PromptHash(K, i) = PromptHash(J, i)
    BY <1>4 DEF PromptHash
  <2>. QED BY <1>4, <2>1 DEF PromptHashes
<1>7. Missing(table, K, 0) = {h \in PromptHashes(J) : ~ Holds(table, table.referenced, h)}
  BY <1>6 DEF Missing
<1>8. Larger(0, ContextPages(K.plen)) = ContextPages(J.plen)
  BY <1>4, <1>5 DEF Larger
<1>9. Wanted(table, K, 0) = NewPagesRequired(J)
  BY <1>4, <1>7, <1>8 DEF Wanted, NewPagesRequired
<1>10. Len(K.pages) = 0
  BY <1>4
<1>. QED BY <1>1, <1>4, <1>9, <1>10 DEF AllocInv

\* No other step is inside an allocation after it, or builds an eviction order.
Elsewhere == pc' # "alloc" /\ order' \in {None, order}

LEMMA ElsewhereAlloc ==
  ASSUME AllocInv, Elsewhere
  PROVE  AllocInv'
BY DEF AllocInv, Elsewhere

LEMMA CallingElsewhere == Calling \/ AllServed \/ Iterate \/ HashRaises => Elsewhere
<1>1. ASSUME Calling PROVE Elsewhere
  BY <1>1 DEF Calling, ClearQueue, Enqueue, CancelPending, CancelActive, Elsewhere
<1>2. ASSUME AllServed PROVE Elsewhere
  BY <1>2 DEF AllServed, vars, Elsewhere
<1>3. ASSUME Iterate PROVE Elsewhere
  BY <1>3 DEF Iterate, Elsewhere
<1>4. ASSUME HashRaises PROVE Elsewhere
  BY <1>4 DEF HashRaises, Raise, Elsewhere
<1>. QED BY <1>1, <1>2, <1>3, <1>4

LEMMA IngestingElsewhere == AllocFinish \/ StartsDone \/ Ingesting => Elsewhere
<1>1. ASSUME AllocFinish PROVE Elsewhere
  BY <1>1 DEF AllocFinish, Elsewhere
<1>2. ASSUME StartsDone PROVE Elsewhere
  BY <1>2 DEF StartsDone, Elsewhere
<1>3. ASSUME PrefillsDone PROVE Elsewhere
  BY SMTT(30), <1>3 DEF PrefillsDone, Elsewhere
<1>4. ASSUME NEW j \in Job, Prefill(j) PROVE Elsewhere
  BY <1>4 DEF Prefill, Elsewhere
<1>. QED BY <1>1, <1>2, <1>3, <1>4 DEF Ingesting

LEMMA GeneratingElsewhere == Generating => Elsewhere
<1>1. ASSUME NEW j \in Job, Forward(j) \/ NextRow(j) PROVE Elsewhere
  <2>1. CASE Forward(j)
    BY <2>1 DEF Forward, Elsewhere
  <2>2. CASE NextRow(j)
    BY <2>2 DEF NextRow, Elsewhere
  <2>. QED BY SMTT(30), <1>1, <2>1, <2>2
<1>2. ASSUME NEW t \in Sampled, Accept(t) PROVE Elsewhere
  BY <1>2 DEF Accept, Elsewhere
<1>3. ASSUME ForwardsDone \/ HashCompleted \/ RowsDone PROVE Elsewhere
  BY <1>3 DEF ForwardsDone, HashCompleted, RowsDone, Elsewhere
<1>4. ASSUME JudgeEos \/ JudgeRequeue \/ JudgeEmit \/ JudgeIncomplete PROVE Elsewhere
  BY <1>4 DEF JudgeEos, JudgeRequeue, JudgeEmit, JudgeIncomplete, Elsewhere
<1>5. ASSUME JudgeHold \/ JudgeMatch PROVE Elsewhere
  BY <1>5 DEF JudgeHold, JudgeMatch, Elsewhere
<1>6. ASSUME RewindPage \/ RewindDone \/ FlushDeferred \/ FlushDone PROVE Elsewhere
  BY <1>6 DEF RewindPage, RewindDone, FlushDeferred, FlushDone, Elsewhere
<1>7. ASSUME Verified \/ Unverified \/ RejectPage \/ RejectDone PROVE Elsewhere
  BY <1>7 DEF Verified, Unverified, RejectPage, RejectDone, Elsewhere
<1>. QED BY <1>1, <1>2, <1>3, <1>4, <1>5, <1>6, <1>7 DEF Generating

LEMMA ReleasingElsewhere == Releasing => Elsewhere
<1>1. ASSUME NEW j \in Job, ReleasePage(j) \/ ReleaseDone(j) PROVE Elsewhere
  BY <1>1 DEF ReleasePage, ReleaseDone, Elsewhere
<1>2. ASSUME IterationDone PROVE Elsewhere
  BY <1>2 DEF IterationDone, Elsewhere
<1>. QED BY <1>1, <1>2 DEF Releasing

LEMMA NextAlloc ==
  ASSUME CacheHolds, CacheHolds', AllocInv, [Next]_vars
  PROVE  AllocInv'
<1>1. ASSUME UNCHANGED vars PROVE AllocInv'
  BY <1>1 DEF vars, AllocInv, Wanted, Missing, Holds, PromptHash, TotalPages, ContextPages, Larger
<1>2. ASSUME \/ Calling \/ AllServed \/ Iterate \/ Ingesting \/ Generating \/ Releasing
             \/ HashRaises
      PROVE  AllocInv'
  <2>1. Elsewhere
    BY <1>2, CallingElsewhere, IngestingElsewhere, GeneratingElsewhere, ReleasingElsewhere
  <2>. QED BY <2>1, ElsewhereAlloc
<1>3. ASSUME Starting PROVE AllocInv'
  <2>. CacheInv /\ CacheInv'
    <3>1. pc # "raised" /\ pc' # "raised"
      BY <1>3 DEF Starting, StartJob, ClaimHit, ClaimMiss, ClaimUnique, AllocFinish, StartsDone
    <3>. QED BY <3>1 DEF CacheHolds
  <2>1. CASE \E j \in Job : StartJob(j)
    BY <2>1, StartJobAlloc
  <2>2. CASE ClaimHit
    BY <2>2, ClaimHitAlloc
  <2>3. CASE ClaimMiss
    BY <2>3, ClaimMissAlloc
  <2>4. CASE ClaimUnique
    BY <2>4, ClaimUniqueAlloc
  <2>5. CASE AllocFinish \/ StartsDone
    BY <2>5, IngestingElsewhere, ElsewhereAlloc
  <2>. QED BY <1>3, <2>1, <2>2, <2>3, <2>4, <2>5 DEF Starting
<1>. QED BY <1>1, <1>2, <1>3 DEF Next, Raised

\* An allocation that is not done finds a page: a cached one for the next hash of its
\* prompt, or an unreferenced one in the eviction order (NeverStarved); what
\* new_pages_required counted when the job was admitted is still there.
THEOREM AllocationNeverStarves ==
  ASSUME PromptsOpen, HoldsInside, RaisesUnwritten
  PROVE  Spec => []NeverStarved
<1>1. Init => AllocInv
  BY DEF Init, AllocInv
<1>2. CacheHolds /\ AllocInv => NeverStarved
  <2>. SUFFICES ASSUME CacheHolds, AllocInv, pc = "alloc", ~ AllocDone,
                       ~ (/\ AllocIndex < ContextPages(job[cur].plen)
                          /\ Holds(table, Page, PromptHash(job[cur], AllocIndex)))
                PROVE  \E i \in DOMAIN AvailablePages : table.page[AvailablePages[i]].refs = 0
    BY DEF NeverStarved
  <2>. CacheInv
    BY DEF CacheHolds
  <2>. DEFINE J == job[cur]
              n == AllocIndex
              c == ContextPages(J.plen)
              N == TotalPages(J.plen, J.limit)
  <2>1. /\ n \in Nat /\ n = Len(J.pages) /\ c \in Nat /\ N \in Nat /\ c < N /\ n <= N
    BY Claimant
  <2>2. n # N
    BY DEF AllocDone
  <2>3. /\ IsFiniteSet(Missing(table, J, n))
        /\ Cardinality(Missing(table, J, n)) \in Nat
    BY <2>1, MissingFinite
  <2>4. Wanted(table, J, n) >= 1
    <3>1. Wanted(table, J, n) = Cardinality(Missing(table, J, n)) + N - Larger(n, c)
      BY DEF Wanted
    <3>. HIDE DEF n, c, N, J
    <3>. QED BY <2>1, <2>2, <2>3, <3>1 DEF Larger
  <2>5. Wanted(table, J, n) <= Cardinality(table.unreferenced)
    BY <2>1 DEF AllocInv
  <2>6. /\ IsFiniteSet(table.unreferenced) /\ Cardinality(table.unreferenced) \in Nat
        /\ table.unreferenced = {q \in Page : table.page[q].refs = 0}
    BY InBooks, CacheTable
  <2>7. Wanted(table, J, n) \in Int
    <3>. HIDE DEF n, c, N, J
    <3>1. N \in Nat /\ Larger(n, c) \in Nat
      BY <2>1 DEF Larger
    <3>. QED BY <2>3, <3>1 DEF Wanted, N, c
  <2>8. table.unreferenced # {}
    BY <2>4, <2>5, <2>6, <2>7, FS_EmptySet
  <2>9. PICK q \in Page : q \in table.unreferenced /\ table.page[q].refs = 0
    BY <2>6, <2>8
  <2>10. q \in Range(AvailablePages)
    BY <2>9, Available
  <2>. QED BY <2>9, <2>10 DEF Range
<1>3. CacheHolds /\ CacheHolds' /\ AllocInv /\ [Next]_vars => AllocInv'
  BY NextAlloc
<1>. QED BY <1>1, <1>2, <1>3, CacheKept, PTL DEF Spec

-----------------------------------------------------------------------------
(* Types.                                                                  *)

\* The stages of iterate().
Stage == {"idle", "start", "alloc", "prefill", "forward", "sample", "judge",
          "complete", "rewind", "flush", "verify", "reject", "release", "raised"}

\* A value that is a function: where EXCEPT changes a table, it is still one.
IsFunction(t) == t = [x \in DOMAIN t |-> t[x]]

\* What CacheHolds leaves unsaid of types.
Stages == pc \in Stage /\ IsFunction(table)

LEMMA StillFunction ==
  ASSUME NEW t, NEW x
  PROVE  /\ IsFunction([t EXCEPT !.page = x])
         /\ \A r, u : IsFunction([page |-> x, referenced |-> r, unreferenced |-> u])
         /\ \A r : IsFunction([t EXCEPT !.page = x, !.referenced = r])
BY ZenonT(30) DEF IsFunction

LEMMA SubRefFunction ==
  ASSUME NEW t, NEW p
  PROVE  IsFunction(SubRef(t, p))
BY DEF SubRef, IsFunction

LEMMA UpdateHashFunction ==
  ASSUME NEW t, NEW p, NEW h
  PROVE  IsFunction(UpdateHash(t, p, h))
<1>. DEFINE x == [t.page EXCEPT ![p].phash = h, ![p].saved = None]
            r == Filed(Without(t.referenced, t.page, t.page[p].phash), x, p)
<1>1. UpdateHash(t, p, h) = [t EXCEPT !.page = x, !.referenced = r]
  BY DEF UpdateHash
<1>. HIDE DEF x, r
<1>2. IsFunction([t EXCEPT !.page = x, !.referenced = r])
  BY ONLY StillFunction, Zenon
<1>. QED BY ONLY <1>1, <1>2

LEMMA HashedFunction ==
  ASSUME NEW t, NEW J, NEW i, IsFunction(t)
  PROVE  IsFunction(Hashed(t, J, i).table)
<1>1. ASSUME NEW u, NEW g, NEW K, IsFunction(u) PROVE IsFunction(LinkNext(u, K, i, g))
  <2>1. CASE i + 1 < Len(K.pages)
    <3>. DEFINE d == Linked(u, K, i, g)
                x == [d.page EXCEPT ![K.pages[i + 2]].saved = None]
    <3>1. LinkNext(u, K, i, g) = [d EXCEPT !.page = x]
      BY <2>1 DEF LinkNext
    <3>. HIDE DEF d, x
    <3>2. IsFunction([d EXCEPT !.page = x])
      BY ONLY StillFunction, Zenon
    <3>. QED BY ONLY <3>1, <3>2
  <2>2. CASE ~ (i + 1 < Len(K.pages))
    BY <1>1, <2>2 DEF LinkNext
  <2>. QED BY <2>1, <2>2
<1>2. \A u, p, s : IsFunction(AddRef(u, p, s))
  BY DEF AddRef, MoveToReferenced, IsFunction
<1>3. \A u, p, g : IsFunction(UpdateHash(u, p, g))
  BY UpdateHashFunction
<1>4. \A g : IsFunction(GiveWay(t, J, i, g).table)
  BY <1>1, <1>2 DEF GiveWay
<1>5. \A g : IsFunction(Publish(t, J, i, g).table)
  BY <1>1, <1>3 DEF Publish
<1>. QED BY <1>4, <1>5 DEF Hashed

LEMMA ClaimFunction ==
  ASSUME ClaimHit \/ ClaimMiss \/ ClaimUnique
  PROVE  IsFunction(table')
<1>1. CASE ClaimHit
  BY <1>1 DEF ClaimHit, AddRef, MoveToReferenced, IsFunction
<1>2. CASE ClaimMiss
  BY ZenonT(30), <1>2 DEF ClaimMiss, AddRefClear, MoveToReferenced, IsFunction
<1>3. CASE ClaimUnique
  BY ZenonT(30), <1>3 DEF ClaimUnique, AddRefUnique, MoveToReferenced, IsFunction
<1>. QED BY SMTT(30), <1>1, <1>2, <1>3

LEMMA PassFunction ==
  ASSUME IsFunction(table), \E j \in Job : Prefill(j) \/ Forward(j)
  PROVE  IsFunction(table')
<1>1. ASSUME NEW j \in Job, Forward(j) PROVE IsFunction(table')
  BY ZenonT(30), <1>1 DEF Forward, IsFunction
<1>2. ASSUME NEW j \in Job, Prefill(j) PROVE IsFunction(table')
  BY ZenonT(30), <1>2 DEF Prefill, Ingested, IsFunction
<1>. QED BY <1>1, <1>2

LEMMA RollFunction ==
  ASSUME IsFunction(table), RewindPage \/ RejectPage \/ \E j \in Job : ReleasePage(j)
  PROVE  IsFunction(table')
<1>1. CASE RewindPage
  <2>1. PICK u, p, m : table' = [u EXCEPT !.page[p].kv = m, !.page[p].saved = None]
    BY <1>1 DEF RewindPage
  <2>. DEFINE x == [u.page EXCEPT ![p].kv = m]
              d == [u EXCEPT !.page = x]
              y == [d.page EXCEPT ![p].saved = None]
  <2>2. table' = [d EXCEPT !.page = y]
    BY <2>1
  <2>. HIDE DEF d, y
  <2>. QED BY ZenonT(30), <2>2, StillFunction
<1>2. CASE RejectPage
  BY <1>2 DEF RejectPage, IsFunction
<1>3. CASE \E j \in Job : ReleasePage(j)
  BY <1>3, SubRefFunction DEF ReleasePage
<1>. QED BY <1>1, <1>2, <1>3

LEMMA RaiseFunction ==
  ASSUME IsFunction(table), HashRaises
  PROVE  IsFunction(table')
<1>1. PICK i \in Unhashed : Raise(job[cur], i)
  BY DEF HashRaises
<1>2. table' = table \/ table' = SubRef(table, job[cur].pages[i + 1])
  BY <1>1 DEF Raise
<1>. QED BY <1>2, SubRefFunction

LEMMA AcceptFunction ==
  ASSUME IsFunction(table), HashCompleted \/ FlushDeferred \/ \E t \in Sampled : Accept(t)
  PROVE  IsFunction(table')
<1>1. CASE HashCompleted
  BY <1>1, HashedFunction DEF HashCompleted
<1>2. CASE FlushDeferred
  BY SMTT(30), <1>2, HashedFunction DEF FlushDeferred
<1>3. CASE \E t \in Sampled : Accept(t)
  BY ZenonT(30), <1>3 DEF Accept, Linked, IsFunction
<1>. QED BY <1>1, <1>2, <1>3

\* The steps that leave the table alone.
LEMMA QuietTable ==
  /\ Calling \/ AllServed \/ Iterate => table' = table
  /\ (\E j \in Job : StartJob(j)) \/ AllocFinish \/ StartsDone \/ PrefillsDone => table' = table
  /\ (\E j \in Job : NextRow(j)) \/ ForwardsDone \/ RowsDone => table' = table
  /\ JudgeEos \/ JudgeRequeue \/ JudgeEmit \/ JudgeIncomplete => table' = table
  /\ JudgeHold \/ JudgeMatch \/ RewindDone \/ FlushDone => table' = table
  /\ Verified \/ Unverified \/ RejectDone => table' = table
  /\ (\E j \in Job : ReleaseDone(j)) \/ IterationDone => table' = table
<1>1. Calling \/ AllServed \/ Iterate => table' = table
  BY DEF Calling, ClearQueue, Enqueue, CancelPending, CancelActive, AllServed, vars, Iterate
<1>2. (\E j \in Job : StartJob(j)) \/ AllocFinish \/ StartsDone \/ PrefillsDone => table' = table
  BY DEF StartJob, AllocFinish, StartsDone, PrefillsDone
<1>3. (\E j \in Job : NextRow(j)) \/ ForwardsDone \/ RowsDone => table' = table
  BY DEF NextRow, ForwardsDone, RowsDone
<1>4. JudgeEos \/ JudgeRequeue \/ JudgeEmit \/ JudgeIncomplete => table' = table
  BY DEF JudgeEos, JudgeRequeue, JudgeEmit, JudgeIncomplete
<1>5. JudgeHold \/ JudgeMatch \/ RewindDone \/ FlushDone => table' = table
  BY DEF JudgeHold, JudgeMatch, RewindDone, FlushDone
<1>6. Verified \/ Unverified \/ RejectDone => table' = table
  BY DEF Verified, Unverified, RejectDone
<1>7. (\E j \in Job : ReleaseDone(j)) \/ IterationDone => table' = table
  BY DEF ReleaseDone, IterationDone
<1>. QED BY <1>1, <1>2, <1>3, <1>4, <1>5, <1>6, <1>7

LEMMA StagesCalling ==
  ASSUME pc \in Stage, Calling \/ AllServed \/ Iterate \/ Starting \/ Ingesting \/ Releasing
  PROVE  pc' \in Stage
<1>1. CASE Calling \/ AllServed \/ Iterate
  BY ZenonT(30), <1>1 DEF Calling, ClearQueue, Enqueue, CancelPending, CancelActive, AllServed, vars,
              Iterate, Stage
<1>2. CASE Starting
  BY <1>2 DEF Starting, StartJob, ClaimHit, ClaimMiss, ClaimUnique, AllocFinish, StartsDone, Stage
<1>3. CASE Ingesting
  <2>1. ASSUME NEW j \in Job, Prefill(j) PROVE pc' = pc
    BY <2>1 DEF Prefill
  <2>2. PrefillsDone => pc' \in Stage
    BY SMTT(30) DEF PrefillsDone, Stage
  <2>. QED BY SMTT(30), <1>3, <2>1, <2>2 DEF Ingesting
<1>4. CASE Releasing
  BY <1>4 DEF Releasing, ReleasePage, ReleaseDone, IterationDone, Stage
<1>. QED BY SMTT(30), <1>1, <1>2, <1>3, <1>4

LEMMA StagesGenerating ==
  ASSUME pc \in Stage, Generating
  PROVE  pc' \in Stage
<1>1. ASSUME NEW j \in Job, Forward(j) \/ NextRow(j) PROVE pc' \in Stage
  BY <1>1 DEF Forward, NextRow, Stage
<1>2. ASSUME NEW t \in Sampled, Accept(t) PROVE pc' \in Stage
  BY <1>2 DEF Accept, Stage
<1>3. ASSUME ForwardsDone \/ HashCompleted \/ RowsDone PROVE pc' \in Stage
  BY <1>3 DEF ForwardsDone, HashCompleted, RowsDone, Stage
<1>4. ASSUME JudgeEos \/ JudgeRequeue \/ JudgeEmit \/ JudgeIncomplete PROVE pc' \in Stage
  BY <1>4 DEF JudgeEos, JudgeRequeue, JudgeEmit, JudgeIncomplete, Stage
<1>5. ASSUME JudgeHold \/ JudgeMatch PROVE pc' \in Stage
  BY SMTT(30), <1>5 DEF JudgeHold, JudgeMatch, Stage
<1>6. ASSUME RewindPage \/ RewindDone \/ FlushDeferred \/ FlushDone PROVE pc' \in Stage
  BY <1>6 DEF RewindPage, RewindDone, FlushDeferred, FlushDone, Stage
<1>7. ASSUME Verified \/ Unverified \/ RejectPage \/ RejectDone PROVE pc' \in Stage
  BY <1>7 DEF Verified, Unverified, RejectPage, RejectDone, Stage
<1>. QED BY <1>1, <1>2, <1>3, <1>4, <1>5, <1>6, <1>7 DEF Generating

LEMMA NextStages ==
  ASSUME Stages, [Next]_vars
  PROVE  Stages'
<1>1. pc' \in Stage
  <2>1. CASE UNCHANGED vars \/ Raised
    BY <2>1 DEF Stages, vars, Stage, Raised
  <2>2. CASE Generating
    BY <2>2, StagesGenerating DEF Stages
  <2>3. CASE Calling \/ AllServed \/ Iterate \/ Starting \/ Ingesting \/ Releasing
    BY <2>3, StagesCalling DEF Stages
  <2>4. CASE HashRaises
    BY <2>4 DEF HashRaises, Raise, Stage
  <2>. QED BY <2>1, <2>2, <2>3, <2>4 DEF Next
<1>2. IsFunction(table) /\ (table' = table => IsFunction(table'))
  BY DEF Stages
<1>3. IsFunction(table')
  <2>1. CASE UNCHANGED vars \/ Raised
    BY <1>2, <2>1 DEF vars, Raised
  <2>2. CASE Calling \/ AllServed \/ Iterate
    BY <1>2, <2>2, QuietTable
  <2>3. CASE Starting
    BY <1>2, <2>3, QuietTable, ClaimFunction DEF Starting
  <2>4. CASE Ingesting
    BY <1>2, <2>4, QuietTable, PassFunction DEF Ingesting
  <2>5. CASE Generating
    BY <1>2, <2>5, QuietTable, PassFunction, RollFunction, AcceptFunction DEF Generating
  <2>6. CASE Releasing
    BY <1>2, <2>6, QuietTable, RollFunction DEF Releasing
  <2>7. CASE HashRaises
    BY <1>2, <2>7, RaiseFunction
  <2>. QED BY <2>1, <2>2, <2>3, <2>4, <2>5, <2>6, <2>7 DEF Next
<1>. QED BY <1>1, <1>3 DEF Stages, Stage

\* Every variable keeps its type (TypeOK): no fill mark leaves its page, and no position,
\* limit or checkpoint offset falls below zero.
THEOREM CacheTyped ==
  ASSUME PromptsOpen, HoldsInside, RaisesUnwritten
  PROVE  Spec => []TypeOK
<1>1. Init => AllocInv
  BY DEF Init, AllocInv
<1>2. Init => Stages
  BY DEF Init, Stages, Stage, EmptyTable, IsFunction
<1>3. CacheHolds /\ AllocInv /\ Stages => TypeOK
  <2>. SUFFICES ASSUME CacheHolds, AllocInv, Stages PROVE TypeOK
    OBVIOUS
  <2>1. table \in Table
    <3>1. DOMAIN table = {"page", "referenced", "unreferenced"} /\ table.page \in [Page -> CachePage]
      BY DEF CacheHolds, TableInv, Typed, Sound, IsTable
    <3>2. table.referenced \in SUBSET Page /\ table.unreferenced \in SUBSET Page
      BY InBooks DEF CacheHolds
    <3>3. table = [x \in {"page", "referenced", "unreferenced"} |-> table[x]]
      BY <3>1 DEF Stages, IsFunction
    <3>4. table = [page |-> table.page, referenced |-> table.referenced,
                   unreferenced |-> table.unreferenced]
      BY <3>3
    <3>. QED BY <3>1, <3>2, <3>4 DEF Table
  <2>2. cur \in Job \cup {NoJob} /\ pc \in Stage
    BY DEF CacheHolds, Stages
  <2>3. order = None \/ order \in Seq(Page)
    BY DEF AllocInv
  <2>. QED BY <2>1, <2>2, <2>3 DEF TypeOK, CacheHolds, TableInv, Typed, Stage
<1>4. CacheHolds /\ CacheHolds' /\ AllocInv /\ [Next]_vars => AllocInv'
  BY NextAlloc
<1>5. Stages /\ [Next]_vars => Stages'
  BY NextStages
<1>. QED BY <1>1, <1>2, <1>3, <1>4, <1>5, CacheKept, PTL DEF Spec
=============================================================================
