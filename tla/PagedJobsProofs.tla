-------------------------- MODULE PagedJobsProofs --------------------------
(***************************************************************************)
(* What is proved of the page table and of PagedJobs, first part.          *)
(*  - Each operation of PageTable keeps the table's bookkeeping, and so    *)
(*    does every behaviour of PagedJobs: BooksKept and its consequences.   *)
(*  - The eviction order has every unreferenced page once: EvictionListed. *)
(*  - What the cache has to satisfy so that no job reads K/V of another    *)
(*    context (CacheInv), and the steps that keep it: those of sampling,   *)
(*    holding and rewinding tokens, of publishing pages and of leaving.    *)
(* All of it for every cache size, page size, set of jobs, prompts, draft  *)
(* width and chunking.  PagedCacheProofs has the second part.              *)
(***************************************************************************)
EXTENDS PagedJobs, FiniteSetTheorems, TLAPS

-----------------------------------------------------------------------------
(* What the operators of PageTable preserve, for every number of pages.    *)

\* A record with the fields of a CachePage, whose reference count is a number.
IsCachePage(r) ==
  /\ DOMAIN r = {"phash", "prev", "refs", "serial", "kv", "toks", "saved"}
  /\ r.refs \in Nat

\* A value with the shape of a Table.
IsTable(t) ==
  /\ DOMAIN t = {"page", "referenced", "unreferenced"}
  /\ DOMAIN t.page = Page
  /\ \A p \in Page : IsCachePage(t.page[p])

\* The bookkeeping of a table is in order.
Sound(t) == IsTable(t) /\ PagesFiled(t) /\ HashesUnique(t)

\* u has the pages of t, under the same hashes, with the same references.
SameBooks(t, u) ==
  /\ u.referenced = t.referenced
  /\ u.unreferenced = t.unreferenced
  /\ \A q \in Page : u.page[q].phash = t.page[q].phash /\ u.page[q].refs = t.page[q].refs

\* What is written about the contents of pages does not disturb the books.
LEMMA SameBooksSound ==
  ASSUME NEW t, NEW u, Sound(t), IsTable(u), SameBooks(t, u)
  PROVE  Sound(u)
BY DEF Sound, SameBooks, PagesFiled, HashesUnique

-----------------------------------------------------------------------------
\* A page leaves the dict it is filed in and is filed in the referenced one:
\* the move keeps the books if the page's new hash is nobody else's.
LEMMA MoveSound ==
  ASSUME NEW t, Sound(t), NEW p \in Page,
         NEW rec, IsCachePage(rec), rec.refs > 0,
         \A q \in Page \ {p} : t.page[q].phash # rec.phash,
         t.page[p].refs = 0
  PROVE  LET u == MoveToReferenced(t, p, rec) IN
         Sound(u) /\ u.page = [t.page EXCEPT ![p] = rec]
<1>. DEFINE u == MoveToReferenced(t, p, rec)
            pages == [t.page EXCEPT ![p] = rec]
<1>1. /\ DOMAIN pages = Page /\ pages[p] = rec
      /\ \A q \in Page \ {p} : pages[q] = t.page[q]
  BY DEF Sound, IsTable
<1>2. /\ u.page = pages
      /\ u.referenced = Filed(t.referenced, pages, p)
      /\ u.unreferenced = Without(t.unreferenced, t.page, t.page[p].phash)
      /\ DOMAIN u = {"page", "referenced", "unreferenced"}
  BY DEF MoveToReferenced
<1>. HIDE DEF u, pages
<1>3. IsTable(u)
  BY <1>1, <1>2 DEF Sound, IsTable
<1>4. HashesUnique(u)
  BY <1>1, <1>2 DEF Sound, HashesUnique
<1>5. u.referenced = t.referenced \cup {p}
  BY <1>1, <1>2 DEF Sound, Filed, Without, PagesFiled
<1>6. u.unreferenced = t.unreferenced \ {p}
  BY <1>2 DEF Sound, Without, PagesFiled, HashesUnique
<1>7. PagesFiled(u)
  <2>1. \A q \in Page : t.page[q].refs \in Nat
    BY DEF Sound, IsTable, IsCachePage
  <2>2. u.page[p].refs > 0 /\ u.page[p].refs # 0
    BY <1>1, <1>2 DEF IsCachePage
  <2>3. \A q \in Page \ {p} : u.page[q].refs = t.page[q].refs
    BY <1>1, <1>2
  <2>4. u.referenced = {q \in Page : u.page[q].refs > 0}
    BY <1>5, <2>2, <2>3 DEF Sound, PagesFiled
  <2>5. u.unreferenced = {q \in Page : u.page[q].refs = 0}
    BY SMTT(30), <1>6, <2>2, <2>3 DEF Sound, PagesFiled
  <2>. QED BY <2>4, <2>5 DEF PagesFiled
<1>. QED BY <1>2, <1>3, <1>4, <1>7 DEF Sound, u, pages

-----------------------------------------------------------------------------
(* Placeholders.                                                           *)

\* Some base is mentioned by no page: a page mentions at most four.
LEMMA FreshExists ==
  ASSUME NEW t
  PROVE  \E n \in 1 .. 4 * NumPages + 1 : n \notin Bases(t)
<1>. SUFFICES ASSUME \A n \in 1 .. 4 * NumPages + 1 : n \in Bases(t)
              PROVE  FALSE
  OBVIOUS
<1>. DEFINE S == 1 .. 4 * NumPages + 1
            T == 0 .. 4 * NumPages - 1
            BaseAt(p, c) ==
              IF c = 0 THEN t.page[p].phash.base
              ELSE IF c = 1 THEN t.page[p].prev.base
              ELSE IF c = 2 THEN t.page[p].saved.phash.base
              ELSE t.page[p].saved.prev.base
<1>1. \A n \in S : \E p \in Page, c \in 0 .. 3 : BaseAt(p, c) = n
  <2>. SUFFICES ASSUME NEW n \in S PROVE \E p \in Page, c \in 0 .. 3 : BaseAt(p, c) = n
    OBVIOUS
  <2>1. PICK p \in Page : n \in BasesOf(t.page[p])
    BY DEF Bases
  <2>2. \E c \in {0, 1, 2, 3} : BaseAt(p, c) = n
    BY <2>1 DEF BasesOf
  <2>. QED BY <2>2
<1>2. \A n \in S : \E m \in T : \E p \in Page, c \in 0 .. 3 : m = 4 * p + c /\ BaseAt(p, c) = n
  <2>. SUFFICES ASSUME NEW n \in S
                PROVE  \E m \in T : \E p \in Page, c \in 0 .. 3 :
                         m = 4 * p + c /\ BaseAt(p, c) = n
    OBVIOUS
  <2>1. PICK p \in Page, c \in 0 .. 3 : BaseAt(p, c) = n
    BY <1>1
  <2>2. 4 * p + c \in T
    BY NumPagesAssumption DEF Page
  <2>. QED BY <2>1, <2>2
<1>. DEFINE f == [n \in S |-> CHOOSE m \in T :
                   \E p \in Page, c \in 0 .. 3 : m = 4 * p + c /\ BaseAt(p, c) = n]
<1>3. \A n \in S : /\ f[n] \in T
                   /\ \E p \in Page, c \in 0 .. 3 : f[n] = 4 * p + c /\ BaseAt(p, c) = n
  <2>. SUFFICES ASSUME NEW n \in S
                PROVE  /\ f[n] \in T
                       /\ \E p \in Page, c \in 0 .. 3 : f[n] = 4 * p + c /\ BaseAt(p, c) = n
    OBVIOUS
  <2>. HIDE DEF BaseAt, T, S
  <2>. QED BY <1>2
<1>4. f \in [S -> T]
  BY <1>3
<1>5. /\ IsFiniteSet(S) /\ Cardinality(S) = 4 * NumPages + 1
      /\ IsFiniteSet(T) /\ Cardinality(T) = 4 * NumPages
  BY FS_Interval, NumPagesAssumption
<1>6. PICK x \in S, y \in S : x # y /\ f[x] = f[y]
  <2>. HIDE DEF f, S, T
  <2>. QED BY SMTT(30), <1>4, <1>5, NumPagesAssumption, FS_PigeonHole
<1>7. PICK p \in Page, c \in 0 .. 3 : f[x] = 4 * p + c /\ BaseAt(p, c) = x
  BY ZenonT(30), <1>3
<1>8. PICK q \in Page, d \in 0 .. 3 : f[y] = 4 * q + d /\ BaseAt(q, d) = y
  BY <1>3
<1>9. p = q /\ c = d
  <2>1. p \in Nat /\ q \in Nat
    BY DEF Page
  <2>2. 4 * p + c = 4 * q + d
    <3>. HIDE DEF f, BaseAt
    <3>. QED BY <1>6, <1>7, <1>8
  <2>. QED BY <2>1, <2>2
<1>. QED BY <1>6, <1>7, <1>8, <1>9

\* A fresh placeholder is the hash of no page.
LEMMA FreshHashUnused ==
  ASSUME NEW t
  PROVE  \A q \in Page : t.page[q].phash # FreshHash(t)
<1>. DEFINE n == CHOOSE n \in 1 .. 4 * NumPages + 1 : n \notin Bases(t)
<1>1. n \notin Bases(t)
  BY FreshExists
<1>2. FreshHash(t).base = n
  BY DEF FreshHash, Placeholder
<1>3. \A q \in Page : t.page[q].phash.base \in Bases(t)
  <2>. SUFFICES ASSUME NEW q \in Page PROVE t.page[q].phash.base \in Bases(t)
    OBVIOUS
  <2>1. t.page[q].phash.base \in BasesOf(t.page[q])
    BY DEF BasesOf
  <2>. HIDE DEF n
  <2>. QED BY <2>1 DEF Bases
<1>. QED BY <1>1, <1>2, <1>3

-----------------------------------------------------------------------------
(* The methods of CachePage.                                               *)

\* u counts d references to p more than t, and as many to every other page.
Counts(t, u, p, d) ==
  \A q \in Page : u.page[q].refs = IF q = p THEN t.page[q].refs + d ELSE t.page[q].refs

\* u counts one reference to p less.
Uncounts(t, u, p) ==
  \A q \in Page : u.page[q].refs = IF q = p THEN t.page[q].refs - 1 ELSE t.page[q].refs

SameHashes(t, u) == \A q \in Page : u.page[q].phash = t.page[q].phash

\* add_ref, of any page.
LEMMA AddRefSound ==
  ASSUME NEW t, Sound(t), NEW p \in Page, NEW s
  PROVE  LET u == AddRef(t, p, s) IN Sound(u) /\ Counts(t, u, p, 1) /\ SameHashes(t, u)
<1>. DEFINE rec == [t.page[p] EXCEPT !.refs = @ + 1,
                                 !.serial = IF s > @ THEN s ELSE @,
                                 !.saved = None]
            u == AddRef(t, p, s)
<1>1. /\ IsCachePage(rec) /\ rec.refs = t.page[p].refs + 1
      /\ rec.refs > 0 /\ rec.phash = t.page[p].phash
  BY DEF Sound, IsTable, IsCachePage
<1>. HIDE DEF rec
<1>2. CASE t.page[p].refs = 0
  <2>1. u = MoveToReferenced(t, p, rec)
    BY <1>2 DEF AddRef, rec
  <2>2. \A q \in Page \ {p} : t.page[q].phash # rec.phash
    BY <1>1 DEF Sound, HashesUnique
  <2>3. Sound(u) /\ u.page = [t.page EXCEPT ![p] = rec]
    BY <1>1, <1>2, <2>1, <2>2, MoveSound
  <2>. QED BY <1>1, <2>3 DEF Sound, IsTable, Counts, SameHashes
<1>3. CASE t.page[p].refs # 0
  <2>1. u = [t EXCEPT !.page[p] = rec]
    BY <1>3 DEF AddRef, rec
  <2>2. /\ DOMAIN u = DOMAIN t /\ DOMAIN u.page = Page
        /\ u.referenced = t.referenced /\ u.unreferenced = t.unreferenced
        /\ u.page[p] = rec /\ \A q \in Page \ {p} : u.page[q] = t.page[q]
    BY <2>1 DEF Sound, IsTable
  <2>. HIDE DEF u
  <2>3. IsTable(u)
    BY <1>1, <2>2 DEF Sound, IsTable
  <2>4. Counts(t, u, p, 1) /\ SameHashes(t, u)
    BY <1>1, <2>2 DEF Counts, SameHashes
  <2>5. HashesUnique(u)
    BY <2>4 DEF Sound, HashesUnique, SameHashes
  <2>6. \A q \in Page : /\ u.page[q].refs > 0 <=> t.page[q].refs > 0
                        /\ u.page[q].refs = 0 <=> t.page[q].refs = 0
    BY <1>3, <2>4 DEF Counts, Sound, IsTable, IsCachePage
  <2>7. PagesFiled(u)
    BY <2>2, <2>6 DEF Sound, PagesFiled
  <2>. QED BY <2>3, <2>4, <2>5, <2>7 DEF Sound, u
<1>. QED BY <1>2, <1>3

\* add_ref_clear, of an unreferenced page, for a hash no page has.
LEMMA AddRefClearSound ==
  ASSUME NEW t, Sound(t), NEW p \in Page, t.page[p].refs = 0, NEW s, NEW h,
         ~ Holds(t, Page, h)
  PROVE  LET u == AddRefClear(t, p, s, h) IN Sound(u) /\ Counts(t, u, p, 1)
<1>. DEFINE rec == [t.page[p] EXCEPT !.phash = h, !.refs = @ + 1, !.serial = s,
                                 !.prev = Root, !.saved = None, !.kv = 0]
            u == AddRefClear(t, p, s, h)
<1>1. IsCachePage(rec) /\ rec.refs = 1 /\ rec.phash = h
  BY DEF Sound, IsTable, IsCachePage
<1>. HIDE DEF rec
<1>2. u = MoveToReferenced(t, p, rec)
  BY DEF AddRefClear, rec
<1>3. \A q \in Page \ {p} : t.page[q].phash # rec.phash
  BY <1>1 DEF Holds
<1>4. Sound(u) /\ u.page = [t.page EXCEPT ![p] = rec]
  BY <1>1, <1>2, <1>3, MoveSound
<1>. QED BY <1>1, <1>4 DEF Sound, IsTable, Counts

\* add_ref_unique, of an unreferenced page.
LEMMA AddRefUniqueSound ==
  ASSUME NEW t, Sound(t), NEW p \in Page, t.page[p].refs = 0, NEW s
  PROVE  LET u == AddRefUnique(t, p, s) IN Sound(u) /\ Counts(t, u, p, 1)
<1>. DEFINE old == t.page[p]
            rec == [old EXCEPT !.saved = [phash |-> old.phash, prev |-> old.prev,
                                          serial |-> old.serial, kv |-> old.kv],
                               !.phash = FreshHash(t), !.refs = @ + 1, !.serial = s,
                               !.prev = Root, !.kv = 0]
            u == AddRefUnique(t, p, s)
<1>1. IsCachePage(rec) /\ rec.refs = 1 /\ rec.phash = FreshHash(t)
  BY DEF Sound, IsTable, IsCachePage
<1>2. u = MoveToReferenced(t, p, rec)
  BY DEF AddRefUnique
<1>. HIDE DEF rec
<1>3. \A q \in Page \ {p} : t.page[q].phash # rec.phash
  BY <1>1, FreshHashUnused
<1>4. Sound(u) /\ u.page = [t.page EXCEPT ![p] = rec]
  BY <1>1, <1>2, <1>3, MoveSound
<1>. QED BY <1>1, <1>4 DEF Sound, IsTable, Counts

\* sub_ref, of a referenced page: it is released, reverted, or renamed when the
\* hash it would revert to was taken meanwhile.
LEMMA SubRefSound ==
  ASSUME NEW t, Sound(t), NEW p \in Page, t.page[p].refs > 0
  PROVE  LET u == SubRef(t, p) IN Sound(u) /\ Uncounts(t, u, p)
<1>. DEFINE u == SubRef(t, p)
<1>1. CASE t.page[p].refs > 1
  <2>. DEFINE rec == [t.page[p] EXCEPT !.refs = @ - 1]
  <2>1. u = [t EXCEPT !.page[p] = rec]
    BY <1>1 DEF SubRef
  <2>2. IsCachePage(rec) /\ rec.phash = t.page[p].phash /\ rec.refs = t.page[p].refs - 1
    BY <1>1 DEF Sound, IsTable, IsCachePage
  <2>3. /\ DOMAIN u = DOMAIN t /\ DOMAIN u.page = Page
        /\ u.referenced = t.referenced /\ u.unreferenced = t.unreferenced
        /\ u.page[p] = rec /\ \A q \in Page \ {p} : u.page[q] = t.page[q]
    BY <2>1 DEF Sound, IsTable
  <2>. HIDE DEF u, rec
  <2>4. IsTable(u)
    BY <2>2, <2>3 DEF Sound, IsTable
  <2>5. \A q \in Page : u.page[q].phash = t.page[q].phash
    BY <2>2, <2>3
  <2>6. HashesUnique(u)
    BY <2>5 DEF Sound, HashesUnique
  <2>7. \A q \in Page : u.page[q].refs = IF q = p THEN t.page[q].refs - 1 ELSE t.page[q].refs
    BY <2>2, <2>3
  <2>8. \A q \in Page : /\ u.page[q].refs > 0 <=> t.page[q].refs > 0
                        /\ u.page[q].refs = 0 <=> t.page[q].refs = 0
    BY <1>1, <2>7 DEF Sound, IsTable, IsCachePage
  <2>9. PagesFiled(u)
    BY <2>3, <2>8 DEF Sound, PagesFiled
  <2>. QED BY <2>4, <2>6, <2>7, <2>9 DEF Sound, Uncounts, u
<1>2. CASE t.page[p].refs = 1
  <2>. DEFINE left  == Without(t.referenced, t.page, t.page[p].phash)
              rec   == [Reverted(t.page[p]) EXCEPT !.refs = @ - 1]
              clash == Holds(t, left \cup t.unreferenced, rec.phash)
              final == IF clash THEN [rec EXCEPT !.phash = FreshHash(t), !.prev = Root]
                       ELSE rec
              pages == [t.page EXCEPT ![p] = final]
  <2>1. u = [ page |-> pages, referenced |-> left,
              unreferenced |-> Filed(t.unreferenced, pages, p) ]
    BY <1>2 DEF SubRef
  <2>2. IsCachePage(rec) /\ rec.refs = 0
    BY <1>2 DEF Sound, IsTable, IsCachePage, Reverted
  <2>. HIDE DEF rec
  <2>3. IsCachePage(final) /\ final.refs = 0
    BY <2>2 DEF IsCachePage
  <2>4. left = t.referenced \ {p}
    BY DEF Sound, Without, PagesFiled, HashesUnique
  <2>5. \A q \in Page : q # p => q \in left \cup t.unreferenced
    BY <2>4 DEF Sound, PagesFiled, IsTable, IsCachePage
  <2>6. \A q \in Page \ {p} : t.page[q].phash # final.phash
    <3>1. CASE clash
      <4>1. final.phash = FreshHash(t)
        BY <2>2, <3>1 DEF IsCachePage
      <4>. QED BY <4>1, FreshHashUnused
    <3>2. CASE ~ clash
      <4>1. final = rec
        BY <3>2
      <4>2. \A q \in left \cup t.unreferenced : t.page[q].phash # rec.phash
        BY <3>2 DEF Holds
      <4>. QED BY <4>1, <4>2, <2>5
    <3>. QED BY <3>1, <3>2
  <2>. HIDE DEF final
  <2>7. /\ DOMAIN pages = Page /\ pages[p] = final
        /\ \A q \in Page \ {p} : pages[q] = t.page[q]
    BY DEF Sound, IsTable
  <2>8. /\ DOMAIN u = {"page", "referenced", "unreferenced"}
        /\ u.page = pages /\ u.referenced = left
        /\ u.unreferenced = Filed(t.unreferenced, pages, p)
    BY <2>1
  <2>. HIDE DEF u, pages, left
  <2>9. IsTable(u)
    BY <2>3, <2>7, <2>8 DEF Sound, IsTable
  <2>10. HashesUnique(u)
    BY <2>6, <2>7, <2>8 DEF Sound, HashesUnique
  <2>11. u.unreferenced = t.unreferenced \cup {p}
    BY <2>6, <2>7, <2>8 DEF Sound, Filed, Without, PagesFiled
  <2>12. \A q \in Page : u.page[q].refs = IF q = p THEN t.page[q].refs - 1 ELSE t.page[q].refs
    BY <1>2, <2>3, <2>7, <2>8
  <2>13. u.referenced = {q \in Page : u.page[q].refs > 0}
    BY <1>2, <2>4, <2>8, <2>12 DEF Sound, PagesFiled
  <2>14. u.unreferenced = {q \in Page : u.page[q].refs = 0}
    BY <1>2, <2>11, <2>12 DEF Sound, PagesFiled
  <2>. QED BY <2>9, <2>10, <2>12, <2>13, <2>14 DEF Sound, Uncounts, PagesFiled, u
<1>. QED BY <1>1, <1>2 DEF Sound, IsTable, IsCachePage

\* clear, of an unreferenced page: its hash is nobody's afterwards.
LEMMA ClearSound ==
  ASSUME NEW t, Sound(t), NEW p \in Page, t.page[p].refs = 0
  PROVE  LET u == Clear(t, p) IN
         /\ Sound(u)
         /\ \A q \in Page : u.page[q].refs = t.page[q].refs
         /\ \A q \in Page \ {p} : u.page[q].phash = t.page[q].phash
         /\ u.page[p].phash # t.page[p].phash
<1>. DEFINE u == Clear(t, p)
            blank == [i \in 0 .. PageSize - 1 |-> None]
            pages == [t.page EXCEPT
                        ![p].phash = FreshHash(t), ![p].prev = Root, ![p].kv = 0,
                        ![p].toks = blank, ![p].saved = None]
<1>1. /\ DOMAIN pages = Page
      /\ \A q \in Page \ {p} : pages[q] = t.page[q]
      /\ IsCachePage(pages[p]) /\ pages[p].refs = t.page[p].refs
      /\ pages[p].phash = FreshHash(t)
  <2>. HIDE DEF blank
  <2>. QED BY DEF Sound, IsTable, IsCachePage
<1>2. u = [t EXCEPT !.page = pages,
                    !.unreferenced = Filed(Without(@, t.page, t.page[p].phash), pages, p)]
  BY DEF Clear
<1>. HIDE DEF pages
<1>3. /\ DOMAIN u = DOMAIN t /\ u.page = pages /\ u.referenced = t.referenced
      /\ u.unreferenced = Filed(Without(t.unreferenced, t.page, t.page[p].phash), pages, p)
  BY <1>2 DEF Sound, IsTable
<1>. HIDE DEF u
<1>4. \A q \in Page : t.page[q].phash # pages[p].phash
  BY <1>1, FreshHashUnused
<1>5. u.unreferenced = t.unreferenced
  BY <1>1, <1>3, <1>4 DEF Sound, Filed, Without, PagesFiled, HashesUnique
<1>6. IsTable(u)
  BY <1>1, <1>3 DEF Sound, IsTable
<1>7. HashesUnique(u)
  BY <1>1, <1>3, <1>4 DEF Sound, HashesUnique
<1>8. \A q \in Page : u.page[q].refs = t.page[q].refs
  BY <1>1, <1>3
<1>9. PagesFiled(u)
  BY <1>3, <1>5, <1>8 DEF Sound, PagesFiled
<1>. QED BY <1>1, <1>3, <1>4, <1>6, <1>7, <1>8, <1>9 DEF Sound, u

\* update_hash, of a referenced page, to a hash no other page has.
LEMMA UpdateHashSound ==
  ASSUME NEW t, Sound(t), NEW p \in Page, t.page[p].refs > 0, NEW h,
         \A q \in Page \ {p} : t.page[q].phash # h
  PROVE  LET u == UpdateHash(t, p, h) IN
         Sound(u) /\ \A q \in Page : u.page[q].refs = t.page[q].refs
<1>. DEFINE u == UpdateHash(t, p, h)
            pages == [t.page EXCEPT ![p].phash = h, ![p].saved = None]
<1>1. /\ DOMAIN pages = Page
      /\ \A q \in Page \ {p} : pages[q] = t.page[q]
      /\ IsCachePage(pages[p]) /\ pages[p].refs = t.page[p].refs /\ pages[p].phash = h
  BY DEF Sound, IsTable, IsCachePage
<1>2. u = [t EXCEPT !.page = pages,
                    !.referenced = Filed(Without(@, t.page, t.page[p].phash), pages, p)]
  BY DEF UpdateHash
<1>. HIDE DEF pages
<1>3. /\ DOMAIN u = DOMAIN t /\ u.page = pages /\ u.unreferenced = t.unreferenced
      /\ u.referenced = Filed(Without(t.referenced, t.page, t.page[p].phash), pages, p)
  BY <1>2 DEF Sound, IsTable
<1>. HIDE DEF u
<1>4. u.referenced = t.referenced
  BY <1>1, <1>3 DEF Sound, Filed, Without, PagesFiled, HashesUnique
<1>5. IsTable(u)
  BY <1>1, <1>3 DEF Sound, IsTable
<1>6. HashesUnique(u)
  BY <1>1, <1>3 DEF Sound, HashesUnique
<1>7. \A q \in Page : u.page[q].refs = t.page[q].refs
  BY <1>1, <1>3
<1>8. PagesFiled(u)
  BY <1>3, <1>4, <1>7 DEF Sound, PagesFiled
<1>. QED BY <1>5, <1>6, <1>7, <1>8 DEF Sound, u

-----------------------------------------------------------------------------
(* Reference counts and block tables.                                      *)

\* Where page p occurs in the block tables f of the jobs.
PlacesIn(f, p) ==
  UNION { {<<j, i>> : i \in {m \in DOMAIN f[j] : f[j][m] = p}} : j \in Job }

\* The reference counts of t are the numbers of those places.
CountsAt(t, f, p) ==
  /\ IsFiniteSet(PlacesIn(f, p))
  /\ t.page[p].refs = Cardinality(PlacesIn(f, p))

CountsMatch(t, f) == \A p \in Page : CountsAt(t, f, p)

LEMMA PlacesMember ==
  ASSUME NEW f, NEW p, NEW x
  PROVE  x \in PlacesIn(f, p) <=>
           \E j \in Job : \E i \in DOMAIN f[j] : f[j][i] = p /\ x = <<j, i>>
BY DEF PlacesIn

-----------------------------------------------------------------------------
(* One page more, one less, and one for another, in a block table.         *)

LEMMA PageAppended ==
  ASSUME NEW f \in [Job -> Seq(Page)], NEW t, NEW u, CountsMatch(t, f),
         NEW j \in Job, NEW p \in Page, Counts(t, u, p, 1)
  PROVE  CountsMatch(u, [f EXCEPT ![j] = Append(@, p)])
<1>. DEFINE g == [f EXCEPT ![j] = Append(@, p)]
            x == <<j, Len(f[j]) + 1>>
<1>1. /\ g \in [Job -> Seq(Page)]
      /\ \A l \in Job \ {j} : g[l] = f[l]
      /\ DOMAIN g[j] = DOMAIN f[j] \cup {Len(f[j]) + 1}
      /\ Len(f[j]) + 1 \notin DOMAIN f[j]
      /\ \A i \in DOMAIN f[j] : g[j][i] = f[j][i]
      /\ g[j][Len(f[j]) + 1] = p
  OBVIOUS
<1>. HIDE DEF g
<1>2. \A q : x \notin PlacesIn(f, q)
  BY <1>1, PlacesMember
<1>3. PlacesIn(g, p) = PlacesIn(f, p) \cup {x}
  BY <1>1, PlacesMember
<1>4. \A q \in Page \ {p} : PlacesIn(g, q) = PlacesIn(f, q)
  <2>. SUFFICES ASSUME NEW q \in Page \ {p}, NEW y
                PROVE  y \in PlacesIn(g, q) <=> y \in PlacesIn(f, q)
    OBVIOUS
  <2>1. y \in PlacesIn(g, q) => y \in PlacesIn(f, q)
    BY SMTT(30), <1>1, PlacesMember
  <2>2. ASSUME y \in PlacesIn(f, q) PROVE y \in PlacesIn(g, q)
    <3>. PICK l \in Job : \E i \in DOMAIN f[l] : f[l][i] = q /\ y = <<l, i>>
      BY <2>2, PlacesMember
    <3>1. PICK i \in DOMAIN f[l] : f[l][i] = q /\ y = <<l, i>>
      OBVIOUS
    <3>2. i \in DOMAIN g[l] /\ g[l][i] = q
      BY <1>1, <3>1
    <3>. QED BY <3>1, <3>2, PlacesMember
  <2>. QED BY <2>1, <2>2
<1>5. /\ IsFiniteSet(PlacesIn(g, p))
      /\ Cardinality(PlacesIn(g, p)) = Cardinality(PlacesIn(f, p)) + 1
  <2>1. IsFiniteSet(PlacesIn(f, p)) /\ x \notin PlacesIn(f, p)
    BY <1>2 DEF CountsMatch, CountsAt
  <2>. HIDE DEF x
  <2>. QED BY <1>3, <2>1, FS_AddElement
<1>. QED BY <1>4, <1>5 DEF CountsMatch, CountsAt, Counts, g

LEMMA PageReplaced ==
  ASSUME NEW f \in [Job -> Seq(Page)], NEW t, NEW v, NEW u, CountsMatch(t, f),
         NEW j \in Job, NEW i \in DOMAIN f[j], NEW w \in Page,
         Uncounts(t, v, f[j][i]),
         Counts(v, u, w, 1)
  PROVE  CountsMatch(u, [f EXCEPT ![j] = [@ EXCEPT ![i] = w]])
<1>. DEFINE g == [f EXCEPT ![j] = [@ EXCEPT ![i] = w]]
            x == <<j, i>>
            Kept(q) == PlacesIn(f, q) \ {x}
<1>1. /\ g \in [Job -> Seq(Page)]
      /\ \A l \in Job \ {j} : g[l] = f[l]
      /\ DOMAIN g[j] = DOMAIN f[j]
      /\ \A m \in DOMAIN f[j] \ {i} : g[j][m] = f[j][m]
      /\ g[j][i] = w
  OBVIOUS
<1>. HIDE DEF g
<1>2. \A q : x \in PlacesIn(f, q) <=> q = f[j][i]
  BY PlacesMember
<1>3. \A q \in Page : /\ IsFiniteSet(Kept(q))
                      /\ v.page[q].refs = Cardinality(Kept(q))
  <2>. SUFFICES ASSUME NEW q \in Page
                PROVE  /\ IsFiniteSet(Kept(q))
                       /\ v.page[q].refs = Cardinality(Kept(q))
    OBVIOUS
  <2>1. /\ IsFiniteSet(PlacesIn(f, q))
        /\ t.page[q].refs = Cardinality(PlacesIn(f, q))
    BY DEF CountsMatch, CountsAt
  <2>2. /\ IsFiniteSet(Kept(q))
        /\ Cardinality(Kept(q)) = IF x \in PlacesIn(f, q)
                                 THEN Cardinality(PlacesIn(f, q)) - 1
                                 ELSE Cardinality(PlacesIn(f, q))
    BY <2>1, FS_RemoveElement
  <2>. QED BY <1>2, <2>1, <2>2 DEF Uncounts
<1>4. PlacesIn(g, w) = Kept(w) \cup {x}
  <2>. SUFFICES ASSUME NEW y
                PROVE  y \in PlacesIn(g, w) <=> y \in Kept(w) \cup {x}
    OBVIOUS
  <2>1. y \in PlacesIn(g, w) => y \in Kept(w) \cup {x}
    BY <1>1, PlacesMember
  <2>2. y \in Kept(w) \cup {x} => y \in PlacesIn(g, w)
    BY <1>1, PlacesMember
  <2>. QED BY <2>1, <2>2
<1>5. \A q \in Page \ {w} : PlacesIn(g, q) = Kept(q)
  <2>. SUFFICES ASSUME NEW q \in Page \ {w}, NEW y
                PROVE  y \in PlacesIn(g, q) <=> y \in Kept(q)
    OBVIOUS
  <2>1. y \in PlacesIn(g, q) => y \in Kept(q)
    BY <1>1, PlacesMember
  <2>2. y \in Kept(q) => y \in PlacesIn(g, q)
    BY <1>1, PlacesMember
  <2>. QED BY <2>1, <2>2
<1>6. /\ IsFiniteSet(PlacesIn(g, w))
      /\ Cardinality(PlacesIn(g, w)) = Cardinality(Kept(w)) + 1
  <2>1. IsFiniteSet(Kept(w)) /\ x \notin Kept(w)
    BY <1>3
  <2>. HIDE DEF Kept, x
  <2>. QED BY <1>4, <2>1, FS_AddElement
<1>7. \A q \in Page : CountsAt(u, g, q)
  <2>. HIDE DEF Kept
  <2>1. CountsAt(u, g, w)
    BY <1>3, <1>6 DEF Counts, CountsAt
  <2>2. \A q \in Page \ {w} : CountsAt(u, g, q)
    BY <1>3, <1>5 DEF Counts, CountsAt
  <2>. QED BY <2>1, <2>2
<1>. QED BY <1>7 DEF CountsMatch, g

LEMMA PageReleased ==
  ASSUME NEW f \in [Job -> Seq(Page)], NEW t, NEW u, CountsMatch(t, f),
         NEW j \in Job, f[j] # <<>>,
         Uncounts(t, u, Head(f[j]))
  PROVE  CountsMatch(u, [f EXCEPT ![j] = Tail(@)])
<1>. DEFINE g == [f EXCEPT ![j] = Tail(@)]
            x == <<j, 1>>
            Kept(q) == PlacesIn(f, q) \ {x}
<1>1. /\ g \in [Job -> Seq(Page)]
      /\ \A l \in Job \ {j} : g[l] = f[l]
      /\ 1 \in DOMAIN f[j] /\ f[j][1] = Head(f[j])
      /\ \A i \in DOMAIN g[j] : i \in Nat /\ i > 0 /\ i + 1 \in DOMAIN f[j]
                                /\ g[j][i] = f[j][i + 1]
      /\ \A i \in DOMAIN f[j] : i # 1 => i \in Nat /\ i - 1 \in DOMAIN g[j]
  OBVIOUS
<1>. HIDE DEF g
<1>2. \A q : x \in PlacesIn(f, q) <=> q = Head(f[j])
  BY <1>1, PlacesMember
<1>3. \A q \in Page : /\ IsFiniteSet(Kept(q))
                      /\ u.page[q].refs = Cardinality(Kept(q))
  <2>. SUFFICES ASSUME NEW q \in Page
                PROVE  /\ IsFiniteSet(Kept(q))
                       /\ u.page[q].refs = Cardinality(Kept(q))
    OBVIOUS
  <2>1. /\ IsFiniteSet(PlacesIn(f, q))
        /\ t.page[q].refs = Cardinality(PlacesIn(f, q))
    BY DEF CountsMatch, CountsAt
  <2>2. /\ IsFiniteSet(Kept(q))
        /\ Cardinality(Kept(q)) = IF x \in PlacesIn(f, q)
                                 THEN Cardinality(PlacesIn(f, q)) - 1
                                 ELSE Cardinality(PlacesIn(f, q))
    BY <2>1, FS_RemoveElement
  <2>. QED BY <1>2, <2>1, <2>2 DEF Uncounts
<1>4. \A q \in Page : ExistsBijection(Kept(q), PlacesIn(g, q))
  <2>. SUFFICES ASSUME NEW q \in Page
                PROVE  ExistsBijection(Kept(q), PlacesIn(g, q))
    OBVIOUS
  <2>. DEFINE S == Kept(q)
              T == PlacesIn(g, q)
              Moved(l, i) == IF l = j THEN <<l, i - 1>> ELSE <<l, i>>
              F == [y \in S |-> Moved(y[1], y[2])]
  <2>1. \A y \in S : \E l \in Job : \E i \in DOMAIN f[l] :
           y = <<l, i>> /\ f[l][i] = q /\ (l = j => i # 1)
    BY PlacesMember
  <2>2. \A y \in S : F[y] \in T
    <3>. SUFFICES ASSUME NEW y \in S PROVE F[y] \in T
      OBVIOUS
    <3>. PICK l \in Job : \E i \in DOMAIN f[l] :
            y = <<l, i>> /\ f[l][i] = q /\ (l = j => i # 1)
      BY <2>1
    <3>1. PICK i \in DOMAIN f[l] : y = <<l, i>> /\ f[l][i] = q /\ (l = j => i # 1)
      OBVIOUS
    <3>2. F[y] = Moved(l, i)
      BY <3>1
    <3>. HIDE DEF F, S
    <3>3. CASE l = j
      <4>. DEFINE n == i - 1
      <4>1. n \in DOMAIN g[j] /\ g[j][n] = q
        BY <1>1, <3>1, <3>3
      <4>2. F[y] = <<j, n>>
        BY <3>2, <3>3
      <4>. HIDE DEF Moved, n
      <4>. QED BY <4>1, <4>2, PlacesMember
    <3>4. CASE l # j
      <4>1. i \in DOMAIN g[l] /\ g[l][i] = q /\ F[y] = <<l, i>>
        BY <1>1, <3>1, <3>2, <3>4
      <4>. QED BY <4>1, PlacesMember
    <3>. QED BY <3>3, <3>4
  <2>3. \A y, z \in S : F[y] = F[z] => y = z
    <3>. SUFFICES ASSUME NEW y \in S, NEW z \in S, F[y] = F[z] PROVE y = z
      OBVIOUS
    <3>. PICK l \in Job, m \in Job : /\ \E i \in DOMAIN f[l] : y = <<l, i>>
                                     /\ \E n \in DOMAIN f[m] : z = <<m, n>>
      BY <2>1
    <3>1. PICK i \in DOMAIN f[l] : y = <<l, i>>
      OBVIOUS
    <3>2. PICK n \in DOMAIN f[m] : z = <<m, n>>
      OBVIOUS
    <3>3. Moved(l, i) = Moved(m, n)
      BY <3>1, <3>2
    <3>4. i \in Int /\ n \in Int
      OBVIOUS
    <3>5. l = m /\ i = n
      BY <3>3, <3>4
    <3>. QED BY <3>1, <3>2, <3>5
  <2>4. \A z \in T : \E y \in S : F[y] = z
    <3>. SUFFICES ASSUME NEW z \in T PROVE \E y \in S : F[y] = z
      OBVIOUS
    <3>. PICK l \in Job : \E i \in DOMAIN g[l] : g[l][i] = q /\ z = <<l, i>>
      BY PlacesMember
    <3>1. PICK i \in DOMAIN g[l] : g[l][i] = q /\ z = <<l, i>>
      OBVIOUS
    <3>2. CASE l = j
      <4>1. /\ i \in Nat /\ i > 0 /\ i + 1 \in DOMAIN f[j]
            /\ f[j][i + 1] = q
        BY <1>1, <3>1, <3>2
      <4>2. <<j, i + 1>> \in S
        BY <4>1, PlacesMember
      <4>3. F[<<j, i + 1>>] = z
        BY <3>1, <3>2, <4>1, <4>2
      <4>. QED BY <4>2, <4>3
    <3>3. CASE l # j
      <4>1. <<l, i>> \in S
        BY <1>1, <3>1, <3>3, PlacesMember
      <4>2. F[<<l, i>>] = z
        BY <3>1, <3>3, <4>1
      <4>. QED BY <4>1, <4>2
    <3>. QED BY <3>2, <3>3
  <2>5. F \in Bijection(S, T)
    <3>1. F \in [S -> T]
      BY <2>2
    <3>. HIDE DEF F, S, T
    <3>. QED BY <3>1, <2>3, <2>4 DEF Bijection, Injection, Surjection, IsInjective
  <2>. QED BY <2>5 DEF ExistsBijection
<1>5. \A q \in Page : CountsAt(u, g, q)
  <2>. SUFFICES ASSUME NEW q \in Page PROVE CountsAt(u, g, q)
    OBVIOUS
  <2>1. /\ IsFiniteSet(PlacesIn(g, q))
        /\ Cardinality(PlacesIn(g, q)) = Cardinality(Kept(q))
    BY <1>3, <1>4, FS_Bijection
  <2>. QED BY <1>3, <2>1 DEF CountsAt
<1>. QED BY <1>5 DEF CountsMatch, g

-----------------------------------------------------------------------------
(* Job.hash_completed_page.                                                *)

\* A record with the fields of a Job whose block table names pages.
IsJob(J) ==
  /\ DOMAIN J = {"stage", "ids", "plen", "limit", "pos", "pages", "offset",
                 "deferred", "explored", "draft", "fate"}
  /\ J.pages \in Seq(Page)

\* Linking a page to the one before it does not disturb the books.
LEMMA LinkedBooks ==
  ASSUME NEW t, IsTable(t), NEW J, NEW i, NEW h
  PROVE  LET u == Linked(t, J, i, h) IN IsTable(u) /\ SameBooks(t, u)
<1>. DEFINE x == J.pages[i + 2]
            r == [t.page[x] EXCEPT !.prev = h]
            v == [t EXCEPT !.page[x] = r]
<1>1. DOMAIN r = DOMAIN t.page[x] /\ (x \in Page => IsCachePage(r) /\
        r.phash = t.page[x].phash /\ r.refs = t.page[x].refs)
  BY DEF IsTable, IsCachePage
<1>2. /\ DOMAIN v = DOMAIN t /\ DOMAIN v.page = Page
      /\ v.referenced = t.referenced /\ v.unreferenced = t.unreferenced
      /\ \A q \in Page : v.page[q] = IF q = x THEN r ELSE t.page[q]
  <2>. HIDE DEF x, r
  <2>. QED BY DEF IsTable
<1>3. Linked(t, J, i, h) = v \/ Linked(t, J, i, h) = t
  BY DEF Linked
<1>4. IsTable(v) /\ SameBooks(t, v)
  <2>. HIDE DEF x, r, v
  <2>. QED BY <1>1, <1>2 DEF IsTable, SameBooks
<1>5. SameBooks(t, t)
  BY DEF SameBooks
<1>. HIDE DEF v
<1>. QED BY <1>3, <1>4, <1>5

LEMMA LinkNextBooks ==
  ASSUME NEW t, IsTable(t), NEW J, NEW i, NEW h
  PROVE  LET u == LinkNext(t, J, i, h) IN IsTable(u) /\ SameBooks(t, u)
<1>. DEFINE m == Linked(t, J, i, h)
            x == J.pages[i + 2]
            r == [m.page[x] EXCEPT !.saved = None]
            v == [m EXCEPT !.page[x] = r]
<1>1. IsTable(m) /\ SameBooks(t, m)
  BY LinkedBooks
<1>2. LinkNext(t, J, i, h) = v \/ LinkNext(t, J, i, h) = t
  BY DEF LinkNext
<1>. HIDE DEF m
<1>3. DOMAIN r = DOMAIN m.page[x] /\ (x \in Page => IsCachePage(r) /\
        r.phash = m.page[x].phash /\ r.refs = m.page[x].refs)
  BY <1>1 DEF IsTable, IsCachePage
<1>4. /\ DOMAIN v = DOMAIN m /\ DOMAIN v.page = Page
      /\ v.referenced = m.referenced /\ v.unreferenced = m.unreferenced
      /\ \A q \in Page : v.page[q] = IF q = x THEN r ELSE m.page[q]
  <2>. HIDE DEF x, r
  <2>. QED BY <1>1 DEF IsTable
<1>5. IsTable(v) /\ SameBooks(t, v)
  <2>. HIDE DEF x, r, v
  <2>. QED BY <1>1, <1>3, <1>4 DEF IsTable, SameBooks
<1>6. SameBooks(t, t)
  BY DEF SameBooks
<1>. HIDE DEF v
<1>. QED BY <1>2, <1>5, <1>6

\* What does not disturb the books does not disturb the counts.
LEMMA SameBooksCounts ==
  ASSUME NEW t, NEW u, SameBooks(t, u), NEW f, CountsMatch(t, f)
  PROVE  CountsMatch(u, f)
BY DEF SameBooks, CountsMatch, CountsAt

\* A page in a block table is referenced.
LEMMA PlacedReferenced ==
  ASSUME NEW t, NEW f \in [Job -> Seq(Page)], CountsMatch(t, f),
         NEW j \in Job, NEW i \in DOMAIN f[j]
  PROVE  f[j][i] \in Page /\ t.page[f[j][i]].refs > 0
<1>1. f[j][i] \in Page
  OBVIOUS
<1>2. <<j, i>> \in PlacesIn(f, f[j][i])
  BY PlacesMember
<1>3. /\ IsFiniteSet(PlacesIn(f, f[j][i]))
      /\ t.page[f[j][i]].refs = Cardinality(PlacesIn(f, f[j][i]))
  BY <1>1 DEF CountsMatch, CountsAt
<1>4. Cardinality(PlacesIn(f, f[j][i])) \in Nat /\ Cardinality(PlacesIn(f, f[j][i])) # 0
  BY <1>2, <1>3, FS_CardinalityType, FS_EmptySet
<1>. QED BY <1>1, <1>3, <1>4

\* The page gives way to its twin, or takes its hash from whoever is cached
\* under it: either way the books are in order and every reference counted.
LEMMA HashedSound ==
  ASSUME NEW t, Sound(t), NEW f \in [Job -> Seq(Page)], CountsMatch(t, f),
         NEW j \in Job, NEW J, IsJob(J), J.pages = f[j], NEW i, Hashable(t, J, i)
  PROVE  LET after == Hashed(t, J, i) IN
         /\ Sound(after.table)
         /\ IsJob(after.job) /\ after.job.stage = J.stage
         /\ CountsMatch(after.table, [f EXCEPT ![j] = after.job.pages])
         /\ J.pages # <<>>
<1>. DEFINE h == FinalHash(t, J, i)
            own == J.pages[i + 1]
            released == SubRef(t, own)
            after == Hashed(t, J, i)
<1>1. i + 1 \in DOMAIN f[j] /\ own = f[j][i + 1] /\ J.pages # <<>>
  BY DEF Hashable
<1>2. own \in Page /\ t.page[own].refs > 0
  BY <1>1, PlacedReferenced
<1>3. CASE Holds(t, t.referenced, h)
  <2>. DEFINE twin == Lookup(released, released.referenced, h)
              J2 == [J EXCEPT !.pages[i + 1] = twin]
              u == AddRef(released, twin, t.page[own].serial)
  <2>1. Sound(released) /\ Uncounts(t, released, own)
    BY <1>2, SubRefSound
  <2>2. \E q \in released.referenced : released.page[q].phash = h
    BY <1>3 DEF Hashable
  <2>3. twin \in released.referenced
    <3>. HIDE DEF released, h
    <3>. QED BY SMTT(30), <2>2 DEF Lookup
  <2>4. twin \in Page
    BY <2>1, <2>3 DEF Sound, PagesFiled
  <2>. HIDE DEF twin, released
  <2>5. Sound(u) /\ Counts(released, u, twin, 1)
    BY <2>1, <2>4, AddRefSound
  <2>6. CountsMatch(u, [f EXCEPT ![j] = [@ EXCEPT ![i + 1] = twin]])
    <3>. DEFINE m == i + 1
    <3>. HIDE DEF own, u
    <3>1. m \in DOMAIN f[j] /\ own = f[j][m]
      BY <1>1
    <3>. HIDE DEF m
    <3>2. CountsMatch(u, [f EXCEPT ![j] = [@ EXCEPT ![m] = twin]])
      BY <2>1, <2>4, <2>5, <3>1, PageReplaced
    <3>. QED BY <3>2 DEF m
  <2>7. IsJob(J2) /\ J2.stage = J.stage /\ J2.pages = [f[j] EXCEPT ![i + 1] = twin]
    BY <1>1, <2>4 DEF IsJob
  <2>8. after = [table |-> LinkNext(u, J2, i, h), job |-> J2]
    BY <1>3 DEF Hashed, GiveWay, twin, released
  <2>. HIDE DEF u, J2
  <2>9. IsTable(after.table) /\ SameBooks(u, after.table)
    BY <2>5, <2>8, LinkNextBooks DEF Sound
  <2>10. Sound(after.table)
    BY <2>5, <2>9, SameBooksSound
  <2>11. after.job = J2 /\ after.job.pages = [f[j] EXCEPT ![i + 1] = twin]
    BY <2>7, <2>8
  <2>. HIDE DEF after
  <2>12. CountsMatch(after.table, [f EXCEPT ![j] = after.job.pages])
    BY <2>6, <2>9, <2>11, SameBooksCounts
  <2>. QED BY <1>1, <2>7, <2>10, <2>11, <2>12 DEF after
<1>4. CASE ~ Holds(t, t.referenced, h)
  <2>. DEFINE old == Lookup(t, t.unreferenced, h)
              cleared == IF Holds(t, t.unreferenced, h) THEN Clear(t, old) ELSE t
              u == UpdateHash(cleared, own, h)
  <2>1. \A q \in Page : q \in t.referenced \/ q \in t.unreferenced
    BY DEF Sound, PagesFiled, IsTable, IsCachePage
  <2>2. /\ Sound(cleared)
        /\ \A q \in Page : cleared.page[q].refs = t.page[q].refs
        /\ \A q \in Page : cleared.page[q].phash # h
    <3>1. CASE Holds(t, t.unreferenced, h)
      <4>1. old \in t.unreferenced /\ t.page[old].phash = h
        <5>1. \E q \in t.unreferenced : t.page[q].phash = h
          BY <3>1 DEF Holds
        <5>. HIDE DEF h
        <5>. QED BY <5>1 DEF Lookup
      <4>2. old \in Page /\ t.page[old].refs = 0
        BY <4>1 DEF Sound, PagesFiled
      <4>. HIDE DEF old, h
      <4>3. /\ Sound(Clear(t, old))
            /\ \A q \in Page : Clear(t, old).page[q].refs = t.page[q].refs
            /\ \A q \in Page \ {old} : Clear(t, old).page[q].phash = t.page[q].phash
            /\ Clear(t, old).page[old].phash # h
        BY <4>1, <4>2, ClearSound
      <4>4. \A q \in Page \ {old} : t.page[q].phash # h
        BY <4>1, <4>2 DEF Sound, HashesUnique
      <4>. QED BY <3>1, <4>3, <4>4
    <3>2. CASE ~ Holds(t, t.unreferenced, h)
      BY <1>4, <2>1, <3>2 DEF Holds
    <3>. QED BY <3>1, <3>2
  <2>3. after = [table |-> LinkNext(u, J, i, h), job |-> J]
    BY <1>4 DEF Hashed, Publish
  <2>. HIDE DEF cleared
  <2>4. Sound(u) /\ \A q \in Page : u.page[q].refs = cleared.page[q].refs
    BY <1>2, <2>2, UpdateHashSound
  <2>. HIDE DEF u
  <2>5. IsTable(after.table) /\ SameBooks(u, after.table)
    BY <2>3, <2>4, LinkNextBooks DEF Sound
  <2>6. Sound(after.table)
    BY <2>4, <2>5, SameBooksSound
  <2>7. CountsMatch(after.table, f)
    BY <2>2, <2>4, <2>5 DEF CountsMatch, CountsAt, SameBooks
  <2>8. after.job = J
    BY <2>3
  <2>9. [f EXCEPT ![j] = after.job.pages] = f
    BY <2>8
  <2>. HIDE DEF after
  <2>10. CountsMatch(after.table, [f EXCEPT ![j] = after.job.pages])
    BY <2>7, <2>9
  <2>. QED BY <1>1, <2>6, <2>8, <2>10 DEF after
<1>. QED BY <1>3, <1>4

-----------------------------------------------------------------------------
(* The inductive invariant.                                                *)

\* The block tables of the jobs.
BlockTables == [j \in Job |-> job[j].pages]

JobsShaped == DOMAIN job = Job /\ \A j \in Job : IsJob(job[j])

\* Only an active job has pages.
PagesOfActive == \A j \in Job : job[j].stage # "active" => job[j].pages = <<>>

\* A job is being worked on where the code has one in hand.
JobInHand ==
  /\ cur \in Job \cup {NoJob}
  /\ pc \in {"alloc", "complete", "judge", "rewind", "flush", "verify", "reject"} =>
       cur \in Job
  /\ pc = "alloc" => job[cur].stage = "active"

\* The books are in order, and they are the jobs' block tables.
BooksInv ==
  /\ Sound(table)
  /\ CountsMatch(table, BlockTables)
  /\ JobsShaped
  /\ PagesOfActive
  /\ JobInHand

LEMMA FreshIsJob == IsJob(Fresh) /\ Fresh.pages = <<>>
BY DEF Fresh, IsJob

LEMMA InitBooks == Init => BooksInv
<1>. SUFFICES ASSUME Init PROVE BooksInv
  OBVIOUS
<1>1. \A p, q \in Page : Placeholder(p + 1) = Placeholder(q + 1) => p = q
  BY DEF Placeholder, Page
<1>2. /\ DOMAIN table = {"page", "referenced", "unreferenced"}
      /\ DOMAIN table.page = Page
      /\ \A p \in Page : IsCachePage(table.page[p]) /\ table.page[p].refs = 0
                        /\ table.page[p].phash = Placeholder(p + 1)
      /\ table.referenced = {} /\ table.unreferenced = Page
  BY DEF Init, EmptyTable, IsCachePage
<1>3. Sound(table)
  BY <1>1, <1>2 DEF Sound, IsTable, PagesFiled, HashesUnique
<1>4. JobsShaped /\ PagesOfActive /\ \A j \in Job : job[j].pages = <<>>
  BY FreshIsJob DEF Init, JobsShaped, PagesOfActive
<1>5. \A p : PlacesIn(BlockTables, p) = {}
  <2>1. \A j \in Job : DOMAIN BlockTables[j] = {}
    BY <1>4 DEF BlockTables
  <2>2. \A p, x : x \notin PlacesIn(BlockTables, p)
    BY <2>1, PlacesMember
  <2>. QED BY <2>2
<1>6. CountsMatch(table, BlockTables)
  BY <1>2, <1>5, FS_EmptySet DEF CountsMatch, CountsAt
<1>7. JobInHand
  BY DEF Init, JobInHand
<1>. QED BY <1>3, <1>4, <1>6, <1>7 DEF BooksInv

LEMMA BlockTablesType ==
  ASSUME JobsShaped
  PROVE  BlockTables \in [Job -> Seq(Page)]
BY DEF JobsShaped, IsJob, BlockTables

\* A step that leaves the books and the block tables alone.
LEMMA Framed ==
  ASSUME BooksInv, IsTable(table'), SameBooks(table, table'), JobsShaped',
         \A l \in Job : job'[l].pages = job[l].pages, PagesOfActive', JobInHand'
  PROVE  BooksInv'
<1>1. BlockTables' = BlockTables
  BY DEF BlockTables
<1>2. Sound(table')
  BY SameBooksSound DEF BooksInv
<1>3. CountsMatch(table', BlockTables')
  BY <1>1, SameBooksCounts DEF BooksInv
<1>. QED BY <1>2, <1>3 DEF BooksInv

LEMMA Unchanged ==
  ASSUME BooksInv, table' = table
  PROVE  IsTable(table') /\ SameBooks(table, table')
BY DEF BooksInv, Sound, SameBooks

\* A step that changes one job's record, but neither its pages nor, if it has
\* any, its stage.
LEMMA OneJob ==
  ASSUME BooksInv, NEW j \in Job, NEW J, IsJob(J), job' = [job EXCEPT ![j] = J],
         J.pages = job[j].pages, J.stage = job[j].stage \/ J.pages = <<>>
  PROVE  JobsShaped' /\ PagesOfActive' /\ \A l \in Job : job'[l].pages = job[l].pages
BY DEF BooksInv, JobsShaped, PagesOfActive

LEMMA SameJobs ==
  ASSUME BooksInv, job' = job
  PROVE  JobsShaped' /\ PagesOfActive' /\ \A l \in Job : job'[l].pages = job[l].pages
BY DEF BooksInv, JobsShaped, PagesOfActive

\* A step that puts the block table of an active job in step with the table.
LEMMA Repaged ==
  ASSUME BooksInv, NEW j \in Job, NEW J, IsJob(J), job' = [job EXCEPT ![j] = J],
         J.stage = "active", Sound(table'),
         CountsMatch(table', [BlockTables EXCEPT ![j] = J.pages]), JobInHand'
  PROVE  BooksInv'
<1>1. JobsShaped' /\ PagesOfActive'
  BY DEF BooksInv, JobsShaped, PagesOfActive
<1>2. BlockTables' = [BlockTables EXCEPT ![j] = J.pages]
  BY DEF BooksInv, JobsShaped, BlockTables
<1>. QED BY <1>1, <1>2 DEF BooksInv

-----------------------------------------------------------------------------
(* Callers.                                                                *)

LEMMA CallerBooks ==
  ASSUME BooksInv, NEW j \in Job, Enqueue(j) \/ CancelPending(j) \/ CancelActive(j)
  PROVE  BooksInv'
<1>1. CASE Enqueue(j)
  <2>. PICK prompt \in Prompts, asked \in MaxNew :
         job' = [job EXCEPT ![j] =
           [Fresh EXCEPT !.stage = "pending", !.ids = prompt, !.plen = Len(prompt),
                         !.limit = CappedLimit(Len(prompt), asked)]]
    BY <1>1 DEF Enqueue
  <2>. DEFINE J == [Fresh EXCEPT !.stage = "pending", !.ids = prompt, !.plen = Len(prompt),
                                 !.limit = CappedLimit(Len(prompt), asked)]
  <2>1. job' = [job EXCEPT ![j] = J] /\ IsJob(J) /\ J.pages = <<>>
    BY FreshIsJob DEF IsJob
  <2>. HIDE DEF J
  <2>2. job[j].pages = <<>>
    BY <1>1 DEF Enqueue, BooksInv, PagesOfActive
  <2>3. JobsShaped' /\ PagesOfActive' /\ \A l \in Job : job'[l].pages = job[l].pages
    BY <2>1, <2>2, OneJob
  <2>4. table' = table /\ JobInHand'
    BY <1>1 DEF Enqueue, BooksInv, JobInHand
  <2>. QED BY <2>3, <2>4, Unchanged, Framed
<1>2. CASE CancelPending(j)
  <2>. DEFINE J == [Fresh EXCEPT !.stage = "done"]
  <2>1. job' = [job EXCEPT ![j] = J] /\ IsJob(J) /\ J.pages = <<>>
    BY <1>2, FreshIsJob DEF CancelPending, IsJob
  <2>2. job[j].pages = <<>>
    BY <1>2 DEF CancelPending, BooksInv, PagesOfActive
  <2>. HIDE DEF J
  <2>3. JobsShaped' /\ PagesOfActive' /\ \A l \in Job : job'[l].pages = job[l].pages
    BY <2>1, <2>2, OneJob
  <2>4. table' = table /\ JobInHand'
    BY <1>2 DEF CancelPending, BooksInv, JobInHand
  <2>. QED BY <2>3, <2>4, Unchanged, Framed
<1>3. CASE CancelActive(j)
  <2>. DEFINE J == [job[j] EXCEPT !.fate = "cancelled"]
  <2>1. /\ job' = [job EXCEPT ![j] = J] /\ IsJob(J)
        /\ J.pages = job[j].pages /\ J.stage = job[j].stage
    BY <1>3 DEF CancelActive, BooksInv, JobsShaped, IsJob
  <2>. HIDE DEF J
  <2>2. JobsShaped' /\ PagesOfActive' /\ \A l \in Job : job'[l].pages = job[l].pages
    BY <2>1, OneJob
  <2>3. table' = table /\ JobInHand'
    BY <1>3 DEF CancelActive, BooksInv, JobInHand
  <2>. QED BY <2>2, <2>3, Unchanged, Framed
<1>. QED BY <1>1, <1>2, <1>3

LEMMA CallingBooks ==
  ASSUME BooksInv, Calling
  PROVE  BooksInv'
<1>1. ASSUME ClearQueue PROVE BooksInv'
  <2>. DEFINE cancelled(j) == [job[j] EXCEPT !.fate = "cancelled"]
              dropped == [Fresh EXCEPT !.stage = "done"]
              after(j) == CASE j \in Active  -> cancelled(j)
                            [] j \in Pending -> dropped
                            [] OTHER        -> job[j]
  <2>1. table' = table /\ pc' = "release" /\ cur' = cur /\ job' = [j \in Job |-> after(j)]
    BY <1>1 DEF ClearQueue
  <2>2. ASSUME NEW j \in Job
        PROVE  /\ IsJob(cancelled(j)) /\ cancelled(j).pages = job[j].pages
               /\ cancelled(j).stage = job[j].stage
    BY DEF BooksInv, JobsShaped, IsJob
  <2>3. IsJob(dropped) /\ dropped.pages = <<>>
    BY FreshIsJob DEF IsJob
  <2>. HIDE DEF cancelled, dropped
  <2>4. ASSUME NEW j \in Job
        PROVE  /\ IsJob(after(j)) /\ after(j).pages = job[j].pages
               /\ after(j).stage = job[j].stage \/ after(j).pages = <<>>
    <3>. j \notin Active \/ j \notin Pending
      BY DEF Active, Pending
    <3>1. CASE j \in Active
      <4>1. after(j) = cancelled(j)
        BY <3>1
      <4>. HIDE DEF after
      <4>. QED BY <2>2, <4>1
    <3>2. CASE j \in Pending
      <4>1. job[j].pages = <<>>
        BY <3>2 DEF Pending, BooksInv, PagesOfActive
      <4>2. after(j) = dropped
        BY <3>2
      <4>. HIDE DEF after
      <4>. QED BY <2>3, <4>1, <4>2
    <3>3. CASE j \notin Active \cup Pending
      <4>1. after(j) = job[j]
        BY <3>3
      <4>. HIDE DEF after
      <4>. QED BY <4>1 DEF BooksInv, JobsShaped
    <3>. QED BY <3>1, <3>2, <3>3
  <2>. HIDE DEF after
  <2>5. JobsShaped' /\ PagesOfActive' /\ \A j \in Job : job'[j].pages = job[j].pages
    BY <2>1, <2>4 DEF BooksInv, JobsShaped, PagesOfActive
  <2>6. JobInHand'
    BY <2>1 DEF BooksInv, JobInHand
  <2>. QED BY <2>1, <2>5, <2>6, Unchanged, Framed
<1>2. ASSUME NEW j \in Job, Enqueue(j) \/ CancelPending(j) \/ CancelActive(j)
      PROVE  BooksInv'
  BY <1>2, CallerBooks
<1>. QED BY <1>1, <1>2 DEF Calling

-----------------------------------------------------------------------------
(* Allocation.                                                             *)

\* What the three ways to claim a page have in common.
LEMMA Claimed ==
  ASSUME BooksInv, pc = "alloc", NEW p \in Page, Claim(p), UNCHANGED <<pc, cur>>,
         NEW u, Sound(u), Counts(table, u, p, 1),
         IsTable(table'), SameBooks(u, table')
  PROVE  BooksInv'
<1>. DEFINE J == [job[cur] EXCEPT !.pages = Append(@, p)]
<1>1. cur \in Job /\ job[cur].stage = "active" /\ IsJob(job[cur])
  BY DEF BooksInv, JobInHand, JobsShaped
<1>2. /\ job' = [job EXCEPT ![cur] = J] /\ IsJob(J) /\ J.stage = "active"
      /\ J.pages = Append(job[cur].pages, p)
  BY <1>1 DEF Claim, IsJob
<1>. HIDE DEF J
<1>3. JobInHand'
  BY <1>1, <1>2 DEF BooksInv, JobInHand, JobsShaped
<1>4. Sound(table')
  BY SameBooksSound
<1>5. CountsMatch(table', [BlockTables EXCEPT ![cur] = Append(@, p)])
  <2>1. BlockTables \in [Job -> Seq(Page)] /\ CountsMatch(table, BlockTables)
    BY BlockTablesType DEF BooksInv
  <2>2. CountsMatch(u, [BlockTables EXCEPT ![cur] = Append(@, p)])
    BY <1>1, <2>1, PageAppended
  <2>. QED BY <2>2, SameBooksCounts
<1>6. [BlockTables EXCEPT ![cur] = Append(@, p)] = [BlockTables EXCEPT ![cur] = J.pages]
  BY <1>1, <1>2 DEF BlockTables
<1>. QED BY <1>1, <1>2, <1>3, <1>4, <1>5, <1>6, Repaged

LEMMA ClaimHitBooks ==
  ASSUME BooksInv, ClaimHit
  PROVE  BooksInv'
<1>. PICK p \in Page : table' = AddRef(table, p, serial + 1) /\ Claim(p)
  BY DEF ClaimHit
<1>1. Sound(table') /\ Counts(table, table', p, 1)
  BY AddRefSound DEF BooksInv
<1>2. IsTable(table') /\ SameBooks(table', table')
  BY <1>1 DEF Sound, SameBooks
<1>. QED BY <1>1, <1>2, Claimed DEF ClaimHit

LEMMA ClaimMissBooks ==
  ASSUME BooksInv, ClaimMiss
  PROVE  BooksInv'
<1>. DEFINE h == PromptHash(job[cur], AllocIndex)
<1>. PICK p \in Page : /\ NextEvictable(AvailablePages, p)
                      /\ table' = AddRefClear(table, p, serial + 1, h)
                      /\ Claim(p)
  BY DEF ClaimMiss
<1>1. table.page[p].refs = 0 /\ ~ Holds(table, Page, h)
  BY DEF NextEvictable, ClaimMiss
<1>. HIDE DEF h
<1>2. Sound(table') /\ Counts(table, table', p, 1)
  BY <1>1, AddRefClearSound DEF BooksInv
<1>3. IsTable(table') /\ SameBooks(table', table')
  BY SMTT(30), <1>2 DEF Sound, SameBooks
<1>. QED BY <1>2, <1>3, Claimed DEF ClaimMiss

LEMMA ClaimUniqueBooks ==
  ASSUME BooksInv, ClaimUnique
  PROVE  BooksInv'
<1>. PICK p \in Page :
       /\ NextEvictable(AvailablePages, p)
       /\ LET t == AddRefUnique(table, p, serial + 1)
              last == IF AllocIndex = 0 THEN p ELSE job[cur].pages[AllocIndex]
          IN table' = IF AllocIndex > 0 /\ Complete(t, last)
                      THEN [t EXCEPT !.page[p].prev = t.page[last].phash]
                      ELSE t
       /\ Claim(p)
  BY DEF ClaimUnique
<1>. DEFINE t == AddRefUnique(table, p, serial + 1)
<1>1. PICK h : table' = t \/ table' = [t EXCEPT !.page[p].prev = h]
  OBVIOUS
<1>2. table.page[p].refs = 0
  BY DEF NextEvictable
<1>3. Sound(t) /\ Counts(table, t, p, 1)
  BY SMTT(30), <1>2, AddRefUniqueSound DEF BooksInv
<1>. HIDE DEF t
<1>4. IsTable(table') /\ SameBooks(t, table')
  <2>1. CASE table' = t
    BY <1>3, <2>1 DEF Sound, SameBooks
  <2>2. CASE table' = [t EXCEPT !.page[p].prev = h]
    <3>. DEFINE r == [t.page[p] EXCEPT !.prev = h]
    <3>1. IsCachePage(r) /\ r.phash = t.page[p].phash /\ r.refs = t.page[p].refs
      BY <1>3 DEF Sound, IsTable, IsCachePage
    <3>2. /\ DOMAIN table' = DOMAIN t /\ DOMAIN table'.page = Page
          /\ table'.referenced = t.referenced /\ table'.unreferenced = t.unreferenced
          /\ table'.page[p] = r /\ \A q \in Page \ {p} : table'.page[q] = t.page[q]
      BY <1>3, <2>2 DEF Sound, IsTable
    <3>. HIDE DEF r
    <3>. QED BY <1>3, <3>1, <3>2 DEF Sound, IsTable, SameBooks
  <2>. QED BY <1>1, <2>1, <2>2
<1>. QED BY <1>3, <1>4, Claimed DEF ClaimUnique

LEMMA StartingBooks ==
  ASSUME BooksInv, Starting
  PROVE  BooksInv'
<1>1. ASSUME NEW j \in Job, StartJob(j) PROVE BooksInv'
  <2>. DEFINE J == [job[j] EXCEPT !.stage = "active"]
  <2>1. /\ job' = [job EXCEPT ![j] = J] /\ IsJob(J)
        /\ J.pages = job[j].pages /\ J.pages = <<>> /\ J.stage = "active"
    BY <1>1 DEF StartJob, BooksInv, JobsShaped, IsJob, PagesOfActive
  <2>. HIDE DEF J
  <2>2. JobsShaped' /\ PagesOfActive' /\ \A l \in Job : job'[l].pages = job[l].pages
    BY <2>1, OneJob
  <2>3. table' = table /\ JobInHand'
    BY <1>1, <2>1 DEF StartJob, BooksInv, JobInHand, JobsShaped
  <2>. QED BY <2>2, <2>3, Unchanged, Framed
<1>2. ASSUME AllocFinish PROVE BooksInv'
  <2>1. PICK n : job' = [job EXCEPT ![cur].pos = n]
    BY <1>2 DEF AllocFinish
  <2>. DEFINE J == [job[cur] EXCEPT !.pos = n]
  <2>2. cur \in Job
    BY <1>2 DEF AllocFinish, BooksInv, JobInHand
  <2>3. /\ job' = [job EXCEPT ![cur] = J] /\ IsJob(J)
        /\ J.pages = job[cur].pages /\ J.stage = job[cur].stage
    BY <2>1, <2>2 DEF BooksInv, JobsShaped, IsJob
  <2>. HIDE DEF J
  <2>4. JobsShaped' /\ PagesOfActive' /\ \A l \in Job : job'[l].pages = job[l].pages
    BY <2>2, <2>3, OneJob
  <2>5. table' = table /\ JobInHand'
    BY <1>2 DEF AllocFinish, JobInHand
  <2>. QED BY <2>4, <2>5, Unchanged, Framed
<1>3. ASSUME StartsDone PROVE BooksInv'
  <2>1. table' = table /\ job' = job /\ JobInHand'
    BY <1>3 DEF StartsDone, BooksInv, JobInHand
  <2>. QED BY <2>1, SameJobs, Unchanged, Framed
<1>. QED BY <1>1, <1>2, <1>3, ClaimHitBooks, ClaimMissBooks, ClaimUniqueBooks DEF Starting

-----------------------------------------------------------------------------
(* Prefill: page contents change, and the job's position.                  *)

LEMMA IngestedBooks ==
  ASSUME NEW t, IsTable(t), NEW J, NEW first, NEW span
  PROVE  LET u == Ingested(t, J, first, span) IN IsTable(u) /\ SameBooks(t, u)
<1>. DEFINE u == Ingested(t, J, first, span)
<1>1. /\ DOMAIN u = DOMAIN t /\ DOMAIN u.page = Page
      /\ u.referenced = t.referenced /\ u.unreferenced = t.unreferenced
  BY DEF Ingested, IsTable
<1>2. \A p \in Page : /\ IsCachePage(u.page[p])
                      /\ u.page[p].phash = t.page[p].phash
                      /\ u.page[p].refs = t.page[p].refs
  <2>. SUFFICES ASSUME NEW p \in Page
                PROVE  /\ IsCachePage(u.page[p])
                       /\ u.page[p].phash = t.page[p].phash
                       /\ u.page[p].refs = t.page[p].refs
    OBVIOUS
  <2>. DEFINE last == Smaller(span.end \div PageSize + 1, Len(J.pages)) - 1
              i == CHOOSE i \in first .. last : J.pages[i + 1] = p
              kv == FillMark(span.end, i)
              prev == LastHash(t, J, i)
              toks == [s \in Slot |->
                        IF span.start <= i * PageSize + s /\ i * PageSize + s < span.end
                        THEN J.ids[i * PageSize + s + 1] ELSE t.page[p].toks[s]]
              new == [t.page[p] EXCEPT !.kv = kv, !.prev = prev, !.toks = toks,
                                       !.saved = None]
  <2>1. u.page[p] = IF \E m \in first .. last : J.pages[m + 1] = p THEN new ELSE t.page[p]
    BY DEF Ingested, IsTable
  <2>2. IsCachePage(t.page[p])
    BY DEF IsTable
  <2>3. IsCachePage(new) /\ new.phash = t.page[p].phash /\ new.refs = t.page[p].refs
    <3>. HIDE DEF kv, prev, toks
    <3>. QED BY <2>2 DEF IsCachePage
  <2>. HIDE DEF new, last
  <2>. QED BY <2>1, <2>2, <2>3
<1>. HIDE DEF u
<1>. QED BY <1>1, <1>2 DEF IsTable, SameBooks, u

LEMMA PrefillBooks ==
  ASSUME BooksInv, NEW j \in Job, Prefill(j)
  PROVE  BooksInv'
<1>1. IsTable(table)
  BY DEF BooksInv, Sound
<1>2. IsTable(table') /\ SameBooks(table, table')
  <2>. DEFINE J     == job[j]
              span  == PrefillSpan(table, J, k)
              first == span.start \div PageSize
              own   == J.pages[first + 1]
              sources == CopySource(table, J, span)
              src     == CHOOSE q \in sources : TRUE
              n       == IF sources = {} THEN 0 ELSE Match(table, J, src, span)
              rest    == [span EXCEPT !.start = @ + n]
              prev    == table.page[src].prev
              toks    == [s \in Slot |-> IF s < n THEN table.page[src].toks[s]
                                         ELSE table.page[own].toks[s]]
              filled  == [table EXCEPT !.page[own].prev = prev, !.page[own].toks = toks,
                                       !.page[own].kv = n, !.page[own].saved = None]
              copied  == IF n = 0 THEN table ELSE filled
              record  == [table.page[own] EXCEPT !.prev = prev, !.toks = toks,
                                                 !.kv = n, !.saved = None]
  <2>1. \/ table' = table
        \/ table' = copied
        \/ table' = Ingested(copied, J, first, rest)
    BY DEF Prefill
  <2>2. /\ DOMAIN filled = DOMAIN table /\ DOMAIN filled.page = Page
        /\ filled.referenced = table.referenced
        /\ filled.unreferenced = table.unreferenced
        /\ \A q \in Page : filled.page[q] = IF q = own THEN record ELSE table.page[q]
    <3>. HIDE DEF own, prev, toks, n
    <3>. QED BY <1>1 DEF IsTable
  <2>3. own \in Page => /\ IsCachePage(record) /\ record.phash = table.page[own].phash
                        /\ record.refs = table.page[own].refs
    <3>. HIDE DEF own, prev, toks, n
    <3>. QED BY <1>1 DEF IsTable, IsCachePage
  <2>. HIDE DEF own, record, filled, rest, first, J
  <2>4. IsTable(filled) /\ SameBooks(table, filled)
    BY <1>1, <2>2, <2>3 DEF IsTable, SameBooks
  <2>5. SameBooks(table, table)
    BY DEF SameBooks
  <2>6. IsTable(copied) /\ SameBooks(table, copied)
    BY <1>1, <2>4, <2>5
  <2>. HIDE DEF copied
  <2>7. /\ IsTable(Ingested(copied, J, first, rest))
        /\ SameBooks(copied, Ingested(copied, J, first, rest))
    BY <2>6, IngestedBooks
  <2>8. SameBooks(table, Ingested(copied, J, first, rest))
    BY SMTT(30), <2>6, <2>7 DEF SameBooks
  <2>. QED BY SMTT(30), <1>1, <2>1, <2>5, <2>6, <2>7, <2>8
<1>3. \/ \E n : job' = [job EXCEPT ![j].pos = n]
      \/ job' = [job EXCEPT ![j].fate = "cancelled"]
  BY DEF Prefill
<1>4. JobsShaped' /\ PagesOfActive' /\ \A l \in Job : job'[l].pages = job[l].pages
  <2>1. ASSUME NEW n, job' = [job EXCEPT ![j].pos = n]
        PROVE  \E J : /\ job' = [job EXCEPT ![j] = J] /\ IsJob(J)
                      /\ J.pages = job[j].pages /\ J.stage = job[j].stage
    <3>. WITNESS [job[j] EXCEPT !.pos = n]
    <3>. QED BY <2>1 DEF BooksInv, JobsShaped, IsJob
  <2>2. ASSUME job' = [job EXCEPT ![j].fate = "cancelled"]
        PROVE  \E J : /\ job' = [job EXCEPT ![j] = J] /\ IsJob(J)
                      /\ J.pages = job[j].pages /\ J.stage = job[j].stage
    <3>. WITNESS [job[j] EXCEPT !.fate = "cancelled"]
    <3>. QED BY <2>2 DEF BooksInv, JobsShaped, IsJob
  <2>3. PICK J : /\ job' = [job EXCEPT ![j] = J] /\ IsJob(J)
                 /\ J.pages = job[j].pages /\ J.stage = job[j].stage
    BY <1>3, <2>1, <2>2
  <2>. QED BY <2>3, OneJob
<1>5. JobInHand'
  BY DEF Prefill, BooksInv, JobInHand
<1>. QED BY <1>2, <1>4, <1>5, Framed

LEMMA IngestingBooks ==
  ASSUME BooksInv, Ingesting
  PROVE  BooksInv'
<1>1. ASSUME PrefillsDone PROVE BooksInv'
  <2>1. table' = table /\ job' = job /\ JobInHand'
    BY SMTT(30), <1>1 DEF PrefillsDone, BooksInv, JobInHand
  <2>. QED BY <2>1, SameJobs, Unchanged, Framed
<1>. QED BY <1>1, PrefillBooks DEF Ingesting

-----------------------------------------------------------------------------
(* The batch: writing, sampling, hashing, rewinding, rejecting.            *)

LEMMA ForwardBooks ==
  ASSUME BooksInv, NEW j \in Job, Forward(j)
  PROVE  BooksInv'
<1>1. IsTable(table)
  BY DEF BooksInv, Sound
<1>. PICK draft \in [1 .. k -> Sampled] :
       LET J      == job[j]
           row    == J.ids \o draft
           final  == J.pos + k + 1
           mine   == {J.pages[i + 1] : i \in Window(J)}
           Index(p) == CHOOSE i \in Window(J) : J.pages[i + 1] = p
           Written(p, s) ==
             p \in mine /\ Index(p) * PageSize + s \in J.pos .. final - 1
       IN /\ table' = [table EXCEPT !.page = [p \in Page |->
                 IF p \in mine
                 THEN [table.page[p] EXCEPT
                        !.kv = Smaller(PageSize, final - Index(p) * PageSize),
                        !.toks = [s \in Slot |-> IF Written(p, s)
                                    THEN row[Index(p) * PageSize + s + 1] ELSE @[s]],
                        !.saved = None]
                 ELSE table.page[p]]]
          /\ job' = [job EXCEPT ![j].draft = draft]
  BY ZenonT(30) DEF Forward
<1>2. /\ DOMAIN table' = DOMAIN table /\ DOMAIN table'.page = Page
      /\ table'.referenced = table.referenced /\ table'.unreferenced = table.unreferenced
  BY ZenonT(30), <1>1 DEF IsTable
<1>3. \A p \in Page : /\ IsCachePage(table'.page[p])
                      /\ table'.page[p].phash = table.page[p].phash
                      /\ table'.page[p].refs = table.page[p].refs
  <2>. SUFFICES ASSUME NEW p \in Page
                PROVE  /\ IsCachePage(table'.page[p])
                       /\ table'.page[p].phash = table.page[p].phash
                       /\ table'.page[p].refs = table.page[p].refs
    BY ZenonT(30)
  <2>. DEFINE J      == job[j]
              row    == J.ids \o draft
              final  == J.pos + k + 1
              mine   == {J.pages[i + 1] : i \in Window(J)}
              index  == CHOOSE i \in Window(J) : J.pages[i + 1] = p
              Written(s) == p \in mine /\ index * PageSize + s \in J.pos .. final - 1
              kv     == Smaller(PageSize, final - index * PageSize)
              toks   == [s \in Slot |-> IF Written(s) THEN row[index * PageSize + s + 1]
                                        ELSE table.page[p].toks[s]]
              new    == [table.page[p] EXCEPT !.kv = kv, !.toks = toks, !.saved = None]
  <2>1. table'.page[p] = IF p \in mine THEN new ELSE table.page[p]
    BY ZenonT(30), <1>1 DEF IsTable
  <2>2. IsCachePage(table.page[p])
    BY ZenonT(30), <1>1 DEF IsTable
  <2>3. IsCachePage(new) /\ new.phash = table.page[p].phash /\ new.refs = table.page[p].refs
    <3>. HIDE DEF kv, toks
    <3>. QED BY ZenonT(30), <2>2 DEF IsCachePage
  <2>. HIDE DEF new, mine
  <2>. QED BY ZenonT(30), <2>1, <2>2, <2>3
<1>4. IsTable(table') /\ SameBooks(table, table')
  BY ZenonT(30), <1>1, <1>2, <1>3 DEF IsTable, SameBooks
<1>5. JobsShaped' /\ PagesOfActive' /\ \A l \in Job : job'[l].pages = job[l].pages
  <2>. DEFINE J == [job[j] EXCEPT !.draft = draft]
  <2>1. /\ job' = [job EXCEPT ![j] = J] /\ IsJob(J)
        /\ J.pages = job[j].pages /\ J.stage = job[j].stage
    BY ZenonT(30) DEF BooksInv, JobsShaped, IsJob
  <2>. HIDE DEF J
  <2>. QED BY ZenonT(30), <2>1, OneJob
<1>6. JobInHand'
  BY DEF Forward, BooksInv, JobInHand
<1>. QED BY ZenonT(30), <1>4, <1>5, <1>6, Framed

LEMMA AcceptBooks ==
  ASSUME BooksInv, NEW t \in Sampled, Accept(t)
  PROVE  BooksInv'
<1>. DEFINE J == [job[cur] EXCEPT !.ids = Append(@, t), !.pos = @ + 1]
            D == [J EXCEPT !.deferred = Append(@, DonePage(J))]
<1>1. cur \in Job
  BY DEF Accept, BooksInv, JobInHand
<1>2. /\ IsJob(J) /\ J.pages = job[cur].pages /\ J.stage = job[cur].stage
      /\ IsJob(D) /\ D.pages = job[cur].pages /\ D.stage = job[cur].stage
  BY <1>1 DEF BooksInv, JobsShaped, IsJob
<1>3. job' = [job EXCEPT ![cur] = D] \/ job' = [job EXCEPT ![cur] = J]
  BY DEF Accept
<1>4. \/ table' = table
      \/ table' = Linked(table, J, DonePage(J), table.page[J.pages[DonePage(J) + 1]].phash)
  BY DEF Accept
<1>. HIDE DEF J, D
<1>5. JobsShaped' /\ PagesOfActive' /\ \A l \in Job : job'[l].pages = job[l].pages
  BY <1>1, <1>2, <1>3, OneJob
<1>6. IsTable(table') /\ SameBooks(table, table')
  <2>1. IsTable(table)
    BY DEF BooksInv, Sound
  <2>. QED BY <1>4, <2>1, LinkedBooks, Unchanged
<1>7. JobInHand'
  BY <1>1 DEF Accept, JobInHand
<1>. QED BY <1>5, <1>6, <1>7, Framed

LEMMA HashCompletedBooks ==
  ASSUME BooksInv, HashCompleted
  PROVE  BooksInv'
<1>. DEFINE J == job[cur]
            after == Hashed(table, J, DonePage(J))
<1>1. cur \in Job /\ IsJob(J)
  BY DEF HashCompleted, BooksInv, JobInHand, JobsShaped
<1>2. /\ BlockTables \in [Job -> Seq(Page)] /\ CountsMatch(table, BlockTables)
      /\ Sound(table) /\ J.pages = BlockTables[cur]
  BY <1>1, BlockTablesType DEF BooksInv, BlockTables
<1>3. Hashable(table, J, DonePage(J))
  BY DEF HashCompleted
<1>4. table' = after.table /\ job' = [job EXCEPT ![cur] = after.job]
  BY DEF HashCompleted
<1>5. JobInHand'
  BY <1>1 DEF HashCompleted, JobInHand
<1>. HIDE DEF J
<1>6. /\ Sound(after.table)
      /\ IsJob(after.job) /\ after.job.stage = J.stage
      /\ CountsMatch(after.table, [BlockTables EXCEPT ![cur] = after.job.pages])
      /\ J.pages # <<>>
  BY ZenonT(30), <1>1, <1>2, <1>3, HashedSound
<1>7. J.stage = "active"
  BY <1>1, <1>6 DEF BooksInv, PagesOfActive, J
<1>. HIDE DEF after
<1>. QED BY <1>1, <1>4, <1>5, <1>6, <1>7, Repaged

LEMMA FlushDeferredBooks ==
  ASSUME BooksInv, FlushDeferred
  PROVE  BooksInv'
<1>. DEFINE J == [job[cur] EXCEPT !.deferred = Tail(@)]
            i == Head(job[cur].deferred)
            after == Hashed(table, J, i)
<1>1. /\ cur \in Job /\ IsJob(J)
      /\ J.pages = job[cur].pages /\ J.stage = job[cur].stage
  BY DEF FlushDeferred, BooksInv, JobInHand, JobsShaped, IsJob
<1>2. /\ BlockTables \in [Job -> Seq(Page)] /\ CountsMatch(table, BlockTables)
      /\ Sound(table) /\ J.pages = BlockTables[cur]
  BY <1>1, BlockTablesType DEF BooksInv, BlockTables
<1>3. Hashable(table, J, i)
  BY DEF FlushDeferred
<1>4. table' = after.table /\ job' = [job EXCEPT ![cur] = after.job]
  BY DEF FlushDeferred
<1>5. JobInHand'
  BY <1>1 DEF FlushDeferred, JobInHand
<1>. HIDE DEF J, i
<1>6. /\ Sound(after.table)
      /\ IsJob(after.job) /\ after.job.stage = J.stage
      /\ CountsMatch(after.table, [BlockTables EXCEPT ![cur] = after.job.pages])
      /\ J.pages # <<>>
  BY ZenonT(30), <1>1, <1>2, <1>3, HashedSound
<1>7. J.stage = "active"
  BY <1>1, <1>6 DEF BooksInv, PagesOfActive
<1>. HIDE DEF after
<1>. QED BY <1>1, <1>4, <1>5, <1>6, <1>7, Repaged

LEMMA RewindPageBooks ==
  ASSUME BooksInv, RewindPage
  PROVE  BooksInv'
<1>. DEFINE p == job[cur].pages[k + 1]
            t == IF Complete(table, p) THEN UpdateHash(table, p, FreshHash(table)) ELSE table
            fill == RewindFill(job[cur], k)
            r == [t.page[p] EXCEPT !.kv = fill, !.saved = None]
<1>1. cur \in Job /\ k + 1 \in DOMAIN job[cur].pages
  BY DEF RewindPage, BooksInv, JobInHand
<1>2. /\ BlockTables \in [Job -> Seq(Page)] /\ CountsMatch(table, BlockTables)
      /\ Sound(table) /\ job[cur].pages = BlockTables[cur]
  BY <1>1, BlockTablesType DEF BooksInv, BlockTables
<1>3. p \in Page /\ table.page[p].refs > 0
  BY SMTT(30), <1>1, <1>2, PlacedReferenced
<1>4. table' = [t EXCEPT !.page[p].kv = fill, !.page[p].saved = None]
  BY DEF RewindPage
<1>. HIDE DEF p, fill
<1>5. Sound(t) /\ \A q \in Page : t.page[q].refs = table.page[q].refs
  BY <1>2, <1>3, FreshHashUnused, UpdateHashSound
<1>. HIDE DEF t
<1>6. IsTable(table') /\ SameBooks(t, table')
  <2>1. /\ DOMAIN table' = DOMAIN t /\ DOMAIN table'.page = Page
        /\ table'.referenced = t.referenced /\ table'.unreferenced = t.unreferenced
        /\ table'.page[p] = r /\ \A q \in Page \ {p} : table'.page[q] = t.page[q]
    BY <1>3, <1>4, <1>5 DEF Sound, IsTable
  <2>2. IsCachePage(r) /\ r.phash = t.page[p].phash /\ r.refs = t.page[p].refs
    BY <1>3, <1>5 DEF Sound, IsTable, IsCachePage
  <2>. HIDE DEF r
  <2>. QED BY <1>5, <2>1, <2>2 DEF Sound, IsTable, SameBooks
<1>7. Sound(table')
  BY <1>5, <1>6, SameBooksSound
<1>8. CountsMatch(table', BlockTables)
  BY SMTT(30), <1>2, <1>5, <1>6 DEF CountsMatch, CountsAt, SameBooks
<1>9. job' = job /\ JobInHand'
  BY DEF RewindPage, BooksInv, JobInHand
<1>10. BlockTables' = BlockTables
  BY <1>9 DEF BlockTables
<1>. QED BY <1>7, <1>8, <1>9, <1>10, SameJobs DEF BooksInv

LEMMA RejectPageBooks ==
  ASSUME BooksInv, RejectPage
  PROVE  BooksInv'
<1>. DEFINE p == RejectedFrom(job[cur])
            left == table.page[p].kv - Smaller(table.page[p].kv, k)
            r == [table.page[p] EXCEPT !.kv = left]
<1>1. IsTable(table)
  BY DEF BooksInv, Sound
<1>2. table' = [table EXCEPT !.page[p].kv = left]
  BY DEF RejectPage
<1>. HIDE DEF p, left
<1>3. /\ DOMAIN table' = DOMAIN table /\ DOMAIN table'.page = Page
      /\ table'.referenced = table.referenced /\ table'.unreferenced = table.unreferenced
      /\ \A q \in Page : table'.page[q] = IF q = p THEN r ELSE table.page[q]
  BY <1>1, <1>2 DEF IsTable
<1>4. p \in Page => /\ IsCachePage(r) /\ r.phash = table.page[p].phash
                    /\ r.refs = table.page[p].refs
  BY <1>1 DEF IsTable, IsCachePage
<1>. HIDE DEF r
<1>5. IsTable(table') /\ SameBooks(table, table')
  BY <1>1, <1>3, <1>4 DEF IsTable, SameBooks
<1>6. job' = job /\ JobInHand'
  BY DEF RejectPage, BooksInv, JobInHand
<1>. QED BY <1>5, <1>6, SameJobs, Framed

\* Checkpoint, fate and draft are no part of the books.
LEMMA JudgedIsJob ==
  ASSUME NEW J, IsJob(J)
  PROVE  /\ IsJob(Checkpointed(J))
         /\ Checkpointed(J).pages = J.pages /\ Checkpointed(J).stage = J.stage
         /\ IsJob(Rewound(J)) /\ Rewound(J).pages = J.pages /\ Rewound(J).stage = J.stage
BY DEF IsJob, Checkpointed, Rewound

\* A step that leaves the table alone and changes the record of the job in hand.
LEMMA Judged ==
  ASSUME BooksInv, table' = table, cur \in Job, cur' = cur, pc' # "alloc",
         NEW J, IsJob(J), J.pages = job[cur].pages, J.stage = job[cur].stage,
         job' = [job EXCEPT ![cur] = J]
  PROVE  BooksInv'
<1>1. JobsShaped' /\ PagesOfActive' /\ \A l \in Job : job'[l].pages = job[l].pages
  BY OneJob
<1>2. JobInHand'
  BY DEF JobInHand
<1>. QED BY <1>1, <1>2, Unchanged, Framed

LEMMA GeneratingBooks ==
  ASSUME BooksInv, Generating
  PROVE  BooksInv'
<1>1. pc \in {"judge", "rewind", "flush", "verify", "reject"} =>
        cur \in Job /\ IsJob(job[cur])
  BY DEF BooksInv, JobInHand, JobsShaped
<1>2. ASSUME NEW j \in Job, NextRow(j) PROVE BooksInv'
  <2>1. table' = table /\ job' = job /\ JobInHand'
    BY <1>2 DEF NextRow, BooksInv, JobInHand
  <2>. QED BY <2>1, SameJobs, Unchanged, Framed
<1>3. ASSUME ForwardsDone \/ RowsDone PROVE BooksInv'
  <2>1. table' = table /\ job' = job /\ JobInHand'
    BY <1>3 DEF ForwardsDone, RowsDone, BooksInv, JobInHand
  <2>. QED BY <2>1, SameJobs, Unchanged, Framed
<1>4. ASSUME JudgeEmit \/ JudgeIncomplete \/ Verified \/ Unverified PROVE BooksInv'
  <2>1. table' = table /\ job' = job /\ JobInHand'
    BY <1>4 DEF JudgeEmit, JudgeIncomplete, Verified, Unverified, BooksInv, JobInHand
  <2>. QED BY <2>1, SameJobs, Unchanged, Framed
<1>5. ASSUME JudgeEos \/ JudgeRequeue PROVE BooksInv'
  <2>1. PICK fate : job' = [job EXCEPT ![cur].fate = fate]
    BY <1>5 DEF JudgeEos, JudgeRequeue
  <2>. DEFINE J == [job[cur] EXCEPT !.fate = fate]
  <2>2. /\ cur \in Job /\ IsJob(J)
        /\ J.pages = job[cur].pages /\ J.stage = job[cur].stage
    BY <1>1, <1>5 DEF JudgeEos, JudgeRequeue, IsJob
  <2>3. job' = [job EXCEPT ![cur] = J]
    BY <2>1
  <2>. HIDE DEF J
  <2>. QED BY <1>5, <2>2, <2>3, Judged DEF JudgeEos, JudgeRequeue
<1>6. ASSUME JudgeHold PROVE BooksInv'
  BY <1>1, <1>6, JudgedIsJob, Judged DEF JudgeHold
<1>7. ASSUME JudgeMatch PROVE BooksInv'
  <2>. DEFINE C == Checkpointed(job[cur])
              pos == C.pos - C.offset
              ids == SubSeq(C.ids, 1, Len(C.ids) - C.offset)
              J == [C EXCEPT !.pos = pos, !.ids = ids, !.fate = "rewound"]
  <2>1. /\ IsJob(C) /\ C.pages = job[cur].pages /\ C.stage = job[cur].stage
    BY <1>1, <1>7, JudgedIsJob DEF JudgeMatch
  <2>2. job' = [job EXCEPT ![cur] = J]
    BY <1>7 DEF JudgeMatch
  <2>. HIDE DEF C, pos, ids
  <2>3. IsJob(J) /\ J.pages = C.pages /\ J.stage = C.stage
    BY <2>1 DEF IsJob
  <2>. HIDE DEF J
  <2>. QED BY <1>1, <1>7, <2>1, <2>2, <2>3, Judged DEF JudgeMatch
<1>8. ASSUME RewindDone PROVE BooksInv'
  BY <1>1, <1>8, JudgedIsJob, Judged DEF RewindDone
<1>9. ASSUME FlushDone PROVE BooksInv'
  <2>. DEFINE J == [job[cur] EXCEPT !.offset = None, !.explored = {}]
  <2>1. /\ cur \in Job /\ IsJob(J)
        /\ J.pages = job[cur].pages /\ J.stage = job[cur].stage
    BY <1>1, <1>9 DEF FlushDone, IsJob
  <2>2. job' = [job EXCEPT ![cur] = J]
    BY <1>9 DEF FlushDone
  <2>. HIDE DEF J
  <2>. QED BY <1>9, <2>1, <2>2, Judged DEF FlushDone
<1>10. ASSUME RejectDone PROVE BooksInv'
  <2>. DEFINE fate == IF job[cur].fate = "rewound" THEN "go" ELSE job[cur].fate
              J == [job[cur] EXCEPT !.draft = <<>>, !.fate = fate]
  <2>1. /\ cur \in Job /\ IsJob(J)
        /\ J.pages = job[cur].pages /\ J.stage = job[cur].stage
    <3>. HIDE DEF fate
    <3>. QED BY <1>1, <1>10 DEF RejectDone, IsJob
  <2>2. job' = [job EXCEPT ![cur] = J]
    BY <1>10 DEF RejectDone
  <2>. HIDE DEF J
  <2>3. JobsShaped' /\ PagesOfActive' /\ \A l \in Job : job'[l].pages = job[l].pages
    BY <2>1, <2>2, OneJob
  <2>4. table' = table /\ JobInHand'
    BY <1>10 DEF RejectDone, JobInHand
  <2>. QED BY <2>3, <2>4, Unchanged, Framed
<1>. QED
  BY <1>2, <1>3, <1>4, <1>5, <1>6, <1>7, <1>8, <1>9, <1>10, ForwardBooks, AcceptBooks,
     HashCompletedBooks, FlushDeferredBooks, RewindPageBooks, RejectPageBooks
  DEF Generating

-----------------------------------------------------------------------------
(* Release.                                                                *)

LEMMA ReleasingBooks ==
  ASSUME BooksInv, Releasing
  PROVE  BooksInv'
<1>1. ASSUME NEW j \in Job, ReleasePage(j) PROVE BooksInv'
  <2>. DEFINE pages == job[j].pages
              J == [job[j] EXCEPT !.pages = Tail(@)]
  <2>1. /\ BlockTables \in [Job -> Seq(Page)] /\ CountsMatch(table, BlockTables)
        /\ Sound(table) /\ pages = BlockTables[j] /\ pages # <<>> /\ pages \in Seq(Page)
    BY <1>1, BlockTablesType DEF ReleasePage, BooksInv, BlockTables, JobsShaped, IsJob
  <2>2. Head(pages) \in Page /\ table.page[Head(pages)].refs > 0
    <3>1. 1 \in DOMAIN pages /\ Head(pages) = pages[1]
      BY <2>1
    <3>. HIDE DEF pages
    <3>. QED BY <2>1, <3>1, PlacedReferenced
  <2>3. /\ table' = SubRef(table, Head(pages))
        /\ job' = [job EXCEPT ![j] = J]
    BY <1>1 DEF ReleasePage
  <2>4. Sound(table') /\ Uncounts(table, table', Head(pages))
    BY <2>1, <2>2, <2>3, SubRefSound
  <2>5. IsJob(J) /\ J.stage = "active" /\ J.pages = Tail(pages)
    BY <1>1, <2>1 DEF ReleasePage, Leaving, Active, BooksInv, JobsShaped, IsJob
  <2>. HIDE DEF pages, J
  <2>6. CountsMatch(table', [BlockTables EXCEPT ![j] = Tail(@)])
    BY <2>1, <2>4, PageReleased
  <2>7. [BlockTables EXCEPT ![j] = Tail(@)] = [BlockTables EXCEPT ![j] = J.pages]
    BY <2>1, <2>5
  <2>8. JobInHand'
    BY <1>1 DEF ReleasePage, JobInHand
  <2>. QED BY <2>3, <2>4, <2>5, <2>6, <2>7, <2>8, Repaged
<1>2. ASSUME NEW j \in Job, ReleaseDone(j) PROVE BooksInv'
  <2>. DEFINE requeued == [Fresh EXCEPT !.stage = "pending", !.ids = job[j].ids,
                             !.plen = Len(job[j].ids),
                             !.limit = CappedLimit(Len(job[j].ids),
                                                   job[j].limit - NewTokens(job[j]))]
              ended == [Fresh EXCEPT !.stage = "done"]
              J == IF job[j].fate = "requeue" THEN requeued ELSE ended
  <2>1. job' = [job EXCEPT ![j] = J] /\ job[j].pages = <<>>
    BY <1>2 DEF ReleaseDone
  <2>2. IsJob(requeued) /\ requeued.pages = <<>>
    BY FreshIsJob DEF IsJob
  <2>3. IsJob(ended) /\ ended.pages = <<>>
    BY FreshIsJob DEF IsJob
  <2>. HIDE DEF requeued, ended
  <2>4. IsJob(J) /\ J.pages = <<>>
    BY <2>2, <2>3
  <2>. HIDE DEF J
  <2>5. JobsShaped' /\ PagesOfActive' /\ \A l \in Job : job'[l].pages = job[l].pages
    BY <2>1, <2>4, OneJob
  <2>6. table' = table /\ JobInHand'
    BY <1>2 DEF ReleaseDone, JobInHand
  <2>. QED BY <2>5, <2>6, Unchanged, Framed
<1>3. ASSUME IterationDone PROVE BooksInv'
  <2>1. table' = table /\ job' = job /\ JobInHand'
    BY <1>3 DEF IterationDone, BooksInv, JobInHand
  <2>. QED BY <2>1, SameJobs, Unchanged, Framed
<1>. QED BY <1>1, <1>2, <1>3 DEF Releasing

-----------------------------------------------------------------------------
(* The theorems.                                                           *)

LEMMA NextBooks ==
  ASSUME BooksInv, [Next]_vars, ~ HashRaises
  PROVE  BooksInv'
<1>1. ASSUME AllServed \/ Raised \/ Iterate \/ UNCHANGED vars PROVE BooksInv'
  <2>1. table' = table /\ job' = job /\ JobInHand'
    BY <1>1 DEF AllServed, Raised, Iterate, vars, BooksInv, JobInHand
  <2>. QED BY <2>1, SameJobs, Unchanged, Framed
<1>. QED BY <1>1, CallingBooks, StartingBooks, IngestingBooks, GeneratingBooks,
            ReleasingBooks DEF Next

\* After a raise nothing happens any more.
LEMMA RaisedStays ==
  ASSUME pc = "raised", [Next]_vars
  PROVE  UNCHANGED vars
<1>1. ~ Calling
  BY DEF Calling, ClearQueue, Enqueue, CancelPending, CancelActive
<1>2. ~ Starting /\ ~ Ingesting
  BY DEF Starting, StartJob, ClaimHit, ClaimMiss, ClaimUnique, AllocFinish, StartsDone,
         Ingesting, PrefillsDone, Prefill
<1>3. ~ Generating
  BY DEF Generating, Forward, NextRow, ForwardsDone, Accept, HashCompleted, JudgeEos,
         JudgeRequeue, JudgeEmit, JudgeIncomplete, JudgeHold, JudgeMatch, RewindPage,
         RewindDone, FlushDeferred, FlushDone, Verified, Unverified, RejectPage, RejectDone,
         RowsDone
<1>4. ~ Releasing /\ ~ AllServed /\ ~ Iterate
  BY DEF Releasing, ReleasePage, ReleaseDone, IterationDone, AllServed, Iterate
<1>5. ~ HashRaises
  BY DEF HashRaises, Unhashed
<1>. QED BY <1>1, <1>2, <1>3, <1>4, <1>5 DEF Next, Raised

\* What the page it released leaves when hash_completed_page raises: that page, if it got
\* so far, is the only one touched.
LEMMA RaisesRelease ==
  ASSUME BooksInv, HashRaises
  PROVE  /\ pc' = "raised" /\ UNCHANGED <<serial, cache, job, cur, todo, order, k>>
         /\ \/ table' = table
            \/ \E p \in Page : table.page[p].refs > 0 /\ table' = SubRef(table, p)
<1>1. PICK i \in Unhashed : Raise(job[cur], i)
  BY DEF HashRaises
<1>2. cur \in Job
  BY <1>1 DEF Unhashed, BooksInv, JobInHand
<1>3. CASE i + 1 \in DOMAIN job[cur].pages
  <2>. DEFINE m == i + 1
              p == job[cur].pages[m]
  <2>1. /\ BlockTables \in [Job -> Seq(Page)] /\ CountsMatch(table, BlockTables)
        /\ job[cur].pages = BlockTables[cur]
    BY <1>2, BlockTablesType DEF BooksInv, BlockTables
  <2>2. table' = SubRef(table, p)
    BY <1>1, <1>3 DEF Raise
  <2>. HIDE DEF m
  <2>3. m \in DOMAIN job[cur].pages
    BY <1>3 DEF m
  <2>4. p \in Page /\ table.page[p].refs > 0
    BY SMTT(30), <1>2, <2>1, <2>3, PlacedReferenced
  <2>. QED BY <1>1, <2>2, <2>4 DEF Raise
<1>4. CASE i + 1 \notin DOMAIN job[cur].pages
  BY <1>1, <1>4 DEF Raise
<1>. QED BY <1>3, <1>4

\* The books stay in order when it raises; only the counts are one ahead of the table of
\* the job in hand.
LEMMA RaisesSound ==
  ASSUME BooksInv, HashRaises
  PROVE  Sound(table')
BY RaisesRelease, SubRefSound DEF BooksInv

\* Whether it has raised or not the books are in order; until then they are also those of
\* the block tables.
BooksHold == Sound(table) /\ (pc # "raised" => BooksInv)

LEMMA NextBooksHold ==
  ASSUME BooksHold, [Next]_vars
  PROVE  BooksHold'
<1>1. CASE pc = "raised"
  <2>1. table' = table /\ pc' = "raised"
    BY <1>1, RaisedStays DEF vars
  <2>. QED BY <2>1 DEF BooksHold
<1>2. CASE pc # "raised" /\ HashRaises
  <2>1. Sound(table') /\ pc' = "raised"
    BY <1>2, RaisesRelease, RaisesSound DEF BooksHold
  <2>. QED BY <2>1 DEF BooksHold
<1>3. CASE pc # "raised" /\ ~ HashRaises
  <2>1. BooksInv'
    BY <1>3, NextBooks DEF BooksHold
  <2>. QED BY <2>1 DEF BooksHold, BooksInv
<1>. QED BY <1>1, <1>2, <1>3

\* The bookkeeping invariant holds in every behaviour, whatever the size of the
\* cache, the jobs, their prompts, the drafter and the chunking.
THEOREM BooksKept == Spec => []BooksHold
<1>1. Init => BooksHold
  BY InitBooks DEF BooksHold, BooksInv
<1>2. BooksHold /\ [Next]_vars => BooksHold'
  BY NextBooksHold
<1>. QED BY <1>1, <1>2, PTL DEF Spec

\* No page is ever lost from both dicts of the page table, or in the wrong one.
THEOREM PagesNeverLost == Spec => []AllPagesFiled
<1>1. BooksHold => AllPagesFiled
  BY DEF BooksHold, Sound, AllPagesFiled
<1>. QED BY <1>1, BooksKept, PTL

\* No two pages are ever filed under one hash.
THEOREM HashesNeverClash == Spec => []AllHashesUnique
<1>1. BooksHold => AllHashesUnique
  BY DEF BooksHold, Sound, AllHashesUnique
<1>. QED BY <1>1, BooksKept, PTL

\* Reference counts equal the number of places in the block tables, until a raise.
THEOREM CountsAlwaysExact == Spec => []RefCountsExact
<1>1. BooksHold => RefCountsExact
  <2>1. \A p : Places(p) = PlacesIn(BlockTables, p)
    BY DEF Places, PlacesIn, BlockTables
  <2>. QED BY <2>1 DEF BooksHold, BooksInv, CountsMatch, CountsAt, RefCountsExact
<1>. QED BY <1>1, BooksKept, PTL

-----------------------------------------------------------------------------
(* Induction, and functions defined by recursion.                          *)

LEMMA LeastNatural ==
  ASSUME NEW T \in SUBSET Nat, T # {}
  PROVE  \E m \in T : \A y \in T : m <= y
<1>1. IsWellFoundedOn(OpToRel(<, Nat), Nat)
  BY NatLessThanWellFounded
<1>2. \E m \in T : \A y \in T : ~ (<<y, m>> \in OpToRel(<, Nat))
  BY <1>1, WFMin
<1>3. OpToRel(<, Nat) = {ss \in Nat \X Nat : ss[1] < ss[2]}
  BY DEF OpToRel
<1>4. \A y \in Nat, m \in Nat : <<y, m>> \in OpToRel(<, Nat) <=> y < m
  BY <1>3, Zenon
<1>5. \A y \in T : y \in Nat
  OBVIOUS
<1>6. \E m \in T : \A y \in T : ~ (y < m)
  BY <1>2, <1>4, <1>5, Zenon
<1>. QED BY <1>6


\* What holds of 0 and is passed on from each number below N to the next holds up to N.
LEMMA Inductively ==
  ASSUME NEW N \in Nat, NEW T, 0 \in T, \A n \in 0 .. N - 1 : n \in T => n + 1 \in T
  PROVE  \A n \in 0 .. N : n \in T
<1>. DEFINE U == {n \in 0 .. N : n \notin T}
<1>. SUFFICES ASSUME U # {} PROVE FALSE
  OBVIOUS
<1>1. U \in SUBSET Nat
  OBVIOUS
<1>2. PICK m \in U : \A y \in U : m <= y
  BY <1>1, LeastNatural
<1>3. m \in Nat /\ m <= N /\ m \notin T
  OBVIOUS
<1>4. m # 0
  BY <1>3
<1>5. m - 1 \in 0 .. N - 1 /\ m - 1 \in 0 .. N /\ (m - 1) + 1 = m /\ ~ (m <= m - 1)
  BY <1>3, <1>4
<1>6. m - 1 \in T
  BY <1>2, <1>5
<1>. QED BY <1>3, <1>5, <1>6

\* A function can be defined by what it is at 0 and how each value follows from the last.
Iterates(F, S, a, N, g) ==
  F \in [0 .. N -> S] /\ F[0] = a /\ \A n \in 1 .. N : F[n] = g[n][F[n - 1]]

LEMMA Recursively ==
  ASSUME NEW S, NEW a \in S, NEW N \in Nat, NEW g, \A n \in 1 .. N : g[n] \in [S -> S]
  PROVE  \E F : Iterates(F, S, a, N, g)
<1>. DEFINE Up(n) == \E F : Iterates(F, S, a, n, g)
            T == {n \in Nat : Up(n)}
<1>1. 0 \in T
  <2>. DEFINE F == [n \in {0} |-> a]
  <2>1. F \in [0 .. 0 -> S] /\ F[0] = a /\ \A m \in 1 .. 0 : F[m] = g[m][F[m - 1]]
    OBVIOUS
  <2>2. Iterates(F, S, a, 0, g)
    BY <2>1 DEF Iterates
  <2>. QED BY <2>2
<1>2. ASSUME NEW n \in 0 .. N - 1, n \in T PROVE n + 1 \in T
  <2>0. PICK F : Iterates(F, S, a, n, g)
    BY <1>2
  <2>. F \in [0 .. n -> S] /\ F[0] = a /\ \A m \in 1 .. n : F[m] = g[m][F[m - 1]]
    BY <2>0 DEF Iterates
  <2>. DEFINE e == g[n + 1][F[n]]
              G == [m \in 0 .. n + 1 |-> IF m = n + 1 THEN e ELSE F[m]]
  <2>1. n \in Nat /\ n + 1 \in 1 .. N /\ n \in 0 .. n /\ n + 1 \in Nat
    OBVIOUS
  <2>2. e \in S
    <3>1. F[n] \in S /\ g[n + 1] \in [S -> S]
      BY <2>1
    <3>. QED BY <3>1
  <2>3. /\ \A m \in 0 .. n : G[m] = F[m]
        /\ G[n + 1] = e
    BY <2>1
  <2>4. G \in [0 .. n + 1 -> S]
    <3>. HIDE DEF e
    <3>1. \A m \in 0 .. n + 1 : (IF m = n + 1 THEN e ELSE F[m]) \in S
      BY <2>1, <2>2
    <3>. QED BY <3>1
  <2>. HIDE DEF G
  <2>5. G[0] = a
    BY <2>1, <2>3
  <2>6. ASSUME NEW m \in 1 .. n + 1 PROVE G[m] = g[m][G[m - 1]]
    <3>1. CASE m = n + 1
      <4>1. m - 1 = n
        BY <2>1, <3>1
      <4>. QED BY <2>1, <2>3, <3>1, <4>1
    <3>2. CASE m # n + 1
      <4>1. m \in 1 .. n /\ m \in 0 .. n /\ m - 1 \in 0 .. n
        BY <2>1, <3>2
      <4>. QED BY <2>3, <4>1
    <3>. QED BY <3>1, <3>2
  <2>7. Iterates(G, S, a, n + 1, g)
    BY <2>4, <2>5, <2>6 DEF Iterates
  <2>. QED BY <2>1, <2>7
<1>. HIDE DEF T
<1>3. \A n \in 0 .. N : n \in T
  BY <1>1, <1>2, Inductively
<1>4. N \in T
  BY <1>3
<1>. QED BY <1>4 DEF T


-----------------------------------------------------------------------------
(* Sequences without repetition.                                           *)

\* s lists elements of S, none of them twice.
Lists(s, S) ==
  /\ s \in Seq(S)
  /\ \A i, m \in 1 .. Len(s) : s[i] = s[m] => i = m

\* It lists all of them.
ListsAll(s, S) == Lists(s, S) /\ Range(s) = S

LEMMA ListedAt ==
  ASSUME NEW S, NEW s \in Seq(S)
  PROVE  /\ Range(s) = {s[i] : i \in 1 .. Len(s)}
         /\ Range(s) \subseteq S
         /\ s \in Seq(Range(s))
         /\ IsFiniteSet(Range(s))
<1>1. DOMAIN s = 1 .. Len(s) /\ Len(s) \in Nat /\ \A i \in 1 .. Len(s) : s[i] \in S
  OBVIOUS
<1>2. Range(s) = {s[i] : i \in 1 .. Len(s)}
  BY <1>1 DEF Range
<1>3. s \in Seq(Range(s))
  <2>1. s = [i \in 1 .. Len(s) |-> s[i]]
    BY <1>1
  <2>2. s \in [1 .. Len(s) -> Range(s)]
    BY <1>2, <2>1
  <2>. QED BY <1>1, <2>2
<1>4. s \in Surjection(1 .. Len(s), Range(s))
  BY <1>1, <1>2, <1>3 DEF Surjection
<1>5. IsFiniteSet(1 .. Len(s))
  BY <1>1, FS_Interval
<1>6. IsFiniteSet(Range(s))
  BY <1>4, <1>5, FS_Surjection
<1>. QED BY <1>1, <1>2, <1>3, <1>6

\* As many entries as elements.
LEMMA ListedOnce ==
  ASSUME NEW S, NEW s, ListsAll(s, S)
  PROVE  IsFiniteSet(S) /\ Len(s) = Cardinality(S)
<1>1. s \in Seq(S) /\ Range(s) = S /\ \A i, m \in 1 .. Len(s) : s[i] = s[m] => i = m
  BY DEF ListsAll, Lists
<1>2. IsFiniteSet(S) /\ S = {s[i] : i \in 1 .. Len(s)}
  BY <1>1, ListedAt
<1>3. Len(s) \in Nat /\ s \in [1 .. Len(s) -> S]
  BY <1>1
<1>4. s \in Bijection(1 .. Len(s), S)
  BY <1>1, <1>2, <1>3 DEF Bijection, Injection, Surjection, IsInjective
<1>5. ExistsBijection(1 .. Len(s), S)
  BY <1>4 DEF ExistsBijection
<1>6. IsFiniteSet(1 .. Len(s)) /\ Cardinality(1 .. Len(s)) = Len(s)
  BY SMTT(30), <1>3, FS_Interval
<1>. QED BY <1>2, <1>5, <1>6, FS_Bijection

\* w has the elements of r and of s.
BothOf(w, r, s) == Range(w) = Range(r) \cup Range(s)

\* Two lists without a common element make a list of both.
LEMMA ListsJoined ==
  ASSUME NEW S, NEW r, NEW s, Lists(r, S), Lists(s, S),
         \A x \in Range(r) : x \notin Range(s)
  PROVE  Lists(r \o s, S) /\ BothOf(r \o s, r, s)
<1>. DEFINE w == r \o s
<1>1. /\ r \in Seq(S) /\ s \in Seq(S)
      /\ \A i, m \in 1 .. Len(r) : r[i] = r[m] => i = m
      /\ \A i, m \in 1 .. Len(s) : s[i] = s[m] => i = m
  BY DEF Lists
<1>2. /\ w \in Seq(S) /\ Len(w) = Len(r) + Len(s) /\ Len(r) \in Nat /\ Len(s) \in Nat
      /\ \A i \in 1 .. Len(r) : w[i] = r[i]
      /\ \A i \in Len(r) + 1 .. Len(w) : w[i] = s[i - Len(r)]
  BY <1>1
<1>3. /\ Range(r) = {r[i] : i \in 1 .. Len(r)}
      /\ Range(s) = {s[i] : i \in 1 .. Len(s)}
  BY <1>1, ListedAt
<1>4. Range(w) = {w[i] : i \in 1 .. Len(w)}
  BY ZenonT(30), <1>2, ListedAt
<1>. HIDE DEF w
<1>5. Range(w) \subseteq Range(r) \cup Range(s)
  <2>. SUFFICES ASSUME NEW i \in 1 .. Len(w) PROVE w[i] \in Range(r) \cup Range(s)
    BY <1>4
  <2>1. CASE i \in 1 .. Len(r)
    BY <1>2, <1>3, <2>1
  <2>2. CASE i \notin 1 .. Len(r)
    <3>1. i \in Len(r) + 1 .. Len(w) /\ i - Len(r) \in 1 .. Len(s)
      BY <1>2, <2>2
    <3>. QED BY <1>2, <1>3, <3>1
  <2>. QED BY <2>1, <2>2
<1>6. Range(r) \subseteq Range(w)
  <2>. SUFFICES ASSUME NEW i \in 1 .. Len(r) PROVE r[i] \in Range(w)
    BY <1>3
  <2>1. i \in 1 .. Len(w) /\ w[i] = r[i]
    BY <1>2
  <2>. QED BY <1>4, <2>1
<1>7. Range(s) \subseteq Range(w)
  <2>. SUFFICES ASSUME NEW i \in 1 .. Len(s) PROVE s[i] \in Range(w)
    BY <1>3
  <2>. DEFINE m == Len(r) + i
  <2>1. m \in 1 .. Len(w) /\ m \in Len(r) + 1 .. Len(w) /\ m - Len(r) = i
    BY <1>2
  <2>2. w[m] = s[i]
    BY <1>2, <2>1
  <2>. QED BY <1>4, <2>1, <2>2
<1>8. ASSUME NEW i \in 1 .. Len(w), NEW m \in 1 .. Len(w), w[i] = w[m] PROVE i = m
  <2>. DEFINE Left(n) == n \in 1 .. Len(r)
              Right(n) == n \in Len(r) + 1 .. Len(w)
  <2>1. \A n \in 1 .. Len(w) : Left(n) \/ Right(n)
    BY <1>2
  <2>2. \A n \in 1 .. Len(w) : Left(n) => w[n] \in Range(r)
    BY <1>2, <1>3
  <2>3. \A n \in 1 .. Len(w) : Right(n) => n - Len(r) \in 1 .. Len(s) /\ w[n] = s[n - Len(r)]
    BY <1>2
  <2>4. \A n \in 1 .. Len(w) : Right(n) => w[n] \in Range(s)
    BY <1>3, <2>3
  <2>5. CASE Left(i) /\ Left(m)
    BY <1>1, <1>2, <1>8, <2>5
  <2>6. CASE Right(i) /\ Right(m)
    <3>1. s[i - Len(r)] = s[m - Len(r)]
      BY <1>8, <2>3, <2>6
    <3>2. i - Len(r) = m - Len(r)
      BY <1>1, <2>3, <2>6, <3>1
    <3>. QED BY <1>2, <3>2
  <2>7. CASE Left(i) /\ Right(m)
    BY <1>8, <2>2, <2>4, <2>7
  <2>8. CASE Right(i) /\ Left(m)
    BY <1>8, <2>2, <2>4, <2>8
  <2>. HIDE DEF Left, Right
  <2>. QED BY <2>1, <2>5, <2>6, <2>7, <2>8
<1>. QED BY <1>2, <1>5, <1>6, <1>7, <1>8 DEF Lists, BothOf, w

\* One more element at the end.
LEMMA ListsAppended ==
  ASSUME NEW S, NEW s, Lists(s, S), NEW x \in S, x \notin Range(s)
  PROVE  Lists(Append(s, x), S) /\ Range(Append(s, x)) = Range(s) \cup {x}
<1>. DEFINE r == <<x>>
<1>1. r \in Seq(S) /\ Len(r) = 1 /\ r[1] = x
  OBVIOUS
<1>2. Range(r) = {x}
  <2>1. Range(r) = {r[i] : i \in 1 .. 1}
    BY <1>1, ListedAt
  <2>2. 1 .. 1 = {1}
    OBVIOUS
  <2>. QED BY <1>1, <2>1, <2>2
<1>3. Lists(r, S)
  BY <1>1 DEF Lists
<1>4. Append(s, x) = s \o r
  <2>1. s \in Seq(S)
    BY DEF Lists
  <2>. QED BY <1>1, <2>1
<1>5. \A y \in Range(s) : y \notin Range(r)
  BY <1>2
<1>. HIDE DEF r
<1>6. Lists(s, S)
  OBVIOUS
<1>7. Lists(s \o r, S)
  BY ONLY <1>3, <1>5, <1>6, ListsJoined, Zenon
<1>8. BothOf(s \o r, s, r)
  BY ONLY <1>3, <1>5, <1>6, ListsJoined, Zenon
<1>. QED BY <1>2, <1>4, <1>7, <1>8 DEF BothOf


-----------------------------------------------------------------------------
(* Pages by age.                                                           *)

\* The access serials are numbers.
Aged(t) == \A p \in Page : t.page[p].serial \in Nat

\* So the pages are in a linear order.
LEMMA OlderOrders ==
  ASSUME NEW t, Aged(t), NEW p \in Page, NEW q \in Page, NEW r \in Page
  PROVE  /\ ~ Older(t, p, p)
         /\ p # q => Older(t, p, q) \/ Older(t, q, p)
         /\ Older(t, p, q) /\ Older(t, q, r) => Older(t, p, r)
BY NumPagesAssumption DEF Aged, Older, Page

Elders(t, S, p) == {q \in S : Older(t, q, p)}
Rank(t, S, p) == Cardinality(Elders(t, S, p))

LEMMA PagesFinite ==
  IsFiniteSet(Page) /\ \A S \in SUBSET Page : IsFiniteSet(S)
<1>1. IsFiniteSet(0 .. NumPages - 1)
  BY NumPagesAssumption, FS_Interval
<1>. QED BY <1>1, FS_Subset DEF Page

\* The ranks of n pages are 0 .. n - 1, and each is the rank of one.
LEMMA Ranked ==
  ASSUME NEW t, Aged(t), NEW S \in SUBSET Page
  PROVE  /\ Cardinality(S) \in Nat
         /\ \A p \in S : Rank(t, S, p) \in 0 .. Cardinality(S) - 1
         /\ \A p, q \in S : Rank(t, S, p) = Rank(t, S, q) => p = q
         /\ \A n \in 0 .. Cardinality(S) - 1 : \E p \in S : Rank(t, S, p) = n
<1>1. IsFiniteSet(S) /\ Cardinality(S) \in Nat
  BY PagesFinite, FS_CardinalityType
<1>2. ASSUME NEW p \in S
      PROVE  /\ IsFiniteSet(Elders(t, S, p))
             /\ Rank(t, S, p) \in 0 .. Cardinality(S) - 1
  <2>1. Elders(t, S, p) \in SUBSET S
    BY DEF Elders
  <2>2. p \notin Elders(t, S, p)
    BY OlderOrders DEF Elders
  <2>3. /\ IsFiniteSet(Elders(t, S, p)) /\ Cardinality(Elders(t, S, p)) \in Nat
        /\ Cardinality(Elders(t, S, p)) <= Cardinality(S)
        /\ Cardinality(S) # Cardinality(Elders(t, S, p))
    BY <1>1, <2>1, <2>2, FS_Subset, FS_CardinalityType
  <2>. QED BY <1>1, <2>3 DEF Rank
<1>3. ASSUME NEW p \in S, NEW q \in S, Older(t, p, q)
      PROVE  Rank(t, S, p) < Rank(t, S, q)
  <2>1. Elders(t, S, p) \in SUBSET Elders(t, S, q)
    BY <1>3, OlderOrders DEF Elders
  <2>2. p \in Elders(t, S, q) /\ p \notin Elders(t, S, p)
    BY <1>3, OlderOrders DEF Elders
  <2>3. /\ Rank(t, S, p) <= Rank(t, S, q)
        /\ Rank(t, S, p) # Rank(t, S, q)
    BY <1>2, <2>1, <2>2, FS_Subset DEF Rank
  <2>4. Rank(t, S, p) \in Int /\ Rank(t, S, q) \in Int
    BY <1>1, <1>2
  <2>. QED BY <2>3, <2>4
<1>4. \A p, q \in S : Rank(t, S, p) = Rank(t, S, q) => p = q
  <2>. SUFFICES ASSUME NEW p \in S, NEW q \in S, p # q,
                       Rank(t, S, p) = Rank(t, S, q) PROVE FALSE
    OBVIOUS
  <2>1. Older(t, p, q) \/ Older(t, q, p)
    BY OlderOrders
  <2>2. Rank(t, S, p) \in Int /\ Rank(t, S, q) \in Int
    BY <1>1, <1>2
  <2>. QED BY <1>3, <2>1, <2>2
<1>5. \A n \in 0 .. Cardinality(S) - 1 : \E p \in S : Rank(t, S, p) = n
  <2>. DEFINE F == [p \in S |-> Rank(t, S, p)]
              T == 0 .. Cardinality(S) - 1
  <2>1. F \in Injection(S, T)
    <3>1. F \in [S -> T] /\ \A p, q \in S : F[p] = F[q] => p = q
      BY <1>2, <1>4
    <3>. HIDE DEF F, T
    <3>. QED BY <3>1 DEF Injection, IsInjective
  <2>2. IsFiniteSet(T) /\ Cardinality(T) = Cardinality(S)
    BY SMTT(30), <1>1, FS_Interval
  <2>. HIDE DEF T
  <2>3. F \in Surjection(S, T)
    BY <2>1, <2>2, FS_Injection
  <2>4. \A n \in T : \E p \in S : F[p] = n
    BY <2>3 DEF Surjection
  <2>. QED BY <2>4 DEF T
<1>. QED BY <1>1, <1>2, <1>4, <1>5

\* By age, all of them come, each once.
LEMMA AgeOrders ==
  ASSUME NEW t, Aged(t), NEW S \in SUBSET Page
  PROVE  ListsAll(ByAge(t, S), S)
<1>. DEFINE N == Cardinality(S)
            At(i) == CHOOSE p \in S : Rank(t, S, p) = i - 1
            s == [i \in 1 .. N |-> At(i)]
<1>1. ByAge(t, S) = s
  BY DEF ByAge, Rank, Elders
<1>2. N \in Nat
  BY Ranked
<1>3. \A i \in 1 .. N : At(i) \in S /\ Rank(t, S, At(i)) = i - 1
  <2>. SUFFICES ASSUME NEW i \in 1 .. N
                PROVE  At(i) \in S /\ Rank(t, S, At(i)) = i - 1
    OBVIOUS
  <2>1. i - 1 \in 0 .. N - 1
    BY <1>2
  <2>2. \E p \in S : Rank(t, S, p) = i - 1
    BY <2>1, Ranked
  <2>. QED BY <2>2
<1>. HIDE DEF N, At
<1>4. s \in [1 .. N -> S] /\ Len(s) = N /\ s \in Seq(S)
  BY <1>2, <1>3
<1>5. \A i, m \in 1 .. N : s[i] = s[m] => i = m
  <2>. SUFFICES ASSUME NEW i \in 1 .. N, NEW m \in 1 .. N, At(i) = At(m) PROVE i = m
    OBVIOUS
  <2>1. i - 1 = m - 1
    BY <1>3
  <2>. QED BY <1>2, <2>1
<1>6. ASSUME NEW p \in S PROVE \E i \in 1 .. N : s[i] = p
  <2>. DEFINE i == Rank(t, S, p) + 1
  <2>1. i \in 1 .. N /\ i - 1 = Rank(t, S, p)
    BY <1>2, Ranked DEF N
  <2>2. At(i) \in S /\ Rank(t, S, At(i)) = Rank(t, S, p)
    BY <1>3, <2>1
  <2>3. At(i) = p
    BY <2>2, Ranked
  <2>4. s[i] = At(i)
    BY <2>1
  <2>. HIDE DEF i
  <2>. QED BY <2>1, <2>3, <2>4, Zenon
<1>. HIDE DEF s
<1>7. Range(s) = {s[i] : i \in 1 .. N}
  BY <1>4, ListedAt
<1>8. Range(s) = S
  BY <1>4, <1>6, <1>7
<1>. QED BY <1>1, <1>4, <1>5, <1>8 DEF ListsAll, Lists

\* The oldest of some pages is one of them.
LEMMA OldestIn ==
  ASSUME NEW t, Aged(t), NEW S \in SUBSET Page, S # {}
  PROVE  Oldest(t, S) \in S
<1>1. Cardinality(S) \in Nat /\ Cardinality(S) # 0
  BY Ranked, PagesFinite, FS_EmptySet
<1>2. PICK p \in S : Rank(t, S, p) = 0
  <2>1. 0 \in 0 .. Cardinality(S) - 1
    BY <1>1
  <2>. QED BY <2>1, Ranked
<1>3. Elders(t, S, p) = {}
  <2>1. Elders(t, S, p) \in SUBSET Page
    BY DEF Elders
  <2>. QED BY <1>2, <2>1, PagesFinite, FS_EmptySet DEF Rank
<1>4. \A q \in S \ {p} : Older(t, p, q)
  BY <1>3, OlderOrders DEF Elders
<1>. QED BY <1>4 DEF Oldest


-----------------------------------------------------------------------------
(* Trees of pages.                                                         *)

Offspring(t, X) == UNION {Children(t, p) : p \in X}

LEMMA OffspringIn ==
  ASSUME NEW t, NEW X
  PROVE  Offspring(t, X) \in SUBSET Page
BY DEF Offspring, Children

\* The generations of a tree.
Grows(t, root, D) ==
  /\ D \in [0 .. NumPages -> SUBSET Page]
  /\ D[0] = {root}
  /\ \A n \in 1 .. NumPages : D[n] = D[n - 1] \cup Offspring(t, D[n - 1])

LEMMA Generations ==
  ASSUME NEW t, NEW root \in Page
  PROVE  \E D : Grows(t, root, D) /\ TreeOf(t, root) = D[NumPages]
<1>. DEFINE Wider(D) == [n \in 0 .. NumPages |->
                           IF n = 0 THEN {root} ELSE D[n - 1] \cup Offspring(t, D[n - 1])]
            Down == CHOOSE D : D = Wider(D)
            g == [n \in 1 .. NumPages |->
                    [X \in SUBSET Page |-> X \cup Offspring(t, X)]]
<1>1. TreeOf(t, root) = Down[NumPages]
  BY DEF TreeOf, Offspring
<1>2. NumPages \in Nat
  BY NumPagesAssumption
<1>3. PICK F \in [0 .. NumPages -> SUBSET Page] :
        F[0] = {root} /\ \A n \in 1 .. NumPages : F[n] = g[n][F[n - 1]]
  <2>1. {root} \in SUBSET Page
    OBVIOUS
  <2>2. \A n \in 1 .. NumPages : g[n] \in [SUBSET Page -> SUBSET Page]
    <3>. DEFINE G == [X \in SUBSET Page |-> X \cup Offspring(t, X)]
    <3>1. \A X \in SUBSET Page : X \cup Offspring(t, X) \in SUBSET Page
      BY OffspringIn
    <3>2. G \in [SUBSET Page -> SUBSET Page]
      BY <3>1
    <3>3. \A n \in 1 .. NumPages : g[n] = G
      OBVIOUS
    <3>. HIDE DEF G, g
    <3>. QED BY <3>2, <3>3
  <2>. DEFINE Q == SUBSET Page
              a == {root}
  <2>3. a \in Q /\ \A n \in 1 .. NumPages : g[n] \in [Q -> Q]
    BY <2>1, <2>2
  <2>. HIDE DEF g, Q, a
  <2>4. PICK F : Iterates(F, Q, a, NumPages, g)
    BY <1>2, <2>3, Recursively
  <2>. QED BY <2>4 DEF Q, a, Iterates
<1>4. F = Wider(F)
  <2>1. ASSUME NEW n \in 0 .. NumPages
        PROVE  F[n] = IF n = 0 THEN {root} ELSE F[n - 1] \cup Offspring(t, F[n - 1])
    <3>1. CASE n = 0
      BY <1>3, <3>1
    <3>2. CASE n # 0
      <4>1. n \in 1 .. NumPages /\ n - 1 \in 0 .. NumPages
        BY <1>2, <3>2
      <4>. QED BY <1>3, <3>2, <4>1
    <3>. QED BY <3>1, <3>2
  <2>. QED BY <2>1
<1>5. Down = Wider(Down)
  <2>. HIDE DEF Wider
  <2>. QED BY <1>4
<1>. HIDE DEF Down
<1>6. /\ Down[0] = {root}
      /\ \A n \in 1 .. NumPages : Down[n] = Down[n - 1] \cup Offspring(t, Down[n - 1])
  <2>1. \A n \in 0 .. NumPages :
          Down[n] = IF n = 0 THEN {root} ELSE Down[n - 1] \cup Offspring(t, Down[n - 1])
    BY <1>5
  <2>2. 0 \in 0 .. NumPages /\ \A n \in 1 .. NumPages : n \in 0 .. NumPages /\ n # 0
    BY <1>2
  <2>. HIDE DEF Wider
  <2>. QED BY <2>1, <2>2
<1>7. DOMAIN Down = 0 .. NumPages /\ Down = [n \in 0 .. NumPages |-> Down[n]]
  BY <1>5
<1>8. \A n \in 0 .. NumPages : Down[n] \in SUBSET Page
  <2>. DEFINE T == {n \in 0 .. NumPages : Down[n] \in SUBSET Page}
  <2>1. 0 \in T
    BY <1>2, <1>6
  <2>2. ASSUME NEW n \in 0 .. NumPages - 1, n \in T PROVE n + 1 \in T
    <3>1. n + 1 \in 1 .. NumPages /\ n + 1 \in 0 .. NumPages /\ (n + 1) - 1 = n
      BY <1>2
    <3>2. Down[n + 1] = Down[n] \cup Offspring(t, Down[n])
      BY <1>6, <3>1
    <3>. QED BY <2>2, <3>1, <3>2, OffspringIn
  <2>. HIDE DEF T
  <2>3. \A n \in 0 .. NumPages : n \in T
    BY <1>2, <2>1, <2>2, Inductively
  <2>. QED BY <2>3 DEF T
<1>9. Down \in [0 .. NumPages -> SUBSET Page]
  BY <1>7, <1>8
<1>10. Grows(t, root, Down)
  BY <1>6, <1>9 DEF Grows
<1>. QED BY <1>1, <1>10

\* A tree has pages only, its root among them, and every other page of it is the child
\* of one.
LEMMA TreeGrown ==
  ASSUME NEW t, NEW root \in Page
  PROVE  /\ TreeOf(t, root) \in SUBSET Page
         /\ root \in TreeOf(t, root)
<1>0. PICK D : Grows(t, root, D) /\ TreeOf(t, root) = D[NumPages]
  BY Generations
<1>. /\ D \in [0 .. NumPages -> SUBSET Page] /\ D[0] = {root}
     /\ \A n \in 1 .. NumPages : D[n] = D[n - 1] \cup Offspring(t, D[n - 1])
  BY <1>0 DEF Grows
<1>1. NumPages \in Nat
  BY NumPagesAssumption
<1>. DEFINE T == {n \in 0 .. NumPages : root \in D[n]}
<1>2. 0 \in T
  BY <1>1
<1>3. ASSUME NEW n \in 0 .. NumPages - 1, n \in T PROVE n + 1 \in T
  <2>1. n + 1 \in 1 .. NumPages /\ n + 1 \in 0 .. NumPages /\ (n + 1) - 1 = n
    BY <1>1
  <2>. QED BY <1>3, <2>1
<1>. HIDE DEF T
<1>4. \A n \in 0 .. NumPages : n \in T
  BY <1>1, <1>2, <1>3, Inductively
<1>5. NumPages \in T
  BY <1>1, <1>4
<1>. QED BY <1>0, <1>1, <1>5 DEF T

\* Nobody's children.
Rootless(t, p) == \A q \in Page : p \notin Children(t, q)

\* Trees of different roots are apart: a page's parent is the only one with its hash.
LEMMA TreesApart ==
  ASSUME NEW t, HashesUnique(t), NEW p \in Page, NEW q \in Page,
         Rootless(t, p), Rootless(t, q), p # q
  PROVE  \A x \in TreeOf(t, p) : x \notin TreeOf(t, q)
<1>p. PICK D : Grows(t, p, D) /\ TreeOf(t, p) = D[NumPages]
  BY Generations
<1>. /\ D \in [0 .. NumPages -> SUBSET Page] /\ D[0] = {p}
     /\ \A n \in 1 .. NumPages : D[n] = D[n - 1] \cup Offspring(t, D[n - 1])
  BY <1>p DEF Grows
<1>q. PICK E : Grows(t, q, E) /\ TreeOf(t, q) = E[NumPages]
  BY Generations
<1>. /\ E \in [0 .. NumPages -> SUBSET Page] /\ E[0] = {q}
     /\ \A n \in 1 .. NumPages : E[n] = E[n - 1] \cup Offspring(t, E[n - 1])
  BY <1>q DEF Grows
<1>1. NumPages \in Nat
  BY NumPagesAssumption
<1>2. \A n \in 0 .. NumPages - 1 : n + 1 \in 1 .. NumPages /\ n + 1 \in 0 .. NumPages
                                   /\ (n + 1) - 1 = n /\ n \in 0 .. NumPages
  BY <1>1
<1>. DEFINE Apart(n, m) == \A x \in D[n] : x \notin E[m]
<1>3. \A x, y, z \in Page : z \in Children(t, x) /\ z \in Children(t, y) => x = y
  BY DEF Children, HashesUnique
\* Neither root is in the other's tree.
<1>4. ASSUME NEW F \in [0 .. NumPages -> SUBSET Page], NEW r \in Page, NEW s \in Page,
             Rootless(t, s), r # s, F[0] = {r},
             \A n \in 1 .. NumPages : F[n] = F[n - 1] \cup Offspring(t, F[n - 1])
      PROVE  \A n \in 0 .. NumPages : s \notin F[n]
  <2>. DEFINE T == {n \in 0 .. NumPages : s \notin F[n]}
  <2>1. 0 \in T
    BY <1>1, <1>4
  <2>2. ASSUME NEW n \in 0 .. NumPages - 1, n \in T PROVE n + 1 \in T
    <3>1. F[n + 1] = F[n] \cup Offspring(t, F[n])
      BY <1>2, <1>4
    <3>2. F[n] \in SUBSET Page
      BY <1>2
    <3>3. s \notin Offspring(t, F[n])
      BY <1>4, <3>2 DEF Offspring, Rootless
    <3>. QED BY <1>2, <2>2, <3>1, <3>3
  <2>. HIDE DEF T
  <2>3. \A n \in 0 .. NumPages : n \in T
    BY <1>1, <2>1, <2>2, Inductively
  <2>. QED BY <2>3 DEF T
<1>5. \A n \in 0 .. NumPages : q \notin D[n] /\ p \notin E[n]
  BY <1>4
\* If a generation of one is apart from all of the other, so is the next.
<1>6. ASSUME NEW n \in 0 .. NumPages - 1, \A m \in 0 .. NumPages : Apart(n, m)
      PROVE  \A m \in 0 .. NumPages : Apart(n + 1, m)
  <2>. DEFINE T == {m \in 0 .. NumPages : Apart(n + 1, m)}
  <2>1. D[n + 1] = D[n] \cup Offspring(t, D[n]) /\ D[n] \in SUBSET Page
    BY <1>2
  <2>2. 0 \in T
    BY <1>1, <1>2, <1>5
  <2>3. ASSUME NEW m \in 0 .. NumPages - 1, m \in T PROVE m + 1 \in T
    <3>1. E[m + 1] = E[m] \cup Offspring(t, E[m]) /\ E[m] \in SUBSET Page
      BY <1>2
    <3>2. Apart(n, m) /\ Apart(n, m + 1) /\ Apart(n + 1, m)
      BY <1>2, <1>6, <2>3
    <3>3. ASSUME NEW x \in Offspring(t, D[n]), x \in Offspring(t, E[m]) PROVE FALSE
      <4>1. PICK y \in D[n] : x \in Children(t, y)
        BY DEF Offspring
      <4>2. PICK z \in E[m] : x \in Children(t, z)
        BY <3>3 DEF Offspring
      <4>3. x \in Page
        BY <4>1 DEF Children
      <4>4. y = z
        BY <1>3, <2>1, <3>1, <4>1, <4>2, <4>3
      <4>. QED BY <3>2, <4>4
    <3>4. Apart(n + 1, m + 1)
      BY <2>1, <3>1, <3>2, <3>3
    <3>. QED BY <1>2, <3>4
  <2>. HIDE DEF T
  <2>4. \A m \in 0 .. NumPages : m \in T
    BY <1>1, <2>2, <2>3, Inductively
  <2>. QED BY <2>4 DEF T
<1>. DEFINE T == {n \in 0 .. NumPages : \A m \in 0 .. NumPages : Apart(n, m)}
<1>7. 0 \in T
  BY <1>1, <1>5
<1>8. ASSUME NEW n \in 0 .. NumPages - 1, n \in T PROVE n + 1 \in T
  <2>. HIDE DEF Apart
  <2>. QED BY <1>2, <1>6, <1>8
<1>. HIDE DEF T
<1>9. \A n \in 0 .. NumPages : n \in T
  BY <1>1, <1>7, <1>8, Inductively
<1>10. Apart(NumPages, NumPages)
  <2>1. NumPages \in T /\ NumPages \in 0 .. NumPages
    BY <1>1, <1>9
  <2>. QED BY <2>1 DEF T
<1>. QED BY <1>p, <1>q, <1>10


-----------------------------------------------------------------------------
(* The walk of a tree.                                                     *)

\* The pages that are leaves once those of the walk w are gone.
Leaves(t, tree, kept, w) ==
  {p \in tree \ Range(w) : Children(t, p) \subseteq Range(w) \ kept}
Further(t, tree, kept, w) ==
  IF Leaves(t, tree, kept, w) = {} THEN w
  ELSE Append(w, Oldest(t, Leaves(t, tree, kept, w)))

LEMMA FurtherListed ==
  ASSUME NEW t, Aged(t), NEW tree \in SUBSET Page, NEW kept, NEW w, Lists(w, tree)
  PROVE  Lists(Further(t, tree, kept, w), tree)
<1>. DEFINE L == Leaves(t, tree, kept, w)
<1>1. L \in SUBSET Page /\ \A p \in L : p \in tree /\ p \notin Range(w)
  BY DEF Leaves
<1>. HIDE DEF L
<1>2. CASE L = {}
  BY <1>2 DEF Further, L
<1>3. CASE L # {}
  <2>1. Oldest(t, L) \in tree /\ Oldest(t, L) \notin Range(w)
    BY <1>1, <1>3, OldestIn
  <2>2. Lists(Append(w, Oldest(t, L)), tree)
    BY <2>1, ListsAppended
  <2>. QED BY <1>3, <2>2 DEF Further, L
<1>. QED BY <1>2, <1>3

\* The steps of a walk.
Walks(t, tree, kept, W, N) ==
  /\ DOMAIN W = 0 .. N
  /\ W[0] = <<>>
  /\ \A n \in 1 .. N : W[n] = Further(t, tree, kept, W[n - 1])

LEMMA WalkListed ==
  ASSUME NEW t, Aged(t), NEW tree \in SUBSET Page, NEW kept, NEW W, NEW N \in Nat,
         Walks(t, tree, kept, W, N)
  PROVE  \A n \in 0 .. N : Lists(W[n], tree)
<1>. DEFINE T == {n \in 0 .. N : Lists(W[n], tree)}
<1>0. /\ W[0] = <<>>
      /\ \A n \in 1 .. N : W[n] = Further(t, tree, kept, W[n - 1])
  BY DEF Walks
<1>1. 0 \in T
  <2>1. Lists(<<>>, tree)
    BY DEF Lists
  <2>. QED BY <1>0, <2>1
<1>2. ASSUME NEW n \in 0 .. N - 1, n \in T PROVE n + 1 \in T
  <2>1. n + 1 \in 1 .. N /\ n + 1 \in 0 .. N /\ (n + 1) - 1 = n
    OBVIOUS
  <2>2. W[n + 1] = Further(t, tree, kept, W[n])
    BY <1>0, <2>1
  <2>3. Lists(W[n + 1], tree)
    BY <1>2, <2>2, FurtherListed
  <2>. QED BY <2>1, <2>3
<1>. HIDE DEF T
<1>3. \A n \in 0 .. N : n \in T
  BY <1>1, <1>2, Inductively
<1>. QED BY <1>3 DEF T

\* LeafFirst takes them.
LEMMA LeafFirstWalks ==
  ASSUME NEW t, Aged(t), NEW tree \in SUBSET Page, NEW kept
  PROVE  \E W : /\ Walks(t, tree, kept, W, Cardinality(tree))
                /\ LeafFirst(t, tree, kept) = W[Cardinality(tree)]
<1>. DEFINE N == Cardinality(tree)
            Body(W) == [n \in 0 .. N |-> IF n = 0 THEN <<>>
                                         ELSE Further(t, tree, kept, W[n - 1])]
            Walk == CHOOSE W : W = Body(W)
            S == {w \in Seq(tree) : Lists(w, tree)}
            G == [w \in S |-> Further(t, tree, kept, w)]
            g == [n \in 1 .. N |-> G]
<1>1. LeafFirst(t, tree, kept) = Walk[N]
  BY DEF LeafFirst, Further, Leaves
<1>2. N \in Nat
  BY PagesFinite, FS_CardinalityType
<1>. HIDE DEF N
<1>3. <<>> \in S
  BY DEF Lists
<1>4. \A w \in S : Further(t, tree, kept, w) \in S
  BY FurtherListed DEF Lists
<1>5. PICK F : Iterates(F, S, <<>>, N, g)
  <2>. HIDE DEF S
  <2>1. G \in [S -> S]
    BY <1>4
  <2>2. \A n \in 1 .. N : g[n] = G
    OBVIOUS
  <2>. HIDE DEF g, G
  <2>3. \A n \in 1 .. N : g[n] \in [S -> S]
    BY <2>1, <2>2
  <2>. QED BY <1>2, <1>3, <2>3, Recursively
<1>. HIDE DEF S
<1>6. F \in [0 .. N -> S] /\ F[0] = <<>> /\ \A n \in 1 .. N : F[n] = g[n][F[n - 1]]
  BY <1>5 DEF Iterates
<1>7. F = Body(F)
  <2>1. ASSUME NEW n \in 0 .. N
        PROVE  F[n] = IF n = 0 THEN <<>> ELSE Further(t, tree, kept, F[n - 1])
    <3>1. CASE n = 0
      BY <1>6, <3>1
    <3>2. CASE n # 0
      <4>1. n \in 1 .. N /\ n - 1 \in 0 .. N
        BY <1>2, <3>2
      <4>2. F[n - 1] \in S /\ F[n] = g[n][F[n - 1]]
        BY <1>6, <4>1
      <4>. QED BY <3>2, <4>1, <4>2
    <3>. QED BY <3>1, <3>2
  <2>. QED BY <1>6, <2>1
<1>8. Walk = Body(Walk)
  <2>. HIDE DEF Body
  <2>. QED BY <1>7
<1>. HIDE DEF Walk
<1>9. Walks(t, tree, kept, Walk, N)
  <2>1. \A n \in 0 .. N : Walk[n] = IF n = 0 THEN <<>> ELSE Further(t, tree, kept, Walk[n - 1])
    BY <1>8
  <2>2. DOMAIN Walk = 0 .. N
    BY <1>8
  <2>3. 0 \in 0 .. N /\ \A n \in 1 .. N : n \in 0 .. N /\ n # 0
    BY <1>2
  <2>. HIDE DEF Body
  <2>. QED BY <2>1, <2>2, <2>3 DEF Walks
<1>. QED BY <1>1, <1>9 DEF N

LEMMA LeafFirstListed ==
  ASSUME NEW t, Aged(t), NEW tree \in SUBSET Page, NEW kept
  PROVE  Lists(LeafFirst(t, tree, kept), tree)
<1>1. PICK W : /\ Walks(t, tree, kept, W, Cardinality(tree))
               /\ LeafFirst(t, tree, kept) = W[Cardinality(tree)]
  BY LeafFirstWalks
<1>2. Cardinality(tree) \in Nat
  BY PagesFinite, FS_CardinalityType
<1>3. Cardinality(tree) \in 0 .. Cardinality(tree)
  BY <1>2
<1>4. Lists(W[Cardinality(tree)], tree)
  BY <1>1, <1>2, <1>3, WalkListed
<1>. QED BY <1>1, <1>4

-----------------------------------------------------------------------------
(* The pages of a walk that are given up.                                  *)

Emits(walk, others, U) ==
  /\ DOMAIN U = 0 .. Len(walk)
  /\ U[0] = <<>>
  /\ \A n \in 1 .. Len(walk) :
       U[n] = IF walk[n] \in others THEN U[n - 1] ELSE Append(U[n - 1], walk[n])

LEMMA EmittedUpto ==
  ASSUME NEW S, NEW walk \in Seq(S), NEW others
  PROVE  \E U : Emits(walk, others, U) /\ Emitted(walk, others) = U[Len(walk)]
<1>. DEFINE N == Len(walk)
            Step(n, w) == IF walk[n] \in others THEN w ELSE Append(w, walk[n])
            Body(U) == [n \in 0 .. N |->
                          IF n = 0 THEN <<>>
                          ELSE IF walk[n] \in others THEN U[n - 1]
                               ELSE Append(U[n - 1], walk[n])]
            Upto == CHOOSE U : U = Body(U)
            Q == Seq(S)
            G(n) == [w \in Q |-> Step(n, w)]
            g == [n \in 1 .. N |-> G(n)]
<1>1. Emitted(walk, others) = Upto[N]
  BY DEF Emitted
<1>2. N \in Nat /\ \A n \in 1 .. N : walk[n] \in S
  OBVIOUS
<1>3. \A n \in 1 .. N : \A w \in Q : Step(n, w) \in Q
  BY <1>2
<1>4. <<>> \in Q
  OBVIOUS
<1>. HIDE DEF N, Q
<1>5. PICK F : Iterates(F, Q, <<>>, N, g)
  <2>1. \A n \in 1 .. N : G(n) \in [Q -> Q]
    <3>. HIDE DEF Step
    <3>. QED BY <1>3
  <2>2. \A n \in 1 .. N : g[n] = G(n)
    OBVIOUS
  <2>. HIDE DEF g, G
  <2>3. \A n \in 1 .. N : g[n] \in [Q -> Q]
    BY <2>1, <2>2
  <2>. QED BY <1>2, <1>4, <2>3, Recursively
<1>6. F \in [0 .. N -> Q] /\ F[0] = <<>> /\ \A n \in 1 .. N : F[n] = g[n][F[n - 1]]
  BY <1>5 DEF Iterates
<1>7. F = Body(F)
  <2>1. ASSUME NEW n \in 0 .. N
        PROVE  F[n] = IF n = 0 THEN <<>> ELSE Step(n, F[n - 1])
    <3>. HIDE DEF Step
    <3>1. CASE n = 0
      BY <1>6, <3>1
    <3>2. CASE n # 0
      <4>1. n \in 1 .. N /\ n - 1 \in 0 .. N
        BY <1>2, <3>2
      <4>2. F[n - 1] \in Q /\ F[n] = g[n][F[n - 1]]
        BY <1>6, <4>1
      <4>. QED BY <3>2, <4>1, <4>2
    <3>. QED BY <3>1, <3>2
  <2>2. Body(F) = [n \in 0 .. N |-> F[n]]
    BY <2>1
  <2>. QED BY <1>6, <2>2
<1>8. Upto = Body(Upto)
  <2>. HIDE DEF Body
  <2>. QED BY <1>7
<1>. HIDE DEF Upto
<1>9. Emits(walk, others, Upto)
  <2>1. \A n \in 0 .. N : Upto[n] = IF n = 0 THEN <<>> ELSE Step(n, Upto[n - 1])
    BY <1>8
  <2>2. DOMAIN Upto = 0 .. N
    BY <1>8
  <2>3. 0 \in 0 .. N /\ \A n \in 1 .. N : n \in 0 .. N /\ n # 0
    BY <1>2
  <2>. HIDE DEF Body
  <2>. QED BY <2>1, <2>2, <2>3 DEF Emits, N
<1>. QED BY <1>1, <1>9 DEF N

\* They are those of the walk that are not others, each once.
LEMMA EmittedListed ==
  ASSUME NEW S, NEW walk, Lists(walk, S), NEW others
  PROVE  /\ Lists(Emitted(walk, others), S)
         /\ Range(Emitted(walk, others)) = Range(walk) \ others
<1>. DEFINE N == Len(walk)
            First(n) == {walk[i] : i \in 1 .. n}
<1>0. walk \in Seq(S) /\ \A i, m \in 1 .. N : walk[i] = walk[m] => i = m
  BY DEF Lists
<1>1. PICK U : Emits(walk, others, U) /\ Emitted(walk, others) = U[N]
  BY <1>0, EmittedUpto
<1>2. /\ N \in Nat /\ \A n \in 1 .. N : walk[n] \in S
      /\ Range(walk) = First(N)
  BY <1>0, ListedAt
<1>3. /\ U[0] = <<>>
      /\ \A n \in 1 .. N : U[n] = IF walk[n] \in others THEN U[n - 1]
                                  ELSE Append(U[n - 1], walk[n])
  BY <1>1 DEF Emits
<1>. HIDE DEF N
<1>. DEFINE Good(n) == Lists(U[n], S) /\ Range(U[n]) = First(n) \ others
            T == {n \in 0 .. N : Good(n)}
<1>4. 0 \in T
  <2>1. Lists(<<>>, S) /\ Range(<<>>) = {}
    BY DEF Lists, Range
  <2>2. First(0) = {}
    OBVIOUS
  <2>. QED BY <1>2, <1>3, <2>1, <2>2
<1>5. ASSUME NEW n \in 0 .. N - 1, n \in T PROVE n + 1 \in T
  <2>. DEFINE x == walk[n + 1]
  <2>1. n + 1 \in 1 .. N /\ n + 1 \in 0 .. N /\ (n + 1) - 1 = n
    BY <1>2
  <2>2. First(n + 1) = First(n) \cup {x}
    BY <1>2
  <2>3. Lists(U[n], S) /\ Range(U[n]) = First(n) \ others
    BY <1>5
  <2>4. U[n + 1] = IF x \in others THEN U[n] ELSE Append(U[n], x)
    BY <1>3, <2>1
  <2>5. x \in S /\ x \notin First(n)
    <3>1. \A i \in 1 .. n : i \in 1 .. N /\ i # n + 1
      BY <1>2
    <3>. QED BY <1>0, <1>2, <2>1, <3>1 DEF N
  <2>. HIDE DEF First, x
  <2>6. CASE x \in others
    BY <2>1, <2>2, <2>3, <2>4, <2>6
  <2>7. CASE x \notin others
    <3>1. x \notin Range(U[n])
      BY <2>3, <2>5
    <3>2. Lists(Append(U[n], x), S) /\ Range(Append(U[n], x)) = Range(U[n]) \cup {x}
      BY <2>3, <2>5, <3>1, ListsAppended
    <3>3. Range(U[n]) \cup {x} = First(n + 1) \ others
      BY <2>2, <2>3, <2>7
    <3>. QED BY <2>1, <2>4, <2>7, <3>2, <3>3
  <2>. QED BY <2>6, <2>7
<1>. HIDE DEF T
<1>6. \A n \in 0 .. N : n \in T
  BY <1>2, <1>4, <1>5, Inductively
<1>7. N \in T
  BY <1>2, <1>6
<1>. HIDE DEF First
<1>. QED BY <1>1, <1>2, <1>7 DEF T


-----------------------------------------------------------------------------
(* Walks one after the other.                                              *)

\* Lists of which no two have a common element.
ListsOf(seqs, S) ==
  /\ seqs \in Seq(Seq(S))
  /\ \A i \in 1 .. Len(seqs) : Lists(seqs[i], S)
  /\ \A i, m \in 1 .. Len(seqs) : i # m => \A x \in Range(seqs[i]) : x \notin Range(seqs[m])

Joins(walks, U) ==
  U[0] = <<>> /\ \A n \in 1 .. Len(walks) : U[n] = U[n - 1] \o walks[n]

LEMMA ConcatenatedUpto ==
  ASSUME NEW S, NEW walks \in Seq(Seq(S))
  PROVE  \E U : Joins(walks, U) /\ Concatenated(walks) = U[Len(walks)]
<1>. DEFINE N == Len(walks)
            Q == Seq(S)
            Body(U) == [n \in 0 .. N |-> IF n = 0 THEN <<>> ELSE U[n - 1] \o walks[n]]
            Upto == CHOOSE U : U = Body(U)
            G(n) == [w \in Q |-> w \o walks[n]]
            g == [n \in 1 .. N |-> G(n)]
<1>1. Concatenated(walks) = Upto[N]
  BY DEF Concatenated
<1>2. N \in Nat /\ \A n \in 1 .. N : walks[n] \in Q
  OBVIOUS
<1>3. \A n \in 1 .. N : \A w \in Q : w \o walks[n] \in Q
  BY <1>2
<1>4. <<>> \in Q
  OBVIOUS
<1>. HIDE DEF N, Q
<1>5. PICK F : Iterates(F, Q, <<>>, N, g)
  <2>1. \A n \in 1 .. N : G(n) \in [Q -> Q]
    BY <1>3
  <2>2. \A n \in 1 .. N : g[n] = G(n)
    OBVIOUS
  <2>. HIDE DEF g, G
  <2>3. \A n \in 1 .. N : g[n] \in [Q -> Q]
    BY <2>1, <2>2
  <2>. QED BY <1>2, <1>4, <2>3, Recursively
<1>6. F \in [0 .. N -> Q] /\ F[0] = <<>> /\ \A n \in 1 .. N : F[n] = g[n][F[n - 1]]
  BY <1>5 DEF Iterates
<1>7. F = Body(F)
  <2>1. ASSUME NEW n \in 0 .. N
        PROVE  F[n] = IF n = 0 THEN <<>> ELSE F[n - 1] \o walks[n]
    <3>1. CASE n = 0
      BY <1>6, <3>1
    <3>2. CASE n # 0
      <4>1. n \in 1 .. N /\ n - 1 \in 0 .. N
        BY <1>2, <3>2
      <4>2. F[n - 1] \in Q /\ F[n] = g[n][F[n - 1]]
        BY <1>6, <4>1
      <4>. QED BY <3>2, <4>1, <4>2
    <3>. QED BY <3>1, <3>2
  <2>. HIDE DEF g
  <2>. QED BY <1>6, <2>1
<1>8. Upto = Body(Upto)
  <2>. HIDE DEF Body
  <2>. QED BY <1>7
<1>. HIDE DEF Upto
<1>9. \A n \in 0 .. N : Upto[n] = IF n = 0 THEN <<>> ELSE Upto[n - 1] \o walks[n]
  BY <1>8
<1>10. Upto[0] = <<>> /\ \A n \in 1 .. N : Upto[n] = Upto[n - 1] \o walks[n]
  <2>1. 0 \in 0 .. N /\ \A n \in 1 .. N : n \in 0 .. N /\ n # 0
    BY <1>2
  <2>. QED BY ONLY <2>1, <1>9, Zenon
<1>11. N = Len(walks)
  BY DEF N
<1>12. Joins(walks, Upto)
  BY ONLY <1>10, <1>11, Zenon DEF Joins
<1>13. Concatenated(walks) = Upto[Len(walks)]
  BY ONLY <1>1, <1>11
<1>. QED BY ONLY <1>12, <1>13, Zenon

LEMMA Flattened ==
  ASSUME NEW S, NEW seqs, ListsOf(seqs, S)
  PROVE  Lists(Concatenated(seqs), S)
<1>. DEFINE N == Len(seqs)
<1>1. /\ N \in Nat /\ seqs \in Seq(Seq(S))
      /\ \A n \in 1 .. N : Lists(seqs[n], S)
      /\ \A i, m \in 1 .. N : i # m => \A x \in Range(seqs[i]) : x \notin Range(seqs[m])
  BY DEF ListsOf
<1>2. PICK U : Joins(seqs, U) /\ Concatenated(seqs) = U[N]
  BY <1>1, ConcatenatedUpto
<1>0. U[0] = <<>> /\ \A n \in 1 .. N : U[n] = U[n - 1] \o seqs[n]
  BY <1>2 DEF Joins
<1>. HIDE DEF N
<1>. DEFINE Sum(n) == UNION {Range(seqs[i]) : i \in 1 .. n}
            Good(n) == Lists(U[n], S) /\ Range(U[n]) = Sum(n)
            T == {n \in 0 .. N : Good(n)}
<1>3. 0 \in T
  <2>1. Lists(<<>>, S) /\ Range(<<>>) = {}
    BY DEF Lists, Range
  <2>2. Sum(0) = {}
    OBVIOUS
  <2>. QED BY <1>0, <1>1, <2>1, <2>2
<1>4. ASSUME NEW n \in 0 .. N - 1, n \in T PROVE n + 1 \in T
  <2>. DEFINE s == seqs[n + 1]
  <2>1. n \in Nat /\ n + 1 \in 1 .. N /\ (n + 1) - 1 = n /\ n + 1 \in 0 .. N
        /\ \A i \in 1 .. n : i \in 1 .. N /\ i # n + 1
    BY <1>1
  <2>2. Good(n)
    BY <1>4
  <2>3. U[n + 1] = U[n] \o s
    BY <1>0, <2>1
  <2>4. Sum(n + 1) = Sum(n) \cup Range(s)
    <3>1. 1 .. n + 1 = (1 .. n) \cup {n + 1}
      BY <2>1
    <3>. QED BY <3>1
  <2>5. Lists(s, S)
    BY <1>1, <2>1
  <2>6. \A x \in Sum(n) : x \notin Range(s)
    BY <1>1, <2>1
  <2>. HIDE DEF Sum, s
  <2>7. Lists(U[n], S) /\ Range(U[n]) = Sum(n) /\ \A x \in Range(U[n]) : x \notin Range(s)
    BY <2>2, <2>6
  <2>8. Lists(U[n] \o s, S)
    BY ONLY <2>5, <2>7, ListsJoined, Zenon
  <2>9. BothOf(U[n] \o s, U[n], s)
    BY ONLY <2>5, <2>7, ListsJoined, Zenon
  <2>10. Good(n + 1)
    BY <2>3, <2>4, <2>7, <2>8, <2>9 DEF BothOf
  <2>. HIDE DEF Good
  <2>. QED BY <2>1, <2>10
<1>. HIDE DEF T
<1>5. \A n \in 0 .. N : n \in T
  BY <1>1, <1>3, <1>4, Inductively
<1>6. N \in T
  BY <1>1, <1>5
<1>. QED BY <1>2, <1>6 DEF T

-----------------------------------------------------------------------------
(* The order in which pages are given up.                                  *)

\* No page is filed under the name of nothing.
NoneRoot(t) == \A p \in Page : t.page[p].phash # Root

\* The roots, orphans first, each once; none is another page's child.
LEMMA RootsListed ==
  ASSUME NEW t, Aged(t), NoneRoot(t)
  PROVE  LET roots == ByAge(t, OrphanRoots(t)) \o ByAge(t, Roots(t)) IN
         Lists(roots, Page) /\ \A p \in Range(roots) : p \in Page /\ Rootless(t, p)
<1>. DEFINE r == ByAge(t, OrphanRoots(t))
            s == ByAge(t, Roots(t))
<1>1. OrphanRoots(t) \in SUBSET Page /\ Roots(t) \in SUBSET Page
      /\ \A p \in OrphanRoots(t) : p \notin Roots(t)
  BY DEF OrphanRoots, Roots
<1>2. ListsAll(r, OrphanRoots(t)) /\ ListsAll(s, Roots(t))
  BY <1>1, AgeOrders
<1>. HIDE DEF r, s
<1>3. /\ Lists(r, Page) /\ Range(r) = OrphanRoots(t)
      /\ Lists(s, Page) /\ Range(s) = Roots(t)
  BY <1>1, <1>2 DEF ListsAll, Lists
<1>4. Lists(r \o s, Page) /\ Range(r \o s) = OrphanRoots(t) \cup Roots(t)
  <2>1. \A x \in Range(r) : x \notin Range(s)
    BY <1>1, <1>3
  <2>2. Lists(r \o s, Page)
    BY ONLY <1>3, <2>1, ListsJoined, Zenon
  <2>3. BothOf(r \o s, r, s)
    BY ONLY <1>3, <2>1, ListsJoined, Zenon
  <2>. QED BY <1>3, <2>2, <2>3 DEF BothOf
<1>5. ASSUME NEW p \in OrphanRoots(t) PROVE Rootless(t, p)
  BY DEF OrphanRoots, Parents, Rootless, Children
<1>6. ASSUME NEW p \in Roots(t) PROVE Rootless(t, p)
  BY DEF Roots, Rootless, Children, NoneRoot
<1>7. Lists(r \o s, Page) /\ \A p \in Range(r \o s) : p \in Page /\ Rootless(t, p)
  BY <1>1, <1>4, <1>5, <1>6
<1>. QED BY <1>7 DEF r, s

\* The order has all unreferenced pages, each once.
LEMMA EvictionListed ==
  ASSUME NEW t, Aged(t), NoneRoot(t), PagesFiled(t), HashesUnique(t),
         \A p \in Page : t.page[p].refs \in Nat, NEW protected
  PROVE  ListsAll(BuildEvictionOrder(t, protected), t.unreferenced)
<1>. DEFINE shielded == {p \in Page : t.page[p].phash \in protected}
            empty    == {p \in t.unreferenced \ shielded : t.page[p].kv = 0}
            kept     == {p \in Page \ empty : t.page[p].refs > 0 \/ p \in shielded}
            roots    == ByAge(t, OrphanRoots(t)) \o ByAge(t, Roots(t))
            walk(i)  == LeafFirst(t, TreeOf(t, roots[i]), kept)
            walks    == [i \in DOMAIN roots |-> walk(i)]
            walked   == Concatenated(walks)
            emitted  == Emitted(walked, empty \cup kept)
            pruned   == ByAge(t, empty) \o emitted
            rest     == t.unreferenced \ Range(pruned)
            last     == LastResort(t, rest, shielded)
            U        == t.unreferenced
<1>1. BuildEvictionOrder(t, protected) = pruned \o last
  BY DEF BuildEvictionOrder
<1>2. /\ U \in SUBSET Page /\ \A p \in Page : p \notin U => t.page[p].refs > 0
      /\ empty \in SUBSET U /\ \A p \in Page : p \notin U => p \in kept
  <2>1. U = {p \in Page : t.page[p].refs = 0}
    BY DEF PagesFiled
  <2>. HIDE DEF shielded
  <2>. QED BY <2>1
<1>. HIDE DEF shielded, empty, kept, U
<1>3. Lists(roots, Page) /\ \A p \in Range(roots) : p \in Page /\ Rootless(t, p)
  BY RootsListed
<1>. HIDE DEF roots
<1>4. /\ roots \in Seq(Page) /\ \A i, m \in 1 .. Len(roots) : roots[i] = roots[m] => i = m
      /\ DOMAIN roots = 1 .. Len(roots) /\ Len(roots) \in Nat
      /\ Range(roots) = {roots[i] : i \in 1 .. Len(roots)}
  <2>1. roots \in Seq(Page) /\ \A i, m \in 1 .. Len(roots) : roots[i] = roots[m] => i = m
    BY <1>3 DEF Lists
  <2>. QED BY <2>1, ListedAt
<1>5. ASSUME NEW i \in 1 .. Len(roots)
      PROVE  /\ roots[i] \in Page /\ Rootless(t, roots[i])
             /\ TreeOf(t, roots[i]) \in SUBSET Page
             /\ Lists(walk(i), TreeOf(t, roots[i]))
             /\ Lists(walk(i), Page) /\ walk(i) \in Seq(Page)
             /\ Range(walk(i)) \subseteq TreeOf(t, roots[i])
  <2>1. roots[i] \in Page /\ Rootless(t, roots[i])
    BY <1>3, <1>4
  <2>2. TreeOf(t, roots[i]) \in SUBSET Page
    BY <2>1, TreeGrown
  <2>3. Lists(walk(i), TreeOf(t, roots[i]))
    BY <2>2, LeafFirstListed
  <2>. HIDE DEF walk
  <2>4. Lists(walk(i), Page) /\ walk(i) \in Seq(Page)
    BY <2>2, <2>3 DEF Lists
  <2>5. Range(walk(i)) \subseteq TreeOf(t, roots[i])
    BY <2>3, ListedAt DEF Lists
  <2>. QED BY <2>1, <2>2, <2>3, <2>4, <2>5
<1>. HIDE DEF walk
<1>6. ListsOf(walks, Page)
  <2>1. walks \in Seq(Seq(Page)) /\ Len(walks) = Len(roots)
        /\ \A i \in 1 .. Len(roots) : walks[i] = walk(i)
    BY <1>4, <1>5
  <2>. HIDE DEF walks
  <2>2. ASSUME NEW i \in 1 .. Len(roots), NEW m \in 1 .. Len(roots), i # m,
               NEW x \in Range(walk(i)), x \in Range(walk(m))
        PROVE  FALSE
    <3>1. x \in TreeOf(t, roots[i]) /\ x \in TreeOf(t, roots[m])
      BY <1>5, <2>2
    <3>2. roots[i] # roots[m]
      BY <1>4, <2>2
    <3>. QED BY <1>5, <3>1, <3>2, TreesApart
  <2>. QED BY <1>5, <2>1, <2>2 DEF ListsOf
<1>. HIDE DEF walks
<1>7. Lists(walked, Page)
  BY <1>6, Flattened
<1>. HIDE DEF walked
<1>8. Lists(emitted, Page) /\ Range(emitted) = Range(walked) \ (empty \cup kept)
  BY <1>7, EmittedListed
<1>. HIDE DEF emitted
<1>9. Range(emitted) \in SUBSET U /\ \A x \in Range(emitted) : x \notin empty
  <2>1. Range(walked) \subseteq Page
    BY <1>7, ListedAt DEF Lists
  <2>. QED BY <1>2, <1>8, <2>1
<1>10. Lists(ByAge(t, empty), Page) /\ Range(ByAge(t, empty)) = empty
  <2>1. ListsAll(ByAge(t, empty), empty) /\ empty \in SUBSET Page
    BY <1>2, AgeOrders
  <2>. QED BY <2>1 DEF ListsAll, Lists
<1>11. Lists(pruned, Page) /\ Range(pruned) \in SUBSET U
  <2>. DEFINE r == ByAge(t, empty)
  <2>1. \A x \in Range(r) : x \notin Range(emitted)
    BY <1>9, <1>10
  <2>. HIDE DEF r
  <2>2. Lists(r, Page)
    BY <1>10 DEF r
  <2>3. Lists(r \o emitted, Page)
    BY ONLY <1>8, <2>1, <2>2, ListsJoined, Zenon
  <2>4. BothOf(r \o emitted, r, emitted)
    BY ONLY <1>8, <2>1, <2>2, ListsJoined, Zenon
  <2>. QED BY <1>2, <1>9, <1>10, <2>3, <2>4 DEF r, BothOf
<1>. HIDE DEF pruned
<1>12. Lists(last, Page) /\ Range(last) = rest
  <2>. DEFINE A == rest \ shielded
              B == rest \cap shielded
              r == ByAge(t, A)
              s == ByAge(t, B)
  <2>1. A \in SUBSET Page /\ B \in SUBSET Page /\ A \cup B = rest /\ \A x \in A : x \notin B
    BY <1>2 DEF U
  <2>2. last = r \o s
    BY DEF LastResort
  <2>. HIDE DEF rest, last, A, B
  <2>3. ListsAll(r, A) /\ ListsAll(s, B)
    BY <2>1, AgeOrders
  <2>. HIDE DEF r, s
  <2>4. Lists(r, Page) /\ Lists(s, Page) /\ Range(r) = A /\ Range(s) = B
        /\ \A x \in Range(r) : x \notin Range(s)
    BY <2>1, <2>3 DEF ListsAll, Lists
  <2>5. Lists(r \o s, Page)
    BY ONLY <2>4, ListsJoined, Zenon
  <2>6. BothOf(r \o s, r, s)
    BY ONLY <2>4, ListsJoined, Zenon
  <2>. QED BY <2>1, <2>2, <2>4, <2>5, <2>6 DEF BothOf
<1>13. Lists(pruned \o last, Page) /\ Range(pruned \o last) = U
  <2>1. \A x \in Range(pruned) : x \notin Range(last)
    BY <1>12
  <2>2. rest = U \ Range(pruned)
    BY DEF U
  <2>. HIDE DEF last, rest
  <2>3. Lists(pruned \o last, Page)
    BY ONLY <1>11, <1>12, <2>1, ListsJoined, Zenon
  <2>4. BothOf(pruned \o last, pruned, last)
    BY ONLY <1>11, <1>12, <2>1, ListsJoined, Zenon
  <2>. QED BY <1>11, <1>12, <2>2, <2>3, <2>4 DEF BothOf
<1>. DEFINE w == pruned \o last
<1>. HIDE DEF last, w
<1>14. w \in Seq(U)
  <2>1. w \in Seq(Page) /\ Range(w) = U
    BY <1>13 DEF Lists, w
  <2>. QED BY <2>1, ListedAt
<1>15. ListsAll(w, U)
  <2>1. Lists(w, Page) /\ Range(w) = U
    BY <1>13 DEF w
  <2>. QED BY <1>14, <2>1 DEF ListsAll, Lists
<1>. QED BY <1>1, <1>15 DEF w, U

-----------------------------------------------------------------------------
(* What is assumed of prompts, banned strings and passes that raise.       *)

\* x begins with the token b, which does not occur in it again.
Opens(b, x) == Len(x) >= 1 /\ x[1] = b /\ \A i \in 2 .. Len(x) : x[i] # b

\* All prompts begin with one token, a BOS token, that is never sampled.
PromptsOpen == \E b \in Token \ Sampled : \A x \in Prompts : Opens(b, x)

Bos == CHOOSE b \in Token \ Sampled : \A x \in Prompts : Opens(b, x)

\* No banned string begins with the token whose acceptance completes a page.
HoldsInside == Banned => ~ BoundaryHolds

\* A prefill pass that raises has not written any K/V.
RaisesUnwritten == FailedWrites \subseteq {FALSE}

-----------------------------------------------------------------------------
(* The contents of one page.                                               *)

\* The tokens of one sequence, from its beginning.
Text(x) == x \in Seq(Token) /\ \A i \in 2 .. Len(x) : x[i] # Bos

\* A page with kv tokens, filed under h after prev, holds the K/V of kv successive
\* tokens of one sequence; of the sequence prev names, if it names one; and of the
\* one h names, if that is a content hash and the page is complete.
Truth(h, prev, kv, toks, cells) ==
  kv > 0 =>
    LET x == cells[kv - 1]
        m == Len(x) - kv
    IN /\ Text(x)
       /\ m \in Nat /\ m % PageSize = 0
       /\ \A s \in 0 .. kv - 1 :
            cells[s] = SubSeq(x, 1, m + s + 1) /\ toks[s] = x[m + s + 1]
       /\ prev.base = 0 /\ prev # Root => prev.toks = SubSeq(x, 1, m)
       /\ kv = PageSize /\ h.base = 0 => h.toks = x

\* Nothing is filed under the hash of the empty context, or can be reverted to it.
Identified(rec) ==
  /\ rec.phash # Root
  /\ rec.saved # None => rec.saved.phash # Root

\* It does under its present identity, and under the one it may be reverted to.
TruePage(rec, cells) ==
  /\ Identified(rec)
  /\ Truth(rec.phash, rec.prev, rec.kv, rec.toks, cells)
  /\ rec.saved # None =>
       Truth(rec.saved.phash, rec.saved.prev, rec.saved.kv, rec.toks, cells)

PagesTrue(t, c) == \A p \in Page : TruePage(t.page[p], c[p])

-----------------------------------------------------------------------------
(* Where a job is in its iteration.                                        *)

Sampling == {"sample", "complete", "judge", "rewind", "flush", "verify", "reject"}

\* What the iteration is doing with the job it has in hand, and its loop variable.
Phase(j) == IF j = cur /\ pc \in {"alloc"} \cup Sampling THEN pc ELSE "none"
Turn(j) == IF Phase(j) = "none" THEN 0 ELSE k

\* The forward pass has written the job's row, and none of it is verified yet.
Drafted(j) ==
  /\ PrefillDone(job[j])
  /\ \/ pc = "forward" /\ j \notin todo
     \/ pc \in Sampling /\ j \in todo

\* The job still counts on the contents of its pages.
LiveAs(J, ph) ==
  /\ J.stage = "active"
  /\ \/ J.fate \in {"go", "rewound"}
     \/ ph \in {"flush", "verify"}
     \/ ph = "reject" /\ J.fate = "requeue"

\* The first page of a job that is not final: the ones from here on are not hashed.
LowAs(J, ph) ==
  IF ~ PrefillDone(J) THEN ContextPages(J.plen)
  ELSE IF ph = "rewind" THEN PageAt(J.pos)
  ELSE IF ph = "complete" THEN PageAt(J.pos) - 1
  ELSE PageAt(J.pos) - Len(J.deferred)

\* The tokens whose K/V the job's pages hold: those before its position, and what
\* the forward pass has written beyond.
Settled(J) == SubSeq(J.ids, 1, J.pos)
Rest(J, n) == SubSeq(J.draft, n + 1, Len(J.draft))

RowAs(J, ph, n, drafted) ==
  IF drafted THEN J.ids \o J.draft
  ELSE IF ph = "sample" THEN J.ids \o Rest(J, n)
  ELSE IF ph \in {"complete", "judge", "flush"} \/ (ph = "verify" /\ J.fate # "rewound")
       THEN Settled(J) \o Rest(J, n)
  ELSE Settled(J)

-----------------------------------------------------------------------------
(* A job and its pages.                                                    *)

Index(J) == 0 .. Len(J.pages) - 1
PageOf(J, i) == J.pages[i + 1]

\* Of the pages before low, those with a content hash are a beginning of the block
\* table and have the hash of the sequence so far; those from low on are placeholders.
NamesTrue(t, J, low) ==
  \A i \in Index(J) :
    LET h == t.page[PageOf(J, i)].phash IN
    /\ i < low =>
         /\ h.base = 0 => h.toks = SubSeq(J.ids, 1, (i + 1) * PageSize)
         /\ h.base = 0 /\ i > 0 => t.page[PageOf(J, i - 1)].phash.base = 0
         /\ ~ PrefillDone(J) => h.base = 0
    /\ i >= low => h.base # 0 /\ h.toks = <<>>

\* A page that is not final follows a content hash only if it is the first such page,
\* and then that of the sequence before it.
LinksTrue(t, J, low) ==
  \A i \in Index(J) :
    LET prev == t.page[PageOf(J, i)].prev IN
    i >= low /\ prev.base = 0 /\ prev # Root =>
      i = low /\ prev.toks = SubSeq(J.ids, 1, i * PageSize)

\* The pages hold the row.
ContentTrue(t, c, J, row) ==
  /\ Text(row)
  /\ Len(row) <= Len(J.pages) * PageSize
  /\ \A i \in Index(J), s \in Slot :
       i * PageSize + s < Len(row) =>
         /\ c[PageOf(J, i)][s] = SubSeq(row, 1, i * PageSize + s + 1)
         /\ t.page[PageOf(J, i)].toks[s] = row[i * PageSize + s + 1]

\* kv_position of page i while the pages are filled up to position m
FilledTo(t, J, m) == \A i \in Index(J) : t.page[PageOf(J, i)].kv = FillMark(m, i)

\* The pages are marked with what they hold: complete before the position of a job
\* with prompt left, empty after its prompt; as far as the row otherwise.  A rewind
\* and a rejection move the marks back, from the first page on and from the last.
MarksTrue(t, J, ph, n, row) ==
  IF ~ PrefillDone(J)
  THEN \A i \in Index(J) :
         /\ i < PageAt(J.pos) => Complete(t, PageOf(J, i))
         /\ i >= ContextPages(J.plen) => t.page[PageOf(J, i)].kv = 0
  ELSE IF ph = "rewind"
  THEN \E m \in Nat :
         /\ J.pos <= m
         /\ \A i \in Index(J) :
              t.page[PageOf(J, i)].kv = FillMark(IF i < n THEN J.pos ELSE m, i)
  ELSE IF ph = "reject"
  THEN J.pos + n <= Len(J.pages) * PageSize /\ FilledTo(t, J, J.pos + n)
  ELSE FilledTo(t, J, Len(row))

-----------------------------------------------------------------------------
(* A job's own counters.                                                   *)

\* Another token and a draft fit the budget.
Fits(J) == NewTokens(J) < J.limit /\ NewTokens(J) + RqMargin <= Budget(J.plen, J.limit)

\* A rewind by so many tokens leaves the sequence with its prompt and rewinds no page
\* that is not deferred.
Reaches(J, back) ==
  back <= NewTokens(J) /\ PageAt(J.pos) - Len(J.deferred) <= PageAt(J.pos - back)

\* The deferred pages are the ones right before the position.
Deferrals(J) ==
  /\ Len(J.deferred) <= PageAt(J.pos)
  /\ \A m \in DOMAIN J.deferred :
       J.deferred[m] = PageAt(J.pos) - Len(J.deferred) + m - 1

\* A job that is new to the page table: nothing computed, nothing held.
Untouched(J) ==
  /\ J.plen = Len(J.ids)
  /\ J.pos % PageSize = 0
  /\ J.pos < Len(J.ids)
  /\ J.offset = None
  /\ J.deferred = <<>>
  /\ J.fate = "go"

JobOK(J, ph) ==
  /\ Opens(Bos, J.ids)
  /\ J.plen \in 1 .. Len(J.ids)
  /\ IF ph = "alloc"
     THEN J.pos = 0 /\ Len(J.pages) <= TotalPages(J.plen, J.limit)
     ELSE Len(J.pages) = TotalPages(J.plen, J.limit)
  /\ ~ PrefillDone(J) \/ ph = "alloc" => Untouched(J)
  /\ J.fate \in {"go", "rewound"} /\ ph \notin {"complete", "judge"} => Fits(J)
  /\ ~ Holding(J) => J.deferred = <<>>
  /\ ph # "rewind" => Deferrals(J)
  /\ Holding(J) /\ ph \notin {"rewind", "flush"} =>
       Reaches(J, IF ph = "judge" THEN J.offset + 1 ELSE J.offset)

\* The job in hand is one that generates, with part of its draft still to verify.
HandOK(J, ph, n) ==
  /\ ph # "none" => J.stage = "active" /\ J.fate # "cancelled"
  /\ ph \in {"alloc", "sample", "complete", "judge"} => J.fate = "go"
  /\ ph \in Sampling =>
    /\ PrefillDone(J)
    /\ ph = "rewind" => J.fate = "rewound"
    /\ ph = "flush" => J.fate # "rewound"
    /\ ph # "rewind" /\ ph # "reject" /\ J.fate # "rewound" => n <= Len(J.draft)
    /\ ph = "reject" /\ J.fate \in {"eos", "rewound"} => n = 0
    /\ ph = "complete" => ~ Holding(J) /\ J.pos % PageSize = 0 /\ J.pos > 0
    /\ ph \in {"complete", "judge"} => NewTokens(J) >= 1
    /\ ph = "rewind" => PageAt(J.pos) <= n /\ J.offset \in Nat \ {0}

\* A job that waits, or is about to wait again.
WaitOK(J) ==
  /\ J.stage = "pending" =>
       /\ Opens(Bos, J.ids)
       /\ Untouched(J)
       /\ J.pos = 0 /\ J.pages = <<>>
       /\ J.limit >= 1
  /\ J.stage = "active" /\ J.fate = "requeue" =>
       /\ Opens(Bos, J.ids)
       /\ J.plen \in 1 .. Len(J.ids)
       /\ NewTokens(J) < J.limit

\* What the table and the cache owe a job.
Served(t, c, J, ph, n, drafted) ==
  LET low == LowAs(J, ph)
      row == RowAs(J, ph, n, drafted)
  IN /\ NamesTrue(t, J, low)
     /\ LinksTrue(t, J, low)
     /\ ContentTrue(t, c, J, row)
     /\ MarksTrue(t, J, ph, n, row)

\* What is known of a job, and what it is owed, in one phase.
Fine(J, ph, n) ==
  /\ WaitOK(J)
  /\ HandOK(J, ph, n)
  /\ LiveAs(J, ph) => JobOK(J, ph)

Owed(t, c, J, ph, n, drafted) == LiveAs(J, ph) => Served(t, c, J, ph, n, drafted)

-----------------------------------------------------------------------------
(* The inductive invariant.                                                *)

\* Pages in block tables whose hashes go back to one placeholder belong to one job,
\* in the order of their hashes.
BasesApart(t, f) ==
  \A j, l \in Job : \A i \in DOMAIN f[j], m \in DOMAIN f[l] :
    LET g == t.page[f[j][i]].phash
        h == t.page[f[l][m]].phash
    IN g.base = h.base /\ g.base # 0 => j = l /\ (i < m => Len(g.toks) < Len(h.toks))

Typed ==
  /\ table.page \in [Page -> CachePage]
  /\ serial \in Nat
  /\ cache \in [Page -> [Slot -> Seq(Token)]]
  /\ job \in [Job -> JobState]
  /\ todo \subseteq Job
  /\ k \in Nat

\* The jobs a stage has still to serve are in the state it expects them in.
Turns ==
  /\ pc = "prefill" => \A j \in todo : job[j].stage = "active" /\ job[j].fate = "go"
                                        /\ ~ PrefillDone(job[j])
  /\ pc \in {"forward"} \cup Sampling =>
       \A j \in todo : job[j].stage = "active" /\ job[j].fate = "go" /\ PrefillDone(job[j])
  /\ pc \in Sampling => cur \notin todo
  /\ pc = "forward" => k <= MaxDraft
  /\ pc \in {"idle", "start", "alloc", "forward"} => \A j \in Active : job[j].fate = "go"
  /\ \A j \in Active : job[j].fate = "rewound" => Phase(j) \in {"rewind", "verify", "reject"}

JobFine(j) == Fine(job[j], Phase(j), Turn(j))
JobServed(j) == Owed(table, cache, job[j], Phase(j), Turn(j), Drafted(j))

CacheInv ==
  /\ BooksInv
  /\ Typed
  /\ Turns
  /\ \A j \in Job : JobFine(j)
  /\ PagesTrue(table, cache)
  /\ BasesApart(table, BlockTables)
  /\ \A j \in Job : JobServed(j)

-----------------------------------------------------------------------------
(* Arithmetic of positions and pages.                                      *)

LEMMA Multiples ==
  ASSUME NEW i \in Nat
  PROVE  /\ i * PageSize \in Nat
         /\ (i + 1) * PageSize = i * PageSize + PageSize
         /\ i >= 1 => (i - 1) * PageSize = i * PageSize - PageSize
BY PageSizeAssumption

LEMMA Monotone ==
  ASSUME NEW i \in Nat, NEW m \in Nat, i < m
  PROVE  i * PageSize + PageSize <= m * PageSize
BY PageSizeAssumption

LEMMA Located ==
  ASSUME NEW q \in Nat
  PROVE  /\ PageAt(q) \in Nat
         /\ q % PageSize \in Slot
         /\ q = (PageAt(q) * PageSize) + (q % PageSize)
         /\ PageAt(q) * PageSize \in Nat
         /\ PageAt(q) * PageSize <= q
         /\ q < PageAt(q) * PageSize + PageSize
<1>1. /\ PageAt(q) \in Nat /\ q % PageSize \in 0 .. PageSize - 1
      /\ q = (PageAt(q) * PageSize) + (q % PageSize)
  BY PageSizeAssumption DEF PageAt
<1>2. PageAt(q) * PageSize \in Nat
  BY <1>1, Multiples
<1>. DEFINE r == q % PageSize
            d == PageAt(q) * PageSize
<1>3. r \in 0 .. PageSize - 1 /\ q = d + r /\ d \in Nat
  BY <1>1, <1>2
<1>. HIDE DEF r, d
<1>4. d <= q /\ q < d + PageSize
  BY <1>3, PageSizeAssumption
<1>. QED BY <1>1, <1>2, <1>4 DEF d, Slot

LEMMA Locating ==
  ASSUME NEW i \in Nat, NEW s \in Slot
  PROVE  /\ i * PageSize + s \in Nat
         /\ PageAt(i * PageSize + s) = i
         /\ (i * PageSize + s) % PageSize = s
BY PageSizeAssumption DEF PageAt, Slot

\* Page i starts at or before position q exactly if q is on page i or later.
LEMMA PageBounds ==
  ASSUME NEW q \in Nat, NEW i \in Nat
  PROVE  /\ i <= PageAt(q) <=> i * PageSize <= q
         /\ PageAt(q) < i <=> q < i * PageSize
<1>. /\ PageAt(q) \in Nat /\ PageSize \in Nat \ {0}
     /\ PageAt(q) * PageSize \in Nat /\ i * PageSize \in Nat
     /\ PageAt(q) * PageSize <= q /\ q < PageAt(q) * PageSize + PageSize
  BY Located, Multiples, PageSizeAssumption
<1>1. PageAt(q) < i => q < i * PageSize
  BY Monotone
<1>2. i < PageAt(q) => i * PageSize <= q
  BY Monotone
<1>3. i = PageAt(q) => i * PageSize <= q
  OBVIOUS
<1>. QED BY <1>1, <1>2, <1>3

LEMMA PageBoundary ==
  ASSUME NEW q \in Nat
  PROVE  /\ q % PageSize = 0 <=> q = PageAt(q) * PageSize
         /\ \A i \in Nat : q = i * PageSize => PageAt(q) = i
<1>1. /\ q % PageSize \in Nat /\ PageAt(q) * PageSize \in Nat
      /\ q = (PageAt(q) * PageSize) + (q % PageSize)
  BY Located DEF Slot
<1>2. ASSUME NEW i \in Nat, q = i * PageSize PROVE PageAt(q) = i
  <2>1. 0 \in Slot
    BY PageSizeAssumption DEF Slot
  <2>2. i * PageSize + 0 = q
    BY <1>2, Multiples
  <2>. QED BY <2>1, <2>2, Locating
<1>. QED BY <1>1, <1>2

\* The next position is on the same page, or it begins the next one.
LEMMA NextPosition ==
  ASSUME NEW q \in Nat
  PROVE  /\ (q + 1) % PageSize = 0 => PageAt(q + 1) = PageAt(q) + 1
         /\ (q + 1) % PageSize # 0 => PageAt(q + 1) = PageAt(q)
         /\ PageAt(q) <= PageAt(q + 1)
<1>. /\ PageAt(q) \in Nat /\ PageSize \in Nat \ {0}
     /\ PageAt(q) * PageSize \in Nat
     /\ PageAt(q) * PageSize <= q /\ q < PageAt(q) * PageSize + PageSize
  BY Located, PageSizeAssumption
<1>. PageAt(q + 1) \in Nat
  BY PageSizeAssumption DEF PageAt
<1>. (PageAt(q) + 1) * PageSize = PageAt(q) * PageSize + PageSize
  BY Multiples
<1>1. CASE q + 1 = PageAt(q) * PageSize + PageSize
  <2>1. PageAt(q + 1) = PageAt(q) + 1
    BY <1>1, PageBoundary
  <2>2. (q + 1) % PageSize = 0
    BY <1>1, <2>1, PageBoundary
  <2>. QED BY <2>1, <2>2
<1>2. CASE q + 1 < PageAt(q) * PageSize + PageSize
  <2>1. PageAt(q) <= PageAt(q + 1)
    BY PageBounds
  <2>2. PageAt(q + 1) < PageAt(q) + 1
    BY <1>2, PageBounds
  <2>3. PageAt(q + 1) = PageAt(q)
    BY <2>1, <2>2
  <2>4. q + 1 # PageAt(q + 1) * PageSize
    BY <2>3
  <2>. QED BY <2>3, <2>4, PageBoundary
<1>. QED BY <1>1, <1>2

LEMMA PageAtMonotone ==
  ASSUME NEW q \in Nat, NEW r \in Nat, q <= r
  PROVE  PageAt(q) <= PageAt(r)
<1>. PageAt(q) \in Nat /\ PageAt(q) * PageSize <= q /\ PageAt(q) * PageSize \in Nat
  BY Located
<1>. QED BY PageBounds

LEMMA Ceiling ==
  ASSUME NEW a \in Nat
  PROVE  /\ CeilDiv(a, PageSize) \in Nat
         /\ a <= CeilDiv(a, PageSize) * PageSize
         /\ \A i \in Nat : i < CeilDiv(a, PageSize) <=> i * PageSize < a
<1>. DEFINE b == a + PageSize - 1
<1>1. b \in Nat /\ CeilDiv(a, PageSize) = PageAt(b)
  BY PageSizeAssumption DEF CeilDiv, PageAt
<1>. HIDE DEF b
<1>. PageSize \in Nat \ {0} /\ PageAt(b) \in Nat
  BY <1>1, Located, PageSizeAssumption
<1>2. a <= PageAt(b) * PageSize
  <2>1. /\ b < PageAt(b) * PageSize + PageSize /\ PageAt(b) * PageSize \in Nat
    BY <1>1, Located
  <2>. QED BY <2>1 DEF b
<1>3. ASSUME NEW i \in Nat PROVE i < PageAt(b) <=> i * PageSize < a
  <2>1. i + 1 <= PageAt(b) <=> (i + 1) * PageSize <= b
    BY <1>1, PageBounds
  <2>2. (i + 1) * PageSize = i * PageSize + PageSize /\ i * PageSize \in Nat
    BY Multiples
  <2>. QED BY <2>1, <2>2 DEF b
<1>. QED BY <1>1, <1>2, <1>3

LEMMA FillMarks ==
  ASSUME NEW m \in Nat, NEW i \in Nat
  PROVE  /\ FillMark(m, i) \in 0 .. PageSize
         /\ \A s \in Slot : s < FillMark(m, i) <=> i * PageSize + s < m
         /\ FillMark(m, i) = PageSize <=> (i + 1) * PageSize <= m
         /\ FillMark(m, i) = 0 <=> m <= i * PageSize
         /\ FillMark(m, i) = IF (i + 1) * PageSize <= m THEN PageSize
                             ELSE IF m <= i * PageSize THEN 0 ELSE m - i * PageSize
BY Multiples, PageSizeAssumption DEF FillMark, Smaller, Minus, Slot

-----------------------------------------------------------------------------
(* Prefixes of sequences.                                                  *)

LEMMA SameSequence ==
  ASSUME NEW S, NEW x \in Seq(S), NEW y \in Seq(S), Len(x) = Len(y),
         \A i \in 1 .. Len(x) : x[i] = y[i]
  PROVE  x = y
OBVIOUS

LEMMA Prefix ==
  ASSUME NEW S, NEW x \in Seq(S), NEW n \in 0 .. Len(x)
  PROVE  /\ SubSeq(x, 1, n) \in Seq(S)
         /\ Len(SubSeq(x, 1, n)) = n
         /\ \A i \in 1 .. n : SubSeq(x, 1, n)[i] = x[i]
OBVIOUS

LEMMA WholePrefix ==
  ASSUME NEW S, NEW x \in Seq(S)
  PROVE  SubSeq(x, 1, Len(x)) = x
BY Prefix, SameSequence

LEMMA EmptyPrefix ==
  ASSUME NEW S, NEW x \in Seq(S)
  PROVE  SubSeq(x, 1, 0) = <<>>
OBVIOUS

LEMMA PrefixOfPrefix ==
  ASSUME NEW S, NEW x \in Seq(S), NEW n \in 0 .. Len(x), NEW m \in 0 .. n
  PROVE  SubSeq(SubSeq(x, 1, n), 1, m) = SubSeq(x, 1, m)
<1>1. SubSeq(x, 1, n) \in Seq(S) /\ Len(SubSeq(x, 1, n)) = n
  BY Prefix
<1>2. /\ SubSeq(SubSeq(x, 1, n), 1, m) \in Seq(S)
      /\ Len(SubSeq(SubSeq(x, 1, n), 1, m)) = m
      /\ \A i \in 1 .. m : SubSeq(SubSeq(x, 1, n), 1, m)[i] = x[i]
  <2>. DEFINE y == SubSeq(x, 1, n)
  <2>1. \A i \in 1 .. n : y[i] = x[i]
    BY Prefix
  <2>. HIDE DEF y
  <2>2. m \in 0 .. Len(y) /\ y \in Seq(S)
    BY <1>1 DEF y
  <2>3. /\ SubSeq(y, 1, m) \in Seq(S) /\ Len(SubSeq(y, 1, m)) = m
        /\ \A i \in 1 .. m : SubSeq(y, 1, m)[i] = y[i]
    BY <2>2, Prefix
  <2>. QED BY <2>1, <2>3 DEF y
<1>3. /\ SubSeq(x, 1, m) \in Seq(S) /\ Len(SubSeq(x, 1, m)) = m
      /\ \A i \in 1 .. m : SubSeq(x, 1, m)[i] = x[i]
  BY Prefix
<1>. QED BY <1>2, <1>3, SameSequence

LEMMA PrefixOfJoined ==
  ASSUME NEW S, NEW x \in Seq(S), NEW y \in Seq(S), NEW n \in 0 .. Len(x)
  PROVE  SubSeq(x \o y, 1, n) = SubSeq(x, 1, n)
<1>1. x \o y \in Seq(S) /\ Len(x \o y) = Len(x) + Len(y)
      /\ \A i \in 1 .. Len(x) : (x \o y)[i] = x[i]
  OBVIOUS
<1>. DEFINE z == x \o y
<1>2. z \in Seq(S) /\ n \in 0 .. Len(z) /\ \A i \in 1 .. Len(x) : z[i] = x[i]
  BY <1>1
<1>. HIDE DEF z
<1>3. /\ SubSeq(z, 1, n) \in Seq(S) /\ Len(SubSeq(z, 1, n)) = n
      /\ \A i \in 1 .. n : SubSeq(z, 1, n)[i] = z[i]
  BY <1>2, Prefix
<1>4. /\ SubSeq(x, 1, n) \in Seq(S) /\ Len(SubSeq(x, 1, n)) = n
      /\ \A i \in 1 .. n : SubSeq(x, 1, n)[i] = x[i]
  BY Prefix
<1>5. SubSeq(z, 1, n) = SubSeq(x, 1, n)
  BY <1>2, <1>3, <1>4, SameSequence
<1>. QED BY <1>5 DEF z

\* A prefix of equal prefixes is equal too, and so are the elements.
LEMMA ShorterPrefix ==
  ASSUME NEW S, NEW x \in Seq(S), NEW y \in Seq(S),
         NEW n \in 0 .. Len(x), n <= Len(y), SubSeq(x, 1, n) = SubSeq(y, 1, n)
  PROVE  /\ \A m \in 0 .. n : SubSeq(x, 1, m) = SubSeq(y, 1, m)
         /\ \A i \in 1 .. n : x[i] = y[i]
<1>1. n \in 0 .. Len(y)
  OBVIOUS
<1>2. \A i \in 1 .. n : SubSeq(x, 1, n)[i] = x[i] /\ SubSeq(y, 1, n)[i] = y[i]
  BY <1>1, Prefix
<1>3. ASSUME NEW m \in 0 .. n PROVE SubSeq(x, 1, m) = SubSeq(y, 1, m)
  <2>1. /\ SubSeq(SubSeq(x, 1, n), 1, m) = SubSeq(x, 1, m)
        /\ SubSeq(SubSeq(y, 1, n), 1, m) = SubSeq(y, 1, m)
    BY <1>1, PrefixOfPrefix
  <2>. QED BY <2>1
<1>. QED BY <1>2, <1>3

\* Equal elements make equal prefixes.
LEMMA SamePrefix ==
  ASSUME NEW S, NEW x \in Seq(S), NEW y \in Seq(S),
         NEW n \in 0 .. Len(x), n <= Len(y), \A i \in 1 .. n : x[i] = y[i]
  PROVE  SubSeq(x, 1, n) = SubSeq(y, 1, n)
<1>1. n \in 0 .. Len(y)
  OBVIOUS
<1>2. /\ SubSeq(x, 1, n) \in Seq(S) /\ Len(SubSeq(x, 1, n)) = n
      /\ \A i \in 1 .. n : SubSeq(x, 1, n)[i] = x[i]
  BY Prefix
<1>3. /\ SubSeq(y, 1, n) \in Seq(S) /\ Len(SubSeq(y, 1, n)) = n
      /\ \A i \in 1 .. n : SubSeq(y, 1, n)[i] = y[i]
  BY <1>1, Prefix
<1>. QED BY <1>2, <1>3, SameSequence

\* A prefix and the slice after it make the longer prefix.
LEMMA PrefixAndSlice ==
  ASSUME NEW S, NEW x \in Seq(S), NEW n \in 0 .. Len(x), NEW m \in n .. Len(x)
  PROVE  SubSeq(x, 1, n) \o SubSeq(x, n + 1, m) = SubSeq(x, 1, m)
<1>. DEFINE a == SubSeq(x, 1, n)
            b == SubSeq(x, n + 1, m)
            c == SubSeq(x, 1, m)
<1>1. a \in Seq(S) /\ Len(a) = n /\ \A i \in 1 .. n : a[i] = x[i]
  BY Prefix
<1>2. b \in Seq(S) /\ Len(b) = m - n /\ \A i \in 1 .. m - n : b[i] = x[n + i]
  <2>1. b \in Seq(S)
    OBVIOUS
  <2>2. Len(b) = m - n
    OBVIOUS
  <2>3. \A i \in 1 .. m - n : b[i] = x[n + i]
    OBVIOUS
  <2>. QED BY <2>1, <2>2, <2>3
<1>3. m \in 0 .. Len(x)
  OBVIOUS
<1>4. c \in Seq(S) /\ Len(c) = m /\ \A i \in 1 .. m : c[i] = x[i]
  BY <1>3, Prefix
<1>. HIDE DEF a, b, c
<1>5. /\ a \o b \in Seq(S) /\ Len(a \o b) = m
      /\ \A i \in 1 .. m : (a \o b)[i] = x[i]
  <2>1. a \o b \in Seq(S) /\ Len(a \o b) = m
    BY <1>1, <1>2
  <2>2. ASSUME NEW i \in 1 .. m PROVE (a \o b)[i] = x[i]
    <3>1. CASE i <= n
      <4>1. i \in 1 .. Len(a)
        BY <1>1, <3>1
      <4>. QED BY <1>1, <1>2, <4>1
    <3>2. CASE i > n
      <4>1. i - Len(a) \in 1 .. m - n /\ n + (i - Len(a)) = i
        BY <1>1, <3>2
      <4>2. i \in 1 .. Len(a) + Len(b) /\ i > Len(a)
        BY <1>1, <1>2, <3>2
      <4>3. (a \o b)[i] = b[i - Len(a)]
        BY ONLY <1>1, <1>2, <4>2
      <4>. QED BY <1>2, <4>1, <4>3
    <3>3. i <= n \/ i > n
      OBVIOUS
    <3>. QED BY <3>1, <3>2, <3>3, Zenon
  <2>. QED BY <2>1, <2>2
<1>6. a \o b = c
  BY <1>4, <1>5, SameSequence
<1>. QED BY <1>6 DEF a, b, c

-----------------------------------------------------------------------------
(* True pages.                                                             *)

LEMMA TextPrefix ==
  ASSUME NEW x, Text(x), NEW n \in 0 .. Len(x)
  PROVE  Text(SubSeq(x, 1, n))
<1>1. /\ SubSeq(x, 1, n) \in Seq(Token) /\ Len(SubSeq(x, 1, n)) = n
      /\ \A i \in 1 .. n : SubSeq(x, 1, n)[i] = x[i]
  BY Prefix DEF Text
<1>. QED BY <1>1 DEF Text

\* What a page needs to hold to be true: a stretch of a text that begins at a page
\* boundary.
LEMMA TruthBuilt ==
  ASSUME NEW row, Text(row), NEW i \in Nat, NEW kv \in 0 .. PageSize,
         kv > 0 => i * PageSize + kv <= Len(row),
         NEW h, NEW prev, NEW toks, NEW cells,
         \A s \in Slot : s < kv =>
           /\ cells[s] = SubSeq(row, 1, i * PageSize + s + 1)
           /\ toks[s] = row[i * PageSize + s + 1],
         prev.base = 0 /\ prev # Root /\ kv > 0 => prev.toks = SubSeq(row, 1, i * PageSize),
         kv = PageSize /\ h.base = 0 => h.toks = SubSeq(row, 1, (i + 1) * PageSize)
  PROVE  Truth(h, prev, kv, toks, cells)
<1>. SUFFICES ASSUME kv > 0 PROVE Truth(h, prev, kv, toks, cells)
  BY DEF Truth
<1>. DEFINE m == i * PageSize
            x == SubSeq(row, 1, m + kv)
<1>1. m \in Nat /\ (i + 1) * PageSize = m + PageSize /\ m % PageSize = 0
  <2>1. m \in Nat /\ (i + 1) * PageSize = m + PageSize
    BY Multiples
  <2>2. m % PageSize = 0
    BY <2>1, PageBoundary
  <2>. QED BY <2>1, <2>2
<1>2. row \in Seq(Token) /\ kv \in Nat /\ kv <= PageSize /\ m + kv <= Len(row)
  BY PageSizeAssumption DEF Text
<1>a. \A s \in Slot : s < kv =>
        cells[s] = SubSeq(row, 1, m + s + 1) /\ toks[s] = row[m + s + 1]
  OBVIOUS
<1>b. prev.base = 0 /\ prev # Root => prev.toks = SubSeq(row, 1, m)
  OBVIOUS
<1>c. kv = PageSize /\ h.base = 0 => h.toks = SubSeq(row, 1, m + kv)
  BY <1>1
<1>. HIDE DEF m
<1>3. Text(x) /\ x \in Seq(Token) /\ Len(x) = m + kv /\ \A n \in 1 .. m + kv : x[n] = row[n]
  <2>1. m + kv \in 0 .. Len(row)
    BY <1>1, <1>2
  <2>. QED BY <1>2, <2>1, TextPrefix, Prefix
<1>4. \A n \in 0 .. m + kv : SubSeq(x, 1, n) = SubSeq(row, 1, n)
  <2>1. m + kv \in 0 .. Len(row)
    BY <1>1, <1>2
  <2>. QED BY <1>2, <2>1, PrefixOfPrefix
<1>. HIDE DEF x
<1>5. \A s \in 0 .. kv - 1 : /\ cells[s] = SubSeq(row, 1, m + s + 1)
                             /\ toks[s] = row[m + s + 1]
  <2>1. \A s \in 0 .. kv - 1 : s \in Slot /\ s < kv
    BY <1>2, PageSizeAssumption DEF Slot
  <2>. QED BY <1>a, <2>1
<1>6. cells[kv - 1] = x
  <2>1. cells[kv - 1] = SubSeq(row, 1, m + (kv - 1) + 1)
    BY <1>2, <1>5
  <2>2. m + (kv - 1) + 1 = m + kv
    BY <1>1, <1>2
  <2>. QED BY <2>1, <2>2 DEF x
<1>7. Len(x) - kv = m
  BY <1>1, <1>2, <1>3
<1>8. \A s \in 0 .. kv - 1 : cells[s] = SubSeq(x, 1, m + s + 1) /\ toks[s] = x[m + s + 1]
  <2>1. \A s \in 0 .. kv - 1 : m + s + 1 \in 1 .. m + kv /\ m + s + 1 \in 0 .. m + kv
    BY <1>1, <1>2
  <2>2. \A n \in 1 .. m + kv : x[n] = row[n]
    BY <1>3
  <2>. QED BY ONLY <1>4, <1>5, <2>1, <2>2
<1>9. prev.base = 0 /\ prev # Root => prev.toks = SubSeq(x, 1, m)
  <2>1. m \in 0 .. m + kv
    BY <1>1, <1>2
  <2>. QED BY <1>4, <1>b, <2>1
<1>10. kv = PageSize /\ h.base = 0 => h.toks = x
  BY <1>c DEF x
<1>11. /\ Text(cells[kv - 1])
       /\ Len(cells[kv - 1]) - kv \in Nat
       /\ (Len(cells[kv - 1]) - kv) % PageSize = 0
  BY <1>1, <1>3, <1>6, <1>7
<1>12. \A s \in 0 .. kv - 1 :
          /\ cells[s] = SubSeq(cells[kv - 1], 1, (Len(cells[kv - 1]) - kv) + s + 1)
          /\ toks[s] = cells[kv - 1][(Len(cells[kv - 1]) - kv) + s + 1]
  BY ONLY <1>6, <1>7, <1>8
<1>13. prev.base = 0 /\ prev # Root =>
          prev.toks = SubSeq(cells[kv - 1], 1, Len(cells[kv - 1]) - kv)
  BY <1>6, <1>7, <1>9
<1>. QED BY <1>6, <1>10, <1>11, <1>12, <1>13, Zenon DEF Truth

\* What a true page holds: the end of the text x, from position m on.
HeldOf(x, m, h, prev, kv, toks, cells) ==
  /\ Text(x) /\ x \in Seq(Token) /\ m \in Nat /\ m % PageSize = 0
  /\ Len(x) = m + kv
  /\ \A s \in 0 .. kv - 1 :
       cells[s] = SubSeq(x, 1, m + s + 1) /\ toks[s] = x[m + s + 1]
  /\ prev.base = 0 /\ prev # Root => prev.toks = SubSeq(x, 1, m)
  /\ kv = PageSize /\ h.base = 0 => h.toks = x

LEMMA TruthHeld ==
  ASSUME NEW h, NEW prev, NEW kv \in 1 .. PageSize, NEW toks, NEW cells,
         Truth(h, prev, kv, toks, cells)
  PROVE  \E x, m : HeldOf(x, m, h, prev, kv, toks, cells)
<1>. DEFINE x == cells[kv - 1]
            m == Len(x) - kv
<1>0. kv \in Nat /\ kv > 0
  BY PageSizeAssumption
<1>1. /\ Text(x) /\ m \in Nat /\ m % PageSize = 0
      /\ \A s \in 0 .. kv - 1 :
            cells[s] = SubSeq(x, 1, m + s + 1) /\ toks[s] = x[m + s + 1]
      /\ prev.base = 0 /\ prev # Root => prev.toks = SubSeq(x, 1, m)
      /\ kv = PageSize /\ h.base = 0 => h.toks = x
  BY <1>0 DEF Truth
<1>2. x \in Seq(Token)
  BY <1>1 DEF Text
<1>3. Len(x) \in Nat
  BY <1>2
<1>4. Len(x) = m + kv
  BY <1>0, <1>3
<1>. HIDE DEF x, m
<1>5. HeldOf(x, m, h, prev, kv, toks, cells)
  BY <1>1, <1>2, <1>4 DEF HeldOf
<1>. QED BY <1>5

\* An empty page is true, whatever it is filed under.
LEMMA TruthOfNothing ==
  ASSUME NEW h, NEW prev, NEW toks, NEW cells
  PROVE  Truth(h, prev, 0, toks, cells)
BY DEF Truth

\* A page that is cut back stays true, under any hash.
LEMMA TruthCut ==
  ASSUME NEW h, NEW prev, NEW kv \in 0 .. PageSize, NEW toks, NEW cells,
         Truth(h, prev, kv, toks, cells), NEW g, NEW n \in 0 .. kv, n < PageSize
  PROVE  Truth(g, prev, n, toks, cells)
<1>1. CASE n = 0
  BY <1>1, TruthOfNothing
<1>2. CASE n > 0
  <2>0. kv \in 1 .. PageSize
    BY <1>2
  <2>1. PICK x, m : HeldOf(x, m, h, prev, kv, toks, cells)
    BY <2>0, TruthHeld
  <2>. DEFINE i == PageAt(m)
  <2>a. Text(x) /\ m \in Nat /\ Len(x) = m + kv
    BY <2>1 DEF HeldOf
  <2>2. i \in Nat /\ i * PageSize = m
    BY <2>1, Located, PageBoundary DEF HeldOf
  <2>. HIDE DEF i
  <2>3. i * PageSize + n <= Len(x)
    BY <2>0, <2>a, <2>2
  <2>4. \A s \in Slot : s < n =>
           /\ cells[s] = SubSeq(x, 1, i * PageSize + s + 1)
           /\ toks[s] = x[i * PageSize + s + 1]
    <3>1. \A s \in Slot : s < n => s \in 0 .. kv - 1
      BY <2>0 DEF Slot
    <3>2. \A s \in 0 .. kv - 1 : /\ cells[s] = SubSeq(x, 1, m + s + 1)
                                /\ toks[s] = x[m + s + 1]
      BY <2>1 DEF HeldOf
    <3>. QED BY <2>2, <3>1, <3>2
  <2>5. prev.base = 0 /\ prev # Root => prev.toks = SubSeq(x, 1, i * PageSize)
    BY <2>1, <2>2 DEF HeldOf
  <2>6. n \in 0 .. PageSize /\ n # PageSize
    BY <2>0, PageSizeAssumption
  <2>. QED BY <2>a, <2>2, <2>3, <2>4, <2>5, <2>6, TruthBuilt
<1>. QED BY <1>1, <1>2

\* Under a placeholder, and after no content hash, a page stays true.
LEMMA TruthRenamed ==
  ASSUME NEW h, NEW prev, NEW kv, NEW toks, NEW cells, Truth(h, prev, kv, toks, cells),
         NEW g, NEW back, g.base = 0 => g = h, back.base = 0 => back \in {prev, Root}
  PROVE  Truth(g, back, kv, toks, cells)
BY DEF Truth

\* A complete page filed under the hash of a beginning of a sequence holds its end.
LEMMA NamedPage ==
  ASSUME NEW h, NEW prev, NEW toks, NEW cells, Truth(h, prev, PageSize, toks, cells),
         NEW ids \in Seq(Token), NEW i \in Nat, (i + 1) * PageSize <= Len(ids),
         h.base = 0, h.toks = SubSeq(ids, 1, (i + 1) * PageSize)
  PROVE  \A s \in Slot : /\ cells[s] = SubSeq(ids, 1, i * PageSize + s + 1)
                         /\ toks[s] = ids[i * PageSize + s + 1]
<1>. DEFINE d == i * PageSize
            x == SubSeq(ids, 1, d + PageSize)
<1>1. d \in Nat /\ (i + 1) * PageSize = d + PageSize /\ PageSize \in Nat \ {0}
  BY Multiples, PageSizeAssumption
<1>. HIDE DEF d
<1>2. PICK y, m : HeldOf(y, m, h, prev, PageSize, toks, cells)
  <2>1. PageSize \in 1 .. PageSize
    BY PageSizeAssumption
  <2>. QED BY <2>1, TruthHeld
<1>a. /\ y \in Seq(Token) /\ m \in Nat /\ Len(y) = m + PageSize
      /\ \A s \in 0 .. PageSize - 1 :
            cells[s] = SubSeq(y, 1, m + s + 1) /\ toks[s] = y[m + s + 1]
      /\ h.toks = y
  BY <1>2 DEF HeldOf
<1>3. d + PageSize \in 0 .. Len(ids)
  BY <1>1
<1>4. /\ x \in Seq(Token) /\ Len(x) = d + PageSize
      /\ \A n \in 1 .. d + PageSize : x[n] = ids[n]
      /\ \A n \in 0 .. d + PageSize : SubSeq(x, 1, n) = SubSeq(ids, 1, n)
  BY <1>3, Prefix, PrefixOfPrefix
<1>5. y = x
  BY <1>1, <1>a
<1>. HIDE DEF x
<1>6. m = d
  BY <1>1, <1>a, <1>4, <1>5
<1>7. \A s \in 0 .. PageSize - 1 : /\ cells[s] = SubSeq(x, 1, d + s + 1)
                                   /\ toks[s] = x[d + s + 1]
                                   /\ d + s + 1 \in 1 .. d + PageSize
  BY <1>1, <1>a, <1>5, <1>6
<1>8. \A s \in 0 .. PageSize - 1 : /\ cells[s] = SubSeq(ids, 1, d + s + 1)
                                   /\ toks[s] = ids[d + s + 1]
  BY SMTT(30), <1>1, <1>4, <1>7
<1>. QED BY <1>8 DEF Slot, d

-----------------------------------------------------------------------------
(* Jobs and their pages.                                                   *)

LEMMA BosType ==
  ASSUME PromptsOpen
  PROVE  Bos \in Token \ Sampled /\ \A x \in Prompts : Opens(Bos, x)
BY DEF PromptsOpen, Bos

LEMMA OpensText ==
  ASSUME NEW x \in Seq(Token), Opens(Bos, x)
  PROVE  Text(x)
BY DEF Opens, Text

\* The beginning of what opens, and its continuation by samples, open.
LEMMA OpensCut ==
  ASSUME NEW x \in Seq(Token), Opens(Bos, x), NEW n \in 1 .. Len(x)
  PROVE  Opens(Bos, SubSeq(x, 1, n))
<1>1. /\ SubSeq(x, 1, n) \in Seq(Token) /\ Len(SubSeq(x, 1, n)) = n
      /\ \A i \in 1 .. n : SubSeq(x, 1, n)[i] = x[i]
  BY Prefix
<1>. QED BY <1>1 DEF Opens

LEMMA OpensOn ==
  ASSUME PromptsOpen, NEW x \in Seq(Token), Opens(Bos, x), NEW t \in Sampled
  PROVE  Append(x, t) \in Seq(Token) /\ Opens(Bos, Append(x, t))
<1>1. t \in Token /\ t # Bos
  BY BosType, JobsAssumption
<1>. QED BY <1>1 DEF Opens

LEMMA OpensJoined ==
  ASSUME PromptsOpen, NEW x \in Seq(Token), Opens(Bos, x), NEW y \in Seq(Sampled)
  PROVE  x \o y \in Seq(Token) /\ Len(x \o y) = Len(x) + Len(y) /\ Opens(Bos, x \o y)
<1>1. \A i \in 1 .. Len(y) : y[i] \in Token /\ y[i] # Bos
  BY BosType, JobsAssumption
<1>2. y \in Seq(Token)
  BY JobsAssumption
<1>3. /\ x \o y \in Seq(Token) /\ Len(x \o y) = Len(x) + Len(y)
      /\ \A i \in 1 .. Len(x) : (x \o y)[i] = x[i]
  BY <1>2
<1>4. \A i \in 2 .. Len(x) + Len(y) : (x \o y)[i] # Bos
  <2>. SUFFICES ASSUME NEW i \in 2 .. Len(x) + Len(y) PROVE (x \o y)[i] # Bos
    OBVIOUS
  <2>1. CASE i <= Len(x)
    BY <1>3, <2>1 DEF Opens
  <2>2. CASE i > Len(x)
    <3>1. i - Len(x) \in 1 .. Len(y)
      BY <1>2, <2>2
    <3>2. (x \o y)[i] = y[i - Len(x)]
      BY <1>2, <2>2
    <3>. QED BY <1>1, <3>1, <3>2
  <2>3. i <= Len(x) \/ i > Len(x)
    OBVIOUS
  <2>. QED BY <2>1, <2>2, <2>3, Zenon
<1>. QED BY <1>3, <1>4 DEF Opens

\* The pages of a job reach past its prompt, and past its window while it fits.
LEMMA Room ==
  ASSUME NEW len \in Nat \ {0}, NEW limit \in Nat
  PROVE  /\ TotalPages(len, limit) \in Nat
         /\ ContextPages(len) \in Nat
         /\ ContextPages(len) = PageAt(len - 1)
         /\ ContextPages(len) < TotalPages(len, limit)
         /\ \A n \in Nat : n < limit /\ n + RqMargin <= Budget(len, limit) =>
              len + n + MaxDraft <= TotalPages(len, limit) * PageSize
<1>. DEFINE a == len + Budget(len, limit) + RqHeadroom
<1>1. Budget(len, limit) \in Nat /\ Budget(len, limit) >= 1 /\ MaxDraft \in Nat
  <2>1. MaxDraft \in Nat /\ RqTokens \in Nat
    BY JobsAssumption
  <2>2. CASE RqTokens = 0
    BY <2>1, <2>2 DEF Budget
  <2>3. CASE RqTokens # 0
    <3>. DEFINE aligned == CeilDiv(len - 1 + RqTokens, PageSize) * PageSize
                end == Smaller(aligned, MaxTokens - MaxDraft)
    <3>1. aligned \in Nat
      <4>1. len - 1 + RqTokens \in Nat
        BY <2>1
      <4>2. CeilDiv(len - 1 + RqTokens, PageSize) \in Nat
        BY <4>1, Ceiling
      <4>. QED BY <4>2, Multiples
    <3>2. MaxTokens \in Nat
      BY NumPagesAssumption, PageSizeAssumption DEF MaxTokens
    <3>. HIDE DEF aligned
    <3>3. end \in Int
      BY <2>1, <3>1, <3>2 DEF Smaller
    <3>4. Budget(len, limit) = Larger(1, Minus(end, len))
      BY <2>3 DEF Budget, aligned
    <3>. HIDE DEF end
    <3>5. Minus(end, len) \in Nat
      BY <3>3 DEF Minus
    <3>. QED BY <2>1, <3>4, <3>5 DEF Larger
  <2>. QED BY <2>2, <2>3
<1>2. RqHeadroom \in Nat /\ RqMargin \in Nat
  BY JobsAssumption DEF RqHeadroom, RqMargin
<1>3. a \in Nat /\ len < a /\ TotalPages(len, limit) = CeilDiv(a, PageSize)
  BY <1>1, <1>2 DEF TotalPages
<1>4. ASSUME NEW n \in Nat, n < limit, n + RqMargin <= Budget(len, limit)
      PROVE  len + n + MaxDraft <= a
  <2>1. CASE RqTokens = 0
    BY <1>1, <1>4, <2>1 DEF Budget, RqHeadroom
  <2>2. CASE RqTokens # 0
    BY <1>1, <1>4, <2>2 DEF RqHeadroom, RqMargin
  <2>. QED BY <2>1, <2>2
<1>5. ContextPages(len) = PageAt(len - 1) /\ ContextPages(len) \in Nat
  <2>1. len - 1 \in Nat
    OBVIOUS
  <2>. QED BY <2>1, Located DEF ContextPages, PageAt
<1>. HIDE DEF a
<1>6. TotalPages(len, limit) \in Nat /\ a <= TotalPages(len, limit) * PageSize
      /\ \A i \in Nat : i < TotalPages(len, limit) <=> i * PageSize < a
  BY <1>3, Ceiling
<1>7. ContextPages(len) < TotalPages(len, limit)
  <2>1. ContextPages(len) * PageSize <= len - 1 /\ ContextPages(len) * PageSize \in Nat
    <3>1. len - 1 \in Nat
      OBVIOUS
    <3>. QED BY <1>5, <3>1, Located
  <2>2. ContextPages(len) * PageSize < a
    BY <1>3, <2>1
  <2>. QED BY <1>5, <1>6, <2>2
<1>8. ASSUME NEW n \in Nat, n < limit, n + RqMargin <= Budget(len, limit)
      PROVE  len + n + MaxDraft <= TotalPages(len, limit) * PageSize
  <2>1. len + n + MaxDraft <= a
    BY <1>4, <1>8
  <2>2. TotalPages(len, limit) * PageSize \in Nat
    BY <1>6, Multiples
  <2>. QED BY <1>1, <1>3, <1>6, <2>1, <2>2
<1>. QED BY <1>5, <1>6, <1>7, <1>8

\* A job's fields.
LEMMA JobFields ==
  ASSUME NEW J \in JobState
  PROVE  /\ J.ids \in Seq(Token) /\ Len(J.ids) \in Nat
         /\ J.plen \in Nat /\ J.limit \in Nat /\ J.pos \in Nat
         /\ J.pages \in Seq(Page) /\ Len(J.pages) \in Nat
         /\ J.offset \in Nat \cup {None}
         /\ J.deferred \in Seq(Nat) /\ Len(J.deferred) \in Nat
         /\ J.draft \in Seq(Token) /\ Len(J.draft) \in Nat
         /\ J.fate \in {"go", "eos", "requeue", "rewound", "cancelled"}
         /\ J.stage \in {"new", "pending", "active", "done"}
         /\ J.explored \in SUBSET Token
BY DEF JobState

LEMMA PagesIndexed ==
  ASSUME NEW J \in JobState
  PROVE  /\ \A i \in Index(J) : /\ i \in Nat /\ i < Len(J.pages) /\ PageOf(J, i) \in Page
                                /\ i + 1 \in DOMAIN J.pages
         /\ \A i \in Nat : i < Len(J.pages) => i \in Index(J)
<1>1. J.pages \in Seq(Page) /\ Len(J.pages) \in Nat
  BY JobFields
<1>. QED BY <1>1 DEF Index, PageOf

\* Holding makes the offset a number.
LEMMA HoldingOffset ==
  ASSUME NEW J \in JobState
  PROVE  /\ Holding(J) <=> J.offset \in Nat \ {0}
         /\ ~ Holding(J) <=> J.offset = 0 \/ J.offset = None
<1>1. J.offset \in Nat \cup {None}
  BY JobFields
<1>2. None \notin Nat
  BY NoneAssumption
<1>. QED BY <1>1, <1>2 DEF Holding

\* The first page that is not final lies within the sequence.
LEMMA LowBounds ==
  ASSUME NEW J \in JobState, NEW ph, NEW n, JobOK(J, ph), HandOK(J, ph, n)
  PROVE  /\ LowAs(J, ph) \in Nat
         /\ LowAs(J, ph) * PageSize \in Nat
         /\ LowAs(J, ph) * PageSize < Len(J.ids)
         /\ PrefillDone(J) => LowAs(J, ph) <= PageAt(J.pos)
         /\ J.pos < Len(J.ids)
         /\ J.plen \in Nat \ {0}
<1>. DEFINE low == LowAs(J, ph)
<1>1. J.pos \in Nat /\ Len(J.ids) \in Nat /\ Len(J.deferred) \in Nat /\ J.plen \in Nat
  BY JobFields
<1>2. J.plen \in 1 .. Len(J.ids)
  BY DEF JobOK
<1>3. PageAt(J.pos) \in Nat /\ PageAt(J.pos) * PageSize <= J.pos
      /\ PageAt(J.pos) * PageSize \in Nat
  BY <1>1, Located
<1>4. CASE ~ PrefillDone(J)
  <2>1. low = ContextPages(J.plen)
    BY <1>4 DEF LowAs
  <2>2. J.plen = Len(J.ids) /\ J.pos < Len(J.ids)
    BY <1>4 DEF JobOK, Untouched
  <2>3. J.plen - 1 \in Nat /\ J.plen \in Nat \ {0}
    BY <1>1, <1>2
  <2>4. low = PageAt(J.plen - 1) /\ low \in Nat
    BY <1>1, <2>1, <2>3, Room
  <2>5. low * PageSize <= J.plen - 1 /\ low * PageSize \in Nat
    BY <2>3, <2>4, Located
  <2>. HIDE DEF low
  <2>6. low * PageSize < Len(J.ids)
    BY <1>1, <2>2, <2>5
  <2>. QED BY <1>4, <2>2, <2>3, <2>4, <2>5, <2>6 DEF low
<1>5. CASE PrefillDone(J)
  <2>1. J.pos + 1 = Len(J.ids)
    BY <1>5 DEF PrefillDone
  <2>2. low \in Nat /\ low <= PageAt(J.pos)
    <3>1. CASE ph = "rewind"
      BY <1>3, <1>5, <3>1 DEF LowAs
    <3>2. CASE ph = "complete"
      <4>1. J.pos % PageSize = 0 /\ J.pos > 0
        BY <3>2 DEF HandOK, Sampling
      <4>2. J.pos = PageAt(J.pos) * PageSize
        BY <1>1, <4>1, PageBoundary
      <4>3. PageAt(J.pos) # 0
        BY <4>1, <4>2, PageSizeAssumption
      <4>4. low = PageAt(J.pos) - 1
        BY <1>5, <3>2 DEF LowAs
      <4>. QED BY <1>3, <4>3, <4>4
    <3>3. CASE ph \notin {"rewind", "complete"}
      <4>1. low = PageAt(J.pos) - Len(J.deferred)
        BY <1>5, <3>3 DEF LowAs
      <4>2. Len(J.deferred) <= PageAt(J.pos)
        BY <3>3 DEF JobOK, Deferrals
      <4>. QED BY <1>1, <1>3, <4>1, <4>2
    <3>. QED BY <3>1, <3>2, <3>3
  <2>. HIDE DEF low
  <2>3. low * PageSize <= J.pos /\ low * PageSize \in Nat
    BY <1>1, <2>2, PageBounds, Multiples
  <2>4. J.plen \in Nat \ {0}
    BY <1>1, <1>2
  <2>. QED BY <1>1, <2>1, <2>2, <2>3, <2>4 DEF low
<1>. QED BY <1>4, <1>5

\* While it fits, a job's window lies within its pages.
LEMMA WindowFits ==
  ASSUME NEW J \in JobState, NEW ph, ph # "alloc", JobOK(J, ph), Fits(J), PrefillDone(J)
  PROVE  /\ J.pos + 1 + MaxDraft <= Len(J.pages) * PageSize
         /\ Len(J.pages) * PageSize \in Nat
<1>1. /\ J.pos \in Nat /\ Len(J.ids) \in Nat /\ Len(J.pages) \in Nat
      /\ J.plen \in Nat /\ J.limit \in Nat
  BY JobFields
<1>2. /\ J.plen \in 1 .. Len(J.ids) /\ Len(J.pages) = TotalPages(J.plen, J.limit)
      /\ J.pos + 1 = Len(J.ids)
  BY DEF JobOK, PrefillDone
<1>3. /\ J.plen \in Nat \ {0} /\ NewTokens(J) \in Nat /\ J.plen + NewTokens(J) = Len(J.ids)
  BY <1>1, <1>2 DEF NewTokens
<1>4. NewTokens(J) < J.limit /\ NewTokens(J) + RqMargin <= Budget(J.plen, J.limit)
  BY DEF Fits
<1>5. J.plen + NewTokens(J) + MaxDraft <= Len(J.pages) * PageSize
  BY <1>1, <1>2, <1>3, <1>4, Room
<1>6. Len(J.pages) * PageSize \in Nat
  BY <1>1, Multiples
<1>. QED BY <1>2, <1>3, <1>5, <1>6

\* A page of a block table whose hash goes back to a placeholder has no other place.
LEMMA Exclusive ==
  ASSUME NEW t, t.page \in [Page -> CachePage], job \in [Job -> JobState],
         BasesApart(t, BlockTables),
         NEW j \in Job, NEW l \in Job, NEW i \in Index(job[j]), NEW m \in Index(job[l]),
         PageOf(job[j], i) = PageOf(job[l], m),
         t.page[PageOf(job[j], i)].phash.base # 0
  PROVE  j = l /\ i = m
<1>1. /\ i + 1 \in DOMAIN BlockTables[j] /\ m + 1 \in DOMAIN BlockTables[l]
      /\ BlockTables[j][i + 1] = PageOf(job[j], i)
      /\ BlockTables[l][m + 1] = PageOf(job[l], m)
      /\ i \in Nat /\ m \in Nat /\ PageOf(job[j], i) \in Page
  BY PagesIndexed DEF BlockTables, PageOf
<1>. DEFINE g == t.page[PageOf(job[j], i)].phash
<1>2. Len(g.toks) \in Nat
  BY SMTT(30), <1>1 DEF CachePage, Hash
<1>. HIDE DEF g
<1>3. j = l /\ (i + 1 < m + 1 => Len(g.toks) < Len(g.toks))
  BY <1>1 DEF BasesApart, g
<1>4. m + 1 < i + 1 => Len(g.toks) < Len(g.toks)
  BY <1>1 DEF BasesApart, g
<1>. QED BY <1>1, <1>2, <1>3, <1>4

\* The pages of J before low are final, and low lies within its sequence.
Named(t, J, low) ==
  /\ J \in JobState
  /\ low \in Nat
  /\ low * PageSize < Len(J.ids)
  /\ NamesTrue(t, J, low)

\* Their sequences agree up to the end of page i.
SameUpTo(J, L, i) ==
  SubSeq(J.ids, 1, (i + 1) * PageSize) = SubSeq(L.ids, 1, (i + 1) * PageSize)

\* A page with a content hash has one index in all block tables that name it.
LEMMA SharedNames ==
  ASSUME NEW t, NEW J, NEW low, Named(t, J, low), NEW L, NEW deep, Named(t, L, deep),
         NEW i \in Index(J), NEW m \in Index(L), PageOf(J, i) = PageOf(L, m),
         t.page[PageOf(J, i)].phash.base = 0
  PROVE  i = m /\ i < low /\ i < deep /\ SameUpTo(J, L, i)
<1>1. /\ J.ids \in Seq(Token) /\ L.ids \in Seq(Token)
      /\ Len(J.ids) \in Nat /\ Len(L.ids) \in Nat /\ i \in Nat /\ m \in Nat
      /\ low \in Nat /\ deep \in Nat
  BY JobFields, PagesIndexed DEF Named
<1>. DEFINE h == t.page[PageOf(J, i)].phash
            a == (i + 1) * PageSize
            b == (m + 1) * PageSize
<1>2. i < low /\ h.toks = SubSeq(J.ids, 1, a)
  BY SMTT(30), <1>1 DEF Named, NamesTrue
<1>3. m < deep /\ h.toks = SubSeq(L.ids, 1, b)
  BY <1>1 DEF Named, NamesTrue
<1>4. /\ a = i * PageSize + PageSize /\ i * PageSize \in Nat
      /\ b = m * PageSize + PageSize /\ m * PageSize \in Nat
      /\ low * PageSize \in Nat /\ deep * PageSize \in Nat
  BY <1>1, Multiples
<1>5. i * PageSize + PageSize <= low * PageSize /\ m * PageSize + PageSize <= deep * PageSize
  BY <1>1, <1>2, <1>3, Monotone
<1>a. low * PageSize < Len(J.ids) /\ deep * PageSize < Len(L.ids)
  BY DEF Named
<1>b. a \in Nat /\ b \in Nat
  BY <1>1, Multiples
<1>. HIDE DEF a, b, h
<1>6. a \in Nat /\ b \in Nat /\ a < Len(J.ids) /\ b < Len(L.ids)
  <2>1. a <= low * PageSize /\ b <= deep * PageSize
    BY <1>4, <1>5
  <2>. QED BY ONLY SMTT(30), <1>1, <1>4, <1>a, <1>b, <2>1
<1>7. Len(SubSeq(J.ids, 1, a)) = a /\ Len(SubSeq(L.ids, 1, b)) = b
  BY <1>1, <1>6
<1>8. a = b
  BY <1>2, <1>3, <1>7
<1>9. i * PageSize = m * PageSize
  BY <1>4, <1>8, PageSizeAssumption
<1>10. i = m
  <2>1. PageAt(i * PageSize) = i /\ PageAt(m * PageSize) = m
    BY <1>1, <1>4, PageBoundary
  <2>. QED BY <1>9, <2>1
<1>. QED BY <1>2, <1>3, <1>8, <1>10 DEF a, b, SameUpTo

\* A live job names each of its pages once.
LEMMA PagesDistinct ==
  ASSUME NEW t, t.page \in [Page -> CachePage], job \in [Job -> JobState],
         BasesApart(t, BlockTables),
         NEW j \in Job, NEW low, Named(t, job[j], low),
         NEW i \in Index(job[j]), NEW m \in Index(job[j]),
         PageOf(job[j], i) = PageOf(job[j], m)
  PROVE  i = m
<1>1. CASE t.page[PageOf(job[j], i)].phash.base = 0
  BY <1>1, SharedNames
<1>2. CASE t.page[PageOf(job[j], i)].phash.base # 0
  BY <1>2, Exclusive
<1>. QED BY <1>1, <1>2

-----------------------------------------------------------------------------
(* What a step leaves alone.                                               *)

\* Two records of one page under one identity, with the same contents.
SamePage(r, s) ==
  r.phash = s.phash /\ r.prev = s.prev /\ r.kv = s.kv /\ r.toks = s.toks

\* The pages of J are in u and d what they are in t and c.
SameContents(t, c, u, d, J) ==
  \A i \in Index(J) : /\ SamePage(t.page[PageOf(J, i)], u.page[PageOf(J, i)])
                      /\ d[PageOf(J, i)] = c[PageOf(J, i)]

LEMMA ServedFrame ==
  ASSUME NEW t, NEW c, NEW u, NEW d, NEW J \in JobState, SameContents(t, c, u, d, J),
         NEW ph, NEW n, NEW drafted, Served(t, c, J, ph, n, drafted)
  PROVE  Served(u, d, J, ph, n, drafted)
<1>. DEFINE low == LowAs(J, ph)
            row == RowAs(J, ph, n, drafted)
<1>1. /\ NamesTrue(t, J, low) /\ LinksTrue(t, J, low)
      /\ ContentTrue(t, c, J, row) /\ MarksTrue(t, J, ph, n, row)
  BY DEF Served
<1>. HIDE DEF low, row
<1>2. \A i \in Index(J) : i \in Nat /\ (i > 0 => i - 1 \in Index(J))
  BY JobFields DEF Index
<1>3. \A i \in Index(J) :
        /\ u.page[PageOf(J, i)].phash = t.page[PageOf(J, i)].phash
        /\ u.page[PageOf(J, i)].prev = t.page[PageOf(J, i)].prev
        /\ u.page[PageOf(J, i)].kv = t.page[PageOf(J, i)].kv
        /\ u.page[PageOf(J, i)].toks = t.page[PageOf(J, i)].toks
        /\ d[PageOf(J, i)] = c[PageOf(J, i)]
  BY DEF SameContents, SamePage
<1>4. NamesTrue(u, J, low)
  BY <1>1, <1>2, <1>3 DEF NamesTrue
<1>5. LinksTrue(u, J, low)
  BY <1>1, <1>3 DEF LinksTrue
<1>6. ContentTrue(u, d, J, row)
  BY <1>1, <1>3, Zenon DEF ContentTrue
<1>7. MarksTrue(u, J, ph, n, row)
  BY <1>1, <1>3, Zenon DEF MarksTrue, FilledTo, Complete
<1>. QED BY <1>4, <1>5, <1>6, <1>7 DEF Served, low, row

\* A page stays true under the same or no saved identity.
LEMMA TruePageFrame ==
  ASSUME NEW r, NEW s, NEW c, NEW d, SamePage(r, s), c = d,
         s.saved = r.saved \/ s.saved = None, TruePage(r, c)
  PROVE  TruePage(s, d)
BY DEF TruePage, SamePage, Identified

\* What the pages of a job are known to hold begins like its sequence.
LEMMA RowFacts ==
  ASSUME NEW J \in JobState, NEW ph, NEW n \in Nat, NEW drafted \in BOOLEAN,
         drafted => PrefillDone(J), J.pos < Len(J.ids)
  PROVE  LET row == RowAs(J, ph, n, drafted) IN
         /\ row \in Seq(Token) /\ Len(row) \in Nat
         /\ J.pos <= Len(row)
         /\ \A m \in 0 .. J.pos : SubSeq(row, 1, m) = SubSeq(J.ids, 1, m)
         /\ \A i \in 1 .. J.pos : row[i] = J.ids[i]
<1>. DEFINE row == RowAs(J, ph, n, drafted)
            rest == Rest(J, n)
            set == Settled(J)
<1>1. J.ids \in Seq(Token) /\ J.pos \in Nat /\ J.pos \in 0 .. Len(J.ids) /\ J.draft \in Seq(Token)
  BY JobFields
<1>2. /\ set \in Seq(Token) /\ Len(set) = J.pos
      /\ \A m \in 0 .. J.pos : SubSeq(set, 1, m) = SubSeq(J.ids, 1, m)
  BY <1>1, Prefix, PrefixOfPrefix DEF Settled
<1>3. rest \in Seq(Token)
  BY <1>1 DEF Rest
<1>4. row \in {J.ids \o J.draft, J.ids \o rest, set \o rest, set}
  BY DEF RowAs
<1>. HIDE DEF row, rest, set
<1>5. ASSUME NEW y \in Seq(Token), row = J.ids \o y
      PROVE  /\ row \in Seq(Token) /\ J.pos <= Len(row)
             /\ \A m \in 0 .. J.pos : SubSeq(row, 1, m) = SubSeq(J.ids, 1, m)
  <2>1. row \in Seq(Token) /\ Len(row) = Len(J.ids) + Len(y) /\ Len(y) \in Nat
    BY <1>1, <1>5
  <2>2. \A m \in 0 .. Len(J.ids) : SubSeq(row, 1, m) = SubSeq(J.ids, 1, m)
    BY <1>1, <1>5, PrefixOfJoined
  <2>. QED BY <1>1, <2>1, <2>2
<1>6. ASSUME NEW y \in Seq(Token), row = set \o y
      PROVE  /\ row \in Seq(Token) /\ J.pos <= Len(row)
             /\ \A m \in 0 .. J.pos : SubSeq(row, 1, m) = SubSeq(J.ids, 1, m)
  <2>1. row \in Seq(Token) /\ Len(row) = J.pos + Len(y) /\ Len(y) \in Nat
    BY <1>2, <1>6
  <2>2. \A m \in 0 .. Len(set) : SubSeq(row, 1, m) = SubSeq(set, 1, m)
    BY <1>2, <1>6, PrefixOfJoined
  <2>. QED BY <1>1, <1>2, <2>1, <2>2
<1>7. /\ row \in Seq(Token) /\ J.pos <= Len(row)
      /\ \A m \in 0 .. J.pos : SubSeq(row, 1, m) = SubSeq(J.ids, 1, m)
  <2>1. CASE row = J.ids \o J.draft
    BY <1>1, <1>5, <2>1
  <2>2. CASE row = J.ids \o rest
    BY <1>3, <1>5, <2>2
  <2>3. CASE row = set \o rest
    BY <1>3, <1>6, <2>3
  <2>4. CASE row = set
    BY <1>1, <1>2, <2>4
  <2>. QED BY <1>4, <2>1, <2>2, <2>3, <2>4
<1>8. \A i \in 1 .. J.pos : row[i] = J.ids[i]
  <2>1. SubSeq(row, 1, J.pos) = SubSeq(J.ids, 1, J.pos) /\ J.pos \in 0 .. Len(row)
        /\ J.pos <= Len(J.ids)
    BY <1>1, <1>7
  <2>. QED BY <1>1, <1>7, <2>1, ShorterPrefix
<1>9. Len(row) \in Nat
  BY <1>7
<1>. QED BY <1>7, <1>8, <1>9 DEF row

-----------------------------------------------------------------------------
(* What the page table's methods do to the records of pages.               *)

PagesTyped(t) == IsTable(t) /\ t.page \in [Page -> CachePage]

LEMMA RecordFields ==
  ASSUME NEW t, PagesTyped(t), NEW p \in Page
  PROVE  /\ t.page[p] \in CachePage
         /\ t.page[p].phash \in Hash /\ t.page[p].prev \in Hash
         /\ t.page[p].refs \in Nat /\ t.page[p].serial \in Nat
         /\ t.page[p].kv \in 0 .. PageSize
         /\ t.page[p].saved \in Backup \cup {None}
         /\ t.page[p].toks \in [0 .. PageSize - 1 -> Token \cup {None}]
BY DEF PagesTyped, CachePage

LEMMA RootType == Root \in Hash /\ Root.base = 0 /\ Root.toks = <<>>
BY DEF Root, Hash

LEMMA NotRoot ==
  ASSUME NEW h, h.base # 0 \/ h.toks # <<>>
  PROVE  h # Root
BY RootType

LEMMA FreshHashType ==
  ASSUME NEW t
  PROVE  /\ FreshHash(t) \in Hash
         /\ FreshHash(t).base \in Nat \ {0}
         /\ FreshHash(t).base \notin Bases(t)
         /\ FreshHash(t).toks = <<>>
<1>. DEFINE n == CHOOSE n \in 1 .. 4 * NumPages + 1 : n \notin Bases(t)
<1>1. n \in 1 .. 4 * NumPages + 1 /\ n \notin Bases(t)
  BY FreshExists
<1>2. FreshHash(t) = [base |-> n, toks |-> <<>>]
  BY DEF FreshHash, Placeholder
<1>. HIDE DEF n
<1>3. n \in Nat \ {0}
  BY <1>1, NumPagesAssumption
<1>. QED BY <1>1, <1>2, <1>3 DEF Hash

\* The identities of pages do not use a fresh base.
LEMMA FreshApart ==
  ASSUME NEW t, NEW p \in Page
  PROVE  t.page[p].phash.base # FreshHash(t).base
<1>1. t.page[p].phash.base \in Bases(t)
  BY DEF Bases, BasesOf
<1>. QED BY <1>1, FreshHashType

\* One page's record is replaced.
Replaced(t, u, p, rec) == IsTable(u) /\ u.page = [t.page EXCEPT ![p] = rec]

LEMMA OneRecord ==
  ASSUME NEW t, PagesTyped(t), NEW p \in Page, NEW rec \in CachePage, NEW u,
         Replaced(t, u, p, rec)
  PROVE  /\ PagesTyped(u)
         /\ u.page[p] = rec
         /\ \A q \in Page \ {p} : u.page[q] = t.page[q]
BY DEF PagesTyped, IsTable, Replaced

LEMMA AddRefPages ==
  ASSUME NEW t, PagesTyped(t), Sound(t), NEW p \in Page, NEW s \in Nat
  PROVE  LET u == AddRef(t, p, s) IN
         /\ PagesTyped(u)
         /\ SamePage(t.page[p], u.page[p]) /\ u.page[p].saved = None
         /\ \A q \in Page \ {p} : u.page[q] = t.page[q]
<1>. DEFINE u == AddRef(t, p, s)
            rec == [t.page[p] EXCEPT !.refs = @ + 1,
                                     !.serial = IF s > @ THEN s ELSE @,
                                     !.saved = None]
<1>0. /\ t.page[p] \in CachePage /\ t.page[p].refs \in Nat /\ t.page[p].refs + 1 \in Nat
      /\ t.page[p].serial \in Nat /\ 0 \in 0 .. PageSize
  BY RecordFields, PageSizeAssumption
<1>1. rec \in CachePage /\ SamePage(t.page[p], rec) /\ rec.saved = None
  BY <1>0 DEF CachePage, SamePage
<1>. HIDE DEF rec
<1>2. u.page = [t.page EXCEPT ![p] = rec]
  <2>1. CASE t.page[p].refs = 0
    BY <2>1 DEF AddRef, MoveToReferenced, rec
  <2>2. CASE t.page[p].refs # 0
    <3>1. u = [t EXCEPT !.page[p] = rec]
      BY <2>2 DEF AddRef, rec
    <3>. QED BY <3>1 DEF PagesTyped, IsTable
  <2>. QED BY <2>1, <2>2
<1>3. IsTable(u)
  BY AddRefSound DEF Sound
<1>. HIDE DEF u
<1>4. PagesTyped(u) /\ u.page[p] = rec /\ \A q \in Page \ {p} : u.page[q] = t.page[q]
  <2>1. Replaced(t, u, p, rec)
    BY <1>2, <1>3 DEF Replaced
  <2>. QED BY <1>1, <2>1, OneRecord
<1>. QED BY <1>1, <1>4 DEF u

LEMMA AddRefClearPages ==
  ASSUME NEW t, PagesTyped(t), Sound(t), NEW p \in Page, t.page[p].refs = 0,
         NEW s \in Nat, NEW h \in Hash, ~ Holds(t, Page, h)
  PROVE  LET u == AddRefClear(t, p, s, h) IN
         /\ PagesTyped(u)
         /\ u.page[p].phash = h /\ u.page[p].kv = 0 /\ u.page[p].prev = Root
         /\ u.page[p].saved = None
         /\ \A q \in Page \ {p} : u.page[q] = t.page[q]
<1>. DEFINE u == AddRefClear(t, p, s, h)
            rec == [t.page[p] EXCEPT !.phash = h, !.refs = @ + 1, !.serial = s,
                                     !.prev = Root, !.saved = None, !.kv = 0]
<1>0. /\ t.page[p] \in CachePage /\ t.page[p].refs \in Nat /\ t.page[p].refs + 1 \in Nat
      /\ t.page[p].serial \in Nat /\ 0 \in 0 .. PageSize
  BY RecordFields, PageSizeAssumption
<1>1. /\ rec \in CachePage /\ rec.phash = h /\ rec.kv = 0 /\ rec.prev = Root
      /\ rec.saved = None
  BY <1>0, RootType, PageSizeAssumption DEF CachePage
<1>. HIDE DEF rec
<1>2. u.page = [t.page EXCEPT ![p] = rec]
  BY DEF AddRefClear, MoveToReferenced, rec
<1>3. IsTable(u)
  BY AddRefClearSound DEF Sound
<1>. HIDE DEF u
<1>4. PagesTyped(u) /\ u.page[p] = rec /\ \A q \in Page \ {p} : u.page[q] = t.page[q]
  <2>1. Replaced(t, u, p, rec)
    BY <1>2, <1>3 DEF Replaced
  <2>. QED BY <1>1, <2>1, OneRecord
<1>. QED BY <1>1, <1>4 DEF u

LEMMA AddRefUniquePages ==
  ASSUME NEW t, PagesTyped(t), Sound(t), NEW p \in Page, t.page[p].refs = 0, NEW s \in Nat
  PROVE  LET u == AddRefUnique(t, p, s) IN
         /\ PagesTyped(u)
         /\ u.page[p].phash = FreshHash(t) /\ u.page[p].kv = 0 /\ u.page[p].prev = Root
         /\ u.page[p].toks = t.page[p].toks
         /\ u.page[p].saved = [phash |-> t.page[p].phash, prev |-> t.page[p].prev,
                               serial |-> t.page[p].serial, kv |-> t.page[p].kv]
         /\ u.page[p].saved # None
         /\ \A q \in Page \ {p} : u.page[q] = t.page[q]
<1>. DEFINE u == AddRefUnique(t, p, s)
            old == t.page[p]
            saved == [phash |-> old.phash, prev |-> old.prev,
                      serial |-> old.serial, kv |-> old.kv]
            rec == [old EXCEPT !.saved = saved,
                               !.phash = FreshHash(t), !.refs = @ + 1, !.serial = s,
                               !.prev = Root, !.kv = 0]
<1>1. saved \in Backup
  BY RecordFields DEF Backup
<1>2. saved # None
  BY <1>1, NoneAssumption
<1>. HIDE DEF saved
<1>a. /\ old \in CachePage /\ old.refs \in Nat /\ old.refs + 1 \in Nat
      /\ FreshHash(t) \in Hash /\ 0 \in 0 .. PageSize
  BY RecordFields, FreshHashType, PageSizeAssumption
<1>. HIDE DEF old
<1>3. /\ rec \in CachePage /\ rec.phash = FreshHash(t) /\ rec.kv = 0 /\ rec.prev = Root
      /\ rec.toks = old.toks /\ rec.saved = saved
  BY <1>1, <1>a, RootType, PageSizeAssumption DEF CachePage
<1>. USE DEF old
<1>. HIDE DEF rec
<1>4. u.page = [t.page EXCEPT ![p] = rec]
  BY DEF AddRefUnique, MoveToReferenced, rec, saved
<1>5. IsTable(u)
  BY AddRefUniqueSound DEF Sound
<1>. HIDE DEF u
<1>6. PagesTyped(u) /\ u.page[p] = rec /\ \A q \in Page \ {p} : u.page[q] = t.page[q]
  <2>1. Replaced(t, u, p, rec)
    BY <1>4, <1>5 DEF Replaced
  <2>. QED BY <1>3, <2>1, OneRecord
<1>. QED BY <1>2, <1>3, <1>6 DEF u, saved

LEMMA ClearPages ==
  ASSUME NEW t, PagesTyped(t), Sound(t), NEW p \in Page, t.page[p].refs = 0
  PROVE  LET u == Clear(t, p) IN
         /\ PagesTyped(u)
         /\ u.page[p].phash = FreshHash(t) /\ u.page[p].kv = 0 /\ u.page[p].saved = None
         /\ \A q \in Page \ {p} : u.page[q] = t.page[q]
<1>. DEFINE u == Clear(t, p)
            blank == [i \in 0 .. PageSize - 1 |-> None]
            rec == [t.page[p] EXCEPT !.phash = FreshHash(t), !.prev = Root, !.kv = 0,
                                     !.toks = blank, !.saved = None]
<1>0. blank \in [0 .. PageSize - 1 -> Token \cup {None}]
  OBVIOUS
<1>. HIDE DEF blank
<1>a. t.page[p] \in CachePage /\ FreshHash(t) \in Hash /\ 0 \in 0 .. PageSize
  BY RecordFields, FreshHashType, PageSizeAssumption
<1>1. rec \in CachePage /\ rec.phash = FreshHash(t) /\ rec.kv = 0 /\ rec.saved = None
  BY <1>0, <1>a, RootType, PageSizeAssumption DEF CachePage
<1>2. u.page = [t.page EXCEPT ![p] = rec]
  <2>1. u.page = [t.page EXCEPT ![p].phash = FreshHash(t), ![p].prev = Root, ![p].kv = 0,
                                ![p].toks = blank, ![p].saved = None]
    BY DEF Clear, blank, PagesTyped, IsTable
  <2>. QED BY <2>1 DEF PagesTyped, IsTable
<1>. HIDE DEF rec
<1>3. IsTable(u)
  BY ClearSound DEF Sound
<1>. HIDE DEF u
<1>4. PagesTyped(u) /\ u.page[p] = rec /\ \A q \in Page \ {p} : u.page[q] = t.page[q]
  <2>1. Replaced(t, u, p, rec)
    BY <1>2, <1>3 DEF Replaced
  <2>. QED BY <1>1, <2>1, OneRecord
<1>. QED BY <1>1, <1>4 DEF u

LEMMA UpdateHashPages ==
  ASSUME NEW t, PagesTyped(t), Sound(t), NEW p \in Page, t.page[p].refs > 0, NEW h \in Hash,
         \A q \in Page \ {p} : t.page[q].phash # h
  PROVE  LET u == UpdateHash(t, p, h) IN
         /\ PagesTyped(u)
         /\ u.page[p].phash = h /\ u.page[p].prev = t.page[p].prev
         /\ u.page[p].kv = t.page[p].kv /\ u.page[p].toks = t.page[p].toks
         /\ u.page[p].saved = None
         /\ \A q \in Page \ {p} : u.page[q] = t.page[q]
<1>. DEFINE u == UpdateHash(t, p, h)
            rec == [t.page[p] EXCEPT !.phash = h, !.saved = None]
<1>a. t.page[p] \in CachePage
  BY RecordFields
<1>1. /\ rec \in CachePage /\ rec.phash = h /\ rec.prev = t.page[p].prev
      /\ rec.kv = t.page[p].kv /\ rec.toks = t.page[p].toks /\ rec.saved = None
  BY <1>a DEF CachePage
<1>2. u.page = [t.page EXCEPT ![p] = rec]
  <2>1. u.page = [t.page EXCEPT ![p].phash = h, ![p].saved = None]
    BY DEF UpdateHash, PagesTyped, IsTable
  <2>. QED BY <2>1 DEF PagesTyped, IsTable
<1>. HIDE DEF rec
<1>3. IsTable(u)
  BY UpdateHashSound DEF Sound
<1>. HIDE DEF u
<1>4. PagesTyped(u) /\ u.page[p] = rec /\ \A q \in Page \ {p} : u.page[q] = t.page[q]
  <2>1. Replaced(t, u, p, rec)
    BY <1>2, <1>3 DEF Replaced
  <2>. QED BY <1>1, <2>1, OneRecord
<1>. QED BY <1>1, <1>4 DEF u

\* A released page keeps its contents, under its own identity, the one it had before it
\* was claimed, or a placeholder.
LEMMA SubRefPages ==
  ASSUME NEW t, PagesTyped(t), Sound(t), NEW p \in Page, t.page[p].refs > 0
  PROVE  LET u == SubRef(t, p) IN
         /\ PagesTyped(u)
         /\ \A q \in Page \ {p} : u.page[q] = t.page[q]
         /\ t.page[p].refs > 1 => SamePage(t.page[p], u.page[p])
         /\ \A c : TruePage(t.page[p], c) => TruePage(u.page[p], c)
<1>. DEFINE u == SubRef(t, p)
            old == t.page[p]
<1>0. /\ old \in CachePage /\ old.refs \in Nat /\ old.refs - 1 \in Nat
      /\ FreshHash(t) \in Hash /\ FreshHash(t).base # 0
  BY RecordFields, FreshHashType
<1>a. IsTable(u)
  BY SubRefSound DEF Sound
<1>1. CASE t.page[p].refs > 1
  <2>. DEFINE rec == [t.page[p] EXCEPT !.refs = @ - 1]
  <2>1. /\ rec \in CachePage /\ SamePage(old, rec) /\ rec.saved = old.saved
    BY <1>0 DEF CachePage, SamePage
  <2>2. u.page = [t.page EXCEPT ![p] = rec]
    BY <1>1 DEF SubRef, PagesTyped, IsTable
  <2>. HIDE DEF rec, u
  <2>3. PagesTyped(u) /\ u.page[p] = rec /\ \A q \in Page \ {p} : u.page[q] = t.page[q]
    <3>1. Replaced(t, u, p, rec)
      BY <1>a, <2>2 DEF Replaced
    <3>. QED BY <2>1, <3>1, OneRecord
  <2>4. \A c : TruePage(old, c) => TruePage(rec, c)
    BY <2>1, TruePageFrame
  <2>. QED BY <1>1, <2>1, <2>3, <2>4 DEF u
<1>2. CASE ~ t.page[p].refs > 1
  <2>. DEFINE back == Reverted(old)
              rec == [back EXCEPT !.refs = @ - 1]
              final == IF Holds(t, Without(t.referenced, t.page, t.page[p].phash)
                                     \cup t.unreferenced, rec.phash)
                       THEN [rec EXCEPT !.phash = FreshHash(t), !.prev = Root] ELSE rec
  <2>1. /\ back \in CachePage /\ back.refs = old.refs
        /\ Identified(old) => back.phash # Root
        /\ \A c : TruePage(old, c) => Truth(back.phash, back.prev, back.kv, back.toks, c)
        /\ back.saved = None
    <3>1. CASE old.saved = None
      BY <1>0, <3>1 DEF Reverted, TruePage, Identified
    <3>2. CASE old.saved # None
      <4>1. old.saved \in Backup
        BY <1>0, <3>2 DEF CachePage
      <4>2. back \in CachePage /\ back.refs = old.refs /\ back.saved = None
        BY <1>0, <3>2, <4>1 DEF Reverted, CachePage, Backup
      <4>3. /\ back.phash = old.saved.phash /\ back.prev = old.saved.prev
            /\ back.kv = old.saved.kv /\ back.toks = old.toks
        BY <1>0, <3>2 DEF Reverted, CachePage
      <4>. HIDE DEF back
      <4>. QED BY <3>2, <4>2, <4>3 DEF TruePage, Identified
    <3>. QED BY <3>1, <3>2
  <2>. HIDE DEF back
  <2>2. /\ rec \in CachePage /\ rec.saved = None
        /\ Identified(old) => rec.phash # Root
        /\ \A c : TruePage(old, c) => Truth(rec.phash, rec.prev, rec.kv, rec.toks, c)
    <3>1. /\ rec \in CachePage /\ rec.saved = None
          /\ rec.phash = back.phash /\ rec.prev = back.prev /\ rec.kv = back.kv
          /\ rec.toks = back.toks
      BY <1>0, <2>1 DEF CachePage
    <3>. HIDE DEF rec
    <3>. QED BY <2>1, <3>1
  <2>3. u.page = [t.page EXCEPT ![p] = final]
    <3>1. u.page = [t.page EXCEPT ![p] =
             IF Holds(t, Without(t.referenced, t.page, t.page[p].phash) \cup t.unreferenced,
                      [Reverted(t.page[p]) EXCEPT !.refs = @ - 1].phash)
             THEN [[Reverted(t.page[p]) EXCEPT !.refs = @ - 1]
                     EXCEPT !.phash = FreshHash(t), !.prev = Root]
             ELSE [Reverted(t.page[p]) EXCEPT !.refs = @ - 1]]
      BY <1>2 DEF SubRef
    <3>. QED BY <3>1 DEF back
  <2>. HIDE DEF u, rec
  <2>4. /\ final \in CachePage
        /\ \A c : TruePage(old, c) => TruePage(final, c)
    <3>1. CASE final = rec
      BY <2>2, <3>1 DEF TruePage, Identified
    <3>2. CASE final = [rec EXCEPT !.phash = FreshHash(t), !.prev = Root]
      <4>1. /\ final \in CachePage /\ final.phash = FreshHash(t) /\ final.prev = Root
            /\ final.kv = rec.kv /\ final.toks = rec.toks /\ final.saved = None
        BY <1>0, <2>2, <3>2, RootType DEF CachePage
      <4>. HIDE DEF final
      <4>2. ASSUME NEW c, Truth(rec.phash, rec.prev, rec.kv, rec.toks, c)
            PROVE  Truth(final.phash, final.prev, final.kv, final.toks, c)
        BY <1>0, <4>1, <4>2 DEF Truth
      <4>3. final.phash # Root
        BY <1>0, <4>1, NotRoot
      <4>. QED BY <2>2, <4>1, <4>2, <4>3 DEF TruePage, Identified
    <3>. QED BY <3>1, <3>2
  <2>. HIDE DEF final
  <2>5. PagesTyped(u) /\ u.page[p] = final /\ \A q \in Page \ {p} : u.page[q] = t.page[q]
    <3>1. Replaced(t, u, p, final)
      BY <1>a, <2>3 DEF Replaced
    <3>. QED BY <2>4, <3>1, OneRecord
  <2>. QED BY <1>2, <2>4, <2>5 DEF u
<1>. QED BY <1>1, <1>2

-----------------------------------------------------------------------------
(* Linking a page to the one before it.                                    *)

\* A page's record but for its predecessor, its saved identity and its counts.
SameButLink(r, s) == r.phash = s.phash /\ r.kv = s.kv /\ r.toks = s.toks

LEMMA LinkedPages ==
  ASSUME NEW t, PagesTyped(t), NEW J \in JobState, NEW i \in Nat, NEW h \in Hash
  PROVE  LET u == Linked(t, J, i, h) IN
         /\ PagesTyped(u)
         /\ \A q \in Page :
              /\ SameButLink(t.page[q], u.page[q])
              /\ u.page[q].saved = t.page[q].saved /\ u.page[q].refs = t.page[q].refs
              /\ u.page[q].prev = IF i + 1 \in Index(J) /\ q = PageOf(J, i + 1)
                                  THEN h ELSE t.page[q].prev
<1>. DEFINE u == Linked(t, J, i, h)
            p == J.pages[i + 2]
            rec == [t.page[p] EXCEPT !.prev = h]
<1>1. PageOf(J, i + 1) = p /\ (i + 1 < Len(J.pages) <=> i + 1 \in Index(J))
  <2>1. Len(J.pages) \in Nat
    BY JobFields
  <2>. QED BY <2>1 DEF PageOf, Index
<1>a. IsTable(u)
  BY LinkedBooks DEF PagesTyped
<1>2. CASE i + 1 \in Index(J)
  <2>1. p \in Page
    BY <1>1, <1>2, PagesIndexed
  <2>2. u.page = [t.page EXCEPT ![p] = rec]
    BY <1>1, <1>2 DEF Linked, PagesTyped, IsTable
  <2>. HIDE DEF p
  <2>3. t.page[p] \in CachePage
    BY <2>1, RecordFields
  <2>4. /\ rec \in CachePage /\ rec.prev = h /\ SameButLink(t.page[p], rec)
        /\ rec.saved = t.page[p].saved /\ rec.refs = t.page[p].refs
    BY <2>3 DEF CachePage, SameButLink
  <2>. HIDE DEF rec, u
  <2>5. PagesTyped(u) /\ u.page[p] = rec /\ \A q \in Page \ {p} : u.page[q] = t.page[q]
    <3>1. Replaced(t, u, p, rec)
      BY <1>a, <2>2 DEF Replaced
    <3>. QED BY <2>1, <2>4, <3>1, OneRecord
  <2>6. \A q \in Page \ {p} : SameButLink(t.page[q], u.page[q])
    BY <2>5 DEF SameButLink
  <2>. QED BY <1>1, <1>2, <2>4, <2>5, <2>6 DEF u
<1>3. CASE i + 1 \notin Index(J)
  <2>1. u = t
    BY <1>1, <1>3 DEF Linked
  <2>. QED BY <1>3, <2>1 DEF SameButLink
<1>. QED BY <1>2, <1>3

LEMMA LinkNextPages ==
  ASSUME NEW t, PagesTyped(t), NEW J \in JobState, NEW i \in Nat, NEW h \in Hash
  PROVE  LET u == LinkNext(t, J, i, h) IN
         /\ PagesTyped(u)
         /\ \A q \in Page :
              /\ SameButLink(t.page[q], u.page[q])
              /\ u.page[q].refs = t.page[q].refs
              /\ IF i + 1 \in Index(J) /\ q = PageOf(J, i + 1)
                 THEN u.page[q].prev = h /\ u.page[q].saved = None
                 ELSE u.page[q].prev = t.page[q].prev /\ u.page[q].saved = t.page[q].saved
<1>. DEFINE u == LinkNext(t, J, i, h)
            v == Linked(t, J, i, h)
            p == J.pages[i + 2]
            rec == [v.page[p] EXCEPT !.saved = None]
<1>1. PageOf(J, i + 1) = p /\ (i + 1 < Len(J.pages) <=> i + 1 \in Index(J))
  <2>1. Len(J.pages) \in Nat
    BY JobFields
  <2>. QED BY <2>1 DEF PageOf, Index
<1>a. IsTable(u)
  BY LinkNextBooks DEF PagesTyped
<1>b. /\ PagesTyped(v)
      /\ \A q \in Page :
           /\ SameButLink(t.page[q], v.page[q])
           /\ v.page[q].saved = t.page[q].saved /\ v.page[q].refs = t.page[q].refs
           /\ v.page[q].prev = IF i + 1 \in Index(J) /\ q = PageOf(J, i + 1)
                               THEN h ELSE t.page[q].prev
  BY LinkedPages
<1>2. CASE i + 1 \in Index(J)
  <2>1. p \in Page
    BY <1>1, <1>2, PagesIndexed
  <2>2. u = [v EXCEPT !.page[p] = rec]
    BY <1>1, <1>2 DEF LinkNext
  <2>. HIDE DEF p, v
  <2>3. u.page = [v.page EXCEPT ![p] = rec]
    BY <1>b, <2>2 DEF PagesTyped, IsTable
  <2>4. v.page[p] \in CachePage
    BY <1>b, <2>1, RecordFields
  <2>5. /\ rec \in CachePage /\ rec.prev = v.page[p].prev /\ SameButLink(v.page[p], rec)
        /\ rec.saved = None /\ rec.refs = v.page[p].refs
    BY <2>4 DEF CachePage, SameButLink
  <2>. HIDE DEF rec, u
  <2>6. PagesTyped(u) /\ u.page[p] = rec /\ \A q \in Page \ {p} : u.page[q] = v.page[q]
    <3>1. Replaced(v, u, p, rec)
      BY <1>a, <2>3 DEF Replaced
    <3>. QED BY <1>b, <2>1, <2>5, <3>1, OneRecord
  <2>7. \A q \in Page : SameButLink(t.page[q], u.page[q])
    BY <1>b, <2>5, <2>6 DEF SameButLink
  <2>8. u.page[p].prev = h /\ u.page[p].saved = None /\ u.page[p].refs = t.page[p].refs
    BY <1>1, <1>2, <1>b, <2>1, <2>5, <2>6
  <2>9. \A q \in Page \ {p} : /\ u.page[q].prev = t.page[q].prev
                              /\ u.page[q].saved = t.page[q].saved
                              /\ u.page[q].refs = t.page[q].refs
    BY <1>1, <1>b, <2>6
  <2>. QED BY <1>1, <1>2, <2>6, <2>7, <2>8, <2>9 DEF u
<1>3. CASE i + 1 \notin Index(J)
  <2>1. u = t
    BY <1>1, <1>3 DEF LinkNext
  <2>. QED BY <1>3, <2>1 DEF SameButLink
<1>. QED BY <1>2, <1>3

-----------------------------------------------------------------------------
(* What the steps have in common.                                          *)

\* Job l is where it was.
Stays(l) ==
  /\ job'[l] = job[l]
  /\ Phase(l)' = Phase(l)
  /\ Turn(l)' = Turn(l)
  /\ job[l].stage = "active" => Drafted(l)' = Drafted(l)

\* Its pages are what they were, if it counts on them.
Undisturbed(l) ==
  LiveAs(job[l], Phase(l)) => SameContents(table, cache, table', cache', job[l])

LEMMA SameContentsItself ==
  ASSUME NEW t, NEW c, NEW J
  PROVE  SameContents(t, c, t, c, J)
BY DEF SameContents, SamePage

LEMMA StaysServed ==
  ASSUME NEW l \in Job, job[l] \in JobState, JobFine(l), JobServed(l), Stays(l), Undisturbed(l)
  PROVE  JobFine(l)' /\ JobServed(l)'
<1>. DEFINE J == job[l]
            ph == Phase(l)
            n == Turn(l)
            d == Drafted(l)
<1>1. job'[l] = J /\ Phase(l)' = ph /\ Turn(l)' = n
  BY DEF Stays
<1>2. LiveAs(J, ph) => Drafted(l)' = d
  BY DEF Stays, LiveAs
<1>3. Fine(J, ph, n) /\ Owed(table, cache, J, ph, n, d)
  BY DEF JobFine, JobServed
<1>a. /\ JobFine(l)' <=> Fine(job'[l], Phase(l)', Turn(l)')
      /\ JobServed(l)' <=> Owed(table', cache', job'[l], Phase(l)', Turn(l)', Drafted(l)')
  BY DEF JobFine, JobServed
<1>4. LiveAs(J, ph) => SameContents(table, cache, table', cache', J)
  BY DEF Undisturbed
<1>. HIDE DEF J, ph, n, d
<1>5. JobFine(l)'
  BY <1>1, <1>3, <1>a
<1>6. ASSUME LiveAs(J, ph) PROVE Served(table', cache', J, ph, n, Drafted(l)')
  <2>1. Served(table, cache, J, ph, n, d) /\ SameContents(table, cache, table', cache', J)
    BY <1>3, <1>4, <1>6 DEF Owed
  <2>2. J \in JobState
    BY DEF J
  <2>3. Served(table', cache', J, ph, n, d)
    BY <2>1, <2>2, ServedFrame
  <2>. QED BY <1>2, <1>6, <2>3
<1>7. JobServed(l)'
  BY <1>1, <1>6, <1>a DEF Owed
<1>. QED BY <1>5, <1>7

\* A step that moves the jobs in M.
LEMMA StepKeeps ==
  ASSUME CacheInv, BooksInv', Typed', Turns', PagesTrue(table, cache)',
         BasesApart(table, BlockTables)', NEW M,
         \A l \in Job \ M : Stays(l) /\ Undisturbed(l),
         \A l \in M : JobFine(l)' /\ JobServed(l)'
  PROVE  CacheInv'
<1>1. \A l \in Job : job[l] \in JobState /\ JobFine(l) /\ JobServed(l)
  BY DEF CacheInv, Typed
<1>2. \A l \in Job : JobFine(l)' /\ JobServed(l)'
  <2>. SUFFICES ASSUME NEW l \in Job PROVE JobFine(l)' /\ JobServed(l)'
    OBVIOUS
  <2>1. CASE l \in M
    BY <2>1
  <2>2. CASE l \notin M
    BY <1>1, <2>2, StaysServed
  <2>. QED BY <2>1, <2>2
<1>. QED BY <1>2 DEF CacheInv

\* The state of the pages, and of the block tables with them.
LEMMA SamePagesTrue ==
  ASSUME CacheInv, table' = table, cache' = cache
  PROVE  PagesTrue(table, cache)' /\ \A l \in Job : Undisturbed(l)
<1>1. PagesTrue(table, cache)'
  BY DEF CacheInv, PagesTrue
<1>2. \A l \in Job : Undisturbed(l)
  BY SameContentsItself DEF Undisturbed
<1>. QED BY <1>1, <1>2

LEMMA SameTablesApart ==
  ASSUME CacheInv, table' = table, \A l \in Job : job'[l].pages = job[l].pages
  PROVE  BasesApart(table, BlockTables)'
<1>1. BlockTables' = BlockTables
  BY DEF BlockTables
<1>2. BasesApart(table, BlockTables)' <=> BasesApart(table', BlockTables')
  BY DEF BasesApart
<1>. QED BY <1>1, <1>2 DEF CacheInv

\* A step that moves the jobs in M, and no page.
LEMMA QuietStep ==
  ASSUME CacheInv, BooksInv', table' = table, cache' = cache, serial' = serial,
         job' \in [Job -> JobState], todo' \subseteq Job, k' \in Nat, Turns', NEW M,
         \A l \in Job \ M : Stays(l),
         \A l \in M : JobFine(l)' /\ JobServed(l)',
         \A l \in Job : job'[l].pages = job[l].pages
  PROVE  CacheInv'
<1>1. Typed'
  BY DEF CacheInv, Typed
<1>2. PagesTrue(table, cache)' /\ \A l \in Job : Undisturbed(l)
  BY SamePagesTrue
<1>3. BasesApart(table, BlockTables)'
  BY SameTablesApart
<1>. QED BY <1>1, <1>2, <1>3, StepKeeps

-----------------------------------------------------------------------------
(* Steps that work on the job in hand.                                     *)

LEMMA HandPhase ==
  ASSUME cur \in Job, pc \in {"alloc"} \cup Sampling
  PROVE  Phase(cur) = pc /\ Turn(cur) = k
BY DEF Phase, Turn, Sampling

LEMMA OtherPhase ==
  ASSUME NEW l, l # cur
  PROVE  Phase(l) = "none" /\ Turn(l) = 0
BY DEF Phase, Turn

\* The job in hand goes on in another phase, with another record K.
LEMMA HandMoves ==
  ASSUME CacheInv, cur \in Job, pc \in {"alloc"} \cup Sampling,
         pc' \in {"alloc"} \cup Sampling, pc = "alloc" <=> pc' = "alloc",
         cur' = cur, todo' = todo,
         NEW K, job' = [job EXCEPT ![cur] = K],
         Fine(K, pc', k'), Owed(table', cache', K, pc', k', FALSE),
         pc' = "alloc" => K.fate = "go",
         K.fate = "rewound" => pc' \in {"rewind", "verify", "reject"}
  PROVE  /\ Turns'
         /\ \A l \in Job \ {cur} : Stays(l)
         /\ JobFine(cur)' /\ JobServed(cur)'
         /\ job'[cur] = K
<1>1. /\ job'[cur] = K /\ \A l \in Job \ {cur} : job'[l] = job[l]
  BY DEF CacheInv, Typed
<1>2. \A l \in Job : Phase(l)' = IF l = cur THEN pc' ELSE "none"
  BY DEF Phase, Sampling
<1>3. \A l \in Job : Turn(l)' = IF l = cur THEN k' ELSE 0
  BY <1>2 DEF Turn, Sampling
<1>4. \A l \in Job \ {cur} : Stays(l)
  <2>. SUFFICES ASSUME NEW l \in Job \ {cur} PROVE Stays(l)
    OBVIOUS
  <2>1. Phase(l) = "none" /\ Turn(l) = 0 /\ job'[l] = job[l]
    BY <1>1, OtherPhase
  <2>2. Drafted(l)' = Drafted(l)
    BY <1>1 DEF Drafted, Sampling
  <2>. QED BY <1>2, <1>3, <2>1, <2>2 DEF Stays
<1>5. Drafted(cur)' = FALSE
  BY DEF Drafted, CacheInv, Turns, Sampling
<1>6. JobFine(cur)' /\ JobServed(cur)'
  <2>1. /\ JobFine(cur)' <=> Fine(job'[cur'], Phase(cur)', Turn(cur)')
        /\ JobServed(cur)' <=>
             Owed(table', cache', job'[cur'], Phase(cur)', Turn(cur)', Drafted(cur)')
    BY DEF JobFine, JobServed
  <2>. QED BY <1>1, <1>2, <1>3, <1>5, <2>1
<1>7. Turns'
  <2>. DEFINE Ready(f, l) == f[l].stage = "active" /\ f[l].fate = "go" /\ PrefillDone(f[l])
  <2>1. ASSUME pc' \in Sampling PROVE cur \notin todo /\ \A l \in todo : Ready(job', l)
    BY <1>1, <2>1 DEF CacheInv, Turns, Typed, Sampling
  <2>2. pc' # "prefill" /\ pc' # "forward" /\ pc' # "idle" /\ pc' # "start"
    BY DEF Sampling
  <2>3. ASSUME pc' = "alloc", NEW l \in Active' PROVE job'[l].fate = "go"
    BY <1>1, <2>3 DEF CacheInv, Turns, Active, Sampling
  <2>4. ASSUME NEW l \in Active', job'[l].fate = "rewound"
        PROVE  Phase(l)' \in {"rewind", "verify", "reject"}
    <3>1. CASE l = cur
      BY <1>1, <1>2, <2>4, <3>1 DEF Active
    <3>2. CASE l # cur
      BY <1>1, <2>4, <3>2, OtherPhase DEF CacheInv, Turns, Active
    <3>. QED BY <3>1, <3>2
  <2>5. Turns' <=>
          /\ pc' = "prefill" => \A j \in todo' : job'[j].stage = "active" /\ job'[j].fate = "go"
                                                /\ ~ PrefillDone(job'[j])
          /\ pc' \in {"forward"} \cup Sampling => \A j \in todo' : Ready(job', j)
          /\ pc' \in Sampling => cur' \notin todo'
          /\ pc' = "forward" => k' <= MaxDraft
          /\ pc' \in {"idle", "start", "alloc", "forward"} => \A j \in Active' : job'[j].fate = "go"
          /\ \A j \in Active' : job'[j].fate = "rewound" => Phase(j)' \in {"rewind", "verify", "reject"}
    BY DEF Turns, Sampling, PrefillDone
  <2>. HIDE DEF Ready
  <2>. QED BY <2>1, <2>2, <2>3, <2>4, <2>5
<1>. QED BY <1>1, <1>4, <1>6, <1>7

\* It does so without touching a page.
LEMMA QuietHandStep ==
  ASSUME CacheInv, BooksInv', cur \in Job, pc \in Sampling, pc' \in Sampling,
         cur' = cur, todo' = todo, k' \in Nat,
         table' = table, cache' = cache, serial' = serial,
         NEW K \in JobState, job' = [job EXCEPT ![cur] = K], K.pages = job[cur].pages,
         Fine(K, pc', k'), Owed(table, cache, K, pc', k', FALSE),
         K.fate = "rewound" => pc' \in {"rewind", "verify", "reject"}
  PROVE  CacheInv'
<1>1. pc # "alloc" /\ pc' # "alloc"
  BY DEF Sampling
<1>2. Owed(table', cache', K, pc', k', FALSE)
  OBVIOUS
<1>3. /\ Turns'
      /\ \A l \in Job \ {cur} : Stays(l)
      /\ JobFine(cur)' /\ JobServed(cur)'
  BY <1>1, <1>2, HandMoves
<1>4. job' \in [Job -> JobState] /\ \A l \in Job : job'[l].pages = job[l].pages
  BY DEF CacheInv, Typed
<1>5. todo' \subseteq Job
  BY DEF CacheInv, Typed
<1>. DEFINE M == {cur}
<1>6. \A l \in M : JobFine(l)' /\ JobServed(l)'
  BY <1>3
<1>7. \A l \in Job \ M : Stays(l)
  BY <1>3
<1>. HIDE DEF M
<1>. QED BY <1>3, <1>4, <1>5, <1>6, <1>7, QuietStep

\* A page that changes is in no other job's block table.
LEMMA OthersUndisturbed ==
  ASSUME CacheInv, NEW j \in Job,
         \A q \in Page :
           \/ SamePage(table.page[q], table'.page[q]) /\ cache'[q] = cache[q]
           \/ table.page[q].refs = 0
           \/ \E i \in Index(job[j]) :
                /\ PageOf(job[j], i) = q
                /\ table.page[q].phash.base # 0 \/ ~ table.page[q].refs > 1
  PROVE  \A l \in Job \ {j} : Undisturbed(l)
<1>. SUFFICES ASSUME NEW l \in Job \ {j}, NEW m \in Index(job[l]),
                     NEW q, q = PageOf(job[l], m)
              PROVE  SamePage(table.page[q], table'.page[q]) /\ cache'[q] = cache[q]
  BY DEF Undisturbed, SameContents
<1>1. /\ BlockTables \in [Job -> Seq(Page)] /\ CountsMatch(table, BlockTables)
      /\ table.page \in [Page -> CachePage] /\ job \in [Job -> JobState]
      /\ BasesApart(table, BlockTables)
  BY BlockTablesType DEF CacheInv, BooksInv, Typed
<1>2. job[l] \in JobState /\ job[j] \in JobState
  BY <1>1
<1>3. m + 1 \in DOMAIN BlockTables[l] /\ BlockTables[l][m + 1] = q /\ q \in Page
  BY <1>2, PagesIndexed DEF BlockTables, PageOf
<1>4. table.page[q].refs > 0
  <2>. DEFINE f == BlockTables
              n == m + 1
  <2>1. f \in [Job -> Seq(Page)] /\ CountsMatch(table, f) /\ n \in DOMAIN f[l] /\ f[l][n] = q
    BY <1>1, <1>3
  <2>. HIDE DEF f, n
  <2>. QED BY <2>1, PlacedReferenced
<1>5. ASSUME NEW i \in Index(job[j]), PageOf(job[j], i) = q
      PROVE  table.page[q].phash.base = 0 /\ table.page[q].refs > 1
  <2>1. ASSUME table.page[q].phash.base # 0 PROVE FALSE
    <3>1. PageOf(job[j], i) = PageOf(job[l], m)
          /\ table.page[PageOf(job[j], i)].phash.base # 0
      BY <1>5, <2>1
    <3>. QED BY SMTT(30), <1>1, <3>1, Exclusive
  <2>2. i + 1 \in DOMAIN BlockTables[j] /\ BlockTables[j][i + 1] = q
    BY <1>2, <1>5, PagesIndexed DEF BlockTables, PageOf
  <2>. DEFINE x == <<j, i + 1>>
              y == <<l, m + 1>>
              S == PlacesIn(BlockTables, q)
  <2>3. x \in S /\ y \in S /\ x # y
    BY <1>3, <2>2, PlacesMember
  <2>4. IsFiniteSet(S) /\ table.page[q].refs = Cardinality(S)
    BY <1>1, <1>3 DEF CountsMatch, CountsAt
  <2>. HIDE DEF x, y, S
  <2>5. /\ IsFiniteSet(S \ {x}) /\ Cardinality(S \ {x}) = Cardinality(S) - 1
        /\ y \in S \ {x} /\ Cardinality(S) \in Nat
    BY <2>3, <2>4, FS_RemoveElement, FS_CardinalityType
  <2>6. Cardinality(S \ {x}) # 0 /\ Cardinality(S \ {x}) \in Nat
    BY <2>5, FS_EmptySet, FS_CardinalityType
  <2>. QED BY <2>1, <2>4, <2>5, <2>6
<1>6. table.page[q].refs # 0
  <2>1. table.page[q].refs \in Nat
    BY <1>1, <1>3 DEF CachePage
  <2>. QED BY <1>4, <2>1
<1>. QED BY <1>3, <1>5, <1>6

\* What is known of the job in hand.
LEMMA HandHas ==
  ASSUME CacheInv, cur \in Job, pc \in {"alloc"} \cup Sampling
  PROVE  /\ job[cur] \in JobState /\ k \in Nat
         /\ Fine(job[cur], pc, k)
         /\ Owed(table, cache, job[cur], pc, k, FALSE)
<1>1. Phase(cur) = pc /\ Turn(cur) = k
  BY HandPhase
<1>2. Drafted(cur) = FALSE
  BY DEF CacheInv, Turns, Drafted, Sampling
<1>3. JobFine(cur) /\ JobServed(cur) /\ job[cur] \in JobState /\ k \in Nat
  BY DEF CacheInv, Typed
<1>4. /\ JobFine(cur) <=> Fine(job[cur], Phase(cur), Turn(cur))
      /\ JobServed(cur) <=> Owed(table, cache, job[cur], Phase(cur), Turn(cur), Drafted(cur))
  BY DEF JobFine, JobServed
<1>. QED BY <1>1, <1>2, <1>3, <1>4

-----------------------------------------------------------------------------
(* The job in hand, where a step changes its record and no page.           *)

\* The sequences of J and K agree up to page low.
SameStart(J, K, low) ==
  \A i \in 0 .. low : SubSeq(K.ids, 1, i * PageSize) = SubSeq(J.ids, 1, i * PageSize)

LEMMA NamesMoved ==
  ASSUME NEW t, NEW J \in JobState, NEW K \in JobState, K.pages = J.pages,
         PrefillDone(J), PrefillDone(K), NEW low \in Nat, SameStart(J, K, low)
  PROVE  /\ NamesTrue(t, J, low) => NamesTrue(t, K, low)
         /\ LinksTrue(t, J, low) => LinksTrue(t, K, low)
<1>1. Index(K) = Index(J) /\ \A i : PageOf(K, i) = PageOf(J, i)
  BY DEF Index, PageOf
<1>2. \A i \in Index(J) : i < low =>
         SubSeq(K.ids, 1, (i + 1) * PageSize) = SubSeq(J.ids, 1, (i + 1) * PageSize)
  <2>1. \A i \in Index(J) : i < low => i + 1 \in 0 .. low
    BY PagesIndexed
  <2>. QED BY <2>1 DEF SameStart
<1>3. \A i \in Index(J) : i = low =>
         SubSeq(K.ids, 1, i * PageSize) = SubSeq(J.ids, 1, i * PageSize)
  <2>1. low \in 0 .. low
    OBVIOUS
  <2>2. SubSeq(K.ids, 1, low * PageSize) = SubSeq(J.ids, 1, low * PageSize)
    BY <2>1, Zenon DEF SameStart
  <2>. QED BY <2>2, Zenon
<1>4. ASSUME NamesTrue(t, J, low) PROVE NamesTrue(t, K, low)
  <2>. DEFINE hash(L, i) == t.page[PageOf(L, i)].phash
  <2>1. ASSUME NEW i \in Index(J)
        PROVE  /\ i < low =>
                    /\ hash(J, i).base = 0 => hash(J, i).toks = SubSeq(J.ids, 1, (i + 1) * PageSize)
                    /\ hash(J, i).base = 0 /\ i > 0 => hash(J, i - 1).base = 0
               /\ i >= low => hash(J, i).base # 0 /\ hash(J, i).toks = <<>>
    <3>1. i \in Index(J)
      OBVIOUS
    <3>. QED BY <1>4, <3>1, Zenon DEF NamesTrue
  <2>2. \A i : hash(K, i) = hash(J, i)
    BY <1>1
  <2>. HIDE DEF hash
  <2>3. ASSUME NEW i \in Index(K)
        PROVE  /\ i < low =>
                    /\ hash(K, i).base = 0 => hash(K, i).toks = SubSeq(K.ids, 1, (i + 1) * PageSize)
                    /\ hash(K, i).base = 0 /\ i > 0 => hash(K, i - 1).base = 0
               /\ i >= low => hash(K, i).base # 0 /\ hash(K, i).toks = <<>>
    BY <1>1, <1>2, <2>1, <2>2
  <2>. QED BY <2>3 DEF NamesTrue, hash
<1>5. ASSUME LinksTrue(t, J, low) PROVE LinksTrue(t, K, low)
  <2>1. \A i \in Index(J) :
          LET prev == t.page[PageOf(K, i)].prev IN
          i >= low /\ prev.base = 0 /\ prev # Root =>
            i = low /\ prev.toks = SubSeq(J.ids, 1, i * PageSize)
    BY <1>1, <1>5 DEF LinksTrue
  <2>. QED BY <1>1, <1>3, <2>1 DEF LinksTrue
<1>. QED BY <1>4, <1>5

LEMMA ContentMoved ==
  ASSUME NEW t, NEW c, NEW J, NEW K, K.pages = J.pages, NEW row
  PROVE  /\ ContentTrue(t, c, J, row) => ContentTrue(t, c, K, row)
         /\ \A m : FilledTo(t, J, m) => FilledTo(t, K, m)
BY DEF ContentTrue, FilledTo, Index, PageOf

LEMMA ServedMoved ==
  ASSUME NEW t, NEW c, NEW J \in JobState, NEW K \in JobState, K.pages = J.pages,
         PrefillDone(J), PrefillDone(K),
         NEW ph, NEW n, NEW d, ph # "rewind", ph # "reject", Served(t, c, J, ph, n, d),
         NEW ph2, NEW n2, NEW d2, ph2 # "rewind", ph2 # "reject",
         LowAs(J, ph) \in Nat, LowAs(K, ph2) = LowAs(J, ph),
         RowAs(K, ph2, n2, d2) = RowAs(J, ph, n, d),
         SameStart(J, K, LowAs(J, ph))
  PROVE  Served(t, c, K, ph2, n2, d2)
<1>. DEFINE low == LowAs(J, ph)
            row == RowAs(J, ph, n, d)
<1>1. /\ NamesTrue(t, J, low) /\ LinksTrue(t, J, low)
      /\ ContentTrue(t, c, J, row) /\ FilledTo(t, J, Len(row))
  BY DEF Served, MarksTrue
<1>2. LowAs(K, ph2) = low /\ RowAs(K, ph2, n2, d2) = row /\ low \in Nat /\ SameStart(J, K, low)
  OBVIOUS
<1>. HIDE DEF low, row
<1>3. NamesTrue(t, K, low) /\ LinksTrue(t, K, low)
  BY <1>1, <1>2, NamesMoved
<1>4. ContentTrue(t, c, K, row) /\ FilledTo(t, K, Len(row))
  BY <1>1, ContentMoved
<1>5. MarksTrue(t, K, ph2, n2, row)
  BY <1>4 DEF MarksTrue
<1>. QED BY <1>2, <1>3, <1>4, <1>5 DEF Served

LEMMA SameStartItself ==
  ASSUME NEW J, NEW K, K.ids = J.ids, NEW low
  PROVE  SameStart(J, K, low)
BY DEF SameStart

\* The deferred pages end where the position is.
LEMMA LowOfDeferred ==
  ASSUME NEW J \in JobState, PrefillDone(J), NEW ph, ph \notin {"rewind", "complete"}
  PROVE  LowAs(J, ph) = PageAt(J.pos) - Len(J.deferred)
BY DEF LowAs

\* What is known of a job in one of the phases of sampling.
LEMMA InHand ==
  ASSUME NEW J \in JobState, NEW ph \in Sampling, NEW n, Fine(J, ph, n)
  PROVE  /\ J.stage = "active" /\ J.fate # "cancelled" /\ PrefillDone(J)
         /\ J.pos + 1 = Len(J.ids)
         /\ ph \notin {"rewind", "reject"} /\ J.fate # "rewound" => n <= Len(J.draft)
         /\ LiveAs(J, ph) => JobOK(J, ph) /\ HandOK(J, ph, n)
         /\ ph # "none" /\ ph # "alloc"
         /\ WaitOK(J)
BY DEF Fine, HandOK, Sampling, PrefillDone

LEMMA LiveInHand ==
  ASSUME NEW J \in JobState, NEW ph \in Sampling, NEW n, Fine(J, ph, n)
  PROVE  /\ ph \in {"sample", "complete", "judge", "rewind", "flush", "verify"} => LiveAs(J, ph)
         /\ ph = "reject" => (LiveAs(J, ph) <=> J.fate # "eos")
BY JobFields DEF Fine, HandOK, LiveAs, Sampling

\* Where a job in hand is live, its numbers.
LEMMA HandNumbers ==
  ASSUME NEW J \in JobState, NEW ph \in Sampling, NEW n, Fine(J, ph, n), LiveAs(J, ph)
  PROVE  /\ J.plen \in Nat \ {0} /\ J.plen <= Len(J.ids) /\ NewTokens(J) \in Nat
         /\ J.plen + NewTokens(J) = Len(J.ids)
         /\ J.pos < Len(J.ids) /\ J.pos \in 0 .. Len(J.ids)
         /\ PageAt(J.pos) \in Nat
         /\ LowAs(J, ph) \in Nat
         /\ LowAs(J, ph) * PageSize \in Nat
         /\ LowAs(J, ph) * PageSize < Len(J.ids)
         /\ LowAs(J, ph) <= PageAt(J.pos)
<1>1. JobOK(J, ph) /\ HandOK(J, ph, n) /\ PrefillDone(J) /\ J.pos + 1 = Len(J.ids)
  BY InHand
<1>2. J.plen \in Nat /\ Len(J.ids) \in Nat /\ J.pos \in Nat
  BY JobFields
<1>3. J.plen \in 1 .. Len(J.ids)
  BY <1>1 DEF JobOK
<1>4. PageAt(J.pos) \in Nat
  BY <1>2, Located
<1>. QED BY <1>1, <1>2, <1>3, <1>4, LowBounds DEF NewTokens

LEMMA BudgetType ==
  ASSUME NEW len \in Nat, NEW limit \in Nat
  PROVE  Budget(len, limit) \in Nat /\ RqMargin \in Nat
<1>1. CeilDiv(len - 1 + RqTokens, PageSize) * PageSize \in Int
  <2>1. CeilDiv(len - 1 + RqTokens, PageSize) \in Int
    BY PageSizeAssumption, JobsAssumption DEF CeilDiv
  <2>. QED BY <2>1, PageSizeAssumption
<1>2. MaxTokens - MaxDraft \in Int
  <2>1. MaxTokens \in Nat
    BY NumPagesAssumption, PageSizeAssumption DEF MaxTokens
  <2>. QED BY <2>1, JobsAssumption
<1>. QED BY <1>1, <1>2, JobsAssumption DEF Budget, RqMargin, Smaller, Larger, Minus

\* What holds a row holds its beginnings.
LEMMA ContentCut ==
  ASSUME NEW t, NEW c, NEW J \in JobState, NEW row, ContentTrue(t, c, J, row),
         NEW n \in 0 .. Len(row)
  PROVE  ContentTrue(t, c, J, SubSeq(row, 1, n))
<1>. DEFINE cut == SubSeq(row, 1, n)
<1>1. /\ Text(row) /\ row \in Seq(Token) /\ Len(row) <= Len(J.pages) * PageSize
      /\ \A i \in Index(J), s \in Slot :
           i * PageSize + s < Len(row) =>
             /\ c[PageOf(J, i)][s] = SubSeq(row, 1, i * PageSize + s + 1)
             /\ t.page[PageOf(J, i)].toks[s] = row[i * PageSize + s + 1]
  BY DEF ContentTrue, Text
<1>2. /\ Text(cut) /\ cut \in Seq(Token) /\ Len(cut) = n /\ n <= Len(row)
      /\ \A i \in 1 .. n : cut[i] = row[i]
      /\ \A m \in 0 .. n : SubSeq(cut, 1, m) = SubSeq(row, 1, m)
  BY <1>1, TextPrefix, Prefix, PrefixOfPrefix
<1>3. Len(cut) <= Len(J.pages) * PageSize
  <2>1. Len(J.pages) * PageSize \in Nat
    BY JobFields, Multiples
  <2>. QED BY <1>1, <1>2, <2>1
<1>. HIDE DEF cut
<1>4. ASSUME NEW i \in Index(J), NEW s \in Slot, i * PageSize + s < Len(cut)
      PROVE  /\ c[PageOf(J, i)][s] = SubSeq(cut, 1, i * PageSize + s + 1)
             /\ t.page[PageOf(J, i)].toks[s] = cut[i * PageSize + s + 1]
  <2>1. i * PageSize \in Nat /\ s \in Nat
    <3>1. i \in Nat
      BY PagesIndexed
    <3>2. i * PageSize \in Nat
      BY <3>1, Multiples
    <3>. QED BY <3>2 DEF Slot
  <2>. DEFINE d == i * PageSize
  <2>2. /\ d + s < Len(row) =>
             /\ c[PageOf(J, i)][s] = SubSeq(row, 1, d + s + 1)
             /\ t.page[PageOf(J, i)].toks[s] = row[d + s + 1]
        /\ d + s < Len(cut)
    BY <1>1, <1>4
  <2>3. d \in Nat
    BY <2>1
  <2>. HIDE DEF d
  <2>4. d + s + 1 \in 1 .. n /\ d + s + 1 \in 0 .. n /\ d + s < Len(row)
    BY <1>2, <2>1, <2>2, <2>3
  <2>5. /\ c[PageOf(J, i)][s] = SubSeq(cut, 1, d + s + 1)
        /\ t.page[PageOf(J, i)].toks[s] = cut[d + s + 1]
    BY <1>2, <2>2, <2>4
  <2>. QED BY <2>5 DEF d
<1>. QED BY <1>2, <1>3, <1>4 DEF ContentTrue, cut

\* K is J but for its fate and its checkpoint.
SameJob(J, K) ==
  /\ K.stage = J.stage /\ K.ids = J.ids /\ K.plen = J.plen /\ K.limit = J.limit
  /\ K.pos = J.pos /\ K.pages = J.pages /\ K.deferred = J.deferred /\ K.draft = J.draft

LEMMA SameJobFacts ==
  ASSUME NEW J, NEW K, SameJob(J, K)
  PROVE  /\ PrefillDone(K) <=> PrefillDone(J)
         /\ NewTokens(K) = NewTokens(J)
         /\ Fits(K) <=> Fits(J)
         /\ AtLimit(K) <=> AtLimit(J)
         /\ RequeueNow(K) <=> RequeueNow(J)
         /\ Deferrals(K) <=> Deferrals(J)
         /\ \A back : Reaches(K, back) <=> Reaches(J, back)
         /\ \A ph : LowAs(K, ph) = LowAs(J, ph)
         /\ Settled(K) = Settled(J) /\ \A n : Rest(K, n) = Rest(J, n)
<1>1. /\ PrefillDone(K) <=> PrefillDone(J)
      /\ NewTokens(K) = NewTokens(J)
      /\ Settled(K) = Settled(J) /\ \A n : Rest(K, n) = Rest(J, n)
  BY DEF SameJob, PrefillDone, NewTokens, Settled, Rest
<1>2. /\ Fits(K) <=> Fits(J)
      /\ AtLimit(K) <=> AtLimit(J)
      /\ RequeueNow(K) <=> RequeueNow(J)
  BY <1>1 DEF SameJob, Fits, AtLimit, RequeueNow
<1>3. /\ Deferrals(K) <=> Deferrals(J)
      /\ \A back : Reaches(K, back) <=> Reaches(J, back)
  BY <1>1 DEF SameJob, Deferrals, Reaches
<1>4. \A ph : LowAs(K, ph) = LowAs(J, ph)
  BY <1>1 DEF SameJob, LowAs
<1>. QED BY <1>1, <1>2, <1>3, <1>4

\* The judged job goes on, or ends.
LEMMA JudgedOn ==
  ASSUME NEW t, NEW c, NEW J \in JobState, NEW K \in JobState, NEW n \in Nat,
         Fine(J, "judge", n), Served(t, c, J, "judge", n, FALSE), SameJob(J, K),
         NEW ph \in {"flush", "verify"}, K.fate \in {"go", "eos", "requeue"},
         ph = "verify" => K.fate = "go", K.fate = "go" => Fits(K),
         K.fate = "requeue" => NewTokens(K) < K.limit,
         ~ Holding(K) => K.deferred = <<>>,
         Holding(K) /\ ph = "verify" => Reaches(K, K.offset)
  PROVE  Fine(K, ph, n) /\ Owed(t, c, K, ph, n, FALSE)
<1>1. /\ "judge" \in Sampling /\ ph \in Sampling /\ LiveAs(J, "judge")
      /\ J.stage = "active" /\ PrefillDone(J) /\ n <= Len(J.draft)
      /\ JobOK(J, "judge") /\ WaitOK(J) /\ J.fate = "go"
  BY InHand, LiveInHand DEF Sampling, Fine, HandOK
<1>2. /\ K.stage = "active" /\ PrefillDone(K) /\ n <= Len(K.draft)
      /\ K.plen = J.plen /\ K.ids = J.ids /\ K.limit = J.limit /\ K.pages = J.pages
      /\ LowAs(K, ph) = LowAs(J, ph)
      /\ Deferrals(K) <=> Deferrals(J)
  BY <1>1, SameJobFacts DEF SameJob
<1>3. JobOK(K, ph)
  BY <1>1, <1>2 DEF JobOK
<1>4. WaitOK(K)
  BY <1>1, <1>2 DEF WaitOK, JobOK
<1>5. HandOK(K, ph, n)
  BY <1>2 DEF HandOK
<1>6. Served(t, c, K, ph, n, FALSE)
  <2>1. LowAs(J, ph) = LowAs(J, "judge")
    BY <1>1, LowOfDeferred
  <2>2. RowAs(K, ph, n, FALSE) = RowAs(J, "judge", n, FALSE)
    BY SameJobFacts DEF RowAs
  <2>3. LowAs(J, "judge") \in Nat
    BY <1>1, HandNumbers
  <2>4. SameStart(J, K, LowAs(J, "judge"))
    BY <1>2, SameStartItself
  <2>. QED BY <1>1, <1>2, <2>1, <2>2, <2>3, <2>4, ServedMoved
<1>. QED BY <1>3, <1>4, <1>5, <1>6 DEF Fine, Owed

\* Going back less far reaches no page more.
LEMMA ReachesLess ==
  ASSUME NEW J \in JobState, NEW back \in Nat, NEW less \in 0 .. back, Reaches(J, back),
         PrefillDone(J), J.plen \in 1 .. Len(J.ids)
  PROVE  Reaches(J, less)
<1>1. J.pos \in Nat /\ J.plen \in Nat /\ Len(J.ids) \in Nat /\ J.pos + 1 = Len(J.ids)
  BY JobFields DEF PrefillDone
<1>2. back <= NewTokens(J) /\ NewTokens(J) = Len(J.ids) - J.plen
  BY DEF Reaches, NewTokens
<1>3. J.pos - back \in Nat /\ J.pos - less \in Nat /\ J.pos - back <= J.pos - less
  BY SMTT(30), <1>1, <1>2
<1>4. PageAt(J.pos - back) <= PageAt(J.pos - less)
  BY <1>3, PageAtMonotone
<1>5. PageAt(J.pos) \in Nat /\ PageAt(J.pos - back) \in Nat /\ PageAt(J.pos - less) \in Nat
      /\ Len(J.deferred) \in Nat
  BY <1>1, <1>3, Located, JobFields
<1>6. less <= NewTokens(J)
  BY <1>1, <1>2
<1>. QED BY <1>4, <1>5, <1>6 DEF Reaches

LEMMA JudgeSteps ==
  ASSUME CacheInv, BooksInv', JudgeEos \/ JudgeRequeue \/ JudgeEmit \/ JudgeIncomplete
  PROVE  CacheInv'
<1>. DEFINE J == job[cur]
<1>1. /\ cur \in Job /\ pc = "judge" /\ "judge" \in Sampling
      /\ J \in JobState /\ k \in Nat /\ Fine(J, "judge", k)
      /\ Owed(table, cache, J, "judge", k, FALSE)
  <2>1. pc = "judge" /\ cur \in Job /\ pc \in Sampling
    BY DEF CacheInv, BooksInv, JobInHand, JudgeEos, JudgeRequeue, JudgeEmit, JudgeIncomplete,
           Sampling
  <2>. QED BY <2>1, HandHas
<1>2. Fine(J, "judge", k) /\ LiveAs(J, "judge")
  BY <1>1, LiveInHand
<1>3. Served(table, cache, J, "judge", k, FALSE)
  BY <1>1, <1>2 DEF Owed
<1>4. /\ JobOK(J, "judge") /\ J.plen \in 1 .. Len(J.ids) /\ PrefillDone(J)
      /\ J.limit \in Nat /\ NewTokens(J) \in Nat /\ J.fate = "go"
    <2>. HIDE DEF J
  <2>1. JobOK(J, "judge") /\ PrefillDone(J)
    BY <1>1, <1>2, InHand
  <2>2. J.limit \in Nat /\ NewTokens(J) \in Nat
    BY <1>1, <1>2, JobFields, HandNumbers
  <2>3. J.plen \in 1 .. Len(J.ids) /\ J.fate = "go"
    BY <1>2, <2>1 DEF JobOK, Fine, HandOK
  <2>. QED BY <2>1, <2>2, <2>3
<1>5. /\ ~ AtLimit(J) => NewTokens(J) < J.limit
      /\ ~ AtLimit(J) /\ ~ RequeueNow(J) => Fits(J)
  <2>. HIDE DEF J
  <2>1. J.plen \in Nat /\ J.limit \in Nat
    BY <1>1, JobFields
  <2>2. Budget(J.plen, J.limit) \in Nat /\ RqMargin \in Nat
    BY <2>1, BudgetType
  <2>. QED BY <1>4, <2>2 DEF AtLimit, RequeueNow, Fits
<1>6. UNCHANGED <<table, cache, serial>> /\ cur' = cur /\ todo' = todo /\ k' = k
  BY DEF JudgeEos, JudgeRequeue, JudgeEmit, JudgeIncomplete
<1>a. ASSUME NEW K \in JobState, SameJob(J, K), job' = [job EXCEPT ![cur] = K],
             pc' \in {"flush", "verify"}, K.fate \in {"go", "eos", "requeue"},
             Fine(K, pc', k) /\ Owed(table, cache, K, pc', k, FALSE)
      PROVE  CacheInv'
  <2>1. pc' \in Sampling /\ pc \in Sampling /\ k' \in Nat /\ K.pages = J.pages
        /\ Fine(K, pc', k') /\ Owed(table, cache, K, pc', k', FALSE)
    BY <1>1, <1>6, <1>a DEF SameJob, Sampling
  <2>2. K.fate # "rewound"
    BY <1>a
  <2>. HIDE DEF J
  <2>3. K.pages = job[cur].pages
    BY <2>1 DEF J
  <2>. QED BY <1>1, <1>6, <1>a, <2>1, <2>2, <2>3, QuietHandStep
<1>. HIDE DEF J
<1>b. ~ Holding(J) => J.deferred = <<>>
  BY <1>4 DEF JobOK
<1>7. CASE JudgeEos
  <2>. DEFINE K == [J EXCEPT !.fate = "eos"]
  <2>1. /\ K \in JobState /\ SameJob(J, K) /\ K.fate = "eos" /\ K.offset = J.offset
        /\ job' = [job EXCEPT ![cur] = K] /\ pc' = "flush"
    BY <1>1, <1>7 DEF JudgeEos, J, JobState, SameJob
  <2>. HIDE DEF K
  <2>2. ~ Holding(K) => K.deferred = <<>>
    BY <1>b, <2>1 DEF Holding, SameJob
  <2>3. Fine(K, "flush", k) /\ Owed(table, cache, K, "flush", k, FALSE)
    BY <1>1, <1>2, <1>3, <2>1, <2>2, JudgedOn
  <2>. QED BY <1>a, <2>1, <2>3
<1>8. CASE JudgeRequeue
  <2>. DEFINE K == [J EXCEPT !.fate = "requeue"]
  <2>1. /\ K \in JobState /\ SameJob(J, K) /\ K.fate = "requeue" /\ K.offset = J.offset
        /\ job' = [job EXCEPT ![cur] = K] /\ pc' = "flush" /\ ~ AtLimit(J)
    BY <1>1, <1>8 DEF JudgeRequeue, J, JobState, SameJob
  <2>. HIDE DEF K
  <2>2. ~ Holding(K) => K.deferred = <<>>
    BY <1>b, <2>1 DEF Holding, SameJob
  <2>3. NewTokens(K) < K.limit
    BY <1>5, <2>1, SameJobFacts DEF SameJob
  <2>4. Fine(K, "flush", k) /\ Owed(table, cache, K, "flush", k, FALSE)
    BY <1>1, <1>2, <1>3, <2>1, <2>2, <2>3, JudgedOn
  <2>. QED BY <1>a, <2>1, <2>4
<1>9. CASE JudgeEmit \/ JudgeIncomplete
  <2>1. /\ ~ AtLimit(J) /\ ~ RequeueNow(J) /\ pc' \in {"flush", "verify"} /\ job' = job
    BY <1>9 DEF JudgeEmit, JudgeIncomplete, J
  <2>2. SameJob(J, J) /\ job' = [job EXCEPT ![cur] = J] /\ Fits(J)
    BY <1>1, <1>5, <2>1 DEF SameJob, J, CacheInv, Typed
  <2>3. Holding(J) => Reaches(J, J.offset)
    <3>1. ASSUME Holding(J) PROVE Reaches(J, J.offset)
      <4>1. J.offset \in Nat /\ J.offset + 1 \in Nat /\ J.offset \in 0 .. J.offset + 1
        BY <1>1, <3>1, HoldingOffset
      <4>2. Reaches(J, J.offset + 1)
        BY <1>4, <3>1 DEF JobOK
      <4>. QED BY <1>1, <1>4, <4>1, <4>2, ReachesLess
    <3>. QED BY <3>1
  <2>4. J.fate \in {"go", "eos", "requeue"} /\ J.fate = "go" /\ J.fate # "requeue"
    BY <1>4
  <2>5. ASSUME NEW ph \in {"flush", "verify"}
        PROVE  Fine(J, ph, k) /\ Owed(table, cache, J, ph, k, FALSE)
    <3>1. SameJob(J, J) /\ Fits(J)
      BY <2>2
    <3>2. Fine(J, "judge", k) /\ Served(table, cache, J, "judge", k, FALSE)
          /\ J \in JobState /\ k \in Nat
      BY <1>1, <1>3
    <3>. QED BY ONLY <1>b, <2>3, <2>4, <2>5, <3>1, <3>2, JudgedOn
  <2>. QED BY <1>1, <1>4, <1>a, <2>1, <2>2, <2>5
<1>. QED BY <1>7, <1>8, <1>9

-----------------------------------------------------------------------------
(* Banned strings: holding tokens, and taking them back.                   *)

LEMMA CheckpointedJob ==
  ASSUME NEW J \in JobState, Len(J.ids) >= 1, ~ Holding(J) => J.deferred = <<>>
  PROVE  LET K == Checkpointed(J) IN
         /\ K \in JobState /\ SameJob(J, K) /\ K.fate = J.fate
         /\ K.offset = IF Holding(J) THEN J.offset + 1 ELSE 1
         /\ K.offset \in Nat \ {0}
         /\ Holding(K)
<1>. DEFINE K == Checkpointed(J)
            t == J.ids[Len(J.ids)]
<1>1. t \in Token /\ J.explored \in SUBSET Token
  BY JobFields
<1>2. None \notin Nat
  BY NoneAssumption
<1>3. Holding(J) <=> J.offset \in Nat \ {0}
  BY HoldingOffset
<1>4. CASE J.offset = None
  <2>1. K = [J EXCEPT !.offset = 1, !.explored = {t}, !.deferred = <<>>]
    BY <1>2, <1>4 DEF Checkpointed
  <2>2. J.deferred = <<>> /\ ~ Holding(J)
    BY <1>4 DEF Holding
  <2>. HIDE DEF K, t
  <2>3. /\ K \in JobState /\ K.offset = 1 /\ K.deferred = J.deferred
        /\ SameJob(J, K) /\ K.fate = J.fate
    BY <1>1, <2>1, <2>2 DEF JobState, SameJob
  <2>. QED BY <1>2, <2>2, <2>3, HoldingOffset DEF K
<1>5. CASE J.offset = 0
  <2>1. K = [J EXCEPT !.offset = 1, !.explored = @ \cup {t}]
    BY <1>2, <1>5 DEF Checkpointed
  <2>2. ~ Holding(J)
    BY <1>5 DEF Holding
  <2>. HIDE DEF K, t
  <2>3. K \in JobState /\ K.offset = 1 /\ SameJob(J, K) /\ K.fate = J.fate
    BY <1>1, <2>1 DEF JobState, SameJob
  <2>. QED BY <1>2, <2>2, <2>3, HoldingOffset DEF K
<1>6. CASE J.offset \notin {0, None}
  <2>1. K = [J EXCEPT !.offset = @ + 1]
    BY <1>6 DEF Checkpointed
  <2>2. Holding(J) /\ J.offset \in Nat /\ J.offset + 1 \in Nat \ {0}
    BY <1>3, <1>6 DEF Holding
  <2>. HIDE DEF K
  <2>3. K \in JobState /\ K.offset = J.offset + 1 /\ SameJob(J, K) /\ K.fate = J.fate
    BY <2>1, <2>2 DEF JobState, SameJob
  <2>4. Holding(K)
    BY <2>2, <2>3, HoldingOffset
  <2>. QED BY <2>2, <2>3, <2>4 DEF K
<1>. QED BY <1>4, <1>5, <1>6

\* Whatever is held can be taken back without touching a page that is final.
LEMMA CheckpointReaches ==
  ASSUME HoldsInside, NEW J \in JobState, NEW n \in Nat, Fine(J, "judge", n), MayBan(J)
  PROVE  LET K == Checkpointed(J) IN
         /\ K \in JobState /\ SameJob(J, K) /\ K.fate = "go"
         /\ K.offset \in Nat \ {0} /\ Holding(K)
         /\ Fits(J) /\ Reaches(J, K.offset)
<1>1. /\ LiveAs(J, "judge") /\ JobOK(J, "judge") /\ HandOK(J, "judge", n)
      /\ J.pos + 1 = Len(J.ids) /\ J.pos \in Nat /\ PrefillDone(J)
      /\ J.plen \in 1 .. Len(J.ids) /\ NewTokens(J) \in Nat /\ J.limit \in Nat
      /\ J.fate = "go"
  <2>1. "judge" \in Sampling
    BY DEF Sampling
  <2>2. LiveAs(J, "judge")
    BY <2>1, LiveInHand
  <2>3. JobOK(J, "judge") /\ HandOK(J, "judge", n) /\ J.pos + 1 = Len(J.ids) /\ PrefillDone(J)
    BY <2>1, <2>2, InHand
  <2>4. NewTokens(J) \in Nat /\ J.limit \in Nat /\ J.pos \in Nat
    BY <2>1, <2>2, HandNumbers, JobFields
  <2>. QED BY <2>2, <2>3, <2>4 DEF JobOK, HandOK
<1>. DEFINE K == Checkpointed(J)
<1>2. ~ Holding(J) => J.deferred = <<>>
  BY <1>1 DEF JobOK
<1>3. /\ K \in JobState /\ SameJob(J, K) /\ K.fate = "go"
      /\ K.offset = IF Holding(J) THEN J.offset + 1 ELSE 1
      /\ K.offset \in Nat \ {0} /\ Holding(K)
  <2>1. Len(J.ids) >= 1
    BY <1>1
  <2>. QED BY <1>1, <1>2, <2>1, CheckpointedJob
<1>4. Fits(J)
  <2>1. ~ AtLimit(J) /\ ~ RequeueNow(J)
    BY DEF MayBan
  <2>2. J.plen \in Nat
    BY <1>1
  <2>3. Budget(J.plen, J.limit) \in Nat /\ RqMargin \in Nat
    BY <1>1, <2>2, BudgetType
  <2>. QED BY <1>1, <2>1, <2>3 DEF AtLimit, RequeueNow, Fits
<1>. HIDE DEF K
<1>5. Reaches(J, K.offset)
  <2>1. CASE Holding(J)
    BY <1>1, <1>3, <2>1 DEF JobOK
  <2>2. CASE ~ Holding(J)
    <3>1. J.pos % PageSize # 0
      BY <2>2 DEF MayBan, HoldsInside, Holding
    <3>2. K.offset = 1 /\ NewTokens(J) >= 1 /\ J.deferred = <<>>
      BY <1>1, <1>2, <1>3, <2>2 DEF HandOK, Sampling
    <3>3. J.pos # 0
      BY <3>1, PageSizeAssumption
    <3>. DEFINE q == J.pos - 1
    <3>4. q \in Nat /\ q + 1 = J.pos
      BY <1>1, <3>3
    <3>. HIDE DEF q
    <3>5. PageAt(J.pos) = PageAt(q) /\ PageAt(q) \in Nat
      BY <3>1, <3>4, NextPosition, Located
    <3>6. J.pos - K.offset = q
      BY <1>1, <3>2, <3>4
    <3>7. PageAt(J.pos - K.offset) = PageAt(q)
      BY <3>6
    <3>8. Len(J.deferred) = 0
      BY <3>2
    <3>. QED BY <3>2, <3>5, <3>7, <3>8 DEF Reaches
  <2>. QED BY <2>1, <2>2
<1>. QED BY <1>3, <1>4, <1>5 DEF K

LEMMA JudgeHoldStep ==
  ASSUME HoldsInside, CacheInv, BooksInv', JudgeHold
  PROVE  CacheInv'
<1>. DEFINE J == job[cur]
            K == Checkpointed(J)
<1>1. /\ cur \in Job /\ pc = "judge" /\ pc \in Sampling /\ pc' \in Sampling /\ pc' = "verify"
      /\ job' = [job EXCEPT ![cur] = K] /\ MayBan(J)
      /\ UNCHANGED <<table, cache, serial>> /\ cur' = cur /\ todo' = todo /\ k' = k
  BY DEF CacheInv, BooksInv, JobInHand, JudgeHold, Sampling, Typed
<1>2. /\ J \in JobState /\ k \in Nat /\ Fine(J, "judge", k)
      /\ Owed(table, cache, J, "judge", k, FALSE)
  BY <1>1, HandHas
<1>3. Served(table, cache, J, "judge", k, FALSE)
  <2>1. LiveAs(J, "judge")
    BY <1>1, <1>2, LiveInHand
  <2>. QED BY <1>2, <2>1 DEF Owed
<1>. HIDE DEF J
<1>4. /\ K \in JobState /\ SameJob(J, K) /\ K.fate = "go"
      /\ Holding(K) /\ Fits(J) /\ Reaches(J, K.offset)
  BY <1>1, <1>2, CheckpointReaches
<1>. HIDE DEF K
<1>5. Fits(K) /\ Reaches(K, K.offset)
  BY <1>4, SameJobFacts
<1>6. Fine(K, "verify", k) /\ Owed(table, cache, K, "verify", k, FALSE)
  BY ONLY <1>2, <1>3, <1>4, <1>5, JudgedOn
<1>7. K.pages = job[cur].pages
  BY <1>4 DEF SameJob, J
<1>. QED BY <1>1, <1>2, <1>4, <1>6, <1>7, QuietHandStep

\* What is cut off a sequence that is rewound.
LEMMA CutBack ==
  ASSUME NEW t, NEW c, NEW J \in JobState, NEW n \in Nat, Fine(J, "judge", n),
         Served(t, c, J, "judge", n, FALSE), Fits(J),
         NEW back \in Nat \ {0}, Reaches(J, back),
         NEW K \in JobState, K.stage = J.stage, K.plen = J.plen, K.limit = J.limit,
         K.pages = J.pages, K.fate = "rewound", K.offset = back,
         K.pos = J.pos - back, K.ids = SubSeq(J.ids, 1, Len(J.ids) - back)
  PROVE  /\ Fine(K, "rewind", PageAt(K.pos))
         /\ Owed(t, c, K, "rewind", PageAt(K.pos), FALSE)
<1>1. /\ LiveAs(J, "judge") /\ JobOK(J, "judge") /\ J.stage = "active"
      /\ J.pos + 1 = Len(J.ids) /\ PrefillDone(J)
  <2>1. "judge" \in Sampling
    BY DEF Sampling
  <2>. QED BY <2>1, LiveInHand, InHand
<1>2. /\ J.plen \in Nat \ {0} /\ NewTokens(J) \in Nat /\ J.plen + NewTokens(J) = Len(J.ids)
      /\ J.pos \in Nat /\ Len(J.ids) \in Nat /\ J.limit \in Nat /\ J.ids \in Seq(Token)
      /\ LowAs(J, "judge") \in Nat /\ LowAs(J, "judge") <= PageAt(J.pos)
      /\ PageAt(J.pos) \in Nat /\ LowAs(J, "judge") * PageSize < Len(J.ids)
  <2>1. "judge" \in Sampling
    BY DEF Sampling
  <2>. QED BY <1>1, <2>1, HandNumbers, JobFields
<1>0. /\ back \in Nat /\ back # 0 /\ K.pos = J.pos - back
      /\ K.ids = SubSeq(J.ids, 1, Len(J.ids) - back) /\ K.plen = J.plen
  OBVIOUS
<1>3. back <= NewTokens(J) /\ LowAs(J, "judge") <= PageAt(K.pos)
  BY <1>1, LowOfDeferred DEF Reaches
<1>4. /\ K.pos \in Nat /\ Len(J.ids) - back \in 1 .. Len(J.ids) /\ K.pos <= J.pos
      /\ J.plen \in 1 .. Len(J.ids) - back
  <2>1. /\ J.pos + 1 = Len(J.ids) /\ J.plen + NewTokens(J) = Len(J.ids) /\ back <= NewTokens(J)
        /\ K.pos = J.pos - back
        /\ back \in Nat /\ back # 0 /\ J.plen \in Nat /\ J.plen # 0 /\ NewTokens(J) \in Nat
        /\ J.pos \in Nat /\ Len(J.ids) \in Nat
    BY ONLY <1>0, <1>1, <1>2, <1>3, Zenon
  <2>2. J.pos - back \in Nat /\ J.pos - back <= J.pos
    BY ONLY <2>1
  <2>3. Len(J.ids) - back \in 1 .. Len(J.ids) /\ J.plen \in 1 .. Len(J.ids) - back
    BY ONLY SMTT(30), <2>1
  <2>. QED BY ONLY <2>1, <2>2, <2>3
<1>5. /\ Len(K.ids) = Len(J.ids) - back /\ K.ids \in Seq(Token)
      /\ \A m \in 0 .. Len(K.ids) : SubSeq(K.ids, 1, m) = SubSeq(J.ids, 1, m)
  <2>1. Len(J.ids) - back \in 0 .. Len(J.ids)
    <3>1. Len(J.ids) \in Nat /\ Len(J.ids) - back \in 1 .. Len(J.ids)
      BY ONLY <1>2, <1>4
    <3>. QED BY ONLY <3>1
  <2>. DEFINE m == Len(J.ids) - back
              x == J.ids
  <2>2. m \in 0 .. Len(x) /\ x \in Seq(Token) /\ K.ids = SubSeq(x, 1, m)
    BY ONLY <1>0, <1>2, <2>1
  <2>. HIDE DEF m, x
  <2>3. /\ Len(K.ids) = m /\ K.ids \in Seq(Token)
        /\ \A i \in 0 .. Len(K.ids) : SubSeq(K.ids, 1, i) = SubSeq(x, 1, i)
    BY ONLY <2>2, Prefix, PrefixOfPrefix
  <2>. QED BY ONLY <2>3 DEF m, x
<1>6. PrefillDone(K) /\ K.pos < Len(K.ids) /\ NewTokens(K) = NewTokens(J) - back
  <2>1. /\ J.pos + 1 = Len(J.ids) /\ K.pos = J.pos - back /\ Len(K.ids) = Len(J.ids) - back
        /\ back \in Nat /\ J.plen \in Nat /\ K.plen = J.plen
        /\ J.pos \in Nat /\ Len(J.ids) \in Nat
    BY ONLY <1>0, <1>1, <1>2, <1>5, Zenon
  <2>2. K.pos + 1 = Len(K.ids) /\ K.pos < Len(K.ids)
    BY ONLY <2>1
  <2>3. Len(K.ids) - K.plen = (Len(J.ids) - J.plen) - back
    BY ONLY <2>1
  <2>. QED BY ONLY <2>2, <2>3 DEF PrefillDone, NewTokens
<1>7. Fits(K)
  <2>1. Budget(J.plen, J.limit) \in Nat /\ RqMargin \in Nat
    BY <1>2, BudgetType
  <2>2. /\ NewTokens(J) < J.limit /\ NewTokens(J) + RqMargin <= Budget(J.plen, J.limit)
        /\ K.plen = J.plen /\ K.limit = J.limit
        /\ NewTokens(J) \in Nat /\ J.limit \in Nat
    BY <1>2 DEF Fits
  <2>3. NewTokens(K) < J.limit /\ NewTokens(K) + RqMargin <= Budget(J.plen, J.limit)
    BY ONLY <1>0, <1>6, <2>1, <2>2
  <2>. QED BY ONLY <2>2, <2>3 DEF Fits
<1>8. Holding(K)
  BY HoldingOffset
<1>a. PageAt(K.pos) \in Nat /\ PageAt(K.pos) * PageSize <= K.pos
  BY <1>4, Located
<1>9. JobOK(K, "rewind")
  <2>1. Opens(Bos, K.ids)
    BY <1>1, <1>2, <1>4, OpensCut DEF JobOK
  <2>. QED BY <1>1, <1>4, <1>5, <1>6, <1>7, <1>8, <2>1 DEF JobOK
<1>10. WaitOK(K) /\ HandOK(K, "rewind", PageAt(K.pos))
  BY <1>1, <1>6, <1>a DEF WaitOK, HandOK
<1>. DEFINE low == LowAs(J, "judge")
            row == RowAs(J, "judge", n, FALSE)
            deep == PageAt(K.pos)
            cut == Settled(K)
<1>11. /\ NamesTrue(t, J, low) /\ LinksTrue(t, J, low)
       /\ ContentTrue(t, c, J, row) /\ FilledTo(t, J, Len(row))
  BY <1>1 DEF Served, MarksTrue
<1>12. LowAs(K, "rewind") = deep /\ RowAs(K, "rewind", deep, FALSE) = cut
  BY <1>6 DEF LowAs, RowAs
<1>13. /\ row \in Seq(Token) /\ Len(row) \in Nat /\ J.pos <= Len(row)
       /\ \A m \in 0 .. J.pos : SubSeq(row, 1, m) = SubSeq(J.ids, 1, m)
  <2>1. J.pos < Len(J.ids) /\ FALSE \in BOOLEAN
    BY <1>1, <1>2
  <2>. QED BY ZenonT(30), <2>1, RowFacts
<1>14. cut = SubSeq(row, 1, K.pos) /\ K.pos \in 0 .. Len(row)
  <2>1. K.pos \in 0 .. Len(K.ids) /\ K.pos \in 0 .. J.pos
    BY ONLY SMTT(30), <1>2, <1>4, <1>5, <1>6
  <2>2. /\ SubSeq(K.ids, 1, K.pos) = SubSeq(J.ids, 1, K.pos)
        /\ SubSeq(row, 1, K.pos) = SubSeq(J.ids, 1, K.pos)
    BY ONLY <1>5, <1>13, <2>1
  <2>3. K.pos \in 0 .. Len(row)
    <3>1. /\ Len(row) \in Nat /\ J.pos \in Nat /\ K.pos \in Nat
          /\ J.pos <= Len(row) /\ K.pos <= J.pos
      BY ONLY <1>2, <1>4, <1>13, Zenon
    <3>. HIDE DEF row
    <3>. QED BY ONLY <3>1
  <2>4. cut = SubSeq(K.ids, 1, K.pos)
    BY DEF Settled, cut
  <2>. QED BY ONLY <2>2, <2>3, <2>4
<1>15. low \in Nat /\ deep \in Nat /\ low <= deep
       /\ \A i \in Nat : i <= deep => i * PageSize \in 0 .. Len(K.ids)
  <2>1. ASSUME NEW i \in Nat, i <= deep PROVE i * PageSize \in 0 .. Len(K.ids)
    <3>1. i * PageSize <= K.pos /\ i * PageSize \in Nat
      BY <1>4, <2>1, PageBounds, Multiples
    <3>2. Len(K.ids) \in Nat
      BY <1>5
    <3>. QED BY <1>4, <1>6, <3>1, <3>2
  <2>. QED BY <1>2, <1>3, <1>a, <2>1
<1>. HIDE DEF low, row, deep, cut
<1>16. Index(K) = Index(J) /\ \A i : PageOf(K, i) = PageOf(J, i)
  BY DEF Index, PageOf
<1>17. NamesTrue(t, K, deep)
  <2>. SUFFICES ASSUME NEW i \in Index(J), NEW h, h = t.page[PageOf(J, i)].phash
                PROVE  /\ i < deep =>
                            /\ h.base = 0 => h.toks = SubSeq(K.ids, 1, (i + 1) * PageSize)
                            /\ h.base = 0 /\ i > 0 => t.page[PageOf(J, i - 1)].phash.base = 0
                       /\ i >= deep => h.base # 0 /\ h.toks = <<>>
    BY ZenonT(30), <1>6, <1>16 DEF NamesTrue
  <2>1. i \in Nat /\ i + 1 \in Nat
    BY PagesIndexed
  <2>2. /\ i < low => /\ h.base = 0 => h.toks = SubSeq(J.ids, 1, (i + 1) * PageSize)
                      /\ h.base = 0 /\ i > 0 => t.page[PageOf(J, i - 1)].phash.base = 0
        /\ i >= low => h.base # 0 /\ h.toks = <<>>
    BY <1>11, Zenon DEF NamesTrue
  <2>3. i < low => SubSeq(K.ids, 1, (i + 1) * PageSize) = SubSeq(J.ids, 1, (i + 1) * PageSize)
    <3>1. ASSUME i < low PROVE (i + 1) * PageSize \in 0 .. Len(K.ids)
      <4>1. i + 1 <= deep
        BY ONLY <1>15, <2>1, <3>1
      <4>. QED BY ONLY <1>15, <2>1, <4>1
    <3>. QED BY ONLY <1>5, <3>1
  <2>5. i < low \/ i >= low
    BY ONLY <1>15, <2>1
  <2>6. i >= deep => i >= low
    BY ONLY <1>15, <2>1
  <2>. QED BY ONLY <2>2, <2>3, <2>5, <2>6, Zenon
<1>18. LinksTrue(t, K, deep)
  <2>. SUFFICES ASSUME NEW i \in Index(J), i >= deep,
                       NEW prev, prev = t.page[PageOf(J, i)].prev, prev.base = 0, prev # Root
                PROVE  i = deep /\ prev.toks = SubSeq(K.ids, 1, i * PageSize)
    BY <1>16 DEF LinksTrue
  <2>1. i \in Nat /\ i >= low
    BY <1>15, PagesIndexed
  <2>2. i = low /\ prev.toks = SubSeq(J.ids, 1, i * PageSize)
    BY <1>11, <2>1, Zenon DEF LinksTrue
  <2>3. i = deep
    BY <1>15, <2>1, <2>2
  <2>4. i * PageSize \in 0 .. Len(K.ids)
    BY <1>15, <2>1, <2>3
  <2>. QED BY <1>5, <2>2, <2>3, <2>4
<1>19. ContentTrue(t, c, K, cut)
  <2>1. ContentTrue(t, c, J, cut)
    BY <1>11, <1>13, <1>14, ContentCut
  <2>. QED BY <2>1, ContentMoved
<1>20. MarksTrue(t, K, "rewind", deep, cut)
  <2>1. \A i \in Index(K) : t.page[PageOf(K, i)].kv = FillMark(Len(row), i)
    BY <1>11, <1>16 DEF FilledTo
  <2>2. ASSUME NEW i \in Index(K), i < deep PROVE FillMark(K.pos, i) = FillMark(Len(row), i)
    <3>1. i \in Nat /\ (i + 1) \in Nat /\ i + 1 <= deep
      BY SMTT(30), <1>15, <2>2, PagesIndexed
    <3>2. (i + 1) * PageSize <= K.pos
      BY <1>4, <3>1, PageBounds DEF deep
    <3>3. (i + 1) * PageSize <= Len(row)
      <4>1. (i + 1) * PageSize \in Nat
        BY <3>1, Multiples
      <4>. QED BY ONLY <1>4, <1>13, <1>14, <3>2, <4>1
    <3>4. FillMark(K.pos, i) = PageSize /\ FillMark(Len(row), i) = PageSize
      BY <1>4, <1>13, <3>1, <3>2, <3>3, FillMarks
    <3>. QED BY <3>4
  <2>3. \A i \in Index(K) :
          t.page[PageOf(K, i)].kv = FillMark(IF i < deep THEN K.pos ELSE Len(row), i)
    BY <2>1, <2>2
  <2>4. Len(row) \in Nat /\ K.pos <= Len(row)
    BY <1>13, <1>14
  <2>. QED BY <1>6, <2>3, <2>4 DEF MarksTrue
<1>21. Served(t, c, K, "rewind", deep, FALSE)
  BY <1>12, <1>17, <1>18, <1>19, <1>20 DEF Served
<1>. QED BY <1>9, <1>10, <1>21 DEF Fine, Owed, deep

LEMMA JudgeMatchStep ==
  ASSUME HoldsInside, CacheInv, BooksInv', JudgeMatch
  PROVE  CacheInv'
<1>. DEFINE J == job[cur]
            C == Checkpointed(J)
            pos == C.pos - C.offset
            K == [C EXCEPT !.pos = pos, !.ids = SubSeq(@, 1, Len(@) - C.offset),
                           !.fate = "rewound"]
<1>1. /\ cur \in Job /\ pc = "judge" /\ pc \in Sampling /\ pc' \in Sampling /\ pc' = "rewind"
      /\ job' = [job EXCEPT ![cur] = K] /\ MayBan(J) /\ k' = PageAt(pos)
      /\ UNCHANGED <<table, cache, serial>> /\ cur' = cur /\ todo' = todo
  BY DEF CacheInv, BooksInv, JobInHand, JudgeMatch, Sampling, Typed
<1>2. /\ J \in JobState /\ k \in Nat /\ Fine(J, "judge", k)
      /\ Owed(table, cache, J, "judge", k, FALSE)
  BY <1>1, HandHas
<1>3. Served(table, cache, J, "judge", k, FALSE)
  <2>1. LiveAs(J, "judge")
    BY <1>1, <1>2, LiveInHand
  <2>. QED BY <1>2, <2>1 DEF Owed
<1>. HIDE DEF J
<1>4. /\ C \in JobState /\ SameJob(J, C) /\ C.fate = "go" /\ C.offset \in Nat \ {0}
      /\ Holding(C) /\ Fits(J) /\ Reaches(J, C.offset)
  BY <1>1, <1>2, CheckpointReaches
<1>. HIDE DEF C
<1>5. /\ J.plen \in Nat \ {0} /\ NewTokens(J) \in Nat /\ J.plen + NewTokens(J) = Len(J.ids)
      /\ J.pos + 1 = Len(J.ids) /\ J.pos \in Nat /\ J.ids \in Seq(Token)
  <2>1. "judge" \in Sampling
    BY DEF Sampling
  <2>. QED BY <1>2, <2>1, LiveInHand, HandNumbers, InHand, JobFields
<1>6. pos \in Nat /\ pos = J.pos - C.offset
  <2>1. C.pos = J.pos /\ C.offset <= NewTokens(J) /\ C.offset \in Nat
    BY <1>4 DEF SameJob, Reaches
  <2>. QED BY ONLY <1>5, <2>1
<1>7. SubSeq(C.ids, 1, Len(C.ids) - C.offset) \in Seq(Token)
  <2>1. C.ids \in Seq(Token) /\ C.offset \in Nat
    BY <1>4, JobFields
  <2>. QED BY ONLY <2>1
<1>. HIDE DEF pos
<1>8. K \in JobState
  BY <1>4, <1>6, <1>7 DEF JobState
<1>9. /\ K.stage = J.stage /\ K.plen = J.plen /\ K.limit = J.limit
      /\ K.pages = J.pages /\ K.fate = "rewound" /\ K.offset = C.offset
      /\ K.pos = pos /\ K.pos = J.pos - C.offset
      /\ K.ids = SubSeq(J.ids, 1, Len(J.ids) - C.offset)
  BY <1>4, <1>6 DEF SameJob, JobState
<1>. HIDE DEF K
<1>10. Fine(K, "rewind", PageAt(K.pos)) /\ Owed(table, cache, K, "rewind", PageAt(K.pos), FALSE)
  BY ONLY <1>2, <1>3, <1>4, <1>8, <1>9, CutBack
<1>11. k' = PageAt(K.pos) /\ k' \in Nat /\ K.pages = job[cur].pages
  BY <1>1, <1>6, <1>9, Located DEF J
<1>12. Fine(K, pc', k') /\ Owed(table, cache, K, pc', k', FALSE)
  BY <1>1, <1>10, <1>11
<1>13. K.fate = "rewound" => pc' \in {"rewind", "verify", "reject"}
  BY <1>1
<1>. QED BY <1>1, <1>8, <1>11, <1>12, <1>13, QuietHandStep

-----------------------------------------------------------------------------
(* Steps that change pages of the job in hand.                             *)

LEMMA HandStep ==
  ASSUME CacheInv, BooksInv', cur \in Job, pc \in Sampling, pc' \in Sampling,
         cur' = cur, todo' = todo, k' \in Nat, cache' = cache, serial' = serial,
         PagesTyped(table'),
         NEW K \in JobState, job' = [job EXCEPT ![cur] = K],
         Fine(K, pc', k'), Owed(table', cache, K, pc', k', FALSE),
         K.fate = "rewound" => pc' \in {"rewind", "verify", "reject"},
         PagesTrue(table', cache), BasesApart(table, BlockTables)',
         \A l \in Job \ {cur} : Undisturbed(l)
  PROVE  CacheInv'
<1>1. pc # "alloc" /\ pc' # "alloc"
  BY DEF Sampling
<1>2. Owed(table', cache', K, pc', k', FALSE)
  OBVIOUS
<1>3. /\ Turns'
      /\ \A l \in Job \ {cur} : Stays(l)
      /\ JobFine(cur)' /\ JobServed(cur)'
  BY <1>1, <1>2, HandMoves
<1>4. Typed'
  BY DEF CacheInv, Typed, PagesTyped
<1>5. PagesTrue(table, cache)'
  BY DEF PagesTrue
<1>. DEFINE M == {cur}
<1>6. \A l \in M : JobFine(l)' /\ JobServed(l)'
  BY <1>3
<1>7. \A l \in Job \ M : Stays(l) /\ Undisturbed(l)
  BY <1>3
<1>. HIDE DEF M
<1>. QED BY <1>3, <1>4, <1>5, <1>6, <1>7, StepKeeps

LEMMA SameHashesApart ==
  ASSUME CacheInv, \A q \in Page : table'.page[q].phash = table.page[q].phash,
         \A l \in Job : job'[l].pages = job[l].pages
  PROVE  BasesApart(table, BlockTables)'
<1>1. BlockTables' = BlockTables
  BY DEF BlockTables
<1>2. BasesApart(table, BlockTables)' <=> BasesApart(table', BlockTables')
  BY DEF BasesApart
<1>3. /\ BasesApart(table, BlockTables)
      /\ \A j \in Job : \A i \in DOMAIN BlockTables[j] : BlockTables[j][i] \in Page
  <2>1. BlockTables \in [Job -> Seq(Page)]
    BY SMTT(30), BlockTablesType DEF CacheInv, BooksInv
  <2>. QED BY <2>1 DEF CacheInv
<1>4. BasesApart(table', BlockTables)
  <2>. DEFINE f == BlockTables
  <2>1. \A j \in Job : \A i \in DOMAIN f[j] :
          table'.page[f[j][i]].phash = table.page[f[j][i]].phash
    BY <1>3
  <2>2. BasesApart(table, f)
    BY <1>3
  <2>. HIDE DEF f
  <2>3. ASSUME NEW j \in Job, NEW l \in Job, NEW i \in DOMAIN f[j], NEW m \in DOMAIN f[l]
        PROVE  LET g == table'.page[f[j][i]].phash
                   h == table'.page[f[l][m]].phash
               IN g.base = h.base /\ g.base # 0 => j = l /\ (i < m => Len(g.toks) < Len(h.toks))
    <3>1. /\ table'.page[f[j][i]].phash = table.page[f[j][i]].phash
          /\ table'.page[f[l][m]].phash = table.page[f[l][m]].phash
      BY <2>1
    <3>2. LET g == table.page[f[j][i]].phash
              h == table.page[f[l][m]].phash
          IN g.base = h.base /\ g.base # 0 => j = l /\ (i < m => Len(g.toks) < Len(h.toks))
      BY ONLY <2>2, Zenon DEF BasesApart
    <3>. QED BY ONLY <3>1, <3>2
  <2>. QED BY <2>3 DEF BasesApart, f
<1>. QED BY <1>1, <1>2, <1>4

\* Pages that follow others' hashes no longer are still what the job is owed.
LEMMA LinkedServed ==
  ASSUME NEW t, NEW u, NEW c, NEW J \in JobState,
         \A i \in Index(J) :
           /\ SameButLink(t.page[PageOf(J, i)], u.page[PageOf(J, i)])
           /\ \/ u.page[PageOf(J, i)].prev = t.page[PageOf(J, i)].prev
              \/ u.page[PageOf(J, i)].prev.base # 0,
         NEW ph, NEW n, NEW drafted, Served(t, c, J, ph, n, drafted)
  PROVE  Served(u, c, J, ph, n, drafted)
<1>. DEFINE low == LowAs(J, ph)
            row == RowAs(J, ph, n, drafted)
<1>1. /\ NamesTrue(t, J, low) /\ LinksTrue(t, J, low)
      /\ ContentTrue(t, c, J, row) /\ MarksTrue(t, J, ph, n, row)
  BY DEF Served
<1>. HIDE DEF low, row
<1>2. \A i \in Index(J) : i \in Nat /\ (i > 0 => i - 1 \in Index(J))
  BY JobFields DEF Index
<1>3. \A i \in Index(J) :
        /\ u.page[PageOf(J, i)].phash = t.page[PageOf(J, i)].phash
        /\ u.page[PageOf(J, i)].kv = t.page[PageOf(J, i)].kv
        /\ u.page[PageOf(J, i)].toks = t.page[PageOf(J, i)].toks
  BY DEF SameButLink
<1>4. NamesTrue(u, J, low)
  BY <1>1, <1>2, <1>3 DEF NamesTrue
<1>5. LinksTrue(u, J, low)
  BY <1>1 DEF LinksTrue
<1>6. ContentTrue(u, c, J, row)
  BY <1>1, <1>3, Zenon DEF ContentTrue
<1>7. MarksTrue(u, J, ph, n, row)
  BY <1>1, <1>3, Zenon DEF MarksTrue, FilledTo, Complete
<1>. QED BY <1>4, <1>5, <1>6, <1>7 DEF Served, low, row

-----------------------------------------------------------------------------
(* A sampled token is accepted.                                            *)

\* The record it leaves, K, of a job J.
AcceptedTo(J, t, K) ==
  /\ K.stage = J.stage /\ K.plen = J.plen /\ K.limit = J.limit /\ K.pages = J.pages
  /\ K.draft = J.draft /\ K.fate = J.fate /\ K.offset = J.offset
  /\ K.ids = Append(J.ids, t) /\ K.pos = J.pos + 1
  /\ K.deferred = IF K.pos % PageSize = 0 /\ Holding(J)
                  THEN Append(J.deferred, PageAt(K.pos) - 1) ELSE J.deferred

LEMMA AcceptedDeferrals ==
  ASSUME NEW J \in JobState, PrefillDone(J), Deferrals(J), ~ Holding(J) => J.deferred = <<>>,
         NEW t, NEW K \in JobState, AcceptedTo(J, t, K)
  PROVE  /\ Deferrals(K)
         /\ IF K.pos % PageSize = 0 /\ ~ Holding(J)
            THEN PageAt(K.pos) - 1 = PageAt(J.pos) - Len(J.deferred)
            ELSE PageAt(K.pos) - Len(K.deferred) = PageAt(J.pos) - Len(J.deferred)
         /\ PageAt(J.pos) \in Nat /\ PageAt(K.pos) \in Nat
         /\ K.pos % PageSize = 0 => PageAt(K.pos) - 1 = PageAt(J.pos)
<1>1. /\ J.pos \in Nat /\ K.pos = J.pos + 1 /\ J.deferred \in Seq(Nat) /\ Len(J.deferred) \in Nat
      /\ PageAt(J.pos) \in Nat /\ PageAt(K.pos) \in Nat
  BY JobFields, Located DEF AcceptedTo
<1>2. /\ K.pos % PageSize = 0 => PageAt(K.pos) = PageAt(J.pos) + 1
      /\ K.pos % PageSize # 0 => PageAt(K.pos) = PageAt(J.pos)
  BY <1>1, NextPosition
<1>. DEFINE p == PageAt(J.pos)
            x == J.deferred
<1>3. Len(x) <= p /\ \A m \in DOMAIN x : x[m] = p - Len(x) + m - 1
  BY DEF Deferrals
<1>4. CASE K.pos % PageSize # 0
  BY <1>1, <1>2, <1>4 DEF AcceptedTo, Deferrals
<1>5. CASE K.pos % PageSize = 0 /\ ~ Holding(J)
  <2>1. K.deferred = <<>> /\ x = <<>> /\ PageAt(K.pos) = p + 1
    BY <1>2, <1>5 DEF AcceptedTo
  <2>. HIDE DEF p, x
  <2>. QED BY <1>1, <1>5, <2>1 DEF Deferrals, p, x
<1>6. CASE K.pos % PageSize = 0 /\ Holding(J)
  <2>1. K.deferred = Append(x, p) /\ PageAt(K.pos) = p + 1 /\ x \in Seq(Nat) /\ p \in Nat
        /\ Len(x) \in Nat
    BY <1>1, <1>2, <1>6 DEF AcceptedTo
  <2>. HIDE DEF p, x
  <2>2. /\ Len(K.deferred) = Len(x) + 1
        /\ \A m \in DOMAIN K.deferred :
             K.deferred[m] = IF m <= Len(x) THEN x[m] ELSE p
    BY ONLY <2>1
  <2>3. \A m \in DOMAIN K.deferred : m \in Nat /\ m >= 1 /\ m <= Len(x) + 1
                                     /\ (m <= Len(x) => m \in DOMAIN x)
    BY ONLY <2>1
  <2>4. \A m \in DOMAIN K.deferred : K.deferred[m] = (p + 1) - (Len(x) + 1) + m - 1
    <3>. SUFFICES ASSUME NEW m \in DOMAIN K.deferred
                  PROVE  K.deferred[m] = (p + 1) - (Len(x) + 1) + m - 1
      OBVIOUS
    <3>1. m \in Nat /\ m >= 1 /\ m <= Len(x) + 1
      BY <2>3
    <3>2. CASE m <= Len(x)
      <4>1. K.deferred[m] = p - Len(x) + m - 1
        BY <1>3, <2>2, <2>3, <3>2
      <4>. QED BY ONLY <2>1, <3>1, <4>1
    <3>3. CASE ~ (m <= Len(x))
      <4>1. K.deferred[m] = p /\ m = Len(x) + 1
        BY <2>1, <2>2, <3>1, <3>3
      <4>. QED BY ONLY <2>1, <3>1, <4>1
    <3>. QED BY <3>2, <3>3
  <2>5. Deferrals(K)
    <3>1. Len(K.deferred) <= PageAt(K.pos)
      BY ONLY <1>3, <2>1, <2>2
    <3>2. \A m \in DOMAIN K.deferred :
             K.deferred[m] = PageAt(K.pos) - Len(K.deferred) + m - 1
      BY ONLY <2>1, <2>2, <2>4
    <3>. QED BY <3>1, <3>2 DEF Deferrals
  <2>6. PageAt(K.pos) - Len(K.deferred) = p - Len(x) /\ PageAt(K.pos) - 1 = p
    BY ONLY <2>1, <2>2
  <2>. QED BY ONLY <1>1, <1>6, <2>5, <2>6 DEF p, x
<1>. QED BY <1>1, <1>2, <1>4, <1>5, <1>6

\* The accepted token goes to the place in the pages the draft, or no one, had.
LEMMA AcceptedJob ==
  ASSUME PromptsOpen, NEW t, NEW c, NEW J \in JobState, NEW n \in Nat,
         Fine(J, "sample", n), Served(t, c, J, "sample", n, FALSE),
         NEW tok \in Sampled, NEW K \in JobState, AcceptedTo(J, tok, K),
         NEW ph \in {"complete", "judge"},
         ph = "complete" <=> K.pos % PageSize = 0 /\ ~ Holding(J)
  PROVE  Fine(K, ph, n) /\ Served(t, c, K, ph, n, FALSE)
<1>1. /\ "sample" \in Sampling /\ ph \in Sampling /\ LiveAs(J, "sample")
      /\ J.stage = "active" /\ PrefillDone(J) /\ J.pos + 1 = Len(J.ids)
      /\ JobOK(J, "sample") /\ HandOK(J, "sample", n)
  <2>1. "sample" \in Sampling /\ ph \in Sampling
    BY DEF Sampling
  <2>. QED BY <2>1, LiveInHand, InHand
<1>2. /\ J.fate = "go" /\ n <= Len(J.draft)
  BY <1>1 DEF HandOK
<1>3. /\ J.plen \in Nat \ {0} /\ J.plen <= Len(J.ids) /\ NewTokens(J) \in Nat
      /\ J.pos \in Nat /\ Len(J.ids) \in Nat /\ J.ids \in Seq(Token)
      /\ LowAs(J, "sample") \in Nat /\ LowAs(J, "sample") * PageSize \in Nat
      /\ LowAs(J, "sample") * PageSize < Len(J.ids)
  BY <1>1, HandNumbers, JobFields
<1>4. /\ K.stage = J.stage /\ K.plen = J.plen /\ K.limit = J.limit /\ K.pages = J.pages
      /\ K.draft = J.draft /\ K.fate = J.fate /\ K.offset = J.offset
      /\ K.ids = Append(J.ids, tok) /\ K.pos = J.pos + 1
      /\ Holding(K) <=> Holding(J)
  BY DEF AcceptedTo, Holding
<1>5. /\ Append(J.ids, tok) \in Seq(Token) /\ Opens(Bos, K.ids)
      /\ Len(K.ids) = Len(J.ids) + 1
      /\ \A m \in 0 .. Len(J.ids) : SubSeq(K.ids, 1, m) = SubSeq(J.ids, 1, m)
  <2>1. Opens(Bos, J.ids)
    BY <1>1 DEF JobOK
  <2>2. Append(J.ids, tok) \in Seq(Token) /\ Opens(Bos, Append(J.ids, tok))
    BY <1>3, <2>1, OpensOn
  <2>3. tok \in Token
    BY JobsAssumption
  <2>. DEFINE x == J.ids
              y == Append(x, tok)
  <2>4. x \in Seq(Token) /\ y \in Seq(Token) /\ Len(y) = Len(x) + 1
        /\ \A i \in 1 .. Len(x) : y[i] = x[i]
    BY <1>3, <2>2, <2>3
  <2>. HIDE DEF x, y
  <2>5. \A m \in 0 .. Len(x) : SubSeq(y, 1, m) = SubSeq(x, 1, m)
    <3>. SUFFICES ASSUME NEW m \in 0 .. Len(x) PROVE SubSeq(y, 1, m) = SubSeq(x, 1, m)
      OBVIOUS
    <3>1. m <= Len(y) /\ \A i \in 1 .. m : y[i] = x[i]
      BY <2>4
    <3>2. SubSeq(x, 1, m) = SubSeq(y, 1, m)
      BY ONLY <2>4, <3>1, SamePrefix
    <3>. QED BY <3>2
  <2>6. K.ids = y /\ x = J.ids
    BY <1>4 DEF x, y
  <2>. QED BY <2>2, <2>4, <2>5, <2>6, <1>4
<1>6. PrefillDone(K) /\ NewTokens(K) = NewTokens(J) + 1
  <2>1. Len(K.ids) - K.plen = (Len(J.ids) - J.plen) + 1 /\ K.pos + 1 = Len(K.ids)
    BY ONLY <1>1, <1>3, <1>4, <1>5
  <2>. QED BY <2>1 DEF PrefillDone, NewTokens
<1>7. ~ Holding(J) => J.deferred = <<>>
  BY <1>1 DEF JobOK
<1>8. /\ Deferrals(K)
      /\ IF K.pos % PageSize = 0 /\ ~ Holding(J)
         THEN PageAt(K.pos) - 1 = PageAt(J.pos) - Len(J.deferred)
         ELSE PageAt(K.pos) - Len(K.deferred) = PageAt(J.pos) - Len(J.deferred)
  <2>1. Deferrals(J)
    BY <1>1 DEF JobOK
  <2>. QED BY <1>1, <1>7, <2>1, AcceptedDeferrals
<1>9. ~ Holding(K) => K.deferred = <<>>
  BY <1>4, <1>7 DEF AcceptedTo
<1>10. LowAs(K, ph) = LowAs(J, "sample")
  <2>1. LowAs(J, "sample") = PageAt(J.pos) - Len(J.deferred)
    BY <1>1, LowOfDeferred
  <2>2. LowAs(K, ph) = IF ph = "complete" THEN PageAt(K.pos) - 1
                       ELSE PageAt(K.pos) - Len(K.deferred)
    BY <1>6 DEF LowAs
  <2>. QED BY <1>8, <2>1, <2>2
<1>11. Holding(K) /\ ph = "judge" => Reaches(K, K.offset + 1)
  <2>. SUFFICES ASSUME Holding(K), ph = "judge" PROVE Reaches(K, K.offset + 1)
    OBVIOUS
  <2>1. /\ J.offset \in Nat /\ Reaches(J, J.offset)
    BY <1>1, <1>4, HoldingOffset DEF JobOK
  <2>2. J.offset <= NewTokens(J)
        /\ PageAt(J.pos) - Len(J.deferred) <= PageAt(J.pos - J.offset)
    BY <2>1 DEF Reaches
  <2>3. K.pos - (K.offset + 1) = J.pos - J.offset
    BY ONLY SMTT(30), <1>3, <1>4, <2>1
  <2>4. PageAt(K.pos) - Len(K.deferred) <= PageAt(K.pos - (K.offset + 1))
    BY <1>8, <2>2, <2>3, <1>4
  <2>5. K.offset + 1 <= NewTokens(K)
    BY ONLY <1>3, <1>4, <1>6, <2>1, <2>2
  <2>. QED BY <2>4, <2>5 DEF Reaches
<1>12. JobOK(K, ph)
  <2>1. K.plen \in 1 .. Len(K.ids)
    BY ONLY <1>3, <1>4, <1>5
  <2>2. Len(K.pages) = TotalPages(K.plen, K.limit)
    BY <1>1, <1>4 DEF JobOK
  <2>. QED BY <1>4, <1>5, <1>6, <1>8, <1>9, <1>11, <2>1, <2>2 DEF JobOK
<1>13. HandOK(K, ph, n) /\ WaitOK(K)
  <2>1. NewTokens(K) >= 1 /\ K.pos > 0
    BY ONLY <1>3, <1>4, <1>6
  <2>. QED BY <1>1, <1>2, <1>4, <1>6, <2>1 DEF HandOK, WaitOK
<1>14. RowAs(K, ph, n, FALSE) = RowAs(J, "sample", n, FALSE)
  <2>1. Settled(K) = J.ids
    <3>1. K.pos = Len(J.ids) /\ SubSeq(K.ids, 1, Len(J.ids)) = SubSeq(J.ids, 1, Len(J.ids))
      BY ONLY <1>1, <1>3, <1>4, <1>5
    <3>2. SubSeq(J.ids, 1, Len(J.ids)) = J.ids
      BY <1>3, WholePrefix
    <3>. QED BY <3>1, <3>2 DEF Settled
  <2>2. Rest(K, n) = Rest(J, n)
    BY <1>4 DEF Rest
  <2>. QED BY <2>1, <2>2 DEF RowAs
<1>15. SameStart(J, K, LowAs(J, "sample"))
  <2>. DEFINE low == LowAs(J, "sample")
  <2>1. low \in Nat /\ low * PageSize < Len(J.ids) /\ low * PageSize \in Nat
    BY <1>3
  <2>. HIDE DEF low
  <2>2. ASSUME NEW i \in 0 .. low PROVE i * PageSize \in 0 .. Len(J.ids)
    <3>1. i \in Nat /\ (i < low \/ i = low)
      BY <2>1
    <3>2. i * PageSize \in Nat
      BY <3>1, Multiples
    <3>3. i < low => i * PageSize + PageSize <= low * PageSize
      BY <2>1, <3>1, Monotone
    <3>4. i * PageSize <= low * PageSize
      BY <2>1, <3>1, <3>2, <3>3, PageSizeAssumption
    <3>. QED BY ONLY <1>3, <2>1, <3>2, <3>4
  <2>. QED BY <1>5, <2>2 DEF SameStart, low
<1>16. Served(t, c, K, ph, n, FALSE)
  BY <1>1, <1>3, <1>4, <1>6, <1>10, <1>14, <1>15, ServedMoved
<1>. QED BY <1>12, <1>13, <1>16 DEF Fine

LEMMA AcceptStep ==
  ASSUME PromptsOpen, CacheInv, BooksInv', NEW tok \in Sampled, Accept(tok)
  PROVE  CacheInv'
<1>. DEFINE J == job[cur]
            L == [J EXCEPT !.ids = Append(@, tok), !.pos = @ + 1]
            ends == L.pos % PageSize = 0
            i == DonePage(L)
            K == IF ends /\ Holding(L) THEN [L EXCEPT !.deferred = Append(@, i)] ELSE L
            h == table.page[L.pages[i + 1]].phash
            ph == IF ends /\ ~ Holding(L) THEN "complete" ELSE "judge"
<1>1. /\ cur \in Job /\ pc = "sample" /\ "sample" \in Sampling /\ pc \in Sampling
      /\ ph \in Sampling /\ pc' = ph /\ ph \in {"complete", "judge"}
      /\ job' = [job EXCEPT ![cur] = K]
      /\ table' = IF ends /\ Holding(L) THEN Linked(table, L, i, h) ELSE table
      /\ UNCHANGED <<cache, serial>> /\ cur' = cur /\ todo' = todo /\ k' = k
  BY DEF CacheInv, BooksInv, JobInHand, Accept, Sampling
<1>2. /\ J \in JobState /\ k \in Nat /\ Fine(J, "sample", k)
      /\ Owed(table, cache, J, "sample", k, FALSE)
  BY <1>1, HandHas
<1>3. Served(table, cache, J, "sample", k, FALSE) /\ LiveAs(J, "sample") /\ PrefillDone(J)
      /\ J.fate = "go"
  <2>1. LiveAs(J, "sample") /\ PrefillDone(J)
    BY <1>1, <1>2, LiveInHand, InHand
  <2>2. J.fate = "go"
    BY <1>2 DEF Fine, HandOK
  <2>. QED BY <1>2, <2>1, <2>2 DEF Owed
<1>. HIDE DEF J
<1>4. /\ L \in JobState /\ L.pages = J.pages /\ L.pos = J.pos + 1
      /\ L.ids = Append(J.ids, tok) /\ L.stage = J.stage /\ L.plen = J.plen
      /\ L.limit = J.limit /\ L.draft = J.draft /\ L.fate = J.fate /\ L.offset = J.offset
      /\ L.deferred = J.deferred
  <2>1. tok \in Token
    BY JobsAssumption
  <2>2. Append(J.ids, tok) \in Seq(Token) /\ J.pos + 1 \in Nat
    BY <1>2, <2>1, JobFields
  <2>. QED BY <1>2, <2>2 DEF JobState
<1>. HIDE DEF L
<1>5. Holding(L) <=> Holding(J)
  BY <1>4 DEF Holding
<1>6. /\ i = PageAt(L.pos) - 1 /\ PageAt(J.pos) \in Nat
      /\ ends => i = PageAt(J.pos)
      /\ J.pos \in Nat
  <2>1. J.pos \in Nat
    BY <1>2, JobFields
  <2>2. PageAt(J.pos) \in Nat /\ (ends => PageAt(L.pos) = PageAt(J.pos) + 1)
    BY <1>4, <2>1, Located, NextPosition
  <2>. QED BY <2>1, <2>2 DEF DonePage
<1>. HIDE DEF i, ends
<1>7. K \in JobState /\ AcceptedTo(J, tok, K)
  <2>1. CASE ends /\ Holding(L)
    <3>1. i \in Nat
      BY <1>6, <2>1
    <3>2. Append(L.deferred, i) \in Seq(Nat)
      BY <1>4, <3>1, JobFields
    <3>3. K = [L EXCEPT !.deferred = Append(@, i)]
      BY <2>1
    <3>. HIDE DEF K
    <3>4. /\ K \in JobState /\ K.pages = L.pages /\ K.pos = L.pos
          /\ K.ids = L.ids /\ K.stage = L.stage /\ K.plen = L.plen
          /\ K.limit = L.limit /\ K.draft = L.draft /\ K.fate = L.fate /\ K.offset = L.offset
          /\ K.deferred = Append(L.deferred, i)
      BY <1>4, <3>2, <3>3 DEF JobState
    <3>. QED BY <1>4, <1>5, <1>6, <2>1, <3>4 DEF AcceptedTo, ends
  <2>2. CASE ~ (ends /\ Holding(L))
    <3>1. K = L
      BY <2>2
    <3>. HIDE DEF K
    <3>. QED BY <1>4, <1>5, <2>2, <3>1 DEF AcceptedTo, ends
  <2>. QED BY <2>1, <2>2
<1>8. ph = "complete" <=> K.pos % PageSize = 0 /\ ~ Holding(J)
  <2>1. K.pos = L.pos
    BY <1>4, <1>7 DEF AcceptedTo
  <2>. QED BY <1>5, <2>1 DEF ends
<1>. HIDE DEF K, ph
<1>9. Fine(K, ph, k) /\ Served(table, cache, K, ph, k, FALSE)
  BY ONLY PromptsOpen, <1>1, <1>2, <1>3, <1>7, <1>8, AcceptedJob
<1>10. K.pages = J.pages /\ K.fate = "go"
  BY <1>3, <1>7 DEF AcceptedTo
<1>11. \A l \in Job : job'[l].pages = job[l].pages
  BY <1>1, <1>10 DEF CacheInv, Typed, J
<1>12. /\ PagesTyped(table) /\ BasesApart(table, BlockTables) /\ PagesTrue(table, cache)
       /\ job \in [Job -> JobState]
  BY DEF CacheInv, Typed, BooksInv, Sound, PagesTyped
<1>13. CASE ~ (ends /\ Holding(L))
  <2>1. table' = table
    BY <1>1, <1>13
  <2>2. Owed(table, cache, K, ph, k, FALSE)
    BY <1>9 DEF Owed
  <2>3. K.pages = job[cur].pages
    BY <1>10 DEF J
  <2>4. K.fate = "rewound" => pc' \in {"rewind", "verify", "reject"}
    BY <1>10
  <2>5. k' \in Nat /\ pc' \in Sampling /\ Fine(K, pc', k') /\ Owed(table, cache, K, pc', k', FALSE)
    BY <1>1, <1>2, <1>9, <2>2
  <2>. QED BY <1>1, <1>7, <2>1, <2>3, <2>4, <2>5, QuietHandStep
<1>14. CASE ends /\ Holding(L)
  <2>1. table' = Linked(table, L, i, h) /\ i = PageAt(J.pos) /\ i \in Nat
    BY <1>1, <1>6, <1>14
  <2>2. /\ LowAs(J, "sample") \in Nat /\ LowAs(J, "sample") <= PageAt(J.pos)
        /\ J.pos < Len(J.ids) /\ J.ids \in Seq(Token)
    BY <1>1, <1>2, <1>3, HandNumbers, JobFields
  <2>3. NamesTrue(table, J, LowAs(J, "sample"))
    BY <1>3 DEF Served
  <2>4. \A m \in Index(J) : m >= i => table.page[PageOf(J, m)].phash.base # 0
    <3>. SUFFICES ASSUME NEW m \in Index(J), m >= i
                  PROVE  table.page[PageOf(J, m)].phash.base # 0
      OBVIOUS
    <3>1. m \in Nat /\ m >= LowAs(J, "sample")
      BY <1>2, <2>1, <2>2, PagesIndexed
    <3>. QED BY <2>3, <3>1 DEF NamesTrue
  <2>5. i \in Index(J)
    <3>1. J.pos < Len(J.pages) * PageSize
      <4>1. JobOK(J, "sample") /\ Fits(J)
        BY <1>1, <1>2, <1>3, InHand DEF JobOK
      <4>2. J.pos + 1 + MaxDraft <= Len(J.pages) * PageSize /\ Len(J.pages) * PageSize \in Nat
        BY <1>2, <1>3, <4>1, WindowFits
      <4>3. MaxDraft \in Nat /\ J.pos \in Nat
        BY <1>6, JobsAssumption
      <4>. QED BY ONLY <4>2, <4>3
    <3>2. Len(J.pages) \in Nat
      BY <1>2, JobFields
    <3>3. PageAt(J.pos) < Len(J.pages)
      BY <1>6, <3>1, <3>2, PageBounds
    <3>. QED BY <1>2, <2>1, <3>3, PagesIndexed
  <2>6. /\ h = table.page[PageOf(J, i)].phash /\ h \in Hash /\ h.base # 0
    <3>1. h = table.page[PageOf(J, i)].phash
      BY <1>4 DEF PageOf
    <3>2. PageOf(J, i) \in Page
      BY <1>2, <2>5, PagesIndexed
    <3>3. i >= i
      BY <2>1
    <3>. QED BY <1>12, <2>4, <2>5, <3>1, <3>2, <3>3, RecordFields
  <2>. HIDE DEF h
  <2>7. Index(L) = Index(J) /\ \A m : PageOf(L, m) = PageOf(J, m)
    BY SMTT(30), <1>4 DEF Index, PageOf
  <2>8. /\ PagesTyped(table')
        /\ \A q \in Page :
              /\ SameButLink(table.page[q], table'.page[q])
              /\ table'.page[q].saved = table.page[q].saved
              /\ table'.page[q].prev = IF i + 1 \in Index(L) /\ q = PageOf(L, i + 1)
                                       THEN h ELSE table.page[q].prev
    BY SMTT(30), <1>4, <1>12, <2>1, <2>6, LinkedPages
  <2>9. PagesTrue(table', cache)
    <3>. SUFFICES ASSUME NEW q \in Page PROVE TruePage(table'.page[q], cache[q])
      BY DEF PagesTrue
    <3>1. TruePage(table.page[q], cache[q])
      BY <1>12 DEF PagesTrue
    <3>2. /\ table'.page[q].phash = table.page[q].phash /\ table'.page[q].kv = table.page[q].kv
          /\ table'.page[q].toks = table.page[q].toks
          /\ table'.page[q].saved = table.page[q].saved
          /\ table'.page[q].prev.base = 0 => table'.page[q].prev \in {table.page[q].prev, Root}
      BY <2>6, <2>8 DEF SameButLink
    <3>. HIDE DEF i, ends
    <3>. DEFINE r == table.page[q]
                s == table'.page[q]
    <3>3. Truth(r.phash, r.prev, r.kv, r.toks, cache[q])
      BY <3>1 DEF TruePage
    <3>4. s.phash.base = 0 => s.phash = r.phash
      BY <3>2
    <3>5. Truth(s.phash, s.prev, r.kv, r.toks, cache[q])
      BY <3>2, <3>3, <3>4, TruthRenamed
    <3>. QED BY <3>1, <3>2, <3>5 DEF TruePage, Identified
  <2>10. Served(table', cache, K, ph, k, FALSE)
    <3>1. Index(K) = Index(J) /\ \A m : PageOf(K, m) = PageOf(J, m)
      BY <1>10 DEF Index, PageOf
    <3>2. \A m \in Index(K) :
            /\ SameButLink(table.page[PageOf(K, m)], table'.page[PageOf(K, m)])
            /\ \/ table'.page[PageOf(K, m)].prev = table.page[PageOf(K, m)].prev
               \/ table'.page[PageOf(K, m)].prev.base # 0
      <4>. SUFFICES ASSUME NEW m \in Index(K)
                    PROVE /\ SameButLink(table.page[PageOf(K, m)], table'.page[PageOf(K, m)])
                          /\ \/ table'.page[PageOf(K, m)].prev = table.page[PageOf(K, m)].prev
                             \/ table'.page[PageOf(K, m)].prev.base # 0
        OBVIOUS
      <4>1. PageOf(K, m) \in Page
        BY <1>7, PagesIndexed
      <4>. QED BY <2>6, <2>8, <4>1
    <3>. QED BY <1>7, <1>9, <3>2, LinkedServed
  <2>11. BasesApart(table, BlockTables)'
    <3>1. \A q \in Page : table'.page[q].phash = table.page[q].phash
      BY <2>8 DEF SameButLink
    <3>. QED BY <1>11, <3>1, SameHashesApart
  <2>12. \A l \in Job \ {cur} : Undisturbed(l)
    <3>1. \A q \in Page :
            \/ SamePage(table.page[q], table'.page[q]) /\ cache'[q] = cache[q]
            \/ \E m \in Index(job[cur]) : PageOf(job[cur], m) = q /\ table.page[q].phash.base # 0
      <4>. SUFFICES ASSUME NEW q \in Page,
                           ~ (SamePage(table.page[q], table'.page[q]) /\ cache'[q] = cache[q])
                    PROVE  \E m \in Index(J) : PageOf(J, m) = q /\ table.page[q].phash.base # 0
        BY DEF J
      <4>1. i + 1 \in Index(L) /\ q = PageOf(L, i + 1)
        BY <1>1, <2>8 DEF SamePage, SameButLink
      <4>2. i + 1 \in Index(J) /\ q = PageOf(J, i + 1) /\ i + 1 >= i
        BY <2>1, <2>7, <4>1
      <4>. QED BY <2>4, <4>2
    <3>. QED BY <1>1, <3>1, OthersUndisturbed
  <2>13. k' \in Nat /\ pc' \in Sampling /\ Fine(K, pc', k') /\ Owed(table', cache, K, pc', k', FALSE)
    BY <1>1, <1>2, <1>9, <2>10 DEF Owed
  <2>14. K.fate = "rewound" => pc' \in {"rewind", "verify", "reject"}
    BY <1>10
  <2>. QED BY <1>1, <1>7, <2>8, <2>9, <2>11, <2>12, <2>13, <2>14, HandStep
<1>. QED BY <1>13, <1>14

-----------------------------------------------------------------------------
(* Rewinding pages.                                                        *)

\* A page that is in one place at most takes a hash with a base no other page has.
LEMMA FreshBaseApart ==
  ASSUME NEW t, NEW u, NEW f, NEW g, BasesApart(t, f), NEW p,
         \A j \in Job : \A i \in DOMAIN g[j] : g[j][i] # p =>
           /\ i \in DOMAIN f[j] /\ f[j][i] = g[j][i]
           /\ u.page[g[j][i]].phash = t.page[g[j][i]].phash
           /\ u.page[g[j][i]].phash.base # u.page[p].phash.base,
         \A j, l \in Job : \A i \in DOMAIN g[j], m \in DOMAIN g[l] :
           g[j][i] = p /\ g[l][m] = p => j = l /\ i = m,
         \A j \in Job : DOMAIN g[j] \subseteq Int
  PROVE  BasesApart(u, g)
<1>. SUFFICES ASSUME NEW j \in Job, NEW l \in Job, NEW i \in DOMAIN g[j], NEW m \in DOMAIN g[l],
                     u.page[g[j][i]].phash.base = u.page[g[l][m]].phash.base,
                     u.page[g[j][i]].phash.base # 0
              PROVE  j = l /\ (i < m => Len(u.page[g[j][i]].phash.toks)
                                        < Len(u.page[g[l][m]].phash.toks))
  BY ZenonT(30) DEF BasesApart
<1>1. CASE g[j][i] # p /\ g[l][m] # p
  <2>1. /\ i \in DOMAIN f[j] /\ f[j][i] = g[j][i] /\ m \in DOMAIN f[l] /\ f[l][m] = g[l][m]
        /\ u.page[g[j][i]].phash = t.page[f[j][i]].phash
        /\ u.page[g[l][m]].phash = t.page[f[l][m]].phash
    BY <1>1
  <2>2. t.page[f[j][i]].phash.base = t.page[f[l][m]].phash.base
        /\ t.page[f[j][i]].phash.base # 0 =>
          j = l /\ (i < m => Len(t.page[f[j][i]].phash.toks) < Len(t.page[f[l][m]].phash.toks))
    BY <2>1, Zenon DEF BasesApart
  <2>. QED BY <2>1, <2>2
<1>2. CASE g[j][i] = p /\ g[l][m] # p
  BY <1>2
<1>3. CASE g[j][i] # p /\ g[l][m] = p
  BY <1>3
<1>4. CASE g[j][i] = p /\ g[l][m] = p
  <2>1. j = l /\ i = m /\ i \in Int
    BY <1>4
  <2>. QED BY <2>1
<1>. QED BY <1>1, <1>2, <1>3, <1>4

\* Page p is in one place of the block tables f, the i-th of job j.
SolePlace(f, p, j, i) ==
  \A l \in Job : \A m \in DOMAIN f[l] : f[l][m] = p => l = j /\ m = i

Placing(f) ==
  \A l \in Job : DOMAIN f[l] \subseteq Int /\ \A m \in DOMAIN f[l] : f[l][m] \in Page

\* That of a page that is not final.
LEMMA OwnPlace ==
  ASSUME CacheInv, NEW j \in Job, NEW i \in Index(job[j]), NEW p, p = PageOf(job[j], i),
         table.page[p].phash.base # 0
  PROVE  SolePlace(BlockTables, p, j, i + 1) /\ Placing(BlockTables)
<1>1. /\ BlockTables \in [Job -> Seq(Page)] /\ job \in [Job -> JobState]
      /\ table.page \in [Page -> CachePage] /\ BasesApart(table, BlockTables)
  BY BlockTablesType DEF CacheInv, BooksInv, Typed
<1>2. ASSUME NEW l \in Job, NEW m \in DOMAIN BlockTables[l], BlockTables[l][m] = p
      PROVE  l = j /\ m = i + 1
  <2>1. m \in Nat /\ m - 1 \in Index(job[l]) /\ PageOf(job[l], m - 1) = p
    <3>1. job[l].pages \in Seq(Page) /\ BlockTables[l] = job[l].pages
      BY <1>1, JobFields DEF BlockTables
    <3>. QED BY <1>2, <3>1 DEF Index, PageOf
  <2>2. PageOf(job[j], i) = PageOf(job[l], m - 1)
        /\ table.page[PageOf(job[j], i)].phash.base # 0
    BY <2>1
  <2>3. j = l /\ i = m - 1
    BY <1>1, <2>1, <2>2, Exclusive
  <2>4. i \in Nat
    BY <1>1, PagesIndexed
  <2>. QED BY <2>1, <2>3, <2>4
<1>3. \A l \in Job : DOMAIN BlockTables[l] \subseteq Int
                     /\ \A m \in DOMAIN BlockTables[l] : BlockTables[l][m] \in Page
  BY <1>1
<1>. QED BY <1>2, <1>3, Zenon DEF SolePlace, Placing

\* A page of the job in hand that is not final changes its marks, and perhaps takes
\* another placeholder.
Unfiled(t, u, p) ==
  /\ PagesTyped(u)
  /\ \A q \in Page \ {p} : u.page[q] = t.page[q]
  /\ u.page[p].prev = t.page[p].prev /\ u.page[p].toks = t.page[p].toks
  /\ \/ u.page[p].phash = t.page[p].phash
     \/ u.page[p].phash = FreshHash(t)

LEMMA UnfiledApart ==
  ASSUME CacheInv, NEW j \in Job, NEW i \in Index(job[j]), NEW p, p = PageOf(job[j], i),
         table.page[p].phash.base # 0, Unfiled(table, table', p),
         \A l \in Job : job'[l].pages = job[l].pages
  PROVE  BasesApart(table, BlockTables)'
<1>1. CASE table'.page[p].phash = table.page[p].phash
  BY <1>1, SameHashesApart DEF Unfiled
<1>2. CASE table'.page[p].phash = FreshHash(table)
  <2>1. BlockTables' = BlockTables
    BY DEF BlockTables
  <2>2. BasesApart(table, BlockTables)' <=> BasesApart(table', BlockTables')
    BY DEF BasesApart
  <2>3. SolePlace(BlockTables, p, j, i + 1) /\ Placing(BlockTables)
    BY OwnPlace
  <2>4. BasesApart(table, BlockTables)
    BY DEF CacheInv
  <2>. DEFINE f == BlockTables
  <2>5. \A l \in Job : \A m \in DOMAIN f[l] : f[l][m] # p =>
           /\ m \in DOMAIN f[l] /\ f[l][m] = f[l][m]
           /\ table'.page[f[l][m]].phash = table.page[f[l][m]].phash
           /\ table'.page[f[l][m]].phash.base # table'.page[p].phash.base
    <3>. SUFFICES ASSUME NEW q \in Page \ {p}
                  PROVE  /\ table'.page[q].phash = table.page[q].phash
                         /\ table'.page[q].phash.base # table'.page[p].phash.base
      BY <2>3 DEF Placing
    <3>. QED BY <1>2, FreshApart DEF Unfiled
  <2>6. /\ BasesApart(table, f)
        /\ \A a, l \in Job : \A n \in DOMAIN f[a], m \in DOMAIN f[l] :
             f[a][n] = p /\ f[l][m] = p => a = l /\ n = m
        /\ \A l \in Job : DOMAIN f[l] \subseteq Int
    BY <2>3, <2>4, Zenon DEF SolePlace, Placing
  <2>. HIDE DEF f
  <2>7. BasesApart(table', f)
    BY ONLY <2>5, <2>6, FreshBaseApart
  <2>. QED BY <2>1, <2>2, <2>7 DEF f
<1>. QED BY <1>1, <1>2 DEF Unfiled

\* What a change of the last pages' marks leaves of what a job is owed.
LEMMA UnfiledServed ==
  ASSUME NEW t, NEW u, NEW c, NEW J \in JobState, NEW low \in Nat, NEW row,
         NEW i \in Index(J), i >= low, NEW p, p = PageOf(J, i), Unfiled(t, u, p),
         \A m \in Index(J) : PageOf(J, m) = p => m = i,
         NamesTrue(t, J, low), LinksTrue(t, J, low), ContentTrue(t, c, J, row)
  PROVE  NamesTrue(u, J, low) /\ LinksTrue(u, J, low) /\ ContentTrue(u, c, J, row)
<1>1. \A m \in Index(J) : /\ m \in Nat /\ PageOf(J, m) \in Page /\ (m > 0 => m - 1 \in Index(J))
  BY PagesIndexed DEF Index
<1>2. \A m \in Index(J) : m # i => u.page[PageOf(J, m)] = t.page[PageOf(J, m)]
  BY <1>1 DEF Unfiled
<1>3. \A m \in Index(J) : /\ u.page[PageOf(J, m)].prev = t.page[PageOf(J, m)].prev
                          /\ u.page[PageOf(J, m)].toks = t.page[PageOf(J, m)].toks
  <2>. SUFFICES ASSUME NEW m \in Index(J)
                PROVE  /\ u.page[PageOf(J, m)].prev = t.page[PageOf(J, m)].prev
                       /\ u.page[PageOf(J, m)].toks = t.page[PageOf(J, m)].toks
    OBVIOUS
  <2>1. CASE m = i
    BY <2>1 DEF Unfiled
  <2>2. CASE m # i
    BY <1>2, <2>2
  <2>. QED BY <2>1, <2>2
<1>4. u.page[PageOf(J, i)].phash.base # 0 /\ u.page[PageOf(J, i)].phash.toks = <<>>
  BY FreshHashType DEF Unfiled, NamesTrue
<1>5. NamesTrue(u, J, low)
  <2>. SUFFICES ASSUME NEW m \in Index(J)
                PROVE  LET h == u.page[PageOf(J, m)].phash IN
                       /\ m < low =>
                         /\ h.base = 0 => h.toks = SubSeq(J.ids, 1, (m + 1) * PageSize)
                         /\ h.base = 0 /\ m > 0 => u.page[PageOf(J, m - 1)].phash.base = 0
                         /\ ~ PrefillDone(J) => h.base = 0
                       /\ m >= low => h.base # 0 /\ h.toks = <<>>
    BY DEF NamesTrue
  <2>1. i \in Nat
    BY <1>1
  <2>2. CASE m = i
    BY <1>4, <2>1, <2>2
  <2>3. CASE m # i
    <3>1. u.page[PageOf(J, m)] = t.page[PageOf(J, m)] /\ m \in Nat
      BY <1>1, <1>2, <2>3
    <3>2. m < low /\ m > 0 => u.page[PageOf(J, m - 1)] = t.page[PageOf(J, m - 1)]
      <4>1. m < low /\ m > 0 => m - 1 \in Index(J) /\ m - 1 # i
        BY <1>1, <2>1, <3>1
      <4>. QED BY <1>2, <4>1
    <3>3. LET h == t.page[PageOf(J, m)].phash IN
          /\ m < low =>
            /\ h.base = 0 => h.toks = SubSeq(J.ids, 1, (m + 1) * PageSize)
            /\ h.base = 0 /\ m > 0 => t.page[PageOf(J, m - 1)].phash.base = 0
            /\ ~ PrefillDone(J) => h.base = 0
          /\ m >= low => h.base # 0 /\ h.toks = <<>>
      BY Zenon DEF NamesTrue
    <3>. QED BY ONLY <3>1, <3>2, <3>3
  <2>. QED BY <2>2, <2>3
<1>6. LinksTrue(u, J, low)
  BY <1>3 DEF LinksTrue
<1>7. ContentTrue(u, c, J, row)
  BY <1>3, Zenon DEF ContentTrue
<1>. QED BY <1>5, <1>6, <1>7

\* Where a rewound job's pages lie.
LEMMA RewindMarks ==
  ASSUME NEW J \in JobState, NEW m \in Nat, J.pos <= m, NEW i \in Nat, i >= PageAt(J.pos)
  PROVE  /\ RewindFill(J, i) = FillMark(J.pos, i)
         /\ RewindFill(J, i) \in 0 .. FillMark(m, i)
         /\ RewindFill(J, i) < PageSize
<1>1. J.pos \in Nat /\ PageAt(J.pos) \in Nat
  BY JobFields, Located
<1>. DEFINE q == J.pos
            d == i * PageSize
<1>2. /\ d \in Nat /\ (i + 1) * PageSize = d + PageSize /\ PageSize \in Nat \ {0} /\ q \in Nat
  BY <1>1, Multiples, PageSizeAssumption
<1>3. /\ FillMark(q, i) = IF d + PageSize <= q THEN PageSize ELSE IF q <= d THEN 0 ELSE q - d
      /\ FillMark(m, i) = IF d + PageSize <= m THEN PageSize ELSE IF m <= d THEN 0 ELSE m - d
  <2>1. q \in Nat /\ m \in Nat /\ i \in Nat
    BY <1>1
  <2>2. \A n \in Nat : FillMark(n, i) = IF (i + 1) * PageSize <= n THEN PageSize
                                       ELSE IF n <= i * PageSize THEN 0 ELSE n - i * PageSize
    BY ONLY <2>1, FillMarks
  <2>3. \A n \in Nat : FillMark(n, i) = IF d + PageSize <= n THEN PageSize
                                       ELSE IF n <= d THEN 0 ELSE n - d
    BY <1>2, <2>2
  <2>. HIDE DEF d, q
  <2>. QED BY ONLY <2>1, <2>3
<1>4. q < d + PageSize /\ (i # PageAt(q) => q < d) /\ (i = PageAt(q) => q % PageSize = q - d)
  <2>1. PageAt(q) < i + 1 /\ i + 1 \in Nat
    BY <1>1
  <2>2. q < (i + 1) * PageSize
    BY <1>2, <2>1, PageBounds
  <2>3. i # PageAt(q) => q < d
    <3>1. i # PageAt(q) => PageAt(q) < i
      BY <1>1
    <3>. QED BY <1>2, <3>1, PageBounds
  <2>4. i = PageAt(q) => q % PageSize = q - d
    <3>1. q % PageSize \in Nat /\ q = (PageAt(q) * PageSize) + (q % PageSize)
      <4>1. q % PageSize \in Slot /\ q = (PageAt(q) * PageSize) + (q % PageSize)
        BY <1>2, Located, Zenon
      <4>2. q % PageSize \in Nat
        BY ONLY <4>1, PageSizeAssumption DEF Slot
      <4>. QED BY <4>1, <4>2
    <3>. DEFINE r == q % PageSize
    <3>2. i = PageAt(q) => q = d + r
      BY <3>1
    <3>3. r \in Nat
      BY <3>1
    <3>. HIDE DEF r, d, q
    <3>4. i = PageAt(q) => r = q - d
      BY ONLY <1>2, <3>2, <3>3
    <3>. QED BY <3>4 DEF r
  <2>. QED BY <1>2, <2>2, <2>3, <2>4
<1>5. RewindFill(J, i) = IF i = PageAt(q) THEN q % PageSize ELSE 0
  BY DEF RewindFill
<1>. HIDE DEF q, d
<1>6. q <= m
  BY DEF q
<1>7. RewindFill(J, i) = FillMark(q, i)
  BY ONLY <1>2, <1>3, <1>4, <1>5
<1>8. FillMark(q, i) < PageSize /\ FillMark(q, i) \in Nat
  BY ONLY <1>2, <1>3, <1>4
<1>9. FillMark(q, i) \in 0 .. FillMark(m, i)
  BY ONLY <1>2, <1>3, <1>4, <1>6, m \in Nat
<1>. QED BY <1>7, <1>8, <1>9 DEF q

LEMMA RewindPageStep ==
  ASSUME CacheInv, BooksInv', RewindPage
  PROVE  CacheInv'
<1>. DEFINE J == job[cur]
            p == J.pages[k + 1]
            t == IF Complete(table, p) THEN UpdateHash(table, p, FreshHash(table)) ELSE table
<1>1. /\ cur \in Job /\ pc = "rewind" /\ "rewind" \in Sampling /\ pc \in Sampling
      /\ pc' = pc /\ job' = job /\ k' = k + 1 /\ k + 1 \in DOMAIN J.pages
      /\ UNCHANGED <<cache, serial>> /\ cur' = cur /\ todo' = todo
  BY DEF CacheInv, BooksInv, JobInHand, RewindPage, Sampling
<1>e. table' = [t EXCEPT !.page[p].kv = RewindFill(J, k), !.page[p].saved = None]
  BY DEF RewindPage
<1>f. CacheInv /\ BooksInv'
  OBVIOUS
<1>2. /\ J \in JobState /\ k \in Nat /\ Fine(J, "rewind", k)
      /\ Owed(table, cache, J, "rewind", k, FALSE)
  BY <1>1, HandHas
<1>3. /\ Served(table, cache, J, "rewind", k, FALSE) /\ LiveAs(J, "rewind") /\ PrefillDone(J)
      /\ JobOK(J, "rewind") /\ HandOK(J, "rewind", k) /\ WaitOK(J) /\ J.stage = "active"
  <2>1. LiveAs(J, "rewind") /\ PrefillDone(J)
    BY <1>1, <1>2, LiveInHand, InHand
  <2>. QED BY <1>1, <1>2, <2>1, InHand DEF Owed
<1>4. PageAt(J.pos) <= k /\ PageAt(J.pos) \in Nat /\ J.fate = "rewound"
      /\ J.offset \in Nat \ {0}
  BY <1>1, <1>2, <1>3, JobFields, Located DEF HandOK
<1>5. k \in Index(J) /\ p = PageOf(J, k) /\ p \in Page
  <2>1. J.pages \in Seq(Page)
    BY <1>2, JobFields
  <2>. QED BY <1>1, <1>2, <2>1 DEF Index, PageOf
<1>a. /\ PagesTyped(table) /\ Sound(table) /\ BasesApart(table, BlockTables)
      /\ PagesTrue(table, cache) /\ job \in [Job -> JobState]
  BY DEF CacheInv, Typed, BooksInv, Sound, PagesTyped
<1>b. \A l \in Job : job'[l].pages = job[l].pages
  BY <1>1
<1>c. job' = [job EXCEPT ![cur] = J]
  BY <1>1, <1>a
<1>d. table.page[p].refs > 0
  <2>. DEFINE f == BlockTables
              n == k + 1
  <2>1. f \in [Job -> Seq(Page)] /\ CountsMatch(table, f) /\ n \in DOMAIN f[cur] /\ f[cur][n] = p
    BY <1>1, <1>5, BlockTablesType DEF CacheInv, BooksInv, BlockTables, PageOf
  <2>. HIDE DEF f, n
  <2>. QED BY <1>1, <2>1, PlacedReferenced
<1>. DEFINE low == LowAs(J, "rewind")
            row == RowAs(J, "rewind", k, FALSE)
<1>6. /\ NamesTrue(table, J, low) /\ LinksTrue(table, J, low)
      /\ ContentTrue(table, cache, J, row) /\ MarksTrue(table, J, "rewind", k, row)
  BY <1>3 DEF Served
<1>7. low = PageAt(J.pos) /\ \A n : RowAs(J, "rewind", n, FALSE) = row
  BY <1>3 DEF LowAs, RowAs
<1>. HIDE DEF J, low, row
<1>8. PICK m \in Nat : /\ J.pos <= m
                       /\ \A i \in Index(J) :
                            table.page[PageOf(J, i)].kv = FillMark(IF i < k THEN J.pos ELSE m, i)
  BY <1>3, <1>6 DEF MarksTrue
<1>. HIDE DEF p
<1>9. table.page[p].phash.base # 0
  BY <1>2, <1>4, <1>5, <1>6, <1>7 DEF NamesTrue
<1>10. table.page[p].kv = FillMark(m, k)
  BY <1>2, <1>5, <1>8
<1>11. /\ PagesTyped(t) /\ t.page[p].prev = table.page[p].prev
       /\ t.page[p].kv = table.page[p].kv /\ t.page[p].toks = table.page[p].toks
       /\ \A q \in Page \ {p} : t.page[q] = table.page[q]
       /\ t.page[p].phash = table.page[p].phash \/ t.page[p].phash = FreshHash(table)
  <2>1. CASE Complete(table, p)
    <3>1. \A q \in Page \ {p} : table.page[q].phash # FreshHash(table)
      BY FreshApart
    <3>2. t = UpdateHash(table, p, FreshHash(table)) /\ FreshHash(table) \in Hash
      BY <2>1, FreshHashType
    <3>. QED BY <1>5, <1>a, <1>d, <3>1, <3>2, UpdateHashPages
  <2>2. CASE ~ Complete(table, p)
    BY <1>a, <2>2
  <2>. QED BY <2>1, <2>2
<1>. HIDE DEF t
<1>12. /\ RewindFill(J, k) = FillMark(J.pos, k)
       /\ RewindFill(J, k) \in 0 .. table.page[p].kv
       /\ RewindFill(J, k) < PageSize
  BY <1>2, <1>4, <1>8, <1>10, RewindMarks
<1>. DEFINE rec == [t.page[p] EXCEPT !.kv = RewindFill(J, k), !.saved = None]
<1>13. /\ rec \in CachePage /\ rec.kv = RewindFill(J, k) /\ rec.saved = None
       /\ rec.phash = t.page[p].phash /\ rec.prev = t.page[p].prev /\ rec.toks = t.page[p].toks
  <2>1. t.page[p] \in CachePage
    BY <1>5, <1>11, RecordFields
  <2>2. RewindFill(J, k) \in 0 .. PageSize
    <3>1. table.page[p].kv \in 0 .. PageSize
      BY <1>5, <1>a, RecordFields
    <3>. QED BY <1>12, <3>1, PageSizeAssumption
  <2>. QED BY <2>1, <2>2 DEF CachePage
<1>14. Replaced(t, table', p, rec)
  <2>1. IsTable(table') /\ IsTable(t)
    BY <1>11 DEF BooksInv, Sound, PagesTyped
  <2>2. table'.page = [t.page EXCEPT ![p] = rec]
    BY <1>e, <2>1 DEF IsTable
  <2>. QED BY <2>1, <2>2 DEF Replaced
<1>. HIDE DEF rec
<1>15. /\ PagesTyped(table') /\ table'.page[p] = rec
       /\ \A q \in Page \ {p} : table'.page[q] = table.page[q]
  BY <1>5, <1>11, <1>13, <1>14, OneRecord
<1>16. Unfiled(table, table', p)
  BY <1>11, <1>13, <1>15 DEF Unfiled
<1>17. PagesTrue(table', cache)
  <2>. SUFFICES ASSUME NEW q \in Page PROVE TruePage(table'.page[q], cache[q])
    BY DEF PagesTrue
  <2>1. TruePage(table.page[q], cache[q])
    BY <1>a DEF PagesTrue
  <2>2. CASE q = p
    <3>. DEFINE r == table.page[p]
                n == RewindFill(J, k)
    <3>1. Truth(r.phash, r.prev, r.kv, r.toks, cache[p])
      BY <2>1, <2>2 DEF TruePage
    <3>2. r.kv \in 0 .. PageSize /\ n \in 0 .. r.kv /\ n < PageSize
      BY <1>5, <1>12, <1>a, RecordFields
    <3>3. rec.prev = r.prev /\ rec.toks = r.toks /\ rec.kv = n
      BY <1>11, <1>13
    <3>. HIDE DEF r, n
    <3>4. Truth(rec.phash, r.prev, n, r.toks, cache[p])
      BY ONLY <3>1, <3>2, TruthCut
    <3>5. rec.phash # Root
      <4>1. FreshHash(table) # Root
        BY FreshHashType, NotRoot
      <4>2. table.page[p].phash # Root
        BY <2>1, <2>2 DEF TruePage, Identified
      <4>. QED BY <1>11, <1>13, <4>1, <4>2
    <3>. QED BY <1>13, <1>15, <2>2, <3>3, <3>4, <3>5 DEF TruePage, Identified
  <2>3. CASE q # p
    BY <1>15, <2>1, <2>3
  <2>. QED BY <2>2, <2>3
<1>18. BasesApart(table, BlockTables)'
  BY <1>1, <1>5, <1>9, <1>16, <1>b, UnfiledApart DEF J
<1>19. \A n \in Index(J) : PageOf(J, n) = p => n = k
  <2>1. SolePlace(BlockTables, p, cur, k + 1)
    BY <1>1, <1>5, <1>9, OwnPlace DEF J
  <2>. SUFFICES ASSUME NEW n \in Index(J), PageOf(J, n) = p PROVE n = k
    OBVIOUS
  <2>2. n + 1 \in DOMAIN BlockTables[cur] /\ BlockTables[cur][n + 1] = p /\ n \in Nat
    BY <1>1, <1>2, PagesIndexed DEF BlockTables, PageOf, J
  <2>3. n + 1 = k + 1
    BY <1>1, <2>1, <2>2 DEF SolePlace
  <2>. QED BY <1>2, <2>2, <2>3
<1>20. Served(table', cache, J, "rewind", k + 1, FALSE)
  <2>1. low \in Nat /\ k >= low
    BY <1>4, <1>7
  <2>2. NamesTrue(table', J, low) /\ LinksTrue(table', J, low) /\ ContentTrue(table', cache, J, row)
    BY <1>2, <1>5, <1>6, <1>16, <1>19, <2>1, UnfiledServed
  <2>3. \A i \in Index(J) :
          table'.page[PageOf(J, i)].kv = FillMark(IF i < k + 1 THEN J.pos ELSE m, i)
    <3>. SUFFICES ASSUME NEW i \in Index(J)
                  PROVE  table'.page[PageOf(J, i)].kv = FillMark(IF i < k + 1 THEN J.pos ELSE m, i)
      OBVIOUS
    <3>1. i \in Nat /\ PageOf(J, i) \in Page
      BY <1>2, PagesIndexed
    <3>2. CASE i = k
      BY <1>2, <1>5, <1>12, <1>13, <1>15, <3>1, <3>2
    <3>3. CASE i # k
      <4>1. table'.page[PageOf(J, i)].kv = table.page[PageOf(J, i)].kv
        BY <1>15, <1>19, <3>1, <3>3
      <4>2. i < k + 1 <=> i < k
        BY <1>2, <3>1, <3>3
      <4>. QED BY <1>8, <4>1, <4>2
    <3>. QED BY <3>2, <3>3
  <2>4. MarksTrue(table', J, "rewind", k + 1, row)
    BY <1>3, <1>8, <2>3 DEF MarksTrue
  <2>. QED BY <1>7, <2>2, <2>4 DEF Served, low
<1>21. Fine(J, "rewind", k + 1)
  <2>1. HandOK(J, "rewind", k + 1)
    <3>1. PageAt(J.pos) <= k + 1
      BY <1>2, <1>4
    <3>. QED BY <1>3, <1>4, <3>1 DEF HandOK
  <2>. QED BY <1>3, <2>1 DEF Fine
<1>22. \A l \in Job \ {cur} : Undisturbed(l)
  <2>1. \A q \in Page :
          \/ SamePage(table.page[q], table'.page[q]) /\ cache'[q] = cache[q]
          \/ \E n \in Index(job[cur]) : PageOf(job[cur], n) = q /\ table.page[q].phash.base # 0
    BY <1>1, <1>5, <1>9, <1>15 DEF SamePage, J
  <2>. QED BY <1>1, <2>1, OthersUndisturbed
<1>23. /\ pc' \in Sampling /\ k' \in Nat /\ Fine(J, pc', k') /\ Owed(table', cache, J, pc', k', FALSE)
       /\ J.fate = "rewound" => pc' \in {"rewind", "verify", "reject"}
  <2>1. Owed(table', cache, J, "rewind", k + 1, FALSE)
    BY <1>20 DEF Owed
  <2>2. pc' = "rewind" /\ k' = k + 1 /\ pc' \in Sampling /\ k' \in Nat
    BY <1>1, <1>2
  <2>. QED BY ONLY <1>21, <2>1, <2>2
<1>. QED BY ONLY ZenonT(30), <1>1, <1>2, <1>15, <1>17, <1>18, <1>22, <1>23, <1>c, <1>f, HandStep

LEMMA RewoundJob ==
  ASSUME NEW t, NEW c, NEW J \in JobState, NEW n \in Nat,
         Fine(J, "rewind", n), Served(t, c, J, "rewind", n, FALSE),
         \/ n >= Len(J.pages)
         \/ n > PageAt(J.pos + J.offset) /\ t.page[J.pages[n + 1]].kv = 0,
         NEW K \in JobState, K = Rewound(J)
  PROVE  Fine(K, "verify", n) /\ Served(t, c, K, "verify", n, FALSE)
<1>1. /\ "rewind" \in Sampling /\ "verify" \in Sampling /\ LiveAs(J, "rewind")
      /\ J.stage = "active" /\ PrefillDone(J) /\ J.pos + 1 = Len(J.ids)
      /\ JobOK(J, "rewind") /\ HandOK(J, "rewind", n) /\ WaitOK(J)
  <2>1. "rewind" \in Sampling /\ "verify" \in Sampling
    BY DEF Sampling
  <2>. QED BY <2>1, LiveInHand, InHand
<1>2. /\ J.pos \in Nat /\ PageAt(J.pos) \in Nat /\ J.fate = "rewound" /\ PageAt(J.pos) <= n
      /\ Len(J.pages) \in Nat
  BY <1>1, JobFields, Located DEF HandOK
<1>3. /\ K.stage = J.stage /\ K.ids = J.ids /\ K.plen = J.plen /\ K.limit = J.limit
      /\ K.pos = J.pos /\ K.pages = J.pages /\ K.draft = J.draft /\ K.fate = J.fate
      /\ K.offset = 0 /\ K.deferred = <<>>
  BY DEF Rewound, JobState
<1>4. PrefillDone(K) /\ NewTokens(K) = NewTokens(J) /\ Settled(K) = Settled(J) /\ ~ Holding(K)
  BY <1>1, <1>3 DEF PrefillDone, NewTokens, Settled, Holding
<1>5. Fits(K)
  <2>1. Fits(J)
    BY <1>1, <1>2 DEF JobOK
  <2>. QED BY <1>3, <1>4, <2>1 DEF Fits
<1>6. Deferrals(K)
  BY <1>2, <1>3 DEF Deferrals
<1>7. JobOK(K, "verify")
  BY <1>1, <1>3, <1>4, <1>5, <1>6 DEF JobOK
<1>8. HandOK(K, "verify", n) /\ WaitOK(K)
  BY <1>1, <1>2, <1>3, <1>4 DEF HandOK, WaitOK
<1>. DEFINE low == PageAt(J.pos)
            row == Settled(J)
<1>9. /\ LowAs(J, "rewind") = low /\ RowAs(J, "rewind", n, FALSE) = row
      /\ LowAs(K, "verify") = low /\ RowAs(K, "verify", n, FALSE) = row
  <2>1. LowAs(K, "verify") = PageAt(K.pos) - Len(K.deferred)
    BY <1>4, LowOfDeferred
  <2>2. Len(K.deferred) = 0
    BY <1>3
  <2>. QED BY <1>1, <1>2, <1>3, <1>4, <2>1, <2>2 DEF LowAs, RowAs
<1>10. Len(row) = J.pos
  BY <1>1, <1>2, JobFields, Prefix DEF Settled
<1>. HIDE DEF low, row
<1>11. /\ NamesTrue(t, J, low) /\ LinksTrue(t, J, low)
       /\ ContentTrue(t, c, J, row) /\ MarksTrue(t, J, "rewind", n, row)
  BY <1>9 DEF Served
<1>12. NamesTrue(t, K, low) /\ LinksTrue(t, K, low) /\ ContentTrue(t, c, K, row)
  <2>1. SameStart(J, K, low) /\ low \in Nat
    BY <1>2, <1>3, SameStartItself DEF low
  <2>. QED BY <1>1, <1>3, <1>4, <1>11, <2>1, NamesMoved, ContentMoved
<1>13. PICK m \in Nat : /\ J.pos <= m
                        /\ \A i \in Index(J) :
                             t.page[PageOf(J, i)].kv = FillMark(IF i < n THEN J.pos ELSE m, i)
  BY <1>1, <1>11 DEF MarksTrue
<1>14. FilledTo(t, J, J.pos)
  <2>. SUFFICES ASSUME NEW i \in Index(J), ~ (i < n)
                PROVE  FillMark(m, i) = FillMark(J.pos, i)
    BY <1>13 DEF FilledTo
  <2>1. i \in Nat /\ i < Len(J.pages) /\ n <= i
    BY PagesIndexed
  <2>2. n < Len(J.pages) /\ n \in Index(J) /\ t.page[PageOf(J, n)].kv = 0
    BY <1>2, <2>1, PagesIndexed DEF PageOf
  <2>3. FillMark(m, n) = 0
    BY <1>13, <2>2
  <2>4. m <= n * PageSize
    BY <1>13, <2>3, FillMarks
  <2>5. n * PageSize <= i * PageSize /\ n * PageSize \in Nat /\ i * PageSize \in Nat
    <3>1. n * PageSize \in Nat /\ i * PageSize \in Nat /\ PageSize \in Nat
      BY <2>1, Multiples, PageSizeAssumption
    <3>2. n = i \/ n * PageSize + PageSize <= i * PageSize
      BY <2>1, Monotone
    <3>. QED BY <3>1, <3>2
  <2>6. m <= i * PageSize /\ J.pos <= i * PageSize
    BY ONLY <1>2, <1>13, <2>4, <2>5
  <2>. QED BY <1>2, <1>13, <2>1, <2>6, FillMarks
<1>15. MarksTrue(t, K, "verify", n, row)
  <2>1. FilledTo(t, K, Len(row))
    BY <1>3, <1>10, <1>14, ContentMoved
  <2>. QED BY <1>4, <2>1 DEF MarksTrue
<1>. QED BY <1>7, <1>8, <1>9, <1>12, <1>15 DEF Fine, Served

LEMMA RewindDoneStep ==
  ASSUME CacheInv, BooksInv', RewindDone
  PROVE  CacheInv'
<1>. DEFINE J == job[cur]
            K == Rewound(J)
<1>1. /\ cur \in Job /\ pc = "rewind" /\ pc \in Sampling /\ pc' \in Sampling /\ pc' = "verify"
      /\ job' = [job EXCEPT ![cur] = K] /\ k' = k
      /\ UNCHANGED <<table, cache, serial>> /\ cur' = cur /\ todo' = todo
      /\ \/ k >= Len(J.pages)
         \/ k > PageAt(J.pos + J.offset) /\ table.page[J.pages[k + 1]].kv = 0
  BY DEF CacheInv, BooksInv, JobInHand, RewindDone, Sampling
<1>2. /\ J \in JobState /\ k \in Nat /\ Fine(J, "rewind", k)
      /\ Owed(table, cache, J, "rewind", k, FALSE)
  BY <1>1, HandHas
<1>3. Served(table, cache, J, "rewind", k, FALSE)
  <2>1. LiveAs(J, "rewind")
    BY <1>1, <1>2, LiveInHand
  <2>. QED BY <1>2, <2>1 DEF Owed
<1>. HIDE DEF J
<1>4. K \in JobState /\ K.pages = J.pages
  <2>1. J \in JobState
    BY <1>2
  <2>2. 0 \in Nat \cup {None} /\ <<>> \in Seq(Nat)
    OBVIOUS
  <2>3. K = [J EXCEPT !.offset = 0, !.deferred = <<>>]
    BY DEF Rewound
  <2>. HIDE DEF K
  <2>. QED BY ONLY <2>1, <2>2, <2>3 DEF JobState
<1>. DEFINE L == K
<1>5. L = Rewound(J) /\ L \in JobState
  BY <1>4
<1>. HIDE DEF L
<1>6. Fine(L, "verify", k) /\ Served(table, cache, L, "verify", k, FALSE)
  BY ONLY <1>1, <1>2, <1>3, <1>5, RewoundJob
<1>7. /\ pc' = "verify" /\ k' = k /\ k' \in Nat /\ Owed(table, cache, L, "verify", k, FALSE)
      /\ L.pages = job[cur].pages /\ job' = [job EXCEPT ![cur] = L]
  BY <1>1, <1>2, <1>4, <1>6 DEF Owed, L, J
<1>8. Fine(L, pc', k') /\ Owed(table, cache, L, pc', k', FALSE)
  BY ONLY <1>6, <1>7
<1>9. L.fate = "rewound" => pc' \in {"rewind", "verify", "reject"}
  BY <1>1
<1>. QED BY <1>1, <1>5, <1>7, <1>8, <1>9, QuietHandStep

-----------------------------------------------------------------------------
(* The held pages are final, and the drafted tokens are verified.          *)

\* A token moves from the second part of a sequence to the first.
LEMMA HeadMoved ==
  ASSUME NEW S, NEW x \in Seq(S), NEW y \in Seq(S), NEW n \in Nat, NEW q \in Nat,
         q + 1 = Len(x), n < Len(y), y[n + 1] = x[q + 1]
  PROVE  x \o SubSeq(y, n + 2, Len(y)) = SubSeq(x, 1, q) \o SubSeq(y, n + 1, Len(y))
<1>. DEFINE u == SubSeq(y, n + 2, Len(y))
            v == SubSeq(y, n + 1, Len(y))
            w == SubSeq(x, 1, q)
<1>0. /\ Len(x) \in Nat /\ Len(y) \in Nat /\ n \in Nat /\ q \in Nat /\ x \in Seq(S)
      /\ q + 1 = Len(x) /\ n < Len(y)
  OBVIOUS
<1>1. /\ u \in Seq(S) /\ Len(u) = Len(y) - n - 1
      /\ \A i \in 1 .. Len(y) - n - 1 : u[i] = y[n + 1 + i]
  <2>1. n + 2 \in 1 .. Len(y) + 1
    BY <1>0
  <2>. QED BY ONLY <1>0, <2>1, y \in Seq(S), n \in Nat
<1>2. /\ v \in Seq(S) /\ Len(v) = Len(y) - n
      /\ \A i \in 1 .. Len(y) - n : v[i] = y[n + i]
  <2>1. n + 1 \in 1 .. Len(y)
    BY <1>0
  <2>. QED BY ONLY <1>0, <2>1, y \in Seq(S), n \in Nat
<1>3. w \in Seq(S) /\ Len(w) = q /\ \A i \in 1 .. q : w[i] = x[i]
  BY <1>0, Prefix
<1>. HIDE DEF u, v, w
<1>4. /\ x \o u \in Seq(S) /\ Len(x \o u) = Len(x) + Len(u)
      /\ \A i \in 1 .. Len(x) : (x \o u)[i] = x[i]
      /\ \A i \in 1 .. Len(u) : (x \o u)[Len(x) + i] = u[i]
  <2>1. x \in Seq(S) /\ u \in Seq(S)
    BY <1>0, <1>1
  <2>. QED BY ONLY <2>1
<1>5. /\ w \o v \in Seq(S) /\ Len(w \o v) = Len(w) + Len(v)
      /\ \A i \in 1 .. Len(w) : (w \o v)[i] = w[i]
      /\ \A i \in 1 .. Len(v) : (w \o v)[Len(w) + i] = v[i]
  <2>1. w \in Seq(S) /\ v \in Seq(S)
    BY <1>2, <1>3
  <2>. QED BY ONLY <2>1
<1>. DEFINE a == x \o u
            b == w \o v
<1>. HIDE DEF a, b
<1>6. ASSUME NEW i \in 1 .. Len(a) PROVE a[i] = b[i]
  <2>0. i \in Nat /\ i >= 1 /\ i <= Len(x) + Len(u)
    BY <1>0, <1>1, <1>4 DEF a
  <2>1. CASE i <= q
    <3>1. i \in 1 .. Len(x) /\ i \in 1 .. Len(w) /\ i \in 1 .. q
      BY <1>0, <1>3, <2>0, <2>1
    <3>. QED BY <1>3, <1>4, <1>5, <3>1 DEF a, b
  <2>2. CASE i = q + 1
    <3>1. i \in 1 .. Len(x) /\ 1 \in 1 .. Len(v) /\ 1 \in 1 .. Len(y) - n /\ i = Len(w) + 1
      BY <1>0, <1>2, <1>3, <2>0, <2>2
    <3>2. a[i] = x[i] /\ b[i] = v[1] /\ v[1] = y[n + 1]
      BY <1>2, <1>4, <1>5, <3>1 DEF a, b
    <3>. QED BY <2>2, <3>2
  <2>3. CASE i > q + 1
    <3>. DEFINE m == i - q - 1
    <3>1. /\ m \in 1 .. Len(u) /\ m + 1 \in 1 .. Len(v) /\ m \in 1 .. Len(y) - n - 1
          /\ m + 1 \in 1 .. Len(y) - n
          /\ i = Len(x) + m /\ i = Len(w) + (m + 1) /\ m \in Nat
      <4>. DEFINE lx == Len(x)
                  ly == Len(y)
                  lu == Len(u)
                  lv == Len(v)
                  lw == Len(w)
      <4>1. /\ lu = ly - n - 1 /\ lv = ly - n /\ lw = q /\ lx = q + 1
            /\ i > q + 1 /\ i \in Nat /\ i <= lx + lu
            /\ ly \in Nat /\ n \in Nat /\ q \in Nat /\ n < ly
        BY <1>0, <1>1, <1>2, <1>3, <2>0, <2>3
      <4>. HIDE DEF lx, ly, lu, lv, lw
      <4>2. /\ m \in 1 .. lu /\ m + 1 \in 1 .. lv /\ m \in 1 .. ly - n - 1
            /\ m + 1 \in 1 .. ly - n
            /\ i = lx + m /\ i = lw + (m + 1) /\ m \in Nat
        BY ONLY <4>1
      <4>. QED BY ONLY <4>2 DEF lx, ly, lu, lv, lw
    <3>. HIDE DEF m
    <3>2. a[i] = u[m] /\ b[i] = v[m + 1] /\ u[m] = y[n + 1 + m] /\ v[m + 1] = y[n + (m + 1)]
      BY ZenonT(30), <1>1, <1>2, <1>4, <1>5, <3>1 DEF a, b
    <3>3. n + 1 + m = n + (m + 1)
      BY <3>1
    <3>. QED BY <3>2, <3>3
  <2>. QED BY <2>0, <2>1, <2>2, <2>3
<1>7. a \in Seq(S) /\ b \in Seq(S) /\ Len(a) = Len(b)
  <2>1. /\ Len(u) = Len(y) - n - 1 /\ Len(v) = Len(y) - n /\ Len(w) = q
        /\ Len(a) = Len(x) + Len(u) /\ Len(b) = Len(w) + Len(v)
    BY <1>1, <1>2, <1>3, <1>4, <1>5 DEF a, b
  <2>2. a \in Seq(S) /\ b \in Seq(S)
    BY <1>4, <1>5 DEF a, b
  <2>3. Len(a) = Len(b)
    BY ONLY SMTT(30), <1>0, <2>1
  <2>. QED BY <2>2, <2>3
<1>8. a = b
  BY <1>6, <1>7, SameSequence
<1>. QED BY <1>8 DEF a, b, u, v, w

\* The job in hand, when a step begins.
LEMMA HandServed ==
  ASSUME CacheInv, cur \in Job, pc \in Sampling, LiveAs(job[cur], pc)
  PROVE  /\ job[cur] \in JobState /\ k \in Nat
         /\ Fine(job[cur], pc, k) /\ Served(table, cache, job[cur], pc, k, FALSE)
         /\ JobOK(job[cur], pc) /\ HandOK(job[cur], pc, k) /\ WaitOK(job[cur])
         /\ PrefillDone(job[cur]) /\ job[cur].pos + 1 = Len(job[cur].ids)
         /\ job[cur].stage = "active" /\ job[cur].fate # "cancelled"
<1>1. /\ job[cur] \in JobState /\ k \in Nat /\ Fine(job[cur], pc, k)
      /\ Owed(table, cache, job[cur], pc, k, FALSE)
  BY HandHas
<1>. QED BY <1>1, InHand DEF Owed

LEMMA FlushDoneStep ==
  ASSUME CacheInv, BooksInv', FlushDone
  PROVE  CacheInv'
<1>. DEFINE J == job[cur]
            K == [J EXCEPT !.offset = None, !.explored = {}]
<1>1. /\ cur \in Job /\ pc = "flush" /\ pc \in Sampling /\ pc' \in Sampling /\ pc' = "verify"
      /\ job' = [job EXCEPT ![cur] = K] /\ J.deferred = <<>> /\ k' = k
      /\ UNCHANGED <<table, cache, serial>> /\ cur' = cur /\ todo' = todo
  BY DEF CacheInv, BooksInv, JobInHand, FlushDone, Sampling, Typed
<1>2. /\ J \in JobState /\ k \in Nat /\ Fine(J, "flush", k)
      /\ Served(table, cache, J, "flush", k, FALSE)
      /\ JobOK(J, "flush") /\ HandOK(J, "flush", k) /\ WaitOK(J)
      /\ PrefillDone(J) /\ J.pos + 1 = Len(J.ids)
      /\ J.stage = "active" /\ J.fate # "cancelled"
  <2>1. LiveAs(J, pc)
    <3>1. /\ J \in JobState /\ Fine(J, pc, k)
      BY <1>1, HandHas
    <3>. QED BY <1>1, <3>1, LiveInHand
  <2>. QED BY <1>1, <2>1, HandServed
<1>. HIDE DEF J
<1>3. /\ K \in JobState /\ K.stage = J.stage /\ K.ids = J.ids /\ K.plen = J.plen
      /\ K.limit = J.limit /\ K.pos = J.pos /\ K.pages = J.pages /\ K.draft = J.draft
      /\ K.deferred = J.deferred /\ K.fate = J.fate /\ K.offset = None
  BY <1>2 DEF JobState
<1>. HIDE DEF K
<1>4. /\ SameJob(J, K) /\ ~ Holding(K) /\ J.fate # "rewound"
      /\ k <= Len(K.draft)
  BY <1>2, <1>3, "flush" \in Sampling DEF SameJob, Holding, HandOK, Sampling
<1>5. /\ PrefillDone(K) /\ (Fits(J) => Fits(K)) /\ (Deferrals(J) => Deferrals(K))
      /\ LowAs(K, "verify") = LowAs(J, "verify") /\ Settled(K) = Settled(J)
      /\ Rest(K, k) = Rest(J, k) /\ NewTokens(K) = NewTokens(J)
  BY <1>2, <1>4, SameJobFacts
<1>6. JobOK(K, "verify")
  BY <1>1, <1>2, <1>3, <1>4, <1>5 DEF JobOK
<1>7. HandOK(K, "verify", k) /\ WaitOK(K)
  BY <1>2, <1>3, <1>4, <1>5 DEF HandOK, WaitOK
<1>8. Served(table, cache, K, "verify", k, FALSE)
  <2>1. /\ LowAs(J, "verify") = LowAs(J, "flush") /\ LowAs(J, "flush") \in Nat
    <3>1. LiveAs(J, "flush") /\ "flush" \in Sampling
      BY <1>2 DEF LiveAs, Sampling
    <3>. QED BY <1>2, <3>1, LowOfDeferred, HandNumbers
  <2>2. RowAs(K, "verify", k, FALSE) = RowAs(J, "flush", k, FALSE)
    BY <1>3, <1>4, <1>5 DEF RowAs
  <2>3. SameStart(J, K, LowAs(J, "flush"))
    BY <1>3, SameStartItself
  <2>. QED BY <1>2, <1>3, <1>5, <2>1, <2>2, <2>3, ServedMoved
<1>9. /\ pc' = "verify" /\ k' = k /\ k' \in Nat /\ K.pages = job[cur].pages
      /\ Fine(K, "verify", k) /\ Owed(table, cache, K, "verify", k, FALSE)
  BY <1>1, <1>2, <1>3, <1>6, <1>7, <1>8 DEF Fine, Owed, J
<1>10. Fine(K, pc', k') /\ Owed(table, cache, K, pc', k', FALSE)
  BY ONLY <1>9
<1>11. K.fate = "rewound" => pc' \in {"rewind", "verify", "reject"}
  BY <1>1
<1>. QED BY <1>1, <1>3, <1>9, <1>10, <1>11, QuietHandStep

LEMMA VerifiedStep ==
  ASSUME CacheInv, BooksInv', Verified
  PROVE  CacheInv'
<1>. DEFINE J == job[cur]
<1>1. /\ cur \in Job /\ pc = "verify" /\ pc \in Sampling /\ pc' \in Sampling /\ pc' = "sample"
      /\ job' = job /\ k' = k + 1
      /\ J.fate = "go" /\ k < Len(J.draft) /\ J.draft[k + 1] = J.ids[Len(J.ids)]
      /\ UNCHANGED <<table, cache, serial>> /\ cur' = cur /\ todo' = todo
  BY DEF CacheInv, BooksInv, JobInHand, Verified, DraftAgrees, Sampling
<1>2. /\ J \in JobState /\ k \in Nat /\ Fine(J, "verify", k)
      /\ Served(table, cache, J, "verify", k, FALSE)
      /\ JobOK(J, "verify") /\ HandOK(J, "verify", k) /\ WaitOK(J)
      /\ PrefillDone(J) /\ J.pos + 1 = Len(J.ids) /\ J.stage = "active"
  <2>1. LiveAs(J, pc)
    <3>1. /\ J \in JobState /\ Fine(J, pc, k)
      BY <1>1, HandHas
    <3>. QED BY <1>1, <3>1, LiveInHand
  <2>. QED BY <1>1, <2>1, HandServed
<1>3. job' = [job EXCEPT ![cur] = J] /\ J.pages = job[cur].pages
  BY <1>1 DEF CacheInv, Typed
<1>. HIDE DEF J
<1>4. JobOK(J, "sample")
  BY <1>2, <1>1 DEF JobOK
<1>5. HandOK(J, "sample", k + 1)
  <2>1. k + 1 <= Len(J.draft)
    BY <1>1, <1>2, JobFields
  <2>. QED BY <1>1, <1>2, <2>1 DEF HandOK
<1>6. RowAs(J, "sample", k + 1, FALSE) = RowAs(J, "verify", k, FALSE)
  <2>1. /\ J.ids \in Seq(Token) /\ J.draft \in Seq(Token) /\ k \in Nat /\ J.pos \in Nat
        /\ J.pos + 1 = Len(J.ids) /\ k < Len(J.draft) /\ J.draft[k + 1] = J.ids[J.pos + 1]
    BY <1>1, <1>2, JobFields
  <2>2. J.ids \o SubSeq(J.draft, k + 2, Len(J.draft))
          = SubSeq(J.ids, 1, J.pos) \o SubSeq(J.draft, k + 1, Len(J.draft))
    <3>. DEFINE x == J.ids
                y == J.draft
                q == J.pos
    <3>1. /\ x \in Seq(Token) /\ y \in Seq(Token) /\ k \in Nat /\ q \in Nat
          /\ q + 1 = Len(x) /\ k < Len(y) /\ y[k + 1] = x[q + 1]
      BY ONLY <2>1
    <3>. HIDE DEF x, y, q
    <3>2. x \o SubSeq(y, k + 2, Len(y)) = SubSeq(x, 1, q) \o SubSeq(y, k + 1, Len(y))
      BY ONLY ZenonT(30), <3>1, HeadMoved
    <3>. QED BY ONLY <3>2 DEF x, y, q
  <2>3. (k + 1) + 1 = k + 2
    BY <2>1
  <2>4. RowAs(J, "sample", k + 1, FALSE) = J.ids \o SubSeq(J.draft, k + 2, Len(J.draft))
    BY ONLY <2>3 DEF RowAs, Rest
  <2>5. RowAs(J, "verify", k, FALSE)
          = SubSeq(J.ids, 1, J.pos) \o SubSeq(J.draft, k + 1, Len(J.draft))
    BY <1>1 DEF RowAs, Rest, Settled
  <2>. QED BY <2>2, <2>4, <2>5
<1>7. Served(table, cache, J, "sample", k + 1, FALSE)
  <2>1. LowAs(J, "sample") = LowAs(J, "verify") /\ LowAs(J, "verify") \in Nat
    <3>1. LiveAs(J, "verify") /\ "verify" \in Sampling
      BY <1>2 DEF LiveAs, Sampling
    <3>. QED BY <1>2, <3>1, LowOfDeferred, HandNumbers
  <2>2. SameStart(J, J, LowAs(J, "verify"))
    BY SameStartItself
  <2>. QED BY <1>2, <1>6, <2>1, <2>2, ServedMoved
<1>8. Fine(J, "sample", k + 1) /\ Owed(table, cache, J, "sample", k + 1, FALSE)
  BY <1>2, <1>4, <1>5, <1>7, Zenon DEF Fine, Owed
<1>9. pc' = "sample" /\ k' = k + 1 /\ k' \in Nat
  BY ONLY <1>1, <1>2
<1>10. Fine(J, pc', k') /\ Owed(table, cache, J, pc', k', FALSE)
  BY ONLY <1>8, <1>9
<1>11. J.fate # "rewound"
  BY ONLY <1>1
<1>. QED BY <1>1, <1>2, <1>3, <1>9, <1>10, <1>11, QuietHandStep

\* What the draft had beyond the position is taken back page by page.
LEMMA UnverifiedStep ==
  ASSUME CacheInv, BooksInv', Unverified
  PROVE  CacheInv'
<1>. DEFINE J == job[cur]
            n == Remainder(J)
<1>1. /\ cur \in Job /\ pc = "verify" /\ pc \in Sampling /\ pc' \in Sampling /\ pc' = "reject"
      /\ job' = job /\ k' = n
      /\ UNCHANGED <<table, cache, serial>> /\ cur' = cur /\ todo' = todo
  BY DEF CacheInv, BooksInv, JobInHand, Unverified, Sampling
<1>2. /\ J \in JobState /\ k \in Nat /\ Fine(J, "verify", k)
      /\ Served(table, cache, J, "verify", k, FALSE)
      /\ JobOK(J, "verify") /\ HandOK(J, "verify", k) /\ WaitOK(J)
      /\ PrefillDone(J) /\ J.pos + 1 = Len(J.ids) /\ J.stage = "active"
      /\ J.fate # "cancelled"
  <2>1. LiveAs(J, pc)
    <3>1. /\ J \in JobState /\ Fine(J, pc, k)
      BY <1>1, HandHas
    <3>. QED BY <1>1, <3>1, LiveInHand
  <2>. QED BY <1>1, <2>1, HandServed
<1>3. job' = [job EXCEPT ![cur] = J] /\ J.pages = job[cur].pages
  BY <1>1 DEF CacheInv, Typed
<1>. HIDE DEF J
<1>4. /\ n \in Nat /\ J.fate \in {"go", "eos", "requeue", "rewound"}
      /\ IF J.fate \in {"go", "requeue"} THEN n = Len(J.draft) - k ELSE n = 0
  <2>1. J.fate \in {"go", "eos", "requeue", "rewound"} /\ Len(J.draft) \in Nat
    BY <1>2, JobFields
  <2>2. J.fate \in {"go", "requeue"} => k <= Len(J.draft)
    BY <1>2, "verify" \in Sampling DEF HandOK, Sampling
  <2>. QED BY <1>2, <2>1, <2>2 DEF Remainder
<1>5. n \in Nat /\ (J.fate \in {"eos", "rewound"} => n = 0)
  BY <1>4
<1>. HIDE DEF n
<1>6. JobOK(J, "reject")
  BY <1>2 DEF JobOK
<1>7. HandOK(J, "reject", n)
  BY <1>2, <1>5 DEF HandOK
<1>8. ASSUME LiveAs(J, "reject") PROVE Served(table, cache, J, "reject", n, FALSE)
  <2>1. J.fate \in {"go", "requeue", "rewound"}
    BY <1>4, <1>8 DEF LiveAs
  <2>. DEFINE low == LowAs(J, "verify")
              row == RowAs(J, "verify", k, FALSE)
              set == Settled(J)
  <2>2. LowAs(J, "reject") = low /\ RowAs(J, "reject", n, FALSE) = set
    <3>1. LowAs(J, "reject") = LowAs(J, "verify")
      BY <1>2, LowOfDeferred
    <3>. QED BY <3>1 DEF RowAs
  <2>3. /\ NamesTrue(table, J, low) /\ LinksTrue(table, J, low)
        /\ ContentTrue(table, cache, J, row) /\ FilledTo(table, J, Len(row))
    BY <1>2 DEF Served, MarksTrue
  <2>4. /\ set \in Seq(Token) /\ Len(set) = J.pos /\ J.pos \in Nat
        /\ Rest(J, k) \in Seq(Token)
        /\ J.fate # "rewound" => Len(Rest(J, k)) = Len(J.draft) - k
    <3>1. J.ids \in Seq(Token) /\ J.pos \in 0 .. Len(J.ids) /\ J.pos \in Nat
      BY <1>2, JobFields
    <3>2. J.draft \in Seq(Token) /\ k \in Nat
      BY <1>2, JobFields
    <3>3. Rest(J, k) \in Seq(Token)
      BY <3>2 DEF Rest
    <3>4. J.fate # "rewound" => k <= Len(J.draft)
      BY <1>2, "verify" \in Sampling DEF HandOK, Sampling
    <3>5. k <= Len(J.draft) => Len(Rest(J, k)) = Len(J.draft) - k
      BY <3>2 DEF Rest
    <3>6. set \in Seq(Token) /\ Len(set) = J.pos
      BY <3>1, Prefix DEF Settled
    <3>. QED BY <3>1, <3>3, <3>4, <3>5, <3>6
  <2>5. /\ row = IF J.fate # "rewound" THEN set \o Rest(J, k) ELSE set
    BY DEF RowAs
  <2>. HIDE DEF low, row, set
  <2>6. /\ row \in Seq(Token) /\ Len(row) = J.pos + n /\ SubSeq(row, 1, J.pos) = set
    <3>1. CASE J.fate # "rewound"
      <4>1. Len(Rest(J, k)) = n
        BY <1>4, <2>1, <2>4, <3>1
      <4>2. J.pos \in 0 .. Len(set)
        BY <2>4
      <4>3. SubSeq(set \o Rest(J, k), 1, J.pos) = SubSeq(set, 1, J.pos)
        BY <2>4, <4>2, PrefixOfJoined
      <4>4. SubSeq(set, 1, J.pos) = set
        BY <2>4, WholePrefix
      <4>5. row \in Seq(Token) /\ Len(row) = Len(set) + Len(Rest(J, k))
        <5>1. set \in Seq(Token) /\ Rest(J, k) \in Seq(Token) /\ row = set \o Rest(J, k)
          BY <2>4, <2>5, <3>1
        <5>. QED BY ONLY <5>1
      <4>. QED BY <2>4, <2>5, <3>1, <4>1, <4>3, <4>4, <4>5
    <3>2. CASE J.fate = "rewound"
      <4>1. SubSeq(set, 1, J.pos) = set
        BY <2>4, WholePrefix
      <4>. QED BY <1>5, <2>4, <2>5, <3>2, <4>1
    <3>. QED BY <3>1, <3>2
  <2>7. ContentTrue(table, cache, J, set)
    <3>1. J.pos \in 0 .. Len(row)
      BY <1>5, <2>4, <2>6
    <3>. QED BY <1>2, <2>3, <2>6, <3>1, ContentCut
  <2>8. MarksTrue(table, J, "reject", n, set)
    <3>1. Len(row) <= Len(J.pages) * PageSize
      BY <2>3 DEF ContentTrue
    <3>. QED BY <1>2, <2>3, <2>6, <3>1 DEF MarksTrue
  <2>. QED BY <2>2, <2>3, <2>7, <2>8 DEF Served
<1>9. Fine(J, "reject", n) /\ Owed(table, cache, J, "reject", n, FALSE)
  BY <1>2, <1>6, <1>7, <1>8, Zenon DEF Fine, Owed
<1>10. Fine(J, pc', k') /\ Owed(table, cache, J, pc', k', FALSE)
  BY ONLY <1>1, <1>9
<1>11. k' \in Nat /\ (J.fate = "rewound" => pc' \in {"rewind", "verify", "reject"})
  BY <1>1, <1>5
<1>. QED BY <1>1, <1>2, <1>3, <1>10, <1>11, QuietHandStep

\* The tokens of page i, which starts at d, among the first m.
LEMMA FillFrom ==
  ASSUME NEW m \in Nat, NEW i \in Nat, NEW d, d = i * PageSize
  PROVE  FillMark(m, i) = IF d + PageSize <= m THEN PageSize
                          ELSE IF m <= d THEN 0 ELSE m - d
<1>1. FillMark(m, i) = IF (i + 1) * PageSize <= m THEN PageSize
                       ELSE IF m <= i * PageSize THEN 0 ELSE m - i * PageSize
  BY FillMarks, Zenon
<1>2. (i + 1) * PageSize = i * PageSize + PageSize
  BY Multiples
<1>. QED BY ONLY <1>1, <1>2, d = i * PageSize

\* What taking tokens back leaves on the last page that has some of them.
TakenBack(q, n, i, kv, r) ==
  /\ r \in 1 .. n /\ r \in 1 .. kv /\ kv \in 0 .. PageSize
  /\ PageAt(q) <= i
  /\ FillMark(q + (n - r), i) = kv - r
  /\ \A m \in Nat : m # i => FillMark(q + (n - r), m) = FillMark(q + n, m)

LEMMA RejectMarks ==
  ASSUME NEW q \in Nat, NEW n \in Nat, n > 0, NEW i \in Nat, i = PageAt(q + n - 1),
         NEW kv, kv = FillMark(q + n, i), NEW r, r = Smaller(kv, n)
  PROVE  TakenBack(q, n, i, kv, r)
<1>. DEFINE d == i * PageSize
            b == q + n - 1
<1>1. d \in Nat /\ d <= b /\ b < d + PageSize /\ (i + 1) * PageSize = d + PageSize
      /\ PageSize \in Nat \ {0} /\ b \in Nat
  <2>1. b \in Nat /\ i = PageAt(b)
    OBVIOUS
  <2>. HIDE DEF b
  <2>2. PageAt(b) * PageSize \in Nat /\ PageAt(b) * PageSize <= b
        /\ b < PageAt(b) * PageSize + PageSize
    BY <2>1, Located
  <2>. QED BY <2>1, <2>2, Multiples, PageSizeAssumption
<1>2. PageAt(q) <= i
  BY PageAtMonotone
<1>3. \A m \in Nat : FillMark(m, i) = IF d + PageSize <= m THEN PageSize
                                      ELSE IF m <= d THEN 0 ELSE m - d
  BY FillFrom
<1>. HIDE DEF d
<1>4. q + n = b + 1 /\ q + n \in Nat /\ q \in Nat /\ n \in Nat /\ n >= 1
  OBVIOUS
<1>5. kv = q + n - d /\ kv \in 1 .. PageSize
  BY <1>1, <1>3, <1>4
<1>6. r = (IF kv < n THEN kv ELSE n) /\ r \in 1 .. n /\ r \in 1 .. kv
  BY <1>5 DEF Smaller
<1>7. /\ q + (n - r) \in Nat
      /\ r = kv => q + (n - r) = d
      /\ r # kv => r = n /\ n < kv /\ q + (n - r) = q
  BY <1>1, <1>5, <1>6
<1>8. FillMark(q + (n - r), i) = kv - r
  <2>1. CASE r = kv
    BY <1>1, <1>3, <1>5, <1>7, <2>1
  <2>2. CASE r # kv
    <3>1. d < q /\ q < d + PageSize /\ kv - r = q - d
      <4>1. r = n /\ n < kv /\ kv = q + n - d /\ q + n - 1 < d + PageSize
        BY <1>1, <1>5, <1>7, <2>2
      <4>2. d \in Nat /\ PageSize \in Nat
        BY <1>1
      <4>. QED BY ONLY <1>4, <4>1, <4>2
    <3>2. FillMark(q, i) = IF d + PageSize <= q THEN PageSize ELSE IF q <= d THEN 0 ELSE q - d
      BY <1>3, <1>4
    <3>3. FillMark(q, i) = q - d
      BY ONLY <1>1, <1>4, <3>1, <3>2
    <3>4. q + (n - r) = q
      BY <1>7, <2>2
    <3>. QED BY <3>1, <3>3, <3>4
  <2>. QED BY <2>1, <2>2
<1>9. ASSUME NEW m \in Nat, m # i PROVE FillMark(q + (n - r), m) = FillMark(q + n, m)
  <2>. DEFINE e == m * PageSize
  <2>1. e \in Nat /\ (m + 1) * PageSize = e + PageSize
    BY Multiples
  <2>2. \A x \in Nat : FillMark(x, m) = IF e + PageSize <= x THEN PageSize
                                        ELSE IF x <= e THEN 0 ELSE x - e
    BY FillFrom
  <2>3. e + PageSize <= d \/ d + PageSize <= e
    <3>1. m < i \/ i < m
      BY <1>9
    <3>. QED BY <3>1, Monotone DEF d
  <2>. HIDE DEF e, b
  <2>4. d <= q + (n - r) /\ q + (n - r) <= q + n /\ q + n <= d + PageSize
    BY ONLY <1>1, <1>4, <1>5, <1>6, <1>7
  <2>. DEFINE x == q + (n - r)
              y == q + n
  <2>5. x \in Nat /\ y \in Nat /\ d <= x /\ x <= y /\ y <= d + PageSize
    BY <1>4, <1>7, <2>4
  <2>. HIDE DEF x, y
  <2>6. FillMark(x, m) = FillMark(y, m)
    BY ONLY <1>1, <2>1, <2>2, <2>3, <2>5
  <2>. QED BY <2>6 DEF x, y
<1>10. kv \in 0 .. PageSize
  BY <1>1, <1>5
<1>. QED BY <1>2, <1>6, <1>8, <1>9, <1>10 DEF TakenBack

LEMMA RejectPageStep ==
  ASSUME CacheInv, BooksInv', RejectPage
  PROVE  CacheInv'
<1>. DEFINE J == job[cur]
            i == PageAt(J.pos + k - 1)
            p == J.pages[i + 1]
            kv == table.page[p].kv
            r == Smaller(kv, k)
<1>1. /\ cur \in Job /\ pc = "reject" /\ pc \in Sampling /\ pc' = pc
      /\ job' = job /\ k' = k - r /\ k > 0
      /\ UNCHANGED <<cache, serial>> /\ cur' = cur /\ todo' = todo
  BY ZenonT(30) DEF CacheInv, BooksInv, JobInHand, RejectPage, RejectedFrom, Sampling
<1>e. table' = [table EXCEPT !.page[p].kv = @ - r]
  BY DEF RejectPage, RejectedFrom
<1>f. CacheInv /\ BooksInv'
  OBVIOUS
<1>2. /\ J \in JobState /\ k \in Nat /\ Fine(J, "reject", k)
      /\ Served(table, cache, J, "reject", k, FALSE)
      /\ JobOK(J, "reject") /\ HandOK(J, "reject", k) /\ WaitOK(J)
      /\ PrefillDone(J) /\ J.pos + 1 = Len(J.ids) /\ J.stage = "active"
      /\ J.fate \in {"go", "requeue"}
  <2>1. /\ J \in JobState /\ Fine(J, pc, k)
    BY <1>1, HandHas
  <2>2. J.fate \in {"go", "requeue"}
    <3>1. HandOK(J, pc, k) /\ J.fate \in {"go", "eos", "requeue", "rewound", "cancelled"}
      BY <2>1, JobFields DEF Fine
    <3>. QED BY <1>1, <3>1 DEF HandOK, Sampling
  <2>3. LiveAs(J, pc)
    BY <1>1, <2>1, <2>2, LiveInHand
  <2>. QED BY <1>1, <2>2, <2>3, HandServed
<1>a. /\ PagesTyped(table) /\ Sound(table) /\ BasesApart(table, BlockTables)
      /\ PagesTrue(table, cache) /\ job \in [Job -> JobState]
  BY DEF CacheInv, Typed, BooksInv, Sound, PagesTyped
<1>b. \A l \in Job : job'[l].pages = job[l].pages
  BY <1>1
<1>c. job' = [job EXCEPT ![cur] = J]
  BY <1>1, <1>a
<1>. DEFINE low == LowAs(J, "reject")
            row == RowAs(J, "reject", k, FALSE)
<1>3. /\ NamesTrue(table, J, low) /\ LinksTrue(table, J, low)
      /\ ContentTrue(table, cache, J, row)
      /\ J.pos + k <= Len(J.pages) * PageSize /\ FilledTo(table, J, J.pos + k)
  BY <1>2 DEF Served, MarksTrue
<1>4. /\ low \in Nat /\ low <= PageAt(J.pos) /\ PageAt(J.pos) \in Nat /\ J.pos \in Nat
      /\ \A n : RowAs(J, "reject", n, FALSE) = row
  <2>1. LiveAs(J, "reject") /\ "reject" \in Sampling
    BY <1>2 DEF LiveAs, Sampling
  <2>. QED BY <1>2, <2>1, HandNumbers, JobFields DEF RowAs
<1>. HIDE DEF J, low, row
<1>5. i \in Nat /\ i \in Index(J) /\ p = PageOf(J, i) /\ p \in Page
  <2>. DEFINE b == J.pos + k - 1
  <2>1. b \in Nat
    BY <1>1, <1>2, <1>4
  <2>2. b < Len(J.pages) * PageSize
    <3>1. Len(J.pages) * PageSize \in Nat
      BY <1>2, JobFields, Multiples
    <3>. QED BY ONLY <1>2, <1>3, <1>4, <3>1
  <2>. HIDE DEF b
  <2>3. PageAt(b) \in Nat /\ PageAt(b) < Len(J.pages)
    BY <1>2, <2>1, <2>2, Located, PageBounds, JobFields
  <2>. QED BY <1>2, <2>3, PagesIndexed DEF b, PageOf
<1>6. kv = FillMark(J.pos + k, i)
  BY <1>3, <1>5 DEF FilledTo
<1>7. /\ r \in 1 .. k /\ r \in 1 .. kv /\ kv \in 0 .. PageSize
      /\ PageAt(J.pos) <= i
      /\ FillMark(J.pos + (k - r), i) = kv - r
      /\ \A m \in Nat : m # i => FillMark(J.pos + (k - r), m) = FillMark(J.pos + k, m)
  <2>. HIDE DEF kv, r
  <2>1. r = Smaller(kv, k) /\ i = PageAt(J.pos + k - 1)
    BY DEF r
  <2>. HIDE DEF i
  <2>2. J.pos \in Nat /\ k \in Nat /\ k > 0 /\ i \in Nat
    BY <1>1, <1>2, <1>4, <1>5
  <2>3. TakenBack(J.pos, k, i, kv, r)
    BY ONLY <1>6, <2>1, <2>2, RejectMarks
  <2>. QED BY ONLY <2>3 DEF TakenBack
<1>. HIDE DEF p, i, r
<1>8. i >= low /\ table.page[p].phash.base # 0
  <2>1. i >= low
    BY <1>4, <1>5, <1>7
  <2>. QED BY <1>3, <1>5, <2>1 DEF NamesTrue
<1>. DEFINE rec == [table.page[p] EXCEPT !.kv = kv - r]
<1>9. /\ rec \in CachePage /\ rec.kv = kv - r /\ rec.saved = table.page[p].saved
      /\ rec.phash = table.page[p].phash /\ rec.prev = table.page[p].prev
      /\ rec.toks = table.page[p].toks
  <2>1. table.page[p] \in CachePage
    BY <1>5, <1>a, RecordFields
  <2>2. kv - r \in 0 .. PageSize
    BY ONLY <1>7, PageSizeAssumption
  <2>. HIDE DEF kv
  <2>. QED BY <2>1, <2>2 DEF CachePage
<1>10. Replaced(table, table', p, rec)
  <2>1. IsTable(table') /\ IsTable(table)
    BY <1>a DEF BooksInv, Sound, PagesTyped
  <2>2. table'.page = [table.page EXCEPT ![p] = rec]
    BY <1>e, <2>1 DEF IsTable
  <2>. QED BY <2>1, <2>2 DEF Replaced
<1>. HIDE DEF rec
<1>11. /\ PagesTyped(table') /\ table'.page[p] = rec
       /\ \A q \in Page \ {p} : table'.page[q] = table.page[q]
  BY <1>5, <1>a, <1>9, <1>10, OneRecord
<1>12. Unfiled(table, table', p)
  BY <1>9, <1>11 DEF Unfiled
<1>13. PagesTrue(table', cache)
  <2>. SUFFICES ASSUME NEW q \in Page PROVE TruePage(table'.page[q], cache[q])
    BY DEF PagesTrue
  <2>1. TruePage(table.page[q], cache[q])
    BY <1>a DEF PagesTrue
  <2>2. CASE q = p
    <3>. DEFINE s == table.page[p]
                n == kv - r
    <3>1. /\ Truth(s.phash, s.prev, kv, s.toks, cache[p])
          /\ s.saved # None => Truth(s.saved.phash, s.saved.prev, s.saved.kv, s.toks, cache[p])
          /\ Identified(s)
      BY <2>1, <2>2 DEF TruePage
    <3>2. kv \in 0 .. PageSize /\ n \in 0 .. kv /\ n < PageSize
      BY ONLY <1>7, PageSizeAssumption
    <3>3. rec.phash = s.phash /\ rec.prev = s.prev /\ rec.toks = s.toks /\ rec.kv = n
          /\ rec.saved = s.saved
      BY <1>9
    <3>. HIDE DEF s, n, kv
    <3>4. Truth(s.phash, s.prev, n, s.toks, cache[p])
      BY ONLY <3>1, <3>2, TruthCut
    <3>. QED BY ONLY <1>11, <2>2, <3>1, <3>3, <3>4 DEF TruePage, Identified
  <2>3. CASE q # p
    BY <1>11, <2>1, <2>3
  <2>. QED BY <2>2, <2>3
<1>14. BasesApart(table, BlockTables)'
  BY <1>1, <1>5, <1>8, <1>12, <1>b, UnfiledApart DEF J
<1>15. \A n \in Index(J) : PageOf(J, n) = p => n = i
  <2>1. SolePlace(BlockTables, p, cur, i + 1)
    BY <1>1, <1>5, <1>8, OwnPlace DEF J
  <2>. SUFFICES ASSUME NEW n \in Index(J), PageOf(J, n) = p PROVE n = i
    OBVIOUS
  <2>2. n + 1 \in DOMAIN BlockTables[cur] /\ BlockTables[cur][n + 1] = p /\ n \in Nat
    BY <1>1, <1>2, PagesIndexed DEF BlockTables, PageOf, J
  <2>3. n + 1 = i + 1
    BY <1>1, <2>1, <2>2 DEF SolePlace
  <2>. QED BY <1>5, <2>2, <2>3
<1>16. Served(table', cache, J, "reject", k - r, FALSE)
  <2>1. NamesTrue(table', J, low) /\ LinksTrue(table', J, low) /\ ContentTrue(table', cache, J, row)
    BY <1>2, <1>3, <1>4, <1>5, <1>8, <1>12, <1>15, UnfiledServed
  <2>2. FilledTo(table', J, J.pos + (k - r))
    <3>. SUFFICES ASSUME NEW m \in Index(J)
                  PROVE  table'.page[PageOf(J, m)].kv = FillMark(J.pos + (k - r), m)
      BY DEF FilledTo
    <3>1. m \in Nat /\ PageOf(J, m) \in Page
      BY <1>2, PagesIndexed
    <3>2. CASE m = i
      BY <1>5, <1>7, <1>9, <1>11, <3>2
    <3>3. CASE m # i
      <4>1. table'.page[PageOf(J, m)].kv = table.page[PageOf(J, m)].kv
        BY <1>11, <1>15, <3>1, <3>3
      <4>2. table.page[PageOf(J, m)].kv = FillMark(J.pos + k, m)
        BY <1>3 DEF FilledTo
      <4>. QED BY <1>7, <3>1, <3>3, <4>1, <4>2
    <3>. QED BY <3>2, <3>3
  <2>3. J.pos + (k - r) <= Len(J.pages) * PageSize
    <3>1. Len(J.pages) * PageSize \in Nat
      BY <1>2, JobFields, Multiples
    <3>. QED BY ONLY SMTT(30), <1>2, <1>3, <1>4, <1>7, <3>1
  <2>4. MarksTrue(table', J, "reject", k - r, row)
    BY <1>2, <2>2, <2>3 DEF MarksTrue
  <2>. QED BY <1>4, <2>1, <2>4 DEF Served, low
<1>17. Fine(J, "reject", k - r)
  <2>1. HandOK(J, "reject", k - r)
    BY <1>2 DEF HandOK
  <2>. QED BY <1>2, <2>1 DEF Fine
<1>18. \A l \in Job \ {cur} : Undisturbed(l)
  <2>1. \A q \in Page :
          \/ SamePage(table.page[q], table'.page[q]) /\ cache'[q] = cache[q]
          \/ \E n \in Index(job[cur]) : PageOf(job[cur], n) = q /\ table.page[q].phash.base # 0
    BY <1>1, <1>5, <1>8, <1>11 DEF SamePage, J
  <2>. QED BY <1>1, <2>1, OthersUndisturbed
<1>19. k' \in Nat /\ k' = k - r /\ pc' = "reject" /\ pc' \in Sampling
  BY <1>1, <1>2, <1>7
<1>20. Owed(table', cache, J, "reject", k - r, FALSE)
  BY <1>16 DEF Owed
<1>21. /\ Fine(J, pc', k') /\ Owed(table', cache, J, pc', k', FALSE)
       /\ J.fate = "rewound" => pc' \in {"rewind", "verify", "reject"}
  BY ONLY <1>17, <1>19, <1>20
<1>. QED BY ONLY <1>1, <1>2, <1>11, <1>13, <1>14, <1>18, <1>19, <1>21, <1>c, <1>f, HandStep

-----------------------------------------------------------------------------
(* Steps that touch no page: the job in hand leaves and the next one comes. *)

LEMMA JobsNamed == \A j \in Job : j # NoJob
BY NoJobAssumption

LEMMA RejectDoneStep ==
  ASSUME CacheInv, BooksInv', RejectDone
  PROVE  CacheInv'
<1>. DEFINE J == job[cur]
            K == [J EXCEPT !.draft = <<>>, !.fate = IF @ = "rewound" THEN "go" ELSE @]
<1>1. /\ cur \in Job /\ pc = "reject" /\ pc \in Sampling /\ k = 0
      /\ job' = [job EXCEPT ![cur] = K] /\ pc' = "sample" /\ pc' \in Sampling /\ cur' = NoJob
      /\ UNCHANGED <<table, cache, serial, todo, k>>
  BY DEF CacheInv, BooksInv, JobInHand, RejectDone, Sampling, Typed
<1>2. /\ J \in JobState /\ Fine(J, "reject", 0) /\ Owed(table, cache, J, "reject", 0, FALSE)
      /\ J.stage = "active" /\ J.fate \in {"go", "eos", "requeue", "rewound"}
      /\ PrefillDone(J) /\ J.pos + 1 = Len(J.ids) /\ WaitOK(J)
  <2>1. J \in JobState /\ Fine(J, "reject", 0) /\ Owed(table, cache, J, "reject", 0, FALSE)
    BY <1>1, HandHas
  <2>2. /\ J.stage = "active" /\ J.fate # "cancelled" /\ PrefillDone(J) /\ J.pos + 1 = Len(J.ids)
        /\ WaitOK(J)
    BY <1>1, <2>1, InHand
  <2>. QED BY <2>1, <2>2, JobFields
<1>. HIDE DEF J
<1>3. /\ K \in JobState /\ K.stage = J.stage /\ K.ids = J.ids /\ K.plen = J.plen
      /\ K.limit = J.limit /\ K.pos = J.pos /\ K.pages = J.pages /\ K.draft = <<>>
      /\ K.offset = J.offset /\ K.deferred = J.deferred
      /\ K.fate = IF J.fate = "rewound" THEN "go" ELSE J.fate
  <2>1. <<>> \in Seq(Token) /\ J \in JobState
    BY <1>2
  <2>. QED BY ONLY <2>1 DEF JobState
<1>. HIDE DEF K
<1>4. /\ PrefillDone(K) /\ NewTokens(K) = NewTokens(J) /\ Settled(K) = Settled(J)
      /\ (Fits(J) => Fits(K)) /\ (Deferrals(J) => Deferrals(K))
      /\ (Holding(K) <=> Holding(J)) /\ \A n : Reaches(J, n) => Reaches(K, n)
  <2>1. PrefillDone(K) /\ NewTokens(K) = NewTokens(J) /\ Settled(K) = Settled(J)
        /\ (Holding(K) <=> Holding(J)) /\ (Deferrals(J) => Deferrals(K))
    BY <1>2, <1>3 DEF PrefillDone, NewTokens, Settled, Holding, Deferrals
  <2>. QED BY <1>3, <2>1 DEF Fits, Reaches
<1>5. Fine(K, "none", 0)
  <2>1. WaitOK(K)
    BY <1>2, <1>3, <1>4 DEF WaitOK
  <2>2. HandOK(K, "none", 0)
    BY DEF HandOK, Sampling
  <2>3. ASSUME LiveAs(K, "none") PROVE JobOK(K, "none")
    <3>1. J.fate \in {"go", "rewound"}
      BY <1>2, <1>3, <2>3 DEF LiveAs
    <3>2. JobOK(J, "reject")
      BY <1>2, <3>1 DEF Fine, LiveAs
    <3>3. Fits(J)
      BY <3>1, <3>2 DEF JobOK
    <3>. QED BY <1>3, <1>4, <3>2, <3>3 DEF JobOK
  <2>. QED BY <2>1, <2>2, <2>3 DEF Fine
<1>6. Owed(table, cache, K, "none", 0, FALSE)
  <2>. SUFFICES ASSUME LiveAs(K, "none") PROVE Served(table, cache, K, "none", 0, FALSE)
    BY DEF Owed
  <2>1. LiveAs(J, "reject") /\ "reject" \in Sampling
    BY <1>2, <1>3 DEF LiveAs, Sampling
  <2>. DEFINE low == LowAs(J, "reject")
              row == Settled(J)
  <2>2. RowAs(J, "reject", 0, FALSE) = row /\ RowAs(K, "none", 0, FALSE) = row
    BY <1>4 DEF RowAs
  <2>3. LowAs(K, "none") = low /\ low \in Nat
    BY <1>2, <1>3, <1>4, <2>1, LowOfDeferred, HandNumbers
  <2>4. Len(row) = J.pos /\ J.pos \in Nat
    BY <1>2, JobFields, Prefix DEF Settled
  <2>. HIDE DEF low, row
  <2>5. /\ NamesTrue(table, J, low) /\ LinksTrue(table, J, low)
        /\ ContentTrue(table, cache, J, row) /\ FilledTo(table, J, J.pos + 0)
    BY <1>2, <2>1, <2>2 DEF Owed, Served, MarksTrue, low
  <2>6. FilledTo(table, J, Len(row))
    BY <2>4, <2>5
  <2>7. SameStart(J, K, low)
    BY <1>3, SameStartItself
  <2>8. NamesTrue(table, K, low) /\ LinksTrue(table, K, low)
    BY <1>2, <1>3, <1>4, <2>3, <2>5, <2>7, NamesMoved
  <2>9. ContentTrue(table, cache, K, row) /\ FilledTo(table, K, Len(row))
    BY <1>3, <2>5, <2>6, ContentMoved
  <2>10. MarksTrue(table, K, "none", 0, row)
    BY <1>4, <2>9 DEF MarksTrue
  <2>. QED BY <2>2, <2>3, <2>8, <2>9, <2>10 DEF Served
<1>7. /\ job'[cur] = K /\ \A l \in Job \ {cur} : job'[l] = job[l]
      /\ job' \in [Job -> JobState]
  BY <1>1, <1>3 DEF CacheInv, Typed
<1>8. \A l \in Job : Phase(l)' = "none" /\ Turn(l)' = 0
  BY <1>1, NoJobAssumption DEF Phase, Turn
<1>9. cur \notin todo /\ todo \subseteq Job
  BY <1>1 DEF CacheInv, Turns, Typed
<1>10. \A l \in Job \ {cur} : Stays(l)
  <2>. SUFFICES ASSUME NEW l \in Job \ {cur} PROVE Stays(l)
    OBVIOUS
  <2>1. Phase(l) = "none" /\ Turn(l) = 0
    BY OtherPhase
  <2>2. Drafted(l)' = Drafted(l)
    BY <1>1, <1>7 DEF Drafted
  <2>. QED BY <1>7, <1>8, <2>1, <2>2 DEF Stays
<1>11. \A l \in {cur} : JobFine(l)' /\ JobServed(l)'
  <2>. SUFFICES ASSUME NEW l \in {cur} PROVE JobFine(l)' /\ JobServed(l)'
    OBVIOUS
  <2>0. l = cur /\ l \in Job
    BY <1>1
  <2>1. Drafted(l)' = FALSE
    BY <1>1, <1>9, <2>0 DEF Drafted, Sampling
  <2>2. job'[l] = K /\ Phase(l)' = "none" /\ Turn(l)' = 0
    BY <1>7, <1>8, <2>0
  <2>3. table' = table /\ cache' = cache
    BY <1>1
  <2>4. Fine(job'[l], Phase(l)', Turn(l)')
    BY ONLY <1>5, <2>2
  <2>5. Owed(table', cache', job'[l], Phase(l)', Turn(l)', Drafted(l)')
    BY ONLY <1>6, <2>1, <2>2, <2>3
  <2>. QED BY <2>4, <2>5 DEF JobFine, JobServed
<1>12. Turns'
  <2>1. \A l \in todo : job'[l] = job[l]
    BY <1>7, <1>9
  <2>2. \A l \in todo' : job'[l].stage = "active" /\ job'[l].fate = "go" /\ PrefillDone(job'[l])
    BY <1>1, <2>1 DEF CacheInv, Turns
  <2>3. cur' \notin todo'
    BY <1>1, <1>9, NoJobAssumption
  <2>4. \A l \in Job : job'[l].stage = "active" => job'[l].fate # "rewound"
    <3>. SUFFICES ASSUME NEW l \in Job, job'[l].stage = "active", job'[l].fate = "rewound"
                  PROVE  FALSE
      OBVIOUS
    <3>1. CASE l = cur
      BY <1>3, <1>7, <3>1
    <3>2. CASE l # cur
      BY <1>7, <3>2, OtherPhase DEF CacheInv, Turns, Active
    <3>. QED BY <3>1, <3>2
  <2>. QED BY <1>1, <2>2, <2>3, <2>4 DEF Turns, Active, Sampling, PrefillDone
<1>13. \A l \in Job : job'[l].pages = job[l].pages
  BY <1>3, <1>7 DEF J
<1>14. todo' \subseteq Job /\ k' \in Nat
  BY <1>1, <1>9
<1>. DEFINE M == {cur}
<1>15. \A l \in Job \ M : Stays(l)
  BY <1>10
<1>16. \A l \in M : JobFine(l)' /\ JobServed(l)'
  BY <1>11
<1>. HIDE DEF M
<1>. QED BY <1>1, <1>7, <1>12, <1>13, <1>14, <1>15, <1>16, QuietStep

LEMMA NextRowStep ==
  ASSUME CacheInv, BooksInv', NEW j \in Job, NextRow(j)
  PROVE  CacheInv'
<1>. DEFINE J == job[j]
<1>1. /\ pc = "sample" /\ pc' = "sample" /\ cur = NoJob /\ cur' = j /\ k' = 0 /\ j \in todo
      /\ todo' = todo \ {j} /\ job' = job
      /\ UNCHANGED <<table, cache, serial>>
  BY DEF NextRow
<1>2. \A l \in Job : Phase(l) = "none" /\ Turn(l) = 0
  BY <1>1, NoJobAssumption DEF Phase, Turn
<1>3. \A l \in Job : /\ Phase(l)' = (IF l = j THEN "sample" ELSE "none")
                     /\ Turn(l)' = 0
  BY <1>1 DEF Phase, Turn, Sampling
<1>4. J \in JobState /\ J.stage = "active" /\ J.fate = "go" /\ PrefillDone(J)
      /\ J.draft \in Seq(Token)
  <2>1. J \in JobState /\ J.stage = "active" /\ J.fate = "go" /\ PrefillDone(J)
    BY <1>1 DEF CacheInv, Turns, Typed, Sampling
  <2>. QED BY <2>1, JobFields
<1>5. Fine(J, "none", 0) /\ Owed(table, cache, J, "none", 0, TRUE)
  <2>1. Drafted(j) = TRUE
    BY <1>1, <1>4 DEF Drafted, Sampling
  <2>2. JobFine(j) /\ JobServed(j)
    BY DEF CacheInv
  <2>. QED BY <1>2, <2>1, <2>2 DEF JobFine, JobServed
<1>. HIDE DEF J
<1>6. /\ LiveAs(J, "none") /\ WaitOK(J) /\ JobOK(J, "none")
      /\ Served(table, cache, J, "none", 0, TRUE)
  BY <1>4, <1>5 DEF LiveAs, Fine, Owed
<1>7. JobOK(J, "sample")
  BY <1>4, <1>6 DEF JobOK
<1>8. HandOK(J, "sample", 0)
  <2>1. 0 <= Len(J.draft)
    BY <1>4
  <2>. QED BY <1>4, <2>1 DEF HandOK
<1>9. Served(table, cache, J, "sample", 0, FALSE)
  <2>1. Rest(J, 0) = J.draft
    <3>1. Rest(J, 0) = SubSeq(J.draft, 1, Len(J.draft))
      BY DEF Rest
    <3>. QED BY <1>4, <3>1, WholePrefix
  <2>2. RowAs(J, "sample", 0, FALSE) = RowAs(J, "none", 0, TRUE)
    BY <2>1 DEF RowAs
  <2>3. LowAs(J, "none") = LowAs(J, "sample")
    BY <1>4, LowOfDeferred
  <2>4. LowAs(J, "sample") \in Nat
    <3>1. Fine(J, "sample", 0)
      BY <1>6, <1>7, <1>8 DEF Fine
    <3>. QED BY <1>4, <3>1, LiveInHand, HandNumbers DEF Sampling
  <2>5. SameStart(J, J, LowAs(J, "none"))
    BY SameStartItself
  <2>. QED BY <1>4, <1>6, <2>2, <2>3, <2>4, <2>5, ServedMoved
<1>10. job' \in [Job -> JobState] /\ todo' \subseteq Job /\ k' \in Nat
       /\ \A l \in Job : job'[l].pages = job[l].pages
  BY <1>1 DEF CacheInv, Typed
<1>. DEFINE M == {j}
<1>11. \A l \in Job \ M : Stays(l)
  <2>. SUFFICES ASSUME NEW l \in Job \ {j} PROVE Stays(l)
    OBVIOUS
  <2>1. Drafted(l)' = Drafted(l)
    BY <1>1 DEF Drafted
  <2>. QED BY <1>1, <1>2, <1>3, <2>1 DEF Stays
<1>12. \A l \in M : JobFine(l)' /\ JobServed(l)'
  <2>. SUFFICES JobFine(j)' /\ JobServed(j)'
    OBVIOUS
  <2>1. Drafted(j)' = FALSE
    BY <1>1 DEF Drafted, Sampling
  <2>2. job'[j] = J /\ Phase(j)' = "sample" /\ Turn(j)' = 0
    BY <1>1, <1>3 DEF J
  <2>3. table' = table /\ cache' = cache
    BY <1>1
  <2>4. Fine(job'[j], Phase(j)', Turn(j)')
    BY ONLY <1>6, <1>7, <1>8, <2>2 DEF Fine
  <2>5. Owed(table', cache', job'[j], Phase(j)', Turn(j)', Drafted(j)')
    BY ONLY <1>9, <2>1, <2>2, <2>3 DEF Owed
  <2>. QED BY <2>4, <2>5 DEF JobFine, JobServed
<1>. HIDE DEF M
<1>13. Turns'
  <2>1. \A l \in todo' : job'[l].stage = "active" /\ job'[l].fate = "go" /\ PrefillDone(job'[l])
    BY <1>1 DEF CacheInv, Turns, Sampling
  <2>2. cur' \notin todo'
    BY <1>1
  <2>3. \A l \in Job : job'[l].stage = "active" => job'[l].fate # "rewound"
    BY <1>1, <1>2 DEF CacheInv, Turns, Active
  <2>. QED BY <1>1, <2>1, <2>2, <2>3 DEF Turns, Active, Sampling, PrefillDone
<1>. QED BY <1>1, <1>10, <1>11, <1>12, <1>13, QuietStep

-----------------------------------------------------------------------------
(* Steps with no job in hand, before the forward pass and after the last row. *)

LEMMA OutsideStep ==
  ASSUME CacheInv, BooksInv',
         pc \in {"idle", "start", "prefill", "release"},
         pc' \in {"idle", "start", "prefill", "release"},
         table' = table, cache' = cache, serial' = serial,
         job' \in [Job -> JobState], todo' \subseteq Job, k' \in Nat, Turns', NEW M,
         \A l \in Job \ M : job'[l] = job[l],
         \A l \in M : /\ Fine(job'[l], "none", 0)
                      /\ Owed(table, cache, job'[l], "none", 0, FALSE),
         \A l \in Job : job'[l].pages = job[l].pages
  PROVE  CacheInv'
<1>1. \A l : /\ Phase(l) = "none" /\ Turn(l) = 0 /\ Drafted(l) = FALSE
             /\ Phase(l)' = "none" /\ Turn(l)' = 0 /\ Drafted(l)' = FALSE
  BY DEF Phase, Turn, Drafted, Sampling
<1>2. \A l \in Job \ M : Stays(l)
  BY <1>1 DEF Stays
<1>3. \A l \in M : JobFine(l)' /\ JobServed(l)'
  <2>. SUFFICES ASSUME NEW l \in M PROVE JobFine(l)' /\ JobServed(l)'
    OBVIOUS
  <2>1. Fine(job'[l], "none", 0) /\ Owed(table, cache, job'[l], "none", 0, FALSE)
    OBVIOUS
  <2>2. /\ Phase(l)' = "none" /\ Turn(l)' = 0 /\ Drafted(l)' = FALSE
        /\ table' = table /\ cache' = cache
    BY <1>1
  <2>3. Fine(job'[l], Phase(l)', Turn(l)')
        /\ Owed(table', cache', job'[l], Phase(l)', Turn(l)', Drafted(l)')
    BY ONLY <2>1, <2>2
  <2>. QED BY <2>3 DEF JobFine, JobServed
<1>. QED BY <1>2, <1>3, QuietStep

\* A job that is over owes nothing and is owed nothing.
LEMMA OverFine ==
  ASSUME NEW J, J.stage # "pending", J.stage = "active" => J.fate = "cancelled"
  PROVE  Fine(J, "none", 0) /\ \A t, c, d : Owed(t, c, J, "none", 0, d)
<1>1. ~ LiveAs(J, "none")
  BY DEF LiveAs
<1>2. WaitOK(J) /\ HandOK(J, "none", 0)
  BY DEF WaitOK, HandOK, Sampling
<1>. QED BY <1>1, <1>2 DEF Fine, Owed

LEMMA FreshType ==
  ASSUME NEW s \in {"new", "pending", "active", "done"}
  PROVE  /\ [Fresh EXCEPT !.stage = s] \in JobState
         /\ [Fresh EXCEPT !.stage = s].pages = <<>>
         /\ [Fresh EXCEPT !.stage = s].stage = s
<1>1. <<>> \in Seq(Token) /\ <<>> \in Seq(Page) /\ <<>> \in Seq(Nat)
  OBVIOUS
<1>. QED BY <1>1 DEF Fresh, JobState

LEMMA EnqueueStep ==
  ASSUME PromptsOpen, CacheInv, BooksInv', NEW j \in Job, Enqueue(j)
  PROVE  CacheInv'
<1>1. /\ pc = "idle" /\ pc' = "idle" /\ job[j].stage = "new"
      /\ UNCHANGED <<table, serial, cache, cur, todo, order, k>>
  BY DEF Enqueue
<1>2. PICK prompt \in Prompts, asked \in MaxNew :
        job' = [job EXCEPT ![j] = [Fresh EXCEPT !.stage = "pending", !.ids = prompt,
                                     !.plen = Len(prompt),
                                     !.limit = CappedLimit(Len(prompt), asked)]]
  BY DEF Enqueue
<1>. DEFINE limit == CappedLimit(Len(prompt), asked)
            K == [Fresh EXCEPT !.stage = "pending", !.ids = prompt,
                               !.plen = Len(prompt), !.limit = limit]
<1>3. prompt \in Seq(Token) /\ Len(prompt) \in Nat /\ Opens(Bos, prompt) /\ Len(prompt) >= 1
  BY BosType, JobsAssumption DEF Opens
<1>4. limit \in Nat /\ limit >= 1
  <2>1. asked \in Nat /\ asked >= 1
    BY JobsAssumption
  <2>2. MaxTokens \in Nat /\ MaxDraft \in Nat
    BY NumPagesAssumption, PageSizeAssumption, JobsAssumption DEF MaxTokens
  <2>3. Minus(MaxTokens, Len(prompt) + 1 + MaxDraft) \in Nat
    BY <1>3, <2>2 DEF Minus
  <2>. QED BY <2>1, <2>3 DEF CappedLimit, Smaller
<1>. HIDE DEF limit
<1>5. /\ K \in JobState /\ K.stage = "pending" /\ K.ids = prompt /\ K.plen = Len(prompt)
      /\ K.limit = limit /\ K.pos = 0 /\ K.pages = <<>> /\ K.offset = None
      /\ K.deferred = <<>> /\ K.fate = "go"
  <2>1. <<>> \in Seq(Token) /\ <<>> \in Seq(Page) /\ <<>> \in Seq(Nat)
    OBVIOUS
  <2>. QED BY <1>3, <1>4, <2>1 DEF Fresh, JobState
<1>6. job' = [job EXCEPT ![j] = K]
  BY <1>2 DEF limit
<1>. HIDE DEF K
<1>7. Fine(K, "none", 0) /\ Owed(table, cache, K, "none", 0, FALSE)
  <2>1. 0 % PageSize = 0
    BY PageSizeAssumption
  <2>2. Untouched(K)
    BY <1>3, <1>5, <2>1 DEF Untouched
  <2>3. WaitOK(K) /\ HandOK(K, "none", 0) /\ ~ LiveAs(K, "none")
    BY <1>3, <1>4, <1>5, <2>2 DEF WaitOK, HandOK, Sampling, LiveAs
  <2>. QED BY <2>3 DEF Fine, Owed
<1>8. /\ job'[j] = K /\ \A l \in Job \ {j} : job'[l] = job[l]
      /\ job' \in [Job -> JobState] /\ todo' \subseteq Job /\ k' \in Nat
  BY <1>1, <1>5, <1>6 DEF CacheInv, Typed
<1>9. \A l \in Job : job'[l].pages = job[l].pages
  <2>1. job[j].pages = <<>>
    BY <1>1 DEF CacheInv, BooksInv, PagesOfActive
  <2>. QED BY <1>5, <1>8, <2>1
<1>10. Turns'
  <2>1. \A l \in Job : job'[l].stage = "active" => job'[l].fate = "go"
    BY <1>1, <1>5, <1>8 DEF CacheInv, Turns, Active
  <2>. QED BY <1>1, <2>1 DEF Turns, Active, Sampling
<1>. DEFINE M == {j}
<1>11. /\ \A l \in Job \ M : job'[l] = job[l]
       /\ \A l \in M : Fine(job'[l], "none", 0) /\ Owed(table, cache, job'[l], "none", 0, FALSE)
  BY <1>7, <1>8
<1>. HIDE DEF M
<1>. QED BY <1>1, <1>8, <1>9, <1>10, <1>11, OutsideStep

LEMMA CancelPendingStep ==
  ASSUME CacheInv, BooksInv', NEW j \in Job, CancelPending(j)
  PROVE  CacheInv'
<1>. DEFINE K == [Fresh EXCEPT !.stage = "done"]
<1>1. /\ pc = "idle" /\ pc' = "idle" /\ job[j].stage = "pending"
      /\ job' = [job EXCEPT ![j] = K]
      /\ UNCHANGED <<table, serial, cache, cur, todo, order, k>>
  BY DEF CancelPending
<1>2. K \in JobState /\ K.pages = <<>> /\ K.stage = "done"
  BY FreshType
<1>. HIDE DEF K
<1>3. Fine(K, "none", 0) /\ Owed(table, cache, K, "none", 0, FALSE)
  BY <1>2, OverFine
<1>8. /\ job'[j] = K /\ \A l \in Job \ {j} : job'[l] = job[l]
      /\ job' \in [Job -> JobState] /\ todo' \subseteq Job /\ k' \in Nat
  BY <1>1, <1>2 DEF CacheInv, Typed
<1>9. \A l \in Job : job'[l].pages = job[l].pages
  <2>1. job[j].pages = <<>>
    BY <1>1 DEF CacheInv, BooksInv, PagesOfActive
  <2>. QED BY <1>2, <1>8, <2>1
<1>10. Turns'
  <2>1. \A l \in Job : job'[l].stage = "active" => job'[l].fate = "go"
    BY <1>1, <1>2, <1>8 DEF CacheInv, Turns, Active
  <2>. QED BY <1>1, <2>1 DEF Turns, Active, Sampling
<1>. DEFINE M == {j}
<1>11. /\ \A l \in Job \ M : job'[l] = job[l]
       /\ \A l \in M : Fine(job'[l], "none", 0) /\ Owed(table, cache, job'[l], "none", 0, FALSE)
  BY <1>3, <1>8
<1>. HIDE DEF M
<1>. QED BY <1>1, <1>8, <1>9, <1>10, <1>11, OutsideStep

LEMMA CancelledType ==
  ASSUME NEW J \in JobState
  PROVE  LET K == [J EXCEPT !.fate = "cancelled"] IN
         K \in JobState /\ K.fate = "cancelled" /\ K.stage = J.stage /\ K.pages = J.pages
BY DEF JobState

LEMMA CancelActiveStep ==
  ASSUME CacheInv, BooksInv', NEW j \in Job, CancelActive(j)
  PROVE  CacheInv'
<1>. DEFINE K == [job[j] EXCEPT !.fate = "cancelled"]
<1>1. /\ pc = "idle" /\ pc' = "release" /\ job[j].stage = "active"
      /\ job' = [job EXCEPT ![j] = K]
      /\ UNCHANGED <<table, serial, cache, cur, todo, order, k>>
  BY DEF CancelActive, CacheInv, Typed
<1>2. K \in JobState /\ K.pages = job[j].pages /\ K.stage = "active" /\ K.fate = "cancelled"
  BY <1>1, CancelledType DEF CacheInv, Typed
<1>. HIDE DEF K
<1>3. Fine(K, "none", 0) /\ Owed(table, cache, K, "none", 0, FALSE)
  BY <1>2, OverFine
<1>8. /\ job'[j] = K /\ \A l \in Job \ {j} : job'[l] = job[l]
      /\ job' \in [Job -> JobState] /\ todo' \subseteq Job /\ k' \in Nat
  BY <1>1, <1>2 DEF CacheInv, Typed
<1>9. \A l \in Job : job'[l].pages = job[l].pages
  BY <1>2, <1>8
<1>10. Turns'
  <2>1. \A l \in Job : job'[l].stage = "active" => job'[l].fate # "rewound"
    BY <1>1, <1>2, <1>8 DEF CacheInv, Turns, Active
  <2>. QED BY <1>1, <2>1 DEF Turns, Active, Sampling
<1>. DEFINE M == {j}
<1>11. /\ \A l \in Job \ M : job'[l] = job[l]
       /\ \A l \in M : Fine(job'[l], "none", 0) /\ Owed(table, cache, job'[l], "none", 0, FALSE)
  BY <1>3, <1>8
<1>. HIDE DEF M
<1>. QED BY <1>1, <1>8, <1>9, <1>10, <1>11, OutsideStep

LEMMA ClearQueueStep ==
  ASSUME CacheInv, BooksInv', ClearQueue
  PROVE  CacheInv'
<1>1. /\ pc = "idle" /\ pc' = "release"
      /\ UNCHANGED <<table, serial, cache, cur, todo, order, k>>
  BY DEF ClearQueue
<1>2. job \in [Job -> JobState] /\ \A l \in Job : job[l] \in JobState
  BY DEF CacheInv, Typed
<1>3. \A l \in Job :
         job'[l] = IF job[l].stage = "active" THEN [job[l] EXCEPT !.fate = "cancelled"]
                   ELSE IF job[l].stage = "pending" THEN [Fresh EXCEPT !.stage = "done"]
                   ELSE job[l]
  BY DEF ClearQueue, Active, Pending
<1>4. DOMAIN job' = Job /\ job' = [l \in Job |-> job'[l]]
  BY DEF ClearQueue
<1>5. ASSUME NEW l \in Job
      PROVE  /\ job'[l] \in JobState /\ job'[l].pages = job[l].pages
             /\ job'[l].stage # "pending"
             /\ job'[l].stage = "active" => job'[l].fate = "cancelled"
  <2>1. CASE job[l].stage = "active"
    <3>. DEFINE K == [job[l] EXCEPT !.fate = "cancelled"]
    <3>1. /\ K \in JobState /\ K.fate = "cancelled" /\ K.stage = job[l].stage
          /\ K.pages = job[l].pages
      BY <1>2, CancelledType
    <3>2. job'[l] = K
      BY <1>3, <2>1
    <3>. HIDE DEF K
    <3>. QED BY <2>1, <3>1, <3>2
  <2>2. CASE job[l].stage = "pending"
    <3>1. job[l].pages = <<>>
      BY <2>2 DEF CacheInv, BooksInv, PagesOfActive
    <3>. QED BY <1>3, <2>2, <3>1, FreshType
  <2>3. CASE job[l].stage # "active" /\ job[l].stage # "pending"
    BY <1>2, <1>3, <2>3
  <2>. QED BY <2>1, <2>2, <2>3
<1>6. \A l \in Job : Fine(job'[l], "none", 0) /\ Owed(table, cache, job'[l], "none", 0, FALSE)
  BY <1>5, OverFine
<1>7. job' \in [Job -> JobState] /\ todo' \subseteq Job /\ k' \in Nat
  BY <1>1, <1>4, <1>5 DEF CacheInv, Typed
<1>8. Turns'
  <2>1. \A l \in Job : job'[l].stage = "active" => job'[l].fate # "rewound"
    BY <1>5
  <2>. QED BY <1>1, <2>1 DEF Turns, Active, Sampling
<1>9. \A l \in Job : job'[l].pages = job[l].pages
  BY <1>5
<1>. DEFINE M == Job
<1>10. /\ \A l \in Job \ M : job'[l] = job[l]
       /\ \A l \in M : Fine(job'[l], "none", 0) /\ Owed(table, cache, job'[l], "none", 0, FALSE)
  BY <1>6
<1>. HIDE DEF M
<1>. QED BY <1>1, <1>7, <1>8, <1>9, <1>10, OutsideStep

LEMMA OutsideSteps ==
  ASSUME CacheInv, BooksInv', Iterate \/ StartsDone \/ IterationDone
  PROVE  CacheInv'
<1>1. /\ pc \in {"idle", "start", "release"} /\ pc' \in {"idle", "start", "prefill"}
      /\ UNCHANGED <<table, serial, cache, job, cur>>
  BY DEF Iterate, StartsDone, IterationDone
<1>2. todo' \subseteq Job /\ k' \in Nat
  <2>1. CASE StartsDone
    BY <2>1, JobsAssumption DEF StartsDone, Active
  <2>2. CASE Iterate \/ IterationDone
    BY <2>2 DEF Iterate, IterationDone, CacheInv, Typed
  <2>. QED BY <2>1, <2>2
<1>3. \A l \in Job : job[l].stage = "active" => job[l].fate = "go"
  <2>1. CASE IterationDone
    BY <2>1 DEF IterationDone, Leaving, Active
  <2>2. CASE Iterate \/ StartsDone
    BY <2>2 DEF Iterate, StartsDone, CacheInv, Turns, Active
  <2>. QED BY <2>1, <2>2
<1>4. pc' = "prefill" => \A l \in todo' : l \in Active /\ ~ PrefillDone(job[l])
  <2>1. CASE StartsDone
    BY <2>1 DEF StartsDone
  <2>2. CASE Iterate \/ IterationDone
    BY <2>2 DEF Iterate, IterationDone
  <2>. QED BY <2>1, <2>2
<1>5. Turns'
  BY <1>1, <1>2, <1>3, <1>4 DEF Turns, Active, Sampling, PrefillDone
<1>6. job' \in [Job -> JobState]
  BY <1>1 DEF CacheInv, Typed
<1>. DEFINE M == {}
<1>7. /\ \A l \in Job \ M : job'[l] = job[l]
      /\ \A l \in M : Fine(job'[l], "none", 0) /\ Owed(table, cache, job'[l], "none", 0, FALSE)
  BY <1>1
<1>. HIDE DEF M
<1>. QED BY <1>1, <1>2, <1>5, <1>6, <1>7, OutsideStep

LEMMA RoundSteps ==
  ASSUME CacheInv, BooksInv', PrefillsDone \/ ForwardsDone \/ RowsDone
  PROVE  CacheInv'
<1>1. /\ pc \in {"prefill", "forward", "sample"}
      /\ pc' \in {"idle", "forward", "sample", "release"}
      /\ UNCHANGED <<table, serial, cache, job>>
      /\ pc = "sample" => pc' = "release" /\ cur = NoJob /\ todo = {}
      /\ pc' = "sample" => cur' = NoJob
      /\ pc = "forward" => pc' = "sample" /\ todo = {}
      /\ pc' \in {"idle", "forward"} <=> pc = "prefill"
      /\ pc' = "idle" => {l \in Active : PrefillDone(job[l])} = {}
      /\ pc' \in {"forward", "sample"} => todo' = {l \in Active : PrefillDone(job[l])}
  BY DEF PrefillsDone, ForwardsDone, RowsDone
<1>2. todo' \subseteq Job /\ k' \in Nat /\ (pc' = "forward" => k' <= MaxDraft)
  <2>1. CASE PrefillsDone
    BY <2>1, JobsAssumption DEF PrefillsDone, Active
  <2>2. CASE ForwardsDone
    BY <2>2 DEF ForwardsDone, CacheInv, Typed, Active
  <2>3. CASE RowsDone
    BY <2>3 DEF RowsDone, CacheInv, Typed
  <2>. QED BY <2>1, <2>2, <2>3
<1>3. \A l \in Job : Phase(l) = "none" /\ Turn(l) = 0 /\ Phase(l)' = "none" /\ Turn(l)' = 0
  BY <1>1, NoJobAssumption DEF Phase, Turn, Sampling
<1>4. \A l \in Job : /\ pc' # "release" /\ job[l].stage = "active" => job[l].fate = "go"
                     /\ job[l].stage = "active" => job[l].fate # "rewound"
  <2>1. CASE PrefillsDone
    BY <2>1 DEF PrefillsDone, Leaving, Active
  <2>2. CASE ForwardsDone
    BY <2>2 DEF ForwardsDone, CacheInv, Turns, Active
  <2>3. CASE RowsDone
    BY <1>3, <2>3 DEF RowsDone, CacheInv, Turns, Active
  <2>. QED BY <2>1, <2>2, <2>3
<1>5. \A l \in Job : Stays(l)
  <2>. SUFFICES ASSUME NEW l \in Job, job[l].stage = "active" PROVE Drafted(l)' = Drafted(l)
    BY <1>1, <1>3 DEF Stays
  <2>1. pc' \in {"forward", "sample"} => (l \in todo' <=> PrefillDone(job[l]))
    BY <1>1 DEF Active
  <2>2. job'[l] = job[l]
    BY <1>1
  <2>3. Drafted(l)' <=> /\ PrefillDone(job[l])
                        /\ \/ pc' = "forward" /\ l \notin todo'
                           \/ pc' \in Sampling /\ l \in todo'
    BY <2>2 DEF Drafted, PrefillDone
  <2>4. CASE pc = "prefill"
    BY <1>1, <2>1, <2>3, <2>4 DEF Drafted, Sampling
  <2>5. CASE pc = "forward"
    <3>1. pc' = "sample" /\ todo = {}
      BY <1>1, <2>5
    <3>. QED BY <2>1, <2>3, <2>5, <3>1 DEF Drafted, Sampling
  <2>6. CASE pc = "sample"
    <3>1. pc' = "release" /\ todo = {}
      BY <1>1, <2>6
    <3>. QED BY <2>3, <2>6, <3>1 DEF Drafted, Sampling
  <2>. QED BY <1>1, <2>4, <2>5, <2>6
<1>6. Turns'
  <2>1. pc' \in {"forward", "sample"} =>
          \A l \in todo' : job[l].stage = "active" /\ job[l].fate = "go" /\ PrefillDone(job[l])
    BY <1>1, <1>4 DEF Active
  <2>2. pc' = "sample" => cur' \notin todo'
    BY <1>1, <1>2, NoJobAssumption
  <2>. QED BY <1>1, <1>2, <1>4, <2>1, <2>2 DEF Turns, Active, Sampling, PrefillDone
<1>7. job' \in [Job -> JobState] /\ \A l \in Job : job'[l].pages = job[l].pages
  BY <1>1 DEF CacheInv, Typed
<1>. DEFINE M == {}
<1>8. \A l \in Job \ M : Stays(l)
  BY <1>5
<1>9. \A l \in M : JobFine(l)' /\ JobServed(l)'
  OBVIOUS
<1>. HIDE DEF M
<1>. QED BY <1>1, <1>2, <1>6, <1>7, <1>8, <1>9, QuietStep

-----------------------------------------------------------------------------
(* Leaving.                                                                *)

LEMMA CappedLimitType ==
  ASSUME NEW len \in Nat, NEW asked \in Nat, asked >= 1
  PROVE  CappedLimit(len, asked) \in Nat /\ CappedLimit(len, asked) >= 1
<1>1. MaxTokens \in Nat /\ MaxDraft \in Nat
  BY NumPagesAssumption, PageSizeAssumption, JobsAssumption DEF MaxTokens
<1>2. Minus(MaxTokens, len + 1 + MaxDraft) \in Nat
  BY <1>1 DEF Minus
<1>. QED BY <1>2 DEF CappedLimit, Smaller

\* A job that waits with a whole sequence as its prompt.
Waiting(ids, limit) ==
  [Fresh EXCEPT !.stage = "pending", !.ids = ids, !.plen = Len(ids), !.limit = limit]

LEMMA WaitingFine ==
  ASSUME NEW ids \in Seq(Token), Opens(Bos, ids), NEW limit \in Nat, limit >= 1
  PROVE  /\ Waiting(ids, limit) \in JobState
         /\ Waiting(ids, limit).pages = <<>> /\ Waiting(ids, limit).stage = "pending"
         /\ Fine(Waiting(ids, limit), "none", 0)
         /\ Owed(table, cache, Waiting(ids, limit), "none", 0, FALSE)
<1>. DEFINE K == Waiting(ids, limit)
<1>1. Len(ids) \in Nat /\ Len(ids) >= 1
  BY DEF Opens
<1>2. /\ K \in JobState /\ K.stage = "pending" /\ K.ids = ids /\ K.plen = Len(ids)
      /\ K.limit = limit /\ K.pos = 0 /\ K.pages = <<>> /\ K.offset = None
      /\ K.deferred = <<>> /\ K.fate = "go"
  <2>1. <<>> \in Seq(Token) /\ <<>> \in Seq(Page) /\ <<>> \in Seq(Nat)
    OBVIOUS
  <2>. QED BY <1>1, <2>1 DEF Waiting, Fresh, JobState
<1>. HIDE DEF K
<1>3. 0 % PageSize = 0
  BY PageSizeAssumption
<1>4. Untouched(K)
  BY <1>1, <1>2, <1>3 DEF Untouched
<1>5. WaitOK(K) /\ HandOK(K, "none", 0) /\ ~ LiveAs(K, "none")
  BY <1>1, <1>2, <1>4 DEF WaitOK, HandOK, Sampling, LiveAs
<1>6. Fine(K, "none", 0) /\ Owed(table, cache, K, "none", 0, FALSE)
  BY <1>5 DEF Fine, Owed
<1>. QED BY <1>2, <1>6 DEF K

LEMMA LeavingFacts ==
  ASSUME CacheInv, NEW j \in Leaving, pc \in {"prefill", "release"}
  PROVE  /\ j \in Job /\ job[j] \in JobState /\ job[j].stage = "active"
         /\ job[j].fate # "go" /\ job[j].fate # "rewound" /\ WaitOK(job[j])
         /\ pc = "prefill" => j \notin todo
<1>1. j \in Job /\ job[j].stage = "active" /\ job[j].fate # "go" /\ job[j] \in JobState
  BY DEF Leaving, Active, CacheInv, Typed
<1>2. Phase(j) = "none"
  BY DEF Phase, Sampling
<1>3. job[j].fate # "rewound"
  BY <1>1, <1>2 DEF CacheInv, Turns, Active
<1>4. pc = "prefill" => j \notin todo
  BY <1>1 DEF CacheInv, Turns
<1>5. WaitOK(job[j])
  BY <1>1 DEF CacheInv, JobFine, Fine
<1>. QED BY <1>1, <1>3, <1>4, <1>5

\* The turns of the others, while one leaves.
LEMMA LeavingTurns ==
  ASSUME CacheInv, NEW j \in Leaving, pc \in {"prefill", "release"}, pc' = pc, todo' = todo,
         \A l \in Job \ {j} : job'[l] = job[l], job'[j].fate # "rewound"
  PROVE  Turns'
<1>1. pc' = "prefill" => \A l \in todo' : job'[l].stage = "active" /\ job'[l].fate = "go"
                                           /\ ~ PrefillDone(job'[l])
  BY LeavingFacts DEF CacheInv, Turns, Typed
<1>2. \A l \in Job : job'[l].stage = "active" => job'[l].fate # "rewound"
  <2>. SUFFICES ASSUME NEW l \in Job, job'[l].stage = "active" PROVE job'[l].fate # "rewound"
    OBVIOUS
  <2>1. Phase(l) = "none"
    BY DEF Phase, Sampling
  <2>. QED BY <2>1 DEF CacheInv, Turns, Active
<1>. QED BY <1>1, <1>2 DEF Turns, Active, Sampling, PrefillDone

LEMMA ReleaseDoneStep ==
  ASSUME CacheInv, BooksInv', NEW j \in Job, ReleaseDone(j)
  PROVE  CacheInv'
<1>. DEFINE J == job[j]
            K == IF J.fate = "requeue"
                 THEN Waiting(J.ids, CappedLimit(Len(J.ids), J.limit - NewTokens(J)))
                 ELSE [Fresh EXCEPT !.stage = "done"]
<1>1. /\ pc \in {"prefill", "release"} /\ pc' = pc /\ j \in Leaving /\ J.pages = <<>>
      /\ UNCHANGED <<table, serial, cache, todo, order, k>>
  BY DEF ReleaseDone
<1>2. job' = [job EXCEPT ![j] = K]
  BY DEF ReleaseDone, Waiting, CacheInv, Typed
<1>3. /\ J \in JobState /\ J.stage = "active" /\ J.fate # "go" /\ J.fate # "rewound"
      /\ WaitOK(J)
  BY <1>1, LeavingFacts
<1>4. /\ K \in JobState /\ K.pages = <<>> /\ K.stage # "active"
      /\ Fine(K, "none", 0) /\ Owed(table, cache, K, "none", 0, FALSE)
  <2>1. CASE J.fate = "requeue"
    <3>. DEFINE rest == J.limit - NewTokens(J)
                limit == CappedLimit(Len(J.ids), rest)
    <3>1. /\ Opens(Bos, J.ids) /\ J.plen \in 1 .. Len(J.ids) /\ NewTokens(J) < J.limit
      BY <1>3, <2>1 DEF WaitOK
    <3>2. J.ids \in Seq(Token) /\ Len(J.ids) \in Nat /\ J.limit \in Nat
      BY <1>3, JobFields
    <3>3. rest \in Nat /\ rest >= 1
      BY <3>1, <3>2 DEF NewTokens
    <3>. HIDE DEF rest
    <3>4. limit \in Nat /\ limit >= 1
      BY <3>2, <3>3, CappedLimitType
    <3>5. K = Waiting(J.ids, limit)
      BY <2>1 DEF rest
    <3>. HIDE DEF limit, K
    <3>. QED BY <3>1, <3>2, <3>4, <3>5, WaitingFine
  <2>2. CASE J.fate # "requeue"
    <3>. DEFINE D == [Fresh EXCEPT !.stage = "done"]
    <3>1. D \in JobState /\ D.pages = <<>> /\ D.stage = "done"
      BY FreshType
    <3>2. K = D
      BY <2>2
    <3>. HIDE DEF K, D
    <3>. QED BY <3>1, <3>2, OverFine
  <2>. QED BY <2>1, <2>2
<1>. HIDE DEF K
<1>5. /\ job'[j] = K /\ \A l \in Job \ {j} : job'[l] = job[l]
      /\ job' \in [Job -> JobState] /\ todo' \subseteq Job /\ k' \in Nat
  BY <1>1, <1>2, <1>4 DEF CacheInv, Typed
<1>6. \A l \in Job : job'[l].pages = job[l].pages
  BY <1>1, <1>4, <1>5
<1>7. Turns'
  <2>1. pc' = "prefill" => \A l \in todo' : job'[l].stage = "active" /\ job'[l].fate = "go"
                                             /\ ~ PrefillDone(job'[l])
    BY <1>1, <1>5, LeavingFacts DEF CacheInv, Turns, Typed
  <2>2. \A l \in Job : job'[l].stage = "active" => job'[l].fate # "rewound"
    <3>. SUFFICES ASSUME NEW l \in Job, job'[l].stage = "active" PROVE job'[l].fate # "rewound"
      OBVIOUS
    <3>1. l # j /\ job'[l] = job[l] /\ Phase(l) = "none"
      BY <1>1, <1>4, <1>5 DEF Phase, Sampling
    <3>. QED BY <3>1 DEF CacheInv, Turns, Active
  <2>. QED BY <1>1, <2>1, <2>2 DEF Turns, Active, Sampling, PrefillDone
<1>. DEFINE M == {j}
<1>8. /\ \A l \in Job \ M : job'[l] = job[l]
      /\ \A l \in M : Fine(job'[l], "none", 0) /\ Owed(table, cache, job'[l], "none", 0, FALSE)
  BY <1>4, <1>5
<1>. HIDE DEF M
<1>. QED BY <1>1, <1>5, <1>6, <1>7, <1>8, OutsideStep

\* A page with two places is referenced twice.
LEMMA TwoPlaces ==
  ASSUME NEW t, NEW f \in [Job -> Seq(Page)], CountsMatch(t, f),
         NEW j \in Job, NEW l \in Job, NEW i \in DOMAIN f[j], NEW m \in DOMAIN f[l],
         j # l \/ i # m, f[j][i] = f[l][m]
  PROVE  t.page[f[j][i]].refs > 1
<1>. DEFINE q == f[j][i]
            x == <<j, i>>
            y == <<l, m>>
            S == PlacesIn(f, q)
<1>1. q \in Page
  OBVIOUS
<1>2. x \in S /\ y \in S /\ x # y
  BY PlacesMember
<1>3. IsFiniteSet(S) /\ t.page[q].refs = Cardinality(S)
  BY <1>1 DEF CountsMatch, CountsAt
<1>. HIDE DEF x, y, S, q
<1>4. /\ IsFiniteSet(S \ {x}) /\ Cardinality(S \ {x}) = Cardinality(S) - 1
      /\ y \in S \ {x} /\ Cardinality(S) \in Nat
  BY <1>2, <1>3, FS_RemoveElement, FS_CardinalityType
<1>5. Cardinality(S \ {x}) # 0 /\ Cardinality(S \ {x}) \in Nat
  BY <1>4, FS_EmptySet, FS_CardinalityType
<1>. QED BY <1>3, <1>4, <1>5 DEF q

\* The block tables g are f, each but for its first d[j] pages, under the same hashes.
Shifted(t, u, f, g, d) ==
  \A j \in Job : \A i \in DOMAIN g[j] :
    /\ i \in Nat /\ d[j] \in Nat /\ i + d[j] \in DOMAIN f[j] /\ g[j][i] = f[j][i + d[j]]
    /\ u.page[g[j][i]].phash = t.page[g[j][i]].phash

LEMMA ShiftApart ==
  ASSUME NEW t, NEW u, NEW f, NEW g, BasesApart(t, f), NEW d, Shifted(t, u, f, g, d)
  PROVE  BasesApart(u, g)
<1>. SUFFICES ASSUME NEW j \in Job, NEW l \in Job, NEW i \in DOMAIN g[j], NEW m \in DOMAIN g[l],
                     u.page[g[j][i]].phash.base = u.page[g[l][m]].phash.base,
                     u.page[g[j][i]].phash.base # 0
              PROVE  j = l /\ (i < m => Len(u.page[g[j][i]].phash.toks)
                                        < Len(u.page[g[l][m]].phash.toks))
  BY ZenonT(30) DEF BasesApart
<1>. DEFINE a == i + d[j]
            b == m + d[l]
<1>1. /\ i \in Nat /\ m \in Nat /\ d[j] \in Nat /\ d[l] \in Nat
      /\ a \in DOMAIN f[j] /\ b \in DOMAIN f[l]
      /\ u.page[g[j][i]].phash = t.page[f[j][a]].phash
      /\ u.page[g[l][m]].phash = t.page[f[l][b]].phash
  BY DEF Shifted
<1>2. j = l => (i < m => a < b)
  BY <1>1
<1>. HIDE DEF a, b
<1>3. j = l /\ (a < b => Len(t.page[f[j][a]].phash.toks) < Len(t.page[f[l][b]].phash.toks))
  <2>1. t.page[f[j][a]].phash.base = t.page[f[l][b]].phash.base
        /\ t.page[f[j][a]].phash.base # 0
    BY <1>1
  <2>. QED BY <1>1, <2>1, Zenon DEF BasesApart
<1>. QED BY <1>1, <1>2, <1>3

LEMMA ReleasePageStep ==
  ASSUME CacheInv, BooksInv', NEW j \in Job, ReleasePage(j)
  PROVE  CacheInv'
<1>. DEFINE J == job[j]
            p == Head(J.pages)
            K == [J EXCEPT !.pages = Tail(@)]
<1>1. /\ pc \in {"prefill", "release"} /\ pc' = pc /\ j \in Leaving /\ J.pages # <<>>
      /\ cur' = j /\ table' = SubRef(table, p)
      /\ UNCHANGED <<serial, cache, todo, order, k>>
  BY DEF ReleasePage
<1>2. job' = [job EXCEPT ![j] = K]
  BY DEF ReleasePage, CacheInv, Typed
<1>3. /\ J \in JobState /\ J.stage = "active" /\ J.fate # "go" /\ J.fate # "rewound"
      /\ WaitOK(J)
  BY <1>1, LeavingFacts
<1>4. J.pages \in Seq(Page) /\ Len(J.pages) \in Nat /\ Len(J.pages) >= 1
      /\ Tail(J.pages) \in Seq(Page) /\ p \in Page /\ p = J.pages[1]
      /\ Len(Tail(J.pages)) = Len(J.pages) - 1
      /\ \A i \in 1 .. Len(J.pages) - 1 : Tail(J.pages)[i] = J.pages[i + 1]
  <2>1. J.pages \in Seq(Page)
    BY <1>3, JobFields
  <2>. HIDE DEF J
  <2>. QED BY <1>1, <2>1
<1>5. /\ K \in JobState /\ K.pages = Tail(J.pages) /\ K.stage = J.stage /\ K.fate = J.fate
      /\ K.ids = J.ids /\ K.plen = J.plen /\ K.limit = J.limit
  BY <1>3, <1>4 DEF JobState
<1>. HIDE DEF K
<1>6. Fine(K, "none", 0) /\ ~ LiveAs(K, "none")
  <2>1. ~ LiveAs(K, "none")
    BY <1>3, <1>5 DEF LiveAs
  <2>2. HandOK(K, "none", 0)
    BY DEF HandOK, Sampling
  <2>3. WaitOK(K)
    BY <1>3, <1>5 DEF WaitOK, NewTokens
  <2>. QED BY <2>1, <2>2, <2>3 DEF Fine
<1>7. /\ job'[j] = K /\ \A l \in Job \ {j} : job'[l] = job[l] /\ job' \in [Job -> JobState]
  BY <1>2, <1>5 DEF CacheInv, Typed
<1>8. /\ PagesTyped(table) /\ Sound(table) /\ BasesApart(table, BlockTables)
      /\ PagesTrue(table, cache) /\ CountsMatch(table, BlockTables)
      /\ BlockTables \in [Job -> Seq(Page)] /\ job \in [Job -> JobState]
  BY BlockTablesType DEF CacheInv, Typed, BooksInv, Sound, PagesTyped
<1>9. table.page[p].refs > 0
  <2>. DEFINE f == BlockTables
  <2>1. f \in [Job -> Seq(Page)] /\ CountsMatch(table, f) /\ 1 \in DOMAIN f[j] /\ f[j][1] = p
    BY <1>4, <1>8 DEF BlockTables
  <2>. HIDE DEF f
  <2>. QED BY <2>1, PlacedReferenced
<1>. HIDE DEF p
<1>10. /\ PagesTyped(table')
       /\ \A q \in Page \ {p} : table'.page[q] = table.page[q]
       /\ table.page[p].refs > 1 => SamePage(table.page[p], table'.page[p])
       /\ \A c : TruePage(table.page[p], c) => TruePage(table'.page[p], c)
  BY ZenonT(30), <1>1, <1>4, <1>8, <1>9, SubRefPages
<1>11. Typed'
  <2>1. job' \in [Job -> JobState]
    BY <1>2, <1>5, <1>8
  <2>. QED BY <1>1, <1>10, <2>1 DEF CacheInv, Typed, PagesTyped
<1>12. Turns'
  BY <1>1, <1>3, <1>5, <1>7, LeavingTurns
<1>13. PagesTrue(table, cache)'
  <2>1. PagesTrue(table', cache)
    BY <1>8, <1>10 DEF PagesTrue
  <2>2. PagesTrue(table, cache)' <=> PagesTrue(table', cache')
    BY DEF PagesTrue
  <2>. QED BY <1>1, <2>1, <2>2
<1>14. BasesApart(table, BlockTables)'
  <2>. DEFINE f == BlockTables
              g == BlockTables'
              d == [l \in Job |-> IF l = j THEN 1 ELSE 0]
  <2>1. ASSUME NEW l \in Job, NEW i \in DOMAIN g[l]
        PROVE  /\ i \in Nat /\ i + d[l] \in DOMAIN f[l] /\ g[l][i] = f[l][i + d[l]]
               /\ l = j => i + d[l] # 1
               /\ g[l][i] \in Page
    <3>1. CASE l = j
      <4>1. g[l] = Tail(J.pages) /\ f[l] = J.pages /\ d[l] = 1
        BY <1>5, <1>7, <3>1 DEF BlockTables
      <4>2. i \in 1 .. Len(J.pages) - 1
        BY <1>4, <2>1, <4>1
      <4>. QED BY <1>4, <4>1, <4>2
    <3>2. CASE l # j
      <4>1. g[l] = f[l] /\ d[l] = 0 /\ f[l] \in Seq(Page)
        BY <1>7, <1>8, <3>2 DEF BlockTables
      <4>. QED BY <2>1, <3>2, <4>1
    <3>. QED BY <3>1, <3>2
  <2>2. f[j][1] = p /\ 1 \in DOMAIN f[j]
    BY <1>4 DEF BlockTables
  <2>3. d \in [Job -> Nat]
    OBVIOUS
  <2>a. f \in [Job -> Seq(Page)] /\ CountsMatch(table, f) /\ BasesApart(table, f)
    BY <1>8
  <2>. HIDE DEF f, g, d
  <2>4. ASSUME NEW l \in Job, NEW i \in DOMAIN g[l]
        PROVE  table'.page[g[l][i]].phash = table.page[g[l][i]].phash
    <3>1. CASE g[l][i] = p
      <4>. DEFINE m == i + d[l]
      <4>1. m \in DOMAIN f[l] /\ f[l][m] = f[j][1] /\ (l # j \/ m # 1)
        BY <2>1, <2>2, <3>1
      <4>. HIDE DEF m
      <4>2. table.page[f[l][m]].refs > 1
        BY ONLY <2>2, <2>a, <4>1, l \in Job, j \in Job, TwoPlaces
      <4>3. f[l][m] = p
        BY <2>2, <4>1
      <4>. QED BY <1>10, <3>1, <4>2, <4>3 DEF SamePage
    <3>2. CASE g[l][i] # p
      BY <1>10, <2>1, <3>2
    <3>. QED BY <3>1, <3>2
  <2>5. Shifted(table, table', f, g, d)
    BY <2>1, <2>3, <2>4 DEF Shifted
  <2>6. BasesApart(table', g)
    BY ONLY <2>5, <2>a, ShiftApart
  <2>7. BasesApart(table, BlockTables)' <=> BasesApart(table', BlockTables')
    BY DEF BasesApart
  <2>. QED BY <2>6, <2>7 DEF g
<1>15. \A l : /\ Phase(l) = "none" /\ Turn(l) = 0 /\ Drafted(l) = FALSE
              /\ Phase(l)' = "none" /\ Turn(l)' = 0 /\ Drafted(l)' = FALSE
  BY <1>1 DEF Phase, Turn, Drafted, Sampling
<1>16. \A l \in Job \ {j} : Undisturbed(l)
  <2>1. 0 \in Index(J) /\ PageOf(J, 0) = p
    BY <1>4 DEF Index, PageOf
  <2>2. \A q \in Page :
          \/ SamePage(table.page[q], table'.page[q]) /\ cache'[q] = cache[q]
          \/ \E i \in Index(job[j]) : PageOf(job[j], i) = q /\ ~ table.page[q].refs > 1
    BY <1>1, <1>10, <2>1 DEF SamePage
  <2>. QED BY <2>2, OthersUndisturbed
<1>. DEFINE M == {j}
<1>17. \A l \in Job \ M : Stays(l) /\ Undisturbed(l)
  BY <1>7, <1>15, <1>16 DEF Stays
<1>18. \A l \in M : JobFine(l)' /\ JobServed(l)'
  <2>1. Fine(job'[j], "none", 0) /\ ~ LiveAs(job'[j], "none")
    BY <1>6, <1>7
  <2>2. Fine(job'[j], Phase(j)', Turn(j)')
        /\ Owed(table', cache', job'[j], Phase(j)', Turn(j)', Drafted(j)')
    BY ONLY <1>15, <2>1 DEF Owed
  <2>. QED BY <2>2 DEF JobFine, JobServed
<1>. HIDE DEF M
<1>. QED BY <1>11, <1>12, <1>13, <1>14, <1>17, <1>18, StepKeeps

-----------------------------------------------------------------------------
(* Hashing a page.                                                         *)

\* Page i of J, the first that is not final, is full, as is the sequence up to its end.
HashReady(t, c, J, i, row) ==
  /\ J \in JobState /\ PrefillDone(J) /\ i \in Index(J)
  /\ NamesTrue(t, J, i) /\ LinksTrue(t, J, i)
  /\ ContentTrue(t, c, J, row) /\ FilledTo(t, J, Len(row))
  /\ row \in Seq(Token)
  /\ (i + 1) * PageSize <= Len(row)
  /\ (i + 1) * PageSize <= Len(J.ids)
  /\ SubSeq(row, 1, (i + 1) * PageSize) = SubSeq(J.ids, 1, (i + 1) * PageSize)

\* h names the sequence up to the end of page i, or continues the hash of the page before.
FinalFor(t, J, i, h) ==
  /\ h \in Hash /\ h.toks # <<>>
  /\ h.base = 0 => /\ h.toks = SubSeq(J.ids, 1, (i + 1) * PageSize)
                   /\ i > 0 => t.page[PageOf(J, i - 1)].phash.base = 0
  /\ h.base # 0 => /\ i > 0
                   /\ t.page[PageOf(J, i - 1)].phash.base = h.base
                   /\ Len(t.page[PageOf(J, i - 1)].phash.toks) < Len(h.toks)

LEMMA ChainedHash ==
  ASSUME NEW g \in Hash, NEW y \in Seq(Token), Len(y) > 0
  PROVE  LET h == Chain(g, y) IN
         /\ h \in Hash /\ h.base = g.base /\ h.toks = g.toks \o y /\ h.toks # <<>>
         /\ Len(g.toks) < Len(h.toks)
<1>1. g.base \in Nat /\ g.toks \in Seq(Token) /\ g = [base |-> g.base, toks |-> g.toks]
  BY DEF Hash
<1>. DEFINE x == g.toks
            z == x \o y
<1>2. z \in Seq(Token) /\ Len(z) = Len(x) + Len(y) /\ Len(x) \in Nat /\ Len(y) \in Nat
  <2>1. x \in Seq(Token)
    BY <1>1
  <2>. HIDE DEF x
  <2>. QED BY ONLY <2>1, y \in Seq(Token)
<1>3. z # <<>> /\ Len(x) < Len(z)
  <2>. HIDE DEF z, x
  <2>. QED BY <1>2
<1>4. Chain(g, y) = [base |-> g.base, toks |-> z]
  <2>1. Chain(g, y) = [g EXCEPT !.toks = z]
    BY DEF Chain
  <2>. HIDE DEF z, x
  <2>. QED BY <1>1, <2>1
<1>. HIDE DEF z
<1>. QED BY <1>1, <1>2, <1>3, <1>4 DEF Hash, z

LEMMA FinalHashFacts ==
  ASSUME NEW t, PagesTyped(t), NEW c, NEW J, NEW i, NEW row, HashReady(t, c, J, i, row)
  PROVE  FinalFor(t, J, i, FinalHash(t, J, i))
<1>. DEFINE h == FinalHash(t, J, i)
            g == LastHash(t, J, i)
            d == i * PageSize
            e == (i + 1) * PageSize
            y == SubSeq(J.ids, d + 1, e)
<1>1. /\ J \in JobState /\ i \in Nat /\ i \in Index(J) /\ NamesTrue(t, J, i)
      /\ J.ids \in Seq(Token) /\ Len(J.ids) \in Nat /\ e <= Len(J.ids)
  BY JobFields, PagesIndexed DEF HashReady
<1>2. d \in Nat /\ e = d + PageSize /\ PageSize \in Nat /\ PageSize > 0
  BY <1>1, Multiples, PageSizeAssumption
<1>3. h = Chain(g, y)
  BY DEF FinalHash
<1>. HIDE DEF d, e
<1>4. y \in Seq(Token) /\ Len(y) = PageSize /\ SubSeq(J.ids, 1, d) \o y = SubSeq(J.ids, 1, e)
  <2>1. d \in 0 .. Len(J.ids) /\ e \in d .. Len(J.ids)
    BY <1>1, <1>2
  <2>2. SubSeq(J.ids, 1, d) \o y = SubSeq(J.ids, 1, e)
    BY <1>1, <2>1, PrefixAndSlice
  <2>3. y \in Seq(Token) /\ Len(y) = PageSize
    <3>. DEFINE x == J.ids
    <3>1. x \in Seq(Token) /\ d \in Nat /\ e \in Nat /\ e = d + PageSize /\ e <= Len(x)
      BY <1>1, <1>2
    <3>. HIDE DEF x
    <3>2. SubSeq(x, d + 1, e) \in Seq(Token) /\ Len(SubSeq(x, d + 1, e)) = PageSize
      BY ONLY <3>1, <1>2
    <3>. QED BY <3>2 DEF x
  <2>. QED BY <2>2, <2>3
<1>5. CASE i = 0
  <2>1. g = Root /\ d = 0
    <3>1. 0 * PageSize = 0
      BY PageSizeAssumption
    <3>. QED BY <1>5, <3>1 DEF LastHash, d
  <2>2. h.base = 0 /\ h \in Hash /\ h.toks = Root.toks \o y /\ h.toks # <<>>
    <3>. HIDE DEF h, g, y
    <3>. QED BY <1>2, <1>3, <1>4, <2>1, RootType, ChainedHash
  <2>3. Root.toks = SubSeq(J.ids, 1, d)
    BY <1>1, <2>1, RootType, EmptyPrefix
  <2>. HIDE DEF h, y, g
  <2>4. h.toks = SubSeq(J.ids, 1, e)
    BY <1>4, <2>2, <2>3
  <2>5. FinalFor(t, J, i, h)
    BY <1>5, <2>2, <2>4 DEF FinalFor, e
  <2>. QED BY <2>5 DEF h
<1>6. CASE i > 0
  <2>. DEFINE q == PageOf(J, i - 1)
  <2>1. i - 1 \in Index(J) /\ q \in Page /\ g = t.page[q].phash /\ i - 1 \in Nat
    <3>1. i - 1 \in Index(J)
      BY <1>1, <1>6 DEF Index
    <3>2. (i - 1) + 1 = i
      BY <1>1
    <3>. QED BY <1>1, <1>6, <3>1, <3>2, PagesIndexed DEF LastHash, PageOf
  <2>2. g \in Hash
    BY <2>1, RecordFields
  <2>3. g.base = 0 => g.toks = SubSeq(J.ids, 1, d)
    <3>1. i - 1 < i /\ (i - 1) + 1 = i
      BY <1>1
    <3>2. g.base = 0 => g.toks = SubSeq(J.ids, 1, ((i - 1) + 1) * PageSize)
      BY <1>1, <2>1, <3>1 DEF NamesTrue
    <3>. QED BY <3>1, <3>2 DEF d
  <2>4. /\ h \in Hash /\ h.base = g.base /\ h.toks = g.toks \o y /\ h.toks # <<>>
        /\ Len(g.toks) < Len(h.toks)
    <3>. HIDE DEF h, g, y
    <3>. QED BY <1>2, <1>3, <1>4, <2>2, ChainedHash
  <2>. HIDE DEF h, g
  <2>. QED BY <1>4, <1>6, <2>1, <2>3, <2>4 DEF FinalFor, e, h
<1>. QED BY <1>1, <1>5, <1>6

\* What is owed once page i is final.
HashDone(u, c, K, i, row) ==
  /\ NamesTrue(u, K, i + 1) /\ LinksTrue(u, K, i + 1)
  /\ ContentTrue(u, c, K, row) /\ FilledTo(u, K, Len(row))

\* Page i of K has the hash h and the tokens of the row.
HashedPage(u, c, K, i, row, h) ==
  LET q == PageOf(K, i) IN
  /\ u.page[q].phash = h /\ u.page[q].kv = PageSize
  /\ \A s \in Slot : /\ c[q][s] = SubSeq(row, 1, i * PageSize + s + 1)
                     /\ u.page[q].toks[s] = row[i * PageSize + s + 1]

\* Its other pages are those of J, the next one linked to page i.
HashedRest(t, u, J, K, i, h) ==
  /\ K \in JobState /\ K.ids = J.ids /\ PrefillDone(K) /\ Len(K.pages) = Len(J.pages)
  /\ \A n \in Index(J) : n # i =>
       /\ PageOf(K, n) = PageOf(J, n)
       /\ SameButLink(t.page[PageOf(J, n)], u.page[PageOf(J, n)])
       /\ u.page[PageOf(J, n)].prev = IF n = i + 1 THEN h ELSE t.page[PageOf(J, n)].prev

LEMMA HashedServed ==
  ASSUME NEW t, NEW u, NEW c, NEW J, NEW K, NEW i, NEW row, NEW h,
         HashReady(t, c, J, i, row), FinalFor(t, J, i, h),
         HashedPage(u, c, K, i, row, h), HashedRest(t, u, J, K, i, h)
  PROVE  HashDone(u, c, K, i, row)
<1>1. /\ i \in Nat /\ Index(K) = Index(J) /\ K.ids = J.ids
      /\ \A n \in Index(J) : n \in Nat /\ (n > 0 => n - 1 \in Index(J))
      /\ PrefillDone(K) /\ PrefillDone(J) /\ K \in JobState /\ J \in JobState
  BY PagesIndexed DEF HashReady, HashedRest, Index
<1>2. \A n \in Index(J) : n # i =>
        /\ PageOf(K, n) = PageOf(J, n)
        /\ u.page[PageOf(K, n)].phash = t.page[PageOf(J, n)].phash
        /\ u.page[PageOf(K, n)].kv = t.page[PageOf(J, n)].kv
        /\ u.page[PageOf(K, n)].toks = t.page[PageOf(J, n)].toks
        /\ u.page[PageOf(K, n)].prev = IF n = i + 1 THEN h ELSE t.page[PageOf(J, n)].prev
  BY DEF HashedRest, SameButLink
<1>3. /\ u.page[PageOf(K, i)].phash = h /\ u.page[PageOf(K, i)].kv = PageSize
      /\ \A s \in Slot : /\ c[PageOf(K, i)][s] = SubSeq(row, 1, i * PageSize + s + 1)
                         /\ u.page[PageOf(K, i)].toks[s] = row[i * PageSize + s + 1]
  BY DEF HashedPage
<1>4. NamesTrue(u, K, i + 1)
  <2>. SUFFICES ASSUME NEW n \in Index(J)
                PROVE  LET g == u.page[PageOf(K, n)].phash IN
                       /\ n < i + 1 =>
                         /\ g.base = 0 => g.toks = SubSeq(J.ids, 1, (n + 1) * PageSize)
                         /\ g.base = 0 /\ n > 0 => u.page[PageOf(K, n - 1)].phash.base = 0
                       /\ n >= i + 1 => g.base # 0 /\ g.toks = <<>>
    BY <1>1 DEF NamesTrue
  <2>1. CASE n = i
    <3>1. n > 0 => u.page[PageOf(K, n - 1)].phash = t.page[PageOf(J, n - 1)].phash
      <4>1. n > 0 => n - 1 \in Index(J) /\ n - 1 # i
        BY <1>1, <2>1
      <4>. QED BY <1>2, <4>1
    <3>. QED BY <1>1, <1>3, <2>1, <3>1 DEF FinalFor
  <2>2. CASE n # i
    <3>1. u.page[PageOf(K, n)].phash = t.page[PageOf(J, n)].phash /\ n \in Nat
      BY <1>1, <1>2, <2>2
    <3>2. n < i /\ n > 0 => u.page[PageOf(K, n - 1)].phash = t.page[PageOf(J, n - 1)].phash
      <4>1. n < i /\ n > 0 => n - 1 \in Index(J) /\ n - 1 # i
        BY <1>1
      <4>. QED BY <1>2, <4>1
    <3>3. LET g == t.page[PageOf(J, n)].phash IN
          /\ n < i =>
            /\ g.base = 0 => g.toks = SubSeq(J.ids, 1, (n + 1) * PageSize)
            /\ g.base = 0 /\ n > 0 => t.page[PageOf(J, n - 1)].phash.base = 0
          /\ n >= i => g.base # 0 /\ g.toks = <<>>
      BY Zenon DEF HashReady, NamesTrue
    <3>4. (n < i + 1 => n < i) /\ (n >= i + 1 => n >= i)
      BY <1>1, <2>2, <3>1
    <3>. QED BY ONLY <3>1, <3>2, <3>3, <3>4
  <2>. QED BY <2>1, <2>2
<1>5. LinksTrue(u, K, i + 1)
  <2>. SUFFICES ASSUME NEW n \in Index(J), n >= i + 1,
                       u.page[PageOf(K, n)].prev.base = 0, u.page[PageOf(K, n)].prev # Root
                PROVE  /\ n = i + 1
                       /\ u.page[PageOf(K, n)].prev.toks = SubSeq(J.ids, 1, n * PageSize)
    BY <1>1 DEF LinksTrue
  <2>1. n # i
    BY <1>1
  <2>2. CASE n = i + 1
    BY <1>2, <2>1, <2>2 DEF FinalFor
  <2>3. CASE n # i + 1
    <3>0. n \in Nat /\ n >= i
      BY <1>1
    <3>1. u.page[PageOf(K, n)].prev = t.page[PageOf(J, n)].prev /\ n >= i
      BY ONLY <1>2, <2>1, <2>3, <3>0, n \in Index(J)
    <3>. QED BY <2>1, <3>1 DEF HashReady, LinksTrue
  <2>. QED BY <2>2, <2>3
<1>6. ContentTrue(u, c, K, row)
  <2>1. ContentTrue(t, c, J, row)
    BY DEF HashReady
  <2>2. Text(row) /\ Len(row) <= Len(K.pages) * PageSize
    BY <2>1 DEF ContentTrue, HashedRest
  <2>3. ASSUME NEW n \in Index(J), NEW s \in Slot, n * PageSize + s < Len(row)
        PROVE  /\ c[PageOf(K, n)][s] = SubSeq(row, 1, n * PageSize + s + 1)
               /\ u.page[PageOf(K, n)].toks[s] = row[n * PageSize + s + 1]
    <3>1. CASE n = i
      BY <1>3, <3>1
    <3>2. CASE n # i
      <4>1. /\ c[PageOf(J, n)][s] = SubSeq(row, 1, n * PageSize + s + 1)
            /\ t.page[PageOf(J, n)].toks[s] = row[n * PageSize + s + 1]
        BY <2>1, <2>3, Zenon DEF ContentTrue
      <4>. QED BY <1>2, <3>2, <4>1
    <3>. QED BY <3>1, <3>2
  <2>. QED BY <1>1, <2>2, <2>3, Zenon DEF ContentTrue
<1>7. FilledTo(u, K, Len(row))
  <2>1. FilledTo(t, J, Len(row)) /\ (i + 1) * PageSize <= Len(row) /\ Len(row) \in Nat
    BY DEF HashReady
  <2>2. ASSUME NEW n \in Index(J)
        PROVE  u.page[PageOf(K, n)].kv = FillMark(Len(row), n)
    <3>1. CASE n = i
      <4>1. FillMark(Len(row), i) = PageSize
        BY <1>1, <2>1, FillMarks
      <4>. QED BY <1>3, <3>1, <4>1
    <3>2. CASE n # i
      BY <1>2, <2>1, <3>2 DEF FilledTo
    <3>. QED BY <3>1, <3>2
  <2>. QED BY <1>1, <2>2 DEF FilledTo
<1>. QED BY <1>4, <1>5, <1>6, <1>7 DEF HashDone

\* A page in one place is referenced once, and a referenced page is in some place.
LEMMA OneReference ==
  ASSUME NEW t, NEW f \in [Job -> Seq(Page)], CountsMatch(t, f),
         NEW j \in Job, NEW i \in DOMAIN f[j], SolePlace(f, f[j][i], j, i)
  PROVE  t.page[f[j][i]].refs = 1
<1>. DEFINE q == f[j][i]
            x == <<j, i>>
<1>1. q \in Page
  OBVIOUS
<1>2. ASSUME NEW y PROVE y \in PlacesIn(f, q) <=> y = x
  <2>1. y \in PlacesIn(f, q) <=> \E l \in Job : \E m \in DOMAIN f[l] : f[l][m] = q /\ y = <<l, m>>
    BY PlacesMember
  <2>. QED BY <2>1 DEF SolePlace
<1>3. PlacesIn(f, q) = {x}
  <2>. HIDE DEF q, x
  <2>. QED BY <1>2
<1>4. t.page[q].refs = Cardinality(PlacesIn(f, q))
  BY <1>1 DEF CountsMatch, CountsAt
<1>. HIDE DEF q, x
<1>5. Cardinality({x}) = 1
  BY FS_Singleton
<1>. QED BY <1>3, <1>4, <1>5 DEF q

LEMMA Placed ==
  ASSUME NEW t, NEW f, CountsMatch(t, f), NEW q \in Page, t.page[q].refs > 0
  PROVE  \E l \in Job : \E m \in DOMAIN f[l] : f[l][m] = q
<1>1. IsFiniteSet(PlacesIn(f, q)) /\ t.page[q].refs = Cardinality(PlacesIn(f, q))
  BY DEF CountsMatch, CountsAt
<1>2. PlacesIn(f, q) # {}
  BY <1>1, FS_EmptySet
<1>3. PICK x : x \in PlacesIn(f, q)
  BY <1>2
<1>. QED BY <1>3, PlacesMember

\* A page placed before the one to hash, or after it, and the hash it is to take.
LEMMA FinalApart ==
  ASSUME CacheInv, cur \in Job, NEW J, J.pages = job[cur].pages,
         NEW i, NEW row, HashReady(table, cache, J, i, row), NEW h, FinalFor(table, J, i, h),
         h.base # 0, NEW l \in Job, NEW m \in DOMAIN BlockTables[l],
         table.page[BlockTables[l][m]].phash.base = h.base
  PROVE  /\ l = cur /\ m \in Nat
         /\ m < i + 1
         /\ Len(table.page[BlockTables[l][m]].phash.toks) < Len(h.toks)
<1>1. /\ J \in JobState /\ i \in Nat /\ NamesTrue(table, J, i) /\ i \in Index(J)
  BY PagesIndexed DEF HashReady
<1>2. /\ BlockTables \in [Job -> Seq(Page)] /\ BasesApart(table, BlockTables)
      /\ PagesTyped(table)
  BY BlockTablesType DEF CacheInv, Typed, BooksInv, Sound, PagesTyped
<1>. DEFINE f == BlockTables
            g == table.page[f[l][m]].phash
            b == table.page[f[cur][i]].phash
<1>3. f[cur] = J.pages
  BY DEF BlockTables
<1>4. i > 0 /\ i \in DOMAIN f[cur] /\ f[cur][i] = PageOf(J, i - 1)
  <2>1. i > 0
    BY DEF FinalFor
  <2>2. i - 1 \in Index(J) /\ (i - 1) + 1 = i
    BY <1>1, <2>1 DEF Index
  <2>. QED BY <1>1, <1>3, <2>1, <2>2, PagesIndexed DEF PageOf
<1>5. b.base = h.base /\ Len(b.toks) < Len(h.toks) /\ h.toks # <<>> /\ g.base = h.base
  BY <1>4 DEF FinalFor
<1>6. g \in Hash /\ b \in Hash /\ h \in Hash
  <2>1. f[l][m] \in Page /\ f[cur][i] \in Page
    BY <1>2, <1>4
  <2>. HIDE DEF f
  <2>. QED BY <1>2, <2>1, RecordFields DEF FinalFor
<1>7. Len(g.toks) \in Nat /\ Len(b.toks) \in Nat /\ Len(h.toks) \in Nat
  <2>. HIDE DEF g, b
  <2>. QED BY <1>6 DEF Hash
<1>8. /\ l = cur
      /\ m < i => Len(g.toks) < Len(b.toks)
      /\ i < m => Len(b.toks) < Len(g.toks)
  <2>1. f[l][m] = f[l][m] /\ BasesApart(table, f)
    BY <1>2
  <2>2. g.base = b.base /\ g.base # 0
    BY SMTT(30), <1>5
  <2>3. l = cur /\ (m < i => Len(g.toks) < Len(b.toks))
    BY ZenonT(30), <1>4, <2>1, <2>2 DEF BasesApart
  <2>4. i < m => Len(b.toks) < Len(g.toks)
    BY <1>4, <2>1, <2>2 DEF BasesApart
  <2>. QED BY <2>3, <2>4
<1>9. m \in Nat /\ m >= 1 /\ m - 1 \in Index(J) /\ f[l][m] = PageOf(J, m - 1)
  <2>1. J.pages \in Seq(Page) /\ Len(J.pages) \in Nat
    BY <1>1, JobFields
  <2>2. m \in DOMAIN J.pages /\ f[l][m] = J.pages[m]
    BY <1>3, <1>8
  <2>. HIDE DEF f
  <2>3. m \in Nat /\ m >= 1 /\ m <= Len(J.pages) /\ (m - 1) + 1 = m
    BY <2>1, <2>2
  <2>. QED BY <2>1, <2>2, <2>3 DEF Index, PageOf
<1>10. m < i + 1
  <2>1. ASSUME m - 1 >= i PROVE FALSE
    <3>1. g.base # 0 /\ g.toks = <<>>
      BY <1>1, <1>9, <2>1 DEF NamesTrue
    <3>2. Len(g.toks) = 0
      BY <3>1
    <3>3. i < m
      BY <1>1, <1>9, <2>1
    <3>4. Len(b.toks) < Len(g.toks)
      BY <1>8, <3>3
    <3>. HIDE DEF g, b
    <3>. QED BY <1>7, <3>2, <3>4
  <2>. QED BY <1>1, <1>9, <2>1
<1>11. Len(g.toks) < Len(h.toks)
  <2>1. m = i => g = b
    BY <1>8
  <2>. HIDE DEF g, b
  <2>. QED BY <1>1, <1>5, <1>7, <1>8, <1>9, <1>10, <2>1
<1>. QED BY <1>8, <1>9, <1>10, <1>11

\* The page to hash is in one place, and is not final.
LEMMA HashSite ==
  ASSUME CacheInv, cur \in Job, NEW J, J.pages = job[cur].pages,
         NEW i, NEW row, HashReady(table, cache, J, i, row)
  PROVE  /\ PageOf(J, i) \in Page
         /\ table.page[PageOf(J, i)].phash.base # 0
         /\ table.page[PageOf(J, i)].kv = PageSize
         /\ SolePlace(BlockTables, PageOf(J, i), cur, i + 1) /\ Placing(BlockTables)
         /\ table.page[PageOf(J, i)].refs = 1
         /\ \A n \in Index(J) : n # i => PageOf(J, n) # PageOf(J, i)
         /\ \A n \in Index(J) : n > i => table.page[PageOf(J, n)].phash.base # 0
<1>1. /\ J \in JobState /\ i \in Nat /\ i \in Index(J) /\ PageOf(J, i) \in Page
      /\ NamesTrue(table, J, i) /\ \A n \in Index(J) : n \in Nat
  BY PagesIndexed DEF HashReady
<1>2. table.page[PageOf(J, i)].phash.base # 0
  BY <1>1 DEF NamesTrue
<1>3. table.page[PageOf(J, i)].kv = PageSize
  <2>1. Len(row) \in Nat /\ (i + 1) * PageSize <= Len(row) /\ FilledTo(table, J, Len(row))
    BY DEF HashReady
  <2>2. FillMark(Len(row), i) = PageSize
    BY <1>1, <2>1, FillMarks
  <2>. QED BY <1>1, <2>1, <2>2 DEF FilledTo
<1>4. i \in Index(job[cur]) /\ PageOf(job[cur], i) = PageOf(J, i)
  BY <1>1 DEF Index, PageOf
<1>5. SolePlace(BlockTables, PageOf(J, i), cur, i + 1) /\ Placing(BlockTables)
  BY <1>2, <1>4, OwnPlace
<1>6. table.page[PageOf(J, i)].refs = 1
  <2>. DEFINE f == BlockTables
              m == i + 1
  <2>1. f \in [Job -> Seq(Page)] /\ CountsMatch(table, f)
    BY BlockTablesType DEF CacheInv, BooksInv
  <2>2. m \in DOMAIN f[cur] /\ f[cur][m] = PageOf(J, i)
    BY <1>1, PagesIndexed DEF BlockTables, PageOf
  <2>3. SolePlace(f, f[cur][m], cur, m)
    BY <1>5, <2>2
  <2>. HIDE DEF f, m
  <2>4. table.page[f[cur][m]].refs = 1
    BY <2>1, <2>2, <2>3, OneReference
  <2>. QED BY <2>2, <2>4
<1>7. ASSUME NEW n \in Index(J), n # i PROVE PageOf(J, n) # PageOf(J, i)
  <2>1. n + 1 \in DOMAIN BlockTables[cur] /\ BlockTables[cur][n + 1] = PageOf(J, n) /\ n \in Nat
    BY <1>1, PagesIndexed DEF BlockTables, PageOf
  <2>2. BlockTables[cur][n + 1] = PageOf(J, i) => n + 1 = i + 1
    BY <1>5, <2>1 DEF SolePlace
  <2>. QED BY <1>1, <1>7, <2>1, <2>2
<1>8. \A n \in Index(J) : n > i => table.page[PageOf(J, n)].phash.base # 0
  BY <1>1 DEF NamesTrue
<1>. QED BY <1>1, <1>2, <1>3, <1>5, <1>6, <1>7, <1>8

\* A page marked with part of the row holds it, under any identity that agrees with it.
LEMMA RowTruth ==
  ASSUME NEW t, NEW c, NEW J \in JobState, NEW row, ContentTrue(t, c, J, row),
         NEW n \in Index(J), NEW m \in Nat, m <= Len(row), Len(row) \in Nat,
         t.page[PageOf(J, n)].kv = FillMark(m, n), NEW h, NEW prev,
         prev.base = 0 /\ prev # Root /\ n * PageSize < m =>
           prev.toks = SubSeq(row, 1, n * PageSize),
         h.base = 0 /\ (n + 1) * PageSize <= m => h.toks = SubSeq(row, 1, (n + 1) * PageSize)
  PROVE  Truth(h, prev, t.page[PageOf(J, n)].kv, t.page[PageOf(J, n)].toks, c[PageOf(J, n)])
<1>. DEFINE q == PageOf(J, n)
            kv == t.page[q].kv
            d == n * PageSize
<1>1. n \in Nat
  BY PagesIndexed
<1>2. /\ kv \in 0 .. PageSize /\ kv = FillMark(m, n)
      /\ \A s \in Slot : s < kv <=> d + s < m
      /\ kv = PageSize <=> (n + 1) * PageSize <= m
      /\ kv = 0 <=> m <= d
  <2>1. kv = FillMark(m, n)
    OBVIOUS
  <2>. HIDE DEF kv
  <2>. QED BY <1>1, <2>1, FillMarks
<1>3. d \in Nat
  BY <1>1, Multiples
<1>4. kv > 0 => d + kv <= Len(row)
  <2>. SUFFICES ASSUME kv > 0 PROVE d + kv <= Len(row)
    OBVIOUS
  <2>. DEFINE s == kv - 1
  <2>1. kv \in Nat /\ kv <= PageSize /\ PageSize \in Nat
    BY <1>2, PageSizeAssumption
  <2>2. s \in Slot /\ s < kv /\ s = kv - 1
    <3>. HIDE DEF kv
    <3>. QED BY <2>1 DEF Slot
  <2>3. d + s < m
    <3>. HIDE DEF s, kv, d
    <3>. QED BY <1>2, <2>2
  <2>. HIDE DEF kv, d, s
  <2>4. m <= Len(row) /\ m \in Nat /\ Len(row) \in Nat
    OBVIOUS
  <2>. QED BY ONLY <1>3, <2>1, <2>2, <2>3, <2>4
<1>5. ASSUME NEW s \in Slot, s < kv
      PROVE  /\ c[q][s] = SubSeq(row, 1, d + s + 1) /\ t.page[q].toks[s] = row[d + s + 1]
  <2>1. d + s < m
    <3>. HIDE DEF kv, d
    <3>. QED BY <1>2, <1>5
  <2>2. d + s < Len(row)
    <3>1. s \in Nat
      BY PageSizeAssumption DEF Slot
    <3>. HIDE DEF d
    <3>2. m \in Nat /\ Len(row) \in Nat /\ m <= Len(row)
      OBVIOUS
    <3>. QED BY ONLY <1>3, <2>1, <3>1, <3>2
  <2>. QED BY <2>2, Zenon DEF ContentTrue
<1>6. prev.base = 0 /\ prev # Root /\ kv > 0 => prev.toks = SubSeq(row, 1, d)
  <2>1. kv > 0 => d < m
    <3>. HIDE DEF kv, d
    <3>. QED BY ONLY <1>2, <1>3, m \in Nat, PageSizeAssumption
  <2>. QED BY <2>1
<1>7. kv = PageSize /\ h.base = 0 => h.toks = SubSeq(row, 1, (n + 1) * PageSize)
  <2>1. kv = PageSize => (n + 1) * PageSize <= m
    BY <1>2
  <2>. QED BY <2>1
<1>8. Text(row)
  BY DEF ContentTrue
<1>. DEFINE toks == t.page[q].toks
            cells == c[q]
<1>9. \A s \in Slot : s < kv => /\ cells[s] = SubSeq(row, 1, d + s + 1)
                                /\ toks[s] = row[d + s + 1]
  BY <1>5
<1>10. Truth(h, prev, kv, toks, cells)
  <2>. HIDE DEF kv, toks, cells, q
  <2>. QED BY <1>1, <1>2, <1>4, <1>6, <1>7, <1>8, <1>9, TruthBuilt
<1>. QED BY <1>10

\* The next page is linked to page i.
LEMMA NextPageTrue ==
  ASSUME NEW t, NEW c, NEW J, NEW i, NEW row, HashReady(t, c, J, i, row),
         NEW h, FinalFor(t, J, i, h), i + 1 \in Index(J),
         NEW r, SameButLink(t.page[PageOf(J, i + 1)], r), r.prev = h, r.saved = None
  PROVE  TruePage(r, c[PageOf(J, i + 1)])
<1>. DEFINE n == i + 1
            q == PageOf(J, n)
<1>1. /\ J \in JobState /\ i \in Nat /\ n \in Index(J) /\ n \in Nat /\ ContentTrue(t, c, J, row)
      /\ Len(row) \in Nat /\ FilledTo(t, J, Len(row)) /\ NamesTrue(t, J, i)
  BY PagesIndexed DEF HashReady
<1>2. t.page[q].kv = FillMark(Len(row), n)
  <2>. HIDE DEF n
  <2>. QED BY <1>1 DEF FilledTo
<1>3. h.base = 0 => h.toks = SubSeq(row, 1, n * PageSize)
  BY DEF HashReady, FinalFor
<1>4. t.page[q].phash.base # 0
  <2>1. n >= i
    BY <1>1
  <2>. HIDE DEF n
  <2>. QED BY <1>1, <2>1 DEF NamesTrue
<1>5. Truth(t.page[q].phash, h, t.page[q].kv, t.page[q].toks, c[q])
  <2>. DEFINE m == Len(row)
              g == t.page[q].phash
  <2>1. /\ m \in Nat /\ m <= Len(row) /\ Len(row) \in Nat /\ t.page[q].kv = FillMark(m, n)
        /\ h.base = 0 /\ h # Root /\ n * PageSize < m => h.toks = SubSeq(row, 1, n * PageSize)
        /\ g.base = 0 /\ (n + 1) * PageSize <= m => g.toks = SubSeq(row, 1, (n + 1) * PageSize)
    BY <1>1, <1>2, <1>3, <1>4
  <2>. HIDE DEF m, g, n
  <2>2. Truth(g, h, t.page[q].kv, t.page[q].toks, c[q])
    BY ONLY <1>1, <2>1, RowTruth
  <2>. QED BY <2>2 DEF g
<1>6. r.phash # Root
  BY <1>4, NotRoot DEF SameButLink
<1>. QED BY <1>5, <1>6 DEF SameButLink, TruePage, Identified

\* What hashing page i leaves: the table u and the job K.
Refiled(u, K, J, i, row) ==
  /\ PagesTyped(u) /\ PagesTrue(u, cache)
  /\ HashDone(u, cache, K, i, row)
  /\ K \in JobState /\ K = [J EXCEPT !.pages = K.pages] /\ Len(K.pages) = Len(J.pages)
  /\ \A q \in Page :
       \/ SamePage(table.page[q], u.page[q])
       \/ table.page[q].refs = 0
       \/ \E n \in Index(J) : PageOf(J, n) = q /\ table.page[q].phash.base # 0
  /\ BasesApart(u, [BlockTables EXCEPT ![cur] = K.pages])

LEMMA PublishedTable ==
  ASSUME NEW t, PagesTyped(t), Sound(t), NEW own \in Page, t.page[own].refs = 1,
         NEW h \in Hash, h.toks # <<>>, ~ Holds(t, t.referenced, h)
  PROVE  LET cleared == IF Holds(t, t.unreferenced, h)
                        THEN Clear(t, Lookup(t, t.unreferenced, h)) ELSE t
             v == UpdateHash(cleared, own, h)
         IN /\ PagesTyped(v)
            /\ v.page[own].phash = h /\ v.page[own].prev = t.page[own].prev
            /\ v.page[own].kv = t.page[own].kv /\ v.page[own].toks = t.page[own].toks
            /\ v.page[own].saved = None
            /\ \A q \in Page \ {own} :
                 \/ v.page[q] = t.page[q]
                 \/ /\ t.page[q].refs = 0 /\ v.page[q].kv = 0 /\ v.page[q].saved = None
                    /\ v.page[q].phash # Root
<1>. DEFINE old == Lookup(t, t.unreferenced, h)
            cleared == IF Holds(t, t.unreferenced, h) THEN Clear(t, old) ELSE t
<1>1. \A q \in Page : t.page[q].phash = h => t.page[q].refs = 0 /\ q \in t.unreferenced
  <2>1. \A q \in Page : q \in t.referenced \/ (t.page[q].refs = 0 /\ q \in t.unreferenced)
    BY RecordFields DEF Sound, PagesFiled
  <2>. QED BY <2>1 DEF Holds
<1>2. /\ PagesTyped(cleared) /\ Sound(cleared)
      /\ cleared.page[own] = t.page[own]
      /\ \A q \in Page \ {own} : cleared.page[q].phash # h
      /\ \A q \in Page \ {own} :
           \/ cleared.page[q] = t.page[q]
           \/ /\ t.page[q].refs = 0 /\ cleared.page[q].kv = 0 /\ cleared.page[q].saved = None
              /\ cleared.page[q].phash # Root
  <2>1. CASE Holds(t, t.unreferenced, h)
    <3>1. \E q \in t.unreferenced : t.page[q].phash = h
      BY <2>1 DEF Holds
    <3>2. old \in t.unreferenced /\ t.page[old].phash = h
      BY <3>1 DEF Lookup
    <3>. HIDE DEF old
    <3>3. old \in Page /\ t.page[old].refs = 0
      BY <3>2 DEF Sound, PagesFiled
    <3>4. cleared = Clear(t, old)
      BY <2>1
    <3>. HIDE DEF cleared
    <3>5. Sound(cleared)
      BY <3>3, <3>4, ClearSound
    <3>6. /\ PagesTyped(cleared)
          /\ cleared.page[old].phash = FreshHash(t) /\ cleared.page[old].kv = 0
          /\ cleared.page[old].saved = None
          /\ \A q \in Page \ {old} : cleared.page[q] = t.page[q]
      BY <3>3, <3>4, ClearPages
    <3>7. FreshHash(t) # h /\ FreshHash(t) # Root
      BY FreshHashType, NotRoot
    <3>8. \A q \in Page \ {old} : t.page[q].phash # h
      BY <3>2, <3>3 DEF Sound, HashesUnique
    <3>9. own # old
      BY <3>3
    <3>10. \A q \in Page : cleared.page[q].phash # h
      BY <3>6, <3>7, <3>8
    <3>11. /\ t.page[old].refs = 0 /\ cleared.page[old].kv = 0
           /\ cleared.page[old].saved = None /\ cleared.page[old].phash # Root
      BY <3>3, <3>6, <3>7
    <3>12. \A q \in Page \ {own} :
             \/ cleared.page[q] = t.page[q]
             \/ /\ t.page[q].refs = 0 /\ cleared.page[q].kv = 0 /\ cleared.page[q].saved = None
                /\ cleared.page[q].phash # Root
      BY <3>6, <3>11
    <3>. QED BY <3>5, <3>6, <3>9, <3>10, <3>12
  <2>2. CASE ~ Holds(t, t.unreferenced, h)
    <3>1. cleared = t
      BY <2>2
    <3>2. \A q \in Page : t.page[q].phash # h
      BY <1>1, <2>2 DEF Holds
    <3>. HIDE DEF cleared
    <3>. QED BY <3>1, <3>2
  <2>. QED BY <2>1, <2>2
<1>. HIDE DEF cleared
<1>3. cleared.page[own].refs > 0
  BY <1>2
<1>. DEFINE v == UpdateHash(cleared, own, h)
<1>4. /\ PagesTyped(v)
      /\ v.page[own].phash = h /\ v.page[own].prev = cleared.page[own].prev
      /\ v.page[own].kv = cleared.page[own].kv /\ v.page[own].toks = cleared.page[own].toks
      /\ v.page[own].saved = None
      /\ \A q \in Page \ {own} : v.page[q] = cleared.page[q]
  BY <1>2, <1>3, UpdateHashPages
<1>. HIDE DEF v
<1>5. /\ PagesTyped(v)
      /\ v.page[own].phash = h /\ v.page[own].prev = t.page[own].prev
      /\ v.page[own].kv = t.page[own].kv /\ v.page[own].toks = t.page[own].toks
      /\ v.page[own].saved = None
      /\ \A q \in Page \ {own} :
           \/ v.page[q] = t.page[q]
           \/ /\ t.page[q].refs = 0 /\ v.page[q].kv = 0 /\ v.page[q].saved = None
              /\ v.page[q].phash # Root
  BY SMTT(30), <1>2, <1>4
<1>. QED BY <1>5 DEF v, cleared

\* Page p, in one place, takes the hash h, which follows those of its own job's pages.
Following(t, u, f, p, j, i, h) ==
  /\ i \in Int /\ u.page[p].phash = h
  /\ \A l \in Job : \A m \in DOMAIN f[l] : f[l][m] # p =>
       /\ u.page[f[l][m]].phash = t.page[f[l][m]].phash
       /\ h.base # 0 /\ t.page[f[l][m]].phash.base = h.base =>
            /\ l = j /\ m \in Nat /\ m < i
            /\ Len(t.page[f[l][m]].phash.toks) < Len(h.toks)

LEMMA RehashedApart ==
  ASSUME NEW t, NEW u, NEW f, BasesApart(t, f), NEW p, NEW j \in Job, NEW i,
         SolePlace(f, p, j, i), NEW h, Following(t, u, f, p, j, i, h)
  PROVE  BasesApart(u, f)
<1>a. /\ i \in Int /\ u.page[p].phash = h
      /\ \A l \in Job : \A m \in DOMAIN f[l] : f[l][m] # p =>
           /\ u.page[f[l][m]].phash = t.page[f[l][m]].phash
           /\ h.base # 0 /\ t.page[f[l][m]].phash.base = h.base =>
                /\ l = j /\ m \in Nat /\ m < i
                /\ Len(t.page[f[l][m]].phash.toks) < Len(h.toks)
  BY SMTT(30) DEF Following
<1>. SUFFICES ASSUME NEW a \in Job, NEW l \in Job, NEW n \in DOMAIN f[a], NEW m \in DOMAIN f[l],
                     u.page[f[a][n]].phash.base = u.page[f[l][m]].phash.base,
                     u.page[f[a][n]].phash.base # 0
              PROVE  a = l /\ (n < m => Len(u.page[f[a][n]].phash.toks)
                                        < Len(u.page[f[l][m]].phash.toks))
  BY ZenonT(30) DEF BasesApart
<1>1. CASE f[a][n] # p /\ f[l][m] # p
  <2>1. /\ u.page[f[a][n]].phash = t.page[f[a][n]].phash
        /\ u.page[f[l][m]].phash = t.page[f[l][m]].phash
    BY <1>a, <1>1
  <2>2. t.page[f[a][n]].phash.base = t.page[f[l][m]].phash.base
        /\ t.page[f[a][n]].phash.base # 0 =>
          a = l /\ (n < m => Len(t.page[f[a][n]].phash.toks) < Len(t.page[f[l][m]].phash.toks))
    BY Zenon DEF BasesApart
  <2>. QED BY SMTT(30), <2>1, <2>2
<1>2. CASE f[a][n] = p /\ f[l][m] # p
  <2>1. a = j /\ n = i
    BY <1>2 DEF SolePlace
  <2>2. l = j /\ m \in Nat /\ m < i
    BY <1>a, <1>2
  <2>. QED BY SMTT(30), <1>a, <2>1, <2>2
<1>3. CASE f[a][n] # p /\ f[l][m] = p
  <2>1. l = j
    BY <1>3 DEF SolePlace
  <2>2. a = j /\ Len(u.page[f[a][n]].phash.toks) < Len(u.page[f[l][m]].phash.toks)
    BY ZenonT(30), <1>a, <1>3
  <2>. QED BY <2>1, <2>2
<1>4. CASE f[a][n] = p /\ f[l][m] = p
  <2>1. a = j /\ n = i /\ l = j /\ m = i
    BY <1>4 DEF SolePlace
  <2>. QED BY <1>a, <2>1
<1>. QED BY <1>1, <1>2, <1>3, <1>4

\* Pages that lose their hash, or have a content hash now.
LEMMA FewerApart ==
  ASSUME NEW t, NEW u, NEW f, NEW g, BasesApart(t, f),
         \A j \in Job : \A i \in DOMAIN g[j] :
           \/ u.page[g[j][i]].phash.base = 0
           \/ i \in DOMAIN f[j] /\ u.page[g[j][i]].phash = t.page[f[j][i]].phash
  PROVE  BasesApart(u, g)
<1>. SUFFICES ASSUME NEW j \in Job, NEW l \in Job, NEW i \in DOMAIN g[j], NEW m \in DOMAIN g[l],
                     u.page[g[j][i]].phash.base = u.page[g[l][m]].phash.base,
                     u.page[g[j][i]].phash.base # 0
              PROVE  j = l /\ (i < m => Len(u.page[g[j][i]].phash.toks)
                                        < Len(u.page[g[l][m]].phash.toks))
  BY DEF BasesApart
<1>1. /\ i \in DOMAIN f[j] /\ m \in DOMAIN f[l]
      /\ u.page[g[j][i]].phash = t.page[f[j][i]].phash
      /\ u.page[g[l][m]].phash = t.page[f[l][m]].phash
  OBVIOUS
<1>2. t.page[f[j][i]].phash.base = t.page[f[l][m]].phash.base
      /\ t.page[f[j][i]].phash.base # 0 =>
        j = l /\ (i < m => Len(t.page[f[j][i]].phash.toks) < Len(t.page[f[l][m]].phash.toks))
  BY <1>1, Zenon DEF BasesApart
<1>. QED BY SMTT(30), <1>1, <1>2

\* The row and its pages, at page i.
LEMMA ReadyRow ==
  ASSUME NEW t, NEW c, NEW J, NEW i, NEW row, HashReady(t, c, J, i, row)
  PROVE  /\ J \in JobState /\ i \in Nat /\ i \in Index(J) /\ Len(row) \in Nat
         /\ \A s \in Slot :
              /\ c[PageOf(J, i)][s] = SubSeq(row, 1, i * PageSize + s + 1)
              /\ t.page[PageOf(J, i)].toks[s] = row[i * PageSize + s + 1]
         /\ \A prev, h : (prev.base = 0 /\ prev # Root => prev = t.page[PageOf(J, i)].prev)
                         /\ FinalFor(t, J, i, h) =>
              Truth(h, prev, t.page[PageOf(J, i)].kv, t.page[PageOf(J, i)].toks,
                    c[PageOf(J, i)])
<1>. DEFINE q == PageOf(J, i)
            m == Len(row)
            e == (i + 1) * PageSize
            d == i * PageSize
<1>1. /\ J \in JobState /\ i \in Nat /\ i \in Index(J) /\ m \in Nat /\ row \in Seq(Token)
      /\ ContentTrue(t, c, J, row) /\ FilledTo(t, J, m) /\ LinksTrue(t, J, i)
      /\ e <= m /\ e <= Len(J.ids) /\ SubSeq(row, 1, e) = SubSeq(J.ids, 1, e)
      /\ J.ids \in Seq(Token) /\ Len(J.ids) \in Nat
  <2>1. J \in JobState /\ i \in Index(J) /\ row \in Seq(Token)
    BY DEF HashReady
  <2>2. i \in Nat /\ J.ids \in Seq(Token) /\ Len(J.ids) \in Nat /\ m \in Nat
    BY <2>1, PagesIndexed, JobFields
  <2>. QED BY <2>1, <2>2 DEF HashReady
<1>2. d \in Nat /\ e = d + PageSize /\ e \in Nat
  BY <1>1, Multiples, PageSizeAssumption
<1>3. \A s \in Slot : /\ c[q][s] = SubSeq(row, 1, i * PageSize + s + 1)
                      /\ t.page[q].toks[s] = row[i * PageSize + s + 1]
  <2>. SUFFICES ASSUME NEW s \in Slot
                PROVE  /\ c[q][s] = SubSeq(row, 1, i * PageSize + s + 1)
                       /\ t.page[q].toks[s] = row[i * PageSize + s + 1]
    OBVIOUS
  <2>1. d + s < m
    <3>1. s \in Nat /\ s < PageSize /\ PageSize \in Nat
      BY PageSizeAssumption DEF Slot
    <3>. HIDE DEF d, e, m
    <3>. QED BY ONLY <1>1, <1>2, <3>1
  <2>. QED BY <1>1, <2>1, Zenon DEF ContentTrue
<1>4. SubSeq(row, 1, d) = SubSeq(J.ids, 1, d)
  <2>1. e \in 0 .. Len(row) /\ d \in 0 .. e
    <3>. HIDE DEF d, e
    <3>. QED BY ONLY <1>1, <1>2, PageSizeAssumption
  <2>. HIDE DEF d, e
  <2>. QED BY <1>1, <2>1, ShorterPrefix
<1>5. ASSUME NEW prev, NEW h, prev.base = 0 /\ prev # Root => prev = t.page[q].prev,
             FinalFor(t, J, i, h)
      PROVE  Truth(h, prev, t.page[q].kv, t.page[q].toks, c[q])
  <2>1. prev.base = 0 /\ prev # Root => prev.toks = SubSeq(row, 1, d)
    <3>1. prev.base = 0 /\ prev # Root => prev.toks = SubSeq(J.ids, 1, d)
      BY <1>1, <1>5 DEF LinksTrue
    <3>. QED BY <1>4, <3>1
  <2>2. h.base = 0 => h.toks = SubSeq(row, 1, e)
    BY <1>1, <1>5 DEF FinalFor
  <2>3. t.page[q].kv = FillMark(m, i)
    BY <1>1 DEF FilledTo
  <2>4. m <= Len(row) /\ Len(row) \in Nat /\ m \in Nat
    BY <1>1
  <2>. HIDE DEF m
  <2>5. /\ prev.base = 0 /\ prev # Root /\ i * PageSize < m =>
            prev.toks = SubSeq(row, 1, i * PageSize)
        /\ h.base = 0 /\ (i + 1) * PageSize <= m => h.toks = SubSeq(row, 1, (i + 1) * PageSize)
    BY <2>1, <2>2
  <2>. QED BY ONLY <1>1, <2>3, <2>4, <2>5, RowTruth
<1>. QED BY <1>1, <1>3, <1>5

\* No referenced page has the hash: the page takes it.
LEMMA Publishes ==
  ASSUME CacheInv, cur \in Job, NEW J, J.pages = job[cur].pages,
         NEW i, NEW row, HashReady(table, cache, J, i, row), NEW h, h = FinalHash(table, J, i),
         ~ Holds(table, table.referenced, h)
  PROVE  Refiled(Publish(table, J, i, h).table, J, J, i, row)
<1>. DEFINE own == PageOf(J, i)
            cleared == IF Holds(table, table.unreferenced, h)
                       THEN Clear(table, Lookup(table, table.unreferenced, h)) ELSE table
            v == UpdateHash(cleared, own, h)
            u == LinkNext(v, J, i, h)
<1>1. /\ PagesTyped(table) /\ Sound(table) /\ BasesApart(table, BlockTables)
      /\ PagesTrue(table, cache) /\ CountsMatch(table, BlockTables)
      /\ BlockTables \in [Job -> Seq(Page)] /\ job \in [Job -> JobState]
  BY BlockTablesType DEF CacheInv, Typed, BooksInv, Sound, PagesTyped
<1>2. /\ own \in Page /\ table.page[own].phash.base # 0 /\ table.page[own].kv = PageSize
      /\ SolePlace(BlockTables, own, cur, i + 1) /\ Placing(BlockTables)
      /\ table.page[own].refs = 1
      /\ \A n \in Index(J) : n # i => PageOf(J, n) # own
      /\ \A n \in Index(J) : n > i => table.page[PageOf(J, n)].phash.base # 0
  BY HashSite
<1>3. FinalFor(table, J, i, h)
  BY <1>1, FinalHashFacts
<1>4. J \in JobState /\ i \in Nat /\ i \in Index(J)
  BY PagesIndexed DEF HashReady
<1>5. Publish(table, J, i, h).table = u
  BY SMTT(30) DEF Publish, PageOf
<1>. HIDE DEF own
<1>6. /\ PagesTyped(v)
      /\ v.page[own].phash = h /\ v.page[own].prev = table.page[own].prev
      /\ v.page[own].kv = table.page[own].kv /\ v.page[own].toks = table.page[own].toks
      /\ v.page[own].saved = None
      /\ \A q \in Page \ {own} :
           \/ v.page[q] = table.page[q]
           \/ /\ table.page[q].refs = 0 /\ v.page[q].kv = 0 /\ v.page[q].saved = None
              /\ v.page[q].phash # Root
  <2>1. h \in Hash /\ h.toks # <<>>
    BY <1>3 DEF FinalFor
  <2>. QED BY <1>1, <1>2, <2>1, PublishedTable
<1>. HIDE DEF v
<1>7. /\ PagesTyped(u)
      /\ \A q \in Page :
           /\ SameButLink(v.page[q], u.page[q])
           /\ IF i + 1 \in Index(J) /\ q = PageOf(J, i + 1)
              THEN u.page[q].prev = h /\ u.page[q].saved = None
              ELSE u.page[q].prev = v.page[q].prev /\ u.page[q].saved = v.page[q].saved
  <2>1. h \in Hash
    BY <1>3 DEF FinalFor
  <2>. QED BY <1>4, <1>6, <2>1, LinkNextPages
<1>. HIDE DEF u
<1>8. \A l \in Job : \A m \in DOMAIN BlockTables[l] :
        /\ BlockTables[l][m] \in Page /\ table.page[BlockTables[l][m]].refs # 0
  <2>. SUFFICES ASSUME NEW l \in Job, NEW m \in DOMAIN BlockTables[l]
                PROVE  BlockTables[l][m] \in Page /\ table.page[BlockTables[l][m]].refs # 0
    OBVIOUS
  <2>. DEFINE f == BlockTables
  <2>1. f \in [Job -> Seq(Page)] /\ CountsMatch(table, f) /\ m \in DOMAIN f[l]
    BY <1>1
  <2>. HIDE DEF f
  <2>2. f[l][m] \in Page /\ table.page[f[l][m]].refs > 0
    BY <2>1, PlacedReferenced
  <2>. QED BY <1>1, <2>2, RecordFields DEF f
<1>9. \A n \in Index(J) : PageOf(J, n) \in Page /\ table.page[PageOf(J, n)].refs # 0
  <2>1. \A n \in Index(J) : n + 1 \in DOMAIN BlockTables[cur]
                            /\ BlockTables[cur][n + 1] = PageOf(J, n)
    BY <1>4, PagesIndexed DEF BlockTables, PageOf
  <2>. QED BY <1>8, <2>1
<1>10. i + 1 \in Index(J) => /\ PageOf(J, i + 1) # own /\ PageOf(J, i + 1) \in Page
                             /\ v.page[PageOf(J, i + 1)] = table.page[PageOf(J, i + 1)]
                             /\ table.page[PageOf(J, i + 1)].phash.base # 0
  BY <1>2, <1>4, <1>6, <1>9
<1>11. /\ u.page[own].phash = h /\ u.page[own].prev = table.page[own].prev
       /\ u.page[own].kv = PageSize /\ u.page[own].toks = table.page[own].toks
       /\ u.page[own].saved = None
  BY <1>2, <1>6, <1>7, <1>10 DEF SameButLink
<1>12. \A q \in Page \ {own} :
         \/ i + 1 \in Index(J) /\ q = PageOf(J, i + 1)
         \/ SamePage(table.page[q], u.page[q]) /\ u.page[q].saved = table.page[q].saved
         \/ /\ table.page[q].refs = 0 /\ u.page[q].kv = 0 /\ u.page[q].saved = None
            /\ u.page[q].phash # Root
  BY <1>6, <1>7 DEF SameButLink, SamePage
<1>13. i + 1 \in Index(J) =>
         LET q == PageOf(J, i + 1) IN
         /\ SameButLink(table.page[q], u.page[q]) /\ u.page[q].prev = h
         /\ u.page[q].saved = None
  BY <1>7, <1>10
<1>a. /\ \A s \in Slot :
           /\ cache[own][s] = SubSeq(row, 1, i * PageSize + s + 1)
           /\ table.page[own].toks[s] = row[i * PageSize + s + 1]
      /\ \A prev : (prev.base = 0 /\ prev # Root => prev = table.page[own].prev) =>
           Truth(h, prev, table.page[own].kv, table.page[own].toks, cache[own])
  BY <1>3, ReadyRow DEF own
<1>14. PagesTrue(u, cache)
  <2>. SUFFICES ASSUME NEW q \in Page PROVE TruePage(u.page[q], cache[q])
    BY DEF PagesTrue
  <2>1. CASE q = own
    <3>1. Truth(h, table.page[own].prev, table.page[own].kv, table.page[own].toks, cache[own])
      BY <1>a
    <3>2. h # Root
      BY <1>3, NotRoot DEF FinalFor
    <3>. QED BY <1>2, <1>11, <2>1, <3>1, <3>2 DEF TruePage, Identified
  <2>2. CASE i + 1 \in Index(J) /\ q = PageOf(J, i + 1)
    BY <1>3, <1>13, <2>2, NextPageTrue
  <2>3. CASE SamePage(table.page[q], u.page[q]) /\ u.page[q].saved = table.page[q].saved
    BY <1>1, <2>3, TruePageFrame DEF PagesTrue
  <2>4. CASE u.page[q].kv = 0 /\ u.page[q].saved = None /\ u.page[q].phash # Root
    BY <2>4, TruthOfNothing DEF TruePage, Identified
  <2>. QED BY <1>12, <2>1, <2>2, <2>3, <2>4
<1>15. HashDone(u, cache, J, i, row)
  <2>1. HashedPage(u, cache, J, i, row, h)
    BY <1>11, <1>a DEF HashedPage, own
  <2>2. HashedRest(table, u, J, J, i, h)
    <3>1. ASSUME NEW n \in Index(J), n # i
          PROVE  /\ SameButLink(table.page[PageOf(J, n)], u.page[PageOf(J, n)])
                 /\ u.page[PageOf(J, n)].prev = IF n = i + 1 THEN h ELSE table.page[PageOf(J, n)].prev
      <4>1. PageOf(J, n) # own /\ PageOf(J, n) \in Page /\ table.page[PageOf(J, n)].refs # 0
        BY <1>2, <1>9, <3>1
      <4>2. CASE n = i + 1
        BY <1>13, <4>2
      <4>3. CASE n # i + 1
        <5>1. i + 1 \in Index(J) => PageOf(J, n) # PageOf(J, i + 1)
          <6>1. SUFFICES ASSUME i + 1 \in Index(J), PageOf(J, n) = PageOf(J, i + 1) PROVE FALSE
            OBVIOUS
          <6>2. /\ i + 1 \in Index(job[cur]) /\ n \in Index(job[cur])
                /\ PageOf(job[cur], n) = PageOf(job[cur], i + 1)
                /\ table.page[PageOf(job[cur], i + 1)].phash.base # 0
            BY <1>10, <6>1 DEF Index, PageOf
          <6>. QED BY SMTT(30), <1>1, <4>3, <6>2, Exclusive DEF PagesTyped
        <5>2. SamePage(table.page[PageOf(J, n)], u.page[PageOf(J, n)])
          BY <1>12, <4>1, <5>1
        <5>. QED BY <4>3, <5>2 DEF SamePage, SameButLink
      <4>. QED BY <4>2, <4>3
    <3>. QED BY <1>4, <3>1 DEF HashedRest, HashReady
  <2>. QED BY <1>3, <2>1, <2>2, HashedServed
<1>16. \A q \in Page :
         \/ SamePage(table.page[q], u.page[q])
         \/ table.page[q].refs = 0
         \/ \E n \in Index(J) : PageOf(J, n) = q /\ table.page[q].phash.base # 0
  BY <1>2, <1>4, <1>10, <1>12 DEF own
<1>17. BasesApart(u, [BlockTables EXCEPT ![cur] = J.pages])
  <2>1. [BlockTables EXCEPT ![cur] = J.pages] = BlockTables
    <3>1. BlockTables[cur] = J.pages
      BY DEF BlockTables
    <3>. QED BY <1>1, <3>1
  <2>2. ASSUME NEW l \in Job, NEW m \in DOMAIN BlockTables[l], BlockTables[l][m] # own
        PROVE  /\ u.page[BlockTables[l][m]].phash = table.page[BlockTables[l][m]].phash
               /\ h.base # 0 /\ table.page[BlockTables[l][m]].phash.base = h.base =>
                    /\ l = cur /\ m \in Nat /\ m < i + 1
                    /\ Len(table.page[BlockTables[l][m]].phash.toks) < Len(h.toks)
    <3>1. BlockTables[l][m] \in Page \ {own} /\ table.page[BlockTables[l][m]].refs # 0
      BY <1>8, <2>2
    <3>2. u.page[BlockTables[l][m]].phash = table.page[BlockTables[l][m]].phash
      BY <1>12, <1>13, <3>1 DEF SamePage, SameButLink
    <3>. QED BY <1>3, <3>2, FinalApart
  <2>. DEFINE f == BlockTables
              n == i + 1
  <2>3. BasesApart(table, f) /\ SolePlace(f, own, cur, n)
    BY <1>1, <1>2
  <2>a. n \in Int
    BY <1>4
  <2>5. Following(table, u, f, own, cur, n, h)
    BY <1>11, <2>2, <2>a DEF Following
  <2>. HIDE DEF f, n
  <2>4. BasesApart(u, f)
    BY ONLY <2>3, <2>5, cur \in Job, RehashedApart
  <2>. QED BY <2>1, <2>4 DEF f
<1>18. J = [J EXCEPT !.pages = J.pages]
  BY <1>4 DEF JobState
<1>. QED BY <1>4, <1>5, <1>7, <1>14, <1>15, <1>16, <1>17, <1>18 DEF Refiled
=============================================================================
