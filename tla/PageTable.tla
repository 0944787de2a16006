----------------------------- MODULE PageTable -----------------------------
(***************************************************************************)
(* The page table of the generator's paged K/V cache                       *)
(* (exllamav3/generator/pagetable.py): content-addressed, reference-counted *)
(* pages, as operators on the value of the table.  A module that drives a  *)
(* table keeps that value in a variable and applies these operators to it, *)
(* as the code calls methods of CachePage and PageTable.                   *)
(*                                                                         *)
(* A page hash is the chained blake2b digest of the page's tokens and of   *)
(* the previous page's hash; collisions are treated as impossible there,   *)
(* so a hash is here the pair of what it was chained from: a base (0 for   *)
(* the start of a sequence, n > 0 for the n-th placeholder) and the tokens *)
(* chained onto the base.  A placeholder ("random") hash has no tokens.    *)
(***************************************************************************)
EXTENDS Naturals, Sequences, FiniteSets

CONSTANTS
  NumPages,   \* PageTable.max_pages
  PageSize,   \* PAGE_SIZE, tokens per page
  Token,      \* token ids
  None        \* the code's None, where a value may be absent

ASSUME NumPagesAssumption == NumPages \in Nat \ {0}
ASSUME PageSizeAssumption == PageSize \in Nat \ {0}

Page == 0 .. NumPages - 1

Hash == [base : Nat, toks : Seq(Token)]

\* The predecessor of a sequence's first page (None in the code).
Root == [base |-> 0, toks |-> <<>>]

Placeholder(n) == [base |-> n, toks |-> <<>>]

IsContentHash(h) == h.toks # <<>>

\* tensor_hash_checksum(ids, prev_hash)
Chain(prev, ids) == [prev EXCEPT !.toks = @ \o ids]

Backup == [phash : Hash, prev : Hash, serial : Nat, kv : 0 .. PageSize]

ASSUME NoneAssumption == None \notin Backup \cup Token \cup Nat

CachePage ==
  [ phash  : Hash,               \* the key the page is filed under
    prev   : Hash,               \* prev_hash
    refs   : Nat,                \* ref_count
    serial : Nat,                \* access_serial
    kv     : 0 .. PageSize,      \* kv_position
    toks   : [0 .. PageSize - 1 -> Token \cup {None}],    \* sequence (None: not yet written)
    saved  : Backup \cup {None} ]      \* the *_revert fields; can_revert

\* A dict of pages keyed by their hashes is the set of the pages it holds.
Table ==
  [ page         : [Page -> CachePage],
    referenced   : SUBSET Page,
    unreferenced : SUBSET Page ]

-----------------------------------------------------------------------------
(* Hashes in use, and a fresh placeholder.                                 *)

BasesOf(rec) ==
  {rec.phash.base, rec.prev.base} \cup
  (IF rec.saved = None THEN {} ELSE {rec.saved.phash.base, rec.saved.prev.base})

Bases(t) == UNION {BasesOf(t.page[p]) : p \in Page}

\* _randomhash: a placeholder that nothing mentions, hence never seen before
\* as far as any later step can tell.
FreshHash(t) == Placeholder(CHOOSE n \in 1 .. 4 * NumPages + 1 : n \notin Bases(t))

\* The dict S after `del S[h]`, and after `S[h] = p` where p now has hash h.
Without(S, pages, h) == {q \in S : pages[q].phash # h}
Filed(S, pages, p) == Without(S, pages, pages[p].phash) \cup {p}

Holds(t, S, h) == \E q \in S : t.page[q].phash = h
Lookup(t, S, h) == CHOOSE q \in S : t.page[q].phash = h

Complete(t, p) == t.page[p].kv = PageSize

\* PageTable.reset_page_table
EmptyTable ==
  [ page |-> [p \in Page |->
               [ phash |-> Placeholder(p + 1), prev |-> Root, refs |-> 0,
                 serial |-> p, kv |-> 0,
                 toks |-> [i \in 0 .. PageSize - 1 |-> None],
                 saved |-> None ]],
    referenced |-> {},
    unreferenced |-> Page ]

-----------------------------------------------------------------------------
(* CachePage methods.                                                      *)

\* Refile page p, whose record becomes rec, from one dict to the other.
CopyToReferenced(t, p, rec) ==
  LET pages == [t.page EXCEPT ![p] = rec] IN
  [t EXCEPT !.page = pages, !.referenced = Filed(@, pages, p)]
MoveToReferenced(t, p, rec) ==
  LET pages == [t.page EXCEPT ![p] = rec] IN
  [ page |-> pages,
    referenced |-> Filed(t.referenced, pages, p),
    unreferenced |-> Without(t.unreferenced, t.page, t.page[p].phash) ]

\* add_ref
AddRef(t, p, s) ==
  LET rec == [t.page[p] EXCEPT !.refs = @ + 1,
                               !.serial = IF s > @ THEN s ELSE @,
                               !.saved = None]
  IN IF t.page[p].refs = 0
     THEN MoveToReferenced(t, p, rec)
     ELSE [t EXCEPT !.page[p] = rec]

\* add_ref_clear
AddRefClear(t, p, s, h) ==
  MoveToReferenced(t, p,
    [t.page[p] EXCEPT !.phash = h, !.refs = @ + 1, !.serial = s,
                      !.prev = Root, !.saved = None, !.kv = 0])

\* add_ref_unique: the page's identity is backed up until it is written to
AddRefUniqueLinked(t, p, s) ==
  LET old == t.page[p] IN
  MoveToReferenced(t, p,
    [old EXCEPT !.saved = [phash |-> old.phash, prev |-> old.prev,
                           serial |-> old.serial, kv |-> old.kv],
                !.phash = FreshHash(t), !.refs = @ + 1, !.serial = s, !.kv = 0])
AddRefUnique(t, p, s) ==
  LET old == t.page[p] IN
  MoveToReferenced(t, p,
    [old EXCEPT !.saved = [phash |-> old.phash, prev |-> old.prev,
                           serial |-> old.serial, kv |-> old.kv],
                !.phash = FreshHash(t), !.refs = @ + 1, !.serial = s,
                !.prev = Root, !.kv = 0])

\* revert, which sub_ref applies when can_revert is set
Reverted(rec) ==
  IF rec.saved = None THEN rec
  ELSE [rec EXCEPT !.phash = rec.saved.phash, !.prev = rec.saved.prev,
                   !.serial = rec.saved.serial, !.kv = rec.saved.kv,
                   !.saved = None]

\* sub_ref: a page reverted to a hash that another page took meanwhile gets a
\* placeholder instead
SubRefBlind(t, p) ==
  IF t.page[p].refs > 1 THEN [t EXCEPT !.page[p].refs = @ - 1]
  ELSE LET pages == [t.page EXCEPT ![p] = [Reverted(@) EXCEPT !.refs = @ - 1]]
       IN [ page |-> pages,
            referenced |-> Without(t.referenced, t.page, t.page[p].phash),
            unreferenced |-> Filed(t.unreferenced, pages, p) ]
SubRef(t, p) ==
  IF t.page[p].refs > 1 THEN [t EXCEPT !.page[p].refs = @ - 1]
  ELSE LET left  == Without(t.referenced, t.page, t.page[p].phash)
           rec   == [Reverted(t.page[p]) EXCEPT !.refs = @ - 1]
           clash == Holds(t, left \cup t.unreferenced, rec.phash)
           pages == [t.page EXCEPT ![p] =
                       IF clash THEN [rec EXCEPT !.phash = FreshHash(t), !.prev = Root]
                       ELSE rec]
       IN [ page |-> pages,
            referenced |-> left,
            unreferenced |-> Filed(t.unreferenced, pages, p) ]

\* clear, of an unreferenced page
Clear(t, p) ==
  LET pages == [t.page EXCEPT
        ![p].phash = FreshHash(t), ![p].prev = Root, ![p].kv = 0,
        ![p].toks = [i \in 0 .. PageSize - 1 |-> None],
        ![p].saved = None]
  IN [t EXCEPT !.page = pages,
               !.unreferenced =
                  Filed(Without(@, t.page, t.page[p].phash), pages, p)]

\* update_hash, of a referenced page
UpdateHash(t, p, h) ==
  LET pages == [t.page EXCEPT ![p].phash = h, ![p].saved = None]
  IN [t EXCEPT !.page = pages,
               !.referenced =
                  Filed(Without(@, t.page, t.page[p].phash), pages, p)]

-----------------------------------------------------------------------------
(* What validate_pagetable asserts of the table alone.                     *)

\* Every page is in the one dict its reference count says.
PagesFiled(t) ==
  /\ t.referenced = {p \in Page : t.page[p].refs > 0}
  /\ t.unreferenced = {p \in Page : t.page[p].refs = 0}

\* No two pages have the same hash.
HashesUnique(t) ==
  \A p, q \in Page : t.page[p].phash = t.page[q].phash => p = q
=============================================================================
