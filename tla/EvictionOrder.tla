--------------------------- MODULE EvictionOrder ---------------------------
(***************************************************************************)
(* PageTable.build_eviction_order, "tree" policy: the order in which       *)
(* unreferenced pages are given up.  Empty pages first; then trees of      *)
(* pages whose ancestry is broken, then rooted trees, each consumed        *)
(* leaf-first and oldest leaf first; then whatever the walk could not      *)
(* reach, pages the current allocation wants for itself last of all.       *)
(***************************************************************************)
EXTENDS PageTable, Functions

Older(t, p, q) ==
  \/ t.page[p].serial < t.page[q].serial
  \/ t.page[p].serial = t.page[q].serial /\ p < q

ByAge(t, S) ==
  [i \in 1 .. Cardinality(S) |->
     CHOOSE p \in S : Cardinality({q \in S : Older(t, q, p)}) = i - 1]
Oldest(t, S) == CHOOSE p \in S : \A q \in S \ {p} : Older(t, p, q)

\* The page another page's prev_hash resolves to, if any.  (The index is built
\* over all pages; their hashes are unique.)
Parents(t, p) == {q \in Page \ {p} : t.page[q].phash = t.page[p].prev}
Children(t, p) == {q \in Page \ {p} : t.page[q].prev = t.page[p].phash}

Roots(t) == {p \in Page : t.page[p].prev = Root}
OrphanRoots(t) == {p \in Page : t.page[p].prev # Root /\ Parents(t, p) = {}}

\* All pages of the tree under root.
TreeOf(t, root) ==
  LET Down[n \in 0 .. NumPages] ==
        IF n = 0 THEN {root}
        ELSE Down[n - 1] \cup UNION {Children(t, p) : p \in Down[n - 1]}
  IN Down[NumPages]

\* The pages of a tree in the order its current leaves leave the heap.  A page
\* that cannot be given up (kept) holds on to its ancestors.
OldestFirst(t, tree, kept) == ByAge(t, tree \ kept)
LeafFirst(t, tree, kept) ==
  LET Walk[n \in 0 .. Cardinality(tree)] ==
        IF n = 0 THEN <<>>
        ELSE LET gone   == Range(Walk[n - 1])
                 leaves == {p \in tree \ gone : Children(t, p) \subseteq gone \ kept}
             IN IF leaves = {} THEN Walk[n - 1]
                ELSE Append(Walk[n - 1], Oldest(t, leaves))
  IN Walk[Cardinality(tree)]

\* One walk after the other.  (FlattenSeq of SequencesExt says the same.)
Concatenated(walks) ==
  LET Upto[n \in 0 .. Len(walks)] ==
        IF n = 0 THEN <<>> ELSE Upto[n - 1] \o walks[n]
  IN Upto[Len(walks)]

\* The pages of the walks that are given up: not those already are, nor kept ones.
Emitted(walk, others) ==
  LET Upto[n \in 0 .. Len(walk)] ==
        IF n = 0 THEN <<>>
        ELSE IF walk[n] \in others THEN Upto[n - 1] ELSE Append(Upto[n - 1], walk[n])
  IN Upto[Len(walk)]

\* "Last resort": what no walk gave up, wanted pages after the others
NoLastResort(t, rest, shielded) == <<>>
LastResort(t, rest, shielded) == ByAge(t, rest \ shielded) \o ByAge(t, rest \cap shielded)

BuildEvictionOrder(t, protected) ==
  LET shielded == {p \in Page : t.page[p].phash \in protected}
      empty    == {p \in t.unreferenced \ shielded : t.page[p].kv = 0}
      kept     == {p \in Page \ empty : t.page[p].refs > 0 \/ p \in shielded}
      roots    == ByAge(t, OrphanRoots(t)) \o ByAge(t, Roots(t))
      walked   == Concatenated([i \in DOMAIN roots |->
                                  LeafFirst(t, TreeOf(t, roots[i]), kept)])
      pruned   == ByAge(t, empty) \o Emitted(walked, empty \cup kept)
      rest     == t.unreferenced \ Range(pruned)
  IN pruned \o LastResort(t, rest, shielded)
=============================================================================
