------------------------------- MODULE Sublist -------------------------------
(***************************************************************************)
(* Part of a sequence, in its order: what a comprehension with a condition *)
(* or a run of remove() leaves of a list.  SelectSeq says the same, but by *)
(* recursion; this definition counts positions, and can be reasoned about. *)
(***************************************************************************)
EXTENDS Naturals, Sequences, FiniteSets

\* The elements of q at the positions in T
Picked(q, T) ==
    LET nth(n) == CHOOSE i \in T : Cardinality({j \in T : j <= i}) = n
    IN  [n \in 1..Cardinality(T) |-> q[nth(n)]]

\* The sequence s without the elements of S
Dropped(s, S) == Picked(s, {i \in DOMAIN s : s[i] \notin S})
=============================================================================
