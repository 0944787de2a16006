---------------------------- MODULE MCPagedJobs ----------------------------
(* Instances of PagedJobs for TLC. *)
EXTENDS PagedJobs, TLC

\* Prompts that begin with a BOS token no model ever samples.  An answer to the shortest
\* may complete the second page of the next before that one has prefilled it; the last
\* shares their first page only.
BosPrompts ==
  {<<"B", "a", "b">>, <<"B", "a", "b", "b", "b">>, <<"B", "a", "a", "a", "a">>}

\* Prompts that differ in the first token of their second page.
ShortPrompts == {<<"B", "a", "a">>, <<"B", "a", "b", "a">>}

\* Prompts without a BOS token: text from inside one sequence may begin another.
PlainPrompts == {<<"b", "b", "a", "b">>, <<"a", "b", "b">>}

\* A prompt that ends inside a page and goes on, requeued, from either side of a
\* boundary, and a longer one that fills a page and, answered, needs every page.
GrowingPrompts == {<<"B", "a", "b">>, <<"B", "a", "b", "a", "b", "b">>}

JobSymmetry == Permutations(Job)
=============================================================================
