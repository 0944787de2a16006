----------------------------- MODULE MCJobQueue -----------------------------
(* Instances of JobQueue for TLC. *)
EXTENDS JobQueue

\* A job that takes part of the cache and one that needs the whole batch
TwoKinds ==
  { [pages |-> 1, width |-> 1, prompt |-> 1, tokens |-> 3, segment |-> 0, maxSkips |-> 1],
    [pages |-> 3, width |-> 3, prompt |-> 1, tokens |-> 1, segment |-> 0, maxSkips |-> 1] }

\* Jobs that requeue after every token, skipped by nobody or once
Requeuing ==
  [pages : {1}, width : {1}, prompt : {2}, tokens : {2}, segment : {1}, maxSkips : {0}]

MixedKinds == TwoKinds \cup Requeuing
=============================================================================
