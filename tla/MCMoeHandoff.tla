---------------------------- MODULE MCMoeHandoff ----------------------------
(* Instances of MoeHandoff for TLC. *)
EXTENDS MoeHandoff

\* Two offloaded layers, on two devices.
TwoDevices == <<1, 2>>

\* A decode step without an expert of the CPU's, a prefill in more chunks than there are
\* slots, and a prefill with streamed experts and a tail. (A decode step with an expert of
\* the CPU's is a prefill of one chunk.)
AllShapes ==
  { [chunks |-> 1, kind |-> "idle", batches |-> 0],
    [chunks |-> 3, kind |-> "plain", batches |-> 0],
    [chunks |-> 1, kind |-> "plain", batches |-> 1] }

\* Two passes undisturbed in which sequence numbers wrap, one with a worker that may die,
\* one with waits that time out.
AllScenarios ==
  { [memops |-> TRUE, mortal |-> FALSE, passes |-> 2, past |-> 12],
    [memops |-> TRUE, mortal |-> TRUE, passes |-> 1, past |-> 0],
    [memops |-> FALSE, mortal |-> FALSE, passes |-> 1, past |-> 0] }

\* A worker that may die under a pass.
DeadWorker == {[memops |-> TRUE, mortal |-> TRUE, passes |-> 1, past |-> 0]}
=============================================================================
