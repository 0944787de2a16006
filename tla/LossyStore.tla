------------------------------ MODULE LossyStore ------------------------------
(***************************************************************************)
(* What the page tiers promise together.  They are a cache: they may lose   *)
(* any page at any time, and a crash may lose more.  But they never answer  *)
(* for a page nobody stored, and what they deliver for a page is that page. *)
(***************************************************************************)
EXTENDS FiniteSets

CONSTANTS Pages, None

VARIABLES
    kept,      \* pages the tiers may still answer for
    delivery   \* the copy into a cache page in progress: [page, bytes], or None

vars == <<kept, delivery>>

Init == kept \subseteq Pages /\ delivery = None

\* A page leaves VRAM for the tiers.  Any step may lose others.
Store(p) == kept' \subseteq kept \cup {p} /\ UNCHANGED delivery

Lose == kept' \subseteq kept /\ UNCHANGED delivery

Deliver(p) == p \in kept /\ kept' \subseteq kept /\ delivery' = [page |-> p, bytes |-> p]

\* The copy is done, or the process has died.
EndDelivery == kept' \subseteq kept /\ delivery' = None

Next == (\E p \in Pages : Store(p) \/ Deliver(p)) \/ Lose \/ EndDelivery

Spec == Init /\ [][Next]_vars
=============================================================================
