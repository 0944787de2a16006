---------------------------- MODULE MCCheckpoints ----------------------------
(* Two pages, one of which is known by the placeholder early before its      *)
(* final hash k1.                                                            *)
EXTENDS Checkpoints, TLC

CONSTANTS k1, k2, early, b1, b2, b3

MCKeys == {k1, k2, early}
MCContent == {k1, k2}
MCRename == early :> k1
MCBuffers == {b1, b2, b3}
=============================================================================
