---------------------------- MODULE MCBroadcaster ----------------------------
(***************************************************************************)
(* Values of the constants of Broadcaster for TLC.                         *)
(***************************************************************************)
EXTENDS Broadcaster, TLC

(* Viewers are interchangeable.                                            *)
ViewerSymmetry == Permutations(Viewer)
=============================================================================
