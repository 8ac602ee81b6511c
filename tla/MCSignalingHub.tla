--------------------------- MODULE MCSignalingHub ---------------------------
(***************************************************************************)
(* Values of the constants of SignalingHub for TLC.                        *)
(***************************************************************************)
EXTENDS SignalingHub, TLC

CONSTANTS c1, c2, c3, r1, p1, p2, p3, px

(* Three participants of one room.                                         *)
OneRoom       == c1 :> r1 @@ c2 :> r1 @@ c3 :> r1
DistinctPeers == c1 :> p1 @@ c2 :> p2 @@ c3 :> p3

(* The last two are interchangeable: a permutation moves a connection      *)
(* together with its peer identifier.                                      *)
LastTwoSwap ==
  {(c2 :> s[c2] @@ c3 :> s[c3] @@ p2 :> DistinctPeers[s[c2]]
    @@ p3 :> DistinctPeers[s[c3]]) : s \in Permutations({c2, c3})}

(* Two connections that claim the same identifiers, and another peer.      *)
SharedPeer == c1 :> p1 @@ c2 :> p1 @@ c3 :> p2

(* Two participants only.                                                  *)
PairRoom  == c1 :> r1 @@ c2 :> r1
PairPeers == c1 :> p1 @@ c2 :> p2

(* Numbers of frames: one connection talks, or two of them.                *)
FirstTwice   == c1 :> 2 @@ c2 :> 0
FirstThrice  == c1 :> 3 @@ c2 :> 0
OnlyFirst    == c1 :> 2 @@ c2 :> 0 @@ c3 :> 0
FirstAndLast == c1 :> 1 @@ c2 :> 0 @@ c3 :> 1
=============================================================================
