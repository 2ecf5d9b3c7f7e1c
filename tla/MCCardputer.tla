------------------------------ MODULE MCCardputer ------------------------------
(***************************************************************************)
(* Cardputer for TLC: peers are alike.                                     *)
(***************************************************************************)
EXTENDS Cardputer, TLC

PeerSymmetry == Permutations(Peer)
==============================================================================
