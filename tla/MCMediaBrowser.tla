---------------------------- MODULE MCMediaBrowser ----------------------------
(* Instances of MediaBrowser for TLC. *)
EXTENDS MediaBrowser, TLC

UdnSymmetry == Permutations(Udn)
=============================================================================
