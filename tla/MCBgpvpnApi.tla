---------------------------- MODULE MCBgpvpnApi ----------------------------
(***************************************************************************)
(* Instances of BgpvpnApi for TLC.                                         *)
(***************************************************************************)
EXTENDS BgpvpnApi, TLC

Symmetry ==
  Permutations(Project) \cup Permutations(BgpvpnId) \cup Permutations(Network)
    \cup Permutations(NamedValue)
=============================================================================
