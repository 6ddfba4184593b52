---------------------------- MODULE MCBagpipeV1 ----------------------------
(***************************************************************************)
(* Instances of BagpipeV1 for TLC.                                         *)
(***************************************************************************)
EXTENDS BagpipeV1, TLC

CONSTANTS n1, n2, p1, p2, p3

\* p3 on n2, the others on n1.
Networks == [p \in Port |-> IF p = p3 THEN n2 ELSE n1]

OneAddress == [p \in Port |-> 1]

Symmetry ==
  Permutations(Worker) \cup Permutations(Bgpvpn) \cup Permutations(Router) \cup Permutations(RT)
=============================================================================
