---------------------------- MODULE MCBagpipeV2 ----------------------------
(***************************************************************************)
(* Instances of BagpipeV2 for TLC.                                         *)
(***************************************************************************)
EXTENDS BagpipeV2

CONSTANTS n1, r1, p1

OnePort == [p \in {p1} |-> n1]
NoPort == [p \in {} |-> n1]

\* Sound for the runs without a liveness property.
Symmetry == Permutations(Worker) \cup Permutations(Bgpvpn) \cup Permutations(Assoc)
=============================================================================
