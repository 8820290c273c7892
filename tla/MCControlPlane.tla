---------------------------- MODULE MCControlPlane ----------------------------
(* Instances of ControlPlane for TLC.                                       *)
EXTENDS ControlPlane, TLC

Symmetry == Permutations(Calls) \cup Permutations(Pairs) \cup Permutations(Senders)
=============================================================================
