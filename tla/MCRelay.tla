------------------------------- MODULE MCRelay -------------------------------
EXTENDS Relay, TLC

Symmetry ==
  Permutations(Approvals) \cup Permutations(Relays) \cup Permutations(Nonces)
=============================================================================
