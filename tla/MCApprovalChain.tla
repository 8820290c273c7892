--------------------------- MODULE MCApprovalChain ---------------------------
(* Instances of ApprovalChain for TLC.                                      *)
EXTENDS ApprovalChainRefinement, TLC

\* Ids are compared for equality only and no property names one; the pools of
\* a run are permuted independently.
Symmetry == Permutations(Drafts) \cup Permutations(Nonces)
              \cup Permutations(Senders) \cup Permutations(Attempts)
=============================================================================
