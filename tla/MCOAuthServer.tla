---------------------------- MODULE MCOAuthServer ----------------------------
(* Instances of OAuthServer for TLC.                                        *)
EXTENDS OAuthServer, TLC

\* Secrets are compared for equality only.
Symmetry == Permutations(Requests) \cup Permutations(Codes)
              \cup Permutations(Grants) \cup Permutations(Pairs)
=============================================================================
