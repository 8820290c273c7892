----------------------- MODULE ApprovalChainRefinement -----------------------
(* ApprovalChain implements SendOnce.                                       *)
EXTENDS ApprovalChain

AttemptsUnder(n) == {a \in Attempts : Exists(a) /\ attempts[a].nonce = n}

ApprovedDrafts == {d \in Drafts : \E p \in signed : Approves(p, d)}

RecordOf(n) ==
  IF AttemptsUnder(n) = {} THEN "none"
  ELSE IF \E a \in AttemptsUnder(n) : attempts[a].state = "SUBMITTED"
       THEN "submitted"
  ELSE IF \E a \in AttemptsUnder(n) : attempts[a].state = "FAILED" THEN "failed"
  ELSE "open"

Promise == INSTANCE SendOnce WITH
  Answers   <- Answer,
  approved  <- ApprovedDrafts,
  granted   <- nonces,
  record    <- [n \in Nonces |-> RecordOf(n)],
  calls     <- posts,
  said      <- told,
  delivered <- {n \in Nonces : AttemptsUnder(n) \cap accepted # {}}

\* The chain keeps its promise: seen through the tables, every step of every
\* process approves a draft, grants a nonce's one permission for an approved
\* draft, makes the one provider call under it, records what the provider
\* said, or changes nothing.
KeepsPromise == Promise!Spec
=============================================================================
