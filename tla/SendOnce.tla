------------------------------- MODULE SendOnce -------------------------------
(***************************************************************************)
(* What the approval chain promises, whatever processes, tables and crashes *)
(* are behind it: a permission to transmit is given under a nonce, for ever, *)
(* and only for a draft that a human approved; under it the provider is      *)
(* called at most once; and what is on record is what the provider said.     *)
(* ApprovalChain implements this specification.                              *)
(***************************************************************************)
EXTENDS Naturals

CONSTANTS Drafts, Nonces, Answers, None

VARIABLES
  approved,   \* drafts a human approved with a valid signature
  granted,    \* the draft each nonce gives permission for, None before
  record,     \* the outcome on record under each nonce
  calls,      \* provider calls made under each nonce
  said,       \* what the provider answered
  delivered   \* nonces under which the provider accepted a message

vars == <<approved, granted, record, calls, said, delivered>>

Init ==
  /\ approved = {}
  /\ granted = [n \in Nonces |-> None]
  /\ record = [n \in Nonces |-> "none"]
  /\ calls = [n \in Nonces |-> 0]
  /\ said = [n \in Nonces |-> None]
  /\ delivered = {}

Approve(d) ==
  /\ approved' = approved \cup {d}
  /\ UNCHANGED <<granted, record, calls, said, delivered>>

\* One permission per nonce, for ever.
Grant(n, d) ==
  /\ d \in approved
  /\ granted[n] = None
  /\ record[n] = "none"
  /\ granted' = [granted EXCEPT ![n] = d]
  /\ record' = [record EXCEPT ![n] = "open"]
  /\ UNCHANGED <<approved, calls, said, delivered>>

Transmit(n, answer) ==
  /\ record[n] = "open"
  /\ calls[n] = 0
  /\ calls' = [calls EXCEPT ![n] = 1]
  /\ said' = [said EXCEPT ![n] = answer]
  /\ delivered' \in {delivered, delivered \cup {n}}
  /\ UNCHANGED <<approved, granted, record>>

\* An outcome is recorded, or a success is forgotten again; a failure is what
\* the provider said, and is final.
Conclude(n, outcome) ==
  /\ record[n] \in {"open", "submitted"}
  /\ calls[n] = 1
  /\ outcome = "submitted" => n \in delivered
  /\ outcome = "failed" => said[n] \in {"CONNECT_FAILED", "ERROR"}
  /\ record' = [record EXCEPT ![n] = outcome]
  /\ UNCHANGED <<approved, granted, calls, said, delivered>>

Next ==
  \/ \E d \in Drafts : Approve(d)
  \/ \E n \in Nonces, d \in Drafts : Grant(n, d)
  \/ \E n \in Nonces, answer \in Answers : Transmit(n, answer)
  \/ \E n \in Nonces, outcome \in {"open", "submitted", "failed"} :
       Conclude(n, outcome)

Spec == Init /\ [][Next]_vars
=============================================================================
