-------------------- MODULE ApprovalChainRefinementProofs --------------------
(* ApprovalChain implements SendOnce, for any number of drafts, nonces,      *)
(* devices, senders and attempts.                                            *)
EXTENDS ApprovalChainProofs

(* The state of SendOnce as the tables show it.                             *)

Rec == [n \in Nonces |-> RecordOf(n)]

Delivered == {n \in Nonces : AttemptsUnder(n) \cap accepted # {}}

abstract == <<ApprovedDrafts, nonces, Rec, posts, told, Delivered>>

\* The outcome an attempt in state st stands for.
OutcomeOf(st) ==
  IF st = "SUBMITTED" THEN "submitted" ELSE IF st = "FAILED" THEN "failed" ELSE "open"

-----------------------------------------------------------------------------
(* What the tables show.                                                    *)

\* The record of a nonce with an attempt is the state of that one attempt.
LEMMA RecordOfAttempt ==
  ASSUME IInv, NEW a \in Attempts, Exists(a)
  PROVE  /\ attempts[a].nonce \in Nonces
         /\ AttemptsUnder(attempts[a].nonce) = {a}
         /\ RecordOf(attempts[a].nonce) = OutcomeOf(attempts[a].state)
         /\ attempts[a].nonce \in Delivered <=> a \in accepted
<1>1. attempts[a].nonce \in Nonces
  BY DEF IInv, AttemptsBound
<1>2. AttemptsUnder(attempts[a].nonce) = {a}
  BY OneAttemptPerNonce DEF AttemptsUnder
<1> QED BY <1>1, <1>2 DEF RecordOf, OutcomeOf, Delivered

\* Nothing but the tables of attempts and of accepted messages is in the record.
LEMMA RecordFrame ==
  ASSUME UNCHANGED <<attempts, accepted>>
  PROVE  Rec' = Rec /\ Delivered' = Delivered
BY DEF Rec, RecordOf, Delivered, AttemptsUnder, Exists

\* Nonces are frozen: what was approved stays approved.
LEMMA ApprovedFrame ==
  ASSUME IInv, signed' = signed,
         \A d \in Drafts : drafts[d] # None => drafts'[d] = drafts[d]
  PROVE  ApprovedDrafts' = ApprovedDrafts
<1>1. \A p \in signed : p.draft \in Drafts /\ drafts'[p.draft] = drafts[p.draft]
  BY DEF IInv, SignedBound, TypeOK, Payload
<1> QED BY <1>1 DEF ApprovedDrafts, Approves, canonical_fields

\* An UPDATE of one attempt changes the record of its nonce and of no other.
LEMMA UpdateShows ==
  ASSUME IInv, NEW a \in Attempts, Exists(a), NEW st \in AttemptState \ {"NONE"}, NEW w,
         attempts' = [attempts EXCEPT ![a] = Updated(attempts[a], st, w)],
         accepted' = accepted
  PROVE  /\ Rec' = [Rec EXCEPT ![attempts[a].nonce] = OutcomeOf(st)]
         /\ Delivered' = Delivered
<1>1. attempts[a].nonce \in Nonces /\ AttemptsUnder(attempts[a].nonce) = {a}
  BY RecordOfAttempt
<1>2. /\ attempts'[a].state = st /\ attempts'[a].nonce = attempts[a].nonce
      /\ \A b \in Attempts : b # a => attempts'[b] = attempts[b]
  BY DEF Updated, IInv, TypeOK
<1>3. \A n \in Nonces : AttemptsUnder(n)' = AttemptsUnder(n)
  BY <1>2 DEF AttemptsUnder, Exists
<1> PICK e \in Nonces : e = attempts[a].nonce
  BY <1>1
<1>4. RecordOf(e)' = OutcomeOf(st)
  BY <1>1, <1>2, <1>3 DEF RecordOf, OutcomeOf
<1>5. ASSUME NEW n \in Nonces, n # e
      PROVE  RecordOf(n)' = RecordOf(n)
  <2>1. \A b \in AttemptsUnder(n) : attempts'[b] = attempts[b]
    BY <1>2, <1>5 DEF AttemptsUnder
  <2>2. AttemptsUnder(n)' = AttemptsUnder(n)
    BY <1>3
  <2> QED BY <2>1, <2>2 DEF RecordOf
<1>6. Delivered' = Delivered
  BY <1>3 DEF Delivered
<1>7. Rec' = [n \in Nonces |-> IF n = e THEN OutcomeOf(st) ELSE RecordOf(n)]
  BY <1>4, <1>5 DEF Rec
<1> QED BY <1>6, <1>7 DEF Rec
-----------------------------------------------------------------------------
(* Every step is a step of SendOnce, or none.                               *)

\* Time, windows, devices, candidates, the reads of prepare and of execute_write,
\* a replay, a locked database and a crash show nothing.
LEMMA HiddenStep ==
  ASSUME IInv, UNCHANGED <<drafts, signed, nonces, attempts, posts, told, accepted>>
  PROVE  UNCHANGED abstract
BY RecordFrame, ApprovedFrame DEF abstract

\* Nor does a new draft.
LEMMA DraftHidden ==
  ASSUME IInv, NEW d \in Drafts, drafts[d] = None, NEW row,
         drafts' = [drafts EXCEPT ![d] = row],
         UNCHANGED <<signed, nonces, attempts, posts, told, accepted>>
  PROVE  UNCHANGED abstract
<1>1. \A c \in Drafts : drafts[c] # None => drafts'[c] = drafts[c]
  BY DEF IInv, TypeOK
<1> QED BY <1>1, RecordFrame, ApprovedFrame DEF abstract

\* A phone approves the draft whose fields it signs, if it signs APPROVE.
LEMMA SignApproves ==
  ASSUME IInv, NEW d \in Drafts, NEW v \in Devices, NEW decision,
         phone_signs(d, v, decision)
  PROVE  Promise!Approve(d) \/ UNCHANGED abstract
<1>1. Rec' = Rec /\ Delivered' = Delivered /\ UNCHANGED <<nonces, posts, told>>
  BY RecordFrame DEF phone_signs
<1>2. ApprovedDrafts' \in {ApprovedDrafts, ApprovedDrafts \cup {d}}
  <2> DEFINE p == canonical_fields(d, decision, v)
  <2>1. signed' = signed \cup {p} /\ drafts' = drafts /\ p.draft = d
    BY DEF phone_signs, canonical_fields
  <2> HIDE DEF p
  <2>2. \A q, c : Approves(q, c)' <=> Approves(q, c)
    BY <2>1 DEF Approves, canonical_fields
  <2>3. ApprovedDrafts' = {c \in Drafts : \E q \in signed \cup {p} : Approves(q, c)}
    BY <2>1, <2>2 DEF ApprovedDrafts
  <2>4. \A c : Approves(p, c) => c = d
    BY <2>1 DEF Approves
  <2>5. CASE Approves(p, d)
    <3>1. ApprovedDrafts' = ApprovedDrafts \cup {d}
      BY <2>3, <2>4, <2>5 DEF ApprovedDrafts
    <3> QED BY <3>1
  <2>6. CASE ~Approves(p, d)
    <3>1. ApprovedDrafts' = ApprovedDrafts
      BY <2>3, <2>4, <2>6 DEF ApprovedDrafts
    <3> QED BY <3>1
  <2> QED BY <2>5, <2>6
<1> QED BY <1>1, <1>2 DEF Promise!Approve, abstract, Rec, Delivered

\* The COMMIT of nonce and attempt is the one permission under the nonce.
LEMMA PermitGrants ==
  ASSUME IInv, NEW s \in Senders, NEW a \in Attempts, Permit(s, a)
  PROVE  \E n \in Nonces, d \in Drafts : Promise!Grant(n, d)
<1>1. sender[s].env \in Envelope /\ Approved(sender[s].env.draft)
  BY DEF Permit, IInv, CallsChecked, TypeOK, Call, Idle
<1> PICK d \in Drafts : d = sender[s].env.draft
  BY <1>1 DEF Envelope
<1> PICK n \in Nonces : n = sender[s].env.nonce
  BY <1>1 DEF Envelope
<1>2. d \in ApprovedDrafts
  BY <1>1 DEF Approved, ApprovedDrafts
<1>3. AttemptsUnder(n) = {} /\ nonces[n] = None
  BY DraftsAssumption DEF Permit, AttemptsUnder, IInv, AttemptsBound
<1>4. /\ attempts'[a].state = "SUBMITTING" /\ attempts'[a].nonce = n
      /\ \A b \in Attempts : b # a => attempts'[b] = attempts[b]
      /\ ~Exists(a)
  BY DEF Permit, IInv, TypeOK, Exists
<1>5. /\ AttemptsUnder(n)' = {a}
      /\ \A m \in Nonces : m # n => AttemptsUnder(m)' = AttemptsUnder(m)
  BY <1>3, <1>4 DEF AttemptsUnder, Exists
<1>6. RecordOf(n) = "none" /\ RecordOf(n)' = "open"
  BY <1>3, <1>4, <1>5 DEF RecordOf
<1>7. ASSUME NEW m \in Nonces, m # n
      PROVE  RecordOf(m)' = RecordOf(m)
  <2>1. AttemptsUnder(m)' = AttemptsUnder(m)
    BY <1>5, <1>7
  <2>2. \A b \in AttemptsUnder(m) : attempts'[b] = attempts[b]
    BY <1>4 DEF AttemptsUnder
  <2> QED BY <2>1, <2>2 DEF RecordOf
<1>8. Rec' = [Rec EXCEPT ![n] = "open"] /\ Rec[n] = "none"
  BY <1>6, <1>7 DEF Rec
<1>9. Delivered' = Delivered
  <2>1. a \notin accepted /\ accepted' = accepted
    BY <1>4 DEF Permit, IInv, PostsHaveAttempts
  <2> QED BY <1>3, <1>5, <2>1 DEF Delivered
<1>10. ApprovedDrafts' = ApprovedDrafts /\ UNCHANGED <<posts, told>>
  BY ApprovedFrame DEF Permit
<1>11. nonces' = [nonces EXCEPT ![n] = d]
  BY DEF Permit
<1>12. Promise!Grant(n, d)
  BY <1>2, <1>3, <1>8, <1>9, <1>10, <1>11 DEF Promise!Grant, Rec, Delivered
<1> QED BY <1>12

\* provider.send_text is the one call, while the permission is open.
LEMMA PostTransmits ==
  ASSUME IInv, NEW s \in Senders, NEW answer \in Answer, Post(s, answer)
  PROVE  \E n \in Nonces : Promise!Transmit(n, answer)
<1>1. /\ sender[s].attempt \in Attempts /\ Exists(sender[s].attempt)
      /\ attempts[sender[s].attempt].nonce = sender[s].env.nonce
      /\ posts[sender[s].env.nonce] = 0
      /\ attempts[sender[s].attempt].state \notin {"SUBMITTED", "FAILED"}
  BY DEF Post, IInv, CallsOwnAttempt
<1> PICK a \in Attempts : a = sender[s].attempt
  BY <1>1
<1> PICK n \in Nonces : n = attempts[a].nonce
  BY <1>1, RecordOfAttempt
<1>2. AttemptsUnder(n) = {a} /\ RecordOf(n) = "open"
  BY <1>1, RecordOfAttempt DEF OutcomeOf
<1>3. attempts' = attempts /\ accepted' \in {accepted, accepted \cup {a}}
  BY DEF Post
<1>4. \A m \in Nonces : /\ AttemptsUnder(m)' = AttemptsUnder(m)
                        /\ RecordOf(m)' = RecordOf(m)
  BY <1>3 DEF AttemptsUnder, RecordOf, Exists
<1>5. Rec' = Rec /\ Rec[n] = "open"
  BY <1>2, <1>4 DEF Rec
<1>6. \A m \in Nonces : m # n => a \notin AttemptsUnder(m)
  BY DEF AttemptsUnder
<1>7. Delivered' \in {Delivered, Delivered \cup {n}}
  <2>1. CASE accepted' = accepted
    <3>1. Delivered' = Delivered
      BY <1>4, <2>1 DEF Delivered
    <3> QED BY <3>1
  <2>2. CASE accepted' = accepted \cup {a}
    <3>1. Delivered' = Delivered \cup {n}
      BY <1>2, <1>4, <1>6, <2>2 DEF Delivered
    <3> QED BY <3>1
  <2> QED BY <1>3, <2>1, <2>2
<1>8. /\ posts[n] = 0 /\ posts' = [posts EXCEPT ![n] = 1]
      /\ told' = [told EXCEPT ![n] = answer] /\ nonces' = nonces
  BY <1>1 DEF Post, IInv, TypeOK
<1>9. ApprovedDrafts' = ApprovedDrafts
  BY ApprovedFrame DEF Post
<1>10. Promise!Transmit(n, answer)
  BY <1>5, <1>7, <1>8, <1>9 DEF Promise!Transmit, Rec, Delivered
<1> QED BY <1>10

\* An UPDATE of an attempt that was posted records an outcome, if it is known.
LEMMA UpdateConcludes ==
  ASSUME IInv, NEW a \in Attempts, Exists(a), attempts[a].state # "FAILED",
         NEW st \in AttemptState \ {"NONE"}, NEW w,
         attempts' = [attempts EXCEPT ![a] = Updated(attempts[a], st, w)],
         posts[attempts[a].nonce] = 1,
         st = "SUBMITTED" => a \in accepted,
         st = "FAILED" => told[attempts[a].nonce] \in {"CONNECT_FAILED", "ERROR"},
         UNCHANGED <<drafts, signed, nonces, posts, told, accepted>>
  PROVE  \E n \in Nonces, outcome \in {"open", "submitted", "failed"} :
           Promise!Conclude(n, outcome)
<1>1. /\ attempts[a].nonce \in Nonces
      /\ RecordOf(attempts[a].nonce) = OutcomeOf(attempts[a].state)
      /\ attempts[a].nonce \in Delivered <=> a \in accepted
  BY RecordOfAttempt
<1> PICK n \in Nonces : n = attempts[a].nonce
  BY <1>1
<1>2. Rec[n] \in {"open", "submitted"}
  BY <1>1 DEF Rec, OutcomeOf
<1>3. Rec' = [Rec EXCEPT ![n] = OutcomeOf(st)] /\ Delivered' = Delivered
  BY UpdateShows
<1>4. ApprovedDrafts' = ApprovedDrafts
  BY ApprovedFrame
<1>5. /\ OutcomeOf(st) \in {"open", "submitted", "failed"}
      /\ OutcomeOf(st) = "submitted" => n \in Delivered
      /\ OutcomeOf(st) = "failed" => told[n] \in {"CONNECT_FAILED", "ERROR"}
  BY <1>1 DEF OutcomeOf
<1>6. Promise!Conclude(n, OutcomeOf(st))
  BY <1>2, <1>3, <1>4, <1>5 DEF Promise!Conclude, Rec, Delivered
<1> QED BY <1>5, <1>6

\* _finish records what the provider answered.
LEMMA FinishConcludes ==
  ASSUME IInv, NEW s \in Senders, Finish(s)
  PROVE  \E n \in Nonces, outcome \in {"open", "submitted", "failed"} :
           Promise!Conclude(n, outcome)
<1> DEFINE a == sender[s].attempt
           st == Outcome(sender[s].answer)
           w == IF sender[s].answer = "SUBMITTED" THEN a ELSE attempts[a].wamid
<1>1. /\ a \in Attempts /\ Exists(a) /\ attempts[a].state # "FAILED"
      /\ attempts[a].nonce = sender[s].env.nonce /\ posts[sender[s].env.nonce] = 1
      /\ told[sender[s].env.nonce] = sender[s].answer
      /\ sender[s].answer = "SUBMITTED" => a \in accepted
  BY DEF Finish, IInv, CallsOwnAttempt
<1>2. sender[s].answer \in Answer
  BY DEF Finish, IInv, TypeOK, Call, Idle
<1>3. st \in AttemptState \ {"NONE"}
  BY <1>2 DEF Answer, AttemptState, Outcome
<1>4. /\ attempts' = [attempts EXCEPT ![a] = Updated(attempts[a], st, w)]
      /\ UNCHANGED <<drafts, signed, nonces, posts, told, accepted>>
  BY DEF Finish
<1>5. /\ st = "SUBMITTED" => a \in accepted
      /\ st = "FAILED" => told[attempts[a].nonce] \in {"CONNECT_FAILED", "ERROR"}
  BY <1>1, <1>2 DEF Outcome, Answer
<1>6. posts[attempts[a].nonce] = 1
  BY <1>1
<1> HIDE DEF a, st, w
<1> QED BY <1>1, <1>3, <1>4, <1>5, <1>6, UpdateConcludes

\* A status webhook that names its attempt records the delivery.
LEMMA StatusConcludes ==
  ASSUME IInv, NEW a \in Attempts, StatusResolves(a)
  PROVE  \E n \in Nonces, outcome \in {"open", "submitted", "failed"} :
           Promise!Conclude(n, outcome)
<1>1. Exists(a) /\ posts[attempts[a].nonce] = 1 /\ a \in accepted
  BY DEF StatusResolves, IInv, PostsHaveAttempts
<1>2. attempts[a].state # "FAILED" /\ "SUBMITTED" \in AttemptState \ {"NONE"}
  BY DEF StatusResolves, AttemptState
<1>3. /\ attempts' = [attempts EXCEPT ![a] = Updated(attempts[a], "SUBMITTED", a)]
      /\ UNCHANGED <<drafts, signed, nonces, posts, told, accepted>>
  BY DEF StatusResolves
<1> QED BY <1>1, <1>2, <1>3, UpdateConcludes

\* Recovery gives no permission back and records nothing.
LEMMA RecoverHidden ==
  ASSUME IInv, recover_startup
  PROVE  UNCHANGED abstract
<1>1. \A a \in Attempts :
        /\ attempts'[a].nonce = attempts[a].nonce
        /\ \/ attempts'[a].state = attempts[a].state
           \/ attempts[a].state = "SUBMITTING" /\ attempts'[a].state = "INDETERMINATE"
  BY DEF recover_startup, Updated
<1>2. \A n \in Nonces : AttemptsUnder(n)' = AttemptsUnder(n)
  BY <1>1 DEF AttemptsUnder, Exists
<1>3. ASSUME NEW n \in Nonces
      PROVE  RecordOf(n)' = RecordOf(n)
  <2>1. AttemptsUnder(n)' = AttemptsUnder(n) /\ AttemptsUnder(n) \subseteq Attempts
    BY <1>2 DEF AttemptsUnder
  <2>2. \A a \in AttemptsUnder(n) :
          /\ attempts'[a].state = "SUBMITTED" <=> attempts[a].state = "SUBMITTED"
          /\ attempts'[a].state = "FAILED" <=> attempts[a].state = "FAILED"
    BY <1>1, <2>1
  <2> QED BY <2>1, <2>2 DEF RecordOf
<1>4. Rec' = Rec
  BY <1>3 DEF Rec
<1>5. Delivered' = Delivered
  BY <1>2 DEF recover_startup, Delivered
<1>6. ApprovedDrafts' = ApprovedDrafts /\ UNCHANGED <<nonces, posts, told>>
  BY ApprovedFrame DEF recover_startup
<1> QED BY <1>4, <1>5, <1>6 DEF abstract

-----------------------------------------------------------------------------
(* The theorem.                                                             *)

LEMMA RefinesInit == Init => Promise!Init
<1> SUFFICES ASSUME Init PROVE Promise!Init
  OBVIOUS
<1>1. \A n \in Nonces : AttemptsUnder(n) = {}
  BY DEF Init, AttemptsUnder, Exists, NoAttempt
<1>2. \A n \in Nonces : RecordOf(n) = "none"
  BY <1>1 DEF RecordOf
<1>3. ApprovedDrafts = {}
  BY DEF Init, ApprovedDrafts
<1> QED BY <1>1, <1>2, <1>3 DEF Init, Promise!Init

LEMMA RefinesNext == IInv /\ [Next]_vars => Promise!Next \/ UNCHANGED abstract
<1> SUFFICES ASSUME IInv, [Next]_vars PROVE Promise!Next \/ UNCHANGED abstract
  OBVIOUS
<1>1. CASE UNCHANGED vars
  BY <1>1, HiddenStep DEF vars
<1>2. CASE Tick \/ ClockJumpsBack
  BY <1>2, HiddenStep DEF Tick, ClockJumpsBack
<1>3. CASE \E p \in Preparers : PrepareStep(p)
  <2> PICK p \in Preparers : PrepareStep(p)
    BY <1>3
  <2>1. CASE \E d \in Drafts, n \in Nonces, x \in ExpiryArgs : PrepareInserts(p, d, n, x)
    BY <2>1, DraftHidden DEF PrepareInserts
  <2>2. CASE \/ \E c \in Convs, b \in Bodies : PrepareReuses(p, c, b)
             \/ \E c \in Convs, b \in Bodies : PrepareMisses(p, c, b)
             \/ PrepareAborts(p)
    BY <2>2, HiddenStep DEF PrepareReuses, PrepareMisses, PrepareAborts
  <2> QED BY <2>1, <2>2 DEF PrepareStep
<1>4. CASE \E s \in Senders : SenderStep(s)
  <2> PICK s \in Senders : SenderStep(s)
    BY <1>4
  <2>1. CASE \/ \E e \in Envelopes : CheckDenies(s, e) \/ CheckPasses(s, e)
             \/ PermitReplayed(s) \/ SendRaises(s) \/ SenderCrashes(s)
    BY <2>1, HiddenStep DEF CheckDenies, CheckPasses, PermitReplayed, SendRaises,
                            SenderCrashes
  <2>2. CASE \E a \in Attempts : Permit(s, a)
    BY <2>2, PermitGrants DEF Promise!Next
  <2>3. CASE \E answer \in Answer : Post(s, answer)
    BY <2>3, PostTransmits DEF Promise!Next
  <2>4. CASE Finish(s)
    BY <2>4, FinishConcludes DEF Promise!Next
  <2> QED BY <2>1, <2>2, <2>3, <2>4 DEF SenderStep, SendContinues
<1>5. CASE ControlStep
  <2>1. CASE \/ \E c \in Convs, ts \in InboundTimes : InboundCommitted(c, ts)
             \/ \E c \in Convs, ts \in InboundTimes \cup {0} : WindowWritten(c, ts)
             \/ \E v \in Devices : enroll(v) \/ revoke(v)
             \/ \E a \in Attempts, k \in Cands, callback \in Callbacks :
                  StatusUnmatched(a, k, callback)
             \/ \E k \in Cands, state \in {"RESOLVED", "DISMISSED"} : resolve(k, state)
    BY <2>1, HiddenStep DEF InboundCommitted, WindowWritten, enroll, revoke,
                            StatusUnmatched, resolve
  <2>2. CASE \E c \in Convs, d \in Drafts, n \in Nonces : prepare_template(c, d, n)
    BY <2>2, DraftHidden DEF prepare_template
  <2>3. CASE \E d \in Drafts, v \in Devices, decision \in {"APPROVE", "REJECT"} :
               phone_signs(d, v, decision)
    BY <2>3, SignApproves DEF Promise!Next
  <2>4. CASE \E a \in Attempts : StatusResolves(a)
    BY <2>4, StatusConcludes DEF Promise!Next
  <2> QED BY <1>5, <2>1, <2>2, <2>3, <2>4, RecoverHidden DEF ControlStep
<1> QED BY <1>1, <1>2, <1>3, <1>4, <1>5 DEF Next

\* The chain implements SendOnce for every number of drafts, nonces, devices,
\* senders, attempts and crashes: one permission per nonce and only for a draft a
\* human approved, one provider call under it, and no failure on record that the
\* provider did not answer.
THEOREM PromiseKept == Spec => KeepsPromise
<1>1. Init => Promise!Init
  BY RefinesInit
<1>2. IInv /\ [Next]_vars => [Promise!Next]_Promise!vars
  BY RefinesNext DEF abstract, Rec, Delivered, Promise!vars
<1> QED BY <1>1, <1>2, Invariance, PTL DEF Spec, KeepsPromise, Promise!Spec
=============================================================================
