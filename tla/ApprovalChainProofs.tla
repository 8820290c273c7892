------------------------- MODULE ApprovalChainProofs -------------------------
(* Safety of the approval chain for any number of drafts, devices, senders,  *)
(* preparers and attempts, and any clock.                                    *)
EXTENDS ApprovalChainRefinement, TLAPS

(* The inductive invariant, in parts.                                       *)

\* Somebody has signed APPROVE over the draft as it is.
Approved(d) == \E p \in signed : Approves(p, d)

\* The policy allows the draft at time now, by its row and by what was received.
Permissible(d, now) ==
  /\ drafts[d].bound
  /\ now < drafts[d].expires
  /\ drafts[d].kind = "text" =>
       \E ts \in inbound[drafts[d].conv] : now < ts + WINDOW

\* What was signed is a draft that exists, by a device that was enrolled.
SignedBound ==
  \A p \in signed : drafts[p.draft] # None /\ devices[p.device] # "NONE"

\* The projection is backed by an inbound message, or shut.
WindowBacked == \A c \in Convs : windows[c] \in inbound[c] \cup {0}

\* An attempt belongs to a draft that was approved, under a nonce it consumed.
AttemptsBound ==
  \A a \in Attempts :
    /\ ~Exists(a) => attempts[a] = NoAttempt
    /\ Exists(a) =>
         /\ attempts[a].draft \in Drafts
         /\ attempts[a].nonce \in Nonces
         /\ drafts[attempts[a].draft] # None
         /\ nonces[attempts[a].nonce] = attempts[a].draft
         /\ Approved(attempts[a].draft)

\* A call past its checks holds an approved draft and a trusted time that
\* satisfied the policy; neither can be undone, whatever happens to the window.
CallsChecked ==
  \A s \in Senders : sender[s].pc # "idle" =>
    /\ sender[s].env.draft \in Drafts
    /\ drafts[sender[s].env.draft] # None
    /\ Approved(sender[s].env.draft)
    /\ Permissible(sender[s].env.draft, sender[s].now)

\* A call past its COMMIT owns its attempt and knows what the provider said.
CallsOwnAttempt ==
  \A s \in Senders : sender[s].pc \in {"post", "finish"} =>
    /\ sender[s].attempt \in Attempts
    /\ Exists(sender[s].attempt)
    /\ attempts[sender[s].attempt].nonce = sender[s].env.nonce
    /\ sender[s].pc = "post" =>
         /\ posts[sender[s].env.nonce] = 0
         /\ sender[s].attempt \notin accepted
         /\ attempts[sender[s].attempt].state \notin {"SUBMITTED", "FAILED"}
    /\ sender[s].pc = "finish" =>
         /\ posts[sender[s].env.nonce] = 1
         /\ told[sender[s].env.nonce] = sender[s].answer
         /\ attempts[sender[s].attempt].state # "FAILED"
         /\ sender[s].answer = "SUBMITTED" => sender[s].attempt \in accepted

CallsDiffer ==
  \A s, t \in Senders :
    (/\ sender[s].pc \in {"post", "finish"}
     /\ sender[t].pc \in {"post", "finish"}
     /\ sender[s].attempt = sender[t].attempt) => s = t

\* What reached the provider came from an attempt.
PostsHaveAttempts ==
  /\ \A n \in Nonces : posts[n] > 0 =>
       \E a \in Attempts : Exists(a) /\ attempts[a].nonce = n
  /\ \A a \in accepted : Exists(a) /\ posts[attempts[a].nonce] = 1
  /\ \A a \in Attempts : attempts[a].state \in {"SUBMITTED", "FAILED"}
       => posts[attempts[a].nonce] = 1

IInv ==
  /\ TypeOK
  /\ SignedBound
  /\ WindowBacked
  /\ AttemptsBound
  /\ NonceHasOneAttempt
  /\ CallsChecked
  /\ CallsOwnAttempt
  /\ CallsDiffer
  /\ PostsHaveAttempts
  /\ OnePostPerNonce
  /\ RecordIsTruthful
  /\ PermittedByPolicy
-----------------------------------------------------------------------------
(* Type correctness.                                                        *)

\* Every action of the chain writes well-formed rows: TypeOK is preserved by
\* every step.
LEMMA TypeStep == TypeOK /\ [Next]_vars => TypeOK'
<1> SUFFICES ASSUME TypeOK, [Next]_vars PROVE TypeOK'
  OBVIOUS
<1>1. CASE UNCHANGED vars
  BY <1>1 DEF vars, TypeOK
<1>2. CASE Tick \/ ClockJumpsBack
  BY <1>2, TimeAssumption DEF Tick, ClockJumpsBack, TypeOK
<1>3. CASE \E p \in Preparers : PrepareStep(p)
  <2> PICK p \in Preparers : PrepareStep(p)
    BY <1>3
  <2>1. ASSUME NEW c \in Convs, NEW b \in Bodies, PrepareReuses(p, c, b)
        PROVE  TypeOK'
    <3> PICK d \in Pending(c, b) : prep' = [prep EXCEPT ![p] = Returned(d)]
      BY <2>1 DEF PrepareReuses
    <3>1. Returned(d) \in Prep
      BY DEF Pending, Returned, Prep
    <3>2. prep' \in [Preparers -> Prep]
      BY <3>1 DEF TypeOK
    <3> QED BY <2>1, <3>2 DEF PrepareReuses, TypeOK
  <2>2. ASSUME NEW c \in Convs, NEW b \in Bodies, PrepareMisses(p, c, b)
        PROVE  TypeOK'
    <3>1. prep' \in [Preparers -> Prep]
      BY <2>2 DEF TypeOK, Prep, PrepareMisses
    <3> QED BY <2>2, <3>1 DEF PrepareMisses, TypeOK
  <2>3. ASSUME NEW d \in Drafts, NEW n \in Nonces, NEW x \in ExpiryArgs,
               PrepareInserts(p, d, n, x)
        PROVE  TypeOK'
    <3>1. prep' \in [Preparers -> Prep]
      BY <2>3 DEF TypeOK, Prep, Returned, PrepareInserts
    <3> DEFINE row == [conv |-> prep[p].conv, body |-> prep[p].body,
                       kind |-> "text", bound |-> TRUE, nonce |-> n,
                       created |-> prep[p].now,
                       expires |-> IF x = 0 THEN prep[p].now + TTL ELSE x]
    <3>2. prep[p].conv \in Convs /\ prep[p].body \in Bodies /\ prep[p].now \in Nat
      BY <2>3 DEF TypeOK, PrepareInserts, Prep
    <3>3. row \in Row
      BY <3>2, TimeAssumption DEF Row
    <3>4. drafts' = [drafts EXCEPT ![d] = row]
      BY <2>3 DEF PrepareInserts
    <3>5. drafts' \in [Drafts -> Row \cup {None}]
      BY <3>3, <3>4 DEF TypeOK
    <3> QED BY <2>3, <3>1, <3>5 DEF PrepareInserts, TypeOK
  <2>4. ASSUME PrepareAborts(p) PROVE TypeOK'
    <3>1. prep' \in [Preparers -> Prep]
      BY <2>4 DEF TypeOK, Prep, Returned, PrepareAborts
    <3> QED BY <2>4, <3>1 DEF PrepareAborts, TypeOK
  <2> QED BY <2>1, <2>2, <2>3, <2>4 DEF PrepareStep
<1>4. CASE \E s \in Senders : SenderStep(s)
  <2> PICK s \in Senders : SenderStep(s)
    BY <1>4
  <2> sender[s] \in Call
    BY DEF TypeOK
  <2>1. ASSUME NEW e \in Envelopes, CheckDenies(s, e)
        PROVE  TypeOK'
    BY <2>1 DEF CheckDenies, TypeOK
  <2>2. ASSUME NEW e \in Envelopes, CheckPasses(s, e)
        PROVE  TypeOK'
    <3> e \in Envelope
      BY DEF Envelopes, Envelope, TypeOK
    <3>1. [pc |-> "permit", env |-> e, now |-> clock, attempt |-> None,
           answer |-> "none"] \in Call
      BY DEF Call, TypeOK
    <3>2. sender' \in [Senders -> Call]
      BY <2>2, <3>1 DEF CheckPasses, TypeOK
    <3> QED BY <2>2, <3>2 DEF CheckPasses, TypeOK
  <2>3. ASSUME NEW a \in Attempts, Permit(s, a)
        PROVE  TypeOK'
    <3>1. sender[s].env \in Envelope
      BY <2>3 DEF Permit, Call, Idle
    <3>2. [pc |-> "post", env |-> sender[s].env, now |-> sender[s].now,
           attempt |-> a, answer |-> "none"] \in Call
      BY <2>3, <3>1 DEF Permit, Call, Idle
    <3>3. sender' \in [Senders -> Call]
      BY <2>3, <3>2 DEF Permit, TypeOK
    <3>4. [state |-> "SUBMITTING", draft |-> sender[s].env.draft,
           nonce |-> sender[s].env.nonce, wamid |-> None,
           created |-> sender[s].now] \in Attempt
      BY <2>3, <3>1 DEF Permit, Attempt, AttemptState, Envelope, Call, Idle
    <3>5. attempts' \in [Attempts -> Attempt]
      BY <2>3, <3>4 DEF Permit, TypeOK
    <3>6. sender[s].env.nonce \in Nonces /\ sender[s].env.draft \in Drafts
      BY <3>1 DEF Envelope
    <3>7. nonces' \in [Nonces -> Drafts \cup {None}]
      BY <2>3, <3>6 DEF Permit, TypeOK
    <3> QED BY <2>3, <3>3, <3>5, <3>7 DEF Permit, TypeOK
  <2>4. Idle \in Call
    BY DEF Idle, Call
  <2>5. CASE PermitReplayed(s)
    BY <2>4, <2>5 DEF PermitReplayed, TypeOK
  <2>6. CASE SendRaises(s)
    BY <2>4, <2>6 DEF SendRaises, TypeOK
  <2>7. ASSUME NEW answer \in Answer, Post(s, answer)
        PROVE  TypeOK'
    <3>1. [pc |-> "finish", env |-> sender[s].env, now |-> sender[s].now,
           attempt |-> sender[s].attempt, answer |-> answer] \in Call
      BY <2>7 DEF Post, Call, Idle
    <3>2. sender' \in [Senders -> Call]
      BY <2>7, <3>1 DEF Post, TypeOK
    <3>3. sender[s].attempt \in Attempts /\ sender[s].env.nonce \in Nonces
      BY <2>7 DEF Post, Call, Idle, Envelope
    <3>4. accepted' \subseteq Attempts
      BY <2>7, <3>3 DEF Post, TypeOK
    <3>5. posts' \in [Nonces -> Nat] /\ told' \in [Nonces -> Answer \cup {None}]
      BY <2>7, <3>3 DEF Post, TypeOK
    <3> QED BY <2>7, <3>2, <3>4, <3>5 DEF Post, TypeOK
  <2>8. CASE Finish(s)
    <3> DEFINE a == sender[s].attempt
               answer == sender[s].answer
               row == Updated(attempts[a], Outcome(answer),
                        IF answer = "SUBMITTED" THEN a ELSE attempts[a].wamid)
    <3>1. a \in Attempts /\ answer \in Answer
      BY <2>8 DEF Finish, Call, Idle
    <3>2. attempts[a] \in Attempt
      BY <3>1 DEF TypeOK
    <3>3. row \in Attempt
      BY <3>1, <3>2 DEF Updated, Attempt, AttemptState, Outcome
    <3>4. attempts' = [attempts EXCEPT ![a] = row]
      BY <2>8 DEF Finish
    <3>5. attempts' \in [Attempts -> Attempt]
      BY <3>3, <3>4 DEF TypeOK
    <3> QED BY <2>4, <2>8, <3>5 DEF Finish, TypeOK
  <2>9. CASE SenderCrashes(s)
    BY <2>4, <2>9 DEF SenderCrashes, TypeOK
  <2> QED
    BY <2>1, <2>2, <2>3, <2>5, <2>6, <2>7, <2>8, <2>9 DEF SenderStep, SendContinues
<1>5. CASE ControlStep
  <2>1. ASSUME NEW c \in Convs, NEW ts \in InboundTimes \cup {0},
               InboundCommitted(c, ts) \/ WindowWritten(c, ts)
        PROVE  TypeOK'
    BY <2>1, TimeAssumption DEF InboundCommitted, WindowWritten, TypeOK
  <2>2. ASSUME NEW v \in Devices, enroll(v) \/ revoke(v)
        PROVE  TypeOK'
    BY <2>2 DEF enroll, revoke, TypeOK
  <2>3. ASSUME NEW c \in Convs, NEW d \in Drafts, NEW n \in Nonces,
               prepare_template(c, d, n)
        PROVE  TypeOK'
    <3>1. [conv |-> c, body |-> None, kind |-> "template", bound |-> FALSE,
           nonce |-> n, created |-> clock, expires |-> clock + TTL] \in Row
      BY TimeAssumption DEF Row, TypeOK
    <3>2. drafts' \in [Drafts -> Row \cup {None}]
      BY <2>3, <3>1 DEF prepare_template, TypeOK
    <3> QED BY <2>3, <3>2 DEF prepare_template, TypeOK
  <2>4. ASSUME NEW d \in Drafts, NEW v \in Devices,
               NEW decision \in {"APPROVE", "REJECT"}, phone_signs(d, v, decision)
        PROVE  TypeOK'
    <3>1. drafts[d] \in Row
      BY <2>4 DEF phone_signs, TypeOK
    <3>2. canonical_fields(d, decision, v) \in Payload
      BY <3>1 DEF canonical_fields, Payload, Row
    <3> QED BY <2>4, <3>2 DEF phone_signs, TypeOK
  <2>5. CASE recover_startup
    <3>1. ASSUME NEW a \in Attempts
          PROVE  Updated(attempts[a], "INDETERMINATE", attempts[a].wamid) \in Attempt
      BY DEF Updated, Attempt, AttemptState, TypeOK
    <3>2. attempts' \in [Attempts -> Attempt]
      BY <2>5, <3>1 DEF recover_startup, TypeOK
    <3> QED BY <2>5, <3>2 DEF recover_startup, TypeOK
  <2>6. ASSUME NEW a \in Attempts, StatusResolves(a)
        PROVE  TypeOK'
    <3>1. Updated(attempts[a], "SUBMITTED", a) \in Attempt
      BY DEF Updated, Attempt, AttemptState, TypeOK
    <3> QED BY <2>6, <3>1 DEF StatusResolves, TypeOK
  <2>7. ASSUME NEW a \in Attempts, NEW k \in Cands, NEW callback \in Callbacks,
               StatusUnmatched(a, k, callback)
        PROVE  TypeOK'
    <3>1. [wamid |-> a, state |-> "POSSIBLE_MATCH"] \in Candidate
      BY DEF Candidate
    <3> QED BY <2>7, <3>1 DEF StatusUnmatched, TypeOK
  <2>8. ASSUME NEW k \in Cands, NEW state \in {"RESOLVED", "DISMISSED"},
               resolve(k, state)
        PROVE  TypeOK'
    <3>1. candidates[k] \in Candidate
      BY <2>8 DEF resolve, TypeOK
    <3>2. [wamid |-> candidates[k].wamid, state |-> state] \in Candidate
      BY <3>1 DEF Candidate
    <3> QED BY <2>8, <3>2 DEF resolve, TypeOK
  <2> QED
    BY <1>5, <2>1, <2>2, <2>3, <2>4, <2>5, <2>6, <2>7, <2>8 DEF ControlStep
<1> QED BY <1>1, <1>2, <1>3, <1>4, <1>5 DEF Next

-----------------------------------------------------------------------------
(* The inductive invariant.                                                 *)

\* The empty database satisfies the invariant.
LEMMA InitInv == Init => IInv
<1> SUFFICES ASSUME Init PROVE IInv
  OBVIOUS
<1>1. TypeOK
  BY DEF Init, TypeOK, Attempt, AttemptState, NoAttempt, Call, Idle, Prep, Returned
<1>2. \A a \in Attempts : ~Exists(a) /\ attempts[a] = NoAttempt
  BY DEF Init, Exists, NoAttempt
<1>3. \A s \in Senders : sender[s].pc = "idle"
  BY DEF Init, Idle
<1>4. SignedBound /\ WindowBacked
  BY DEF Init, SignedBound, WindowBacked
<1>5. AttemptsBound /\ PermittedByPolicy
  BY <1>2 DEF AttemptsBound, PermittedByPolicy
<1>6. NonceHasOneAttempt
  BY <1>2, NoncesAssumption DEF Init, NonceHasOneAttempt, NoAttempt
<1>7. CallsChecked /\ CallsOwnAttempt /\ CallsDiffer
  BY <1>3 DEF CallsChecked, CallsOwnAttempt, CallsDiffer
<1>8. PostsHaveAttempts /\ OnePostPerNonce /\ RecordIsTruthful
  BY <1>2 DEF Init, PostsHaveAttempts, OnePostPerNonce, RecordIsTruthful, Exists, NoAttempt
<1> QED BY <1>1, <1>4, <1>5, <1>6, <1>7, <1>8 DEF IInv

-----------------------------------------------------------------------------
(* Steps of the world around the sender.                                    *)

\* What a call relies on after its checks is never taken back: drafts are
\* frozen, a signature cannot be unmade, a received message stays received.
Grows ==
  /\ \A d \in Drafts : drafts[d] # None => drafts'[d] = drafts[d]
  /\ signed \subseteq signed'
  /\ \A c \in Convs : inbound[c] \subseteq inbound'[c]

\* So what was approved and permissible stays so.
LEMMA Lasting ==
  ASSUME TypeOK, Grows, NEW d \in Drafts, drafts[d] # None
  PROVE  /\ drafts'[d] = drafts[d]
         /\ Approved(d) => Approved(d)'
         /\ \A now : Permissible(d, now) => Permissible(d, now)'
<1>1. drafts'[d] = drafts[d]
  BY DEF Grows
<1>2. Approved(d) => Approved(d)'
  BY <1>1 DEF Grows, Approved, Approves, canonical_fields
<1>3. drafts[d].conv \in Convs
  BY DEF TypeOK, Row
<1>4. ASSUME NEW now, Permissible(d, now) PROVE Permissible(d, now)'
  BY <1>1, <1>3, <1>4 DEF Grows, Permissible
<1> QED BY <1>1, <1>2, <1>4

\* The tables and calls of the send itself.
sends == <<nonces, attempts, sender, posts, told, accepted>>

\* A step that leaves the send alone and takes nothing back preserves the
\* invariant: clock, prepare, devices, phones, inbound messages, and a window
\* that is overwritten with whatever older value.
LEMMA WorldStep ==
  ASSUME IInv, TypeOK', Grows, SignedBound', WindowBacked', UNCHANGED sends
  PROVE  IInv'
<1> USE DEF sends
<1>1. AttemptsBound'
  <2> SUFFICES ASSUME NEW a \in Attempts PROVE AttemptsBound!(a)'
    BY DEF AttemptsBound
  <2>1. CASE ~Exists(a)
    BY <2>1 DEF IInv, AttemptsBound, Exists
  <2>2. CASE Exists(a)
    <3>1. /\ attempts[a].draft \in Drafts /\ attempts[a].nonce \in Nonces
          /\ drafts[attempts[a].draft] # None
          /\ nonces[attempts[a].nonce] = attempts[a].draft
          /\ Approved(attempts[a].draft)
      BY <2>2 DEF IInv, AttemptsBound
    <3> PICK d \in Drafts : d = attempts[a].draft
      BY <3>1
    <3>2. drafts'[d] # None /\ Approved(d)'
      BY <3>1, Lasting DEF IInv
    <3>3. Exists(a)' /\ Approved(attempts[a].draft)'
      BY <2>2, <3>2 DEF Exists, Approved
    <3> QED BY <3>1, <3>2, <3>3
  <2> QED BY <2>1, <2>2
<1>2. CallsChecked'
  <2> SUFFICES ASSUME NEW s \in Senders, sender[s].pc # "idle"
               PROVE  CallsChecked!(s)!2'
    BY DEF CallsChecked
  <2> PICK d \in Drafts, now \in {sender[s].now} :
             d = sender[s].env.draft /\ drafts[d] # None /\ Approved(d) /\ Permissible(d, now)
    BY DEF IInv, CallsChecked
  <2>1. drafts'[d] # None /\ Approved(d)' /\ Permissible(d, now)'
    BY Lasting DEF IInv
  <2>2. Approved(sender[s].env.draft)' /\ Permissible(sender[s].env.draft, sender[s].now)'
    BY <2>1 DEF Approved, Permissible
  <2> QED BY <2>1, <2>2
<1>3. PermittedByPolicy'
  <2> SUFFICES ASSUME NEW a \in Attempts, Exists(a)
               PROVE  PermittedByPolicy!(a)!2'
    BY DEF PermittedByPolicy, Exists
  <2> PICK d \in Drafts, now \in {attempts[a].created} :
             d = attempts[a].draft /\ drafts[d] # None
    BY DEF IInv, AttemptsBound
  <2>1. Permissible(d, now)
    BY DEF IInv, PermittedByPolicy, Permissible
  <2>2. drafts'[d] # None /\ Permissible(d, now)'
    BY <2>1, Lasting DEF IInv
  <2> QED BY <2>2 DEF Permissible
<1>4. /\ NonceHasOneAttempt' /\ CallsOwnAttempt' /\ CallsDiffer' /\ PostsHaveAttempts'
      /\ OnePostPerNonce' /\ RecordIsTruthful'
  BY DEF IInv, NonceHasOneAttempt, CallsOwnAttempt, CallsDiffer, PostsHaveAttempts,
         OnePostPerNonce, RecordIsTruthful, Exists
<1> QED BY <1>1, <1>2, <1>3, <1>4 DEF IInv

world == <<windows, inbound, drafts, devices, signed>>

\* Nothing at all that the invariant speaks of.
LEMMA FrameStep == IInv /\ TypeOK' /\ UNCHANGED <<world, sends>> => IInv'
<1> SUFFICES ASSUME IInv, TypeOK', UNCHANGED <<world, sends>> PROVE IInv'
  OBVIOUS
<1>1. Grows /\ SignedBound' /\ WindowBacked'
  BY DEF IInv, world, Grows, SignedBound, WindowBacked
<1> QED BY <1>1, WorldStep

\* A message is received, or the window overwritten with the time of one.
LEMMA WindowStep ==
  ASSUME IInv, TypeOK', NEW c \in Convs, NEW ts,
         InboundCommitted(c, ts) \/ WindowWritten(c, ts)
  PROVE  IInv'
<1>1. Grows /\ SignedBound' /\ WindowBacked'
  BY DEF IInv, TypeOK, InboundCommitted, WindowWritten, Grows, SignedBound, WindowBacked
<1>2. UNCHANGED sends
  BY DEF InboundCommitted, WindowWritten, sends
<1> QED BY <1>1, <1>2, WorldStep

\* Revocation and enrolment never take a device back to "unknown".
LEMMA DeviceStep ==
  ASSUME IInv, TypeOK', NEW v \in Devices, enroll(v) \/ revoke(v)
  PROVE  IInv'
<1>1. SignedBound'
  BY DEF IInv, TypeOK, Payload, SignedBound, enroll, revoke
<1>2. Grows /\ WindowBacked' /\ UNCHANGED sends
  BY DEF IInv, enroll, revoke, Grows, WindowBacked, sends
<1> QED BY <1>1, <1>2, WorldStep

\* A new draft disturbs no existing draft.
LEMMA DraftStep ==
  ASSUME IInv, TypeOK', NEW d \in Drafts, drafts[d] = None, NEW row,
         drafts' = [drafts EXCEPT ![d] = row],
         UNCHANGED <<windows, inbound, devices, signed, sends>>
  PROVE  IInv'
<1>1. \A x \in Drafts : drafts[x] # None => drafts'[x] = drafts[x]
  BY DEF IInv, TypeOK
<1>2. Grows /\ WindowBacked'
  BY <1>1 DEF IInv, Grows, WindowBacked
<1>3. SignedBound'
  BY <1>1 DEF IInv, TypeOK, Payload, SignedBound
<1> QED BY <1>2, <1>3, WorldStep

\* A signature only adds to what has been approved.
LEMMA SignStep ==
  ASSUME IInv, TypeOK', NEW d \in Drafts, NEW v \in Devices, NEW decision,
         phone_signs(d, v, decision)
  PROVE  IInv'
<1>1. SignedBound'
  BY DEF IInv, SignedBound, phone_signs, canonical_fields
<1>2. Grows /\ WindowBacked' /\ UNCHANGED sends
  BY DEF IInv, phone_signs, Grows, WindowBacked, sends
<1> QED BY <1>1, <1>2, WorldStep

-----------------------------------------------------------------------------
(* Steps of the sender.                                                     *)

\* They leave the world alone, and with it what it approves and permits.
LEMMA WorldKept ==
  ASSUME UNCHANGED world
  PROVE  /\ \A d : Approved(d)' <=> Approved(d)
         /\ \A d, now : Permissible(d, now)' <=> Permissible(d, now)
BY DEF world, Approved, Approves, canonical_fields, Permissible

LEMMA WorldInv ==
  ASSUME IInv, UNCHANGED world
  PROVE  SignedBound' /\ WindowBacked'
BY DEF IInv, world, SignedBound, WindowBacked

\* A call that ends or dies leaves the tables to the others.
LEMMA IdleStep ==
  ASSUME IInv, TypeOK', NEW s \in Senders,
         sender' = [sender EXCEPT ![s] = Idle],
         UNCHANGED <<world, nonces, attempts, posts, told, accepted>>
  PROVE  IInv'
<1>1. sender'[s].pc = "idle"
  BY DEF IInv, TypeOK, Idle
<1>2. \A t \in Senders : t # s => sender'[t] = sender[t]
  BY DEF IInv, TypeOK
<1>3. SignedBound' /\ WindowBacked'
  BY WorldInv
<1>4. UNCHANGED drafts
  BY DEF world
<1>5. CallsChecked'
  <2> SUFFICES ASSUME NEW t \in Senders, sender'[t].pc # "idle"
               PROVE  CallsChecked!(t)!2'
    BY DEF CallsChecked
  <2>1. sender'[t] = sender[t]
    BY <1>1, <1>2
  <2> QED BY <1>4, <2>1, WorldKept DEF IInv, CallsChecked
<1>6. CallsOwnAttempt' /\ CallsDiffer'
  BY <1>1, <1>2 DEF IInv, CallsOwnAttempt, CallsDiffer, Exists
<1>7. AttemptsBound'
  BY <1>4, WorldKept DEF IInv, AttemptsBound, Exists
<1>8. PermittedByPolicy'
  BY DEF IInv, PermittedByPolicy, Exists, world
<1>9. NonceHasOneAttempt' /\ PostsHaveAttempts' /\ OnePostPerNonce' /\ RecordIsTruthful'
  BY DEF IInv, NonceHasOneAttempt, PostsHaveAttempts, OnePostPerNonce,
         RecordIsTruthful, Exists
<1> QED BY <1>3, <1>5, <1>6, <1>7, <1>8, <1>9 DEF IInv

\* The checks of execute_write establish what the call relies on later: a
\* signature that verifies is an approval of the draft as it stands, and an
\* open window has a message behind it.
LEMMA CheckEstablishes ==
  ASSUME IInv, NEW e \in Envelopes, NEW now, Authorised(e, now)
  PROVE  /\ e.draft \in Drafts /\ drafts[e.draft] # None
         /\ Approved(e.draft) /\ Permissible(e.draft, now)
<1>1. e.draft \in Drafts /\ drafts[e.draft] # None
  BY DEF Authorised, Envelopes
<1>2. e.signature = canonical_fields(e.draft, "APPROVE", e.device)
  BY DEF Authorised, verify
<1>3. e.signature \in signed
  <2>1. e.signature # None
    <3>1. e.signature \in [decision: {"APPROVE"}, draft: Drafts, device: Devices,
             body: Bodies \cup {None}, kind: {"text", "template"}, bound: BOOLEAN,
             nonce: Nonces, created: Nat, expires: Nat]
      BY <1>1, <1>2 DEF canonical_fields, Envelopes, IInv, TypeOK, Row
    <3>2. e.signature \in Payload
      BY <3>1 DEF Payload
    <3> QED BY <3>2, PayloadAssumption
  <2> QED BY <2>1 DEF Envelopes
<1>4. Approved(e.draft)
  BY <1>2, <1>3 DEF Approved, Approves, canonical_fields
<1>5. drafts[e.draft].conv \in Convs
  BY <1>1 DEF IInv, TypeOK, Row
<1>6. Permissible(e.draft, now)
  BY <1>5 DEF IInv, Authorised, evaluate, WindowOpen, WindowBacked, Permissible
<1> QED BY <1>1, <1>4, <1>6

LEMMA CheckStep ==
  ASSUME IInv, TypeOK', NEW s \in Senders, NEW e \in Envelopes,
         CheckPasses(s, e)
  PROVE  IInv'
<1>1. /\ sender'[s].pc = "permit" /\ sender'[s].env = e
      /\ sender'[s].now = clock
  BY DEF CheckPasses, IInv, TypeOK
<1>2. \A t \in Senders : t # s => sender'[t] = sender[t]
  BY DEF CheckPasses, IInv, TypeOK
<1>3. UNCHANGED <<world, nonces, attempts, posts, told, accepted>>
  BY DEF CheckPasses, world
<1>4. SignedBound' /\ WindowBacked' /\ UNCHANGED drafts
  BY <1>3, WorldInv DEF world
<1>5. CallsChecked'
  <2> SUFFICES ASSUME NEW t \in Senders, sender'[t].pc # "idle"
               PROVE  CallsChecked!(t)!2'
    BY DEF CallsChecked
  <2>1. CASE t = s
    <3>1. /\ e.draft \in Drafts /\ drafts[e.draft] # None
          /\ Approved(e.draft) /\ Permissible(e.draft, clock)
      BY CheckEstablishes DEF CheckPasses
    <3> QED BY <1>1, <1>3, <1>4, <2>1, <3>1, WorldKept
  <2>2. CASE t # s
    BY <1>2, <1>3, <1>4, <2>2, WorldKept DEF IInv, CallsChecked
  <2> QED BY <2>1, <2>2
<1>6. CallsOwnAttempt' /\ CallsDiffer'
  BY <1>1, <1>2, <1>3 DEF IInv, CallsOwnAttempt, CallsDiffer, Exists
<1>7. AttemptsBound'
  BY <1>3, <1>4, WorldKept DEF IInv, AttemptsBound, Exists
<1>8. PermittedByPolicy'
  BY <1>3 DEF IInv, PermittedByPolicy, Exists, world
<1>9. NonceHasOneAttempt' /\ PostsHaveAttempts' /\ OnePostPerNonce' /\ RecordIsTruthful'
  BY <1>3 DEF IInv, NonceHasOneAttempt, PostsHaveAttempts, OnePostPerNonce,
              RecordIsTruthful, Exists
<1> QED BY <1>4, <1>5, <1>6, <1>7, <1>8, <1>9 DEF IInv

\* The permission-to-transmit transaction.  A nonce that is still free has no
\* attempt, hence nothing was posted under it: the replay gate at work.
LEMMA PermitStep ==
  ASSUME IInv, TypeOK', NEW s \in Senders, NEW a \in Attempts, Permit(s, a)
  PROVE  IInv'
<1> USE DEF Permit
<1> PICK e, now : e = sender[s].env /\ now = sender[s].now
  OBVIOUS
<1>1. /\ e.draft \in Drafts /\ e.nonce \in Nonces /\ drafts[e.draft] # None
      /\ Approved(e.draft) /\ Permissible(e.draft, now)
  BY DEF IInv, CallsChecked, TypeOK, Call, Idle, Envelope
<1>2. /\ attempts'[a].state = "SUBMITTING" /\ attempts'[a].draft = e.draft
      /\ attempts'[a].nonce = e.nonce /\ attempts'[a].wamid = None
      /\ attempts'[a].created = now
  BY DEF IInv, TypeOK
<1>3. \A b \in Attempts : b # a => attempts'[b] = attempts[b]
  BY DEF IInv, TypeOK
<1>4. /\ sender'[s].pc = "post" /\ sender'[s].env = e
      /\ sender'[s].now = now /\ sender'[s].attempt = a
  BY DEF IInv, TypeOK
<1>5. \A t \in Senders : t # s => sender'[t] = sender[t]
  BY DEF IInv, TypeOK
<1>6. nonces'[e.nonce] = e.draft /\ nonces[e.nonce] = None
  BY <1>1 DEF IInv, TypeOK
<1>7. \A n \in Nonces : n # e.nonce => nonces'[n] = nonces[n]
  BY DEF IInv, TypeOK
<1>w. UNCHANGED <<world, posts, told, accepted>> /\ UNCHANGED drafts
  BY DEF world
<1>s. sender[s].pc = "permit" /\ attempts[a].state = "NONE"
  OBVIOUS
<1> HIDE DEF Permit
<1>8. ASSUME NEW b \in Attempts, Exists(b)
      PROVE  /\ b # a
             /\ attempts[b].nonce \in Nonces
             /\ attempts[b].nonce # e.nonce
  BY <1>1, <1>6, <1>8, <1>s, DraftsAssumption DEF IInv, AttemptsBound, Exists
<1>9. posts[e.nonce] = 0
  <2>1. posts[e.nonce] \in Nat
    BY <1>1 DEF IInv, TypeOK
  <2>2. ~(posts[e.nonce] > 0)
    BY <1>1, <1>8 DEF IInv, PostsHaveAttempts
  <2> QED BY <2>1, <2>2
<1>10. a \notin accepted
  BY <1>s DEF IInv, PostsHaveAttempts, Exists
<1>11. \A b \in Attempts : Exists(b)' <=> (Exists(b) \/ b = a)
  BY <1>2, <1>3 DEF Exists
<1>12. \A b \in Attempts : Exists(b) => attempts'[b] = attempts[b] /\ Exists(b)'
  BY <1>3, <1>8, <1>11
<1>13. AttemptsBound'
  <2> SUFFICES ASSUME NEW b \in Attempts PROVE AttemptsBound!(b)'
    BY DEF AttemptsBound
  <2>1. CASE b = a
    BY <1>1, <1>2, <1>6, <1>11, <1>w, <2>1, WorldKept
  <2>2. CASE b # a
    BY <1>3, <1>7, <1>8, <1>11, <1>w, <2>2, WorldKept DEF IInv, AttemptsBound
  <2> QED BY <2>1, <2>2
<1>14. NonceHasOneAttempt'
  <2> SUFFICES ASSUME NEW n \in Nonces PROVE NonceHasOneAttempt!(n)'
    BY DEF NonceHasOneAttempt
  <2>1. ASSUME NEW b \in Attempts, ~Exists(b) PROVE attempts[b].nonce \notin Nonces
    BY <2>1, NoncesAssumption DEF IInv, AttemptsBound, NoAttempt
  <2>2. CASE n = e.nonce
    <3>1. \A b \in Attempts : attempts'[b].nonce = n => b = a
      BY <1>1, <1>3, <1>8, <2>1, <2>2
    <3> QED BY <1>2, <1>6, <1>11, <2>2, <3>1
  <2>3. CASE n # e.nonce
    <3>1. \A b \in Attempts : attempts'[b].nonce = n => b # a /\ attempts[b].nonce = n
      BY <1>2, <1>3, <2>3
    <3>2. nonces'[n] = nonces[n]
      BY <1>7, <2>3
    <3>3. nonces[n] # None =>
            \E b \in Attempts : Exists(b) /\ attempts[b].nonce = n /\ attempts[b].draft = nonces[n]
      BY DEF IInv, NonceHasOneAttempt
    <3>4. \A b, c \in Attempts : (attempts[b].nonce = n /\ attempts[c].nonce = n) => b = c
      BY DEF IInv, NonceHasOneAttempt
    <3> QED BY <1>12, <3>1, <3>2, <3>3, <3>4
  <2> QED BY <2>2, <2>3
<1>15. CallsChecked'
  <2> SUFFICES ASSUME NEW t \in Senders, sender'[t].pc # "idle"
               PROVE  CallsChecked!(t)!2'
    BY DEF CallsChecked
  <2>1. /\ sender[t].pc # "idle"
        /\ sender'[t].env = sender[t].env
        /\ sender'[t].now = sender[t].now
    BY <1>4, <1>5, <1>s
  <2> QED BY <1>w, <2>1, WorldKept DEF IInv, CallsChecked
<1>16. CallsOwnAttempt'
  <2> SUFFICES ASSUME NEW t \in Senders, sender'[t].pc \in {"post", "finish"}
               PROVE  CallsOwnAttempt!(t)!2'
    BY DEF CallsOwnAttempt
  <2>1. CASE t = s
    BY <1>2, <1>4, <1>9, <1>10, <1>11, <1>w, <2>1
  <2>2. CASE t # s
    <3>1. sender'[t] = sender[t] /\ sender[t].attempt \in Attempts /\ Exists(sender[t].attempt)
      BY <1>5, <2>2 DEF IInv, CallsOwnAttempt
    <3> QED BY <1>12, <1>w, <3>1 DEF IInv, CallsOwnAttempt
  <2> QED BY <2>1, <2>2
<1>17. CallsDiffer'
  <2>1. \A t \in Senders : (t # s /\ sender'[t].pc \in {"post", "finish"})
           => sender'[t].attempt # a
    BY <1>5, <1>8 DEF IInv, CallsOwnAttempt
  <2> QED BY <1>4, <1>5, <2>1 DEF IInv, CallsDiffer
<1>18. PostsHaveAttempts'
  <2>1. \A n \in Nonces : posts[n] > 0 =>
          \E b \in Attempts : Exists(b)' /\ attempts'[b].nonce = n
    BY <1>12 DEF IInv, PostsHaveAttempts
  <2>2. \A b \in accepted : Exists(b)' /\ posts[attempts'[b].nonce] = 1
    BY <1>12 DEF IInv, PostsHaveAttempts, TypeOK
  <2>3. \A b \in Attempts : attempts'[b].state \in {"SUBMITTED", "FAILED"}
          => posts[attempts'[b].nonce] = 1
    BY <1>2, <1>3 DEF IInv, PostsHaveAttempts
  <2> QED BY <1>w, <2>1, <2>2, <2>3 DEF PostsHaveAttempts
<1>19. RecordIsTruthful' /\ OnePostPerNonce'
  BY <1>2, <1>3, <1>w DEF IInv, RecordIsTruthful, OnePostPerNonce
<1>20. PermittedByPolicy'
  <2> SUFFICES ASSUME NEW b \in Attempts, Exists(b)'
               PROVE  PermittedByPolicy!(b)!2'
    BY DEF PermittedByPolicy
  <2>1. CASE b = a
    BY <1>1, <1>2, <1>w, <2>1 DEF Permissible, world
  <2>2. CASE b # a
    BY <1>3, <1>11, <1>w, <2>2 DEF IInv, PermittedByPolicy, world
  <2> QED BY <2>1, <2>2
<1>21. SignedBound' /\ WindowBacked'
  BY <1>w, WorldInv
<1> QED
  BY <1>13, <1>14, <1>15, <1>16, <1>17, <1>18, <1>19, <1>20, <1>21 DEF IInv

\* A nonce has at most one attempt.
LEMMA OneAttemptPerNonce ==
  ASSUME IInv, NEW a \in Attempts, NEW b \in Attempts, Exists(a),
         attempts[a].nonce = attempts[b].nonce
  PROVE  a = b
<1>1. attempts[a].nonce \in Nonces
  BY DEF IInv, AttemptsBound
<1> QED BY <1>1 DEF IInv, NonceHasOneAttempt

\* The provider call: the caller owns the only attempt under its nonce, so no
\* other call is about to post under the same one.
LEMMA PostStep ==
  ASSUME IInv, TypeOK', NEW s \in Senders, NEW answer \in Answer,
         Post(s, answer)
  PROVE  IInv'
<1> USE DEF Post
<1> PICK a, n : a = sender[s].attempt /\ n = sender[s].env.nonce
  OBVIOUS
<1>1. /\ a \in Attempts /\ Exists(a) /\ attempts[a].nonce = n /\ n \in Nonces
      /\ posts[n] = 0 /\ a \notin accepted
      /\ attempts[a].state \notin {"SUBMITTED", "FAILED"}
  BY DEF IInv, CallsOwnAttempt, AttemptsBound
<1>2. /\ sender'[s].pc = "finish" /\ sender'[s].env = sender[s].env
      /\ sender'[s].now = sender[s].now /\ sender'[s].attempt = a
      /\ sender'[s].answer = answer
  BY DEF IInv, TypeOK
<1>3. \A t \in Senders : t # s => sender'[t] = sender[t]
  BY DEF IInv, TypeOK
<1>4. posts'[n] = 1 /\ \A x \in Nonces : x # n => posts'[x] = posts[x]
  BY <1>1 DEF IInv, TypeOK
<1>5. /\ answer = "SUBMITTED" => a \in accepted'
      /\ accepted \subseteq accepted' /\ accepted' \subseteq accepted \cup {a}
  OBVIOUS
<1>t. told'[n] = answer /\ \A x \in Nonces : x # n => told'[x] = told[x]
  BY <1>1 DEF IInv, TypeOK
<1>w. UNCHANGED <<world, nonces, attempts>> /\ UNCHANGED drafts
  BY DEF world
<1>s. sender[s].pc = "post"
  OBVIOUS
<1> HIDE DEF Post
<1>6. ASSUME NEW b \in Attempts, Exists(b), b # a
      PROVE  attempts[b].nonce # n /\ attempts[b].nonce \in Nonces
  BY <1>1, <1>6, OneAttemptPerNonce DEF IInv, AttemptsBound
<1>7. CallsChecked'
  <2> SUFFICES ASSUME NEW t \in Senders, sender'[t].pc # "idle"
               PROVE  CallsChecked!(t)!2'
    BY DEF CallsChecked
  <2>1. /\ sender[t].pc # "idle"
        /\ sender'[t].env = sender[t].env
        /\ sender'[t].now = sender[t].now
    BY <1>2, <1>3, <1>s
  <2> QED BY <1>w, <2>1, WorldKept DEF IInv, CallsChecked
<1>8. CallsOwnAttempt'
  <2> SUFFICES ASSUME NEW t \in Senders, sender'[t].pc \in {"post", "finish"}
               PROVE  CallsOwnAttempt!(t)!2'
    BY DEF CallsOwnAttempt
  <2>1. CASE t = s
    BY <1>1, <1>2, <1>4, <1>5, <1>t, <1>w, <2>1 DEF Exists
  <2>2. CASE t # s
    <3>1. /\ sender'[t] = sender[t] /\ sender[t].attempt \in Attempts
          /\ Exists(sender[t].attempt) /\ sender[t].attempt # a
          /\ attempts[sender[t].attempt].nonce = sender[t].env.nonce
      BY <1>1, <1>3, <1>s, <2>2 DEF IInv, CallsOwnAttempt, CallsDiffer
    <3>2. /\ posts'[sender[t].env.nonce] = posts[sender[t].env.nonce]
          /\ told'[sender[t].env.nonce] = told[sender[t].env.nonce]
      BY <1>4, <1>6, <1>t, <3>1
    <3>3. sender[t].attempt \in accepted' <=> sender[t].attempt \in accepted
      BY <1>5, <3>1
    <3> QED BY <1>w, <3>1, <3>2, <3>3 DEF IInv, CallsOwnAttempt, Exists
  <2> QED BY <2>1, <2>2
<1>9. CallsDiffer'
  BY <1>2, <1>3, <1>s DEF IInv, CallsDiffer
<1>10. PostsHaveAttempts'
  <2>1. \A x \in Nonces : posts'[x] > 0 =>
          \E b \in Attempts : Exists(b) /\ attempts[b].nonce = x
    BY <1>1, <1>4 DEF IInv, PostsHaveAttempts
  <2>2. \A b \in accepted' : Exists(b) /\ posts'[attempts[b].nonce] = 1
    BY <1>1, <1>4, <1>5, <1>6 DEF IInv, PostsHaveAttempts, TypeOK
  <2>3. \A b \in Attempts : attempts[b].state \in {"SUBMITTED", "FAILED"}
          => posts'[attempts[b].nonce] = 1
    BY <1>1, <1>4, <1>6 DEF IInv, PostsHaveAttempts, Exists
  <2> QED BY <1>w, <2>1, <2>2, <2>3 DEF PostsHaveAttempts, Exists
<1>11. OnePostPerNonce'
  BY <1>4 DEF IInv, OnePostPerNonce
<1>12. RecordIsTruthful'
  <2> SUFFICES ASSUME NEW b \in Attempts PROVE RecordIsTruthful!(b)'
    BY DEF RecordIsTruthful
  <2>1. CASE b = a
    BY <1>1, <1>w, <2>1
  <2>2. CASE b # a /\ attempts[b].state \in {"SUBMITTED", "FAILED"}
    BY <1>5, <1>6, <1>t, <1>w, <2>2 DEF IInv, RecordIsTruthful, Exists
  <2>3. CASE attempts[b].state \notin {"SUBMITTED", "FAILED"}
    BY <1>w, <2>3
  <2> QED BY <2>1, <2>2, <2>3
<1>13. AttemptsBound'
  BY <1>w, WorldKept DEF IInv, AttemptsBound, Exists
<1>14. NonceHasOneAttempt' /\ PermittedByPolicy'
  BY <1>w DEF IInv, NonceHasOneAttempt, PermittedByPolicy, Exists, world
<1>15. SignedBound' /\ WindowBacked'
  BY <1>w, WorldInv
<1> QED
  BY <1>7, <1>8, <1>9, <1>10, <1>11, <1>12, <1>13, <1>14, <1>15 DEF IInv

\* Any UPDATE of an existing attempt that keeps its draft and its nonce and
\* records what is known of the provider, by a call that goes idle or by another
\* process.  Covers _finish, recover_startup and on_status_event.
LEMMA RecordStep ==
  ASSUME IInv, TypeOK',
         UNCHANGED <<world, nonces, posts, told, accepted>>,
         \A s \in Senders : sender'[s] = sender[s] \/ sender'[s].pc = "idle",
         \A a \in Attempts :
           \/ attempts'[a] = attempts[a]
           \/ /\ Exists(a) /\ Exists(a)'
              /\ attempts'[a].draft = attempts[a].draft
              /\ attempts'[a].nonce = attempts[a].nonce
              /\ attempts'[a].created = attempts[a].created
              /\ attempts'[a].state = "SUBMITTED" =>
                   /\ a \in accepted
                   /\ attempts'[a].wamid = a
              /\ attempts'[a].state = "FAILED" =>
                   /\ told[attempts[a].nonce] \in {"CONNECT_FAILED", "ERROR"}
                   /\ posts[attempts[a].nonce] = 1
                   /\ \A s \in Senders : sender[s].pc \in {"post", "finish"}
                        /\ sender[s].attempt = a => sender'[s].pc = "idle"
  PROVE  IInv'
<1>1. \A a \in Attempts :
        /\ Exists(a)' <=> Exists(a)
        /\ attempts'[a].draft = attempts[a].draft
        /\ attempts'[a].nonce = attempts[a].nonce
        /\ attempts'[a].created = attempts[a].created
  BY DEF Exists
<1>2. /\ \A a \in Attempts : ~Exists(a) => attempts'[a] = attempts[a]
      /\ UNCHANGED drafts
  BY DEF world
<1>3. AttemptsBound'
  BY <1>1, <1>2, WorldKept DEF IInv, AttemptsBound
<1>4. NonceHasOneAttempt'
  BY <1>1 DEF IInv, NonceHasOneAttempt
<1>5. CallsChecked'
  <2> SUFFICES ASSUME NEW t \in Senders, sender'[t].pc # "idle"
               PROVE  CallsChecked!(t)!2'
    BY DEF CallsChecked
  <2>1. sender'[t] = sender[t]
    OBVIOUS
  <2> QED BY <1>2, <2>1, WorldKept DEF IInv, CallsChecked
<1>6. CallsOwnAttempt'
  <2> SUFFICES ASSUME NEW t \in Senders, sender'[t].pc \in {"post", "finish"}
               PROVE  CallsOwnAttempt!(t)!2'
    BY DEF CallsOwnAttempt
  <2>1. sender'[t] = sender[t]
    OBVIOUS
  <2>2. sender[t].pc = "post" => sender[t].attempt \notin accepted
    BY <2>1 DEF IInv, CallsOwnAttempt
  <2>3. attempts[sender[t].attempt].state # "FAILED"
    BY <2>1 DEF IInv, CallsOwnAttempt
  <2>4. sender[t].attempt \in Attempts
    BY <2>1 DEF IInv, CallsOwnAttempt
  <2>5. attempts'[sender[t].attempt].state # "FAILED"
    BY <2>1, <2>3, <2>4
  <2>6. sender[t].pc = "post" => attempts'[sender[t].attempt].state # "SUBMITTED"
    BY <2>1, <2>2, <2>4 DEF IInv, CallsOwnAttempt
  <2> QED BY <1>1, <2>1, <2>4, <2>5, <2>6 DEF IInv, CallsOwnAttempt
<1>7. CallsDiffer'
  BY DEF IInv, CallsDiffer
<1>8. PostsHaveAttempts'
  <2>1. \A a \in Attempts : attempts'[a].state \in {"SUBMITTED", "FAILED"}
          => posts[attempts[a].nonce] = 1
    BY DEF IInv, PostsHaveAttempts
  <2>2. \A n \in Nonces : posts[n] > 0 =>
          \E a \in Attempts : Exists(a)' /\ attempts'[a].nonce = n
    BY <1>1 DEF IInv, PostsHaveAttempts
  <2>3. \A a \in accepted : Exists(a)' /\ posts[attempts'[a].nonce] = 1
    BY <1>1 DEF IInv, PostsHaveAttempts, TypeOK
  <2> QED BY <1>1, <2>1, <2>2, <2>3 DEF PostsHaveAttempts
<1>9. RecordIsTruthful' /\ OnePostPerNonce'
  BY DEF IInv, RecordIsTruthful, OnePostPerNonce
<1>10. PermittedByPolicy'
  BY <1>1 DEF IInv, PermittedByPolicy, world
<1>11. SignedBound' /\ WindowBacked'
  BY WorldInv
<1> QED
  BY <1>3, <1>4, <1>5, <1>6, <1>7, <1>8, <1>9, <1>10, <1>11 DEF IInv

\* _finish: the answer the call holds is what the provider said.
LEMMA FinishStep ==
  ASSUME IInv, TypeOK', NEW s \in Senders, Finish(s)
  PROVE  IInv'
<1> USE DEF Finish
<1> PICK a, answer : a = sender[s].attempt /\ answer = sender[s].answer
  OBVIOUS
<1>1. /\ a \in Attempts /\ Exists(a) /\ posts[attempts[a].nonce] = 1
      /\ told[attempts[a].nonce] = answer
      /\ answer = "SUBMITTED" => a \in accepted
  BY DEF IInv, CallsOwnAttempt
<1>2. answer \in Answer
  BY DEF IInv, TypeOK, Call, Idle
<1>3. /\ attempts'[a].draft = attempts[a].draft
      /\ attempts'[a].nonce = attempts[a].nonce
      /\ attempts'[a].created = attempts[a].created
      /\ attempts'[a].state = Outcome(answer)
      /\ attempts'[a].wamid = IF answer = "SUBMITTED" THEN a ELSE attempts[a].wamid
  BY <1>1 DEF IInv, TypeOK, Updated
<1>4. Exists(a)'
  BY <1>3 DEF Exists, Outcome
<1>5. \A b \in Attempts : b # a => attempts'[b] = attempts[b]
  BY DEF IInv, TypeOK
<1>6. sender'[s].pc = "idle" /\ \A t \in Senders : t # s => sender'[t] = sender[t]
  BY DEF IInv, TypeOK, Idle
<1>7. attempts'[a].state = "SUBMITTED" => a \in accepted /\ attempts'[a].wamid = a
  BY <1>1, <1>3 DEF Outcome
<1>8. attempts'[a].state = "FAILED" =>
        told[attempts[a].nonce] \in {"CONNECT_FAILED", "ERROR"}
  BY <1>1, <1>2, <1>3 DEF Answer, Outcome
<1>9. \A t \in Senders : sender[t].pc \in {"post", "finish"} /\ sender[t].attempt = a
        => sender'[t].pc = "idle"
  BY <1>6 DEF IInv, CallsDiffer
<1> HIDE DEF Finish
<1>10. UNCHANGED <<world, nonces, posts, told, accepted>>
  BY DEF Finish, world
<1> QED BY <1>1, <1>3, <1>4, <1>5, <1>6, <1>7, <1>8, <1>9, <1>10, RecordStep

\* Start-up recovery claims nothing: INDETERMINATE is always true.
LEMMA RecoverStep ==
  ASSUME IInv, TypeOK', recover_startup
  PROVE  IInv'
<1>1. ASSUME NEW a \in Attempts
      PROVE  \/ attempts'[a] = attempts[a]
             \/ /\ Exists(a) /\ Exists(a)'
                /\ attempts'[a].draft = attempts[a].draft
                /\ attempts'[a].nonce = attempts[a].nonce
                /\ attempts'[a].created = attempts[a].created
                /\ attempts'[a].state = "INDETERMINATE"
  <2>1. CASE attempts[a].state = "SUBMITTING"
    <3>1. attempts'[a] = Updated(attempts[a], "INDETERMINATE", attempts[a].wamid)
      BY <2>1 DEF recover_startup
    <3> QED BY <2>1, <3>1 DEF Exists, Updated
  <2>2. CASE attempts[a].state # "SUBMITTING"
    BY <2>2 DEF recover_startup
  <2> QED BY <2>1, <2>2
<1>2. UNCHANGED <<world, nonces, posts, told, accepted, sender>>
  BY DEF recover_startup, world
<1> QED BY <1>1, <1>2, RecordStep

\* A status webhook that names its attempt proves that Meta accepted it.
LEMMA StatusStep ==
  ASSUME IInv, TypeOK', NEW a \in Attempts, StatusResolves(a)
  PROVE  IInv'
<1>1. \A b \in Attempts : b # a => attempts'[b] = attempts[b]
  BY DEF StatusResolves, IInv, TypeOK
<1>2. /\ Exists(a) /\ Exists(a)' /\ a \in accepted
      /\ attempts'[a].draft = attempts[a].draft
      /\ attempts'[a].nonce = attempts[a].nonce
      /\ attempts'[a].created = attempts[a].created
      /\ attempts'[a].state = "SUBMITTED" /\ attempts'[a].wamid = a
  BY DEF StatusResolves, IInv, TypeOK, Exists, Updated
<1>3. UNCHANGED <<world, nonces, posts, told, accepted, sender>>
  BY DEF StatusResolves, world
<1> QED BY <1>1, <1>2, <1>3, RecordStep

\* Every step of every process preserves the invariant.
LEMMA InvStep == IInv /\ [Next]_vars => IInv'
<1> SUFFICES ASSUME IInv, [Next]_vars PROVE IInv'
  OBVIOUS
<1> TypeOK'
  BY TypeStep DEF IInv
<1>1. CASE UNCHANGED vars
  BY <1>1, FrameStep DEF vars, world, sends
<1>2. CASE Tick \/ ClockJumpsBack
  BY <1>2, FrameStep DEF Tick, ClockJumpsBack, world, sends
<1>3. CASE \E p \in Preparers : PrepareStep(p)
  <2> PICK p \in Preparers : PrepareStep(p)
    BY <1>3
  <2>1. ASSUME NEW c \in Convs, NEW b \in Bodies,
               PrepareReuses(p, c, b) \/ PrepareMisses(p, c, b)
        PROVE  IInv'
    BY <2>1, FrameStep DEF PrepareReuses, PrepareMisses, world, sends
  <2>2. ASSUME NEW d \in Drafts, NEW n \in Nonces, NEW x \in ExpiryArgs,
               PrepareInserts(p, d, n, x)
        PROVE  IInv'
    BY <2>2, DraftStep DEF PrepareInserts, sends
  <2>3. CASE PrepareAborts(p)
    BY <2>3, FrameStep DEF PrepareAborts, world, sends
  <2> QED BY <2>1, <2>2, <2>3 DEF PrepareStep
<1>4. CASE \E s \in Senders : SenderStep(s)
  <2> PICK s \in Senders : SenderStep(s)
    BY <1>4
  <2>1. ASSUME NEW e \in Envelopes, CheckDenies(s, e) PROVE IInv'
    BY <2>1, FrameStep DEF CheckDenies, world, sends
  <2>2. ASSUME NEW e \in Envelopes, CheckPasses(s, e) PROVE IInv'
    BY <2>2, CheckStep
  <2>3. ASSUME NEW a \in Attempts, Permit(s, a) PROVE IInv'
    BY <2>3, PermitStep
  <2>4. CASE PermitReplayed(s) \/ SendRaises(s) \/ SenderCrashes(s)
    BY <2>4, IdleStep DEF PermitReplayed, SendRaises, SenderCrashes, world
  <2>5. ASSUME NEW answer \in Answer, Post(s, answer) PROVE IInv'
    BY <2>5, PostStep
  <2>6. CASE Finish(s)
    BY <2>6, FinishStep
  <2> QED
    BY <2>1, <2>2, <2>3, <2>4, <2>5, <2>6 DEF SenderStep, SendContinues
<1>5. CASE ControlStep
  <2>1. ASSUME NEW c \in Convs, NEW d \in Drafts, NEW n \in Nonces,
               prepare_template(c, d, n)
        PROVE  IInv'
    BY <2>1, DraftStep DEF prepare_template, sends
  <2>2. ASSUME NEW a \in Attempts, NEW k \in Cands, NEW callback \in Callbacks,
               StatusUnmatched(a, k, callback)
        PROVE  IInv'
    BY <2>2, FrameStep DEF StatusUnmatched, world, sends
  <2>3. ASSUME NEW k \in Cands, NEW state \in {"RESOLVED", "DISMISSED"},
               resolve(k, state)
        PROVE  IInv'
    BY <2>3, FrameStep DEF resolve, world, sends
  <2> QED
    BY <1>5, <2>1, <2>2, <2>3, WindowStep, DeviceStep, SignStep, RecoverStep,
       StatusStep DEF ControlStep
<1> QED BY <1>1, <1>2, <1>3, <1>4, <1>5 DEF Next

-----------------------------------------------------------------------------
(* The theorems.                                                            *)

\* The invariant holds in every reachable state of the chain, whatever the
\* number of drafts, devices, senders, preparers and attempts.
THEOREM Invariance == Spec => []IInv
<1>1. Init => IInv
  BY InitInv
<1>2. IInv /\ [Next]_vars => IInv'
  BY InvStep
<1> QED BY <1>1, <1>2, PTL DEF Spec

\* Type correctness: every row that the chain writes has the shape of its
\* table, and every call in flight is at a known point with its locals set.
THEOREM TypeCorrect == Spec => []TypeOK
<1>1. IInv => TypeOK
  BY DEF IInv
<1> QED BY <1>1, Invariance, PTL

\* At most one provider call per consumed nonce, for any number of senders and
\* replays, whatever nonce an envelope carries.
THEOREM AtMostOnce == Spec => []OnePostPerNonce
<1>1. IInv => OnePostPerNonce
  BY DEF IInv
<1> QED BY <1>1, Invariance, PTL

\* Nothing is posted that no human approved: the nonce of a provider call is
\* consumed by a draft over which an enrolled phone has signed APPROVE, whatever
\* envelopes execute_write is given.
THEOREM OnlyAuthorised == Spec => []PostIsAuthorised
<1>1. IInv => PostIsAuthorised
  <2> SUFFICES ASSUME IInv, NEW n \in Nonces, posts[n] > 0
               PROVE  PostIsAuthorised!(n)!2
    BY DEF PostIsAuthorised
  <2>1. PICK a \in Attempts : Exists(a) /\ attempts[a].nonce = n
    BY DEF IInv, PostsHaveAttempts
  <2>2. /\ nonces[n] = attempts[a].draft /\ attempts[a].draft \in Drafts
        /\ drafts[attempts[a].draft] # None /\ Approved(attempts[a].draft)
    BY <2>1 DEF IInv, AttemptsBound
  <2>3. nonces[n] # None
    BY <2>2, DraftsAssumption
  <2>4. PICK p \in signed : Approves(p, nonces[n])
    BY <2>2 DEF Approved
  <2>5. devices[p.device] # "NONE"
    BY DEF IInv, SignedBound
  <2> QED BY <2>2, <2>3, <2>4, <2>5
<1> QED BY <1>1, Invariance, PTL

\* The permission-to-transmit transaction is all or nothing: a nonce is
\* consumed exactly when it has one attempt.
THEOREM AllOrNothing == Spec => []NonceHasOneAttempt
<1>1. IInv => NonceHasOneAttempt
  BY DEF IInv
<1> QED BY <1>1, Invariance, PTL

\* SUBMITTED on record was accepted, FAILED on record was the provider's answer.
THEOREM Truthful == Spec => []RecordIsTruthful
<1>1. IInv => RecordIsTruthful
  BY DEF IInv
<1> QED BY <1>1, Invariance, PTL

\* Every permission satisfied the send policy at its trusted time, by a message
\* that was really received, however the window has been overwritten.
THEOREM PolicyEnforced == Spec => []PermittedByPolicy
<1>1. IInv => PermittedByPolicy
  BY DEF IInv
<1> QED BY <1>1, Invariance, PTL

\* No step of any process releases a nonce or forgets an attempt.
THEOREM NothingReleased == Spec => NonceNeverReleased
<1> DEFINE Keeps ==
      /\ \A n \in Nonces : nonces[n] # None => nonces'[n] = nonces[n]
      /\ \A a \in Attempts : Exists(a) =>
           /\ attempts'[a].state # "NONE"
           /\ attempts'[a].draft = attempts[a].draft
<1>1. IInv /\ [Next]_vars => [Keeps]_vars
  <2> SUFFICES ASSUME IInv, Next PROVE Keeps
    OBVIOUS
  <2>1. CASE UNCHANGED <<nonces, attempts>>
    BY <2>1 DEF Exists
  <2>2. CASE \E s \in Senders, a \in Attempts : Permit(s, a)
    <3> PICK s \in Senders, a \in Attempts : Permit(s, a)
      BY <2>2
    <3>1. \A b \in Attempts : Exists(b) => attempts'[b] = attempts[b]
      BY DEF Permit, IInv, TypeOK, Exists
    <3>2. \A n \in Nonces : nonces[n] # None => nonces'[n] = nonces[n]
      BY DEF Permit, IInv, TypeOK
    <3> QED BY <3>1, <3>2 DEF Exists
  <2>3. CASE \E s \in Senders : Finish(s)
    <3> PICK s \in Senders : Finish(s)
      BY <2>3
    <3>1. sender[s].attempt \in Attempts
      BY DEF Finish, IInv, TypeOK, Call, Idle
    <3> QED BY <3>1 DEF Finish, IInv, TypeOK, Exists, Updated, Outcome
  <2>4. CASE recover_startup
    BY <2>4 DEF recover_startup, Exists, Updated
  <2>5. CASE \E a \in Attempts : StatusResolves(a)
    BY <2>5 DEF StatusResolves, IInv, TypeOK, Exists, Updated
  <2>6. \/ UNCHANGED <<nonces, attempts>>
        \/ \E s \in Senders, a \in Attempts : Permit(s, a)
        \/ \E s \in Senders : Finish(s)
        \/ recover_startup
        \/ \E a \in Attempts : StatusResolves(a)
    BY DEF Next, Tick, ClockJumpsBack, PrepareStep, PrepareReuses, PrepareMisses,
           PrepareInserts, PrepareAborts, SenderStep, SendContinues, CheckDenies,
           CheckPasses, PermitReplayed, SendRaises, Post, SenderCrashes,
           ControlStep, InboundCommitted, WindowWritten, enroll, revoke,
           prepare_template, phone_signs, StatusUnmatched, resolve
  <2> QED BY <2>1, <2>2, <2>3, <2>4, <2>5, <2>6
<1>2. [][Keeps]_vars <=> NonceNeverReleased
  BY DEF NonceNeverReleased
<1> QED BY <1>1, <1>2, Invariance, PTL DEF Spec
=============================================================================
