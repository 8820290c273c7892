---------------------------- MODULE ApprovalChain ----------------------------
(***************************************************************************)
(* The human-approval send chain of WhatsVault: drafts.prepare, the phone's *)
(* signature, sender.execute_write, recover_startup and reconcile, over the *)
(* shared control database.  (The relay is module Relay: execute_write takes *)
(* the envelope as an argument and never looks at the approvals table.)     *)
(*                                                                         *)
(* control.db is an SQLite file opened by several processes.  A SELECT runs *)
(* in autocommit; the driver opens a transaction only before the first      *)
(* INSERT or UPDATE.  An action below is therefore one autocommit read      *)
(* block or one whole transaction, and whatever a process read before its   *)
(* first write may be stale when it writes.  lock is the database's write   *)
(* lock: it outlives a step only where the code returns without COMMIT or   *)
(* ROLLBACK.                                                                *)
(***************************************************************************)
EXTENDS Naturals

CONSTANTS
  Drafts,        \* pool of draft ids
  Nonces,        \* pool of 32-byte nonces, of drafts and of envelopes
  Convs,         \* conversations
  Bodies,        \* message bodies (a body stands for its SHA-256)
  Devices,       \* pool of approval devices; a device stands for its keys
  Attempts,      \* pool of send attempt ids; also the wamid Meta gives to it
  Cands,         \* pool of reconciliation candidates
  Senders,       \* processes that run execute_write
  Preparers,     \* processes that run drafts.prepare
  TTL,           \* DEFAULT_TTL_MS in clock units
  WINDOW,        \* WINDOW_MS in clock units
  MaxTime,       \* bound on the wall clock
  InboundTimes,  \* provider timestamps of inbound messages
  ExpiryArgs,    \* expires_at_ms arguments of prepare; 0 means "not given"
  Callbacks,     \* whether a status event echoes biz_opaque_callback_data
  None           \* SQL NULL, "no row" and Python's None

ASSUME SendersAssumption == None \notin Senders
ASSUME DraftsAssumption  == None \notin Drafts
ASSUME AttemptsAssumption == None \notin Attempts
ASSUME NoncesAssumption == None \notin Nonces
ASSUME TimeAssumption ==
  /\ TTL \in Nat \ {0}
  /\ WINDOW \in Nat \ {0}
  /\ MaxTime \in Nat \ {0}
  /\ ExpiryArgs \subseteq Nat
  /\ InboundTimes \subseteq Nat
ASSUME CallbacksAssumption == Callbacks \subseteq BOOLEAN

VARIABLES
  clock,       \* wall clock of the Mac, may jump back
  windows,     \* conversation_windows.last_inbound_ms
  inbound,     \* times of the inbound messages received (vault.db)
  drafts,      \* drafts table: id -> row, None when absent
  prep,        \* the prepare call each preparer is in, and its last answer
  devices,     \* approval_devices.status, "NONE" before enrolment
  signed,      \* every payload a phone has signed
  nonces,      \* approval_nonces table: nonce -> consumed_by, None when absent
  attempts,    \* send_attempts table: id -> row, state "NONE" when absent
  candidates,  \* reconciliation_candidates table
  sender,      \* the execute_write call each sender is in
  guard,       \* ClockGuard._last of each sender, 0 before the first use
  lock,        \* sender that holds control.db's write lock, None when free
  posts,       \* provider.send_text calls made under each consumed nonce
  told,        \* what the provider answered to them
  accepted     \* attempts whose message Meta accepted

vars == <<clock, windows, inbound, drafts, prep, devices, signed, nonces,
          attempts, candidates, sender, guard, lock, posts, told, accepted>>

-----------------------------------------------------------------------------
(* Rows and messages.                                                       *)

Row == [conv: Convs, body: Bodies \cup {None}, kind: {"text", "template"},
        bound: BOOLEAN, nonce: Nonces, created: Nat, expires: Nat]

\* The fields the phone signs; conversation_id is not one of them.
Payload == [decision: {"APPROVE", "REJECT"}, draft: Drafts, device: Devices,
            body: Bodies \cup {None}, kind: {"text", "template"},
            bound: BOOLEAN, nonce: Nonces, created: Nat, expires: Nat]

\* signature = None is a 64-byte string that verifies nothing.
\* The nonce field is not signed (the draft's own nonce is): it may be any.
Envelope == [draft: Drafts, device: Devices, decision: {"APPROVE", "REJECT"},
             nonce: Nonces, signature: Payload \cup {None}]

AttemptState == {"NONE", "SUBMITTING", "SUBMITTED", "FAILED", "INDETERMINATE"}

Attempt == [state: AttemptState, draft: Drafts \cup {None},
            nonce: Nonces \cup {None}, wamid: Attempts \cup {None},
            created: Nat]

NoAttempt == [state |-> "NONE", draft |-> None, nonce |-> None,
              wamid |-> None, created |-> 0]

\* UPDATE send_attempts SET state, wamid.
Updated(row, state, wamid) ==
  [state |-> state, draft |-> row.draft, nonce |-> row.nonce, wamid |-> wamid,
   created |-> row.created]

ASSUME PayloadAssumption == None \notin Payload

Candidate == [wamid: Attempts,
              state: {"POSSIBLE_MATCH", "RESOLVED", "DISMISSED"}]

\* How provider.send_text ends: a wamid, ConnectFailed (nothing was sent), any
\* other result, or TimeoutAfterSend.  Only the first two say what Meta did.
Answer == {"SUBMITTED", "CONNECT_FAILED", "ERROR", "TIMEOUT"}

\* The state that execute_write records for an answer.
Outcome(answer) ==
  IF answer = "TIMEOUT" THEN "INDETERMINATE"
  ELSE IF answer = "SUBMITTED" THEN "SUBMITTED" ELSE "FAILED"

Idle == [pc |-> "idle", env |-> None, now |-> 0, attempt |-> None,
         answer |-> "none"]

\* An execute_write call: none, past its checks, past its COMMIT, answered.
Call == {Idle}
  \cup [pc: {"permit"}, env: Envelope, now: Nat, attempt: {None},
        answer: {"none"}]
  \cup [pc: {"post"}, env: Envelope, now: Nat, attempt: Attempts,
        answer: {"none"}]
  \cup [pc: {"finish"}, env: Envelope, now: Nat, attempt: Attempts,
        answer: Answer]

\* A prepare call: none (with what the last one returned), or past its SELECT.
Prep == [pc: {"idle"}, conv: {None}, body: {None}, now: {0},
         draft: Drafts \cup {None}]
  \cup [pc: {"insert"}, conv: Convs, body: Bodies, now: Nat, draft: {None}]

\* No prepare call is running; the last one returned draft d.
Returned(d) == [pc |-> "idle", conv |-> None, body |-> None, now |-> 0,
                draft |-> d]

TypeOK ==
  /\ clock \in Nat
  /\ windows \in [Convs -> Nat]
  /\ inbound \in [Convs -> SUBSET Nat]
  /\ drafts \in [Drafts -> Row \cup {None}]
  /\ prep \in [Preparers -> Prep]
  /\ devices \in [Devices -> {"NONE", "ACTIVE", "REVOKED"}]
  /\ signed \subseteq Payload
  /\ nonces \in [Nonces -> Drafts \cup {None}]
  /\ attempts \in [Attempts -> Attempt]
  /\ candidates \in [Cands -> Candidate \cup {None}]
  /\ sender \in [Senders -> Call]
  /\ guard \in [Senders -> Nat]
  /\ lock \in Senders \cup {None}
  /\ posts \in [Nonces -> Nat]
  /\ told \in [Nonces -> Answer \cup {None}]
  /\ accepted \subseteq Attempts

Init ==
  /\ clock = 1
  /\ windows = [c \in Convs |-> 0]
  /\ inbound = [c \in Convs |-> {}]
  /\ drafts = [d \in Drafts |-> None]
  /\ prep = [p \in Preparers |-> Returned(None)]
  /\ devices = [v \in Devices |-> "NONE"]
  /\ signed = {}
  /\ nonces = [n \in Nonces |-> None]
  /\ attempts = [a \in Attempts |-> NoAttempt]
  /\ candidates = [k \in Cands |-> None]
  /\ sender = [s \in Senders |-> Idle]
  /\ guard = [s \in Senders |-> 0]
  /\ lock = None
  /\ posts = [n \in Nonces |-> 0]
  /\ told = [n \in Nonces |-> None]
  /\ accepted = {}

-----------------------------------------------------------------------------
(* Environment: time, inbound messages, provisioning of devices.            *)

\* A process other than a sender can write control.db.
Unlocked == lock = None

Tick ==
  /\ clock < MaxTime
  /\ clock' = clock + 1
  /\ UNCHANGED <<windows, inbound, drafts, prep, devices, signed, nonces,
                 attempts, candidates, sender, guard, lock, posts, told,
                 accepted>>

\* The wall clock is set back (NTP step, manual change, sleep).
ClockJumpsBack ==
  /\ \E t \in 1..(clock - 1) : clock' = t
  /\ UNCHANGED <<windows, inbound, drafts, prep, devices, signed, nonces,
                 attempts, candidates, sender, guard, lock, posts, told,
                 accepted>>

\* The ingest consumer commits an inbound message to the vault.
InboundCommitted(c, ts) ==
  /\ inbound' = [inbound EXCEPT ![c] = @ \cup {ts}]
  /\ UNCHANGED <<clock, windows, drafts, prep, devices, signed, nonces, attempts,
                 candidates, sender, guard, lock, posts, told, accepted>>

\* The upsert of doctor.advance_window or of rebuild_window_from_evidence.  Each
\* writes what it read earlier, so consumers and the doctor overwrite each
\* other and the value may go back, also to 0; it is always the time of an
\* inbound message (WindowHasEvidence of module Ingest).
WindowWritten(c, ts) ==
  /\ Unlocked
  /\ ts \in inbound[c] \cup {0}
  /\ windows' = [windows EXCEPT ![c] = ts]
  /\ UNCHANGED <<clock, inbound, drafts, prep, devices, signed, nonces, attempts,
                 candidates, sender, guard, lock, posts, told, accepted>>

enroll(v) ==
  /\ Unlocked
  /\ devices[v] = "NONE"
  /\ devices' = [devices EXCEPT ![v] = "ACTIVE"]
  /\ UNCHANGED <<clock, windows, inbound, drafts, prep, signed, nonces,
                 attempts, candidates, sender, guard, lock, posts, told,
                 accepted>>

revoke(v) ==
  /\ Unlocked
  /\ devices[v] = "ACTIVE"
  /\ devices' = [devices EXCEPT ![v] = "REVOKED"]
  /\ UNCHANGED <<clock, windows, inbound, drafts, prep, signed, nonces,
                 attempts, candidates, sender, guard, lock, posts, told,
                 accepted>>

-----------------------------------------------------------------------------
(* Send policy.  P3, P5, P6 and P7 are passed as constants that satisfy them *)
(* by both callers.                                                         *)

\* Mutant: the window is still open 24 hours after the last message.
WindowOpen_inclusive(c, now) == windows[c] > 0 /\ now <= windows[c] + WINDOW

WindowOpen(c, now) == windows[c] > 0 /\ now < windows[c] + WINDOW

evaluate(bound, kind, window_open, now, expires) ==
  /\ bound
  /\ kind = "text" => window_open
  /\ now < expires

-----------------------------------------------------------------------------
(* drafts.prepare and templates.prepare_template.                           *)

Pending(c, b) ==
  {d \in Drafts : drafts[d] # None /\ drafts[d].conv = c /\ drafts[d].body = b}

FreshNonce(n) == \A d \in Drafts : drafts[d] # None => drafts[d].nonce # n

\* Policy and the SELECT for an existing draft; state stays
\* PENDING_APPROVAL for ever, so every draft of the body is "existing".
PrepareReuses(p, c, b) ==
  /\ prep[p].pc = "idle"
  /\ evaluate(TRUE, "text", WindowOpen(c, clock), clock, clock + 1)
  /\ \E d \in Pending(c, b) : prep' = [prep EXCEPT ![p] = Returned(d)]
  /\ UNCHANGED <<clock, windows, inbound, drafts, devices, signed, nonces,
                 attempts, candidates, sender, guard, lock, posts, told,
                 accepted>>

PrepareMisses(p, c, b) ==
  /\ prep[p].pc = "idle"
  /\ evaluate(TRUE, "text", WindowOpen(c, clock), clock, clock + 1)
  /\ Pending(c, b) = {}
  /\ prep' = [prep EXCEPT ![p] = [pc |-> "insert", conv |-> c, body |-> b,
                                  now |-> clock, draft |-> None]]
  /\ UNCHANGED <<clock, windows, inbound, drafts, devices, signed, nonces,
                 attempts, candidates, sender, guard, lock, posts, told,
                 accepted>>

PrepareInserts(p, d, n, x) ==
  /\ prep[p].pc = "insert"
  /\ Unlocked
  /\ drafts[d] = None
  /\ FreshNonce(n)
  /\ drafts' = [drafts EXCEPT ![d] =
       [conv |-> prep[p].conv, body |-> prep[p].body, kind |-> "text",
        bound |-> TRUE, nonce |-> n, created |-> prep[p].now,
        expires |-> IF x = 0 THEN prep[p].now + TTL ELSE x]]
  /\ prep' = [prep EXCEPT ![p] = Returned(d)]
  /\ UNCHANGED <<clock, windows, inbound, devices, signed, nonces, attempts,
                 candidates, sender, guard, lock, posts, told, accepted>>

\* The process dies, or the INSERT raises "database is locked".
PrepareAborts(p) ==
  /\ prep[p].pc = "insert"
  /\ prep' = [prep EXCEPT ![p] = Returned(None)]
  /\ UNCHANGED <<clock, windows, inbound, drafts, devices, signed, nonces,
                 attempts, candidates, sender, guard, lock, posts, told,
                 accepted>>

\* An approved template with matching parameters: no policy, no reuse, and
\* recipient_wa_id is left NULL.
prepare_template(c, d, n) ==
  /\ Unlocked
  /\ drafts[d] = None
  /\ FreshNonce(n)
  /\ drafts' = [drafts EXCEPT ![d] =
       [conv |-> c, body |-> None, kind |-> "template", bound |-> FALSE,
        nonce |-> n, created |-> clock, expires |-> clock + TTL]]
  /\ UNCHANGED <<clock, windows, inbound, prep, devices, signed, nonces,
                 attempts, candidates, sender, guard, lock, posts, told,
                 accepted>>

-----------------------------------------------------------------------------
(* The phone.                                                               *)

\* sender._canonical_fields and canonical.encode: an injective encoding.
canonical_fields(d, decision, v) ==
  [decision |-> decision, draft |-> d, device |-> v, body |-> drafts[d].body,
   kind |-> drafts[d].kind, bound |-> drafts[d].bound,
   nonce |-> drafts[d].nonce, created |-> drafts[d].created,
   expires |-> drafts[d].expires]

\* verify.verify: only the device's key signs for the device.
verify(e) == e.signature = canonical_fields(e.draft, e.decision, e.device)

\* The phone fetched the draft (sealed_draft_detail, for an ACTIVE device), the
\* human decided and the phone signed.  Drafts are frozen, so how much later it
\* signed makes no difference; how and how often the signature then travels is
\* left open, execute_write may be given any envelope that holds it.
phone_signs(d, v, decision) ==
  /\ drafts[d] # None
  /\ devices[v] = "ACTIVE"
  /\ signed' = signed \cup {canonical_fields(d, decision, v)}
  /\ UNCHANGED <<clock, windows, inbound, drafts, prep, devices, nonces, attempts,
                 candidates, sender, guard, lock, posts, told, accepted>>

-----------------------------------------------------------------------------
(* sender.execute_write.                                                    *)

\* ClockGuard.trusted_now returns; otherwise the call is REFUSED untouched.
ClockTrusted(s) == clock >= guard[s]

\* Mutant: the signature is not checked.
Authorised_unverified(e, now) ==
  /\ drafts[e.draft] # None
  /\ e.decision = "APPROVE"
  /\ devices[e.device] = "ACTIVE"
  /\ LET d == drafts[e.draft]
     IN  evaluate(d.bound, d.kind, WindowOpen(d.conv, now), now, d.expires)

\* The checks of lines 67-94, each against what is in the tables now.
Authorised(e, now) ==
  /\ drafts[e.draft] # None
  /\ e.decision = "APPROVE"
  /\ devices[e.device] = "ACTIVE"
  /\ verify(e)
  /\ LET d == drafts[e.draft]
     IN  evaluate(d.bound, d.kind, WindowOpen(d.conv, now), now, d.expires)

CheckDenies(s, e) ==
  /\ sender[s].pc = "idle"
  /\ ClockTrusted(s)
  /\ ~Authorised(e, clock)
  /\ guard' = [guard EXCEPT ![s] = clock]
  /\ UNCHANGED <<clock, windows, inbound, drafts, prep, devices, signed,
                 nonces, attempts, candidates, sender, lock, posts, told,
                 accepted>>

CheckPasses(s, e) ==
  /\ sender[s].pc = "idle"
  /\ ClockTrusted(s)
  /\ Authorised(e, clock)
  /\ guard' = [guard EXCEPT ![s] = clock]
  /\ sender' = [sender EXCEPT ![s] = [pc |-> "permit", env |-> e, now |-> clock,
                                      attempt |-> None, answer |-> "none"]]
  /\ UNCHANGED <<clock, windows, inbound, drafts, prep, devices, signed,
                 nonces, attempts, candidates, lock, posts, told, accepted>>

CanWrite(s) == lock \in {None, s}

\* Mutant: the nonce is written with INSERT OR IGNORE.
Permit_ignores_replay(s, a) ==
  /\ sender[s].pc = "permit"
  /\ CanWrite(s)
  /\ attempts[a].state = "NONE"
  /\ nonces' = [nonces EXCEPT ![sender[s].env.nonce] = sender[s].env.draft]
  /\ attempts' = [attempts EXCEPT ![a] =
       [state |-> "SUBMITTING", draft |-> sender[s].env.draft,
        nonce |-> sender[s].env.nonce, wamid |-> None,
        created |-> sender[s].now]]
  /\ sender' = [sender EXCEPT ![s] =
       [pc |-> "post", env |-> sender[s].env, now |-> sender[s].now,
        attempt |-> a, answer |-> "none"]]
  /\ lock' = None
  /\ UNCHANGED <<clock, windows, inbound, drafts, prep, devices, signed,
                 candidates, guard, posts, told, accepted>>

\* Permission to transmit: consume the nonce, open the attempt, COMMIT.
Permit(s, a) ==
  /\ sender[s].pc = "permit"
  /\ CanWrite(s)
  /\ nonces[sender[s].env.nonce] = None
  /\ attempts[a].state = "NONE"
  /\ nonces' = [nonces EXCEPT ![sender[s].env.nonce] = sender[s].env.draft]
  /\ attempts' = [attempts EXCEPT ![a] =
       [state |-> "SUBMITTING", draft |-> sender[s].env.draft,
        nonce |-> sender[s].env.nonce, wamid |-> None,
        created |-> sender[s].now]]
  /\ sender' = [sender EXCEPT ![s] =
       [pc |-> "post", env |-> sender[s].env, now |-> sender[s].now,
        attempt |-> a, answer |-> "none"]]
  /\ lock' = None
  /\ UNCHANGED <<clock, windows, inbound, drafts, prep, devices, signed,
                 candidates, guard, posts, told, accepted>>

\* APPROVAL_ALREADY_CONSUMED: the INSERT failed inside a transaction that
\* nobody ends, so the connection keeps the write lock.
PermitReplayed(s) ==
  /\ sender[s].pc = "permit"
  /\ CanWrite(s)
  /\ nonces[sender[s].env.nonce] # None
  /\ sender' = [sender EXCEPT ![s] = Idle]
  /\ lock' = s
  /\ UNCHANGED <<clock, windows, inbound, drafts, prep, devices, signed,
                 nonces, attempts, candidates, guard, posts, told, accepted>>

\* "database is locked" leaves execute_write as an exception.
SendRaises(s) ==
  /\ sender[s].pc \in {"permit", "finish"}
  /\ ~CanWrite(s)
  /\ sender' = [sender EXCEPT ![s] = Idle]
  /\ UNCHANGED <<clock, windows, inbound, drafts, prep, devices, signed,
                 nonces, attempts, candidates, guard, lock, posts, told,
                 accepted>>

\* Mutant: a timeout is retried at once.
Post_retries_timeout(s, answer) ==
  /\ sender[s].pc = "post"
  /\ posts[sender[s].env.nonce] < 2
  /\ posts' = [posts EXCEPT ![sender[s].env.nonce] = @ + 1]
  /\ told' = [told EXCEPT ![sender[s].env.nonce] = answer]
  /\ accepted' = IF answer \in {"SUBMITTED", "TIMEOUT"}
                 THEN accepted \cup {sender[s].attempt}
                 ELSE accepted
  /\ sender' = IF answer = "TIMEOUT" THEN sender
               ELSE [sender EXCEPT ![s] =
                      [pc |-> "finish", env |-> sender[s].env,
                       now |-> sender[s].now, attempt |-> sender[s].attempt,
                       answer |-> answer]]
  /\ UNCHANGED <<clock, windows, inbound, drafts, prep, devices, signed,
                 nonces, attempts, candidates, guard, lock>>

\* provider.send_text: accepted and answered, never sent, or an error answer or
\* a timeout after which nobody knows.
Post(s, answer) ==
  /\ sender[s].pc = "post"
  /\ posts' = [posts EXCEPT ![sender[s].env.nonce] = @ + 1]
  /\ told' = [told EXCEPT ![sender[s].env.nonce] = answer]
  /\ accepted' \in {accepted, accepted \cup {sender[s].attempt}}
  /\ answer = "SUBMITTED" => accepted' = accepted \cup {sender[s].attempt}
  /\ answer = "CONNECT_FAILED" => accepted' = accepted
  /\ sender' = [sender EXCEPT ![s] =
       [pc |-> "finish", env |-> sender[s].env, now |-> sender[s].now,
        attempt |-> sender[s].attempt, answer |-> answer]]
  /\ UNCHANGED <<clock, windows, inbound, drafts, prep, devices, signed, nonces,
                 attempts, candidates, guard, lock>>

\* Mutant: the provider's answer is stored as it came.
Finish_raw_answer(s) ==
  /\ sender[s].pc = "finish"
  /\ CanWrite(s)
  /\ attempts' = [attempts EXCEPT ![sender[s].attempt] =
       Updated(@, sender[s].answer,
               IF sender[s].answer = "SUBMITTED" THEN sender[s].attempt
               ELSE @.wamid)]
  /\ sender' = [sender EXCEPT ![s] = Idle]
  /\ lock' = None
  /\ UNCHANGED <<clock, windows, inbound, drafts, prep, devices, signed,
                 nonces, candidates, guard, posts, told, accepted>>

\* Mutant: a failed send gives the approval back.
Finish_releases_nonce(s) ==
  /\ sender[s].pc = "finish"
  /\ CanWrite(s)
  /\ LET a == sender[s].attempt
         answer == sender[s].answer
     IN  /\ attempts' = [attempts EXCEPT ![a] = Updated(@,
              Outcome(answer), IF answer = "SUBMITTED" THEN a ELSE @.wamid)]
         /\ nonces' = IF Outcome(answer) = "FAILED"
                      THEN [nonces EXCEPT ![sender[s].env.nonce] = None]
                      ELSE nonces
  /\ sender' = [sender EXCEPT ![s] = Idle]
  /\ lock' = None
  /\ UNCHANGED <<clock, windows, inbound, drafts, prep, devices, signed,
                 candidates, guard, posts, told, accepted>>

\* _finish: an UPDATE by id, whatever the row says by now.
Finish(s) ==
  /\ sender[s].pc = "finish"
  /\ CanWrite(s)
  /\ LET a == sender[s].attempt
         answer == sender[s].answer
     IN  attempts' = [attempts EXCEPT ![a] = Updated(attempts[a],
           Outcome(answer), IF answer = "SUBMITTED" THEN a ELSE attempts[a].wamid)]
  /\ sender' = [sender EXCEPT ![s] = Idle]
  /\ lock' = None
  /\ UNCHANGED <<clock, windows, inbound, drafts, prep, devices, signed,
                 nonces, candidates, guard, posts, told, accepted>>

\* The process dies: its connection closes, its ClockGuard is lost.
SenderCrashes(s) ==
  /\ sender' = [sender EXCEPT ![s] = Idle]
  /\ guard' = [guard EXCEPT ![s] = 0]
  /\ lock' = IF lock = s THEN None ELSE lock
  /\ UNCHANGED <<clock, windows, inbound, drafts, prep, devices, signed,
                 nonces, attempts, candidates, posts, told, accepted>>

-----------------------------------------------------------------------------
(* Start-up recovery and reconciliation, in other processes.                *)

\* Mutant: recovery removes the attempts it finds.
recover_startup_deletes ==
  /\ Unlocked
  /\ attempts' = [a \in Attempts |->
       IF attempts[a].state = "SUBMITTING"
       THEN NoAttempt
       ELSE attempts[a]]
  /\ UNCHANGED <<clock, windows, inbound, drafts, prep, devices, signed,
                 nonces, candidates, sender, guard, lock, posts, told,
                 accepted>>

\* Mutant: recovery takes a stranded attempt for one never sent.
recover_startup_fails ==
  /\ Unlocked
  /\ attempts' = [a \in Attempts |->
       IF attempts[a].state = "SUBMITTING"
       THEN Updated(attempts[a], "FAILED", attempts[a].wamid)
       ELSE attempts[a]]
  /\ UNCHANGED <<clock, windows, inbound, drafts, prep, devices, signed,
                 nonces, candidates, sender, guard, lock, posts, told,
                 accepted>>

\* Mutant: recovery looks for the wrong state.
recover_startup_misses ==
  /\ Unlocked
  /\ attempts' = [a \in Attempts |->
       IF attempts[a].state = "INDETERMINATE"
       THEN Updated(attempts[a], "INDETERMINATE", attempts[a].wamid)
       ELSE attempts[a]]
  /\ UNCHANGED <<clock, windows, inbound, drafts, prep, devices, signed,
                 nonces, candidates, sender, guard, lock, posts, told,
                 accepted>>

\* Run by every start of the ingest consumer and of the dispatcher.
recover_startup ==
  /\ Unlocked
  /\ attempts' = [a \in Attempts |->
       IF attempts[a].state = "SUBMITTING"
       THEN Updated(attempts[a], "INDETERMINATE", attempts[a].wamid)
       ELSE attempts[a]]
  /\ UNCHANGED <<clock, windows, inbound, drafts, prep, devices, signed,
                 nonces, candidates, sender, guard, lock, posts, told,
                 accepted>>

\* A status webhook for the message of attempt a that names the attempt.
StatusResolves(a) ==
  /\ TRUE \in Callbacks
  /\ Unlocked
  /\ a \in accepted
  /\ attempts[a].state = "INDETERMINATE"
  /\ attempts' = [attempts EXCEPT ![a] = Updated(attempts[a], "SUBMITTED", a)]
  /\ UNCHANGED <<clock, windows, inbound, drafts, prep, devices, signed,
                 nonces, candidates, sender, guard, lock, posts, told,
                 accepted>>

\* A status webhook that resolves nothing and whose wamid no attempt has.
\* (A known wamid only touches updated_at_ms.)
StatusUnmatched(a, k, callback) ==
  /\ Unlocked
  /\ a \in accepted
  /\ ~(callback /\ attempts[a].state = "INDETERMINATE")
  /\ \A b \in Attempts : attempts[b].wamid # a
  /\ candidates[k] = None
  /\ candidates' = [candidates EXCEPT ![k] =
                      [wamid |-> a, state |-> "POSSIBLE_MATCH"]]
  /\ UNCHANGED <<clock, windows, inbound, drafts, prep, devices, signed,
                 nonces, attempts, sender, guard, lock, posts, told,
                 accepted>>

\* reconcile.resolve by the human; the attempt is left as it is.
resolve(k, state) ==
  /\ Unlocked
  /\ candidates[k] # None
  /\ candidates' = [candidates EXCEPT ![k] =
                      [wamid |-> candidates[k].wamid, state |-> state]]
  /\ UNCHANGED <<clock, windows, inbound, drafts, prep, devices, signed,
                 nonces, attempts, sender, guard, lock, posts, told,
                 accepted>>

-----------------------------------------------------------------------------
PrepareStep(p) ==
  \/ \E c \in Convs, b \in Bodies : PrepareReuses(p, c, b)
  \/ \E c \in Convs, b \in Bodies : PrepareMisses(p, c, b)
  \/ \E d \in Drafts, n \in Nonces, x \in ExpiryArgs : PrepareInserts(p, d, n, x)
  \/ PrepareAborts(p)

\* The rest of an execute_write call that has passed its checks.
SendContinues(s) ==
  \/ \E a \in Attempts : Permit(s, a)
  \/ PermitReplayed(s)
  \/ SendRaises(s)
  \/ \E answer \in Answer : Post(s, answer)
  \/ Finish(s)

\* The envelopes execute_write may be given: any fields, any nonce, and a
\* signature some phone made, or one that verifies nothing.
Envelopes ==
  [draft: Drafts, device: Devices, decision: {"APPROVE", "REJECT"},
   nonce: Nonces, signature: signed \cup {None}]

SenderStep(s) ==
  \/ \E e \in Envelopes : CheckDenies(s, e)
  \/ \E e \in Envelopes : CheckPasses(s, e)
  \/ SendContinues(s)
  \/ SenderCrashes(s)

ControlStep ==
  \/ \E c \in Convs, ts \in InboundTimes : InboundCommitted(c, ts)
  \/ \E c \in Convs, ts \in InboundTimes \cup {0} : WindowWritten(c, ts)
  \/ \E v \in Devices : enroll(v)
  \/ \E v \in Devices : revoke(v)
  \/ \E c \in Convs, d \in Drafts, n \in Nonces : prepare_template(c, d, n)
  \/ \E d \in Drafts, v \in Devices, decision \in {"APPROVE", "REJECT"} :
        phone_signs(d, v, decision)
  \/ recover_startup
  \/ \E a \in Attempts : StatusResolves(a)
  \/ \E a \in Attempts, k \in Cands, callback \in Callbacks :
        StatusUnmatched(a, k, callback)
  \/ \E k \in Cands, state \in {"RESOLVED", "DISMISSED"} : resolve(k, state)

Next ==
  \/ Tick
  \/ ClockJumpsBack
  \/ \E p \in Preparers : PrepareStep(p)
  \/ \E s \in Senders : SenderStep(s)
  \/ ControlStep

Spec == Init /\ [][Next]_vars

\* A call that passed its checks runs on unless its process dies.  Nothing else
\* is guaranteed: the daemons that run recover_startup do so once per start,
\* exit 0 and are not started again until the next login.
FairSpec == Spec /\ \A s \in Senders : WF_vars(SendContinues(s))

-----------------------------------------------------------------------------
(* Properties.                                                              *)

Exists(a) == attempts[a].state # "NONE"

Approves(p, d) ==
  p.draft = d /\ p = canonical_fields(d, "APPROVE", p.device)

\* One consumed nonce buys at most one provider call: however often an envelope
\* is replayed, by whichever sender, across crashes and recoveries,
\* execute_write calls provider.send_text at most once under it.
OnePostPerNonce == \A n \in Nonces : posts[n] <= 1

\* Nothing is posted without the human: a provider call is made under a nonce
\* that is durably consumed by its draft, and a phone that was enrolled has
\* signed APPROVE over exactly the fields of that draft.
PostIsAuthorised ==
  \A n \in Nonces : posts[n] > 0 =>
    /\ nonces[n] # None
    /\ drafts[nonces[n]] # None
    /\ \E p \in signed : Approves(p, nonces[n]) /\ devices[p.device] # "NONE"

\* The permission-to-transmit transaction is all or nothing: a consumed nonce
\* has exactly one send attempt, for the draft that consumed it, so a crash
\* never burns an approval without a record of what became of it.
NonceHasOneAttempt ==
  \A n \in Nonces :
    /\ nonces[n] # None =>
         \E a \in Attempts : /\ Exists(a)
                             /\ attempts[a].nonce = n
                             /\ attempts[a].draft = nonces[n]
    /\ \A a, b \in Attempts :
         (attempts[a].nonce = n /\ attempts[b].nonce = n) => a = b

\* The outcome on record is what is known: SUBMITTED only when Meta accepted the
\* message, FAILED only when the provider answered that it failed, never for a
\* timeout, a crash or an answer still out, in every interleaving of the late
\* answer with recovery and status webhooks.
RecordIsTruthful ==
  \A a \in Attempts :
    /\ attempts[a].state = "SUBMITTED" => a \in accepted /\ attempts[a].wamid = a
    /\ attempts[a].state = "FAILED" =>
         told[attempts[a].nonce] \in {"CONNECT_FAILED", "ERROR"}

\* A permission was granted for a bound recipient, at a trusted time before the
\* draft's expiry and, for a text, less than 24 hours after a message that the
\* conversation really received, whatever was written over the window since.
PermittedByPolicy ==
  \A a \in Attempts : Exists(a) =>
    LET d == drafts[attempts[a].draft]
    IN  /\ d # None
        /\ d.bound
        /\ attempts[a].created < d.expires
        /\ d.kind = "text" =>
             \E ts \in inbound[d.conv] : attempts[a].created < ts + WINDOW

\* INDETERMINATE and FAILED never release the approval: a consumed nonce stays
\* consumed by its draft, and an attempt never changes draft nor disappears.
NonceNeverReleased ==
  [][/\ \A n \in Nonces : nonces[n] # None => nonces'[n] = nonces[n]
     /\ \A a \in Attempts : Exists(a) =>
          /\ attempts'[a].state # "NONE"
          /\ attempts'[a].draft = attempts[a].draft]_vars

\* If the write lock is free from some time on, and if somebody starts a daemon
\* whenever there is something to recover, every SUBMITTING attempt is settled:
\* by its sender or, after a crash, by start-up recovery.  Both premises are the
\* operator's; the code guarantees neither.
AttemptSettlesOnceRecovered ==
  (<>[]Unlocked /\ WF_vars(recover_startup)) =>
    \A a \in Attempts :
      attempts[a].state = "SUBMITTING" ~> attempts[a].state # "SUBMITTING"

-----------------------------------------------------------------------------
(* What the documentation says and the code does not do.                    *)

\* docs/ARCHITECTURE.md: "verified inside the same transaction that consumes
\* the nonce": the device is ACTIVE when its approval is consumed.
DeviceActiveWhenPermitted ==
  [][\A s \in Senders :
      (sender[s].pc = "permit" /\ sender'[s].pc = "post")
        => devices[sender[s].env.device] = "ACTIVE"]_vars

\* The design: a "single-use signature", "approval_nonces UNIQUE(nonce) |
\* single-use approvals": what a human approved is posted once.  The nonce that
\* is consumed is the envelope's, and nothing compares it with the draft's.
ApprovalIsSingleUse ==
  \A m, n \in Nonces :
    (posts[m] > 0 /\ posts[n] > 0 /\ nonces[m] = nonces[n]) => m = n

\* The design: FAILED "never reached Meta", and after a 5xx "conservatively
\* INDETERMINATE": a message on record as FAILED was not accepted.
FailedMeansNotAccepted ==
  \A a \in Attempts : attempts[a].state = "FAILED" => a \notin accepted
=============================================================================
