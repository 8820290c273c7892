-------------------------------- MODULE Ingest --------------------------------
(***************************************************************************)
(* The pull consumer: drain_once leases sealed webhooks from the edge queue, *)
(* decrypts them, applies each atomic event in a transaction of vault.db,    *)
(* then advances the 24-hour window in control.db and the search index, and  *)
(* acknowledges at the end of the batch.  Poison goes to the local DLQ, a    *)
(* systemic decrypt failure trips the persisted circuit breaker.             *)
(*                                                                         *)
(* One action is one transaction, one autocommit read or one queue call; a   *)
(* consumer may die between any two, and a lease may expire under it.        *)
(***************************************************************************)
EXTENDS Naturals, Sequences, FiniteSets

CONSTANTS
  Msgs,        \* queue messages
  Events,      \* atomic events; an event stands for its semantic_event_key
  Keys,        \* recipient key ids
  Convs,       \* conversations
  Consumers,   \* processes that run drain_once
  children,    \* message -> sequence of events its plaintext splits into
  shape,       \* message -> "sealed", "malformed" or "tampered"
  sealedTo,    \* message -> key id in its header
  family,      \* event -> "INBOUND", "ECHO" or "OTHER"
  conv,        \* event -> conversation
  ts,          \* event -> provider timestamp
  Refused,     \* events that json.loads, to_rows or a constraint refuses
  Rebuilt,     \* conversations rebuild_window_from_evidence is run for
  StoredKeys,  \* key ids whose private key in the Keychain is the right one
  MaxLease,    \* max_lease of drain_once
  MaxFaults,   \* bound on crashes, transient errors and early lease expiries
  None

ASSUME IngestAssumption ==
  /\ children \in [Msgs -> Seq(Events)]
  /\ shape \in [Msgs -> {"sealed", "malformed", "tampered"}]
  /\ sealedTo \in [Msgs -> Keys]
  /\ family \in [Events -> {"INBOUND", "ECHO", "OTHER"}]
  /\ conv \in [Events -> Convs]
  /\ ts \in [Events -> Nat]
  /\ Refused \subseteq Events
  /\ Rebuilt \subseteq Convs
  /\ StoredKeys \subseteq Keys
  /\ MaxLease \in Nat \ {0}
  /\ MaxFaults \in Nat
  /\ None \notin Msgs /\ None \notin Convs
  /\ "pending" \notin Consumers /\ "acked" \notin Consumers

VARIABLES
  queue,     \* per message: "pending", "acked" or the consumer that leases it
  locked,    \* key ids the Keychain does not hand out at the moment
  retired,   \* key ids for which keys.retire returned
  ledger,    \* ingest_events
  applied,   \* domain rows written for each event
  windows,   \* conversation_windows.last_inbound_ms
  indexed,   \* events whose message is in the search index
  dlq,       \* ingest_dlq rows: messages quarantined
  circuit,   \* ingest_state.circuit_state
  drain,     \* the drain_once call each consumer is in
  doctor,    \* a rebuild_window_from_evidence call between its two databases
  faults     \* faults injected so far

vars == <<queue, locked, retired, ledger, applied, windows, indexed, dlq,
          circuit, drain, doctor, faults>>

durable == <<locked, retired, circuit, doctor>>

-----------------------------------------------------------------------------
Idle == [pc |-> "idle", batch |-> {}, cur |-> None, i |-> 0, seen |-> 0,
         acks |-> {}, health |-> {}]

\* pc: between messages, before an event's transaction, before the SELECT of
\* advance_window, before its upsert (seen is what it read), before indexing.
Drain == [pc: {"idle", "batch", "apply", "read", "write", "index"},
          batch: SUBSET Msgs, cur: Msgs \cup {None}, i: Nat, seen: Nat,
          acks: SUBSET Msgs, health: SUBSET Keys]

TypeOK ==
  /\ queue \in [Msgs -> {"pending", "acked"} \cup Consumers]
  /\ locked \subseteq Keys
  /\ retired \subseteq Keys
  /\ ledger \subseteq Events
  /\ applied \in [Events -> Nat]
  /\ windows \in [Convs -> Nat]
  /\ indexed \subseteq Events
  /\ dlq \subseteq Msgs
  /\ circuit \in {"CLOSED", "OPEN"}
  /\ drain \in [Consumers -> Drain]
  /\ doctor \in {None} \cup [conv: Convs, evidence: Nat]
  /\ faults \in Nat

Init ==
  /\ queue = [m \in Msgs |-> "pending"]
  /\ locked = {}
  /\ retired = {}
  /\ ledger = {}
  /\ applied = [e \in Events |-> 0]
  /\ windows = [v \in Convs |-> 0]
  /\ indexed = {}
  /\ dlq = {}
  /\ circuit = "CLOSED"
  /\ drain = [c \in Consumers |-> Idle]
  /\ doctor = None
  /\ faults = 0

-----------------------------------------------------------------------------
(* The queue.                                                               *)

\* Mutant: a late nack puts back a message somebody else has acknowledged.
Settled_ignores_lease(c, ms, verdict) ==
  [m \in Msgs |-> IF m \in ms THEN verdict ELSE queue[m]]

\* A nack or an ack of a lease that has expired meanwhile does nothing.
Settled(c, ms, verdict) ==
  [m \in Msgs |-> IF m \in ms /\ queue[m] = c THEN verdict ELSE queue[m]]

Holds(c, m) == m \in drain[c].batch \cup drain[c].acks \cup {drain[c].cur}

Fault ==
  /\ faults < MaxFaults
  /\ faults' = faults + 1

NoFault == faults' = faults

\* An abandoned lease runs out; one that runs out under a consumer at work is
\* a fault (the visibility timeout is meant to exceed the processing time).
LeaseExpires(m) ==
  /\ queue[m] \in Consumers
  /\ IF Holds(queue[m], m) THEN Fault ELSE NoFault
  /\ queue' = [queue EXCEPT ![m] = "pending"]
  /\ UNCHANGED <<locked, retired, ledger, applied, windows, indexed, dlq,
                 circuit, drain, doctor>>

-----------------------------------------------------------------------------
(* drain_once.                                                              *)

\* The breaker is read, then up to max_lease messages are leased; run() passes
\* an empty key_health.
Lease(c, ms) ==
  /\ drain[c].pc = "idle"
  /\ circuit = "CLOSED"
  /\ ms # {}
  /\ Cardinality(ms) <= MaxLease
  /\ \A m \in ms : queue[m] = "pending"
  /\ queue' = [m \in Msgs |-> IF m \in ms THEN c ELSE queue[m]]
  /\ drain' = [drain EXCEPT ![c] =
       [pc |-> "batch", batch |-> ms, cur |-> None, i |-> 0, seen |-> 0,
        acks |-> {}, health |-> {}]]
  /\ UNCHANGED <<ledger, applied, windows, indexed, dlq, durable, faults>>

\* The next message of the batch is m.
Takes(c, m) == drain[c].pc = "batch" /\ m \in drain[c].batch

\* The drain goes on with the rest of the batch.
Between(c, batch, acks, health) ==
  [drain EXCEPT ![c] =
    [pc |-> "batch", batch |-> batch, cur |-> None, i |-> 0, seen |-> 0,
     acks |-> acks, health |-> health]]

\* sealed.open_sealed: the header is parsed, the key looked up, the tag checked.
KeyUnavailable(m) == shape[m] # "malformed" /\ sealedTo[m] \in locked

Opens(m) ==
  /\ shape[m] = "sealed"
  /\ sealedTo[m] \in StoredKeys
  /\ sealedTo[m] \notin locked

AeadAuthFailed(m) ==
  /\ shape[m] # "malformed"
  /\ sealedTo[m] \notin locked
  /\ ~Opens(m)

\* KeyUnavailable is transient: nack.
DecryptUnavailable(c, m) ==
  /\ Takes(c, m)
  /\ KeyUnavailable(m)
  /\ queue' = Settled(c, {m}, "pending")
  /\ drain' = Between(c, drain[c].batch \ {m}, drain[c].acks, drain[c].health)
  /\ UNCHANGED <<ledger, applied, windows, indexed, dlq, durable, faults>>

\* Mutant: every AEAD failure is isolated poison.
Poison_without_health(c, m) == shape[m] = "malformed" \/ AeadAuthFailed(m)

\* classify_decrypt_error: malformed is poison; an AEAD failure is isolated
\* only on a key that has opened something in this drain.
Poison(c, m) ==
  \/ shape[m] = "malformed"
  \/ AeadAuthFailed(m) /\ sealedTo[m] \in drain[c].health

\* The DLQ row is committed, then the message may be acknowledged.
quarantine(c, m) ==
  /\ Takes(c, m)
  /\ Poison(c, m)
  /\ dlq' = dlq \cup {m}
  /\ drain' = Between(c, drain[c].batch \ {m}, drain[c].acks \cup {m},
                      drain[c].health)
  /\ UNCHANGED <<queue, ledger, applied, windows, indexed, durable, faults>>

\* A systemic failure trips the breaker and leaves the loop: the rest of the
\* batch, this message included, stays leased.
trip(c, m) ==
  /\ Takes(c, m)
  /\ AeadAuthFailed(m)
  /\ ~Poison(c, m)
  /\ circuit' = "OPEN"
  /\ drain' = Between(c, {}, drain[c].acks, drain[c].health)
  /\ UNCHANGED <<queue, locked, retired, ledger, applied, windows, indexed, dlq,
                 doctor, faults>>

Decrypt(c, m) ==
  /\ Takes(c, m)
  /\ Opens(m)
  /\ drain' = [drain EXCEPT ![c] =
       [pc |-> "apply", batch |-> drain[c].batch \ {m}, cur |-> m, i |-> 1,
        seen |-> 0, acks |-> drain[c].acks,
        health |-> drain[c].health \cup {sealedTo[m]}]]
  /\ UNCHANGED <<queue, ledger, applied, windows, indexed, dlq, durable, faults>>

-----------------------------------------------------------------------------
(* _process_payload.                                                        *)

\* c is about to apply event e, the next child of its message.
Applies(c, e) ==
  /\ drain[c].pc = "apply"
  /\ drain[c].i \in DOMAIN children[drain[c].cur]
  /\ children[drain[c].cur][drain[c].i] = e

\* The event c has just committed.
Event(c) == children[drain[c].cur][drain[c].i]

At(c, pc, i, seen) ==
  [drain EXCEPT ![c] =
    [pc |-> pc, batch |-> drain[c].batch, cur |-> drain[c].cur, i |-> i,
     seen |-> seen, acks |-> drain[c].acks, health |-> drain[c].health]]

\* Mutant: an echo of our own message advances the window too.
apply_rows_projects_echo(c, e) ==
  /\ Applies(c, e)
  /\ e \notin ledger
  /\ e \notin Refused
  /\ ledger' = ledger \cup {e}
  /\ applied' = [applied EXCEPT ![e] = @ + 1]
  /\ drain' = IF family[e] \in {"INBOUND", "ECHO"}
              THEN At(c, "read", drain[c].i, 0)
              ELSE At(c, "apply", drain[c].i + 1, 0)
  /\ UNCHANGED <<queue, windows, indexed, dlq, durable, faults>>

\* Ledger row and domain rows in one transaction; the projection follows for
\* a live inbound message only.
apply_rows(c, e) ==
  /\ Applies(c, e)
  /\ e \notin ledger
  /\ e \notin Refused
  /\ ledger' = ledger \cup {e}
  /\ applied' = [applied EXCEPT ![e] = @ + 1]
  /\ drain' = IF family[e] = "INBOUND"
              THEN At(c, "read", drain[c].i, 0)
              ELSE At(c, "apply", drain[c].i + 1, 0)
  /\ UNCHANGED <<queue, windows, indexed, dlq, durable, faults>>

\* Mutant: a duplicate falls through to the domain rows.
Duplicate_reapplies(c, e) ==
  /\ Applies(c, e)
  /\ e \in ledger
  /\ applied' = [applied EXCEPT ![e] = @ + 1]
  /\ drain' = At(c, "apply", drain[c].i + 1, 0)
  /\ UNCHANGED <<queue, ledger, windows, indexed, dlq, durable, faults>>

\* INSERT OR IGNORE found the event: deduped as seen, nothing else is done.
Duplicate(c, e) ==
  /\ Applies(c, e)
  /\ e \in ledger
  /\ drain' = At(c, "apply", drain[c].i + 1, 0)
  /\ UNCHANGED <<queue, ledger, applied, windows, indexed, dlq, durable, faults>>

\* Mutant: a message that raised is acknowledged with the others.
ProcessRaises_acks(c) ==
  /\ \/ drain[c].pc \in {"read", "write"}
     \/ \E e \in Events : Applies(c, e)
  /\ IF \E e \in Refused \ ledger : Applies(c, e) THEN NoFault ELSE Fault
  /\ drain' = Between(c, drain[c].batch, drain[c].acks \cup {drain[c].cur},
                      drain[c].health)
  /\ UNCHANGED <<queue, ledger, applied, windows, indexed, dlq, durable>>

\* Mutant: a message that raised ends the batch.
ProcessRaises_breaks(c) ==
  /\ \/ drain[c].pc \in {"read", "write"}
     \/ \E e \in Events : Applies(c, e)
  /\ IF \E e \in Refused \ ledger : Applies(c, e) THEN NoFault ELSE Fault
  /\ queue' = Settled(c, {drain[c].cur}, "pending")
  /\ drain' = Between(c, {}, drain[c].acks, drain[c].health)
  /\ UNCHANGED <<ledger, applied, windows, indexed, dlq, durable>>

\* Any exception: the transaction is rolled back and the message nacked.  A
\* refused event raises every time, anything else by a passing fault
\* (vault.db or control.db locked, disk full).
ProcessRaises(c) ==
  /\ \/ drain[c].pc \in {"read", "write"}
     \/ \E e \in Events : Applies(c, e)
  /\ IF \E e \in Refused \ ledger : Applies(c, e) THEN NoFault ELSE Fault
  /\ queue' = Settled(c, {drain[c].cur}, "pending")
  /\ drain' = Between(c, drain[c].batch, drain[c].acks, drain[c].health)
  /\ UNCHANGED <<ledger, applied, windows, indexed, dlq, durable>>

\* advance_window: SELECT, then an upsert of the larger value.
WindowReads(c) ==
  /\ drain[c].pc = "read"
  /\ drain' = At(c, "write", drain[c].i, windows[conv[Event(c)]])
  /\ UNCHANGED <<queue, ledger, applied, windows, indexed, dlq, durable, faults>>

advance_window(c) ==
  /\ drain[c].pc = "write"
  /\ windows' = [windows EXCEPT ![conv[Event(c)]] =
       IF drain[c].seen > ts[Event(c)] THEN drain[c].seen ELSE ts[Event(c)]]
  /\ drain' = At(c, "index", drain[c].i, 0)
  /\ UNCHANGED <<queue, ledger, applied, indexed, dlq, durable, faults>>

index_message(c) ==
  /\ drain[c].pc = "index"
  /\ indexed' = indexed \cup {Event(c)}
  /\ drain' = At(c, "apply", drain[c].i + 1, 0)
  /\ UNCHANGED <<queue, ledger, applied, windows, dlq, durable, faults>>

\* An indexing error is swallowed: it must never block an ACK.
IndexSwallowed(c) ==
  /\ drain[c].pc = "index"
  /\ Fault
  /\ drain' = At(c, "apply", drain[c].i + 1, 0)
  /\ UNCHANGED <<queue, ledger, applied, windows, indexed, dlq, durable>>

\* All children are durable: the message joins to_ack.
Processed(c) ==
  /\ drain[c].pc = "apply"
  /\ drain[c].i \notin DOMAIN children[drain[c].cur]
  /\ drain' = Between(c, drain[c].batch, drain[c].acks \cup {drain[c].cur},
                      drain[c].health)
  /\ UNCHANGED <<queue, ledger, applied, windows, indexed, dlq, durable, faults>>

\* queue.ack(to_ack) once the loop is over.
Ack(c) ==
  /\ drain[c].pc = "batch"
  /\ drain[c].batch = {}
  /\ queue' = Settled(c, drain[c].acks, "acked")
  /\ drain' = [drain EXCEPT ![c] = Idle]
  /\ UNCHANGED <<ledger, applied, windows, indexed, dlq, durable, faults>>

\* The process dies, or an error in quarantine, trip, nack or ack leaves
\* drain_once: its leases stay until they expire.
Crash(c) ==
  /\ drain[c].pc # "idle"
  /\ Fault
  /\ drain' = [drain EXCEPT ![c] = Idle]
  /\ UNCHANGED <<queue, ledger, applied, windows, indexed, dlq, durable>>

-----------------------------------------------------------------------------
(* The operator: Keychain, breaker, key retirement, doctor.                 *)

KeychainLocks(k) ==
  /\ k \notin locked
  /\ Fault
  /\ locked' = locked \cup {k}
  /\ UNCHANGED <<queue, retired, ledger, applied, windows, indexed, dlq, circuit,
                 drain, doctor>>

KeychainUnlocks(k) ==
  /\ k \in locked
  /\ locked' = locked \ {k}
  /\ UNCHANGED <<queue, retired, ledger, applied, windows, indexed, dlq, circuit,
                 drain, doctor, faults>>

reset ==
  /\ circuit = "OPEN"
  /\ circuit' = "CLOSED"
  /\ UNCHANGED <<queue, locked, retired, ledger, applied, windows, indexed, dlq,
                 drain, doctor, faults>>

\* edge_clear: the operator saw the edge drained of the key.
EdgeClear(k) == \A m \in Msgs : sealedTo[m] = k => queue[m] = "acked"

\* A malformed envelope's row has no recipient_key_id.
references_key(k) == \E m \in dlq : shape[m] # "malformed" /\ sealedTo[m] = k

\* Mutant: the local DLQ is not asked.
retire_ignores_dlq(k) ==
  /\ k \notin retired
  /\ EdgeClear(k)
  /\ retired' = retired \cup {k}
  /\ UNCHANGED <<queue, locked, ledger, applied, windows, indexed, dlq, circuit,
                 drain, doctor, faults>>

retire(k) ==
  /\ k \notin retired
  /\ EdgeClear(k)
  /\ ~references_key(k)
  /\ retired' = retired \cup {k}
  /\ UNCHANGED <<queue, locked, ledger, applied, windows, indexed, dlq, circuit,
                 drain, doctor, faults>>

\* Timestamps of the window-eligible inbound messages of a conversation.
Evidence(v) ==
  {ts[e] : e \in {x \in Events : /\ applied[x] > 0
                                 /\ family[x] = "INBOUND"
                                 /\ conv[x] = v}}

\* Mutant: MAX without COALESCE is NULL for a conversation without evidence.
DoctorReads_null(v) ==
  /\ doctor = None
  /\ doctor' = IF Evidence(v) = {} THEN [conv |-> v, evidence |-> None]
               ELSE [conv |-> v, evidence |-> CHOOSE t \in Evidence(v) :
                                  \A u \in Evidence(v) : u <= t]
  /\ UNCHANGED <<queue, locked, retired, ledger, applied, windows, indexed, dlq,
                 circuit, drain, faults>>

\* rebuild_window_from_evidence reads vault.db first ...
DoctorReads(v) ==
  /\ doctor = None
  /\ \E t \in Evidence(v) \cup {0} :
       /\ \A u \in Evidence(v) : u <= t
       /\ doctor' = [conv |-> v, evidence |-> t]
  /\ UNCHANGED <<queue, locked, retired, ledger, applied, windows, indexed, dlq,
                 circuit, drain, faults>>

\* ... then control.db, and writes what it found if that differs.
DoctorRepairs ==
  /\ doctor # None
  /\ windows' = [windows EXCEPT ![doctor.conv] = doctor.evidence]
  /\ doctor' = None
  /\ UNCHANGED <<queue, locked, retired, ledger, applied, indexed, dlq, circuit,
                 drain, faults>>

-----------------------------------------------------------------------------
ProcessStep(c) ==
  \/ \E e \in Events : apply_rows(c, e)
  \/ \E e \in Events : Duplicate(c, e)
  \/ ProcessRaises(c)
  \/ WindowReads(c)
  \/ advance_window(c)
  \/ index_message(c)
  \/ IndexSwallowed(c)
  \/ Processed(c)

DecryptStep(c) ==
  \/ \E m \in Msgs : DecryptUnavailable(c, m)
  \/ \E m \in Msgs : quarantine(c, m)
  \/ \E m \in Msgs : trip(c, m)
  \/ \E m \in Msgs : Decrypt(c, m)

DrainStep(c) == DecryptStep(c) \/ ProcessStep(c) \/ Ack(c)

OperatorStep ==
  \/ \E k \in Keys : KeychainLocks(k)
  \/ \E k \in Keys : KeychainUnlocks(k)
  \/ reset
  \/ \E k \in Keys : retire(k)
  \/ \E v \in Rebuilt : DoctorReads(v)
  \/ DoctorRepairs

Next ==
  \/ \E c \in Consumers, ms \in SUBSET Msgs : Lease(c, ms)
  \/ \E c \in Consumers : DrainStep(c)
  \/ \E c \in Consumers : Crash(c)
  \/ \E m \in Msgs : LeaseExpires(m)
  \/ OperatorStep

Spec == Init /\ [][Next]_vars

\* A consumer leases m.
LeasesMsg(c, m) == \E ms \in SUBSET Msgs : m \in ms /\ Lease(c, ms)

\* A drain that was started runs on unless its process dies, and the queue takes
\* back what was abandoned.  Nothing starts another drain: the consumer does one
\* and exits 0, and launchd leaves a clean exit stopped.
FairSpec ==
  /\ Spec
  /\ \A c \in Consumers : WF_vars(DrainStep(c))
  /\ \A m \in Msgs : WF_vars(LeaseExpires(m))

-----------------------------------------------------------------------------
(* Properties.                                                              *)

ChildrenOf(m) == {children[m][i] : i \in DOMAIN children[m]}

\* INV-ACK: a message the queue has forgotten is durably accounted for, every
\* event of it in the ledger with its rows, or its envelope in the local DLQ.
AckedIsAccounted ==
  \A m \in Msgs : queue[m] = "acked" =>
    m \in dlq \/ \A e \in ChildrenOf(m) : e \in ledger /\ applied[e] > 0

\* Redelivery, overlapping consumers and the same event in two webhooks never
\* write an event's domain rows twice.
AppliedAtMostOnce == \A e \in Events : applied[e] <= 1

\* The window that authorises sends is the time of an inbound message that is
\* in vault.db, never ahead of the evidence, even while two consumers and the
\* doctor overwrite each other.
WindowHasEvidence == \A v \in Convs : windows[v] \in Evidence(v) \cup {0}

\* A locked Keychain or a wrong private key never makes an intact envelope
\* poison: only a malformed or tampered one is quarantined.
IntactNeverQuarantined == \A m \in dlq : shape[m] # "sealed"

\* Retiring a key never shreds ciphertext: no message sealed to a retired key
\* is left at the edge or in the local DLQ, whatever drains are under way.
RetiredKeyUnused ==
  \A m \in Msgs : (sealedTo[m] \in retired /\ shape[m] # "malformed") =>
    queue[m] = "acked" /\ m \notin dlq

\* An event once in the ledger stays, with its rows; an acknowledged message
\* is never delivered again; a quarantined envelope stays.
NothingForgotten ==
  [][/\ ledger \subseteq ledger'
     /\ dlq \subseteq dlq'
     /\ \A e \in Events : applied'[e] >= applied[e]
     /\ \A m \in Msgs : queue[m] = "acked" => queue'[m] = "acked"]_vars

\* Somebody starts the consumer again and again, for as long as the queue has
\* something to hand out, and unlocks the Keychain.
DrainsRecur ==
  /\ \A m \in Msgs : SF_vars(\E c \in Consumers : LeasesMsg(c, m))
  /\ \A k \in Keys : WF_vars(KeychainUnlocks(k))

\* If the operator keeps starting drains and does not leave the breaker open,
\* which the code does not do for him, every well-formed message whose key is
\* stored is acknowledged in the end, despite crashes, lost leases and refused
\* neighbours.
ValidMessageAcked ==
  (DrainsRecur /\ []<>(circuit = "CLOSED")) =>
    \A m \in Msgs :
      (/\ shape[m] = "sealed" /\ sealedTo[m] \in StoredKeys
       /\ ChildrenOf(m) \cap Refused = {}) => <>(queue[m] = "acked")

-----------------------------------------------------------------------------
(* What the documentation says and the code does not do.                    *)

\* Corrections ledger #40: the projection is reconciled "crash-recoverably;
\* duplicate delivery permits re-reconciliation", however often drains recur.
WindowFollowsEvidence ==
  DrainsRecur =>
    \A e \in Events :
      (applied[e] > 0 /\ family[e] = "INBOUND") ~> windows[conv[e]] >= ts[e]
=============================================================================
