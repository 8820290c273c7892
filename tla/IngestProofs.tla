----------------------------- MODULE IngestProofs -----------------------------
(* Safety of the ingest consumer for any messages, events, keys and number    *)
(* of consumers, and any number of faults.                                   *)
EXTENDS Ingest, TLAPS

(* The inductive invariant, in parts.                                       *)

\* open_sealed will open m whenever the Keychain hands out its key.
Readable(m) == shape[m] = "sealed" /\ sealedTo[m] \in StoredKeys

\* m may be acknowledged.
Done(m) == m \in dlq \/ (Readable(m) /\ \A e \in ChildrenOf(m) : e \in ledger)

\* The ledger and the domain rows are written in one transaction.
LedgerApplied ==
  \A e \in Events : applied[e] = IF e \in ledger THEN 1 ELSE 0

\* What a drain_once call whose locals are r may rely on.
Sound(r) ==
  /\ \A m \in r.acks : Done(m)
  /\ r.health \subseteq StoredKeys
  /\ r.pc \notin {"idle", "batch"} =>
       /\ r.cur \in Msgs
       /\ Readable(r.cur)
       /\ r.i \in Nat \ {0}
       /\ \A j \in DOMAIN children[r.cur] :
            j < r.i => children[r.cur][j] \in ledger
  /\ r.pc \in {"read", "write", "index"} =>
       /\ r.i \in DOMAIN children[r.cur]
       /\ children[r.cur][r.i] \in ledger
       /\ family[children[r.cur][r.i]] = "INBOUND"
  /\ r.pc = "write" =>
       r.seen \in Evidence(conv[children[r.cur][r.i]]) \cup {0}

DrainsSound == \A c \in Consumers : Sound(drain[c])

\* The doctor carries a timestamp it has found in vault.db.
DoctorSound ==
  doctor # None => doctor.evidence \in Evidence(doctor.conv) \cup {0}

AckedDone == \A m \in Msgs : queue[m] = "acked" => Done(m)

IInv ==
  /\ TypeOK
  /\ LedgerApplied
  /\ DrainsSound
  /\ DoctorSound
  /\ AckedDone
  /\ WindowHasEvidence
  /\ IntactNeverQuarantined
  /\ RetiredKeyUnused
-----------------------------------------------------------------------------
(* Types.                                                                   *)

\* The event a consumer is about to apply, or has just applied, is an event.
LEMMA ChildIsEvent ==
  ASSUME NEW m \in Msgs, NEW i \in DOMAIN children[m]
  PROVE  children[m][i] \in Events /\ i \in Nat /\ children[m][i] \in ChildrenOf(m)
<1>1. children[m] \in Seq(Events)
  BY IngestAssumption
<1> QED BY <1>1 DEF ChildrenOf

\* Replacing one consumer's locals by well-formed ones keeps drain well-formed.
LEMMA DrainType ==
  ASSUME TypeOK, NEW c \in Consumers, NEW r \in Drain,
         drain' = [drain EXCEPT ![c] = r]
  PROVE  drain' \in [Consumers -> Drain]
BY DEF TypeOK

\* ack, nack and lease leave a well-formed queue.
LEMMA QueueType ==
  ASSUME TypeOK, NEW c \in Consumers, NEW ms,
         NEW q \in {"pending", "acked"} \cup Consumers
  PROVE  Settled(c, ms, q) \in [Msgs -> {"pending", "acked"} \cup Consumers]
BY DEF TypeOK, Settled

\* The locals of a drain that goes on with its batch are well-formed.
LEMMA BetweenType ==
  ASSUME TypeOK, NEW c \in Consumers, NEW b \in SUBSET Msgs,
         NEW a \in SUBSET Msgs, NEW h \in SUBSET Keys,
         drain' = Between(c, b, a, h)
  PROVE  drain' \in [Consumers -> Drain]
<1> DEFINE r == [pc |-> "batch", batch |-> b, cur |-> None, i |-> 0, seen |-> 0,
                 acks |-> a, health |-> h]
<1>1. r \in Drain
  BY DEF Drain
<1>2. drain' = [drain EXCEPT ![c] = r]
  BY DEF Between
<1> HIDE DEF r
<1> QED BY <1>1, <1>2, DrainType

\* So are those of a drain that goes on with its message.
LEMMA AtType ==
  ASSUME TypeOK, NEW c \in Consumers, NEW i \in Nat, NEW seen \in Nat,
         NEW pc \in {"apply", "read", "write", "index"},
         drain' = At(c, pc, i, seen)
  PROVE  drain' \in [Consumers -> Drain]
<1>1. PICK r : r = [pc |-> pc, batch |-> drain[c].batch, cur |-> drain[c].cur,
                    i |-> i, seen |-> seen, acks |-> drain[c].acks,
                    health |-> drain[c].health]
  OBVIOUS
<1>2. drain[c] \in Drain
  BY DEF TypeOK
<1>3. r \in Drain
  BY <1>1, <1>2 DEF Drain
<1>4. drain' = [drain EXCEPT ![c] = r]
  BY <1>1 DEF At
<1> QED BY <1>3, <1>4, DrainType

\* A consumer in the middle of a message has one; past an event's commit it
\* has that event.
LEMMA Working ==
  ASSUME TypeOK, DrainsSound, NEW c \in Consumers,
         drain[c].pc \notin {"idle", "batch"}
  PROVE  /\ drain[c].cur \in Msgs
         /\ drain[c].pc \in {"read", "write", "index"} =>
              /\ drain[c].i \in DOMAIN children[drain[c].cur]
              /\ Event(c) \in Events
              /\ conv[Event(c)] \in Convs
              /\ ts[Event(c)] \in Nat
              /\ Event(c) \in ledger
              /\ family[Event(c)] = "INBOUND"
<1>1. Sound(drain[c])
  BY DEF DrainsSound
<1>2. drain[c].cur \in Msgs
  BY <1>1 DEF Sound
<1>3. ASSUME drain[c].pc \in {"read", "write", "index"}
      PROVE  /\ drain[c].i \in DOMAIN children[drain[c].cur]
             /\ Event(c) \in Events
             /\ Event(c) \in ledger
             /\ family[Event(c)] = "INBOUND"
  BY <1>1, <1>2, <1>3, ChildIsEvent DEF Sound, Event
<1> QED BY <1>2, <1>3, IngestAssumption

\* Every action of the consumer, the queue and the operator keeps the queue,
\* the tables and the locals well-formed.
LEMMA TypeStep ==
  ASSUME TypeOK, DrainsSound, [Next]_vars
  PROVE  TypeOK'
<1> USE DEF durable
<1>1. CASE UNCHANGED vars
  BY <1>1 DEF vars, TypeOK
<1>2. ASSUME NEW c \in Consumers, NEW ms \in SUBSET Msgs, Lease(c, ms)
      PROVE  TypeOK'
  <2>1. PICK r : r = [pc |-> "batch", batch |-> ms, cur |-> None, i |-> 0,
                      seen |-> 0, acks |-> {}, health |-> {}]
    OBVIOUS
  <2>2. r \in Drain
    BY <2>1 DEF Drain
  <2>3. drain' \in [Consumers -> Drain]
    BY <1>2, <2>1, <2>2, DrainType DEF Lease
  <2> QED BY <1>2, <2>3 DEF Lease, TypeOK
<1>3. ASSUME NEW c \in Consumers, DecryptStep(c)
      PROVE  TypeOK'
  <2>1. drain[c] \in Drain
    BY DEF TypeOK
  <2>2. ASSUME NEW m \in Msgs, DecryptUnavailable(c, m) PROVE TypeOK'
    BY <2>1, <2>2, BetweenType, QueueType DEF DecryptUnavailable, TypeOK, Drain
  <2>3. ASSUME NEW m \in Msgs, quarantine(c, m) PROVE TypeOK'
    BY <2>1, <2>3, BetweenType DEF quarantine, TypeOK, Drain
  <2>4. ASSUME NEW m \in Msgs, trip(c, m) PROVE TypeOK'
    BY <2>1, <2>4, BetweenType DEF trip, TypeOK, Drain
  <2>5. ASSUME NEW m \in Msgs, Decrypt(c, m) PROVE TypeOK'
    <3>1. PICK r : r = [pc |-> "apply", batch |-> drain[c].batch \ {m},
                        cur |-> m, i |-> 1, seen |-> 0,
                        acks |-> drain[c].acks,
                        health |-> drain[c].health \cup {sealedTo[m]}]
      OBVIOUS
    <3>2. r \in Drain
      BY <2>1, <3>1, IngestAssumption DEF Drain
    <3>3. drain' \in [Consumers -> Drain]
      BY <2>5, <3>1, <3>2, DrainType DEF Decrypt
    <3> QED BY <2>5, <3>3 DEF Decrypt, TypeOK
  <2> QED BY <1>3, <2>2, <2>3, <2>4, <2>5 DEF DecryptStep
<1>4. ASSUME NEW c \in Consumers, ProcessStep(c)
      PROVE  TypeOK'
  <2>1. drain[c] \in Drain /\ drain[c].i \in Nat /\ drain[c].i + 1 \in Nat
    BY DEF TypeOK, Drain
  <2>2. ASSUME NEW e \in Events, apply_rows(c, e) PROVE TypeOK'
    <3>1. drain' \in [Consumers -> Drain]
      BY <2>1, <2>2, AtType DEF apply_rows
    <3>2. applied' \in [Events -> Nat]
      BY <2>2 DEF apply_rows, TypeOK
    <3> QED BY <2>2, <3>1, <3>2 DEF apply_rows, TypeOK
  <2>3. ASSUME NEW e \in Events, Duplicate(c, e) PROVE TypeOK'
    BY <2>1, <2>3, AtType DEF Duplicate, TypeOK
  <2>4. CASE ProcessRaises(c)
    <3>1. drain' \in [Consumers -> Drain]
      BY <2>1, <2>4, BetweenType DEF ProcessRaises, Drain
    <3>2. faults' \in Nat
      BY <2>4 DEF ProcessRaises, Fault, NoFault, TypeOK
    <3> QED BY <2>4, <3>1, <3>2, QueueType DEF ProcessRaises, TypeOK
  <2>5. CASE WindowReads(c)
    <3>1. windows[conv[Event(c)]] \in Nat
      BY <2>5, Working DEF WindowReads, TypeOK
    <3> QED BY <2>1, <2>5, <3>1, AtType DEF WindowReads, TypeOK
  <2>6. CASE advance_window(c)
    <3>1. /\ conv[Event(c)] \in Convs /\ ts[Event(c)] \in Nat
          /\ drain[c].seen \in Nat
      BY <2>1, <2>6, Working DEF advance_window, Drain
    <3>2. windows' \in [Convs -> Nat]
      BY <2>6, <3>1 DEF advance_window, TypeOK
    <3> QED BY <2>1, <2>6, <3>2, AtType DEF advance_window, TypeOK
  <2>7. CASE index_message(c)
    BY <2>1, <2>7, Working, AtType DEF index_message, TypeOK
  <2>8. CASE IndexSwallowed(c)
    BY <2>1, <2>8, AtType DEF IndexSwallowed, Fault, TypeOK
  <2>9. CASE Processed(c)
    <3>1. drain[c].cur \in Msgs
      BY <2>9, Working DEF Processed
    <3>2. drain' \in [Consumers -> Drain]
      BY <2>1, <2>9, <3>1, BetweenType DEF Processed, Drain
    <3> QED BY <2>9, <3>2 DEF Processed, TypeOK
  <2> QED BY <1>4, <2>2, <2>3, <2>4, <2>5, <2>6, <2>7, <2>8, <2>9 DEF ProcessStep
<1>5. ASSUME NEW c \in Consumers, Ack(c) \/ Crash(c)
      PROVE  TypeOK'
  <2>1. Idle \in Drain
    BY DEF Idle, Drain
  <2>2. drain' \in [Consumers -> Drain]
    BY <1>5, <2>1, DrainType DEF Ack, Crash
  <2> QED BY <1>5, <2>2, QueueType DEF Ack, Crash, Fault, TypeOK
<1>6. ASSUME NEW m \in Msgs, LeaseExpires(m)
      PROVE  TypeOK'
  BY <1>6 DEF LeaseExpires, Fault, NoFault, TypeOK
<1>7. CASE OperatorStep
  <2>1. ASSUME NEW v \in Rebuilt, DoctorReads(v) PROVE TypeOK'
    <3>1. Evidence(v) \subseteq Nat /\ v \in Convs
      BY IngestAssumption DEF Evidence
    <3>2. doctor' \in [conv: Convs, evidence: Nat]
      BY <2>1, <3>1 DEF DoctorReads
    <3> QED BY <2>1, <3>2 DEF DoctorReads, TypeOK
  <2>2. CASE DoctorRepairs
    BY <2>2 DEF DoctorRepairs, TypeOK
  <2>3. ASSUME NEW k \in Keys, KeychainLocks(k) \/ KeychainUnlocks(k) \/ retire(k)
        PROVE  TypeOK'
    BY <2>3 DEF KeychainLocks, KeychainUnlocks, retire, Fault, TypeOK
  <2>4. CASE reset
    BY <2>4 DEF reset, TypeOK
  <2> QED BY <1>7, <2>1, <2>2, <2>3, <2>4 DEF OperatorStep
<1> QED BY <1>1, <1>2, <1>3, <1>4, <1>5, <1>6, <1>7 DEF Next, DrainStep
-----------------------------------------------------------------------------
(* What no step undoes.                                                     *)

Grows ==
  /\ ledger \subseteq ledger'
  /\ dlq \subseteq dlq'
  /\ \A e \in Events : applied'[e] >= applied[e]
  /\ \A m \in Msgs : queue[m] = "acked" => queue'[m] = "acked"

\* No step of a consumer, the queue or the operator removes a ledger row, a
\* domain row or a DLQ row, or takes back an acknowledgement: a nack of an
\* expired lease included.
LEMMA GrowsStep ==
  ASSUME TypeOK, [Next]_vars
  PROVE  Grows
<1> USE DEF durable
<1>0. "acked" \notin Consumers
  BY IngestAssumption
<1>1. CASE UNCHANGED vars
  BY <1>1 DEF vars, TypeOK, Grows
<1>2. ASSUME NEW c \in Consumers, NEW ms \in SUBSET Msgs, Lease(c, ms)
      PROVE  Grows
  BY <1>2 DEF Lease, TypeOK, Grows
<1>3. ASSUME NEW c \in Consumers, DecryptStep(c)
      PROVE  Grows
  <2>1. ASSUME NEW m \in Msgs, DecryptUnavailable(c, m) PROVE Grows
    BY <1>0, <2>1 DEF DecryptUnavailable, Settled, TypeOK, Grows
  <2>2. ASSUME NEW m \in Msgs, quarantine(c, m) \/ trip(c, m) \/ Decrypt(c, m)
        PROVE  Grows
    BY <2>2 DEF quarantine, trip, Decrypt, TypeOK, Grows
  <2> QED BY <1>3, <2>1, <2>2 DEF DecryptStep
<1>4. ASSUME NEW c \in Consumers, ProcessStep(c)
      PROVE  Grows
  <2>1. ASSUME NEW e \in Events, apply_rows(c, e) PROVE Grows
    <3>1. \A x \in Events : applied'[x] >= applied[x]
      BY <2>1 DEF apply_rows, TypeOK
    <3> QED BY <2>1, <3>1 DEF apply_rows, TypeOK, Grows
  <2>2. CASE ProcessRaises(c)
    BY <1>0, <2>2 DEF ProcessRaises, Settled, TypeOK, Grows
  <2>3. ASSUME ledger' = ledger, dlq' = dlq, applied' = applied, queue' = queue
        PROVE  Grows
    BY <2>3 DEF TypeOK, Grows
  <2> QED BY <1>4, <2>1, <2>2, <2>3 DEF ProcessStep, Duplicate, WindowReads,
             advance_window, index_message, IndexSwallowed, Processed
<1>5. ASSUME NEW c \in Consumers, Ack(c) \/ Crash(c)
      PROVE  Grows
  BY <1>0, <1>5 DEF Ack, Crash, Settled, TypeOK, Grows
<1>6. ASSUME NEW m \in Msgs, LeaseExpires(m)
      PROVE  Grows
  BY <1>0, <1>6 DEF LeaseExpires, TypeOK, Grows
<1>7. CASE OperatorStep
  BY <1>7 DEF OperatorStep, DoctorReads, DoctorRepairs, KeychainLocks,
     KeychainUnlocks, reset, retire, TypeOK, Grows
<1> QED BY <1>1, <1>2, <1>3, <1>4, <1>5, <1>6, <1>7 DEF Next, DrainStep

\* The evidence for a window only grows.
LEMMA EvidenceGrows ==
  ASSUME TypeOK, TypeOK', Grows, NEW v
  PROVE  Evidence(v) \subseteq Evidence(v)'
<1> SUFFICES ASSUME NEW e \in Events, applied[e] > 0
             PROVE  applied'[e] > 0
  BY DEF Evidence
<1> QED BY DEF Grows, TypeOK

\* What may be acknowledged may be acknowledged later.
LEMMA DoneGrows ==
  ASSUME Grows, NEW m, Done(m)
  PROVE  Done(m)'
BY DEF Done, Grows, ChildrenOf, Readable

\* A call's locals, once sound, stay sound while other processes move.
LEMMA SoundGrows ==
  ASSUME TypeOK, TypeOK', Grows, NEW r, Sound(r)
  PROVE  Sound(r)'
<1>1. \A v : Evidence(v) \subseteq Evidence(v)'
  BY EvidenceGrows
<1>2. \A m : Done(m) => Done(m)'
  BY DoneGrows
<1>3. ledger \subseteq ledger'
  BY DEF Grows
<1> QED BY <1>1, <1>2, <1>3 DEF Sound, Readable

\* A step that gives one consumer sound locals keeps every consumer's sound.
LEMMA DrainSound ==
  ASSUME TypeOK, TypeOK', Grows, DrainsSound, NEW c \in Consumers, NEW r,
         drain' = [drain EXCEPT ![c] = r], Sound(r)'
  PROVE  DrainsSound'
<1> SUFFICES ASSUME NEW d \in Consumers PROVE Sound(drain[d])'
  BY DEF DrainsSound
<1>1. CASE d = c
  <2>1. drain'[d] = r
    BY <1>1 DEF TypeOK
  <2> QED BY <2>1 DEF Sound
<1>2. CASE d # c
  <2>1. PICK q : q = drain[d]
    OBVIOUS
  <2>2. drain'[d] = q /\ Sound(q)
    BY <1>2, <2>1 DEF TypeOK, DrainsSound
  <2>3. Sound(q)'
    BY <2>2, SoundGrows
  <2> QED BY <2>2, <2>3 DEF Sound
<1> QED BY <1>1, <1>2

\* The same for a drain that goes on with its batch.
LEMMA BetweenSound ==
  ASSUME TypeOK, TypeOK', Grows, DrainsSound, NEW c \in Consumers,
         NEW b, NEW a, NEW h, drain' = Between(c, b, a, h),
         \A m \in a : Done(m)', h \subseteq StoredKeys
  PROVE  DrainsSound'
<1>1. PICK r : r = [pc |-> "batch", batch |-> b, cur |-> None, i |-> 0,
                    seen |-> 0, acks |-> a, health |-> h]
  OBVIOUS
<1>2. drain' = [drain EXCEPT ![c] = r]
  BY <1>1 DEF Between
<1>3. Sound(r)'
  BY <1>1 DEF Sound
<1> QED BY <1>2, <1>3, DrainSound
-----------------------------------------------------------------------------
(* The parts of the invariant, each for every step.                         *)

\* Only the transaction of apply_rows writes, and it writes both tables.
LEMMA LedgerStep ==
  ASSUME TypeOK, LedgerApplied, [Next]_vars
  PROVE  LedgerApplied'
<1> USE DEF durable
<1>1. ASSUME ledger' = ledger, applied' = applied PROVE LedgerApplied'
  BY <1>1 DEF LedgerApplied
<1>2. ASSUME NEW c \in Consumers, NEW e \in Events, apply_rows(c, e)
      PROVE  LedgerApplied'
  BY <1>2 DEF apply_rows, LedgerApplied, TypeOK
<1>3. ASSUME NEW c \in Consumers, ProcessStep(c) PROVE LedgerApplied'
  BY <1>1, <1>2, <1>3 DEF ProcessStep, Duplicate, ProcessRaises, WindowReads,
     advance_window, index_message, IndexSwallowed, Processed
<1>4. ASSUME NEW c \in Consumers, DecryptStep(c) PROVE LedgerApplied'
  BY <1>1, <1>4 DEF DecryptStep, DecryptUnavailable, quarantine, trip, Decrypt
<1>5. CASE OperatorStep
  BY <1>1, <1>5 DEF OperatorStep, DoctorReads, DoctorRepairs, KeychainLocks,
     KeychainUnlocks, reset, retire
<1>6. CASE UNCHANGED vars
  BY <1>1, <1>6 DEF vars
<1> QED BY <1>1, <1>3, <1>4, <1>5, <1>6 DEF Next, DrainStep, Lease, Ack, Crash,
           LeaseExpires

\* An intact envelope is never classified as poison: a key is healthy only if
\* the Keychain holds its right private half.
LEMMA PoisonNotReadable ==
  ASSUME DrainsSound, NEW c \in Consumers, NEW m \in Msgs, Poison(c, m)
  PROVE  shape[m] # "sealed"
<1>1. drain[c].health \subseteq StoredKeys
  BY DEF DrainsSound, Sound
<1> QED BY <1>1 DEF Poison, AeadAuthFailed, Opens

\* quarantine is the only writer of the DLQ.
LEMMA IntactStep ==
  ASSUME TypeOK, DrainsSound, IntactNeverQuarantined, [Next]_vars
  PROVE  IntactNeverQuarantined'
<1> USE DEF durable
<1>1. ASSUME dlq' = dlq PROVE IntactNeverQuarantined'
  BY <1>1 DEF IntactNeverQuarantined
<1>2. ASSUME NEW c \in Consumers, NEW m \in Msgs, quarantine(c, m)
      PROVE  IntactNeverQuarantined'
  <2>1. shape[m] # "sealed"
    BY <1>2, PoisonNotReadable DEF quarantine
  <2> QED BY <1>2, <2>1 DEF quarantine, IntactNeverQuarantined
<1>3. ASSUME NEW c \in Consumers, ProcessStep(c) PROVE IntactNeverQuarantined'
  BY <1>1, <1>3 DEF ProcessStep, apply_rows, Duplicate, ProcessRaises,
     WindowReads, advance_window, index_message, IndexSwallowed, Processed
<1>4. ASSUME NEW c \in Consumers, DecryptStep(c) PROVE IntactNeverQuarantined'
  BY <1>1, <1>2, <1>4 DEF DecryptStep, DecryptUnavailable, trip, Decrypt
<1>5. CASE OperatorStep
  BY <1>1, <1>5 DEF OperatorStep, DoctorReads, DoctorRepairs, KeychainLocks,
     KeychainUnlocks, reset, retire
<1>6. CASE UNCHANGED vars
  BY <1>1, <1>6 DEF vars
<1> QED BY <1>1, <1>3, <1>4, <1>5, <1>6 DEF Next, DrainStep, Lease, Ack, Crash,
           LeaseExpires

\* Only ack makes a message acknowledged, and to_ack holds only messages that
\* are quarantined or whose every event is in the ledger.
LEMMA AckedStep ==
  ASSUME TypeOK, Grows, DrainsSound, AckedDone, [Next]_vars
  PROVE  AckedDone'
<1> USE DEF durable
<1>0. "acked" \notin Consumers /\ "acked" # "pending"
  BY IngestAssumption
<1> SUFFICES ASSUME NEW m \in Msgs, queue'[m] = "acked" PROVE Done(m)'
  BY DEF AckedDone
<1>1. ASSUME queue[m] = "acked" PROVE Done(m)'
  BY <1>1, DoneGrows DEF AckedDone
<1>2. ASSUME NEW c \in Consumers, m \in drain[c].acks PROVE Done(m)'
  BY <1>2, DoneGrows DEF DrainsSound, Sound
<1>3. ASSUME NEW c \in Consumers, Ack(c) PROVE Done(m)'
  BY <1>1, <1>2, <1>3 DEF Ack, Settled
<1>4. ASSUME NEW c \in Consumers, ProcessStep(c) PROVE Done(m)'
  <2>1. CASE ProcessRaises(c)
    BY <1>0, <1>1, <2>1 DEF ProcessRaises, Settled
  <2> QED BY <1>1, <1>4, <2>1 DEF ProcessStep, apply_rows, Duplicate, WindowReads,
     advance_window, index_message, IndexSwallowed, Processed
<1>5. ASSUME NEW c \in Consumers, DecryptStep(c) PROVE Done(m)'
  <2>1. ASSUME NEW n \in Msgs, DecryptUnavailable(c, n) PROVE Done(m)'
    BY <1>0, <1>1, <2>1 DEF DecryptUnavailable, Settled
  <2> QED BY <1>1, <1>5, <2>1 DEF DecryptStep, quarantine, trip, Decrypt
<1>6. CASE OperatorStep
  BY <1>1, <1>6 DEF OperatorStep, DoctorReads, DoctorRepairs, KeychainLocks,
     KeychainUnlocks, reset, retire
<1>7. CASE UNCHANGED vars
  BY <1>1, <1>7 DEF vars
<1>8. ASSUME NEW c \in Consumers, NEW ms \in SUBSET Msgs, Lease(c, ms)
      PROVE  Done(m)'
  BY <1>0, <1>1, <1>8 DEF Lease
<1>9. ASSUME NEW n \in Msgs, LeaseExpires(n) PROVE Done(m)'
  BY <1>0, <1>1, <1>9 DEF LeaseExpires, TypeOK
<1>10. ASSUME NEW c \in Consumers, Crash(c) PROVE Done(m)'
  BY <1>1, <1>10 DEF Crash
<1> QED BY <1>3, <1>4, <1>5, <1>6, <1>7, <1>8, <1>9, <1>10 DEF Next, DrainStep

\* A message sealed to a retired key was acknowledged without being
\* quarantined, so it was opened: it is readable and stays out of the DLQ even
\* if an overtaken drain still holds it.
LEMMA RetiredStep ==
  ASSUME TypeOK, Grows, DrainsSound, AckedDone, RetiredKeyUnused, [Next]_vars
  PROVE  RetiredKeyUnused'
<1> USE DEF durable
<1> SUFFICES ASSUME NEW m \in Msgs, sealedTo[m] \in retired', shape[m] # "malformed"
             PROVE  queue'[m] = "acked" /\ m \notin dlq'
  BY DEF RetiredKeyUnused
<1>1. ASSUME sealedTo[m] \in retired, dlq' = dlq
      PROVE  queue'[m] = "acked" /\ m \notin dlq'
  BY <1>1 DEF RetiredKeyUnused, Grows
<1>2. ASSUME NEW k \in Keys, retire(k)
      PROVE  queue'[m] = "acked" /\ m \notin dlq'
  <2>1. CASE sealedTo[m] = k
    BY <1>2, <2>1 DEF retire, EdgeClear, references_key
  <2>2. CASE sealedTo[m] # k
    BY <1>1, <1>2, <2>2 DEF retire
  <2> QED BY <2>1, <2>2
<1>3. ASSUME NEW c \in Consumers, NEW n \in Msgs, quarantine(c, n)
      PROVE  queue'[m] = "acked" /\ m \notin dlq'
  <2>1. queue[m] = "acked" /\ m \notin dlq
    BY <1>3 DEF quarantine, RetiredKeyUnused
  <2>2. shape[m] = "sealed"
    BY <2>1 DEF AckedDone, Done, Readable
  <2>3. m # n
    BY <1>3, <2>2, PoisonNotReadable DEF quarantine
  <2> QED BY <1>3, <2>1, <2>3 DEF quarantine
<1>4. ASSUME NEW c \in Consumers, ProcessStep(c)
      PROVE  queue'[m] = "acked" /\ m \notin dlq'
  BY <1>1, <1>4 DEF ProcessStep, apply_rows, Duplicate, ProcessRaises,
     WindowReads, advance_window, index_message, IndexSwallowed, Processed
<1>5. ASSUME NEW c \in Consumers, DecryptStep(c)
      PROVE  queue'[m] = "acked" /\ m \notin dlq'
  BY <1>1, <1>3, <1>5 DEF DecryptStep, DecryptUnavailable, trip, Decrypt
<1>6. CASE OperatorStep
  BY <1>1, <1>2, <1>6 DEF OperatorStep, DoctorReads, DoctorRepairs,
     KeychainLocks, KeychainUnlocks, reset
<1>7. CASE UNCHANGED vars
  BY <1>1, <1>7 DEF vars
<1> QED BY <1>1, <1>4, <1>5, <1>6, <1>7 DEF Next, DrainStep, Lease, Ack, Crash,
           LeaseExpires

\* advance_window writes the timestamp of a committed event or what it read;
\* the doctor writes what it found.
LEMMA WindowStep ==
  ASSUME TypeOK, TypeOK', Grows, LedgerApplied, DrainsSound, DoctorSound,
         WindowHasEvidence, [Next]_vars
  PROVE  WindowHasEvidence'
<1> USE DEF durable
<1>0. \A v : Evidence(v) \subseteq Evidence(v)'
  BY EvidenceGrows
<1>1. ASSUME windows' = windows PROVE WindowHasEvidence'
  BY <1>0, <1>1 DEF WindowHasEvidence
<1>2. ASSUME NEW c \in Consumers, advance_window(c) PROVE WindowHasEvidence'
  <2>1. PICK e, v : e = Event(c) /\ v = conv[e]
    OBVIOUS
  <2>2. /\ e \in Events /\ v \in Convs /\ e \in ledger /\ family[e] = "INBOUND"
    BY <1>2, <2>1, Working DEF advance_window
  <2>3. ts[e] \in Evidence(v)
    BY <2>1, <2>2 DEF Evidence, LedgerApplied
  <2>4. drain[c].seen \in Evidence(v) \cup {0}
    BY <1>2, <2>1 DEF advance_window, DrainsSound, Sound, Event
  <2>5. windows'[v] \in Evidence(v) \cup {0}
    BY <1>2, <2>1, <2>2, <2>3, <2>4 DEF advance_window, TypeOK
  <2>6. \A u \in Convs : u # v => windows'[u] = windows[u]
    BY <1>2, <2>1 DEF advance_window, TypeOK
  <2> QED BY <1>0, <2>5, <2>6 DEF WindowHasEvidence
<1>3. CASE DoctorRepairs
  <2>1. PICK v, t : v = doctor.conv /\ t = doctor.evidence
    OBVIOUS
  <2>2. v \in Convs /\ t \in Evidence(v) \cup {0}
    BY <1>3, <2>1 DEF DoctorRepairs, DoctorSound, TypeOK
  <2>3. windows' = [windows EXCEPT ![v] = t]
    BY <1>3, <2>1 DEF DoctorRepairs
  <2>4. windows'[v] = t /\ \A u \in Convs : u # v => windows'[u] = windows[u]
    BY <2>2, <2>3 DEF TypeOK
  <2> QED BY <1>0, <2>2, <2>4 DEF WindowHasEvidence
<1>4. ASSUME NEW c \in Consumers, ProcessStep(c) PROVE WindowHasEvidence'
  BY <1>1, <1>2, <1>4 DEF ProcessStep, apply_rows, Duplicate, ProcessRaises,
     WindowReads, index_message, IndexSwallowed, Processed
<1>5. ASSUME NEW c \in Consumers, DecryptStep(c) PROVE WindowHasEvidence'
  BY <1>1, <1>5 DEF DecryptStep, DecryptUnavailable, quarantine, trip, Decrypt
<1>6. CASE OperatorStep
  BY <1>1, <1>3, <1>6 DEF OperatorStep, DoctorReads, KeychainLocks,
     KeychainUnlocks, reset, retire
<1>7. CASE UNCHANGED vars
  BY <1>1, <1>7 DEF vars
<1> QED BY <1>1, <1>4, <1>5, <1>6, <1>7 DEF Next, DrainStep, Lease, Ack, Crash,
           LeaseExpires

\* The evidence the doctor has read is still there when it writes.
LEMMA DoctorStep ==
  ASSUME TypeOK, TypeOK', Grows, DoctorSound, [Next]_vars
  PROVE  DoctorSound'
<1> USE DEF durable
<1>0. \A v : Evidence(v) \subseteq Evidence(v)'
  BY EvidenceGrows
<1>1. ASSUME doctor' = doctor PROVE DoctorSound'
  BY <1>0, <1>1 DEF DoctorSound
<1>2. ASSUME NEW v \in Rebuilt, DoctorReads(v) PROVE DoctorSound'
  <2>1. PICK t \in Evidence(v) \cup {0} : doctor' = [conv |-> v, evidence |-> t]
    BY <1>2 DEF DoctorReads
  <2>2. t \in Evidence(v)' \cup {0}
    BY <1>0, <2>1
  <2>3. doctor'.conv = v /\ doctor'.evidence = t
    BY <2>1
  <2> QED BY <2>2, <2>3 DEF DoctorSound, Evidence
<1>3. CASE DoctorRepairs
  BY <1>3 DEF DoctorRepairs, DoctorSound
<1>4. ASSUME NEW c \in Consumers, ProcessStep(c) PROVE DoctorSound'
  BY <1>1, <1>4 DEF ProcessStep, apply_rows, Duplicate, ProcessRaises,
     WindowReads, advance_window, index_message, IndexSwallowed, Processed
<1>5. ASSUME NEW c \in Consumers, DecryptStep(c) PROVE DoctorSound'
  BY <1>1, <1>5 DEF DecryptStep, DecryptUnavailable, quarantine, trip, Decrypt
<1>6. CASE OperatorStep
  BY <1>1, <1>2, <1>3, <1>6 DEF OperatorStep, KeychainLocks, KeychainUnlocks,
     reset, retire
<1>7. CASE UNCHANGED vars
  BY <1>1, <1>7 DEF vars
<1> QED BY <1>1, <1>4, <1>5, <1>6, <1>7 DEF Next, DrainStep, Lease, Ack, Crash,
           LeaseExpires

\* The locals of a drain that goes on with its message m stay sound: the
\* children before i are in the ledger, and past a commit so is child i.
LEMMA AtSound ==
  ASSUME TypeOK, TypeOK', Grows, DrainsSound, NEW c \in Consumers,
         drain[c].pc \notin {"idle", "batch"},
         NEW pc \in {"apply", "read", "write", "index"}, NEW i \in Nat \ {0},
         NEW seen, NEW m,
         m = drain[c].cur, drain' = At(c, pc, i, seen),
         \A j \in DOMAIN children[m] : j < i => children[m][j] \in ledger',
         pc # "apply" =>
           /\ i \in DOMAIN children[m]
           /\ children[m][i] \in ledger'
           /\ family[children[m][i]] = "INBOUND",
         pc = "write" => seen \in Evidence(conv[children[m][i]])' \cup {0}
  PROVE  DrainsSound'
<1>1. PICK r : r = [pc |-> pc, batch |-> drain[c].batch, cur |-> drain[c].cur,
                    i |-> i, seen |-> seen, acks |-> drain[c].acks,
                    health |-> drain[c].health]
  OBVIOUS
<1>2. drain' = [drain EXCEPT ![c] = r]
  BY <1>1 DEF At
<1>3. /\ r.pc = pc /\ r.cur = m /\ r.i = i /\ r.seen = seen
      /\ r.acks = drain[c].acks /\ r.health = drain[c].health
  BY <1>1
<1>4. (\A n \in r.acks : Done(n)) /\ r.health \subseteq StoredKeys
      /\ m \in Msgs /\ Readable(m)
  BY <1>3 DEF DrainsSound, Sound
<1>5. \A n \in r.acks : Done(n)'
  BY <1>4, DoneGrows
<1>6. Sound(r)'
  BY <1>3, <1>4, <1>5 DEF Sound, Readable
<1> QED BY <1>2, <1>6, DrainSound

\* Every step of a drain hands on sound locals.
LEMMA SoundStep ==
  ASSUME TypeOK, TypeOK', Grows, DrainsSound, LedgerApplied, WindowHasEvidence,
         [Next]_vars
  PROVE  DrainsSound'
<1> USE DEF durable
<1>0. \A v : Evidence(v) \subseteq Evidence(v)'
  BY EvidenceGrows
<1>1. ASSUME drain' = drain PROVE DrainsSound'
  <2> SUFFICES ASSUME NEW c \in Consumers PROVE Sound(drain[c])'
    BY DEF DrainsSound
  <2>1. PICK q : q = drain[c]
    OBVIOUS
  <2>2. Sound(q)'
    BY <2>1, SoundGrows DEF DrainsSound
  <2> QED BY <1>1, <2>1, <2>2 DEF Sound
<1>2. ASSUME NEW c \in Consumers, NEW ms \in SUBSET Msgs, Lease(c, ms)
      PROVE  DrainsSound'
  <2>1. drain' = Between(c, ms, {}, {})
    BY <1>2 DEF Lease, Between
  <2> QED BY <2>1, BetweenSound
<1>3. ASSUME NEW c \in Consumers
      PROVE  /\ \A m \in drain[c].acks : Done(m)'
             /\ drain[c].health \subseteq StoredKeys
  BY DoneGrows DEF DrainsSound, Sound
<1>4. ASSUME NEW c \in Consumers, DecryptStep(c) PROVE DrainsSound'
  <2>1. ASSUME NEW m \in Msgs, DecryptUnavailable(c, m) \/ trip(c, m)
        PROVE  DrainsSound'
    BY <1>3, <2>1, BetweenSound DEF DecryptUnavailable, trip
  <2>2. ASSUME NEW m \in Msgs, quarantine(c, m) PROVE DrainsSound'
    <3>1. Done(m)'
      BY <2>2 DEF quarantine, Done
    <3> QED BY <1>3, <2>2, <3>1, BetweenSound DEF quarantine
  <2>3. ASSUME NEW m \in Msgs, Decrypt(c, m) PROVE DrainsSound'
    <3>1. PICK r : r = [pc |-> "apply", batch |-> drain[c].batch \ {m},
                        cur |-> m, i |-> 1, seen |-> 0,
                        acks |-> drain[c].acks,
                        health |-> drain[c].health \cup {sealedTo[m]}]
      OBVIOUS
    <3>2. drain' = [drain EXCEPT ![c] = r]
      BY <2>3, <3>1 DEF Decrypt
    <3>3. Readable(m)
      BY <2>3 DEF Decrypt, Opens, Readable
    <3>4. \A j \in DOMAIN children[m] : ~(j < 1)
      BY IngestAssumption
    <3>5. Sound(r)'
      BY <1>3, <3>1, <3>3, <3>4 DEF Sound, Readable
    <3> QED BY <3>2, <3>5, DrainSound
  <2> QED BY <1>4, <2>1, <2>2, <2>3 DEF DecryptStep
<1>5. ASSUME NEW c \in Consumers, ProcessStep(c) PROVE DrainsSound'
  <2>1. PICK m, i : m = drain[c].cur /\ i = drain[c].i
    OBVIOUS
  <2>2. drain[c].pc \notin {"idle", "batch"} =>
          i \in Nat \ {0} /\ i + 1 \in Nat \ {0}
    BY <2>1 DEF DrainsSound, Sound
  <2>3. drain[c].pc \notin {"idle", "batch"} =>
          /\ m \in Msgs
          /\ Readable(m)
          /\ \A j \in DOMAIN children[m] : j < i => children[m][j] \in ledger'
    BY <2>1 DEF DrainsSound, Sound, Grows
  <2>4. ASSUME drain[c].pc \notin {"idle", "batch"}, i \in DOMAIN children[m],
               children[m][i] \in ledger'
        PROVE  \A j \in DOMAIN children[m] :
                 j < i + 1 => children[m][j] \in ledger'
    <3> SUFFICES ASSUME NEW j \in DOMAIN children[m], j < i + 1
                 PROVE  children[m][j] \in ledger'
      OBVIOUS
    <3>1. j \in Nat
      BY <2>3, <2>4, ChildIsEvent
    <3>2. j < i \/ j = i
      BY <2>2, <2>4, <3>1
    <3> QED BY <2>3, <2>4, <3>2
  <2>5. ASSUME NEW e \in Events, apply_rows(c, e) PROVE DrainsSound'
    <3>1. /\ drain[c].pc = "apply" /\ i \in DOMAIN children[m]
          /\ children[m][i] = e /\ e \in ledger'
      BY <2>1, <2>5 DEF apply_rows, Applies
    <3>2. CASE family[e] = "INBOUND"
      <4>1. drain' = At(c, "read", i, 0)
        BY <2>1, <2>5, <3>2 DEF apply_rows
      <4> QED BY <2>1, <2>2, <2>3, <3>1, <3>2, <4>1, AtSound
    <3>3. CASE family[e] # "INBOUND"
      <4>1. drain' = At(c, "apply", i + 1, 0)
        BY <2>1, <2>5, <3>3 DEF apply_rows
      <4> QED BY <2>1, <2>2, <2>4, <3>1, <4>1, AtSound
    <3> QED BY <3>2, <3>3
  <2>6. ASSUME NEW e \in Events, Duplicate(c, e) PROVE DrainsSound'
    <3>1. /\ drain[c].pc = "apply" /\ i \in DOMAIN children[m]
          /\ children[m][i] \in ledger'
          /\ drain' = At(c, "apply", i + 1, 0)
      BY <2>1, <2>6 DEF Duplicate, Applies
    <3> QED BY <2>1, <2>2, <2>4, <3>1, AtSound
  <2>7. CASE ProcessRaises(c)
    BY <1>3, <2>7, BetweenSound DEF ProcessRaises
  <2>8. ASSUME drain[c].pc \in {"read", "write", "index"}
        PROVE  /\ i \in DOMAIN children[m] /\ children[m][i] \in ledger'
               /\ family[children[m][i]] = "INBOUND"
               /\ children[m][i] = Event(c) /\ conv[children[m][i]] \in Convs
    BY <2>1, <2>8, Working DEF Event, Grows
  <2>9. CASE WindowReads(c)
    <3>1. PICK n : n = windows[conv[Event(c)]]
      OBVIOUS
    <3>2. drain' = At(c, "write", i, n) /\ drain[c].pc = "read"
      BY <2>1, <2>9, <3>1 DEF WindowReads
    <3>3. n \in Evidence(conv[children[m][i]])' \cup {0}
      BY <1>0, <2>8, <3>1, <3>2 DEF WindowHasEvidence
    <3> QED BY <2>1, <2>2, <2>3, <2>8, <3>2, <3>3, AtSound
  <2>10. CASE advance_window(c)
    <3>1. drain' = At(c, "index", i, 0) /\ drain[c].pc = "write"
      BY <2>1, <2>10 DEF advance_window
    <3> QED BY <2>1, <2>2, <2>3, <2>8, <3>1, AtSound
  <2>11. CASE index_message(c) \/ IndexSwallowed(c)
    <3>1. drain' = At(c, "apply", i + 1, 0) /\ drain[c].pc = "index"
      BY <2>1, <2>11 DEF index_message, IndexSwallowed
    <3> QED BY <2>1, <2>2, <2>4, <2>8, <3>1, AtSound
  <2>12. CASE Processed(c)
    <3>1. /\ drain[c].pc = "apply" /\ i \notin DOMAIN children[m]
          /\ drain' = Between(c, drain[c].batch, drain[c].acks \cup {m},
                              drain[c].health)
      BY <2>1, <2>12 DEF Processed
    <3>2. \A j \in DOMAIN children[m] : children[m][j] \in ledger'
      <4>1. m \in Msgs /\ i \in Nat \ {0}
        BY <2>2, <2>3, <3>1
      <4>2. children[m] \in Seq(Events)
        BY <4>1, IngestAssumption
      <4>3. \A j \in DOMAIN children[m] : j < i
        BY <3>1, <4>1, <4>2
      <4> QED BY <2>3, <3>1, <4>3
    <3>3. Done(m)'
      BY <2>3, <3>1, <3>2 DEF Done, Readable, ChildrenOf
    <3> QED BY <1>3, <3>1, <3>3, BetweenSound
  <2> QED BY <1>5, <2>5, <2>6, <2>7, <2>9, <2>10, <2>11, <2>12 DEF ProcessStep
<1>6. ASSUME NEW c \in Consumers, Ack(c) \/ Crash(c) PROVE DrainsSound'
  <2>1. PICK r : r = Idle
    OBVIOUS
  <2>2. drain' = [drain EXCEPT ![c] = r]
    BY <1>6, <2>1 DEF Ack, Crash
  <2>3. Sound(r)'
    BY <2>1 DEF Sound, Idle
  <2> QED BY <2>2, <2>3, DrainSound
<1>7. CASE OperatorStep
  BY <1>1, <1>7 DEF OperatorStep, DoctorReads, DoctorRepairs, KeychainLocks,
     KeychainUnlocks, reset, retire
<1>8. CASE UNCHANGED vars
  BY <1>1, <1>8 DEF vars
<1> QED BY <1>1, <1>2, <1>4, <1>5, <1>6, <1>7, <1>8 DEF Next, DrainStep,
           LeaseExpires
-----------------------------------------------------------------------------
(* The theorems.                                                            *)

\* The inductive invariant holds of an empty vault and every step keeps it.
THEOREM Invariance == Spec => []IInv
<1>1. Init => IInv
  <2> SUFFICES ASSUME Init PROVE IInv
    OBVIOUS
  <2>1. Idle \in Drain /\ Sound(Idle)
    BY DEF Idle, Drain, Sound
  <2>2. \A c \in Consumers : drain[c] = Idle
    BY DEF Init
  <2>3. TypeOK
    BY <2>1 DEF Init, TypeOK
  <2>4. DrainsSound
    BY <2>1, <2>2 DEF DrainsSound
  <2>5. AckedDone
    BY DEF Init, AckedDone
  <2> QED BY <2>3, <2>4, <2>5 DEF Init, IInv, LedgerApplied, DoctorSound,
             WindowHasEvidence, IntactNeverQuarantined, RetiredKeyUnused
<1>2. IInv /\ [Next]_vars => IInv'
  <2> SUFFICES ASSUME IInv, [Next]_vars PROVE IInv'
    OBVIOUS
  <2> USE DEF IInv
  <2>1. TypeOK' /\ Grows
    BY TypeStep, GrowsStep
  <2>2. LedgerApplied' /\ IntactNeverQuarantined'
    BY LedgerStep, IntactStep
  <2>3. DrainsSound'
    BY <2>1, SoundStep
  <2>4. AckedDone' /\ RetiredKeyUnused'
    BY <2>1, AckedStep, RetiredStep
  <2>5. DoctorSound' /\ WindowHasEvidence'
    BY <2>1, DoctorStep, WindowStep
  <2> QED BY <2>1, <2>2, <2>3, <2>4, <2>5
<1> QED BY <1>1, <1>2, PTL DEF Spec

\* Every reachable state of queue, vault, window projection and drains is
\* well-formed.
THEOREM TypeCorrect == Spec => []TypeOK
<1>1. IInv => TypeOK
  BY DEF IInv
<1> QED BY <1>1, Invariance, PTL

\* INV-ACK, for any number of consumers, lost leases and crashes: what the
\* queue has forgotten is in vault.db or in the DLQ.
THEOREM AckedMeansDurable == Spec => []AckedIsAccounted
<1>1. IInv => AckedIsAccounted
  <2> SUFFICES ASSUME IInv, NEW m \in Msgs, queue[m] = "acked", m \notin dlq,
                      NEW e \in ChildrenOf(m)
               PROVE  e \in ledger /\ applied[e] > 0
    BY DEF AckedIsAccounted
  <2>1. e \in ledger
    BY DEF IInv, AckedDone, Done
  <2>2. e \in Events
    BY <2>1 DEF IInv, TypeOK
  <2> QED BY <2>1, <2>2 DEF IInv, LedgerApplied
<1> QED BY <1>1, Invariance, PTL

\* _apply_rows runs once per semantic key, however often it is delivered.
THEOREM RowsOnce == Spec => []AppliedAtMostOnce
<1>1. IInv => AppliedAtMostOnce
  BY DEF IInv, LedgerApplied, AppliedAtMostOnce
<1> QED BY <1>1, Invariance, PTL

\* advance_window and the doctor never open a window without an inbound
\* message of that time.
THEOREM WindowBacked == Spec => []WindowHasEvidence
<1>1. IInv => WindowHasEvidence
  BY DEF IInv
<1> QED BY <1>1, Invariance, PTL

\* classify_decrypt_error never quarantines an intact envelope.
THEOREM IntactKept == Spec => []IntactNeverQuarantined
<1>1. IInv => IntactNeverQuarantined
  BY DEF IInv
<1> QED BY <1>1, Invariance, PTL

\* keys.retire never strands ciphertext, at the edge or in the DLQ.
THEOREM RetirementSafe == Spec => []RetiredKeyUnused
<1>1. IInv => RetiredKeyUnused
  BY DEF IInv
<1> QED BY <1>1, Invariance, PTL

\* No step undoes a commit, a quarantine or an acknowledgement.
THEOREM NothingUndone == Spec => NothingForgotten
<1>1. IInv /\ [Next]_vars => [Grows]_vars
  BY GrowsStep DEF IInv
<1> QED BY <1>1, Invariance, PTL DEF Spec, NothingForgotten, Grows
=============================================================================
