-------------------------------- MODULE Relay --------------------------------
(***************************************************************************)
(* The approval relay: accept_envelope stores the phone's signed decision   *)
(* and answers with the id of its row.  A phone that hears nothing sends the *)
(* same envelope again, to whichever relay process answers, so two of them   *)
(* may be in accept_envelope with it at once.  The checks and the SELECT for *)
(* an existing row run in autocommit; the INSERT is a transaction of its own.*)
(***************************************************************************)
EXTENDS Naturals

CONSTANTS
  Drafts,      \* drafts that exist
  Devices,     \* approval devices
  Nonces,      \* 32-byte nonces an envelope may carry
  Approvals,   \* pool of approval ids
  Relays,      \* processes that run accept_envelope
  None         \* no nonce_hex, SQL NULL, "no row"

ASSUME NoneAssumption == None \notin Nonces /\ None \notin Relays

VARIABLES
  devices,    \* approval_devices.status, "NONE" before enrolment
  approvals,  \* approvals table: id -> row, None when absent
  relay,      \* the accept_envelope call of each process, or its last answer
  lock,       \* relay that holds control.db's write lock, None when free
  answered    \* <<slot, id>>: what the phones were told

vars == <<devices, approvals, relay, lock, answered>>

\* The columns of UNIQUE(draft_id, device_id, decision, nonce).
Slot == [draft: Drafts, device: Devices, decision: {"APPROVE", "REJECT"},
         nonce: Nonces \cup {None}]

ASSUME SlotAssumption == None \notin Slot

\* How a call ends without an id.
Refusal == {"REJECTED", "CONFLICT", "LOCKED"}

Call == [pc: {"idle"}, slot: {None}, answer: Approvals \cup Refusal \cup {None}]
  \cup [pc: {"insert"}, slot: Slot, answer: {None}]

\* No call is running; the last one ended with answer.
Answered(answer) == [pc |-> "idle", slot |-> None, answer |-> answer]

TypeOK ==
  /\ devices \in [Devices -> {"NONE", "ACTIVE", "REVOKED"}]
  /\ approvals \in [Approvals -> Slot \cup {None}]
  /\ relay \in [Relays -> Call]
  /\ lock \in Relays \cup {None}
  /\ answered \subseteq Slot \X Approvals

Init ==
  /\ devices = [v \in Devices |-> "NONE"]
  /\ approvals = [a \in Approvals |-> None]
  /\ relay = [r \in Relays |-> Answered(None)]
  /\ lock = None
  /\ answered = {}

-----------------------------------------------------------------------------
(* Other writers of control.db.                                             *)

enroll(v) ==
  /\ lock = None
  /\ devices[v] = "NONE"
  /\ devices' = [devices EXCEPT ![v] = "ACTIVE"]
  /\ UNCHANGED <<approvals, relay, lock, answered>>

revoke(v) ==
  /\ lock = None
  /\ devices[v] = "ACTIVE"
  /\ devices' = [devices EXCEPT ![v] = "REVOKED"]
  /\ UNCHANGED <<approvals, relay, lock, answered>>

-----------------------------------------------------------------------------
(* relay.accept_envelope.                                                   *)

\* "=" between columns: a NULL nonce equals nothing, itself included.
SameSlot(row, slot) == row = slot /\ slot.nonce # None

Existing(slot) ==
  {a \in Approvals : approvals[a] # None /\ SameSlot(approvals[a], slot)}

\* RelayRejected: an inactive device, or a signature that is not 64 bytes long,
\* another decision or a draft that is not there.
Rejects(r, slot, sound) ==
  /\ relay[r].pc = "idle"
  /\ devices[slot.device] # "ACTIVE" \/ ~sound
  /\ relay' = [relay EXCEPT ![r] = Answered("REJECTED")]
  /\ UNCHANGED <<devices, approvals, lock, answered>>

\* Mutant: the fetched row is returned instead of its first column.
Repeats_row(r, slot) ==
  /\ relay[r].pc = "idle"
  /\ devices[slot.device] = "ACTIVE"
  /\ \E a \in Existing(slot) :
       /\ relay' = [relay EXCEPT ![r] = Answered(<<a>>)]
       /\ answered' = answered \cup {<<slot, a>>}
  /\ UNCHANGED <<devices, approvals, lock>>

\* The envelope is there already: its id again.
Repeats(r, slot) ==
  /\ relay[r].pc = "idle"
  /\ devices[slot.device] = "ACTIVE"
  /\ \E a \in Existing(slot) :
       /\ relay' = [relay EXCEPT ![r] = Answered(a)]
       /\ answered' = answered \cup {<<slot, a>>}
  /\ UNCHANGED <<devices, approvals, lock>>

\* The checks pass and the SELECT finds nothing.
Misses(r, slot) ==
  /\ relay[r].pc = "idle"
  /\ devices[slot.device] = "ACTIVE"
  /\ Existing(slot) = {}
  /\ relay' = [relay EXCEPT ![r] = [pc |-> "insert", slot |-> slot,
                                    answer |-> None]]
  /\ UNCHANGED <<devices, approvals, lock, answered>>

CanWrite(r) == lock \in {None, r}

\* INSERT and commit, which also ends a transaction the connection left open.
Inserts(r, a) ==
  /\ relay[r].pc = "insert"
  /\ CanWrite(r)
  /\ Existing(relay[r].slot) = {}
  /\ approvals[a] = None
  /\ approvals' = [approvals EXCEPT ![a] = relay[r].slot]
  /\ answered' = answered \cup {<<relay[r].slot, a>>}
  /\ relay' = [relay EXCEPT ![r] = Answered(a)]
  /\ lock' = None
  /\ UNCHANGED <<devices>>

\* Mutant: INSERT OR IGNORE, and the new id is returned all the same.
Conflicts_ignored(r) ==
  /\ relay[r].pc = "insert"
  /\ CanWrite(r)
  /\ Existing(relay[r].slot) # {}
  /\ \E a \in {b \in Approvals : approvals[b] = None} :
       /\ relay' = [relay EXCEPT ![r] = Answered(a)]
       /\ answered' = answered \cup {<<relay[r].slot, a>>}
  /\ lock' = None
  /\ UNCHANGED <<devices, approvals>>

\* Another relay was first: IntegrityError leaves the function with the
\* transaction of the INSERT open, so the connection keeps the write lock.
Conflicts(r) ==
  /\ relay[r].pc = "insert"
  /\ CanWrite(r)
  /\ Existing(relay[r].slot) # {}
  /\ relay' = [relay EXCEPT ![r] = Answered("CONFLICT")]
  /\ lock' = r
  /\ UNCHANGED <<devices, approvals, answered>>

\* "database is locked" leaves accept_envelope as an exception.
Raises(r) ==
  /\ relay[r].pc = "insert"
  /\ ~CanWrite(r)
  /\ relay' = [relay EXCEPT ![r] = Answered("LOCKED")]
  /\ UNCHANGED <<devices, approvals, lock, answered>>

\* The process dies, before the INSERT or after an answer that may be lost.
RelayCrashes(r) ==
  /\ relay' = [relay EXCEPT ![r] = Answered(None)]
  /\ lock' = IF lock = r THEN None ELSE lock
  /\ UNCHANGED <<devices, approvals, answered>>

-----------------------------------------------------------------------------
RelayStep(r) ==
  \/ \E slot \in Slot, sound \in BOOLEAN : Rejects(r, slot, sound)
  \/ \E slot \in Slot : Repeats(r, slot)
  \/ \E slot \in Slot : Misses(r, slot)
  \/ \E a \in Approvals : Inserts(r, a)
  \/ Conflicts(r)
  \/ Raises(r)
  \/ RelayCrashes(r)

Next ==
  \/ \E v \in Devices : enroll(v)
  \/ \E v \in Devices : revoke(v)
  \/ \E r \in Relays : RelayStep(r)

Spec == Init /\ [][Next]_vars

-----------------------------------------------------------------------------
(* Properties.                                                              *)

\* However often and through however many relays an envelope arrives, every
\* answer names one and the same row, which is on disk and is that envelope's:
\* a phone that stops resending has left its decision behind.
AnswerIsDurable ==
  \A x, y \in answered :
    /\ approvals[x[2]] = x[1]
    /\ x[1] = y[1] /\ x[1].nonce # None => x[2] = y[2]

-----------------------------------------------------------------------------
(* What the documentation says and the code does not do.                    *)

\* The design, 6.7: "Received N times -> persisted once".  An envelope without
\* a nonce is stored once per arrival.
PersistedOnce ==
  \A a, b \in Approvals :
    approvals[a] # None /\ approvals[a] = approvals[b] => a = b
=============================================================================
