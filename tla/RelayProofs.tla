----------------------------- MODULE RelayProofs -----------------------------
(* Safety of the relay for any number of drafts, devices, nonces, rows and   *)
(* relay processes.                                                          *)
EXTENDS Relay, TLAPS

\* The UNIQUE index: a slot with a nonce has one row.
SlotsUnique ==
  \A a, b \in Approvals :
    (approvals[a] # None /\ approvals[b] # None /\ SameSlot(approvals[a], approvals[b]))
      => a = b

\* Every answer names the row of its envelope.
AnswersStored ==
  \A x \in answered : x[2] \in Approvals /\ x[1] \in Slot /\ approvals[x[2]] = x[1]

IInv == TypeOK /\ SlotsUnique /\ AnswersStored

-----------------------------------------------------------------------------
\* No row has been written and nothing answered.
LEMMA InitInv == Init => IInv
BY DEF Init, IInv, TypeOK, SlotsUnique, AnswersStored, Answered, Call

\* A step that leaves the table and the answers alone.
LEMMA FrameStep ==
  ASSUME IInv, TypeOK', UNCHANGED <<approvals, answered>>
  PROVE  IInv'
BY DEF IInv, SlotsUnique, AnswersStored

\* Devices, refusals and deaths change neither rows nor answers.
LEMMA QuietStep ==
  ASSUME IInv, NEW r \in Relays,
         \/ \E v \in Devices : enroll(v) \/ revoke(v)
         \/ \E slot \in Slot, sound \in BOOLEAN : Rejects(r, slot, sound)
         \/ \E slot \in Slot : Misses(r, slot)
         \/ Conflicts(r) \/ Raises(r) \/ RelayCrashes(r)
  PROVE  IInv'
<1>1. UNCHANGED <<approvals, answered>>
  BY DEF enroll, revoke, Rejects, Misses, Conflicts, Raises, RelayCrashes
<1>2. TypeOK'
  BY DEF IInv, TypeOK, enroll, revoke, Rejects, Misses, Conflicts, Raises,
         RelayCrashes, Answered, Call, Refusal
<1> QED BY <1>1, <1>2, FrameStep

\* A repeated envelope is answered with a row that is its own.
LEMMA RepeatsStep ==
  ASSUME IInv, NEW r \in Relays, NEW slot \in Slot, Repeats(r, slot)
  PROVE  IInv'
<1>1. PICK a \in Existing(slot) :
        /\ relay' = [relay EXCEPT ![r] = Answered(a)]
        /\ answered' = answered \cup {<<slot, a>>}
  BY DEF Repeats
<1>2. a \in Approvals /\ approvals[a] = slot
  BY DEF Existing, SameSlot
<1>3. UNCHANGED <<devices, approvals, lock>>
  BY DEF Repeats
<1>4. TypeOK'
  BY <1>1, <1>2, <1>3 DEF IInv, TypeOK, Answered, Call
<1>5. SlotsUnique'
  BY <1>3 DEF IInv, SlotsUnique
<1>6. AnswersStored'
  BY <1>1, <1>2, <1>3 DEF IInv, AnswersStored
<1> QED BY <1>4, <1>5, <1>6 DEF IInv

\* The INSERT finds the slot free and takes an id nobody was answered with.
LEMMA InsertsStep ==
  ASSUME IInv, NEW r \in Relays, NEW a \in Approvals, Inserts(r, a)
  PROVE  IInv'
<1> DEFINE slot == relay[r].slot
<1>1. slot \in Slot
  BY DEF Inserts, IInv, TypeOK, Call
<1>2. slot # None
  BY <1>1, SlotAssumption
<1>3. /\ approvals[a] = None /\ Existing(slot) = {}
      /\ approvals' = [approvals EXCEPT ![a] = slot]
      /\ answered' = answered \cup {<<slot, a>>}
      /\ relay' = [relay EXCEPT ![r] = Answered(a)]
      /\ lock' = None /\ UNCHANGED devices
  BY DEF Inserts
<1>4. TypeOK'
  BY <1>1, <1>3 DEF IInv, TypeOK, Answered, Call
<1>5. SlotsUnique'
  BY <1>1, <1>3 DEF IInv, TypeOK, SlotsUnique, Existing, SameSlot
<1>6. \A x \in answered : x[2] # a
  BY <1>3, SlotAssumption DEF IInv, AnswersStored
<1>7. AnswersStored'
  BY <1>1, <1>3, <1>6 DEF IInv, TypeOK, AnswersStored
<1> QED BY <1>4, <1>5, <1>7 DEF IInv

LEMMA InvStep == IInv /\ [Next]_vars => IInv'
<1> SUFFICES ASSUME IInv, [Next]_vars PROVE IInv'
  OBVIOUS
<1>1. CASE UNCHANGED vars
  BY <1>1, FrameStep DEF vars, IInv, TypeOK
<1>2. CASE \E v \in Devices : enroll(v) \/ revoke(v)
  <2>1. TypeOK'
    BY <1>2 DEF IInv, TypeOK, enroll, revoke
  <2> QED BY <1>2, <2>1, FrameStep DEF enroll, revoke
<1>3. CASE \E r \in Relays : RelayStep(r)
  BY <1>3, QuietStep, RepeatsStep, InsertsStep DEF RelayStep
<1> QED BY <1>1, <1>2, <1>3 DEF Next

\* The inductive invariant holds in every reachable state.
THEOREM Invariance == Spec => []IInv
BY InitInv, InvStep, PTL DEF Spec

\* Rows, calls and answers stay of their types, however many relays run.
THEOREM TypeCorrect == Spec => []TypeOK
<1>1. IInv => TypeOK
  BY DEF IInv
<1> QED BY <1>1, Invariance, PTL

\* accept_envelope answers the same envelope with one and the same durable row,
\* through any number of relays that race, fail and die.
THEOREM AnswersDurable == Spec => []AnswerIsDurable
<1>1. IInv => AnswerIsDurable
  <2> SUFFICES ASSUME IInv, NEW x \in answered, NEW y \in answered
               PROVE  /\ approvals[x[2]] = x[1]
                      /\ x[1] = y[1] /\ x[1].nonce # None => x[2] = y[2]
    BY DEF AnswerIsDurable
  <2>1. /\ x[2] \in Approvals /\ x[1] \in Slot /\ approvals[x[2]] = x[1]
        /\ y[2] \in Approvals /\ y[1] \in Slot /\ approvals[y[2]] = y[1]
    BY DEF IInv, AnswersStored
  <2>2. x[1] # None /\ y[1] # None
    BY <2>1, SlotAssumption
  <2> QED BY <2>1, <2>2 DEF IInv, SlotsUnique, SameSlot
<1> QED BY <1>1, Invariance, PTL
=============================================================================
