-------------------------- MODULE ImportStoreProofs --------------------------
(* Safety of import and import-undo for any set of transcripts, any number   *)
(* of batches and of processes that run the verbs at once.                   *)
EXTENDS ImportStore, FiniteSetTheorems, TLAPS

(* The inductive invariant, in parts.                                       *)

\* Every observation is of a batch that stands, at a message header of its
\* transcript, and names the message the record's fingerprint has now.
Sound(o) ==
  /\ o.batch \in Live
  /\ o.ordinal \in MessageHeaders(batches[o.batch].export)
  /\ import_fingerprint(batches[o.batch].export, o.ordinal) \in Stored
  /\ o.id = Id(import_fingerprint(batches[o.batch].export, o.ordinal))

ObservationsSound == \A o \in observations : Sound(o)

\* Every message header of a batch that stands is observed.
ObservationsComplete ==
  \A b \in Live : \A i \in MessageHeaders(batches[b].export) :
    \E o \in observations : o.batch = b /\ o.ordinal = i

\* No message is kept that nobody observes.
MessagesObserved == \A f \in Stored : \E o \in observations : o.id = Id(f)

\* An undo that is past its SELECT knows at least the messages its batch still
\* observes, unless another process has undone the batch meanwhile.
UndoKnows ==
  \A p \in Procs : undoing[p] # None =>
    /\ batches[undoing[p].batch] # None
    /\ undoing[p].batch \in Live =>
         \A o \in observations : o.batch = undoing[p].batch => o.id \in undoing[p].ids

\* A process that goes on to its import has its artefact on disk.
ArtefactWritten == \A p \in Procs : stored[p] # None => stored[p] \in artefacts

IInv ==
  /\ TypeOK
  /\ derived = Live
  /\ ObservationsSound
  /\ ObservationsComplete
  /\ MessagesObserved
  /\ UndoKnows
  /\ ArtefactWritten
  /\ SearchCoversMessages
  /\ ArtefactBehindRow
-----------------------------------------------------------------------------
(* Fingerprints and ids.                                                    *)

\* Two records of one transcript never share a fingerprint: equal records differ
\* in their occurrence index, so a line repeated k times is kept k times.
LEMMA FingerprintsDiffer ==
  ASSUME NEW x \in Exports, NEW i \in MessageHeaders(x), NEW j \in MessageHeaders(x),
         import_fingerprint(x, i) = import_fingerprint(x, j)
  PROVE  i = j
<1> DEFINE Before(m) == {n \in MessageHeaders(x) : n < m /\ Record(x, n) = Record(x, m)}
<1>1. text[x] \in Seq(Lines) /\ MessageHeaders(x) \subseteq 1..Len(text[x])
  BY ImportAssumption DEF MessageHeaders
<1>2. Len(text[x]) \in Nat
  BY <1>1
<1>3. IsFiniteSet(1..Len(text[x]))
  BY <1>2, FS_Interval
<1>4. \A m : IsFiniteSet(Before(m)) /\ Cardinality(Before(m)) \in Nat
  <2>1. \A m : Before(m) \subseteq 1..Len(text[x])
    BY <1>1
  <2> HIDE DEF Before
  <2> QED BY <1>3, <2>1, FS_Subset, FS_CardinalityType
<1>5. Record(x, i) = Record(x, j) /\ Cardinality(Before(i)) = Cardinality(Before(j))
  BY DEF import_fingerprint
<1>6. i \in Nat /\ j \in Nat
  BY <1>1, <1>2
<1>7. ASSUME NEW m \in MessageHeaders(x), NEW n \in MessageHeaders(x), m < n,
             Record(x, m) = Record(x, n), m \in Nat, n \in Nat
      PROVE  Cardinality(Before(m)) < Cardinality(Before(n))
  <2>1. Before(m) \cup {m} \subseteq Before(n) /\ m \notin Before(m)
    BY <1>1, <1>2, <1>7
  <2> HIDE DEF Before
  <2>2. Cardinality(Before(m) \cup {m}) = Cardinality(Before(m)) + 1
    BY <1>4, <2>1, FS_AddElement
  <2>3. Cardinality(Before(m) \cup {m}) <= Cardinality(Before(n))
    BY <1>4, <2>1, FS_Subset
  <2> QED BY <1>4, <2>2, <2>3
<1> HIDE DEF Before
<1>8. ~(i < j) /\ ~(j < i)
  BY <1>4, <1>5, <1>6, <1>7
<1> QED BY <1>6, <1>8

\* A record's fingerprint is one of the fingerprints there are.
LEMMA FingerprintKnown ==
  ASSUME NEW x \in Exports, NEW i \in MessageHeaders(x)
  PROVE  /\ import_fingerprint(x, i) \in FingerprintsOf(x)
         /\ import_fingerprint(x, i) \in Fingerprints
         /\ i \in Nat
<1>1. text[x] \in Seq(Lines)
  BY ImportAssumption
<1>2. i \in Nat
  BY <1>1 DEF MessageHeaders
<1> QED BY <1>2 DEF FingerprintsOf, Fingerprints

\* An id names its fingerprint, and is an id.
LEMMA IdNames ==
  /\ \A f, g : Id(f) = Id(g) => f = g
  /\ \A f : Id(f)[1] = f
  /\ TypeOK => \A f \in Stored : Id(f) \in MsgIds
BY DEF Id, MsgIds, TypeOK, Stored, Message

-----------------------------------------------------------------------------
(* Preservation, action by action.                                          *)

\* An empty vault.
LEMMA InitInv == Init => IInv
<1> SUFFICES ASSUME Init PROVE IInv
  OBVIOUS
<1>1. TypeOK
  BY DEF Init, TypeOK
<1>2. Live = {} /\ Stored = {}
  BY DEF Init, Live, Stored
<1>3. derived = Live /\ ObservationsSound /\ ObservationsComplete /\ MessagesObserved
  BY <1>2 DEF Init, ObservationsSound, ObservationsComplete, MessagesObserved
<1>4. UndoKnows /\ ArtefactWritten /\ SearchCoversMessages /\ ArtefactBehindRow
  BY <1>2 DEF Init, UndoKnows, ArtefactWritten, SearchCoversMessages, ArtefactBehindRow
<1> QED BY <1>1, <1>3, <1>4 DEF IInv

\* Rows and messages as they were: the steps that only write files, the index or
\* a process's own notes.
LEMMA FrameStep ==
  ASSUME IInv, UNCHANGED <<batches, messages, observations, derived>>
  PROVE  /\ derived' = Live' /\ Live' = Live /\ Stored' = Stored
         /\ \A f : Id(f)' = Id(f)
         /\ ObservationsSound' /\ ObservationsComplete' /\ MessagesObserved'
BY DEF IInv, Live, Stored, Id, ObservationsSound, Sound, ObservationsComplete,
       MessagesObserved

\* store_source_artifact: the artefact is on disk when the process goes on.
LEMMA StoreStep ==
  ASSUME IInv, NEW p \in Procs, NEW x \in Exports, store_source_artifact(p, x)
  PROVE  IInv'
<1> USE DEF store_source_artifact
<1>1. TypeOK'
  BY DEF IInv, TypeOK
<1>2. UndoKnows'
  BY FrameStep DEF IInv, UndoKnows
<1>3. ArtefactWritten' /\ ArtefactBehindRow'
  BY DEF IInv, TypeOK, ArtefactWritten, ArtefactBehindRow
<1>4. SearchCoversMessages'
  BY FrameStep DEF IInv, SearchCoversMessages
<1> QED BY <1>1, <1>2, <1>3, <1>4, FrameStep DEF IInv

\* The SELECT of undo_batch, in autocommit.
LEMMA UndoReadsStep ==
  ASSUME IInv, NEW p \in Procs, NEW b \in Batches, UndoReads(p, b)
  PROVE  IInv'
<1> DEFINE ids == {o.id : o \in {q \in observations : q.batch = b}}
<1> USE DEF UndoReads
<1>1. ids \subseteq MsgIds
  BY DEF IInv, TypeOK, Observation
<1>2. /\ undoing'[p] = [batch |-> b, ids |-> ids]
      /\ \A q \in Procs : q # p => undoing'[q] = undoing[q]
  BY DEF IInv, TypeOK
<1>3. TypeOK'
  <2> HIDE DEF ids
  <2>1. [batch |-> b, ids |-> ids] \in Undo
    BY <1>1 DEF Undo
  <2>2. undoing' \in [Procs -> Undo \cup {None}]
    BY <2>1 DEF IInv, TypeOK, ids
  <2> QED BY <2>2 DEF IInv, TypeOK
<1>4. UndoKnows'
  <2>1. \A o \in observations : o.batch = b => o.id \in ids
    OBVIOUS
  <2> HIDE DEF ids
  <2> QED BY <1>2, <2>1, FrameStep DEF IInv, UndoKnows
<1>5. ArtefactWritten' /\ ArtefactBehindRow'
  BY DEF IInv, ArtefactWritten, ArtefactBehindRow
<1>6. SearchCoversMessages'
  BY FrameStep DEF IInv, SearchCoversMessages
<1> QED BY <1>3, <1>4, <1>5, <1>6, FrameStep DEF IInv

\* A process dies with what it noted.
LEMMA DiesStep ==
  ASSUME IInv, NEW p \in Procs, Dies(p)
  PROVE  IInv'
<1> USE DEF Dies
<1>1. TypeOK'
  BY DEF IInv, TypeOK
<1>2. UndoKnows'
  BY FrameStep DEF IInv, TypeOK, UndoKnows
<1>3. ArtefactWritten' /\ ArtefactBehindRow'
  BY DEF IInv, TypeOK, ArtefactWritten, ArtefactBehindRow
<1>4. SearchCoversMessages'
  BY FrameStep DEF IInv, SearchCoversMessages
<1> QED BY <1>1, <1>2, <1>3, <1>4, FrameStep DEF IInv

\* rebuild_all: the index is exactly the messages.
LEMMA RebuildStep == IInv /\ rebuild_all => IInv'
<1> SUFFICES ASSUME IInv, rebuild_all PROVE IInv'
  OBVIOUS
<1> USE DEF rebuild_all
<1>1. documents' \subseteq MsgIds
  BY IdNames DEF IInv
<1>2. TypeOK'
  BY <1>1 DEF IInv, TypeOK
<1>3. UndoKnows'
  BY FrameStep DEF IInv, UndoKnows
<1>4. ArtefactWritten' /\ ArtefactBehindRow'
  BY DEF IInv, ArtefactWritten, ArtefactBehindRow
<1>5. SearchCoversMessages'
  BY FrameStep DEF SearchCoversMessages
<1> QED BY <1>2, <1>3, <1>4, <1>5, FrameStep DEF IInv

\* import_batch: messages that are there are kept and observed once more, the
\* others are written, observed and indexed.
LEMMA ImportStep ==
  ASSUME IInv, NEW p \in Procs, NEW x \in Exports, NEW l \in SelfLabels,
         NEW b \in Batches, import_batch(p, x, l, b)
  PROVE  IInv'
<1> DEFINE row == [export |-> x, label |-> l, artefact |-> stored[p] = x, undone |-> FALSE]
           New == FingerprintsOf(x) \ Stored
<1> USE DEF import_batch
<1>1. TypeOK
  BY DEF IInv
<1>2. row \in Batch /\ row # None
  <2>1. row \in Batch
    BY ImportAssumption DEF Batch
  <2> QED BY <2>1, NoRowAssumption
<1>3. batches'[b] = row /\ \A c \in Batches : c # b => batches'[c] = batches[c]
  BY <1>1 DEF TypeOK
<1>4. row.export = x /\ ~row.undone /\ (row.artefact <=> stored[p] = x)
  OBVIOUS
<1> HIDE DEF row
<1>5. b \notin Live /\ Live' = Live \cup {b}
  BY <1>2, <1>3, <1>4 DEF Live
<1>6. FingerprintsOf(x) \subseteq Fingerprints
  BY DEF Fingerprints
<1>7. \A f \in Stored : messages'[f] = messages[f]
  BY DEF Imported, Stored
<1>8. \A f \in New : messages'[f] \in Message /\ messages'[f].n = minted[f] + 1
  BY <1>1, <1>6 DEF Imported, Direction, Message, TypeOK, Stored
<1>9. \A f \in New : messages'[f] # None
  BY <1>8, NoRowAssumption
<1>10. Stored' = Stored \cup FingerprintsOf(x)
  <2>1. \A f \in Fingerprints : f \notin Stored \cup FingerprintsOf(x) => messages'[f] = None
    BY DEF Imported, Stored
  <2>2. \A f \in Stored : messages'[f] # None
    BY <1>7 DEF Stored
  <2> QED BY <1>6, <1>9, <2>1, <2>2 DEF Stored
<1>11. /\ \A f \in Stored : Id(f)' = Id(f)
       /\ \A f \in New : Id(f)' = <<f, minted[f] + 1>>
  BY <1>7, <1>8 DEF Id
<1>12. \A o \in Observed(b, x) :
         /\ o.batch = b
         /\ o.ordinal \in MessageHeaders(x)
         /\ o.id = Id(import_fingerprint(x, o.ordinal))'
  <2> SUFFICES ASSUME NEW i \in MessageHeaders(x)
               PROVE  (LET f == import_fingerprint(x, i)
                       IN IF f \in Stored THEN Id(f) ELSE <<f, minted[f] + 1>>)
                        = Id(import_fingerprint(x, i))'
    BY DEF Observed
  <2>1. import_fingerprint(x, i) \in FingerprintsOf(x)
    BY FingerprintKnown
  <2> QED BY <1>11, <2>1
<1>13. \A i \in MessageHeaders(x) : \E o \in Observed(b, x) : o.batch = b /\ o.ordinal = i
  <2> TAKE i \in MessageHeaders(x)
  <2> DEFINE f == import_fingerprint(x, i)
             o == [batch |-> b, ordinal |-> i,
                   id |-> IF f \in Stored THEN Id(f) ELSE <<f, minted[f] + 1>>]
  <2>1. o \in Observed(b, x)
    BY DEF Observed
  <2>2. o.batch = b /\ o.ordinal = i
    OBVIOUS
  <2> QED BY <2>1, <2>2
<1>14. \A f \in Stored' : Id(f)' \in MsgIds
  <2>1. \A f \in Stored : Id(f) \in MsgIds
    BY <1>1, IdNames
  <2>2. \A f \in New : <<f, minted[f] + 1>> \in MsgIds
    BY <1>1, <1>6 DEF TypeOK, MsgIds
  <2> QED BY <1>10, <1>11, <2>1, <2>2
<1>15. TypeOK'
  <2>1. messages' \in [Fingerprints -> Message \cup {None}]
    <3>1. \A f \in Fingerprints : messages'[f] \in Message \cup {None}
      BY <1>1, <1>7, <1>8, <1>10 DEF TypeOK, Stored
    <3>2. messages' = [f \in Fingerprints |-> messages'[f]]
      BY DEF Imported
    <3> QED BY <3>1, <3>2
  <2>2. minted' \in [Fingerprints -> Nat]
    BY <1>1 DEF TypeOK
  <2>3. Observed(b, x) \subseteq Observation
    <3> SUFFICES ASSUME NEW o \in Observed(b, x) PROVE o \in Observation
      OBVIOUS
    <3>1. PICK i \in MessageHeaders(x) :
            o = [batch |-> b, ordinal |-> i,
                 id |-> LET f == import_fingerprint(x, i)
                        IN IF f \in Stored THEN Id(f) ELSE <<f, minted[f] + 1>>]
      BY DEF Observed
    <3>2. i \in Nat /\ import_fingerprint(x, i) \in Stored'
      BY <1>10, FingerprintKnown
    <3>3. o.id \in MsgIds /\ o.batch \in Batches /\ o.ordinal \in Nat
      BY <1>12, <1>14, <3>1, <3>2
    <3> QED BY <3>1, <3>3 DEF Observation
  <2>4. Staged(x) \subseteq MsgIds
    BY <1>1, <1>6 DEF Staged, MsgIds, TypeOK
  <2>5. batches' \in [Batches -> Batch \cup {None}]
    BY <1>1, <1>2 DEF TypeOK, row
  <2> QED BY <1>1, <2>1, <2>2, <2>3, <2>4, <2>5 DEF TypeOK
<1>16. \A o \in observations : o.batch \in Batches /\ o.batch # b
  BY <1>1, <1>5 DEF IInv, ObservationsSound, Sound, TypeOK, Observation
<1>17. ObservationsSound'
  <2>1. ASSUME NEW o \in observations
        PROVE  Sound(o)'
    <3>1. batches'[o.batch] = batches[o.batch]
      BY <1>3, <1>16
    <3>2. Sound(o)
      BY DEF IInv, ObservationsSound
    <3> QED BY <1>5, <1>10, <1>11, <3>1, <3>2 DEF Sound
  <2>2. ASSUME NEW o \in Observed(b, x)
        PROVE  Sound(o)'
    <3>1. o.batch = b /\ o.ordinal \in MessageHeaders(x) /\ batches'[b].export = x
      BY <1>3, <1>4, <1>12
    <3>2. import_fingerprint(x, o.ordinal) \in Stored'
      BY <1>10, <3>1, FingerprintKnown
    <3>3. o.id = Id(import_fingerprint(x, o.ordinal))'
      BY <1>12
    <3> QED BY <1>5, <3>1, <3>2, <3>3 DEF Sound
  <2> QED BY <2>1, <2>2 DEF ObservationsSound
<1>18. ObservationsComplete'
  <2> SUFFICES ASSUME NEW c \in Live', NEW i \in MessageHeaders(batches'[c].export)
               PROVE  \E o \in observations' : o.batch = c /\ o.ordinal = i
    BY DEF ObservationsComplete, MessageHeaders
  <2>1. CASE c = b
    BY <1>3, <1>4, <1>13, <2>1
  <2>2. CASE c # b
    BY <1>3, <1>5, <2>2 DEF IInv, ObservationsComplete, Live
  <2> QED BY <2>1, <2>2
<1>19. MessagesObserved'
  <2> SUFFICES ASSUME NEW f \in Stored'
               PROVE  \E o \in observations' : o.id = Id(f)'
    BY DEF MessagesObserved
  <2>1. CASE f \in Stored
    BY <1>11, <2>1 DEF IInv, MessagesObserved
  <2>2. CASE f \in FingerprintsOf(x)
    <3>1. PICK i \in MessageHeaders(x) : f = import_fingerprint(x, i)
      BY <2>2 DEF FingerprintsOf
    <3> QED BY <1>12, <1>13, <3>1
  <2> QED BY <1>10, <2>1, <2>2
<1>20. UndoKnows'
  <2>1. ASSUME NEW q \in Procs, undoing[q] # None
        PROVE  undoing[q].batch \in Batches /\ undoing[q].batch # b
    BY <1>1, <2>1 DEF IInv, TypeOK, UndoKnows, Undo
  <2> QED BY <1>3, <1>5, <1>12, <2>1 DEF IInv, UndoKnows
<1>21. ArtefactWritten'
  BY <1>1 DEF IInv, TypeOK, ArtefactWritten
<1>22. SearchCoversMessages'
  <2>1. \A f \in New : <<f, minted[f] + 1>> \in documents'
    BY DEF Staged
  <2> QED BY <1>10, <1>11, <2>1 DEF IInv, SearchCoversMessages
<1>23. ArtefactBehindRow'
  <2>1. row.artefact => x \in artefacts
    BY <1>4, ImportAssumption DEF IInv, ArtefactWritten
  <2> QED BY <1>3, <1>4, <2>1 DEF IInv, ArtefactBehindRow
<1> QED
  BY <1>5, <1>15, <1>17, <1>18, <1>19, <1>20, <1>21, <1>22, <1>23 DEF IInv

\* The transaction of undo_batch: of the messages its SELECT found, those go that
\* no other batch observes by now; a second undo of the batch takes nothing.
LEMMA UndoStep ==
  ASSUME IInv, NEW p \in Procs, undo_batch(p)
  PROVE  IInv'
<1> DEFINE b == undoing[p].batch
           ids == undoing[p].ids
           left == {o \in observations : o.batch # b}
           row == [export |-> batches[b].export, label |-> batches[b].label,
                   artefact |-> batches[b].artefact, undone |-> TRUE]
<1> USE DEF undo_batch
<1>1. TypeOK /\ b \in Batches /\ ids \subseteq MsgIds
  BY DEF IInv, TypeOK, Undo
<1>2. batches[b] \in Batch
  BY <1>1 DEF IInv, UndoKnows, TypeOK
<1>3. row \in Batch
  BY <1>2 DEF Batch
<1>4. row # None
  BY <1>3, NoRowAssumption
<1>5. batches' = [batches EXCEPT ![b] = row]
  OBVIOUS
<1>6. row.export = batches[b].export /\ row.artefact = batches[b].artefact /\ row.undone
  OBVIOUS
<1> HIDE DEF row
<1>7. batches'[b] = row /\ \A c \in Batches : c # b => batches'[c] = batches[c]
  BY <1>1, <1>5 DEF TypeOK
<1>8. Live' = Live \ {b}
  BY <1>1, <1>6, <1>7 DEF Live
<1>9. observations' = left
  OBVIOUS
<1>10. messages' = [f \in Fingerprints |-> IF f \in Orphaned(ids, left) THEN None
                                           ELSE messages[f]]
  OBVIOUS
<1>11. undoing' = [undoing EXCEPT ![p] = None] /\ derived' = derived \ {b}
  OBVIOUS
<1>12. UNCHANGED <<minted, documents, artefacts, stored>>
  OBVIOUS
<1>13. \A o \in observations : o.batch = b => o.id \in ids
  BY DEF IInv, UndoKnows, ObservationsSound, Sound
<1> HIDE DEF undo_batch, b, ids
<1>14. Stored' = Stored \ Orphaned(ids, left)
  BY <1>10 DEF Stored, Orphaned
<1>15. \A f \in Stored' : messages'[f] = messages[f] /\ Id(f)' = Id(f)
  BY <1>10, <1>14 DEF Stored, Id
<1>16. \A o \in left : \A f \in Stored : o.id = Id(f) => f \in Stored'
  BY <1>14 DEF Orphaned
<1>17. \A f \in Stored' : \E o \in left : o.id = Id(f)
  <2> TAKE f \in Stored'
  <2>1. f \in Stored /\ f \notin Orphaned(ids, left)
    BY <1>14
  <2>2. PICK o \in observations : o.id = Id(f)
    BY <2>1 DEF IInv, MessagesObserved
  <2>3. CASE o.batch = b
    BY <1>13, <2>1, <2>2, <2>3 DEF Orphaned
  <2>4. CASE o.batch # b
    BY <2>2, <2>4
  <2> QED BY <2>3, <2>4
<1>18. TypeOK'
  <2>1. messages' \in [Fingerprints -> Message \cup {None}]
    BY <1>1, <1>10 DEF TypeOK
  <2>2. batches' \in [Batches -> Batch \cup {None}]
    BY <1>1, <1>3, <1>5 DEF TypeOK
  <2> QED BY <1>1, <1>9, <1>11, <1>12, <2>1, <2>2 DEF TypeOK
<1>19. ObservationsSound'
  <2> SUFFICES ASSUME NEW o \in left PROVE Sound(o)'
    BY <1>9 DEF ObservationsSound
  <2>1. Sound(o) /\ o.batch # b /\ o.batch \in Batches
    BY <1>1 DEF IInv, ObservationsSound, TypeOK, Observation
  <2>2. batches'[o.batch] = batches[o.batch]
    BY <1>7, <2>1
  <2>3. import_fingerprint(batches[o.batch].export, o.ordinal) \in Stored'
    BY <1>16, <2>1 DEF Sound
  <2> QED BY <1>8, <1>15, <2>1, <2>2, <2>3 DEF Sound
<1>20. ObservationsComplete'
  <2> SUFFICES ASSUME NEW c \in Live', NEW i \in MessageHeaders(batches'[c].export)
               PROVE  \E o \in left : o.batch = c /\ o.ordinal = i
    BY <1>9 DEF ObservationsComplete, MessageHeaders
  <2>1. c \in Live /\ c # b /\ batches'[c] = batches[c]
    BY <1>7, <1>8 DEF Live
  <2> QED BY <2>1 DEF IInv, ObservationsComplete
<1>21. MessagesObserved'
  BY <1>9, <1>15, <1>17 DEF MessagesObserved
<1>22. UndoKnows'
  <2> SUFFICES ASSUME NEW q \in Procs, undoing'[q] # None
               PROVE  /\ batches'[undoing'[q].batch] # None
                      /\ undoing'[q].batch \in Live' =>
                           \A o \in observations' :
                             o.batch = undoing'[q].batch => o.id \in undoing'[q].ids
    BY DEF UndoKnows
  <2>1. undoing'[q] = undoing[q]
    BY <1>1, <1>11 DEF TypeOK
  <2>2. undoing[q].batch \in Batches
    BY <1>1, <2>1 DEF TypeOK, Undo
  <2> QED BY <1>4, <1>7, <1>8, <1>9, <2>1, <2>2 DEF IInv, UndoKnows
<1>23. ArtefactWritten' /\ SearchCoversMessages'
  BY <1>12, <1>14, <1>15 DEF IInv, ArtefactWritten, SearchCoversMessages
<1>24. ArtefactBehindRow'
  BY <1>1, <1>2, <1>6, <1>7, <1>12, NoRowAssumption DEF IInv, ArtefactBehindRow
<1> QED
  BY <1>8, <1>11, <1>18, <1>19, <1>20, <1>21, <1>22, <1>23, <1>24 DEF IInv

\* Every step of every process keeps the invariant.
LEMMA InvStep == IInv /\ [Next]_vars => IInv'
<1> SUFFICES ASSUME IInv, [Next]_vars PROVE IInv'
  OBVIOUS
<1>1. CASE UNCHANGED vars
  <2> USE <1>1 DEF vars
  <2>1. TypeOK'
    BY DEF IInv, TypeOK
  <2>2. UndoKnows' /\ SearchCoversMessages'
    BY FrameStep DEF IInv, UndoKnows, SearchCoversMessages
  <2>3. ArtefactWritten' /\ ArtefactBehindRow'
    BY DEF IInv, ArtefactWritten, ArtefactBehindRow
  <2> QED BY <2>1, <2>2, <2>3, FrameStep DEF IInv
<1>2. CASE Next
  BY <1>2, StoreStep, ImportStep, UndoReadsStep, UndoStep, DiesStep, RebuildStep DEF Next
<1> QED BY <1>1, <1>2

-----------------------------------------------------------------------------
(* The theorems.                                                            *)

\* The invariant holds in every reachable state, for any transcripts and any
\* number of batches and processes.
THEOREM Invariance == Spec => []IInv
<1>1. Init => IInv
  BY InitInv
<1>2. IInv /\ [Next]_vars => IInv'
  BY InvStep
<1> QED BY <1>1, <1>2, PTL DEF Spec

\* Type correctness: import_batch and undo_batch write well-formed rows.
THEOREM TypeCorrect == Spec => []TypeOK
<1>1. IInv => TypeOK
  BY DEF IInv
<1> QED BY <1>1, Invariance, PTL

\* The vault holds exactly the messages of the batches that have not been undone,
\* however import_batch and undo_batch of several processes interleave.
THEOREM VaultIsLiveImports == Spec => []ExactlyLiveImports
<1>1. IInv => ExactlyLiveImports
  <2> SUFFICES ASSUME IInv PROVE ExactlyLiveImports
    OBVIOUS
  <2>1. \A b \in Live : b \in Batches /\ batches[b].export \in Exports
    BY DEF IInv, TypeOK, Live, Batch
  <2>2. ASSUME NEW f \in Stored
        PROVE  \E b \in Live : f \in FingerprintsOf(batches[b].export)
    <3>1. PICK o \in observations : o.id = Id(f)
      BY DEF IInv, MessagesObserved
    <3>2. Sound(o)
      BY DEF IInv, ObservationsSound
    <3>3. f = import_fingerprint(batches[o.batch].export, o.ordinal)
      BY <3>1, <3>2, IdNames DEF Sound
    <3> QED BY <2>1, <3>2, <3>3, FingerprintKnown DEF Sound
  <2>3. ASSUME NEW b \in Live, NEW f \in FingerprintsOf(batches[b].export)
        PROVE  f \in Stored
    <3>1. PICK i \in MessageHeaders(batches[b].export) :
            f = import_fingerprint(batches[b].export, i)
      BY DEF FingerprintsOf
    <3>2. PICK o \in observations : o.batch = b /\ o.ordinal = i
      BY DEF IInv, ObservationsComplete
    <3> QED BY <3>1, <3>2 DEF IInv, ObservationsSound, Sound
  <2> QED BY <2>2, <2>3 DEF ExactlyLiveImports
<1> QED BY <1>1, Invariance, PTL

\* Provenance is complete and a batch that was undone leaves nothing: one
\* observation per record, of the record's own message.
THEOREM ProvenanceKept == Spec => []ProvenanceIsComplete
<1>1. IInv => ProvenanceIsComplete
  <2> SUFFICES ASSUME IInv PROVE ProvenanceIsComplete
    OBVIOUS
  <2>1. derived = Live /\ \A o \in observations : o.batch \in Live
    BY DEF IInv, ObservationsSound, Sound
  <2>2. ASSUME NEW b \in Live, NEW i \in MessageHeaders(batches[b].export)
        PROVE  \E o \in observations :
                 /\ o.batch = b /\ o.ordinal = i
                 /\ o.id[1] \in Stored /\ o.id = Id(o.id[1])
                 /\ o.id[1] = import_fingerprint(batches[b].export, i)
                 /\ \A q \in observations : (q.batch = b /\ q.id = o.id) => q = o
    <3>1. PICK o \in observations : o.batch = b /\ o.ordinal = i
      BY DEF IInv, ObservationsComplete
    <3>2. /\ import_fingerprint(batches[b].export, i) \in Stored
          /\ o.id = Id(import_fingerprint(batches[b].export, i))
      BY <3>1 DEF IInv, ObservationsSound, Sound
    <3>3. o.id[1] = import_fingerprint(batches[b].export, i)
      BY <3>2, IdNames
    <3>4. ASSUME NEW q \in observations, q.batch = b, q.id = o.id
          PROVE  q = o
      <4>1. /\ q.ordinal \in MessageHeaders(batches[b].export)
            /\ q.id = Id(import_fingerprint(batches[b].export, q.ordinal))
        BY <3>4 DEF IInv, ObservationsSound, Sound
      <4>2. import_fingerprint(batches[b].export, q.ordinal)
              = import_fingerprint(batches[b].export, i)
        BY <3>2, <3>4, <4>1, IdNames
      <4>3. batches[b].export \in Exports
        BY DEF IInv, TypeOK, Live, Batch
      <4>4. q.ordinal = i
        BY <4>1, <4>2, <4>3, FingerprintsDiffer
      <4> QED BY <3>1, <3>4, <4>4 DEF IInv, TypeOK, Observation
    <3> QED BY <3>1, <3>2, <3>3, <3>4
  <2> QED BY <2>1, <2>2 DEF ProvenanceIsComplete
<1> QED BY <1>1, Invariance, PTL

\* Every message in the vault is in the search index, also one that was undone
\* and imported again.
THEOREM SearchIsComplete == Spec => []SearchCoversMessages
<1>1. IInv => SearchCoversMessages
  BY DEF IInv
<1> QED BY <1>1, Invariance, PTL

\* A batch row that names an artefact has it on disk.
THEOREM ArtefactKept == Spec => []ArtefactBehindRow
<1>1. IInv => ArtefactBehindRow
  BY DEF IInv
<1> QED BY <1>1, Invariance, PTL
=============================================================================
