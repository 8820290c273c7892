----------------------------- MODULE ImportStore -----------------------------
(***************************************************************************)
(* The export importer and the search index it feeds: `whatsvault import`    *)
(* writes one batch of a transcript into vault.db, `whatsvault import-undo`  *)
(* takes a batch back while other batches may observe the same messages.     *)
(*                                                                         *)
(* The verbs run in processes of their own on one vault.db.  An import opens *)
(* its transaction with its first INSERT, before any SELECT, so it is one    *)
(* action; undo reads the batch's message ids in autocommit and opens its    *)
(* transaction afterwards.  A transaction that fails, is refused or dies is  *)
(* rolled back and changes nothing: no step.                                 *)
(***************************************************************************)
EXTENDS Naturals, Sequences, FiniteSets

CONSTANTS
  Lines,        \* lines of one conversation's text, as dated by the declared format
                \* and time zone; what the fingerprint ignores is no difference
  kind,         \* line -> "message": dated header with a sender; "system":
                \* dated header without; "boundary": header-shaped, but the date
                \* is invalid in the declared family; "more": anything else
  sender,       \* line -> the sender label of a message header
  Labels,       \* sender labels
  SelfLabels,   \* the labels importers declare as their own
  Exports,      \* transcripts with their declared date format and time zone
  text,         \* export -> sequence of lines
  Acceptable,   \* exports that pass the refusal gates: the declared family
                \* validates, a time zone is given, every DST fold is resolved
  Batches,      \* batch ids
  Procs,        \* processes that run the verbs
  None

ASSUME ImportAssumption ==
  /\ kind \in [Lines -> {"message", "system", "boundary", "more"}]
  /\ sender \in [Lines -> Labels]
  /\ SelfLabels \subseteq Labels
  /\ text \in [Exports -> Seq(Lines)]
  /\ Acceptable \subseteq Exports
  /\ None \notin Exports

VARIABLES
  batches,      \* import_batches: batch -> row, None before
  messages,     \* messages of origin manual_export, by import_fingerprint
  minted,       \* per fingerprint: message ids minted so far
  observations, \* message_import_observations
  derived,      \* batches with import_participants and conversation_sources rows
  documents,    \* search_documents: message ids
  artefacts,    \* exports whose sealed source is on disk
  stored,       \* per process: the export whose artefact it has written, or None
  undoing       \* per process: the undo_batch call past its SELECT, or None

vars == <<batches, messages, minted, observations, derived, documents, artefacts,
          stored, undoing>>

-----------------------------------------------------------------------------
(* parse_transcript and the fingerprints.                                   *)

Headers(x) == {i \in DOMAIN text[x] : kind[text[x][i]] \in {"message", "system"}}

MessageHeaders(x) == {i \in DOMAIN text[x] : kind[text[x][i]] = "message"}

\* The record that the header at i opens: it runs to the next dated header, an
\* ambiguous boundary is appended to the body like any other line.
Record(x, i) ==
  LET end == CHOOSE e \in i..Len(text[x]) :
               /\ (i + 1)..e \cap Headers(x) = {}
               /\ e = Len(text[x]) \/ e + 1 \in Headers(x)
  IN SubSeq(text[x], i, end)

\* import_fingerprint: the record's minute, sender, type and body, and its
\* occurrence index among equal records of the batch.
import_fingerprint(x, i) ==
  <<Record(x, i),
    Cardinality({j \in MessageHeaders(x) : j < i /\ Record(x, j) = Record(x, i)})>>

FingerprintsOf(x) == {import_fingerprint(x, i) : i \in MessageHeaders(x)}

Fingerprints == UNION {FingerprintsOf(x) : x \in Exports}

\* A message id is a fingerprint and which minting of it this is.
MsgIds == Fingerprints \X Nat

-----------------------------------------------------------------------------
Batch == [export: Exports, label: Labels, artefact: BOOLEAN, undone: BOOLEAN]

Message == [n: Nat, direction: {"in", "out"}]

Observation == [batch: Batches, ordinal: Nat, id: MsgIds]

Undo == [batch: Batches, ids: SUBSET MsgIds]

\* "No row" and "no call" are not a row or a call.
ASSUME NoRowAssumption == None \notin Batch \cup Message \cup Undo

TypeOK ==
  /\ batches \in [Batches -> Batch \cup {None}]
  /\ messages \in [Fingerprints -> Message \cup {None}]
  /\ minted \in [Fingerprints -> Nat]
  /\ observations \subseteq Observation
  /\ derived \subseteq Batches
  /\ documents \subseteq MsgIds
  /\ artefacts \subseteq Exports
  /\ stored \in [Procs -> Exports \cup {None}]
  /\ undoing \in [Procs -> Undo \cup {None}]

Init ==
  /\ batches = [b \in Batches |-> None]
  /\ messages = [f \in Fingerprints |-> None]
  /\ minted = [f \in Fingerprints |-> 0]
  /\ observations = {}
  /\ derived = {}
  /\ documents = {}
  /\ artefacts = {}
  /\ stored = [p \in Procs |-> None]
  /\ undoing = [p \in Procs |-> None]

Live == {b \in Batches : batches[b] # None /\ ~batches[b].undone}

\* The id of the message a fingerprint has at the moment.
Id(f) == <<f, messages[f].n>>

Stored == {f \in Fingerprints : messages[f] # None}

Free(p) == stored[p] = None /\ undoing[p] = None

-----------------------------------------------------------------------------
(* import.                                                                  *)

\* Seal, fsync, atomic rename, verify; the blob of an export replaces an older
\* one of the same export.
store_source_artifact(p, x) ==
  /\ Free(p)
  /\ artefacts' = artefacts \cup {x}
  /\ stored' = [stored EXCEPT ![p] = x]
  /\ UNCHANGED <<batches, messages, minted, observations, derived, documents,
                 undoing>>

\* Mutant: the direction is left NULL for everybody but the owner.
Direction_null(x, i, label) == IF sender[text[x][i]] = label THEN "out" ELSE None

Direction(x, i, label) == IF sender[text[x][i]] = label THEN "out" ELSE "in"

\* Messages after the import: a fingerprint that has a row keeps it.
Imported(x, label) ==
  [f \in Fingerprints |->
    IF f \in Stored \/ f \notin FingerprintsOf(x) THEN messages[f]
    ELSE [n |-> minted[f] + 1,
          direction |-> Direction(x, CHOOSE i \in MessageHeaders(x) :
                                       import_fingerprint(x, i) = f, label)]]

\* Mutant: a record that is already known is skipped altogether.
Observed_new_only(b, x) ==
  {[batch |-> b, ordinal |-> i,
    id |-> <<import_fingerprint(x, i), minted[import_fingerprint(x, i)] + 1>>] :
      i \in {j \in MessageHeaders(x) : import_fingerprint(x, j) \notin Stored}}

\* One observation per record, of the row found or of the one just written; the
\* header's position stands for source_ordinal.
Observed(b, x) ==
  {[batch |-> b, ordinal |-> i,
    id |-> LET f == import_fingerprint(x, i)
           IN IF f \in Stored THEN Id(f) ELSE <<f, minted[f] + 1>>] :
      i \in MessageHeaders(x)}

\* Mutant: a line that was indexed once is not indexed again.
Staged_once(x) == {<<f, 1>> : f \in {g \in FingerprintsOf(x) \ Stored : minted[g] = 0}}

\* stage_message, for new messages only.
Staged(x) == {<<f, minted[f] + 1>> : f \in FingerprintsOf(x) \ Stored}

\* import_batch: p imports x as batch b, with the artefact it has just stored
\* if there is one.
import_batch(p, x, label, b) ==
  /\ undoing[p] = None
  /\ stored[p] \in {None, x}
  /\ x \in Acceptable
  /\ batches[b] = None
  /\ batches' = [batches EXCEPT ![b] =
       [export |-> x, label |-> label, artefact |-> stored[p] = x, undone |-> FALSE]]
  /\ messages' = Imported(x, label)
  /\ minted' = [f \in Fingerprints |->
       IF f \in FingerprintsOf(x) \ Stored THEN minted[f] + 1 ELSE minted[f]]
  /\ observations' = observations \cup Observed(b, x)
  /\ derived' = derived \cup {b}
  /\ documents' = documents \cup Staged(x)
  /\ stored' = [stored EXCEPT ![p] = None]
  /\ UNCHANGED <<artefacts, undoing>>

-----------------------------------------------------------------------------
(* import-undo.                                                             *)

\* undo_batch: SELECT message_id ... WHERE batch_id, in autocommit ...  An id that
\* no batch has finds no row anywhere: no step.
UndoReads(p, b) ==
  /\ Free(p)
  /\ batches[b] # None
  /\ undoing' = [undoing EXCEPT ![p] =
       [batch |-> b, ids |-> {o.id : o \in {q \in observations : q.batch = b}}]]
  /\ UNCHANGED <<batches, messages, minted, observations, derived, documents,
                 artefacts, stored>>

\* Mutant: the messages of the batch go, whoever else observes them.
Orphaned_all(ids, left) == {f \in Stored : Id(f) \in ids}

\* Messages of the batch that no observation is left of; none has a wamid.
Orphaned(ids, left) ==
  {f \in Stored : Id(f) \in ids /\ \A o \in left : o.id # Id(f)}

\* ... then the transaction.  The index is not touched, nor is the artefact.
undo_batch(p) ==
  /\ undoing[p] # None
  /\ LET b == undoing[p].batch
         left == {o \in observations : o.batch # b}
     IN /\ observations' = left
        /\ messages' = [f \in Fingerprints |->
             IF f \in Orphaned(undoing[p].ids, left) THEN None ELSE messages[f]]
        /\ derived' = derived \ {b}
        /\ batches' = [batches EXCEPT ![b] =
             [export |-> batches[b].export, label |-> batches[b].label,
              artefact |-> batches[b].artefact, undone |-> TRUE]]
  /\ undoing' = [undoing EXCEPT ![p] = None]
  /\ UNCHANGED <<minted, documents, artefacts, stored>>

\* The process dies, or its transaction finds vault.db locked.
Dies(p) ==
  /\ ~Free(p)
  /\ stored' = [stored EXCEPT ![p] = None]
  /\ undoing' = [undoing EXCEPT ![p] = None]
  /\ UNCHANGED <<batches, messages, minted, observations, derived, documents,
                 artefacts>>

\* rebuild_all, in one transaction.
rebuild_all ==
  /\ documents' = {Id(f) : f \in Stored}
  /\ UNCHANGED <<batches, messages, minted, observations, derived, artefacts,
                 stored, undoing>>

-----------------------------------------------------------------------------
Next ==
  \/ \E p \in Procs, x \in Exports : store_source_artifact(p, x)
  \/ \E p \in Procs, x \in Exports, l \in SelfLabels, b \in Batches :
       import_batch(p, x, l, b)
  \/ \E p \in Procs, b \in Batches : UndoReads(p, b)
  \/ \E p \in Procs : undo_batch(p)
  \/ \E p \in Procs : Dies(p)
  \/ rebuild_all

Spec == Init /\ [][Next]_vars

-----------------------------------------------------------------------------
(* Properties.                                                              *)

\* However overlapping exports are imported and taken back, in whatever order
\* and by however many processes, the vault holds exactly the messages of the
\* batches that have not been undone: a line repeated k times in one of them is
\* there k times, a message goes with its last batch and not before.
ExactlyLiveImports ==
  Stored = UNION {FingerprintsOf(batches[b].export) : b \in Live}

\* Provenance is complete: a batch that stands has one observation for each
\* message header of its transcript, of that record's message, no two records
\* share a message, and a batch that was undone has left no row behind.
ProvenanceIsComplete ==
  /\ derived = Live
  /\ \A o \in observations : o.batch \in Live
  /\ \A b \in Live : \A i \in MessageHeaders(batches[b].export) :
       \E o \in observations :
         /\ o.batch = b /\ o.ordinal = i
         /\ o.id[1] \in Stored /\ o.id = Id(o.id[1])
         /\ o.id[1] = import_fingerprint(batches[b].export, i)
         /\ \A q \in observations : (q.batch = b /\ q.id = o.id) => q = o

\* doctor's search_missing: every message in the vault is in the search index,
\* also after an undo and a second import of the same lines.
SearchCoversMessages == \A f \in Stored : Id(f) \in documents

\* A batch that names a source artefact can be reparsed: the artefact was on
\* disk before the row, whatever died in between, and stays after an undo.
ArtefactBehindRow ==
  \A b \in Batches : batches[b] # None /\ batches[b].artefact =>
    batches[b].export \in artefacts

=============================================================================
