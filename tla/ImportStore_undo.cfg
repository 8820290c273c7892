SPECIFICATION Spec
CONSTANTS
  Lines = {"hi", "yo", "joined", "13/13", "more"}
  kind <- Kind
  sender <- Sender
  Labels = {"Mona", "You"}
  SelfLabels = {"You"}
  Exports = {"older", "newer", "refused"}
  text <- Text
  Acceptable = {"older", "newer"}
  Batches = {b1, b2, b3}
  Procs = {p1, p2}
  None = None
SYMMETRY Symmetry
INVARIANTS TypeOK ExactlyLiveImports ProvenanceIsComplete SearchCoversMessages
CHECK_DEADLOCK FALSE
