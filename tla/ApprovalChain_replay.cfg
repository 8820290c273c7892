SPECIFICATION Spec
CONSTANTS
  Drafts = {d1}
  Nonces = {n1, n2}
  Convs = {c1}
  Bodies = {b1}
  Devices = {v1}
  Attempts = {a1, a2}
  Cands = {k1}
  Senders = {s1, s2}
  Preparers = {p1}
  TTL = 1
  WINDOW = 1
  MaxTime = 1
  InboundTimes = {1}
  ExpiryArgs = {0}
  Callbacks = {TRUE, FALSE}
  None = None
SYMMETRY Symmetry
INVARIANTS TypeOK OnePostPerNonce PostIsAuthorised NonceHasOneAttempt RecordIsTruthful
PROPERTY KeepsPromise
CHECK_DEADLOCK FALSE
