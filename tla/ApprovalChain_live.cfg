SPECIFICATION FairSpec
CONSTANTS
  Drafts = {d1}
  Nonces = {n1}
  Convs = {c1}
  Bodies = {b1}
  Devices = {v1}
  Attempts = {a1}
  Cands = {}
  Senders = {s1, s2}
  Preparers = {p1}
  TTL = 1
  WINDOW = 1
  MaxTime = 2
  InboundTimes = {1, 2}
  ExpiryArgs = {0, 3}
  Callbacks = {FALSE}
  None = None
INVARIANT PermittedByPolicy
PROPERTIES AttemptSettlesOnceRecovered NonceNeverReleased
CHECK_DEADLOCK FALSE
